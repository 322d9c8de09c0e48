----------------------------- MODULE Partitions -----------------------------
(* The partitions of a hard disk in grub4dos: next_partition, the loop of    *)
(* real_open_partition, and the commands that walk or change the tables.     *)
(* find, root endpart and partnew open a partition in the middle of a walk   *)
(* of their own, and both walks read tables and labels into the one buffer   *)
(* mbr.                                                                      *)
(*                                                                           *)
(* A sector is a table of four entries, a BSD label, a boot sector or        *)
(* nothing of interest.  A file is the sequence of its sectors.              *)
EXTENDS Integers, Sequences, FiniteSets, SequencesExt

CONSTANTS
  Disks,        \* what hard disks hold: functions from sectors to records
  Files,        \* Files[start]: the files of the file system there
  Commands,     \* the commands that are given
  MaxCommands   \* how many of them (a bound)

VARIABLES
  disk, saved, answer,
  mbr,          \* the buffer
  it,           \* it.outer: a command's iterator; it.inner: real_open_partition's
  at,           \* where the walk that runs is
  cmd,          \* the command, current_partition, and what was found
  given         \* commands given so far

partitionVars == <<disk, saved, answer, mbr, it, at, cmd, given>>

Extended(type) == type \in {5, 15, 21, 31, 133}
Bsd(type) == type \in {165, 166, 169}
WholeDisk == [slice |-> 255, bsd |-> 255]
Other == [kind |-> "other"]
Sector(s) == IF s \in DOMAIN disk THEN disk[s] ELSE Other
Unread == [slice |-> 255, bsd |-> 255, type |-> 0, start |-> 0, len |-> 0,
           offset |-> 0, ext |-> 0, entry |-> 0]
NameOf(i) == [slice |-> i.slice, bsd |-> i.bsd]

NoCommand == [op |-> "none"]
NoWalk == [who |-> "outer", step |-> "idle", dest |-> WholeDisk]

PartitionsInit ==
  /\ disk \in Disks /\ saved = WholeDisk /\ answer = NoCommand
  /\ mbr = Other /\ it = [outer |-> Unread, inner |-> Unread] /\ at = NoWalk
  /\ cmd = NoCommand /\ given = 0

(* rawread into the buffer.  Bound: the disk fails once in a command.        *)
MayFail == ~cmd.lost
Lose == MayFail /\ cmd' = [cmd EXCEPT !.lost = TRUE] /\ UNCHANGED mbr
Fetch(s) == mbr' = Sector(s) /\ UNCHANGED cmd

-----------------------------------------------------------------------------
(* next_partition of the walk that runs, one rawread at a time.              *)

My == it[at.who]
Run(i) == it' = [it EXCEPT ![at.who] = i]
Continue(step) == at' = [at EXCEPT !.step = step]

(* BSD parts come first, when the last one was a slice or part of BSD.       *)
CallNext(who, i, dest) ==
  at' = [who |-> who, dest |-> dest,
         step |-> IF NameOf(i) # WholeDisk /\ Bsd(i.type) THEN "bsd" ELSE "table"]
CallAgain == CallNext(at.who, My, at.dest)

\* faulty: the slice is not left.
BsdEndsNever == Continue("bsd") /\ UNCHANGED it

(* No (further) part: a search for one ends here, any other goes on.         *)
BsdEnds == /\ Continue(IF at.dest.bsd # 255 /\ at.dest.slice \in {255, My.slice}
                       THEN "none" ELSE "table")
           /\ UNCHANGED it

PartsAfter(label, b) == {j \in 1..Len(label.parts) : j - 1 > b /\ label.parts[j].type # 0}
FirstOf(S) == CHOOSE j \in S : \A k \in S : j <= k
SearchLabel(label, b) ==
  LET after == PartsAfter(label, b)
      j     == FirstOf(after)
  IN  IF after = {} THEN BsdEnds
      ELSE /\ Run([My EXCEPT !.bsd = j - 1, !.start = label.parts[j].start,
                             !.len = label.parts[j].len])
           /\ Continue("found")

LabelSector == My.start + 1
ReadLabel ==
  /\ at.step = "bsd" /\ My.bsd = 255
  /\ \/ My.len < 2 /\ BsdEnds /\ UNCHANGED <<mbr, cmd>>
     \/ /\ My.len >= 2 /\ Fetch(LabelSector)
        /\ IF Sector(LabelSector).kind = "label" THEN SearchLabel(Sector(LabelSector), -1)
                                                 ELSE BsdEnds
     \/ My.len >= 2 /\ Lose /\ BsdEnds

(* The label is not read again: the buffer is searched, whatever it holds.   *)
Garbage == {[kind |-> "label", parts |-> <<>>]} \cup
  {[kind |-> "label", parts |-> [j \in 1..k |-> [type |-> IF j = k THEN 7 ELSE 0,
                                                 start |-> 0, len |-> 0]]] : k \in 1..8}
LabelsIn == IF mbr.kind = "label" THEN {mbr} ELSE Garbage
NextInLabel ==
  /\ at.step = "bsd" /\ My.bsd # 255
  /\ \E label \in LabelsIn : SearchLabel(label, My.bsd)
  /\ UNCHANGED <<mbr, cmd>>

(* The next entry of a table; below the first one, empty entries and entries *)
(* that are filled are passed over.                                          *)
Count(i) == IF i.slice = 255 THEN -1 ELSE i.slice
Passed(e, count) == count >= 3 /\ (e.filled \/ e.type = 0)
NextEntries(table, i) ==
  {j \in 1..4 : j > i.entry /\ ~Passed(table.entries[j], Count(i))}

\* Links count as the partition before them, but for the first four.
Numbered(e, count) == IF count < 3 \/ ~Extended(e.type) THEN count + 1 ELSE count

Take(table, i, j) ==
  LET e == table.entries[j]
  IN  /\ Run([i EXCEPT !.entry = j, !.type = e.type, !.start = i.offset + e.start,
                       !.len = e.len, !.slice = Numbered(e, Count(i)), !.bsd = 255])
      /\ Continue("found")

\* faulty: links are counted from the table they are in.
FollowFrom(i) == i.offset

\* The first link of the table leads on.
Base(i) == i.ext
Follow(table, i) ==
  LET links == {j \in 1..4 : Extended(table.entries[j].type)}
      next  == Base(i) + table.entries[FirstOf(links)].start
  IN  IF links = {} THEN /\ Run([i EXCEPT !.entry = 5]) /\ Continue("none")
      ELSE /\ Run([i EXCEPT !.offset = next, !.ext = IF @ = 0 THEN next ELSE @, !.entry = 0])
           /\ Continue("table")

ReadTable ==
  LET i == IF My.slice = 255 THEN [My EXCEPT !.offset = 0, !.ext = 0, !.entry = 0] ELSE My
      t == Sector(i.offset)
  IN  /\ at.step = "table"
      /\ \/ /\ Fetch(i.offset)
            /\ IF t.kind # "table" \/ ~t.signed THEN Run(i) /\ Continue("none")
               ELSE IF NextEntries(t, i) = {} THEN Follow(t, i)
               ELSE Take(t, i, FirstOf(NextEntries(t, i)))
         \/ Lose /\ Run(i) /\ Continue("none")

NextPartition == /\ ReadLabel \/ NextInLabel \/ ReadTable
                 /\ UNCHANGED <<disk, saved, answer>>

-----------------------------------------------------------------------------
(* real_open_partition: a name is looked for from the first table on.        *)

OpenNamed(name) ==
  IF name = WholeDisk
  THEN /\ it' = [it EXCEPT !.inner = Unread]
       /\ at' = [who |-> "inner", step |-> "opened", dest |-> name]
  ELSE it' = [it EXCEPT !.inner = Unread] /\ CallNext("inner", Unread, name)

IsDest(i) == /\ i.type # 0
             /\ NameOf(i) = at.dest \/ (at.dest.slice = 255 /\ i.bsd = at.dest.bsd)
OpenStep ==
  /\ at.who = "inner" /\ cmd.op # "list"
  /\ \/ at.step = "found" /\ IF IsDest(My) THEN Continue("opened") ELSE CallAgain
     \/ at.step = "none" /\ Continue("closed")
  /\ UNCHANGED <<it, cmd>>

(* The command ends.  What it left in the buffer is not looked at again.     *)
Finish(ok, told) ==
  /\ answer' = [cmd EXCEPT !.told = told] @@ [ok |-> ok]
  /\ cmd' = NoCommand /\ at' = NoWalk /\ mbr' = Other
  /\ it' = [outer |-> Unread, inner |-> Unread]
Fail == Finish(FALSE, <<>>) /\ UNCHANGED <<disk, saved>>
FailLost == /\ MayFail
            /\ answer' = [cmd EXCEPT !.lost = TRUE] @@ [ok |-> FALSE]
            /\ cmd' = NoCommand /\ at' = NoWalk /\ mbr' = Other
            /\ it' = [outer |-> Unread, inner |-> Unread]
            /\ UNCHANGED <<disk, saved>>

Opened == at.who = "inner" /\ at.step = "opened"
Closed == at.who = "inner" /\ at.step = "closed"
Mounts == it.inner.start \in DOMAIN Files

(* attempt_mount, and grub_open of a file: the disk may fail there, too.     *)
NotMounted == \/ Closed /\ UNCHANGED cmd
              \/ Opened /\ ~Mounts /\ UNCHANGED cmd
              \/ Opened /\ Mounts /\ MayFail /\ cmd' = [cmd EXCEPT !.lost = TRUE]
HasFile == Opened /\ Mounts /\ cmd.file \in DOMAIN Files[it.inner.start]
LacksFile == \/ (Closed \/ (Opened /\ ~HasFile)) /\ UNCHANGED cmd
             \/ HasFile /\ MayFail /\ cmd' = [cmd EXCEPT !.lost = TRUE]

-----------------------------------------------------------------------------
(* The commands.                                                             *)

Kept == UNCHANGED <<disk, saved, answer>>
OpenDone ==
  /\ cmd.op = "open"
  /\ \/ Opened /\ Finish(TRUE, <<[slice |-> it.inner.slice, bsd |-> it.inner.bsd,
                                  start |-> it.inner.start, len |-> it.inner.len]>>)
     \/ Closed /\ Finish(FALSE, <<>>)
  /\ UNCHANGED <<disk, saved>>

Plain(i) == i.type # 0 /\ (i.bsd # 255 \/ ~Bsd(i.type)) /\ ~Extended(i.type)

\* real_open_partition(1): every partition is shown, or offered as completion.
ListStep ==
  /\ cmd.op = "list"
  /\ \/ /\ at.step = "found" /\ CallAgain
        /\ cmd' = IF Plain(My) THEN [cmd EXCEPT !.told = Append(@, NameOf(My))] ELSE cmd
        /\ UNCHANGED <<it, mbr>> /\ Kept
     \/ at.step = "none" /\ Finish(TRUE, cmd.told) /\ UNCHANGED <<disk, saved>>

\* real_root_func, where it sets the root.
RootDone ==
  /\ cmd.op \in {"root", "rootnoverify"} \/ (cmd.op \in {"endpart", "findroot"} /\ cmd.final)
  /\ \/ /\ (Opened /\ Mounts) \/ (cmd.op = "rootnoverify" /\ (Opened \/ Closed))
        /\ saved' = cmd.current
        /\ Finish(TRUE, <<>>)
        /\ UNCHANGED disk
     \/ cmd.op # "rootnoverify" /\ (Closed \/ (Opened /\ ~Mounts)) /\ Fail
     \/ cmd.op # "rootnoverify" /\ Opened /\ Mounts /\ FailLost

(* The walk of a command over all partitions.                                *)
OuterAgain == CallNext("outer", it.outer, WholeDisk)
Outer(step) == at.who = "outer" /\ at.step = step
Visit(ops) ==
  /\ cmd.op \in ops /\ Outer("found")
  /\ IF Plain(My) THEN OpenNamed(NameOf(My)) ELSE CallAgain /\ UNCHANGED it
  /\ UNCHANGED <<cmd, mbr>> /\ Kept

\* root endpart: the last partition that can be mounted.
EndpartStep ==
  \/ Visit({"endpart"})
  \/ /\ cmd.op = "endpart" /\ ~cmd.final
     /\ \/ /\ Opened /\ Mounts
           /\ cmd' = [cmd EXCEPT !.current = NameOf(it.inner)]
        \/ NotMounted
     /\ OuterAgain
     /\ UNCHANGED <<it, mbr>> /\ Kept
  \/ /\ cmd.op = "endpart" /\ Outer("none")
     /\ OpenNamed(cmd.current)
     /\ cmd' = [cmd EXCEPT !.final = TRUE]
     /\ UNCHANGED mbr /\ Kept

\* find, with and without --set-root.
FindStep ==
  \/ Visit({"find", "findroot"})
  \/ /\ cmd.op = "find"
     /\ \/ HasFile /\ cmd' = [cmd EXCEPT !.told = Append(@, NameOf(it.inner))]
        \/ LacksFile
     /\ OuterAgain
     /\ UNCHANGED <<it, mbr>> /\ Kept
  \/ /\ cmd.op = "findroot" /\ ~cmd.final
     /\ \/ /\ HasFile
           /\ cmd' = [cmd EXCEPT !.current = NameOf(it.inner), !.final = TRUE]
           /\ OpenNamed(NameOf(it.inner))
        \/ LacksFile /\ OuterAgain /\ UNCHANGED it
     /\ UNCHANGED mbr /\ Kept
  \/ cmd.op = "find" /\ Outer("none") /\ Finish(cmd.told # <<>>, cmd.told) /\ UNCHANGED <<disk, saved>>
  \/ cmd.op = "findroot" /\ Outer("none") /\ Fail

\* hide, unhide and parttype: the table that was read last is written back.
IsHidden(type) == (type \div 16) % 2 = 1
NewType(type) == CASE cmd.set = "hide" -> IF IsHidden(type) THEN type ELSE type + 16
                   [] cmd.set = "unhide" -> IF IsHidden(type) THEN type - 16 ELSE type
                   [] OTHER -> cmd.type

Write(s, table) == disk' = [disk EXCEPT ![s] = table]
TypeStep ==
  /\ cmd.op \in {"settype", "type"}
  /\ \/ /\ Outer("found") /\ NameOf(My) # cmd.arg
        /\ CallAgain /\ UNCHANGED <<it, cmd, mbr>> /\ Kept
     \/ /\ Outer("found") /\ NameOf(My) = cmd.arg
        /\ \/ cmd.op = "type" /\ Finish(TRUE, <<[type |-> mbr.entries[My.entry].type]>>) /\ UNCHANGED <<disk, saved>>
           \/ /\ cmd.op = "settype"
              /\ Write(My.offset, [mbr EXCEPT !.entries[My.entry].type = NewType(@)])
              /\ Finish(TRUE, <<>>) /\ UNCHANGED saved
           \/ cmd.op = "settype" /\ FailLost
     \/ Outer("none") /\ Fail

ReadMbr ==
  /\ at.step = "mbr"
  /\ \/ Fetch(0) /\ Continue("write") /\ UNCHANGED it /\ Kept
     \/ FailLost

\* make_saved_active.
Activated(entries, i) == [j \in 1..4 |-> [entries[j] EXCEPT !.active = (j = i)]]
MakeActive ==
  LET i == cmd.arg.slice + 1
  IN  /\ cmd.op = "makeactive" /\ at.step = "write"
      /\ \/ Extended(mbr.entries[i].type) /\ Fail
         \/ /\ ~Extended(mbr.entries[i].type)
            /\ IF mbr.entries[i].active THEN UNCHANGED disk
               ELSE Write(0, [mbr EXCEPT !.entries = Activated(@, i)])
            /\ Finish(TRUE, <<>>) /\ UNCHANGED saved
         \/ ~Extended(mbr.entries[i].type) /\ ~mbr.entries[i].active /\ FailLost

-----------------------------------------------------------------------------
(* partnew.  The file is taken for contiguous when its last sector is as far *)
(* from the first as it would be then; the block list +1 is the partition.   *)
FileSectors == IF cmd.file = "+1" THEN <<it.inner.start>>
            ELSE Files[it.inner.start][cmd.file]
CanQuery == Opened /\ cmd.from # WholeDisk /\ (cmd.file = "+1" \/ HasFile)
PieceOf(c) ==
  [start |-> c[1],
   len |-> IF c[1] = it.inner.start /\ Len(c) = 1 THEN it.inner.len ELSE Len(c)]
Inside(p) == p.start >= it.inner.start /\ p.start + p.len <= it.inner.start + it.inner.len
Piece ==
  LET c == FileSectors
      p == PieceOf(c)
  IN  /\ cmd.op = "partnew"
      /\ \/ (Closed \/ (Opened /\ ~CanQuery)) /\ Fail
         \/ CanQuery /\ FailLost
         \/ CanQuery /\ (Last(c) - c[1] # Len(c) - 1 \/ ~Inside(p)) /\ Fail
         \/ /\ CanQuery /\ Last(c) - c[1] = Len(c) - 1 /\ Inside(p)
            /\ cmd' = [cmd EXCEPT !.start = p.start, !.len = p.len]
            /\ mbr' = Sector(p.start)
            /\ at' = [at EXCEPT !.step = "boot"]
            /\ UNCHANGED it /\ Kept

\* A boot sector is told where it is, and tells the type of its file system.
AutoType(type, fs) == IF type \notin {0, 16} THEN type ELSE IF fs = 131 THEN 131
                      ELSE IF type = 16 /\ ~IsHidden(fs) THEN fs + 16 ELSE fs
BootSector ==
  /\ at.step = "boot"
  /\ \/ /\ mbr.kind # "boot" /\ UNCHANGED <<disk, cmd, mbr>>
        /\ Continue("mbr") /\ UNCHANGED <<it, saved, answer>>
     \/ /\ mbr.kind = "boot"
        /\ cmd' = [cmd EXCEPT !.type = AutoType(@, mbr.fs)]
        /\ IF mbr.hidden = cmd.start THEN UNCHANGED <<disk, mbr>>
           ELSE /\ mbr' = [mbr EXCEPT !.hidden = cmd.start]
                /\ disk' = [disk EXCEPT ![cmd.start] = mbr']
        /\ Continue("mbr") /\ UNCHANGED <<it, saved, answer>>
     \/ mbr.kind = "boot" /\ mbr.hidden # cmd.start /\ FailLost

\* The old entry must be empty, or be part of another one.
Covered(i) ==
  LET e == mbr.entries[i]
  IN  \/ e.start = 0 /\ e.len = 0
      \/ \E j \in 1..4 \ {i} : LET f == mbr.entries[j]
                               IN  e.start >= f.start /\ e.start + e.len <= f.start + f.len
Entered(entries, i) ==
  LET active == cmd.set = "active" \/ entries[i].active
  IN  [j \in 1..4 |-> IF j = i THEN [type |-> cmd.type, start |-> cmd.start, len |-> cmd.len,
                                     active |-> active, filled |-> FALSE]
                      ELSE [entries[j] EXCEPT !.active = @ /\ ~active]]
Partnew ==
  LET i == cmd.arg.slice + 1
      empty == cmd.type = 0 /\ cmd.start = 0 /\ cmd.len = 0
      right == /\ cmd.file # "" => Covered(i)
               /\ empty \/ (cmd.start # 0 /\ cmd.len # 0)
  IN  /\ cmd.op = "partnew" /\ at.step = "write"
      /\ \/ ~right /\ Fail
         \/ /\ right
            /\ Write(0, [mbr EXCEPT !.entries = Entered(@, i), !.signed = TRUE])
            /\ Finish(TRUE, <<>>) /\ UNCHANGED saved
         \/ right /\ FailLost

-----------------------------------------------------------------------------
(* A command is given.  hide, parttype and partnew refuse what is no slice.  *)
Accepts(c) == CASE c.op = "settype" \/ c.op = "type" -> c.arg.slice # 255 /\ c.arg.bsd = 255
                [] c.op = "makeactive" -> c.arg.slice <= 3
                [] c.op = "partnew" -> c.arg.slice <= 3 /\ c.arg.bsd = 255
                [] OTHER -> TRUE
Given(c) == [(IF c.op \in {"makeactive", "endpart"} THEN [c EXCEPT !.arg = saved] ELSE c)
             EXCEPT !.told = <<>>]
Start ==
  /\ cmd = NoCommand /\ given < MaxCommands
  /\ given' = given + 1
  /\ \E c0 \in Commands :
       LET c == Given(c0)
       IN  /\ cmd' = c @@ [current |-> c.arg, final |-> FALSE]
           /\ IF ~Accepts(c) THEN at' = [NoWalk EXCEPT !.step = "refused"] /\ UNCHANGED it
              ELSE CASE c.op \in {"open", "root", "rootnoverify"} -> OpenNamed(c.arg)
                [] c.op = "list" -> CallNext("inner", Unread, WholeDisk) /\ UNCHANGED it
                [] c.op = "partnew" /\ c.file # "" -> OpenNamed(c.from)
                [] c.op = "makeactive" \/ (c.op = "partnew" /\ c.file = "") ->
                     at' = [NoWalk EXCEPT !.step = "mbr"] /\ UNCHANGED it
                [] OTHER -> CallNext("outer", Unread, WholeDisk) /\ UNCHANGED it
  /\ answer' = NoCommand
  /\ UNCHANGED <<disk, saved, mbr>>

Works ==
  /\ cmd # NoCommand
  /\ \/ at.step = "refused" /\ Fail
     \/ NextPartition
     \/ OpenStep /\ UNCHANGED mbr /\ Kept
     \/ OpenDone \/ ListStep \/ RootDone \/ EndpartStep \/ FindStep \/ TypeStep
     \/ ReadMbr \/ MakeActive \/ Piece \/ BootSector \/ Partnew
  /\ UNCHANGED given

PartitionsNext == Start \/ Works

-----------------------------------------------------------------------------
(* Every command does to the disk and to the root what it promises, whatever *)
(* the chain of tables, and whichever reads and writes fail.                 *)
Table == INSTANCE PartitionTable
ImplementsPartitionTable == Table!TableSpec

(* Every command ends (on tables whose links do not lead back).              *)
EveryCommandEnds == (cmd # NoCommand) ~> (cmd = NoCommand)
=============================================================================
