--------------------------- MODULE PartitionTable ---------------------------
(* What the commands on partitions promise.  The tables of a disk are a      *)
(* chain; its entries have numbers: the four of the first table 0 to 3, the  *)
(* ones further down that hold a partition, in order, 4 and so on.  A slice  *)
(* of BSD may have lettered parts.                                           *)
EXTENDS Integers, Sequences, FiniteSets, SequencesExt

CONSTANTS Files        \* Files[start]: the files there, each a sequence of sectors

VARIABLES disk,        \* disk[s]: the table, label or boot sector at s
          saved,       \* the root partition
          answer       \* the last command, how it ended, and what it told

tableVars == <<disk, saved, answer>>

Extended(type) == type \in {5, 15, 21, 31, 133}
Bsd(type) == type \in {165, 166, 169}
IsTable(s) == s \in DOMAIN disk /\ disk[s].kind = "table" /\ disk[s].signed

(* The sectors of the tables.  Links count from the first one.               *)
Link(s) == LET i == SelectInSeq(disk[s].entries, LAMBDA e : Extended(e.type))
           IN  IF i = 0 THEN -1 ELSE disk[s].entries[i].start
Chain ==
  LET base == IF IsTable(0) THEN Link(0) ELSE -1
      table[k \in 0..Cardinality(DOMAIN disk)] ==
        IF k = 0 THEN 0 ELSE IF k = 1 THEN base
        ELSE IF table[k - 1] = -1 \/ ~IsTable(table[k - 1]) THEN -1
        ELSE IF Link(table[k - 1]) = -1 THEN -1 ELSE base + Link(table[k - 1])
  IN  SelectSeq([k \in 1..Cardinality(DOMAIN disk) + 1 |-> table[k - 1]], IsTable)

Holds(e) == ~e.filled /\ e.type # 0 /\ ~Extended(e.type)
Slice(s, i) == LET e == disk[s].entries[i]
               IN  [table |-> s, i |-> i, type |-> e.type, start |-> s + e.start, len |-> e.len]
Logicals(s) == [i \in 1..4 |-> IF Holds(disk[s].entries[i]) THEN <<Slice(s, i)>> ELSE <<>>]
Slices == LET chain == Chain
          IN  IF chain = <<>> THEN <<>>
              ELSE [i \in 1..4 |-> Slice(0, i)] \o
                   FlattenSeq([k \in 1..Len(chain) - 1 |-> FlattenSeq(Logicals(chain[k + 1]))])

\* The number of the k-th slice is k - 1.
Letters(x) ==
  IF ~Bsd(x.type) \/ x.len < 2 \/ x.start + 1 \notin DOMAIN disk THEN <<>>
  ELSE IF disk[x.start + 1].kind # "label" THEN <<>> ELSE disk[x.start + 1].parts
Whole(x, k) == [slice |-> k - 1, bsd |-> 255, start |-> x.start, len |-> x.len]
PartsOf(x, k) ==
  LET letters == Letters(x)
      used == SetToSortSeq({b \in DOMAIN letters : letters[b].type # 0}, <)
  IN  [j \in DOMAIN used |-> [slice |-> k - 1, bsd |-> used[j] - 1,
                              start |-> letters[used[j]].start, len |-> letters[used[j]].len]]

(* The partition of a name; without a number, a letter is of the first BSD   *)
(* slice, and without either it is the whole disk.                           *)
WholeDisk == [slice |-> 255, bsd |-> 255]
Named(name) ==
  LET all == Slices
      k == IF name.slice = 255 THEN SelectInSeq(all, LAMBDA x : Bsd(x.type)) ELSE name.slice + 1
  IN  IF name = WholeDisk THEN {[slice |-> 255, bsd |-> 255, start |-> 0, len |-> 0]}
      ELSE IF k \notin DOMAIN all THEN {}
      ELSE IF name.bsd = 255 THEN {Whole(all[k], k) : x \in {y \in {all[k]} : y.type # 0}}
      ELSE {p \in ToSet(PartsOf(all[k], k)) : p.bsd = name.bsd}

(* All of them in order, as a user sees them.                                *)
Visible ==
  LET all == Slices
  IN  FlattenSeq([k \in DOMAIN all |->
        IF all[k].type = 0 \/ Extended(all[k].type) THEN <<>>
        ELSE IF Bsd(all[k].type) THEN PartsOf(all[k], k) ELSE <<Whole(all[k], k)>>])
NameOf(p) == [slice |-> p.slice, bsd |-> p.bsd]
Names(all) == [i \in DOMAIN all |-> NameOf(all[i])]
Mounts(p) == p.start \in DOMAIN Files
With(f) == SelectSeq(Visible, LAMBDA p : Mounts(p) /\ f \in DOMAIN Files[p.start])
Mountable == SelectSeq(Visible, Mounts)

---------------------------------------------------------------------------
(* answer: a command, whether it succeeded (ok), whether the disk failed     *)
(* once meanwhile (lost), and what it told.  A command that may not fail     *)
(* otherwise fails only when something was lost.                             *)

Reading == UNCHANGED disk

\* (hd0,3) that is empty may be taken for a link of the chain.
Mistaken(name) == name = [slice |-> 3, bsd |-> 255]

Open(a) == /\ IF a.ok THEN a.told[1] \in Named(a.arg) \/ (Named(a.arg) = {} /\ Mistaken(a.arg))
                      ELSE a.lost \/ Named(a.arg) = {}
           /\ Reading /\ UNCHANGED saved

\* A failure ends the list, or hides partitions or letters.
Shown(told, all, lost) ==
  IF lost THEN ToSet(told) \subseteq ToSet(all) ELSE told = all
List(a) == /\ Shown(a.told, Names(Visible), a.lost)
           /\ Reading /\ UNCHANGED saved

Root(a) ==
  /\ IF a.ok THEN saved' = a.arg /\ \/ \E p \in Named(a.arg) : Mounts(p)
                                    \/ Named(a.arg) = {} /\ Mistaken(a.arg)
     ELSE saved' = saved /\ (a.lost \/ \A p \in Named(a.arg) : ~Mounts(p))
  /\ Reading

RootUnverified(a) == saved' = a.arg /\ Reading

\* The last one that can be mounted.
RootEnd(a) ==
  LET names == Names(Mountable)
  IN  /\ IF a.lost THEN saved' \in {saved} \cup ToSet(names)
         ELSE IF names = <<>> THEN a.ok = (\E p \in Named(saved) : Mounts(p)) /\ saved' = saved
         ELSE a.ok /\ saved' = Last(names)
      /\ Reading

Find(a) == Shown(a.told, Names(With(a.file)), a.lost) /\ saved' = saved /\ Reading

FindRoot(a) ==
  LET names == Names(With(a.file))
  IN  /\ IF a.ok THEN \E i \in DOMAIN names : saved' = names[i] /\ (a.lost \/ i = 1)
         ELSE saved' = saved /\ (a.lost \/ names = <<>>)
      /\ Reading

(* Exactly the entry of the number is changed.                               *)
Hidden(type) == IF (type \div 16) % 2 = 1 THEN type ELSE type + 16
Unhidden(type) == IF (type \div 16) % 2 = 1 THEN type - 16 ELSE type
SetType(a) ==
  LET all == Slices
      k == a.arg.slice + 1
      new(type) == CASE a.set = "hide" -> Hidden(type)
                     [] a.set = "unhide" -> Unhidden(type)
                     [] OTHER -> a.type
  IN  /\ IF a.ok
         THEN /\ k \in DOMAIN all
              /\ disk' = [disk EXCEPT ![all[k].table].entries[all[k].i].type = new(@)]
         ELSE Reading /\ (a.lost \/ k \notin DOMAIN all)
      /\ UNCHANGED saved

TypeOf(a) ==
  LET all == Slices
      k == a.arg.slice + 1
  IN  /\ IF a.ok THEN k \in DOMAIN all /\ a.told = <<[type |-> all[k].type]>>
                 ELSE a.lost \/ k \notin DOMAIN all
      /\ Reading /\ UNCHANGED saved

\* One primary partition is active.
Active(entries, i) == [j \in 1..4 |-> [entries[j] EXCEPT !.active = (j = i)]]
Activate(a) ==
  LET n == a.arg.slice
  IN  /\ IF a.ok
         THEN /\ n \in 0..3 /\ ~Extended(disk[0].entries[n + 1].type)
              /\ \/ disk[0].entries[n + 1].active /\ Reading
                 \/ disk' = [disk EXCEPT ![0].entries = Active(@, n + 1)]
         ELSE Reading /\ (a.lost \/ n \notin 0..3 \/ Extended(disk[0].entries[n + 1].type))
      /\ UNCHANGED saved

(* A new entry.  One made from a file starts where the file does, covers as  *)
(* many sectors, and never leaves sectors out that belonged to a partition.  *)
SectorsOf(e) == e.start..e.start + e.len - 1
InUse(entries) == UNION {SectorsOf(entries[i]) : i \in 1..4}
Contents(p, file) ==
  IF file = "+1" THEN [i \in 1..p.len |-> p.start + i - 1]
  ELSE IF Mounts(p) /\ file \in DOMAIN Files[p.start] THEN Files[p.start][file] ELSE <<>>
Contiguous(sectors) == \A i \in DOMAIN sectors : sectors[i] = sectors[1] + i - 1
OnlyOne(entries, i) == entries[i].active => \A j \in 1..4 \ {i} : ~entries[j].active
Refused(a, old) ==
  \/ a.arg.slice \notin 0..3 \/ a.arg.bsd # 255
  \/ a.file = "" /\ (a.start = 0 \/ a.len = 0) /\ <<a.type, a.start, a.len>> # <<0, 0, 0>>
  \/ a.file # "" /\ \/ Named(a.from) = {}
                     \/ \E p \in Named(a.from) : LET c == Contents(p, a.file)
                                                 IN  c = <<>> \/ ~Contiguous(c)
                     \/ \A j \in 1..4 \ {a.arg.slice + 1} :
                          ~(SectorsOf(old[a.arg.slice + 1]) \subseteq SectorsOf(old[j]))
New(a) ==
  LET old == disk[0].entries
      new == disk'[0].entries
      i   == a.arg.slice + 1
  IN  /\ IF a.ok
         THEN /\ i \in 1..4
              /\ disk' = [disk EXCEPT ![0] = disk'[0]] /\ disk'[0].signed
              /\ OnlyOne(new, i)
              /\ (a.type \in {0, 16} /\ a.file # "") \/ new[i].type = a.type
              /\ \A j \in 1..4 \ {i} : new[j] \in {old[j], [old[j] EXCEPT !.active = FALSE]}
              /\ IF a.file = "" THEN new[i].start = a.start /\ new[i].len = a.len
                 ELSE /\ InUse(old) \subseteq InUse(new)
                      /\ Mistaken(a.from) \/ \E p \in Named(a.from) :
                           LET c == Contents(p, a.file)
                           IN  c # <<>> /\ new[i].start = c[1] /\ new[i].len = Len(c)
         ELSE Reading /\ (a.lost \/ Refused(a, old))
      /\ UNCHANGED saved

\* On the way, a boot sector is told where it is.
Relocate == /\ \E s \in DOMAIN disk : /\ disk[s].kind = "boot"
                                      /\ disk' = [disk EXCEPT ![s].hidden = s]
            /\ UNCHANGED <<saved, answer>>

Ask == answer' = [op |-> "none"] /\ UNCHANGED <<disk, saved>>
Answer ==
  LET a == answer'
  IN  answer.op = "none" /\
      CASE a.op = "open" -> Open(a)
        [] a.op = "list" -> List(a)
        [] a.op = "root" -> Root(a)
        [] a.op = "rootnoverify" -> RootUnverified(a)
        [] a.op = "endpart" -> RootEnd(a)
        [] a.op = "find" -> Find(a)
        [] a.op = "findroot" -> FindRoot(a)
        [] a.op = "settype" -> SetType(a)
        [] a.op = "type" -> TypeOf(a)
        [] a.op = "makeactive" -> Activate(a)
        [] a.op = "partnew" -> New(a)
        [] OTHER -> FALSE

TableSpec == answer = [op |-> "none"] /\ [][Ask \/ Answer \/ Relocate]_tableVars
=============================================================================
