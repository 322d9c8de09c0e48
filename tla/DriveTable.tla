----------------------------- MODULE DriveTable -----------------------------
(* What map promises.  A drive number shows a disk: sectors, in order, with  *)
(* the accesses that are refused.  map gives a number the disk that another  *)
(* number shows at the time, a piece of it, or a copy of that in memory; the *)
(* numbers show what they were given from the next map --hook on.            *)
EXTENDS Integers, Sequences

CONSTANTS Numbers,     \* drive numbers
          Floppies,    \* those of floppy drives
          Own,         \* Own[d]: the sectors of the BIOS's disk d
          Memory       \* the sectors of memory that disks are made of

VARIABLES meant,       \* the disk each number was given
          shown,       \* the disk each number shows
          stored,      \* what the sectors hold
          command      \* the last command, and whether it was done

tableVars == <<meant, shown, stored, command>>

(* guard: the sectors that a write of one sector by CHS leaves alone.        *)
(* marked: what is made of it ignores writes.                                *)
BiosDisk(d) == [secs |-> Own[d], emulated |-> FALSE, kept |-> FALSE,
                chs |-> TRUE, lba |-> TRUE, marked |-> FALSE, guard |-> {}]

Places(disk) == {disk.secs[i] : i \in DOMAIN disk.secs}
UsedBut(from) == UNION {Places(meant[d]) : d \in Numbers \ {from}}
Free == Memory \ UNION {Places(meant[d]) : d \in Numbers}

(* A request's outcomes: the sectors moved, and how it ends.                 *)
Ends(status, moved) == [status |-> status, moved |-> moved]
Serve(disk, r) ==
  LET inside == Len(disk.secs) - r.at
  IN  IF ~(IF r.mode = "lba" THEN disk.lba ELSE disk.chs) THEN {Ends("refused", <<>>)}
      ELSE IF r.write /\ disk.kept THEN {Ends("refused", <<>>), Ends("ignored", <<>>)}
      ELSE IF r.write /\ r.mode = "chs" /\ r.n = 1 /\ r.at \in disk.guard
      THEN {Ends("ignored", <<>>)}
      ELSE IF inside <= 0 THEN {Ends("failed", <<>>)}
      ELSE IF r.n <= inside THEN {Ends("done", SubSeq(disk.secs, r.at + 1, r.at + r.n))}
      ELSE {Ends("failed", SubSeq(disk.secs, r.at + 1, Len(disk.secs))), Ends("failed", <<>>)}

(* All of a drive: its geometry stays, and the second track is unknown.      *)
AllOf(c) == c.img.whole /\ c.img.count = 0
Track(c) == IF AllOf(c) THEN 1 ELSE c.img.spt

(* What is made of a disk keeps its limits and gets those asked for, and no  *)
(* others: but that an odd number of sectors is taken for a mark, and that   *)
(* the first floppy drive may lose CHS access.                               *)
Obeys(new, disk, c) ==
  /\ new.kept = (c.o.ro \/ c.o.fake \/ disk.kept \/ disk.marked)
  /\ new.lba = (disk.lba /\ ~c.o.nolba)
  /\ new.chs = (disk.chs /\ ~c.o.nochs) \/ (~new.chs /\ c.to = 0)
  /\ new.marked = (~c.mem /\ c.img.count % 2 = 1)
  /\ new.guard = IF ~new.emulated \/ new.kept \/ ~new.chs \/ c.o.unsafe THEN {}
                 ELSE {0} \cup IF c.from \in Floppies THEN {} ELSE {Track(c)}

Gives(c) == /\ Obeys(meant'[c.from], shown[c.to], c)
            /\ meant' = [meant EXCEPT ![c.from] = meant'[c.from]]
            /\ UNCHANGED shown

(* A whole drive.  Where that is a piece itself, its end is lost: the new    *)
(* disk is empty, one sector, or all of the disk it is a piece of.           *)
MapWhole(c) ==
  LET disk == shown[c.to]
  IN  /\ Gives(c)
      /\ \/ meant'[c.from].secs = disk.secs
         \/ /\ disk.emulated
            /\ \/ meant'[c.from].secs \in {SubSeq(disk.secs, 1, n) : n \in 0..1}
               \/ \E d \in Numbers : meant'[c.from].secs = Own[d]
      /\ UNCHANGED stored

Image(c) == LET secs == shown[c.to].secs
            IN  IF c.img.whole THEN secs
                ELSE SubSeq(secs, c.img.start + 1, c.img.start + c.img.count)
MapPiece(c) ==
  /\ Gives(c)
  /\ meant'[c.from].emulated
  /\ meant'[c.from].secs = Image(c)
  /\ UNCHANGED stored

(* The copy is in memory that no other number was given, and is true unless  *)
(* part of the image is in memory that was given up.  It may follow a track  *)
(* with a partition table for it, its boot sector adjusted, and be longer    *)
(* than the image.                                                           *)
Copied(v) == {v, <<"adjusted">> \o v}
MapCopy(c) ==
  LET from == Image(c)
      new  == meant'[c.from]
  IN  /\ Gives(c)
      /\ new.emulated
      /\ Places(new) \subseteq Memory \ UsedBut(c.from)
      /\ \E front \in {0, c.img.spt} :
           /\ Len(new.secs) >= front + Len(from)
           /\ (\A i \in DOMAIN from : from[i] \notin Free) =>
                \A i \in DOMAIN from :
                  stored'[new.secs[front + i]] \in
                    IF i = 1 THEN Copied(stored[from[i]]) ELSE {stored[from[i]]}
      /\ \A p \in DOMAIN stored \ Places(new) : stored'[p] = stored[p]

(* The number is the BIOS's again; several disks in memory can be given up.  *)
Unmap(c) ==
  /\ \E gone \in SUBSET Numbers :
       /\ meant' = [d \in Numbers |-> IF d \in gone THEN BiosDisk(d) ELSE meant[d]]
       /\ c.from \in gone
       /\ \A d \in gone \ {c.from} : c.mem /\ Places(meant[d]) \subseteq Memory
  /\ UNCHANGED <<shown, stored>>

(* A command that fails leaves the disks, but may have begun a copy.         *)
Fails == /\ UNCHANGED <<meant, shown>>
         /\ \A p \in DOMAIN stored : stored'[p] = stored[p] \/ p \in Free

Map(c) == IF c.from = c.to /\ AllOf(c)
             /\ ~(c.o.ro \/ c.o.fake \/ c.o.nochs \/ c.o.nolba) THEN Unmap(c)
          ELSE IF c.mem THEN MapCopy(c)
          ELSE IF c.img.whole THEN MapWhole(c)
          ELSE MapPiece(c)

Hook   == shown' = meant /\ UNCHANGED <<meant, stored>>
Unhook == shown' = [d \in Numbers |-> BiosDisk(d)] /\ UNCHANGED <<meant, stored>>

Write(r) ==
  \E out \in Serve(shown[r.drive], r) :
    /\ stored' = [p \in DOMAIN stored |->
                    IF \E i \in DOMAIN out.moved : out.moved[i] = p THEN r.value ELSE stored[p]]
    /\ UNCHANGED <<meant, shown>>

Command == CASE command'.op = "map" -> IF command'.done THEN Map(command'.c) ELSE Fails
             [] command'.op = "hook" -> Hook
             [] command'.op = "unhook" -> Unhook
             [] command'.op = "write" -> Write(command'.c)
             [] OTHER -> FALSE

TableInit == /\ meant = [d \in Numbers |-> BiosDisk(d)] /\ shown = meant
             /\ command = [op |-> "none"]
TableSpec == TableInit /\ [][Command]_tableVars
=============================================================================
