--------------------------- MODULE MCTrackCache ---------------------------
(***************************************************************************)
(* The disk layer on small machines: the track cache of TrackCache.tla and *)
(* the drive map of DriveMap.tla.  The two are independent: part says      *)
(* which of them a behaviour is about.                                     *)
(***************************************************************************)
EXTENDS TrackCache, DriveMap

VARIABLE part
partVars == <<part, vars, mapVars>>

\* A floppy drive, a hard disk that map can exchange with it, and two disks.
\* Disk A's tracks of four sectors are cut to the three that the buffer
\* holds, which do not divide its size: its last track is a part of one.
\* Disk B's tracks have two sectors.
MCDrives == {"fd0", "hd0"}
MCDisks == {"A", "B"}
MCSize == [k \in MCDisks |-> IF k = "A" THEN 5 ELSE 4]
MCSpt == [k \in MCDisks |-> IF k = "A" THEN 4 ELSE 2]
\* Every sector starts with a value of its own, so that no exchange of two
\* goes unnoticed; the commands write one of these values.
MCShipped == [k \in MCDisks |-> [s \in 0 .. MCSize[k] - 1 |-> <<k, s>>]]
MCValues == {<<k, s>> : k \in MCDisks, s \in 0 .. 4}
MCWritten == {<<"A", 0>>}

\* map: a floppy and a hard disk, and the number of a second hard disk that
\* is not there; memory in two regions, the first too small for most copies.
MCNumbers == {0, 128, 129}
MCBiosSize == [d \in MCNumbers |-> CASE d = 0 -> 2 [] d = 128 -> 5 [] OTHER -> 0]
MCRegions == <<[base |-> 8, top |-> 10], [base |-> 10, top |-> 19]>>

Plain == [ro |-> FALSE, fake |-> FALSE, unsafe |-> FALSE, nochs |-> FALSE, nolba |-> FALSE]
ReadOnly == [Plain EXCEPT !.ro = TRUE, !.unsafe = TRUE]
NoLba == [Plain EXCEPT !.nolba = TRUE]
NoChs == [Plain EXCEPT !.nochs = TRUE]
Unsafe == [Plain EXCEPT !.unsafe = TRUE]

Piece(start, count, kind, room) ==
  [whole |-> FALSE, start |-> start, count |-> count, spt |-> 2,
   kind |-> kind, room |-> room]
Drive == [Piece(0, 0, "mbr", 0) EXCEPT !.whole = TRUE]
Plus1 == [Piece(0, 1, "mbr", 0) EXCEPT !.whole = TRUE]
System == Piece(1, 3, "fs", 1)
Map(to, img, from, o) ==
  [from |-> from, to |-> to, img |-> img, o |-> o, mem |-> FALSE, reserve |-> 0]
InMem(c, reserve) == [c EXCEPT !.mem = TRUE, !.reserve = reserve]

AllCommands ==
  {Map(d, Drive, d, Plain) : d \in MCNumbers} \cup
  {InMem(Map(129, Drive, 129, Plain), 0),
   Map(0, Drive, 128, Plain), Map(128, Drive, 0, Plain), Map(128, Drive, 129, ReadOnly),
   Map(129, Drive, 128, Plain), Map(129, Drive, 0, NoLba), Map(128, Drive, 0, NoChs),
   Map(128, System, 129, Plain), Map(128, System, 0, ReadOnly),
   Map(129, Piece(1, 2, "mbr", 3), 0, Unsafe), Map(128, Piece(0, 2, "mbr", 2), 129, NoLba),
   Map(129, Plus1, 128, Plain), Map(128, Plus1, 128, Plain),
   InMem(Map(128, System, 129, Plain), 0), InMem(Map(128, System, 0, Plain), 4),
   InMem(Map(0, Plus1, 129, ReadOnly), 0), InMem(Map(129, Plus1, 128, Plain), 0),
   InMem(Map(129, Piece(1, 2, "mbr", 3), 0, Plain), 0)}
MCCommands == AllCommands

MCInit == /\ Init /\ MapInit /\ part \in {"cache", "map"}
          /\ part = "map" => unit = [d \in Drives |-> NoDisk]
MCNext == /\ UNCHANGED part
          /\ \/ part = "cache" /\ Next /\ UNCHANGED mapVars
             \/ part = "map" /\ MapNext /\ UNCHANGED vars
MCSpec == /\ MCInit /\ [][MCNext]_partVars
          /\ WF_partVars(part = "cache" /\ Answering /\ UNCHANGED <<part, mapVars>>)
===========================================================================
