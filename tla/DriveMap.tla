------------------------------ MODULE DriveMap ------------------------------
(* map: the drive map of builtins.c, map_func, and the int 13 and int 15     *)
(* handlers of asm.S that serve it.  A command changes bios_drive_map; hook  *)
(* copies that to the handler; every later command sees the drives through   *)
(* the handler, and what it maps is worked out down to the BIOS's disks.     *)
(*                                                                           *)
(* Left out: --in-situ, --mem at a fixed address, (md), (rd), CD-ROM drives, *)
(* the counts of drives in the BIOS data area.                               *)
EXTENDS Integers, Sequences, FiniteSets, FiniteSetsExt, SequencesExt

CONSTANTS
  Numbers,       \* drive numbers
  BiosSize,      \* BiosSize[d]: the sectors of the BIOS's disk d; 0: none
  Regions,       \* the memory E820 reports from 1 MB up, in sectors: [base, top]
  MinEmuBase,    \* MIN_EMU_BASE
  Page,          \* 4 KB in sectors
  DriveMapSize,  \* DRIVE_MAP_SIZE
  Commands,      \* the map commands that are given (a bound)
  MaxMaps        \* how many of them in a behaviour (a bound)

Mem == 255                              \* the drive number 0xFF
Floppy(d) == d < 128
MemSectors == UNION {r.base..r.top - 1 : r \in ToSet(Regions)}
AllPlaces == (UNION {{<<d, i>> : i \in 0..BiosSize[d] - 1} : d \in Numbers})
               \cup {<<Mem, a>> : a \in MemSectors}

(* A command maps FROM to an image on TO with its options; with --mem to a   *)
(* copy of it, of -RESERV sectors at least.  The image is a piece of TO, or  *)
(* all of it: as "(hd0)", count = 0, or as "(hd0)+1", count = 1.  kind "fs": *)
(* a file system without a partition table; room: the size its boot sector   *)
(* gives.                                                                    *)
ImageType == [whole : BOOLEAN, start : Nat, count : Nat, spt : Nat \ {0},
              kind : {"fs", "mbr"}, room : Nat]
OptionType == [ro : BOOLEAN, fake : BOOLEAN, unsafe : BOOLEAN,
               nochs : BOOLEAN, nolba : BOOLEAN]
CommandType == [from : Numbers, to : Numbers, img : ImageType, o : OptionType,
                mem : BOOLEAN, reserve : Nat]
Whole(c) == c.img.whole /\ c.img.count = 0

ASSUME DriveMapAssumption ==
  /\ Numbers \subseteq 0..254 /\ BiosSize \in [Numbers -> Nat]
  /\ \A c \in Commands :
       /\ c \in CommandType
       /\ c.img.whole => c.img.start = 0 /\ c.img.count \in {0, 1}
       \* A file of the first sector alone is "+1", all of the drive.
       /\ ~c.img.whole => c.img.count > 0 /\ (c.img.start > 0 \/ c.img.count > 1)
       \* ERR_SPECIFY_MEM, and bounds
       /\ Whole(c) /\ c.mem => c.from = c.to /\ c.o = [ro |-> FALSE, fake |-> FALSE,
            unsafe |-> c.o.unsafe, nochs |-> FALSE, nolba |-> FALSE]
  /\ MinEmuBase \in Nat \ {0} /\ Page \in Nat \ {0} /\ DriveMapSize \in Nat
  \* int15_e820: pages, one region behind the other.
  /\ Regions \in Seq([base : Nat, top : Nat])
  /\ \A i \in DOMAIN Regions : Regions[i].base % Page = 0
  /\ \A i, j \in DOMAIN Regions : i < j => Regions[i].top <= Regions[j].base
  \* All of it is below mem_upper: memcheck lets nothing be written past a hole.
  /\ \A i \in 2..Len(Regions) : Regions[i].base = Regions[i - 1].top

VARIABLES
  mapTable,      \* bios_drive_map up to its first empty slot
  hookedMap,     \* hooked_drive_map, as far
  int13,         \* whether the int 13 handler is ours
  stored,        \* what every sector of the disks and of memory holds
  command,       \* the last command, and whether it was done
  maps           \* map commands so far

mapVars == <<mapTable, hookedMap, int13, stored, command, maps>>

\* A slot: spt is max_sector & 63, ro its bit 7, nolba its bit 6; safe is bit 6
\* of to_sector.  heads is left out: a disk has two at least.
Slot(from, to, start, count, spt, o) ==
  [from |-> from, to |-> to, start |-> start, count |-> count,
   spt |-> IF o.nochs THEN 0 ELSE spt,
   ro |-> o.ro \/ o.fake, nolba |-> o.nolba, safe |-> o.fake \/ ~o.unsafe]

FirstIn(map, d) == SelectInSeq(map, LAMBDA s : s.from = d)

---------------------------------------------------------------------------
(* int13_handler: what becomes of a request [drive, mode, write, at, n].     *)
(* at is the sector that the address means by the drive's own geometry.      *)

Ends(status, moved) == [status |-> status, moved |-> moved]

\* drive_emulation, or a call of the BIOS with another number.
Emulated(s) == s.start # 0 \/ s.count \div 2 # 0 \/ s.spt > 1

\* The BIOS, or real_int13_service in memory.
Reach(to, at, n) ==
  IF to = Mem \/ at + n <= BiosSize[to]
  THEN Ends("done", [i \in 1..n |-> <<to, at + i - 1>>])
  ELSE Ends("failed", <<>>)

\* restricted_map and readonly_fakewrite.
Restricted(s, r) == \/ r.mode = "chs" /\ s.spt = 0
                    \/ r.mode = "lba" /\ s.nolba
                    \/ r.write /\ s.ro
Restriction(s, r) ==
  IF (IF r.mode = "chs" THEN s.spt # 0 ELSE ~s.nolba) /\ s.safe
  THEN Ends("ignored", <<>>) ELSE Ends("refused", <<>>)

\* "is it write 1 sector? ... protect hard disk head 0 and 1".
BootSector(s, r) == /\ r.mode = "chs" /\ r.write /\ r.n = 1 /\ s.safe
                    /\ r.at = 0 \/ (r.at = s.spt /\ ~Floppy(s.from))

\* faulty: one sector past the end is let through.
BoundedLate(s, r) ==
  IF s.start = 0 /\ s.count \div 2 = 0 THEN Reach(s.to, r.at, r.n)
  ELSE IF s.count < r.at THEN Ends("failed", <<>>)
  ELSE IF r.at + r.n <= s.count + 1 THEN Reach(s.to, s.start + r.at, r.n)
  ELSE [Reach(s.to, s.start + r.at, s.count - r.at) EXCEPT !.status = "failed"]

\* bound_check, and the transfer of what it lets through.
Bounded(s, r) ==
  IF s.start = 0 /\ s.count \div 2 = 0 THEN Reach(s.to, r.at, r.n)
  ELSE IF s.count <= r.at THEN Ends("failed", <<>>)
  ELSE IF r.at + r.n <= s.count THEN Reach(s.to, s.start + r.at, r.n)
  ELSE [Reach(s.to, s.start + r.at, s.count - r.at) EXCEPT !.status = "failed"]

Int13(r) ==
  LET i == FirstIn(hookedMap, r.drive)
      s == hookedMap[i]
  IN  IF ~int13 \/ i = 0 THEN Reach(r.drive, r.at, r.n)
      ELSE IF Restricted(s, r) THEN Restriction(s, r)
      ELSE IF ~Emulated(s) THEN Reach(s.to, r.at, r.n)
      ELSE IF BootSector(s, r) THEN Ends("ignored", <<>>)
      ELSE Bounded(s, r)

\* faulty: the first slot that has a disk in the region is the last looked at.
ReportedFirst(r) ==
  LET i == SelectInSeq(hookedMap, LAMBDA s : s.to = Mem /\ s.start \in r.base..r.top - 1)
  IN  r.base..(IF i = 0 THEN r.top ELSE hookedMap[i].start) - 1

\* int15_e820_handler: a region ends where the lowest disk in it begins.
Reported(r) ==
  r.base..Min({r.top} \cup {hookedMap[i].start : i \in
      {j \in DOMAIN hookedMap : hookedMap[j].to = Mem /\ hookedMap[j].start \in r.base..r.top - 1}}) - 1
OsMemory == UNION {IF int13 THEN Reported(r) ELSE r.base..r.top - 1 : r \in ToSet(Regions)}

---------------------------------------------------------------------------
(* map_func. *)

\* get_diskinfo finds the drive.  Its AH=08h does not come back from an
\* emulated drive without CHS access, where the handler divides by zero.
DrivePresent(d) ==
  LET i == FirstIn(hookedMap, d)
  IN  IF int13 /\ i # 0 THEN Emulated(hookedMap[i]) => hookedMap[i].spt # 0
      ELSE d # Mem /\ BiosSize[d] > 0

\* The sectors a drive has for whoever opens it.
Extent(to, start, count) ==
  IF start = 0 /\ count \div 2 = 0 THEN [i \in 1..(IF to = Mem THEN 0 ELSE BiosSize[to]) |-> <<to, i - 1>>]
  ELSE [i \in 1..count |-> <<to, start + i - 1>>]
SeenSectors(d) ==
  LET i == FirstIn(hookedMap, d)
      s == hookedMap[i]
  IN  IF int13 /\ i # 0 THEN Extent(s.to, s.start, s.count) ELSE Extent(d, 0, 0)
SeenReadable(d) ==
  LET i == FirstIn(hookedMap, d)
  IN  int13 /\ i # 0 => hookedMap[i].spt # 0 \/ ~hookedMap[i].nolba

\* The image is on the drive, and the drive can be read.
ImageOpens(c) == /\ DrivePresent(c.to) /\ SeenReadable(c.to)
                 /\ SeenSectors(c.to) # <<>>
                 /\ c.img.start + c.img.count <= Len(SeenSectors(c.to))

\* faulty: the options of the slot that TO has are forgotten.
ResolvedBare(c) ==
  LET i == FirstIn(hookedMap, c.to)
      s == hookedMap[i]
  IN  CASE int13 /\ i # 0 -> [to |-> s.to, start |-> c.img.start + s.start, o |-> c.o]
        [] OTHER -> [to |-> c.to, start |-> c.img.start, o |-> c.o]

\* "check whether TO is being mapped": the slot of TO in the handler, and its
\* options.  An empty slot is one of drive 0 without CHS, and an odd
\* sector_count is a mark of --fake-write.
Resolved(c) ==
  LET i   == FirstIn(hookedMap, c.to)
      s   == hookedMap[i]
      odd == s.count % 2 = 1
  IN  CASE int13 /\ i # 0 ->
             [to |-> s.to, start |-> c.img.start + s.start,
              o |-> [c.o EXCEPT !.nochs = @ \/ s.spt = 0, !.fake = @ \/ odd,
                                !.ro = @ \/ (~odd /\ s.ro), !.nolba = @ \/ s.nolba]]
        [] int13 /\ i = 0 /\ c.to = 0 /\ Len(hookedMap) < DriveMapSize ->
             [to |-> 0, start |-> c.img.start, o |-> [c.o EXCEPT !.nochs = TRUE]]
        [] OTHER -> [to |-> c.to, start |-> c.img.start, o |-> c.o]

\* map_whole_drive: the slot of FROM, or the first empty one.
HasRoom(from) == FirstIn(mapTable, from) # 0 \/ Len(mapTable) < DriveMapSize
WithSlot(s) == LET i == FirstIn(mapTable, s.from)
               IN  IF i # 0 THEN [mapTable EXCEPT ![i] = s] ELSE Append(mapTable, s)

Deletes(c, to, start, o) ==
  /\ to = c.from /\ start = 0 /\ Whole(c)
  /\ ~(o.ro \/ o.fake \/ o.nochs \/ o.nolba)

Ask(c, done) == /\ command' = [op |-> "map", c |-> c, done |-> done]
                /\ maps < MaxMaps /\ maps' = maps + 1
                /\ UNCHANGED <<hookedMap, int13>>

\* delete_drive_map_slot: --mem forces it, and deletes the disks in memory
\* that were mapped later; without it, there must be none.  The slots that
\* stay close up, in their order.
LaterMem(i) == {j \in i + 1..Len(mapTable) : mapTable[j].to = Mem}
ClosesUp(kept) ==
  \E place \in [1..Cardinality(kept) -> kept] :
    /\ \A j, k \in DOMAIN place : j < k => place[j] < place[k]
    /\ mapTable' = [k \in DOMAIN place |-> mapTable[place[k]]]
Delete(c) ==
  LET i == FirstIn(mapTable, c.from)
      memory == i # 0 /\ mapTable[i].to = Mem
  IN  IF i = 0 THEN UNCHANGED mapTable /\ Ask(c, TRUE)
      ELSE IF memory /\ LaterMem(i) # {} /\ ~c.mem
      THEN UNCHANGED mapTable /\ Ask(c, FALSE)
      ELSE /\ ClosesUp(DOMAIN mapTable \ ({i} \cup IF memory THEN LaterMem(i) ELSE {}))
           /\ Ask(c, TRUE)

MapDelete(c) ==
  /\ Deletes(c, c.to, c.img.start, c.o)
  /\ IF HasRoom(c.from) THEN Delete(c) ELSE UNCHANGED mapTable /\ Ask(c, FALSE)
  /\ UNCHANGED stored

\* A whole drive, an image, or a whole drive with a geometry.
MapDirect(c) ==
  LET r == Resolved(c)
      s == Slot(c.from, r.to, r.start, c.img.count,
                IF Whole(c) THEN 1 ELSE c.img.spt, r.o)
  IN  /\ ~c.mem
      /\ ~Deletes(c, c.to, c.img.start, c.o)
      /\ Whole(c) \/ ImageOpens(c)
      /\ IF ~HasRoom(c.from) THEN UNCHANGED mapTable /\ Ask(c, FALSE)
         ELSE IF Deletes(c, r.to, r.start, r.o) THEN Delete(c)
         ELSE IF r.to = Mem \/ ~DrivePresent(r.to) THEN UNCHANGED mapTable /\ Ask(c, FALSE)
         ELSE mapTable' = WithSlot(s) /\ Ask(c, TRUE)
      /\ UNCHANGED stored

\* --mem: as much as the image, its boot sector or RESERV asks for, behind a
\* track for a partition table, in whole kilobytes; from the top of the first
\* region that has room below the disks already there.
RoundUp(n, k) == ((n + k - 1) \div k) * k
Ahead(c) == IF c.img.kind = "fs" /\ ~Floppy(c.from) THEN c.img.spt ELSE 0
Needed(c, n) == RoundUp(Max({n, c.reserve, c.img.room}) + Ahead(c), 2)
Below(r) == Min({r.top} \cup {mapTable[i].start : i \in
              {j \in DOMAIN mapTable : mapTable[j].to = Mem /\ mapTable[j].start \in r.base..r.top - 1}})
Base(r, needed) ==
  IF Below(r) - r.base >= needed THEN Below(r) - needed - ((Below(r) - needed) % Page) ELSE 0
Fitting(needed) == {i \in DOMAIN Regions : Base(Regions[i], needed) >= MinEmuBase}

\* The copy: the first sector is in memory already (BS), the rest is read
\* behind it; a source that it overwrites is lost.
Transfer(c, base, total, source) ==
  LET first == base + Ahead(c)
      copy(i) == IF \E j \in DOMAIN source : source[j] \in {<<Mem, a>> : a \in base..base + total - 1}
                 THEN <<"junk">>
                 ELSE IF i = 1 /\ Ahead(c) > 0 THEN <<"adjusted">> \o stored[source[i]]
                 ELSE stored[source[i]]
  IN  [p \in AllPlaces |->
         IF p[1] # Mem \/ p[2] \notin base..first + Len(source) - 1 THEN stored[p]
         ELSE IF p[2] >= first THEN copy(p[2] - first + 1)
         ELSE IF p[2] = base THEN <<"mbr">> ELSE stored[p]]

MapMemory(c) ==
  LET n      == IF c.img.whole THEN Len(SeenSectors(c.to)) ELSE c.img.count
      source == SubSeq(SeenSectors(c.to), c.img.start + 1, c.img.start + n)
      total  == Needed(c, n)
      base   == Base(Regions[Min(Fitting(total))], total)
  IN  /\ c.mem /\ ~Whole(c)
      /\ ImageOpens(c)
      /\ IF ~HasRoom(c.from) \/ Fitting(total) = {}
         THEN Ask(c, FALSE) /\ UNCHANGED <<mapTable, stored>>
         ELSE \/ /\ Ask(c, TRUE)
                 /\ stored' = Transfer(c, base, total, source)
                 /\ mapTable' = WithSlot(Slot(c.from, Mem, base, total, c.img.spt, Resolved(c).o))
              \/ /\ Ask(c, FALSE)                       \* the drive fails
                 /\ stored' = [stored EXCEPT ![<<Mem, base + Ahead(c)>>] = <<"junk">>]
                 /\ UNCHANGED mapTable

\* map --hook and --rehook, and boot; unset_int13_handler comes first also
\* where the table is empty, which is an error.
HookMap ==
  /\ int13' = (mapTable # <<>>)
  /\ hookedMap' = IF mapTable = <<>> THEN hookedMap ELSE mapTable
  /\ command' = [op |-> "hook", done |-> mapTable # <<>>]
  /\ UNCHANGED <<mapTable, stored, maps>>

UnhookMap ==
  /\ int13' = FALSE
  /\ command' = [op |-> "unhook", done |-> TRUE]
  /\ UNCHANGED <<mapTable, hookedMap, stored, maps>>

\* Whoever has the machine writes (bound: through the handler, once).
WriteThrough(r) ==
  /\ int13
  /\ \A p \in AllPlaces : stored[p] # r.value
  /\ LET out == Int13(r)
     IN  stored' = [p \in AllPlaces |->
                      IF \E i \in DOMAIN out.moved : out.moved[i] = p THEN r.value ELSE stored[p]]
  /\ command' = [op |-> "write", c |-> r]
  /\ UNCHANGED <<mapTable, hookedMap, int13, maps>>

Request(d, mode, write, at, n) ==
  [drive |-> d, mode |-> mode, write |-> write, at |-> at, n |-> n, value |-> <<"written">>]

MapInit == /\ mapTable = <<>> /\ hookedMap = <<>> /\ int13 = FALSE
           /\ stored = [p \in AllPlaces |-> p]
           /\ command = [op |-> "none"] /\ maps = 0

MapNext == \/ \E c \in Commands : MapDelete(c) \/ MapDirect(c) \/ MapMemory(c)
           \/ HookMap \/ UnhookMap
           \/ \E d \in Numbers : WriteThrough(Request(d, "lba", TRUE, 1, 1))

MapSpec == MapInit /\ [][MapNext]_mapVars

---------------------------------------------------------------------------
(* The disks of a table. *)

SlotDisk(s) ==
  LET em == Emulated(s)
  IN  [secs |-> Extent(s.to, s.start, s.count), emulated |-> em, kept |-> s.ro,
       chs |-> s.spt # 0, lba |-> ~s.nolba, marked |-> s.count % 2 = 1,
       guard |-> IF ~em \/ s.ro \/ s.spt = 0 \/ ~s.safe THEN {}
                 ELSE {0} \cup IF Floppy(s.from) THEN {} ELSE {s.spt}]
DiskOf(map, d) ==
  LET i == FirstIn(map, d)
  IN  IF i = 0
      THEN [secs |-> Extent(d, 0, 0), emulated |-> FALSE, kept |-> FALSE,
            chs |-> TRUE, lba |-> TRUE, marked |-> FALSE, guard |-> {}]
      ELSE SlotDisk(map[i])
ShownDisk == [d \in Numbers |-> DiskOf(IF int13 THEN hookedMap ELSE <<>>, d)]

DT == INSTANCE DriveTable WITH
        Floppies <- {d \in Numbers : Floppy(d)},
        Own <- [d \in Numbers |-> Extent(d, 0, 0)],
        Memory <- {<<Mem, a>> : a \in MemSectors},
        meant <- [d \in Numbers |-> DiskOf(mapTable, d)],
        shown <- ShownDisk

\* Whatever is mapped, remapped, deleted, hooked and unhooked in whatever
\* order, a number shows, from the next hook on, the disk it was given: the
\* sectors that the other number showed when map was run, through every map
\* in force then, or a true copy of them in memory that no other disk uses
\* (map_func).
ImplementsDriveTable == DT!TableSpec

\* The handler serves every request on a disk as the disk promises: nothing
\* outside it is ever read or written, nothing inside it fails, and no write
\* reaches a kept sector (int13_handler, bound_check, restricted_map).
ServesShown ==
  int13 => \A d \in Numbers, mode \in {"chs", "lba"}, write \in BOOLEAN, at \in 0..5, n \in 1..2 :
    LET r == Request(d, mode, write, at, n)
    IN  Int13(r) \in DT!Serve(ShownDisk[d], r)

\* No memory that a disk of the handler is in is given to the operating
\* system (map_func's placement, int15_e820_handler).
MemoryReserved ==
  int13 => \A i \in DOMAIN hookedMap :
             hookedMap[i].to = Mem =>
               OsMemory \cap (hookedMap[i].start..hookedMap[i].start + hookedMap[i].count - 1) = {}
=============================================================================
