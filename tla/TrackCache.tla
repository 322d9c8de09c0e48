---------------------------- MODULE TrackCache ----------------------------
(***************************************************************************)
(* The disk layer of grub4dos, stage2/disk_io.c: rawread and rawwrite with *)
(* the one-track cache at BUFFERADDR, and every place that must invalidate *)
(* it.  Reads go through the cache a track at a time; writes go to the     *)
(* disk and patch the cache; the drives may change under it between two    *)
(* commands (the user exchanges a floppy) and in the middle of one (map    *)
(* --hook exchanges drive numbers).                                        *)
(*                                                                         *)
(* The unit of data is the sector: byte offsets are left out.              *)
(***************************************************************************)
EXTENDS Integers, Sequences

CONSTANTS
  Drives,       \* BIOS drive numbers
  Removable,    \* those whose disk the user can exchange
  Disks,        \* the media
  NoDisk,       \* an empty drive
  NoDrive,      \* the drive number -1
  Size,         \* Size[k]: the number of sectors of disk k
  Spt,          \* Spt[k]: the sectors per track the BIOS gives for disk k
  BufferLen,    \* BUFFERLEN in sectors: the room at BUFFERADDR
  Values,       \* what a sector may hold
  NoValue,      \* no sector: unread buffer, the value of a read call
  Shipped,      \* Shipped[k]: what is on disk k at first
  Wanted,       \* the sectors the commands read between (a bound)
  Targets,      \* the sectors the commands write (a bound)
  Written       \* what they write there (a bound)

SectorsOf(k) == 0 .. Size[k] - 1

ASSUME DisksAssumption ==
  /\ NoDisk \notin Disks /\ NoDrive \notin Drives /\ NoValue \notin Values
  /\ Removable \subseteq Drives
  /\ Size \in [Disks -> Nat \ {0}]
  /\ Spt \in [Disks -> Nat \ {0}]
  /\ BufferLen \in Nat \ {0}
  /\ \A k \in Disks : Shipped[k] \in [SectorsOf(k) -> Values]
  /\ Shipped = [k \in Disks |-> Shipped[k]]
  /\ Wanted \subseteq Nat
  /\ Targets \subseteq Nat
  /\ Written \subseteq Values

VARIABLES
  unit,         \* the disk each drive number reaches
  content,      \* what the disks hold
  pc,           \* "prompt": waiting for a command; "command": in one
  asked,        \* the rawread or rawwrite in progress, its arguments
  answer,       \* what the last one gave its caller
  bufDrive,     \* buf_drive
  bufTrack,     \* buf_track, the first sector of the track; -1 for none
  geom,         \* buf_geom.sectors
  buffer,       \* BUFFERADDR, in sectors
  sector,       \* rawread's sector, as it advances
  got           \* what rawread has copied to its caller so far

machine == <<unit, content>>
cache == <<bufDrive, bufTrack, geom, buffer>>
call == <<asked, answer, sector, got>>
vars == <<machine, pc, call, cache>>

Lowest(a, b) == IF a < b THEN a ELSE b

Call(op, d, from, to, v) ==
  [op |-> op, drive |-> d, from |-> from, to |-> to, value |-> v]
Idle == Call("none", NoDrive, 0, 0, NoValue)
Failed == [ok |-> FALSE, data |-> <<>>]
Given(data) == [ok |-> TRUE, data |-> data]

\* A buffer that holds nothing one could rely on.
Junk == [i \in 0 .. BufferLen - 1 |-> NoValue]

---------------------------------------------------------------------------
(* The BIOS. *)

\* faulty: the geometry is not cut.
GeometryUncut(k) == Spt[k]

\* get_diskinfo's sectors per track, cut so that a track fits the buffer.
Geometry(k) == Lowest(Spt[k], BufferLen)

\* A transfer that reaches past the end of the disk fails, as one from a
\* drive that is empty does.
InReach(d, s, n) == unit[d] \in Disks /\ s + n <= Size[unit[d]]

\* The buffer when n sectors from s of drive d's disk are read to its start;
\* what lies behind them is left over from earlier reads.
Loaded(d, s, n) ==
  [i \in 0 .. BufferLen - 1 |->
     IF i < n THEN content[unit[d]][s + i] ELSE buffer[i]]

---------------------------------------------------------------------------
(* What happens between the calls. *)

\* The user takes the disk out of a drive or puts another one in.
Exchange(d, k) ==
  /\ pc = "prompt"
  /\ unit[d] # k
  /\ k \in Disks => \A e \in Drives : unit[e] # k
  /\ unit' = [unit EXCEPT ![d] = k]
  /\ UNCHANGED <<content, pc, call, cache>>

\* faulty: the cache outlives the command.
TrustCache == /\ pc = "prompt"
              /\ pc' = "command"
              /\ UNCHANGED <<machine, call, cache>>

\* run_script and enter_cmdline before each command, and the completion of
\* a file name: "Invalidate the cache, because the user may exchange
\* removable disks."
StartCommand ==
  /\ pc = "prompt"
  /\ pc' = "command"
  /\ bufDrive' = NoDrive
  /\ UNCHANGED <<machine, call, bufTrack, geom, buffer>>

EndCommand == /\ pc = "command"
              /\ asked = Idle
              /\ pc' = "prompt"
              /\ UNCHANGED <<machine, call, cache>>

\* map --hook, --unhook and --rehook: two drive numbers change places, and
\* the cache is invalidated.
Hook(d, e) ==
  /\ pc = "command"
  /\ asked = Idle
  /\ unit' = [unit EXCEPT ![d] = unit[e], ![e] = unit[d]]
  /\ bufDrive' = NoDrive
  /\ bufTrack' = -1
  /\ UNCHANGED <<content, pc, call, geom, buffer>>

\* faulty: the geometry is taken, the drive it is of is not noted.
TakeUnnoted(d) ==
  IF bufDrive = d
  THEN UNCHANGED <<bufDrive, bufTrack, geom>>
  ELSE /\ bufTrack' = -1
       /\ geom' = Geometry(unit[d])
       /\ UNCHANGED bufDrive

\* get_diskinfo for a drive that the cache is not of.
TakeGeometry(d) ==
  IF bufDrive = d
  THEN UNCHANGED <<bufDrive, bufTrack, geom>>
  ELSE /\ bufDrive' = d
       /\ bufTrack' = -1
       /\ geom' = Geometry(unit[d])

\* real_open_partition: "Make sure that buf_geom is valid."
OpenPartition(d) ==
  /\ pc = "command"
  /\ asked = Idle
  /\ unit[d] \in Disks
  /\ TakeGeometry(d)
  /\ UNCHANGED <<machine, pc, call, buffer>>

---------------------------------------------------------------------------
(* rawread. *)

Begin(c) == /\ asked' = c
            /\ sector' = c.from
            /\ got' = <<>>
            /\ answer' = Failed          \* nothing given yet

Return(a) == /\ answer' = a
             /\ asked' = Idle
             /\ got' = <<>> /\ sector' = 0        \* rawread's locals are gone

AskRead(d, from, to) ==
  /\ pc = "command"
  /\ asked = Idle
  /\ from <= to
  /\ Begin(Call("read", d, from, to, NoValue))
  /\ UNCHANGED <<machine, pc, cache>>

\* The drive is not the cache's and get_diskinfo fails: ERR_NO_DISK.
NoGeometry ==
  /\ asked.op = "read"
  /\ bufDrive # asked.drive
  /\ unit[asked.drive] = NoDisk
  /\ Return(Failed)
  /\ UNCHANGED <<machine, pc, cache>>

ReadGeometry ==
  /\ asked.op = "read"
  /\ bufDrive # asked.drive
  /\ unit[asked.drive] # NoDisk
  /\ TakeGeometry(asked.drive)
  /\ UNCHANGED <<machine, pc, call, buffer>>

VTrack == Lowest(geom, BufferLen)               \* sectors_per_vtrack
Soff == sector % VTrack
Track == sector - Soff
NumSect == VTrack - Soff
Slen == asked.to - sector + 1

\* The sectors copied to the caller in this turn of the loop.
Size1 == Lowest(Slen, NumSect)
Copied(buf, at) == [n \in 1 .. Size1 |-> buf[at + n - 1]]

Advance(buf, at) == /\ got' = got \o Copied(buf, at)
                    /\ sector' = sector + NumSect
                    /\ UNCHANGED <<asked, answer>>

Looping == /\ asked.op = "read"
           /\ bufDrive = asked.drive
           /\ sector <= asked.to

ReadHit ==
  /\ Looping
  /\ Track = bufTrack
  /\ Advance(buffer, Soff)
  /\ UNCHANGED <<machine, pc, cache>>

\* The last turn of the loop fills the whole track, whatever is needed of it.
ReadTrack ==
  /\ Looping
  /\ Track # bufTrack
  /\ Slen <= NumSect
  /\ InReach(asked.drive, Track, VTrack)
  /\ buffer' = Loaded(asked.drive, Track, VTrack)
  /\ bufTrack' = Track
  /\ Advance(buffer', Soff)
  /\ UNCHANGED <<machine, pc, bufDrive, geom>>

\* faulty: the part is kept as if it were the track.
PartIsTrack ==
  /\ Looping
  /\ Track # bufTrack
  /\ Slen > NumSect
  /\ InReach(asked.drive, sector, NumSect)
  /\ buffer' = Loaded(asked.drive, sector, NumSect)
  /\ bufTrack' = Track
  /\ Advance(buffer', 0)
  /\ UNCHANGED <<machine, pc, bufDrive, geom>>

\* An earlier turn reads only what is needed, to the start of the buffer,
\* which then holds no track.
ReadPart ==
  /\ Looping
  /\ Track # bufTrack
  /\ Slen > NumSect
  /\ InReach(asked.drive, sector, NumSect)
  /\ buffer' = Loaded(asked.drive, sector, NumSect)
  /\ bufTrack' = -1
  /\ Advance(buffer', 0)
  /\ UNCHANGED <<machine, pc, bufDrive, geom>>

\* The BIOS may fail at any sector, and fails past the end of the disk; it
\* may have overwritten any part of the buffer by then.
ReadError ==
  /\ Looping
  /\ Track # bufTrack
  /\ buffer' = Junk
  /\ bufTrack' = -1
  /\ Return(Failed)
  /\ UNCHANGED <<machine, pc, bufDrive, geom>>

ReadDone ==
  /\ asked.op = "read"
  /\ bufDrive = asked.drive
  /\ sector > asked.to
  /\ Return(Given(got))
  /\ UNCHANGED <<machine, pc, cache>>

---------------------------------------------------------------------------
(* rawwrite. *)

\* Every caller has opened the partition or read the sector's neighbours
\* before it writes, so the cache's drive is the one written; some set
\* buf_track = -1 first, some do not.
AskWrite(d, s, v) ==
  /\ pc = "command"
  /\ asked = Idle
  /\ bufDrive = d
  /\ Begin(Call("write", d, s, s, v))
  /\ bufTrack' \in {bufTrack, -1}
  /\ UNCHANGED <<machine, pc, bufDrive, geom, buffer>>

\* The sector is already what is to be written: "skip the write if possible".
WriteSame ==
  /\ asked.op = "write"
  /\ InReach(asked.drive, asked.from, 1)
  /\ content[unit[asked.drive]][asked.from] = asked.value
  /\ Return(Given(<<>>))
  /\ UNCHANGED <<machine, pc, cache>>

\* The sector is written, and the cache too where it holds that sector.
WriteSector ==
  /\ asked.op = "write"
  /\ InReach(asked.drive, asked.from, 1)
  /\ content[unit[asked.drive]][asked.from] # asked.value
  /\ content' = [content EXCEPT ![unit[asked.drive]][asked.from] = asked.value]
  /\ IF bufDrive = asked.drive
        /\ asked.from - (asked.from % geom) = bufTrack
     THEN buffer' = [buffer EXCEPT ![asked.from - bufTrack] = asked.value]
     ELSE UNCHANGED buffer
  /\ Return(Given(<<>>))
  /\ UNCHANGED <<unit, pc, bufDrive, bufTrack, geom>>

\* The read into the scratch sector fails, or the write does; a write that
\* fails is taken to have changed nothing.
WriteError ==
  /\ asked.op = "write"
  /\ Return(Failed)
  /\ UNCHANGED <<machine, pc, cache>>

---------------------------------------------------------------------------

Init == /\ unit \in [Drives -> Disks \cup {NoDisk}]
        /\ \A d, e \in Drives : unit[d] = unit[e] /\ unit[d] # NoDisk => d = e
        /\ content = Shipped
        /\ pc = "prompt"
        /\ asked = Idle
        /\ answer = Failed
        /\ bufDrive = NoDrive
        /\ bufTrack = -1
        /\ geom = 0
        /\ buffer = Junk
        /\ sector = 0
        /\ got = <<>>

Between == \/ \E d \in Removable, k \in Disks \cup {NoDisk} : Exchange(d, k)
           \/ StartCommand
           \/ EndCommand
           \/ \E d, e \in Drives : Hook(d, e)
           \/ \E d \in Drives : OpenPartition(d)

Asking == \/ \E d \in Drives, from, to \in Wanted : AskRead(d, from, to)
          \/ \E d \in Drives, s \in Targets, v \in Written : AskWrite(d, s, v)

Answering == \/ NoGeometry \/ ReadGeometry
             \/ ReadHit \/ ReadTrack \/ ReadPart \/ ReadError \/ ReadDone
             \/ WriteSame \/ WriteSector \/ WriteError

Next == Between \/ Asking \/ Answering

Spec == Init /\ [][Next]_vars

\* A call is the machine's own work: nothing has to happen outside for it to
\* go on.
FairSpec == Spec /\ WF_vars(Answering)
---------------------------------------------------------------------------
(* Properties. *)

\* Type invariant; a track in the buffer starts at a multiple of the
\* sectors per track (rawread's track = sector - soff).
TypeOK ==
  /\ unit \in [Drives -> Disks \cup {NoDisk}]
  /\ content = [k \in Disks |-> content[k]]
  /\ \A k \in Disks : content[k] \in [SectorsOf(k) -> Values]
  /\ pc \in {"prompt", "command"}
  /\ \/ asked = Idle
     \/ /\ pc = "command"
        /\ asked.op \in {"read", "write"}
        /\ asked.drive \in Drives
        /\ asked.from \in Nat /\ asked.to \in Nat /\ asked.from <= asked.to
        /\ asked.value \in Values \cup {NoValue}
        /\ asked = Call(asked.op, asked.drive, asked.from, asked.to, asked.value)
  /\ answer.ok \in BOOLEAN
  /\ bufDrive \in Drives \cup {NoDrive}
  /\ bufTrack \in Nat \cup {-1}
  /\ geom \in 0 .. BufferLen
  /\ buffer \in [0 .. BufferLen - 1 -> Values \cup {NoValue}]
  /\ sector \in Nat

\* While a command runs, a cache that names a drive has that drive's
\* geometry, and a track it holds is what the disk now in the drive holds:
\* whatever was read and written before, whatever failed, and whichever disk
\* or drive number was exchanged (rawread, rawwrite's "Update the cache").
CacheCoherent ==
  pc = "command" /\ bufDrive # NoDrive =>
    LET k == unit[bufDrive]
    IN  /\ k \in Disks
        /\ geom = Geometry(k)
        /\ bufTrack # -1 =>
             /\ bufTrack % geom = 0
             /\ bufTrack + geom <= Size[k]
             /\ \A i \in 0 .. geom - 1 : buffer[i] = content[k][bufTrack + i]

\* The layer with its cache answers as one without: every read that does not
\* fail gives the sectors asked for as the disk in the drive now holds them,
\* in order and none left out at a track's end, and a write changes the one
\* sector (rawread; rawwrite, "Write 1 sector").
Disk == INSTANCE Disk
ImplementsDisk == Disk!DiskSpec

\* The loop of rawread ends: a call is answered, also one that asks for more
\* than a track or past the end of the disk.
EveryCallReturns == asked # Idle ~> asked = Idle

===========================================================================
