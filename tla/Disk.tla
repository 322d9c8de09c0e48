------------------------------- MODULE Disk -------------------------------
(***************************************************************************)
(* What the disk layer of grub4dos (stage2/disk_io.c) promises to the file *)
(* systems and the commands above it: a read gives what is on the disk now *)
(* in the drive, or an error; a write changes the one sector it names, or  *)
(* gives an error and changes nothing.  Nothing in this specification      *)
(* knows that there is a cache: TrackCache implements it.                  *)
(***************************************************************************)
EXTENDS Integers, Sequences

CONSTANTS
  Drives,       \* BIOS drive numbers
  Disks,        \* the media, whichever drive they are in
  NoDisk,       \* what an empty drive holds
  NoDrive,      \* the drive number -1
  Size,         \* Size[k]: the number of sectors of disk k
  Values,       \* what a sector may hold
  NoValue       \* the value of a call that writes nothing

VARIABLES
  unit,         \* unit[d]: the disk in drive d, or NoDisk
  content,      \* content[k][s]: what sector s of disk k holds
  asked,        \* the call in progress
  answer        \* what the last finished call gave its caller

diskVars == <<unit, content, asked, answer>>

SectorsOf(k) == 0 .. Size[k] - 1

Call(op, d, from, to, v) ==
  [op |-> op, drive |-> d, from |-> from, to |-> to, value |-> v]

Idle == Call("none", NoDrive, 0, 0, NoValue)
Reading(d, from, to) == Call("read", d, from, to, NoValue)
Writing(d, s, v) == Call("write", d, s, s, v)

Failed == [ok |-> FALSE, data |-> <<>>]
Given(data) == [ok |-> TRUE, data |-> data]

\* Sectors i to j of disk k, in the order of the disk.
Contents(k, i, j) == [n \in 1 .. j - i + 1 |-> content[k][i + n - 1]]

---------------------------------------------------------------------------

\* Between two calls the drives may come to hold other disks: the user
\* changes a floppy, or the map command exchanges drive numbers.
Change == /\ asked = Idle
          /\ unit' \in [Drives -> Disks \cup {NoDisk}]
          /\ UNCHANGED <<content, asked, answer>>

IsRead(c) == /\ c.drive \in Drives /\ c.from \in Nat /\ c.to \in Nat
             /\ c = Reading(c.drive, c.from, c.to)
IsWrite(c) == /\ c.drive \in Drives /\ c.from \in Nat /\ c.value \in Values
              /\ c = Writing(c.drive, c.from, c.value)

Ask == /\ asked = Idle
       /\ IsRead(asked') \/ IsWrite(asked')
       /\ answer' = Failed              \* nothing given yet
       /\ UNCHANGED <<unit, content>>

AnswerRead == /\ asked.op = "read"
              /\ \/ answer' = Failed
                 \/ /\ unit[asked.drive] \in Disks
                    /\ asked.to < Size[unit[asked.drive]]
                    /\ answer' = Given(Contents(unit[asked.drive],
                                                asked.from, asked.to))
              /\ asked' = Idle
              /\ UNCHANGED <<unit, content>>

AnswerWrite == /\ asked.op = "write"
               /\ \/ answer' = Failed /\ UNCHANGED content
                  \/ /\ unit[asked.drive] \in Disks
                     /\ asked.from \in SectorsOf(unit[asked.drive])
                     /\ content' = [content EXCEPT
                          ![unit[asked.drive]][asked.from] = asked.value]
                     /\ answer' = Given(<<>>)
               /\ asked' = Idle
               /\ UNCHANGED unit

DiskInit == /\ unit \in [Drives -> Disks \cup {NoDisk}]
            /\ \A k \in Disks : content[k] \in [SectorsOf(k) -> Values]
            /\ asked = Idle
            /\ answer = Failed

DiskNext == Change \/ Ask \/ AnswerRead \/ AnswerWrite

DiskSpec == DiskInit /\ [][DiskNext]_diskVars
===========================================================================
