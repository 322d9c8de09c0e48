----------------------------- MODULE FileReader -----------------------------
(* What grub_open and grub_read promise to a command: a file that is there   *)
(* is opened, one that is not is refused, and a read delivers the bytes of   *)
(* the file from the position on, as many as were asked for and are left.    *)
(* Only a disk that lost a read during the call, a file or a volume that     *)
(* nothing is promised of, excuses anything else.                            *)
EXTENDS Integers, Sequences

CONSTANTS Byte,     \* what a byte can be
          NoFile    \* what a path without a file leads to

VARIABLES st,       \* shut, opening, open, reading, failed
          file,     \* the contents of the file that the path leads to
          pos,      \* the position
          want,     \* bytes asked for
          got,      \* bytes delivered by the last read
          lost      \* a read of the disk failed during this call, or the
                    \* file or the volume is one of which no promise is made

vars == <<st, file, pos, want, got, lost>>

Busy == st \in {"opening", "reading"}

Init == /\ st = "shut" /\ file = NoFile /\ pos = 0 /\ want = 0
        /\ got = <<>> /\ lost = FALSE

Shut == /\ ~Busy
        /\ st' = "shut" /\ file' = NoFile /\ pos' = 0 /\ want' = 0
        /\ got' = <<>> /\ lost' \in BOOLEAN

Open == /\ ~Busy
        /\ st' = "opening" /\ file' \in Seq(Byte) \cup {NoFile} /\ pos' = 0
        /\ want' = 0 /\ got' = <<>> /\ lost' \in BOOLEAN

Lose == /\ Busy
        /\ lost' = TRUE
        /\ UNCHANGED <<st, file, pos, want, got>>

Found == /\ st = "opening" /\ (file # NoFile \/ lost)
         /\ st' = "open"
         /\ UNCHANGED <<file, pos, want, got, lost>>

Refused == /\ st = "opening" /\ (file = NoFile \/ lost')
           /\ st' = "failed"
           /\ UNCHANGED <<file, pos, want, got>>

Seek == /\ st = "open"
        /\ got' = <<>> /\ want' = 0 /\ lost' \in BOOLEAN
        /\ lost' \/ pos' \in 0..Len(file)
        /\ UNCHANGED <<st, file>>

Read == /\ st = "open"
        /\ st' = "reading" /\ want' \in Nat /\ got' = <<>> /\ lost' \in BOOLEAN
        /\ UNCHANGED <<file, pos>>

Asked == LET end == IF want < Len(file) - pos THEN pos + want ELSE Len(file)
         IN  SubSeq(file, pos + 1, end)

Delivered == /\ st = "reading"
             /\ lost' \/ got' = Asked
             /\ pos' = pos + Len(got')
             /\ st' = "open"
             /\ UNCHANGED <<file, want>>

Failed == /\ st = "reading" /\ lost'
          /\ st' = "failed"
          /\ UNCHANGED <<file, want>>

Next == Shut \/ Open \/ Lose \/ Found \/ Refused \/ Seek \/ Read
        \/ Delivered \/ Failed

Spec == Init /\ [][Next]_vars
=============================================================================
