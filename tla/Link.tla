------------------------------- MODULE Link --------------------------------
(***************************************************************************)
(* What the network code of netboot/main.c supposes of a driver, in each   *)
(* direction: frames may be lost, and those that come out are frames that  *)
(* were put in, whole and undamaged, each at most once and in order.       *)
(***************************************************************************)
EXTENDS Naturals, Sequences

VARIABLES
  sent,       \* the frames that were put in are 1 .. sent
  spoilt,     \* those of them that were damaged on the way in
  out,        \* the frames that came out
  excused     \* the driver promises no more

linkVars == <<sent, spoilt, out, excused>>

LinkInit == sent = 0 /\ spoilt = {} /\ out = <<>> /\ ~excused

Enter ==
  /\ sent' = sent + 1 /\ spoilt' \in {spoilt, spoilt \cup {sent'}}
  /\ UNCHANGED out

Leave ==
  \E f \in 0 .. sent :
    /\ out' = Append(out, f)
    /\ excused' \/ (f \in 1 .. sent \ spoilt /\ \A i \in DOMAIN out : out[i] < f)
    /\ UNCHANGED <<sent, spoilt>>

LinkNext ==
  /\ excused => excused'
  /\ Enter \/ Leave \/ UNCHANGED <<sent, spoilt, out>>

LinkSpec == LinkInit /\ [][LinkNext]_linkVars
=============================================================================
