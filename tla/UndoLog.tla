------------------------------- MODULE UndoLog -------------------------------
(***************************************************************************)
(* What the Windows side of instlux promises: nothing of a distribution is *)
(* on the disk, in the registry or in the boot manager unless the means to *)
(* take it away again is in place, and that goes away last.                *)
(***************************************************************************)
CONSTANT Agents      \* those who leave traces and take them away again
VARIABLES armed,     \* agents whose undo program is in place
          dirty      \* agents of whom there is a trace

Init == armed = {} /\ dirty = {}

Arm(a) == armed' = armed \cup {a} /\ UNCHANGED dirty

\* Only an agent that can be undone leaves a trace; it may cover another's.
Touch(a) ==
  /\ a \in armed
  /\ a \in dirty' /\ dirty' \subseteq dirty \cup {a}
  /\ UNCHANGED armed

Clean == dirty' \subseteq dirty /\ UNCHANGED armed

Disarm(a) == a \notin dirty /\ armed' = armed \ {a} /\ UNCHANGED dirty

Next == (\E a \in Agents : Arm(a) \/ Touch(a) \/ Disarm(a)) \/ Clean

Spec == Init /\ [][Next]_<<armed, dirty>>
==============================================================================
