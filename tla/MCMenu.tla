-------------------------------- MODULE MCMenu --------------------------------
(***************************************************************************)
(* Small instances of Menu.                                                *)
(***************************************************************************)
EXTENDS Menu

Screen(h) == [dumb |-> FALSE, height |-> h]
Dumb(h)   == [dumb |-> TRUE,  height |-> h]

\* Eleven entries, so that numbers of two digits are typed, on a screen that
\* shows three lines and on a dumb terminal.  In the second configuration the
\* menu is hidden, the default fails, and one of its fallbacks is no entry.
CursorTerms == {Screen(3), Dumb(2)}
CursorConfigs ==
  {[default |-> Saved, timeout |-> 1, fallback |-> <<>>,      hidden |-> FALSE],
   [default |-> 10,    timeout |-> 1, fallback |-> <<12, 1>>, hidden |-> TRUE]}
CursorSaves   == [e \in 0 .. 10 |-> "none"]
CursorHealths == {[e \in 0 .. 10 |-> IF e = 10 THEN "noload" ELSE "works"]}

\* Three entries that may fail in every way, the configuration of grub.texi
\* and others: repeated and missing fallbacks, a missing default, no clock.
BootTerms == {Screen(2)}
BootConfigs ==
  [default : {Saved, 7}, timeout : {-1, 0}, hidden : BOOLEAN,
   fallback : {<<>>, <<1, 2>>, <<1, 1>>, <<1, 1, 2>>, <<9, 2>>, <<2, 0, 1>>}]
BootSaves   == [e \in 0 .. 2 |-> IF e = 2 THEN "self" ELSE "fallback"]
BootHealths == [0 .. 2 -> Health]

\* A full list of fallbacks, the last of which is no entry.
FullConfigs ==
  {[default |-> Saved, timeout |-> 1, fallback |-> <<0, 1, 9>>, hidden |-> FALSE]}
==============================================================================
