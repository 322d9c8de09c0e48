------------------------------ MODULE MenuProofs ------------------------------
(***************************************************************************)
(* Proofs about Menu: every variable keeps its type, the highlighted entry *)
(* or line exists and is inside the box, no fallback is tried twice, and   *)
(* what savedefault would save is what run_menu tries next, for any number *)
(* of entries, any terminals, any configuration and any keys.              *)
(***************************************************************************)
EXTENDS Menu, TLAPS

(***************************************************************************)
(* The inductive invariant.  chk is where the validation of the list       *)
(* stopped: the numbers before it are entries, and fallback is before it.  *)
(***************************************************************************)
FallbacksAreEntries ==
  /\ pc \in {"config", "fallback"} => fallback = -1
  /\ pc = "validate" => fallback = 0
  /\ pc = "validate" \/ fallback >= 0 => \A j \in 0 .. chk - 1 : list[j] \in Entries
  /\ pc # "validate" /\ fallback >= 0 =>
       /\ fallback < chk
       /\ chk < MaxFallback => list[chk] < 0

\* What is saved, and so the default, is a number from 0 up.
NeverNegative ==
  ~ emptied => /\ saved >= 0 /\ current >= 0
               /\ level = "edit" => first >= 0 /\ entryno >= 0

InBox == pc \in {"menu", "hidden"} /\ ~ term.dumb => entryno < H

CursorOnEntry ==
  ~ (emptied /\ config.default = Saved) =>
    /\ level = "main" => OnEntry(first, entryno)
    /\ level = "edit" => OnEntry(outer.first, outer.entryno)

Lines == /\ level = "main" => num = N
         /\ num = 0 => emptied

\* fallback_func is at an argument, with room for its number.
InArguments ==
  /\ pc = "config" => chk = 0 /\ arg = 1
  /\ pc = "fallback" => chk < MaxFallback /\ arg \in 1 .. Len(config.fallback)

Inv == TypeOK /\ InArguments /\ FallbacksAreEntries /\ NeverNegative /\ InBox
       /\ CursorOnEntry /\ Lines

LEMMA DivMod ==
  ASSUME NEW t \in Nat, NEW h \in Nat \ {0}
  PROVE  /\ t \div h \in Nat /\ t % h \in 0 .. h - 1
         /\ (t \div h) * h \in Nat
         /\ (t \div h) * h + (t % h) = t
  BY SMT

LEMMA TermType == TypeOK => H \in Nat \ {0, 1}
  BY MenuAssumption DEF TypeOK, DiskOK, CursorOK, ListOK, RunOK, H

LEMMA InitInv == Init => Inv
<1> SUFFICES ASSUME Init PROVE Inv
  OBVIOUS
<1> USE MenuAssumption DEF Init, Nothing, NoFallbacks
<1>1. TypeOK
  <2>1. list \in [0 .. MaxFallback - 1 -> Int]
    OBVIOUS
  <2>2. DiskOK /\ CursorOK /\ ListOK /\ RunOK
    BY <2>1 DEF DiskOK, CursorOK, ListOK, RunOK, Entries, Positions
  <2>3. FlagsOK
    BY DEF FlagsOK
  <2> QED
    BY <2>2, <2>3 DEF TypeOK
<1>2. FallbacksAreEntries /\ NeverNegative /\ Lines /\ InArguments
  BY DEF FallbacksAreEntries, NeverNegative, Lines, InArguments
<1>3. InBox /\ CursorOnEntry
  BY DEF InBox, CursorOnEntry, OnEntry, H
<1> QED
  BY <1>1, <1>2, <1>3 DEF Inv

\* Only a number that is on the list is saved for the next boot.
LEMMA SaveType ==
  ASSUME TypeOK, NEW s \in Scripts, ~ Fails(s)
  PROVE  /\ Save(s.save, current) \in Int
         /\ saved >= 0 /\ current >= 0 => Save(s.save, current) >= 0
<1>1. s.save \in SaveArgs
  BY MenuAssumption DEF Scripts, SaveArgs
<1>2. CASE s.save = "fallback"
  <2>1. NextOf(current) \in DOMAIN list /\ ~ (list[NextOf(current)] < 0)
    BY <1>2 DEF Fails, Last
  <2>2. list[NextOf(current)] \in Int
    BY <2>1 DEF TypeOK, ListOK
  <2> QED
    BY <1>2, <2>1, <2>2 DEF Save
<1>3. CASE s.save = "self"
  BY <1>3 DEF Save, TypeOK, DiskOK, RunOK
<1>4. CASE s.save = "none"
  BY <1>4 DEF Save, TypeOK, DiskOK, RunOK
<1> QED
  BY <1>1, <1>2, <1>3, <1>4 DEF SaveArgs

\* The cursor stays on its line and is brought into the box.
LEMMA RestartMoves ==
  ASSUME NEW f \in Int, NEW e \in Int, NEW t \in Terms, NEW show \in BOOLEAN,
         timeout' \in Int, Restart(f, e, t, show)
  PROVE  /\ first' \in Int /\ entryno' \in Int /\ temp' = 0
         /\ first' + entryno' = f + e
         /\ f >= 0 => first' >= 0
         /\ e >= 0 => entryno' >= 0
         /\ ~ t.dumb => entryno' < t.height
         /\ pc' \in {"menu", "hidden"}
         /\ shown' \in BOOLEAN
<1>1. t.height \in Nat \ {0, 1}
  BY MenuAssumption
<1>2. first' \in Int /\ entryno' \in Int /\ temp' = 0 /\ first' + entryno' = f + e
      /\ (f >= 0 => first' >= 0) /\ (e >= 0 => entryno' >= 0)
      /\ (~ t.dumb => entryno' < t.height)
  <2>1. PICK over \in Int :
          /\ over >= 0 /\ (over # 0 => e - over = t.height - 1)
          /\ ~ t.dumb => e - over < t.height
          /\ first' = f + over /\ entryno' = e - over /\ temp' = 0
    BY <1>1 DEF Restart, Max2
  <2> QED
    BY <1>1, <2>1
<1>3. pc' \in {"menu", "hidden"} /\ shown' \in BOOLEAN
  BY DEF Restart
<1> QED
  BY <1>2, <1>3

\* What a key that moves the cursor must see to.
LEMMA MoveToInv ==
  ASSUME Inv, NEW f \in Int, NEW e \in Int, MoveTo(f, e), temp' \in Int,
         level = "main" /\ ~ (emptied /\ config.default = Saved) => OnEntry(f, e),
         level = "edit" /\ ~ emptied => f >= 0 /\ e >= 0,
         ~ term.dumb => e < H
  PROVE  Inv'
<1> USE MenuAssumption DEF Inv, MoveTo, Key, disk, running, Entries
<1>1. TypeOK'
  <2> USE DEF TypeOK, DiskOK, CursorOK, ListOK, RunOK
  <2>1. DiskOK' /\ CursorOK'
    OBVIOUS
  <2>2. ListOK'
    OBVIOUS
  <2>3. RunOK'
    BY DEF Positions
  <2>4. FlagsOK'
    BY DEF FlagsOK
  <2> QED
    BY <2>1, <2>2, <2>3, <2>4
<1>2. FallbacksAreEntries' /\ InArguments'
  BY DEF TypeOK, DiskOK, CursorOK, ListOK, RunOK, FallbacksAreEntries, InArguments
<1>3. NeverNegative' /\ Lines'
  BY DEF TypeOK, DiskOK, CursorOK, ListOK, RunOK, NeverNegative, Lines
<1>4. InBox'
  BY DEF TypeOK, DiskOK, CursorOK, ListOK, RunOK, InBox, H
<1>5. CursorOnEntry'
  BY DEF TypeOK, DiskOK, CursorOK, ListOK, RunOK, CursorOnEntry, OnEntry
<1> QED
  BY <1>1, <1>2, <1>3, <1>4, <1>5

LEMMA RunMenuCommandsInv == Inv /\ RunMenuCommands => Inv'
<1> SUFFICES ASSUME Inv, RunMenuCommands PROVE Inv'
  OBVIOUS
<1> USE MenuAssumption DEF Inv, RunMenuCommands, disk, cursor, policy, running,
        Entries, Nothing, Edited, Garbage, Saved
<1>1. TypeOK'
  <2> USE DEF TypeOK, DiskOK, CursorOK, ListOK, RunOK, H
  <2>1. DiskOK' /\ CursorOK'
    BY DEF InArguments, FallbacksAreEntries
  <2>2. ListOK'
    BY DEF InArguments, FallbacksAreEntries
  <2>3. RunOK'
    BY DEF Positions
  <2>4. FlagsOK'
    BY DEF FlagsOK
  <2> QED
    BY <2>1, <2>2, <2>3, <2>4
<1>2. FallbacksAreEntries' /\ InArguments'
  BY DEF TypeOK, DiskOK, CursorOK, ListOK, RunOK, FallbacksAreEntries, InArguments
<1>3. NeverNegative' /\ Lines'
  BY DEF TypeOK, DiskOK, CursorOK, ListOK, RunOK, NeverNegative, Lines, H,
     FallbacksAreEntries, CursorOnEntry, OnEntry
<1>4. InBox'
  BY DEF TypeOK, DiskOK, CursorOK, ListOK, RunOK, InBox, Lines, H
<1>5. CursorOnEntry'
  BY DEF TypeOK, DiskOK, CursorOK, ListOK, RunOK, CursorOnEntry, NeverNegative,
     Lines, OnEntry, H, FallbacksAreEntries
<1> QED
  BY <1>1, <1>2, <1>3, <1>4, <1>5

LEMMA ParseFallbackInv == Inv /\ ParseFallback => Inv'
<1> SUFFICES ASSUME Inv, ParseFallback PROVE Inv'
  OBVIOUS
<1> USE MenuAssumption DEF Inv, disk, cursor, policy, running, Entries, Saved
<1> DEFINE a == config.fallback[arg]
           added == [list EXCEPT ![chk] = a]
<1>1. /\ pc = "fallback" /\ fallback = -1
      /\ chk \in 0 .. MaxFallback - 1 /\ arg \in 1 .. Len(config.fallback)
  BY DEF ParseFallback, TypeOK, ListOK, FallbacksAreEntries, InArguments
<1>2. a \in Nat
  BY <1>1 DEF TypeOK, DiskOK
<1>3. list \in [0 .. MaxFallback - 1 -> Int] /\ added \in [0 .. MaxFallback - 1 -> Int]
  BY <1>1, <1>2 DEF TypeOK, ListOK
<1> HIDE DEF a, added
<1>4. \/ \E l \in {list, added}, n \in 0 .. MaxFallback : FallbackDone(l, n)
      \/ pc' = "default" /\ UNCHANGED policy
      \/ /\ arg < Len(config.fallback) /\ chk + 1 < MaxFallback
         /\ list' = added /\ chk' = chk + 1 /\ arg' = arg + 1
         /\ UNCHANGED <<pc, fallback>>
  BY <1>1 DEF ParseFallback, a, added
<1>5. ListOK' /\ pc' \in Positions /\ FallbacksAreEntries' /\ InArguments' /\ pc' # "menu" /\ pc' # "hidden"
  <2>1. CASE \E l \in {list, added}, n \in 0 .. MaxFallback : FallbackDone(l, n)
    BY <1>1, <1>3, <2>1
    DEF FallbackDone, TypeOK, ListOK, Positions, FallbacksAreEntries, InArguments
  <2>2. CASE pc' = "default" /\ UNCHANGED policy
    BY <1>1, <2>2 DEF TypeOK, ListOK, Positions, FallbacksAreEntries, InArguments
  <2>3. CASE /\ arg < Len(config.fallback) /\ chk + 1 < MaxFallback
             /\ list' = added /\ chk' = chk + 1 /\ arg' = arg + 1
             /\ UNCHANGED <<pc, fallback>>
    <3>1. config' = config
      BY DEF ParseFallback
    <3> QED
      BY <1>1, <1>3, <2>3, <3>1
      DEF TypeOK, ListOK, Positions, FallbacksAreEntries, InArguments
  <2> QED
    BY <1>4, <2>1, <2>2, <2>3
<1>6. DiskOK' /\ CursorOK' /\ RunOK'
  BY <1>5 DEF ParseFallback, TypeOK, DiskOK, CursorOK, RunOK
<1>7. FlagsOK'
  BY DEF ParseFallback, TypeOK, FlagsOK
<1>8. NeverNegative' /\ Lines' /\ InBox' /\ CursorOnEntry'
  BY <1>5 DEF ParseFallback, NeverNegative, Lines, InBox, CursorOnEntry, OnEntry
<1> QED
  BY <1>5, <1>6, <1>7, <1>8 DEF TypeOK

LEMMA ValidateFallbackInv == Inv /\ ValidateFallback => Inv'
<1> SUFFICES ASSUME Inv, ValidateFallback PROVE Inv'
  OBVIOUS
<1> USE MenuAssumption DEF Inv, ValidateFallback, Validated, Removed, disk, cursor,
        policy, running, Entries, Nothing, Edited, Garbage, Saved
<1>1. TypeOK'
  <2> USE DEF TypeOK, DiskOK, CursorOK, ListOK, RunOK, H
  <2>1. DiskOK' /\ CursorOK'
    BY DEF InArguments, FallbacksAreEntries
  <2>2. ListOK'
    BY DEF InArguments, FallbacksAreEntries
  <2>3. RunOK'
    BY DEF Positions
  <2>4. FlagsOK'
    BY DEF FlagsOK
  <2> QED
    BY <2>1, <2>2, <2>3, <2>4
<1>2. FallbacksAreEntries' /\ InArguments'
  <2> USE DEF TypeOK, DiskOK, CursorOK, ListOK, RunOK
  <2>1. FallbacksAreEntries'
    <3>1. CASE UNCHANGED <<chk, fallback, pc>> /\ list' = Removed /\ ~ Validated
      <4>1. \A j \in 0 .. chk - 1 : list'[j] = list[j]
        BY <3>1
      <4> QED
        BY <3>1, <4>1 DEF FallbacksAreEntries
    <3>2. CASE chk' = chk + 1 /\ UNCHANGED <<list, fallback, pc>> /\ ~ Validated /\ list[chk] < N
      <4>1. pc' = "validate" /\ fallback' = 0 /\ chk' \in Nat
        BY <3>2 DEF FallbacksAreEntries
      <4>2. list[chk] \in Entries
        BY <3>2
      <4>3. \A j \in 0 .. chk' - 1 : j \in 0 .. chk - 1 \/ j = chk
        BY <3>2
      <4> QED
        BY <3>2, <4>1, <4>2, <4>3 DEF FallbacksAreEntries
    <3>3. CASE Validated /\ pc' = "default" /\ UNCHANGED <<list, chk>>
      BY <3>3 DEF FallbacksAreEntries
    <3> QED
      BY <3>1, <3>2, <3>3
  <2>2. InArguments'
    BY DEF FallbacksAreEntries, InArguments
  <2> QED
    BY <2>1, <2>2
<1>3. NeverNegative' /\ Lines'
  BY DEF TypeOK, DiskOK, CursorOK, ListOK, RunOK, NeverNegative, Lines, H,
     FallbacksAreEntries, CursorOnEntry, OnEntry
<1>4. InBox'
  BY DEF TypeOK, DiskOK, CursorOK, ListOK, RunOK, InBox, Lines, H
<1>5. CursorOnEntry'
  BY DEF TypeOK, DiskOK, CursorOK, ListOK, RunOK, CursorOnEntry, NeverNegative,
     Lines, OnEntry, H, FallbacksAreEntries
<1> QED
  BY <1>1, <1>2, <1>3, <1>4, <1>5

LEMMA ChooseDefaultInv == Inv /\ ChooseDefault => Inv'
<1> SUFFICES ASSUME Inv, ChooseDefault PROVE Inv'
  OBVIOUS
<1> USE MenuAssumption DEF Inv, disk, policy, running, Entries, Saved
<1>1. /\ timeout' = timeout /\ pc = "default" /\ term' = term /\ level' = level
      /\ list' = list /\ chk' = chk
  BY DEF ChooseDefault
<1>2. fallback >= 0 => fallback < chk /\ chk \in 1 .. MaxFallback /\ list[0] \in Entries
  BY <1>1 DEF TypeOK, ListOK, FallbacksAreEntries
<1>3. \/ fallback' = fallback
      \/ fallback' = -1
      \/ fallback >= 0 /\ fallback' = fallback + 1 /\ fallback' < chk
  BY <1>1, <1>2 DEF ChooseDefault, NextFallback, TypeOK, ListOK, FallbacksAreEntries
<1>4. PICK d \in Int : /\ Restart(0, d, term, shown)
                       /\ ~ (emptied /\ config.default = Saved) => d \in Entries
  <2>1. CASE config.default = Saved
    BY <1>2, <2>1 DEF ChooseDefault, DefaultEntry, TypeOK, DiskOK, NeverNegative
  <2>2. CASE config.default # Saved
    <3>1. config.default \in Nat
      BY <2>2 DEF TypeOK, DiskOK
    <3> QED
      BY <1>2, <2>2, <3>1 DEF ChooseDefault, DefaultEntry
  <2> QED
    BY <2>1, <2>2
<1>5. /\ first' \in Int /\ entryno' \in Int /\ temp' = 0
      /\ first' + entryno' = 0 + d
      /\ first' >= 0
      /\ d >= 0 => entryno' >= 0
      /\ ~ term.dumb => entryno' < term.height
      /\ pc' \in {"menu", "hidden"}
      /\ shown' \in BOOLEAN
  BY <1>1, <1>4, RestartMoves DEF TypeOK, RunOK, FlagsOK
<1>6. TypeOK'
  <2>1. DiskOK' /\ CursorOK' /\ RunOK'
    BY <1>5 DEF ChooseDefault, TypeOK, DiskOK, CursorOK, RunOK, Positions
  <2>2. ListOK'
    BY <1>1, <1>2, <1>3 DEF ChooseDefault, TypeOK, ListOK
  <2>3. FlagsOK'
    BY <1>5 DEF ChooseDefault, TypeOK, FlagsOK
  <2> QED
    BY <2>1, <2>2, <2>3 DEF TypeOK
<1>7. FallbacksAreEntries' /\ InArguments'
  BY <1>1, <1>3, <1>5 DEF TypeOK, ListOK, FallbacksAreEntries, InArguments
<1>8. NeverNegative' /\ Lines' /\ InBox'
  BY <1>1, <1>4, <1>5 DEF ChooseDefault, NeverNegative, Lines, InBox, H
<1>9. CursorOnEntry'
  <2>1. /\ emptied' = emptied /\ config' = config /\ outer' = outer
        /\ level' = level
    BY DEF ChooseDefault
  <2>2. SUFFICES ASSUME ~ (emptied /\ config.default = Saved)
                 PROVE  /\ level' = "main" => OnEntry(first', entryno')
                        /\ level' = "edit" => OnEntry(outer'.first, outer'.entryno)
    BY <2>1 DEF CursorOnEntry, OnEntry
  <2>3. d \in Entries /\ OnEntry(first', entryno')
    BY <1>4, <1>5, <2>2 DEF OnEntry
  <2> QED
    BY <2>1, <2>2, <2>3 DEF CursorOnEntry, OnEntry
<1> QED
  BY <1>6, <1>7, <1>8, <1>9

LEMMA CountDownInv == Inv /\ CountDown => Inv'
<1> SUFFICES ASSUME Inv, CountDown PROVE Inv'
  OBVIOUS
<1> USE MenuAssumption DEF Inv, CountDown, Boot, disk, cursor, policy, running,
        Entries, Nothing, Edited, Garbage, Saved
<1>1. TypeOK'
  <2> USE DEF TypeOK, DiskOK, CursorOK, ListOK, RunOK, H
  <2>1. DiskOK' /\ CursorOK'
    BY DEF InArguments, FallbacksAreEntries
  <2>2. ListOK'
    BY DEF InArguments, FallbacksAreEntries
  <2>3. RunOK'
    BY DEF Positions
  <2>4. FlagsOK'
    BY DEF FlagsOK
  <2> QED
    BY <2>1, <2>2, <2>3, <2>4
<1>2. FallbacksAreEntries' /\ InArguments'
  BY DEF TypeOK, DiskOK, CursorOK, ListOK, RunOK, FallbacksAreEntries, InArguments
<1>3. NeverNegative' /\ Lines'
  BY DEF TypeOK, DiskOK, CursorOK, ListOK, RunOK, NeverNegative, Lines, H,
     FallbacksAreEntries, CursorOnEntry, OnEntry
<1>4. InBox'
  BY DEF TypeOK, DiskOK, CursorOK, ListOK, RunOK, InBox, Lines, H
<1>5. CursorOnEntry'
  BY DEF TypeOK, DiskOK, CursorOK, ListOK, RunOK, CursorOnEntry, NeverNegative,
     Lines, OnEntry, H, FallbacksAreEntries
<1> QED
  BY <1>1, <1>2, <1>3, <1>4, <1>5

LEMMA EscapeHiddenInv == Inv /\ EscapeHidden => Inv'
<1> SUFFICES ASSUME Inv, EscapeHidden PROVE Inv'
  OBVIOUS
<1> USE MenuAssumption DEF Inv, EscapeHidden, disk, cursor, policy, running,
        Entries, Nothing, Edited, Garbage, Saved
<1>1. TypeOK'
  <2> USE DEF TypeOK, DiskOK, CursorOK, ListOK, RunOK, H
  <2>1. DiskOK' /\ CursorOK'
    BY DEF InArguments, FallbacksAreEntries
  <2>2. ListOK'
    BY DEF InArguments, FallbacksAreEntries
  <2>3. RunOK'
    BY DEF Positions
  <2>4. FlagsOK'
    BY DEF FlagsOK
  <2> QED
    BY <2>1, <2>2, <2>3, <2>4
<1>2. FallbacksAreEntries' /\ InArguments'
  BY DEF TypeOK, DiskOK, CursorOK, ListOK, RunOK, FallbacksAreEntries, InArguments
<1>3. NeverNegative' /\ Lines'
  BY DEF TypeOK, DiskOK, CursorOK, ListOK, RunOK, NeverNegative, Lines, H,
     FallbacksAreEntries, CursorOnEntry, OnEntry
<1>4. InBox'
  BY DEF TypeOK, DiskOK, CursorOK, ListOK, RunOK, InBox, Lines, H
<1>5. CursorOnEntry'
  BY DEF TypeOK, DiskOK, CursorOK, ListOK, RunOK, CursorOnEntry, NeverNegative,
     Lines, OnEntry, H, FallbacksAreEntries
<1> QED
  BY <1>1, <1>2, <1>3, <1>4, <1>5

LEMMA StartSystemInv == Inv /\ StartSystem => Inv'
<1> SUFFICES ASSUME Inv, StartSystem PROVE Inv'
  OBVIOUS
<1> USE MenuAssumption DEF Inv, StartSystem, disk, cursor, policy, running, Entries,
        Nothing, Edited, Garbage, Saved
<1>0. saved' \in Int /\ (saved >= 0 /\ current >= 0 => saved' >= 0)
  BY SaveType DEF TypeOK, DiskOK
<1>1. TypeOK'
  <2> USE DEF TypeOK, DiskOK, CursorOK, ListOK, RunOK, H
  <2>1. DiskOK' /\ CursorOK'
    BY <1>0 DEF InArguments, FallbacksAreEntries
  <2>2. ListOK'
    BY <1>0 DEF InArguments, FallbacksAreEntries
  <2>3. RunOK'
    BY <1>0 DEF Positions
  <2>4. FlagsOK'
    BY <1>0 DEF FlagsOK
  <2> QED
    BY <2>1, <2>2, <2>3, <2>4
<1>2. FallbacksAreEntries' /\ InArguments'
  BY <1>0 DEF TypeOK, DiskOK, CursorOK, ListOK, RunOK, FallbacksAreEntries,
     InArguments
<1>3. NeverNegative' /\ Lines'
  BY <1>0 DEF TypeOK, DiskOK, CursorOK, ListOK, RunOK, NeverNegative, Lines, H,
     FallbacksAreEntries, CursorOnEntry, OnEntry
<1>4. InBox'
  BY <1>0 DEF TypeOK, DiskOK, CursorOK, ListOK, RunOK, InBox, Lines, H
<1>5. CursorOnEntry'
  BY <1>0 DEF TypeOK, DiskOK, CursorOK, ListOK, RunOK, CursorOnEntry,
     NeverNegative, Lines, OnEntry, H, FallbacksAreEntries
<1> QED
  BY <1>1, <1>2, <1>3, <1>4, <1>5

LEMMA FallBackInv == Inv /\ FallBack => Inv'
<1> SUFFICES ASSUME Inv, FallBack PROVE Inv'
  OBVIOUS
<1> USE MenuAssumption DEF Inv, FallBack, NextFallback, disk, cursor,
        policy, running, Entries, Nothing, Edited, Garbage, Saved
<1>1. TypeOK'
  <2> USE DEF TypeOK, DiskOK, CursorOK, ListOK, RunOK, H
  <2>1. DiskOK' /\ CursorOK'
    BY DEF InArguments, FallbacksAreEntries
  <2>2. ListOK'
    BY DEF InArguments, FallbacksAreEntries
  <2>3. RunOK'
    BY DEF Positions
  <2>4. FlagsOK'
    BY DEF FlagsOK
  <2> QED
    BY <2>1, <2>2, <2>3, <2>4
<1>2. FallbacksAreEntries' /\ InArguments'
  BY DEF TypeOK, DiskOK, CursorOK, ListOK, RunOK, FallbacksAreEntries, InArguments
<1>3. NeverNegative' /\ Lines'
  BY DEF TypeOK, DiskOK, CursorOK, ListOK, RunOK, NeverNegative, Lines, H,
     FallbacksAreEntries, CursorOnEntry, OnEntry
<1>4. InBox'
  BY DEF TypeOK, DiskOK, CursorOK, ListOK, RunOK, InBox, Lines, H
<1>5. CursorOnEntry'
  BY DEF TypeOK, DiskOK, CursorOK, ListOK, RunOK, CursorOnEntry, NeverNegative,
     Lines, OnEntry, H, FallbacksAreEntries
<1> QED
  BY <1>1, <1>2, <1>3, <1>4, <1>5

LEMMA ReportErrorInv == Inv /\ ReportError => Inv'
<1> SUFFICES ASSUME Inv, ReportError PROVE Inv'
  OBVIOUS
<1> USE MenuAssumption DEF Inv, ReportError, disk, cursor, policy, running, Entries,
        Nothing, Edited, Garbage, Saved
<1>1. TypeOK'
  <2> USE DEF TypeOK, DiskOK, CursorOK, ListOK, RunOK, H
  <2>1. DiskOK' /\ CursorOK'
    BY DEF InArguments, FallbacksAreEntries
  <2>2. ListOK'
    BY DEF InArguments, FallbacksAreEntries
  <2>3. RunOK'
    BY DEF Positions
  <2>4. FlagsOK'
    BY DEF FlagsOK
  <2> QED
    BY <2>1, <2>2, <2>3, <2>4
<1>2. FallbacksAreEntries' /\ InArguments'
  BY DEF TypeOK, DiskOK, CursorOK, ListOK, RunOK, FallbacksAreEntries, InArguments
<1>3. NeverNegative' /\ Lines'
  BY DEF TypeOK, DiskOK, CursorOK, ListOK, RunOK, NeverNegative, Lines, H,
     FallbacksAreEntries, CursorOnEntry, OnEntry
<1>4. InBox'
  BY DEF TypeOK, DiskOK, CursorOK, ListOK, RunOK, InBox, Lines, H
<1>5. CursorOnEntry'
  BY DEF TypeOK, DiskOK, CursorOK, ListOK, RunOK, CursorOnEntry, NeverNegative,
     Lines, OnEntry, H, FallbacksAreEntries
<1> QED
  BY <1>1, <1>2, <1>3, <1>4, <1>5

LEMMA BackToMenuInv == Inv /\ BackToMenu => Inv'
<1> SUFFICES ASSUME Inv, BackToMenu PROVE Inv'
  OBVIOUS
<1> USE MenuAssumption DEF Inv, BackToMenu, disk, cursor, policy, running, Entries,
        Nothing, Edited, Garbage, Saved
<1>0. saved' \in Int /\ (saved >= 0 /\ current >= 0 => saved' >= 0)
  BY SaveType DEF TypeOK, DiskOK
<1>r. /\ first' \in Int /\ entryno' \in Int /\ temp' = 0
      /\ first' + entryno' = first + entryno
      /\ first >= 0 => first' >= 0
      /\ entryno >= 0 => entryno' >= 0
      /\ ~ term.dumb => entryno' < term.height
      /\ pc' \in {"menu", "hidden"}
      /\ shown' \in BOOLEAN
  BY RestartMoves DEF TypeOK, CursorOK, RunOK, FlagsOK
<1>1. TypeOK'
  <2> USE DEF TypeOK, DiskOK, CursorOK, ListOK, RunOK, H
  <2>1. DiskOK' /\ CursorOK'
    BY <1>0, <1>r DEF InArguments, FallbacksAreEntries
  <2>2. ListOK'
    BY <1>0, <1>r DEF InArguments, FallbacksAreEntries
  <2>3. RunOK'
    BY <1>0, <1>r DEF Positions
  <2>4. FlagsOK'
    BY <1>0, <1>r DEF FlagsOK
  <2> QED
    BY <2>1, <2>2, <2>3, <2>4
<1>2. FallbacksAreEntries' /\ InArguments'
  BY <1>0, <1>r DEF TypeOK, DiskOK, CursorOK, ListOK, RunOK, FallbacksAreEntries,
     InArguments
<1>3. NeverNegative' /\ Lines'
  BY <1>0, <1>r DEF TypeOK, DiskOK, CursorOK, ListOK, RunOK, NeverNegative,
     Lines, H, FallbacksAreEntries, CursorOnEntry, OnEntry
<1>4. InBox'
  BY <1>0, <1>r DEF TypeOK, DiskOK, CursorOK, ListOK, RunOK, InBox, Lines, H
<1>5. CursorOnEntry'
  BY <1>0, <1>r DEF TypeOK, DiskOK, CursorOK, ListOK, RunOK, CursorOnEntry,
     NeverNegative, Lines, OnEntry, H, FallbacksAreEntries
<1> QED
  BY <1>1, <1>2, <1>3, <1>4, <1>5

LEMMA ResetInv == Inv /\ Reset => Inv'
<1> SUFFICES ASSUME Inv, Reset PROVE Inv'
  OBVIOUS
<1> USE MenuAssumption DEF Inv, Reset, NoFallbacks, disk, cursor, policy, running,
        Entries, Nothing, Edited, Garbage, Saved
<1>1. TypeOK'
  <2> USE DEF TypeOK, DiskOK, CursorOK, ListOK, RunOK, H
  <2>1. DiskOK' /\ CursorOK'
    BY DEF InArguments, FallbacksAreEntries
  <2>2. ListOK'
    BY DEF InArguments, FallbacksAreEntries
  <2>3. RunOK'
    BY DEF Positions
  <2>4. FlagsOK'
    BY DEF FlagsOK
  <2> QED
    BY <2>1, <2>2, <2>3, <2>4
<1>2. FallbacksAreEntries' /\ InArguments'
  BY DEF TypeOK, DiskOK, CursorOK, ListOK, RunOK, FallbacksAreEntries, InArguments
<1>3. NeverNegative' /\ Lines'
  BY DEF TypeOK, DiskOK, CursorOK, ListOK, RunOK, NeverNegative, Lines, H,
     FallbacksAreEntries, CursorOnEntry, OnEntry
<1>4. InBox'
  BY DEF TypeOK, DiskOK, CursorOK, ListOK, RunOK, InBox, Lines, H
<1>5. CursorOnEntry'
  BY DEF TypeOK, DiskOK, CursorOK, ListOK, RunOK, CursorOnEntry, NeverNegative,
     Lines, OnEntry, H, FallbacksAreEntries
<1> QED
  BY <1>1, <1>2, <1>3, <1>4, <1>5

LEMMA BootKeyInv == Inv /\ BootKey => Inv'
<1> SUFFICES ASSUME Inv, BootKey PROVE Inv'
  OBVIOUS
<1> USE MenuAssumption DEF Inv, BootKey, Boot, Key, disk, cursor, policy, running,
        Entries, Nothing, Edited, Garbage, Saved
<1>1. TypeOK'
  <2> USE DEF TypeOK, DiskOK, CursorOK, ListOK, RunOK, H
  <2>1. DiskOK' /\ CursorOK'
    BY DEF InArguments, FallbacksAreEntries
  <2>2. ListOK'
    BY DEF InArguments, FallbacksAreEntries
  <2>3. RunOK'
    BY DEF Positions
  <2>4. FlagsOK'
    BY DEF FlagsOK
  <2> QED
    BY <2>1, <2>2, <2>3, <2>4
<1>2. FallbacksAreEntries' /\ InArguments'
  BY DEF TypeOK, DiskOK, CursorOK, ListOK, RunOK, FallbacksAreEntries, InArguments
<1>3. NeverNegative' /\ Lines'
  BY DEF TypeOK, DiskOK, CursorOK, ListOK, RunOK, NeverNegative, Lines, H,
     FallbacksAreEntries, CursorOnEntry, OnEntry
<1>4. InBox'
  BY DEF TypeOK, DiskOK, CursorOK, ListOK, RunOK, InBox, Lines, H
<1>5. CursorOnEntry'
  BY DEF TypeOK, DiskOK, CursorOK, ListOK, RunOK, CursorOnEntry, NeverNegative,
     Lines, OnEntry, H, FallbacksAreEntries
<1> QED
  BY <1>1, <1>2, <1>3, <1>4, <1>5

LEMMA EditEntryInv == Inv /\ EditEntry => Inv'
<1> SUFFICES ASSUME Inv, EditEntry PROVE Inv'
  OBVIOUS
<1> USE MenuAssumption DEF Inv, EditEntry, Key, disk, cursor, policy, running,
        Entries, Nothing, Edited, Garbage, Saved
<1>r. /\ first' \in Int /\ entryno' \in Int /\ temp' = 0
      /\ first' + entryno' = 0 + 0
      /\ 0 >= 0 => first' >= 0
      /\ 0 >= 0 => entryno' >= 0
      /\ ~ term.dumb => entryno' < term.height
      /\ pc' \in {"menu", "hidden"}
      /\ shown' \in BOOLEAN
  BY RestartMoves DEF TypeOK, CursorOK, RunOK, FlagsOK
<1>1. TypeOK'
  <2> USE DEF TypeOK, DiskOK, CursorOK, ListOK, RunOK, H
  <2>1. DiskOK' /\ CursorOK'
    BY <1>r DEF InArguments, FallbacksAreEntries
  <2>2. ListOK'
    BY <1>r DEF InArguments, FallbacksAreEntries
  <2>3. RunOK'
    BY <1>r DEF Positions
  <2>4. FlagsOK'
    BY <1>r DEF FlagsOK
  <2> QED
    BY <2>1, <2>2, <2>3, <2>4
<1>2. FallbacksAreEntries' /\ InArguments'
  BY <1>r DEF TypeOK, DiskOK, CursorOK, ListOK, RunOK, FallbacksAreEntries,
     InArguments
<1>3. NeverNegative' /\ Lines'
  BY <1>r DEF TypeOK, DiskOK, CursorOK, ListOK, RunOK, NeverNegative, Lines, H,
     FallbacksAreEntries, CursorOnEntry, OnEntry
<1>4. InBox'
  BY <1>r DEF TypeOK, DiskOK, CursorOK, ListOK, RunOK, InBox, Lines, H
<1>5. CursorOnEntry'
  BY <1>r DEF TypeOK, DiskOK, CursorOK, ListOK, RunOK, CursorOnEntry,
     NeverNegative, Lines, OnEntry, H, FallbacksAreEntries
<1> QED
  BY <1>1, <1>2, <1>3, <1>4, <1>5

LEMMA LeaveEditInv == Inv /\ LeaveEdit => Inv'
<1> SUFFICES ASSUME Inv, LeaveEdit PROVE Inv'
  OBVIOUS
<1> USE MenuAssumption DEF Inv, LeaveEdit, Key, disk, cursor, policy, running,
        Entries, Nothing, Edited, Garbage, Saved
<1>r. /\ first' \in Int /\ entryno' \in Int /\ temp' = 0
      /\ first' + entryno' = outer.first + outer.entryno
      /\ outer.first >= 0 => first' >= 0
      /\ outer.entryno >= 0 => entryno' >= 0
      /\ ~ term.dumb => entryno' < term.height
      /\ pc' \in {"menu", "hidden"}
      /\ shown' \in BOOLEAN
  BY RestartMoves DEF TypeOK, CursorOK, RunOK, FlagsOK
<1>1. TypeOK'
  <2> USE DEF TypeOK, DiskOK, CursorOK, ListOK, RunOK, H
  <2>1. DiskOK' /\ CursorOK'
    BY <1>r DEF InArguments, FallbacksAreEntries
  <2>2. ListOK'
    BY <1>r DEF InArguments, FallbacksAreEntries
  <2>3. RunOK'
    BY <1>r DEF Positions
  <2>4. FlagsOK'
    BY <1>r DEF FlagsOK
  <2> QED
    BY <2>1, <2>2, <2>3, <2>4
<1>2. FallbacksAreEntries' /\ InArguments'
  BY <1>r DEF TypeOK, DiskOK, CursorOK, ListOK, RunOK, FallbacksAreEntries,
     InArguments
<1>3. NeverNegative' /\ Lines'
  BY <1>r DEF TypeOK, DiskOK, CursorOK, ListOK, RunOK, NeverNegative, Lines, H,
     FallbacksAreEntries, CursorOnEntry, OnEntry
<1>4. InBox'
  BY <1>r DEF TypeOK, DiskOK, CursorOK, ListOK, RunOK, InBox, Lines, H
<1>5. CursorOnEntry'
  BY <1>r DEF TypeOK, DiskOK, CursorOK, ListOK, RunOK, CursorOnEntry,
     NeverNegative, Lines, OnEntry, H, FallbacksAreEntries
<1> QED
  BY <1>1, <1>2, <1>3, <1>4, <1>5

LEMMA EditLineInv == Inv /\ EditLine => Inv'
<1> SUFFICES ASSUME Inv, EditLine PROVE Inv'
  OBVIOUS
<1> USE MenuAssumption DEF Inv, EditLine, Key, disk, cursor, policy, running,
        Entries, Nothing, Edited, Garbage, Saved
<1>r. /\ first' \in Int /\ entryno' \in Int /\ temp' = 0
      /\ first' + entryno' = first + entryno
      /\ first >= 0 => first' >= 0
      /\ entryno >= 0 => entryno' >= 0
      /\ ~ term.dumb => entryno' < term.height
      /\ pc' \in {"menu", "hidden"}
      /\ shown' \in BOOLEAN
  BY RestartMoves DEF TypeOK, CursorOK, RunOK, FlagsOK
<1>1. TypeOK'
  <2> USE DEF TypeOK, DiskOK, CursorOK, ListOK, RunOK, H
  <2>1. DiskOK' /\ CursorOK'
    BY <1>r DEF InArguments, FallbacksAreEntries
  <2>2. ListOK'
    BY <1>r DEF InArguments, FallbacksAreEntries
  <2>3. RunOK'
    BY <1>r DEF Positions
  <2>4. FlagsOK'
    BY <1>r DEF FlagsOK
  <2> QED
    BY <2>1, <2>2, <2>3, <2>4
<1>2. FallbacksAreEntries' /\ InArguments'
  BY <1>r DEF TypeOK, DiskOK, CursorOK, ListOK, RunOK, FallbacksAreEntries,
     InArguments
<1>3. NeverNegative' /\ Lines'
  BY <1>r DEF TypeOK, DiskOK, CursorOK, ListOK, RunOK, NeverNegative, Lines, H,
     FallbacksAreEntries, CursorOnEntry, OnEntry
<1>4. InBox'
  BY <1>r DEF TypeOK, DiskOK, CursorOK, ListOK, RunOK, InBox, Lines, H
<1>5. CursorOnEntry'
  BY <1>r DEF TypeOK, DiskOK, CursorOK, ListOK, RunOK, CursorOnEntry,
     NeverNegative, Lines, OnEntry, H, FallbacksAreEntries
<1> QED
  BY <1>1, <1>2, <1>3, <1>4, <1>5

LEMMA CommandLineInv == Inv /\ CommandLine => Inv'
<1> SUFFICES ASSUME Inv, CommandLine PROVE Inv'
  OBVIOUS
<1> USE MenuAssumption DEF Inv, CommandLine, Key, disk, cursor, policy, running,
        Entries, Nothing, Edited, Garbage, Saved
<1>r. /\ first' \in Int /\ entryno' \in Int /\ temp' = 0
      /\ first' + entryno' = first + entryno
      /\ first >= 0 => first' >= 0
      /\ entryno >= 0 => entryno' >= 0
      /\ ~ term'.dumb => entryno' < term'.height
      /\ pc' \in {"menu", "hidden"}
      /\ shown' \in BOOLEAN
  BY RestartMoves DEF TypeOK, CursorOK, RunOK, FlagsOK
<1>1. TypeOK'
  <2> USE DEF TypeOK, DiskOK, CursorOK, ListOK, RunOK, H
  <2>1. DiskOK' /\ CursorOK'
    BY <1>r DEF InArguments, FallbacksAreEntries
  <2>2. ListOK'
    BY <1>r DEF InArguments, FallbacksAreEntries
  <2>3. RunOK'
    BY <1>r DEF Positions
  <2>4. FlagsOK'
    BY <1>r DEF FlagsOK
  <2> QED
    BY <2>1, <2>2, <2>3, <2>4
<1>2. FallbacksAreEntries' /\ InArguments'
  BY <1>r DEF TypeOK, DiskOK, CursorOK, ListOK, RunOK, FallbacksAreEntries,
     InArguments
<1>3. NeverNegative' /\ Lines'
  BY <1>r DEF TypeOK, DiskOK, CursorOK, ListOK, RunOK, NeverNegative, Lines, H,
     FallbacksAreEntries, CursorOnEntry, OnEntry
<1>4. InBox'
  BY <1>r DEF TypeOK, DiskOK, CursorOK, ListOK, RunOK, InBox, Lines, H
<1>5. CursorOnEntry'
  BY <1>r DEF TypeOK, DiskOK, CursorOK, ListOK, RunOK, CursorOnEntry,
     NeverNegative, Lines, OnEntry, H, FallbacksAreEntries
<1> QED
  BY <1>1, <1>2, <1>3, <1>4, <1>5

LEMMA OpenLineInv ==
  ASSUME Inv, NEW after \in BOOLEAN, OpenLine(after)
  PROVE  Inv'
<1> USE MenuAssumption DEF Inv, OpenLine, Key, disk, running, Entries, Nothing,
        Edited, Garbage, Saved
<1>1. TypeOK'
  <2> USE DEF TypeOK, DiskOK, CursorOK, ListOK, RunOK, H
  <2>1. DiskOK' /\ CursorOK'
    BY DEF InArguments, FallbacksAreEntries
  <2>2. ListOK'
    BY DEF InArguments, FallbacksAreEntries
  <2>3. RunOK'
    BY DEF Positions
  <2>4. FlagsOK'
    BY DEF FlagsOK
  <2> QED
    BY <2>1, <2>2, <2>3, <2>4
<1>2. FallbacksAreEntries' /\ InArguments'
  BY DEF TypeOK, DiskOK, CursorOK, ListOK, RunOK, FallbacksAreEntries, InArguments
<1>3. NeverNegative' /\ Lines'
  BY DEF TypeOK, DiskOK, CursorOK, ListOK, RunOK, NeverNegative, Lines, H,
     FallbacksAreEntries, CursorOnEntry, OnEntry
<1>4. InBox'
  BY DEF TypeOK, DiskOK, CursorOK, ListOK, RunOK, InBox, Lines, H
<1>5. CursorOnEntry'
  BY DEF TypeOK, DiskOK, CursorOK, ListOK, RunOK, CursorOnEntry, NeverNegative,
     Lines, OnEntry, H, FallbacksAreEntries
<1> QED
  BY <1>1, <1>2, <1>3, <1>4, <1>5

LEMMA DeleteLineInv == Inv /\ DeleteLine => Inv'
<1> SUFFICES ASSUME Inv, DeleteLine PROVE Inv'
  OBVIOUS
<1> USE MenuAssumption DEF Inv, DeleteLine, HasLines, LineAbove, Key, disk, cursor,
        policy, running, Entries, Nothing, Edited, Garbage, Saved
<1>0. ~ emptied' => ~ emptied /\ num' # 0
  OBVIOUS
<1>1. TypeOK'
  <2> USE DEF TypeOK, DiskOK, CursorOK, ListOK, RunOK, H
  <2>1. DiskOK' /\ CursorOK'
    BY <1>0 DEF InArguments, FallbacksAreEntries
  <2>2. ListOK'
    BY <1>0 DEF InArguments, FallbacksAreEntries
  <2>3. RunOK'
    BY <1>0 DEF Positions
  <2>4. FlagsOK'
    BY <1>0 DEF FlagsOK
  <2> QED
    BY <2>1, <2>2, <2>3, <2>4
<1>2. FallbacksAreEntries' /\ InArguments'
  BY <1>0 DEF TypeOK, DiskOK, CursorOK, ListOK, RunOK, FallbacksAreEntries,
     InArguments
<1>3. NeverNegative' /\ Lines'
  BY <1>0 DEF TypeOK, DiskOK, CursorOK, ListOK, RunOK, NeverNegative, Lines, H,
     FallbacksAreEntries, CursorOnEntry, OnEntry
<1>4. InBox'
  BY <1>0 DEF TypeOK, DiskOK, CursorOK, ListOK, RunOK, InBox, Lines, H
<1>5. CursorOnEntry'
  BY <1>0 DEF TypeOK, DiskOK, CursorOK, ListOK, RunOK, CursorOnEntry,
     NeverNegative, Lines, OnEntry, H, FallbacksAreEntries
<1> QED
  BY <1>1, <1>2, <1>3, <1>4, <1>5

LEMMA UpInv == Inv /\ Up => Inv'
<1> SUFFICES ASSUME Inv, Up PROVE Inv'
  OBVIOUS
<1>1. H \in Nat \ {0, 1}
  BY TermType DEF Inv
<1>2. \E f, e \in Int :
        /\ MoveTo(f, e)
        /\ level = "main" /\ ~ (emptied /\ config.default = Saved) => OnEntry(f, e)
        /\ level = "edit" /\ ~ emptied => f >= 0 /\ e >= 0
        /\ ~ term.dumb => e < H
  BY <1>1 DEF Inv, Up, Max2, OnEntry, TypeOK, CursorOK, RunOK, CursorOnEntry,
     NeverNegative, Lines, InBox, MoveTo, Key
<1>3. temp' = 0
  BY DEF Up
<1> QED
  BY <1>2, <1>3, MoveToInv

LEMMA DownInv == Inv /\ Down => Inv'
<1> SUFFICES ASSUME Inv, Down PROVE Inv'
  OBVIOUS
<1>1. H \in Nat \ {0, 1}
  BY TermType DEF Inv
<1>2. \E f, e \in Int :
        /\ MoveTo(f, e)
        /\ level = "main" /\ ~ (emptied /\ config.default = Saved) => OnEntry(f, e)
        /\ level = "edit" /\ ~ emptied => f >= 0 /\ e >= 0
        /\ ~ term.dumb => e < H
  BY <1>1 DEF Inv, Down, Max2, OnEntry, TypeOK, CursorOK, RunOK, CursorOnEntry,
     NeverNegative, Lines, InBox, MoveTo, Key
<1>3. temp' = 0
  BY DEF Down
<1> QED
  BY <1>2, <1>3, MoveToInv

LEMMA PageUpInv == Inv /\ PageUp => Inv'
<1> SUFFICES ASSUME Inv, PageUp PROVE Inv'
  OBVIOUS
<1>1. H \in Nat \ {0, 1}
  BY TermType DEF Inv
<1>2. \E f, e \in Int :
        /\ MoveTo(f, e)
        /\ level = "main" /\ ~ (emptied /\ config.default = Saved) => OnEntry(f, e)
        /\ level = "edit" /\ ~ emptied => f >= 0 /\ e >= 0
        /\ ~ term.dumb => e < H
  BY <1>1 DEF Inv, PageUp, Max2, OnEntry, TypeOK, CursorOK, RunOK, CursorOnEntry,
     NeverNegative, Lines, InBox, MoveTo, Key
<1>3. temp' = 0
  BY DEF PageUp
<1> QED
  BY <1>2, <1>3, MoveToInv

LEMMA PageDownInv == Inv /\ PageDown => Inv'
<1> SUFFICES ASSUME Inv, PageDown PROVE Inv'
  OBVIOUS
<1>1. H \in Nat \ {0, 1}
  BY TermType DEF Inv
<1>2. \E f, e \in Int :
        /\ MoveTo(f, e)
        /\ level = "main" /\ ~ (emptied /\ config.default = Saved) => OnEntry(f, e)
        /\ level = "edit" /\ ~ emptied => f >= 0 /\ e >= 0
        /\ ~ term.dumb => e < H
  BY <1>1 DEF Inv, PageDown, Max2, OnEntry, TypeOK, CursorOK, RunOK,
     CursorOnEntry, NeverNegative, Lines, InBox, MoveTo, Key
<1>3. temp' = 0
  BY DEF PageDown
<1> QED
  BY <1>2, <1>3, MoveToInv

\* A key that leaves the cursor where it is, but for the number typed.
LEMMA StayInv ==
  ASSUME Inv, MoveTo(first, entryno), temp' \in Int
  PROVE  Inv'
  BY MoveToInv DEF Inv, TypeOK, CursorOK, NeverNegative, CursorOnEntry, InBox,
     MoveTo, Key

LEMMA JumpToZeroInv == Inv /\ JumpTo(0) => Inv'
<1> SUFFICES ASSUME Inv, JumpTo(0) PROVE Inv'
  OBVIOUS
<1> USE MenuAssumption DEF Inv
<1>1. H \in Nat \ {0, 1}
  BY TermType
<1>2. temp' = 0
  BY DEF JumpTo
<1>3. CASE 0 = first + entryno
  <2>1. MoveTo(first, entryno)
    BY <1>3 DEF JumpTo
  <2> QED
    BY <1>2, <2>1, StayInv
<1>4. CASE 0 # first + entryno
  <2>1. (0 \div H) * H = 0 /\ 0 % H = 0
    BY <1>1, SMT
  <2>2. MoveTo(0, 0)
    BY <1>4, <2>1 DEF JumpTo
  <2>3. level = "main" => OnEntry(0, 0)
    BY DEF OnEntry
  <2> QED
    BY <1>1, <1>2, <2>2, <2>3, MoveToInv
<1> QED
  BY <1>3, <1>4

LEMMA JumpToInv ==
  ASSUME Inv, NEW t \in Int, JumpTo(t), t < num, t < 0 => num = 0 /\ t = -1
  PROVE  Inv'
<1> USE MenuAssumption DEF Inv
<1>1. H \in Nat \ {0, 1}
  BY TermType
<1>2. temp' \in Int
  BY DEF JumpTo
<1>3. CASE t = first + entryno
  <2>1. MoveTo(first, entryno)
    BY <1>3 DEF JumpTo
  <2> QED
    BY <1>2, <2>1, StayInv DEF TypeOK, CursorOK
<1>4. CASE t # first + entryno /\ t < 0
  <2>1. MoveTo(0, t) /\ num = 0 /\ t = -1
    BY <1>4 DEF JumpTo
  <2> QED
    BY <1>1, <1>2, <2>1, MoveToInv DEF Lines
<1>5. CASE t # first + entryno /\ t >= 0
  <2> DEFINE f == (t \div H) * H
             e == t % H
  <2>1. MoveTo(f, e)
    BY <1>5 DEF JumpTo
  <2>2. f \in Nat /\ e \in 0 .. H - 1 /\ f + e = t
    <3>1. t \in Nat
      BY <1>5
    <3>2. \A h \in Nat \ {0} : /\ (t \div h) * h \in Nat /\ t % h \in 0 .. h - 1
                                /\ (t \div h) * h + (t % h) = t
      BY <3>1, DivMod
    <3> QED
      BY <1>1, <3>2
  <2> HIDE DEF f, e
  <2>3. level = "main" => OnEntry(f, e)
    BY <1>1, <2>2 DEF OnEntry, Lines
  <2>4. f >= 0 /\ e >= 0 /\ e < H
    BY <1>1, <2>2
  <2> QED
    BY <1>1, <1>2, <2>1, <2>2, <2>3, <2>4, MoveToInv
<1> QED
  BY <1>3, <1>4, <1>5

LEMMA DigitInv ==
  ASSUME Inv, NEW c \in Digits, Digit(c)
  PROVE  Inv'
<1>1. c \in Nat /\ temp \in Nat /\ num \in Nat
  BY MenuAssumption DEF Digit, Inv, TypeOK, CursorOK
<1>2. PICK t \in Nat :
        /\ t < num \/ t = 0
        /\ JumpTo(t) \/ (temp' = 0 /\ MoveTo(first, entryno))
  BY <1>1 DEF Digit
<1>3. CASE JumpTo(t) /\ t = 0
  BY <1>3, JumpToZeroInv
<1>4. CASE JumpTo(t) /\ t # 0
  <2>1. t \in Int /\ t < num /\ (t < 0 => num = 0 /\ t = -1)
    BY <1>2, <1>4
  <2> QED
    BY <1>4, <2>1, JumpToInv, Zenon
<1>5. CASE temp' = 0 /\ MoveTo(first, entryno)
  BY <1>5, StayInv
<1> QED
  BY <1>2, <1>3, <1>4, <1>5

LEMMA HomeInv == Inv /\ Home => Inv'
  BY JumpToZeroInv DEF Home

LEMMA EndInv == Inv /\ End => Inv'
<1> SUFFICES ASSUME Inv, End PROVE Inv'
  OBVIOUS
<1>1. num \in Nat
  BY DEF Inv, TypeOK, CursorOK
<1>2. PICK t \in Int : t = num - 1 /\ JumpTo(t)
  BY <1>1 DEF End
<1>3. t < num /\ (t < 0 => num = 0 /\ t = -1)
  BY <1>1, <1>2
<1> QED
  BY <1>2, <1>3, JumpToInv, Zenon

LEMMA StepInv == Inv /\ [Next]_vars => Inv'
<1> SUFFICES ASSUME Inv, [Next]_vars PROVE Inv'
  OBVIOUS
<1>1. CASE PressKey
  <2>1. CASE MoveKey
    BY <2>1, UpInv, DownInv, PageUpInv, PageDownInv, HomeInv, EndInv, DigitInv
       DEF MoveKey
  <2>2. CASE EditKey
    BY <2>2, OpenLineInv, DeleteLineInv, EditLineInv, LeaveEditInv DEF EditKey
  <2> QED
    BY <1>1, <2>1, <2>2, BootKeyInv, EditEntryInv, CommandLineInv DEF PressKey
<1>2. CASE Boots
  BY <1>2, StartSystemInv, FallBackInv, ReportErrorInv, BackToMenuInv DEF Boots
<1>3. CASE RunMenuCommands \/ ParseFallback \/ ValidateFallback \/ ChooseDefault
  BY <1>3, RunMenuCommandsInv, ParseFallbackInv, ValidateFallbackInv,
     ChooseDefaultInv
<1>4. CASE UNCHANGED vars
  <2> USE <1>4 DEF Inv, vars, disk, cursor, policy, running
  <2>1. TypeOK'
    BY DEF TypeOK, DiskOK, CursorOK, ListOK, RunOK, FlagsOK
  <2>2. FallbacksAreEntries' /\ InArguments'
    BY DEF FallbacksAreEntries, InArguments
  <2>3. NeverNegative' /\ Lines'
    BY DEF NeverNegative, Lines
  <2>4. InBox' /\ CursorOnEntry'
    BY DEF InBox, H, CursorOnEntry, OnEntry
  <2> QED
    BY <2>1, <2>2, <2>3, <2>4
<1> QED
  BY <1>1, <1>2, <1>3, <1>4, CountDownInv, EscapeHiddenInv, ResetInv DEF Next

LEMMA Invariance == Spec => []Inv
  BY InitInv, StepInv, PTL DEF Spec

(***************************************************************************)
(* Every variable of the menu keeps its type, for any number of entries,   *)
(* any configuration, terminals and keys.                                  *)
(***************************************************************************)
THEOREM TypeCorrect == Spec => []TypeOK
<1>1. Inv => TypeOK
  BY DEF Inv
<1> QED
  BY <1>1, Invariance, PTL

(***************************************************************************)
(* The highlighted entry exists and is inside the box.                     *)
(***************************************************************************)
THEOREM CursorStaysInMenu == Spec => []CursorInMenu
<1>1. Inv => CursorInMenu
  BY DEF Inv, CursorInMenu, CursorOnEntry, InBox
<1> QED
  BY <1>1, Invariance, PTL

------------------------------------------------------------------------------
(***************************************************************************)
(* No fallback twice.  While fallback_func reads its arguments, the        *)
(* numbers it stored differ; a list it did not fill ends in a negative     *)
(* number, and the numbers before that end differ, also while numbers that *)
(* are no entries are taken out.                                           *)
(***************************************************************************)
AllDistinct(n) == \A j \in 0 .. n - 1 : \A i \in 0 .. j - 1 : list[i] # list[j]

EndsDistinct == \E n \in DOMAIN list : list[n] < 0 /\ AllDistinct(n)

DistinctInv ==
  /\ pc = "fallback" => AllDistinct(chk) /\ chk < arg
  /\ (pc = "validate" \/ fallback >= 0) /\ Len(config.fallback) < MaxFallback =>
       EndsDistinct

\* Steps that leave the list alone, and make no fallback of none.
LEMMA SameListDistinct ==
  ASSUME DistinctInv, list' = list, config' = config, pc' # "fallback",
         pc' = "validate" \/ fallback' >= 0 => pc = "validate" \/ fallback >= 0
  PROVE  DistinctInv'
  BY DEF DistinctInv, EndsDistinct, AllDistinct

\* A step that leaves fallback_func with n numbers in list l.
LEMMA FallbackDoneDistinct ==
  ASSUME Inv, NEW l \in [0 .. MaxFallback - 1 -> Int], NEW n \in Nat,
         FallbackDone(l, n), config' = config,
         Len(config.fallback) < MaxFallback => n < MaxFallback,
         \A j \in 0 .. n - 1 : \A i \in 0 .. j - 1 : l[i] # l[j]
  PROVE  DistinctInv'
<1>1. pc' = "validate" /\ list' = IF n < MaxFallback THEN [l EXCEPT ![n] = -1] ELSE l
  BY DEF FallbackDone
<1>2. ASSUME Len(config.fallback) < MaxFallback
      PROVE  EndsDistinct'
  <2>1. n \in 0 .. MaxFallback - 1 /\ list' = [l EXCEPT ![n] = -1]
    BY <1>1, <1>2, MenuAssumption
  <2>2. n \in DOMAIN list' /\ list'[n] < 0
    BY <2>1
  <2>3. AllDistinct(n)'
    BY <2>1, MenuAssumption DEF AllDistinct
  <2> QED
    BY <2>2, <2>3 DEF EndsDistinct
<1> QED
  BY <1>1, <1>2 DEF DistinctInv

LEMMA ParseFallbackDistinct ==
  ASSUME Inv, DistinctInv, ParseFallback
  PROVE  DistinctInv'
<1> USE MenuAssumption
<1> DEFINE a == config.fallback[arg]
           added == [list EXCEPT ![chk] = a]
<1>1. /\ pc = "fallback" /\ fallback = -1 /\ config' = config
      /\ chk \in 0 .. MaxFallback - 1 /\ arg \in 1 .. Len(config.fallback)
      /\ Len(config.fallback) \in Nat
  BY DEF ParseFallback, Inv, TypeOK, DiskOK, ListOK, FallbacksAreEntries,
     InArguments, disk
<1>2. a \in Int /\ list \in [0 .. MaxFallback - 1 -> Int]
      /\ added \in [0 .. MaxFallback - 1 -> Int]
  <2>1. a \in Nat
    BY <1>1 DEF Inv, TypeOK, DiskOK
  <2> QED
    BY <1>1, <2>1 DEF Inv, TypeOK, ListOK
<1>3. AllDistinct(chk) /\ chk < arg
  BY <1>1 DEF DistinctInv
<1>4. ~ OnList(a) => \A j \in 0 .. chk : \A i \in 0 .. j - 1 : added[i] # added[j]
  BY <1>1, <1>2, <1>3 DEF OnList, AllDistinct
<1> HIDE DEF a, added
<1>5. CASE OnList(a) /\ arg = Len(config.fallback) /\ FallbackDone(list, chk)
  <2>1. chk \in Nat /\ chk < MaxFallback
    BY <1>1
  <2>2. \A j \in 0 .. chk - 1 : \A i \in 0 .. j - 1 : list[i] # list[j]
    BY <1>3 DEF AllDistinct
  <2> QED
    BY <1>1, <1>2, <1>5, <2>1, <2>2, FallbackDoneDistinct
<1>6. CASE OnList(a) /\ pc' = "default" /\ UNCHANGED policy
  BY <1>1, <1>6, SameListDistinct DEF policy
<1>7. CASE /\ ~ OnList(a) /\ (arg = Len(config.fallback) \/ chk + 1 = MaxFallback)
           /\ FallbackDone(added, chk + 1)
  <2>1. \A j \in 0 .. (chk + 1) - 1 : \A i \in 0 .. j - 1 : added[i] # added[j]
    BY <1>1, <1>4, <1>7
  <2>2. Len(config.fallback) < MaxFallback => chk + 1 < MaxFallback
    BY <1>1, <1>3
  <2>3. chk + 1 \in Nat
    BY <1>1
  <2> QED
    BY <1>1, <1>2, <1>7, <2>1, <2>2, <2>3, FallbackDoneDistinct
<1>8. CASE /\ ~ OnList(a) /\ chk + 1 < MaxFallback
           /\ list' = added /\ chk' = chk + 1 /\ arg' = arg + 1
           /\ UNCHANGED <<pc, fallback>>
  <2>1. AllDistinct(chk)'
    BY <1>1, <1>4, <1>8 DEF AllDistinct
  <2> QED
    BY <1>1, <1>3, <1>8, <2>1 DEF DistinctInv
<1> QED
  BY <1>5, <1>6, <1>7, <1>8 DEF ParseFallback, a, added

\* The list is moved down over a number that is no entry: so is its end.
LEMMA RemovedDistinct ==
  ASSUME Inv, DistinctInv, ValidateFallback, list' = Removed,
         ~ Validated, list[chk] >= N, Len(config.fallback) < MaxFallback
  PROVE  EndsDistinct'
<1> USE MenuAssumption
<1>1. /\ pc = "validate" /\ chk \in 0 .. MaxFallback - 1
      /\ list \in [0 .. MaxFallback - 1 -> Int]
      /\ \A j \in 0 .. chk - 1 : list[j] >= 0
  BY DEF ValidateFallback, Validated, Inv, TypeOK, ListOK, FallbacksAreEntries, Entries
<1>2. PICK n \in 0 .. MaxFallback - 1 : list[n] < 0 /\ AllDistinct(n)
  BY <1>1 DEF DistinctInv, EndsDistinct
<1>3. chk < n
  <2>1. n # chk
    BY <1>1, <1>2
  <2> QED
    BY <1>1, <1>2, <2>1
<1>4. list' = [i \in 0 .. MaxFallback - 1 |->
                 IF i >= chk /\ i < MaxFallback - 1 THEN list[i + 1] ELSE list[i]]
  BY <1>1 DEF Removed
<1>5. n - 1 \in DOMAIN list' /\ list'[n - 1] < 0
  BY <1>1, <1>2, <1>3, <1>4
<1>6. AllDistinct(n - 1)'
  <2> SUFFICES ASSUME NEW j \in 0 .. n - 2, NEW i \in 0 .. j - 1
               PROVE  list'[i] # list'[j]
    BY <1>2 DEF AllDistinct
  <2>1. list'[j] = IF j >= chk THEN list[j + 1] ELSE list[j]
    BY <1>1, <1>2, <1>4
  <2>2. list'[i] = IF i >= chk THEN list[i + 1] ELSE list[i]
    BY <1>1, <1>2, <1>4
  <2>3. \A k \in 0 .. n - 1 : \A h \in 0 .. k - 1 : list[h] # list[k]
    BY <1>2 DEF AllDistinct
  <2>4. CASE j < chk
    BY <1>1, <1>2, <2>1, <2>2, <2>3, <2>4
  <2>5. CASE j >= chk /\ i < chk
    BY <1>1, <1>2, <2>1, <2>2, <2>3, <2>5
  <2>6. CASE j >= chk /\ i >= chk
    BY <1>1, <1>2, <2>1, <2>2, <2>3, <2>6
  <2> QED
    BY <1>1, <1>2, <2>4, <2>5, <2>6
<1> QED
  BY <1>5, <1>6 DEF EndsDistinct

LEMMA ValidateFallbackDistinct ==
  ASSUME Inv, DistinctInv, ValidateFallback
  PROVE  DistinctInv'
<1>1. config' = config /\ pc = "validate" /\ pc' \in {"validate", "default"}
  BY DEF ValidateFallback, disk
<1>2. CASE list' = list
  BY <1>1, <1>2, SameListDistinct
<1>3. CASE list' = Removed /\ ~ Validated /\ list[chk] >= N
  BY <1>1, <1>3, RemovedDistinct DEF DistinctInv
<1> QED
  BY <1>2, <1>3 DEF ValidateFallback

LEMMA DistinctStep == Inv /\ DistinctInv /\ [Next]_vars => DistinctInv'
<1> SUFFICES ASSUME Inv, DistinctInv, [Next]_vars PROVE DistinctInv'
  OBVIOUS
<1>0. fallback \in Int
  BY DEF Inv, TypeOK, ListOK
<1>1. CASE RunMenuCommands
  <2>1. pc = "config" /\ chk = 0 /\ arg = 1 /\ fallback = -1
    BY <1>1 DEF RunMenuCommands, Inv, InArguments, FallbacksAreEntries
  <2>2. UNCHANGED <<list, fallback, chk, arg>> /\ pc' \in {"default", "fallback"}
    BY <1>1 DEF RunMenuCommands, policy
  <2> QED
    BY <2>1, <2>2 DEF DistinctInv, AllDistinct
<1>2. CASE ChooseDefault
  <2>1. list' = list /\ config' = config
    BY <1>2 DEF ChooseDefault, disk
  <2>2. pc' \in {"menu", "hidden"}
    BY <1>2 DEF ChooseDefault, Restart
  <2>3. fallback' >= 0 => fallback >= 0
    BY <1>2 DEF ChooseDefault
  <2> QED
    BY <2>1, <2>2, <2>3, SameListDistinct
<1>3. CASE CountDown \/ EscapeHidden
  BY <1>3, SameListDistinct DEF CountDown, EscapeHidden, Boot, disk, policy
<1>4. CASE PressKey
  <2>1. \A f, e : MoveTo(f, e) => Key /\ pc' = pc
    BY DEF MoveTo
  <2>2. \A t : JumpTo(t) => Key /\ pc' = pc
    BY <2>1 DEF JumpTo
  <2>3. MoveKey => Key /\ pc' = pc
    <3>1. Up \/ Down \/ PageUp \/ PageDown => Key /\ pc' = pc
      BY <2>1 DEF Up, Down, PageUp, PageDown
    <3>2. Home \/ End \/ (\E c \in Digits : Digit(c)) => Key /\ pc' = pc
      BY <2>1, <2>2 DEF Home, End, Digit
    <3> QED
      BY <3>1, <3>2 DEF MoveKey
  <2>4. EditKey => Key /\ pc' # "fallback" /\ pc' # "validate"
    BY DEF EditKey, OpenLine, DeleteLine, EditLine, LeaveEdit, Key, Restart
  <2>5. BootKey \/ EditEntry \/ CommandLine =>
          Key /\ pc' # "fallback" /\ pc' # "validate"
    BY DEF BootKey, Boot, EditEntry, CommandLine, Restart
  <2>6. Key /\ pc' # "fallback" /\ pc' # "validate"
    BY <1>4, <2>3, <2>4, <2>5 DEF PressKey, Key
  <2> QED
    BY <1>0, <2>6, SameListDistinct DEF Key, disk
<1>5. CASE Boots
  <2>1. CASE FallBack
    BY <2>1, SameListDistinct DEF FallBack, disk
  <2>2. CASE StartSystem \/ ReportError
    BY <2>2, SameListDistinct DEF StartSystem, ReportError, disk, policy
  <2>3. CASE BackToMenu
    BY <2>3, SameListDistinct DEF BackToMenu, Restart, policy
  <2> QED
    BY <1>5, <2>1, <2>2, <2>3 DEF Boots
<1>6. CASE Reset
  BY <1>6 DEF Reset, DistinctInv
<1>7. CASE UNCHANGED vars
  BY <1>7 DEF vars, disk, policy, DistinctInv, EndsDistinct, AllDistinct
<1> QED
  BY <1>1, <1>2, <1>3, <1>4, <1>5, <1>6, <1>7, ParseFallbackDistinct,
     ValidateFallbackDistinct DEF Next

(***************************************************************************)
(* No entry is twice on the list of fallbacks, for any fallback command    *)
(* that does not fill it (fallback_func and the validation in cmain).      *)
(***************************************************************************)
THEOREM NoFallbackTwice == Spec => []FallbacksDistinct
<1>1. Init => DistinctInv
  BY DEF Init, DistinctInv
<1>2. Inv /\ DistinctInv => FallbacksDistinct
  <2> SUFFICES ASSUME Inv, DistinctInv, fallback >= 0,
                      Len(config.fallback) < MaxFallback,
                      NEW j \in DOMAIN list, NEW i \in 0 .. j - 1,
                      \A k \in 0 .. j : list[k] >= 0
               PROVE  list[i] # list[j]
    BY DEF FallbacksDistinct
  <2>1. DOMAIN list = 0 .. MaxFallback - 1 /\ MaxFallback \in Nat
    BY MenuAssumption DEF Inv, TypeOK, ListOK
  <2>2. PICK n \in DOMAIN list : list[n] < 0 /\ AllDistinct(n)
    BY DEF DistinctInv, EndsDistinct
  <2>3. list[n] \in Int
    BY <2>1, <2>2 DEF Inv, TypeOK, ListOK
  <2>4. ~ n \in 0 .. j
    BY <2>2, <2>3
  <2> QED
    BY <2>1, <2>2, <2>4 DEF AllDistinct
<1> QED
  BY <1>1, <1>2, DistinctStep, Invariance, PTL DEF Spec

------------------------------------------------------------------------------
(***************************************************************************)
(* The cursor among the lines of an edited entry.  Without a fallback      *)
(* command there never is a fallback that could move it elsewhere.         *)
(***************************************************************************)
EditsCleanly ==
  level = "edit" /\ ~ emptied /\ ~ strayed /\ config.fallback = <<>>

LinesInv ==
  /\ pc \in {"config", "fallback", "validate", "default"} => level = "main"
  /\ config.fallback = <<>> => fallback = -1 /\ pc \notin {"fallback", "validate"}
  /\ EditsCleanly => first + entryno < num

\* What a step that neither edits lines nor moves the cursor must see to.
LEMMA KeepsLine ==
  ASSUME LinesInv, UNCHANGED <<config, level, emptied, strayed, num>>,
         first' + entryno' = first + entryno,
         pc' \in {"config", "fallback", "validate", "default"} => level = "main",
         config.fallback = <<>> =>
           fallback' = -1 /\ pc' \notin {"fallback", "validate"}
  PROVE  LinesInv'
  BY DEF LinesInv, EditsCleanly

\* What a key does to the fallback, in a menu that has none.
LEMMA KeyKeepsNone ==
  ASSUME LinesInv, Key, pc' \in {"menu", "hidden", "run"}
  PROVE  config' = config /\ (config.fallback = <<>> =>
           fallback' = -1 /\ pc' \notin {"fallback", "validate"})
  BY DEF LinesInv, Key, disk

LEMMA MoveToLines ==
  ASSUME LinesInv, NEW f \in Int, NEW e \in Int, MoveTo(f, e),
         EditsCleanly => f + e < num
  PROVE  LinesInv'
<1>1. Key /\ pc' = "menu" /\ UNCHANGED <<level, emptied, strayed, num>>
      /\ first' = f /\ entryno' = e
  BY DEF MoveTo, Key
<1> QED
  BY <1>1, KeyKeepsNone DEF LinesInv, EditsCleanly

LEMMA UpLines == Inv /\ LinesInv /\ Up => LinesInv'
<1> SUFFICES ASSUME Inv, LinesInv, Up PROVE LinesInv'
  OBVIOUS
<1>1. \E f, e \in Int : MoveTo(f, e) /\ (EditsCleanly => f + e < num)
  BY DEF Inv, Up, Max2, TypeOK, CursorOK, LinesInv, EditsCleanly, NeverNegative
<1> QED
  BY <1>1, MoveToLines

LEMMA DownLines == Inv /\ LinesInv /\ Down => LinesInv'
<1> SUFFICES ASSUME Inv, LinesInv, Down PROVE LinesInv'
  OBVIOUS
<1>1. H \in Nat \ {0, 1}
  BY TermType DEF Inv
<1>2. /\ first \in Int /\ entryno \in Int /\ num \in Nat
      /\ EditsCleanly => first + entryno < num
  BY DEF Inv, TypeOK, CursorOK, LinesInv
<1>3. \E f, e \in Int : MoveTo(f, e) /\ (EditsCleanly => f + e < num)
  <2> DEFINE below == first + entryno + 1 < num
  <2>1. CASE below /\ MoveTo(first, entryno + 1)
    BY <1>2, <2>1
  <2>2. CASE /\ below /\ entryno >= H - 1
             /\ MoveTo(IF num > H + first THEN first + 1 ELSE first, entryno)
    <3>1. PICK f \in Int : f = IF num > H + first THEN first + 1 ELSE first
      BY <1>2
    <3>2. f + entryno < num
      BY <1>1, <1>2, <2>2, <3>1
    <3> QED
      BY <1>2, <2>2, <3>1, <3>2
  <2>3. CASE MoveTo(first, entryno)
    BY <1>2, <2>3
  <2>4. \/ below /\ MoveTo(first, entryno + 1)
        \/ /\ below /\ ~ (entryno < H - 1)
           /\ MoveTo(IF num > H + first THEN first + 1 ELSE first, entryno)
        \/ MoveTo(first, entryno)
    BY DEF Down
  <2>5. ~ (entryno < H - 1) => entryno >= H - 1
    BY <1>1, <1>2
  <2> QED
    BY <2>1, <2>2, <2>3, <2>4, <2>5
<1> QED
  BY <1>3, MoveToLines

LEMMA PageLines == Inv /\ LinesInv /\ (PageUp \/ PageDown) => LinesInv'
<1> SUFFICES ASSUME Inv, LinesInv, PageUp \/ PageDown PROVE LinesInv'
  OBVIOUS
<1>1. H \in Nat \ {0, 1}
  BY TermType DEF Inv
<1>2. EditsCleanly => first >= 0 /\ entryno >= 0 /\ num > 0
  BY DEF Inv, Lines, NeverNegative, EditsCleanly, TypeOK, CursorOK
<1>3. /\ first \in Int /\ entryno \in Int /\ num \in Nat
      /\ EditsCleanly => first + entryno < num
  BY DEF Inv, TypeOK, CursorOK, LinesInv
<1>4. PICK h \in Nat \ {0, 1} : h = H
  BY <1>1
<1>5. CASE PageUp
  <2>1. CASE first >= h /\ MoveTo(first - h, entryno)
    <3>1. EditsCleanly => (first - h) + entryno < num
      BY <1>3
    <3>2. first - h \in Int
      BY <1>3
    <3> QED
      BY <1>3, <2>1, <3>1, <3>2, MoveToLines
  <2>2. CASE ~ (first >= h) /\ MoveTo(0, Max2(0, entryno + first - h))
    <3>1. PICK e \in Int : e = Max2(0, entryno + first - h)
      BY <1>3 DEF Max2
    <3>2. EditsCleanly => 0 + e < num
      BY <1>2, <1>3, <3>1 DEF Max2
    <3> QED
      BY <2>2, <3>1, <3>2, MoveToLines
  <2> QED
    BY <1>4, <1>5, <2>1, <2>2 DEF PageUp
<1>6. CASE PageDown
  <2> DEFINE top == Max2(0, num - h)
  <2>1. CASE MoveTo(top, num - top - 1)
    <3>1. PICK t \in Nat : t = top
      BY <1>3 DEF Max2
    <3>2. num - t - 1 \in Int /\ t + (num - t - 1) < num
      BY <1>3
    <3> QED
      BY <2>1, <3>1, <3>2, MoveToLines
  <2>2. CASE ~ (first + h + entryno + 1 >= num) /\ MoveTo(first + h, entryno)
    <3>1. first + h \in Int /\ (first + h) + entryno < num
      BY <1>3, <2>2
    <3> QED
      BY <1>3, <2>2, <3>1, MoveToLines
  <2> QED
    BY <1>4, <1>6, <2>1, <2>2 DEF PageDown
<1> QED
  BY <1>5, <1>6

\* A number typed leads to that line, or nowhere.
LEMMA JumpToLines ==
  ASSUME Inv, LinesInv, NEW t \in Int, JumpTo(t), EditsCleanly => t < num
  PROVE  LinesInv'
<1>1. H \in Nat \ {0, 1} /\ first \in Int /\ entryno \in Int
  BY TermType DEF Inv, TypeOK, CursorOK
<1>2. CASE t = first + entryno
  <2>1. MoveTo(first, entryno)
    BY <1>2 DEF JumpTo
  <2> QED
    BY <1>1, <1>2, <2>1, MoveToLines
<1>3. CASE t # first + entryno /\ t < 0
  <2>1. MoveTo(0, t)
    BY <1>3 DEF JumpTo
  <2> QED
    BY <2>1, MoveToLines
<1>4. CASE t # first + entryno /\ t >= 0
  <2> DEFINE f == (t \div H) * H
             e == t % H
  <2>1. MoveTo(f, e)
    BY <1>4 DEF JumpTo
  <2>2. f \in Int /\ e \in Int /\ f + e = t
    <3>1. t \in Nat
      BY <1>4
    <3>2. \A h \in Nat \ {0} : /\ (t \div h) * h \in Nat /\ t % h \in 0 .. h - 1
                                /\ (t \div h) * h + (t % h) = t
      BY <3>1, DivMod
    <3> QED
      BY <1>1, <3>2
  <2> HIDE DEF f, e
  <2> QED
    BY <2>1, <2>2, MoveToLines
<1> QED
  BY <1>2, <1>3, <1>4

LEMMA TypedLines ==
  ASSUME Inv, LinesInv, Home \/ End \/ \E c \in Digits : Digit(c)
  PROVE  LinesInv'
<1>1. num \in Nat /\ first \in Int /\ entryno \in Int /\ (EditsCleanly => num > 0)
  BY DEF Inv, TypeOK, CursorOK, Lines, EditsCleanly
<1>2. CASE Home
  <2>1. JumpTo(0) /\ (EditsCleanly => 0 < num)
    BY <1>1, <1>2 DEF Home
  <2> QED
    BY <2>1, JumpToLines
<1>3. CASE End
  <2>1. PICK t \in Int : t = num - 1 /\ JumpTo(t)
    BY <1>1, <1>3 DEF End
  <2>2. t < num
    BY <1>1, <2>1
  <2> QED
    BY <2>1, <2>2, JumpToLines
<1>4. CASE \E c \in Digits : Digit(c)
  <2>1. PICK c \in Digits : Digit(c)
    BY <1>4
  <2>2. c \in Nat /\ temp \in Nat
    BY <2>1, MenuAssumption DEF Digit, Inv, TypeOK, CursorOK
  <2>3. PICK t \in Nat : /\ t < num \/ t = 0
                         /\ JumpTo(t) \/ MoveTo(first, entryno)
    BY <1>1, <2>1, <2>2 DEF Digit
  <2>4. CASE JumpTo(t)
    <3>1. t \in Int /\ (EditsCleanly => t < num)
      BY <1>1, <2>3
    <3> QED
      BY <2>4, <3>1, JumpToLines
  <2>5. CASE MoveTo(first, entryno)
    BY <1>1, <2>5, MoveToLines DEF LinesInv
  <2> QED
    BY <2>3, <2>4, <2>5
<1> QED
  BY <1>2, <1>3, <1>4

LEMMA OpenLineLines ==
  ASSUME Inv, LinesInv, NEW after \in BOOLEAN, OpenLine(after)
  PROVE  LinesInv'
<1>1. Key /\ pc' = "menu" /\ UNCHANGED <<level, emptied, strayed>> /\ num' = num + 1
  BY DEF OpenLine, Key
<1>2. first' + entryno' = IF after THEN first + entryno + 1 ELSE first + entryno
  BY DEF OpenLine, Inv, TypeOK, CursorOK
<1>3. first \in Int /\ entryno \in Int /\ num \in Nat
  BY DEF Inv, TypeOK, CursorOK
<1> QED
  BY <1>1, <1>2, <1>3, KeyKeepsNone DEF LinesInv, EditsCleanly

\* Below the box of a screen there is no cursor; so the line above is taken, or
\* the window moves up, whenever the last line goes.
LEMMA DeleteLineLines == Inv /\ LinesInv /\ DeleteLine => LinesInv'
<1> SUFFICES ASSUME Inv, LinesInv, DeleteLine PROVE LinesInv'
  OBVIOUS
<1>1. H \in Nat \ {0, 1}
  BY TermType DEF Inv
<1>2. Key /\ pc = "menu" /\ pc' = "menu" /\ level' = level
  BY DEF DeleteLine, Key
<1>3. /\ first \in Int /\ entryno \in Int /\ num \in Nat /\ num' = num - 1
      /\ entryno' = IF entryno >= num - 1 THEN entryno - 1 ELSE entryno
      /\ first' = IF first > 0 /\ num - 1 < H + first THEN first - 1 ELSE first
  BY DEF DeleteLine, LineAbove, Inv, TypeOK, CursorOK
<1>4. ASSUME EditsCleanly'
      PROVE  first' + entryno' < num'
  <2>1. /\ EditsCleanly /\ num' # 0
        /\ term.dumb => ~ first > 0
    BY <1>2, <1>4, KeyKeepsNone DEF EditsCleanly, DeleteLine
  <2>2. first + entryno < num /\ first >= 0 /\ entryno >= 0
    BY <2>1 DEF LinesInv, EditsCleanly, Inv, NeverNegative
  <2>3. term.dumb \/ entryno < H
    BY <1>2 DEF Inv, InBox
  <2>4. term.dumb \in BOOLEAN
    BY MenuAssumption DEF Inv, TypeOK, RunOK
  <2>5. first = 0 \/ entryno < H
    BY <1>3, <2>1, <2>2, <2>3
  <2> QED
    BY <1>1, <1>3, <2>1, <2>2, <2>5
<1> QED
  BY <1>2, <1>4, KeyKeepsNone DEF LinesInv

\* Keys that leave the lines alone.
LEMMA OtherKeysLines ==
  ASSUME Inv, LinesInv,
         BootKey \/ EditEntry \/ LeaveEdit \/ EditLine \/ CommandLine
  PROVE  LinesInv'
<1>0. /\ first \in Int /\ entryno \in Int /\ timeout' \in Int
      /\ shown \in BOOLEAN /\ term \in Terms /\ pc = "menu"
  BY DEF Inv, TypeOK, CursorOK, RunOK, FlagsOK, BootKey, EditEntry, LeaveEdit,
     EditLine, CommandLine, Key
<1>1. CASE BootKey
  BY <1>1, KeyKeepsNone, KeepsLine DEF BootKey, Boot, cursor
<1>2. CASE EditEntry
  <2>1. Restart(0, 0, term, shown) /\ Key /\ num' >= 1 /\ num' \in Nat
    BY <1>2, MenuAssumption DEF EditEntry
  <2>2. 0 \in Int /\ term \in Terms /\ shown \in BOOLEAN /\ timeout' \in Int
    BY <1>0
  <2>3. first' + entryno' = 0 + 0 /\ pc' \in {"menu", "hidden"}
    BY <2>1, <2>2, RestartMoves, Zenon
  <2> QED
    BY <2>1, <2>3, KeyKeepsNone DEF LinesInv
<1>3. CASE LeaveEdit
  <2>1. Key /\ level' = "main" /\ pc' \in {"menu", "hidden"}
    BY <1>3 DEF LeaveEdit, Restart
  <2> QED
    BY <2>1, KeyKeepsNone DEF LinesInv, EditsCleanly
<1>4. CASE EditLine
  <2>1. Restart(first, entryno, term, shown) /\ Key
        /\ UNCHANGED <<level, emptied, strayed, num>>
    BY <1>4 DEF EditLine
  <2>2. first' + entryno' = first + entryno /\ pc' \in {"menu", "hidden"}
    BY <1>0, <2>1, RestartMoves
  <2> QED
    BY <2>1, <2>2, KeyKeepsNone, KeepsLine
<1>5. CASE CommandLine
  <2>1. Restart(first, entryno, term', shown) /\ Key /\ term' \in Terms
        /\ UNCHANGED <<level, emptied, strayed, num>>
    BY <1>5 DEF CommandLine
  <2>2. first' + entryno' = first + entryno /\ pc' \in {"menu", "hidden"}
    BY <1>0, <2>1, RestartMoves
  <2> QED
    BY <2>1, <2>2, KeyKeepsNone, KeepsLine
<1> QED
  BY <1>1, <1>2, <1>3, <1>4, <1>5

\* Before the menu, in it without a key, and after it.
LEMMA NoKeyLines ==
  ASSUME Inv, LinesInv,
         \/ RunMenuCommands \/ ParseFallback \/ ValidateFallback \/ ChooseDefault
         \/ CountDown \/ EscapeHidden \/ Boots \/ Reset
  PROVE  LinesInv'
<1>0. first \in Int /\ entryno \in Int /\ fallback \in Int
  BY DEF Inv, TypeOK, CursorOK, ListOK
<1>1. CASE RunMenuCommands
  <2>1. fallback = -1 /\ level = "main"
    BY <1>1 DEF RunMenuCommands, Inv, FallbacksAreEntries, LinesInv
  <2>2. fallback' = -1 /\ UNCHANGED <<disk, cursor>>
        /\ (config.fallback = <<>> => pc' \notin {"fallback", "validate"})
    BY <1>1, <2>1 DEF RunMenuCommands, policy
  <2> QED
    BY <2>1, <2>2, KeepsLine DEF disk, cursor
<1>2. CASE ParseFallback
  <2>1. pc = "fallback" /\ UNCHANGED <<disk, cursor>>
    BY <1>2 DEF ParseFallback
  <2> QED
    BY <2>1, KeepsLine DEF LinesInv, disk, cursor
<1>3. CASE ValidateFallback
  <2>1. pc = "validate" /\ UNCHANGED <<disk, cursor>>
    BY <1>3 DEF ValidateFallback
  <2> QED
    BY <2>1, KeepsLine DEF LinesInv, disk, cursor
<1>4. CASE ChooseDefault
  <2>1. fallback = -1 => fallback' = -1
    BY <1>4 DEF ChooseDefault
  <2>2. pc = "default"
    BY <1>4 DEF ChooseDefault
  <2>3. pc' \in {"menu", "hidden"} /\ UNCHANGED <<config, level, emptied, strayed, num>>
    BY <1>4 DEF ChooseDefault, Restart, disk
  <2>4. level = "main"
    BY <2>2 DEF LinesInv
  <2> QED
    BY <2>1, <2>3, <2>4 DEF LinesInv, EditsCleanly
<1>5. CASE CountDown \/ EscapeHidden
  BY <1>5, KeepsLine DEF CountDown, EscapeHidden, Boot, disk, cursor, policy, LinesInv
<1>6. CASE StartSystem \/ ReportError
  BY <1>6, KeepsLine DEF StartSystem, ReportError, disk, cursor, policy, LinesInv
<1>7. CASE FallBack
  <2>1. fallback >= 0 /\ UNCHANGED config /\ pc = "run" /\ pc' = pc
    BY <1>7 DEF FallBack, disk
  <2> QED
    BY <1>0, <2>1 DEF LinesInv, EditsCleanly
<1>8. CASE BackToMenu
  <2>1. Restart(first, entryno, term, TRUE) /\ timeout' = timeout
        /\ UNCHANGED <<config, level, emptied, strayed, num, policy>>
    BY <1>8 DEF BackToMenu
  <2>2. first' + entryno' = first + entryno /\ pc' \in {"menu", "hidden"}
    BY <1>0, <2>1, RestartMoves DEF Inv, TypeOK, RunOK
  <2> QED
    BY <2>1, <2>2, KeepsLine DEF LinesInv, policy
<1>9. CASE Reset
  BY <1>9 DEF Reset, LinesInv, EditsCleanly
<1> QED
  BY <1>1, <1>2, <1>3, <1>4, <1>5, <1>6, <1>7, <1>8, <1>9 DEF Boots

LEMMA LinesStep == Inv /\ LinesInv /\ [Next]_vars => LinesInv'
<1> SUFFICES ASSUME Inv, LinesInv, [Next]_vars PROVE LinesInv'
  OBVIOUS
<1>1. CASE PressKey
  <2>1. CASE MoveKey
    BY <2>1, UpLines, DownLines, PageLines, TypedLines DEF MoveKey
  <2>2. CASE EditKey
    BY <2>2, OpenLineLines, DeleteLineLines, OtherKeysLines DEF EditKey
  <2> QED
    BY <1>1, <2>1, <2>2, OtherKeysLines DEF PressKey
<1>2. CASE UNCHANGED vars
  BY <1>2 DEF vars, disk, cursor, policy, LinesInv, EditsCleanly
<1> QED
  BY <1>1, <1>2, NoKeyLines DEF Next

(***************************************************************************)
(* The cursor stays on a line of the edited entry, for any number of       *)
(* lines, whatever keys edit them and move it, and whatever terminals it   *)
(* is seen on, but for the deletion the comment on TERM_DUMB excludes.     *)
(***************************************************************************)
THEOREM CursorStaysOnLine == Spec => []CursorInEdit
<1>1. Init => LinesInv
  BY DEF Init, LinesInv, EditsCleanly
<1>2. Inv /\ LinesInv => CursorInEdit
  BY DEF Inv, NeverNegative, LinesInv, EditsCleanly, CursorInEdit
<1> QED
  BY <1>1, <1>2, LinesStep, Invariance, PTL DEF Spec

------------------------------------------------------------------------------
(***************************************************************************)
(* What comes next.  As long as the clock runs, the entry at the cursor is *)
(* the default, or the number before fallback in the list; without a key   *)
(* the same holds of the entry being run, and a key stops the clock.       *)
(***************************************************************************)
Placed(e) ==
  fallback >= 0 => \/ fallback = 0 /\ e = DefaultEntry
                   \/ fallback > 0 /\ e = list[fallback - 1]

PlacedInv ==
  /\ pc \in {"config", "fallback", "validate", "default"} => level = "main"
  /\ pc = "default" => fallback <= 0
  /\ pc \in {"run", "error"} => timeout < 0
  /\ pc \in {"menu", "hidden"} /\ timeout >= 0 =>
       level = "main" /\ Placed(first + entryno)
  /\ pc = "run" /\ ~ attended => level = "main" /\ Placed(current)

LEMMA ChooseDefaultPlaced ==
  ASSUME Inv, PlacedInv, ChooseDefault
  PROVE  PlacedInv'
<1>1. /\ pc = "default" /\ level' = "main" /\ fallback \in {-1, 0}
      /\ UNCHANGED <<config, saved, list, timeout>>
      /\ timeout' \in Int /\ term \in Terms /\ shown \in BOOLEAN
  BY DEF ChooseDefault, PlacedInv, disk, Inv, TypeOK, ListOK, RunOK, FlagsOK
<1>2. DefaultEntry \in Int /\ DefaultEntry' = DefaultEntry
  BY <1>1, MenuAssumption DEF DefaultEntry, Saved, Inv, TypeOK, DiskOK
<1>3. \A d \in Int : Restart(0, d, term, shown) =>
        first' + entryno' = d /\ pc' \in {"menu", "hidden"}
  BY <1>1, RestartMoves
<1>4. Placed(first + entryno)' /\ pc' \in {"menu", "hidden"}
  <2>1. CASE DefaultEntry < N /\ Restart(0, DefaultEntry, term, shown) /\ UNCHANGED fallback
    BY <1>1, <1>2, <1>3, <2>1 DEF Placed
  <2>2. CASE fallback >= 0 /\ Restart(0, list[0], term, shown) /\ fallback' = NextFallback
    <3>1. list[0] \in Int
      BY <2>2, MenuAssumption DEF Inv, TypeOK, ListOK
    <3>2. fallback' \in {-1, 1} /\ fallback = 0
      BY <1>1, <2>2 DEF NextFallback
    <3> QED
      BY <1>1, <1>3, <2>2, <3>1, <3>2 DEF Placed
  <2>3. CASE fallback < 0 /\ Restart(0, 0, term, shown) /\ UNCHANGED fallback
    BY <1>1, <1>3, <2>3 DEF Placed
  <2> QED
    BY <2>1, <2>2, <2>3 DEF ChooseDefault
<1> QED
  BY <1>1, <1>4 DEF PlacedInv

\* A key stops the clock, and the user is there.
LEMMA PressKeyPlaced ==
  ASSUME Inv, PlacedInv, PressKey
  PROVE  PlacedInv'
<1>1. \A f, e : MoveTo(f, e) => Key /\ pc' = pc
  BY DEF MoveTo
<1>2. \A t : JumpTo(t) => Key /\ pc' = pc
  BY <1>1 DEF JumpTo
<1>3. MoveKey => Key /\ pc' = pc
  <2>1. Up \/ Down \/ PageUp \/ PageDown => Key /\ pc' = pc
    BY <1>1 DEF Up, Down, PageUp, PageDown
  <2>2. Home \/ End \/ (\E c \in Digits : Digit(c)) => Key /\ pc' = pc
    BY <1>1, <1>2 DEF Home, End, Digit
  <2> QED
    BY <2>1, <2>2 DEF MoveKey
<1>4. EditKey => Key /\ pc' \in {"menu", "hidden"}
  BY DEF EditKey, OpenLine, DeleteLine, EditLine, LeaveEdit, Key, Restart
<1>5. BootKey \/ EditEntry \/ CommandLine => Key /\ pc' \in {"menu", "hidden", "run"}
  BY DEF BootKey, Boot, EditEntry, CommandLine, Restart
<1>6. Key /\ pc' \in {"menu", "hidden", "run"}
  BY <1>3, <1>4, <1>5 DEF PressKey, Key
<1> QED
  BY <1>6 DEF Key, PlacedInv

LEMMA BootsPlaced ==
  ASSUME Inv, PlacedInv, Boots
  PROVE  PlacedInv'
<1>1. CASE FallBack
  <2>1. /\ pc' = "run" /\ pc = "run" /\ UNCHANGED <<level, timeout, attended, list>>
        /\ fallback >= 0 /\ fallback' = NextFallback /\ current' = list[fallback]
    BY <1>1 DEF FallBack
  <2>2. fallback' = -1 \/ fallback' = fallback + 1
    BY <2>1 DEF NextFallback
  <2>3. fallback \in Int
    BY DEF Inv, TypeOK, ListOK
  <2>4. Placed(current)'
    BY <2>1, <2>2, <2>3 DEF Placed
  <2> QED
    BY <2>1, <2>4 DEF PlacedInv
<1>2. CASE StartSystem
  BY <1>2 DEF StartSystem, PlacedInv
<1>3. CASE ReportError
  BY <1>3 DEF ReportError, PlacedInv
<1>4. CASE BackToMenu
  <2>1. pc' \in {"menu", "hidden"} /\ timeout' = timeout /\ pc \in {"run", "error"}
    BY <1>4 DEF BackToMenu, Restart
  <2>2. timeout \in Int
    BY DEF Inv, TypeOK, RunOK
  <2> QED
    BY <2>1, <2>2 DEF PlacedInv
<1> QED
  BY <1>1, <1>2, <1>3, <1>4 DEF Boots

LEMMA PlacedStep == Inv /\ PlacedInv /\ [Next]_vars => PlacedInv'
<1> SUFFICES ASSUME Inv, PlacedInv, [Next]_vars PROVE PlacedInv'
  OBVIOUS
<1>1. CASE RunMenuCommands
  <2>1. fallback = -1 /\ pc = "config" /\ pc' \in {"default", "fallback"}
        /\ fallback' = fallback /\ level' = level
    BY <1>1 DEF RunMenuCommands, Inv, FallbacksAreEntries, cursor, policy
  <2> QED
    BY <2>1 DEF PlacedInv
<1>2. CASE ParseFallback
  <2>1. fallback = -1 /\ pc = "fallback" /\ level' = level
    BY <1>2 DEF ParseFallback, Inv, FallbacksAreEntries, cursor
  <2>2. pc' \in {"fallback", "validate", "default"} /\ fallback' \in {-1, 0}
        /\ (pc' = "default" => fallback' = -1)
    BY <1>2, <2>1 DEF ParseFallback, FallbackDone, policy
  <2> QED
    BY <2>1, <2>2 DEF PlacedInv
<1>3. CASE ValidateFallback
  <2>1. fallback = 0 /\ pc = "validate" /\ level' = level
    BY <1>3 DEF ValidateFallback, Inv, FallbacksAreEntries, cursor
  <2>2. pc' \in {"validate", "default"} /\ fallback' \in {-1, 0}
    BY <1>3, <2>1 DEF ValidateFallback
  <2> QED
    BY <2>1, <2>2 DEF PlacedInv
<1>4. CASE CountDown
  <2>1. /\ pc \in {"menu", "hidden"} /\ timeout >= 0 /\ timeout \in Int
        /\ timeout' = timeout - 1
        /\ UNCHANGED <<config, saved, list, fallback, level, first, entryno>>
        /\ IF timeout = 0 THEN Boot ELSE UNCHANGED <<pc, running>>
    BY <1>4 DEF CountDown, disk, policy, cursor, Inv, TypeOK, RunOK
  <2>2. DefaultEntry' = DefaultEntry
    BY <2>1 DEF DefaultEntry
  <2>3. level' = "main" /\ Placed(first + entryno)
    BY <2>1 DEF PlacedInv
  <2>4. CASE timeout = 0
    <3>1. pc' = "run" /\ current' = first + entryno
      BY <2>1, <2>4 DEF Boot
    <3>2. Placed(current)'
      BY <2>1, <2>2, <2>3, <3>1 DEF Placed
    <3> QED
      BY <2>1, <2>3, <2>4, <3>1, <3>2 DEF PlacedInv
  <2>5. CASE timeout # 0
    <3>1. Placed(first + entryno)'
      BY <2>1, <2>2, <2>3 DEF Placed
    <3> QED
      BY <2>1, <2>3, <2>5, <3>1 DEF PlacedInv
  <2> QED
    BY <2>4, <2>5
<1>5. CASE EscapeHidden
  BY <1>5 DEF EscapeHidden, PlacedInv
<1>6. CASE Reset
  BY <1>6 DEF Reset, PlacedInv, Inv, FallbacksAreEntries
<1>7. CASE UNCHANGED vars
  BY <1>7 DEF vars, disk, cursor, policy, running, PlacedInv, Placed, DefaultEntry
<1> QED
  BY <1>1, <1>2, <1>3, <1>4, <1>5, <1>6, <1>7, ChooseDefaultPlaced, PressKeyPlaced,
     BootsPlaced DEF Next

\* The entry before the fallback is found where it is, and nowhere else.
LEMMA FoundInPlace ==
  ASSUME Inv, FallbacksDistinct, pc = "run", fallback > 0,
         Len(config.fallback) < MaxFallback
  PROVE  NextOf(list[fallback - 1]) = fallback
<1>1. /\ list \in [0 .. MaxFallback - 1 -> Int] /\ fallback \in 1 .. MaxFallback - 1
      /\ chk \in Nat /\ fallback < chk /\ chk <= MaxFallback
      /\ \A j \in 0 .. chk - 1 : list[j] >= 0
      /\ MaxFallback \in Nat
  BY MenuAssumption DEF Inv, TypeOK, ListOK, FallbacksAreEntries, Entries
<1> DEFINE before == fallback - 1
           used  == {i \in DOMAIN list : \A j \in 0 .. i : list[j] >= 0}
           found == {i \in used : list[i] = list[before]}
<1>2. before \in found
  BY <1>1
<1>3. \A j \in DOMAIN list : \A i \in 0 .. j - 1 :
        (\A k \in 0 .. j : list[k] >= 0) => list[i] # list[j]
  BY <1>1 DEF FallbacksDistinct
<1>4. \A i \in found : i = before
  <2> SUFFICES ASSUME NEW i \in found, i # before PROVE FALSE
    OBVIOUS
  <2>1. i \in 0 .. MaxFallback - 1 /\ before \in 0 .. MaxFallback - 1
        /\ (\A k \in 0 .. i : list[k] >= 0) /\ (\A k \in 0 .. before : list[k] >= 0)
        /\ list[i] = list[before]
    BY <1>1, <1>2
  <2>2. CASE i < before
    <3>1. i \in 0 .. before - 1
      BY <2>1, <2>2
    <3> QED
      BY <1>1, <1>3, <2>1, <3>1
  <2>3. CASE before < i
    <3>1. before \in 0 .. i - 1
      BY <2>1, <2>3
    <3> QED
      BY <1>1, <1>3, <2>1, <3>1
  <2> QED
    BY <2>1, <2>2, <2>3
<1> HIDE DEF found
<1>5. found = {before}
  BY <1>2, <1>4
<1>6. (CHOOSE i \in found : \A j \in found : i <= j) = before
  BY <1>1, <1>5 DEF before
<1>7. NextOf(list[before]) = 1 + before
  BY <1>5, <1>6 DEF NextOf, found, used
<1> QED
  BY <1>1, <1>7

(***************************************************************************)
(* With nobody at the keyboard, "savedefault fallback" would save what     *)
(* run_menu tries next, for any list of fallbacks that is not filled, any  *)
(* entries and any number of errors and resets, but for a default that is  *)
(* on the list itself (fallback_entryno and current_entryno).              *)
(***************************************************************************)
THEOREM SavedIsTriedNext == Spec => []SavesWhatComesNext
<1>1. Init => PlacedInv
  BY DEF Init, PlacedInv
<1>2. Inv /\ PlacedInv /\ FallbacksDistinct => SavesWhatComesNext
  <2> SUFFICES ASSUME Inv, PlacedInv, FallbacksDistinct, ~ attended, pc = "run",
                      fallback >= 0, Len(config.fallback) < MaxFallback
               PROVE  NextOf(current) = fallback \/ (fallback = 0 /\ current = DefaultEntry)
    BY DEF SavesWhatComesNext
  <2>1. Placed(current)
    BY DEF PlacedInv
  <2>2. CASE fallback > 0
    <3>1. current = list[fallback - 1]
      BY <2>1, <2>2 DEF Placed
    <3> QED
      BY <2>2, <3>1, FoundInPlace
  <2>3. CASE ~ fallback > 0
    BY <2>1, <2>3 DEF Placed
  <2> QED
    BY <2>2, <2>3
<1> QED
  BY <1>1, <1>2, PlacedStep, NoFallbackTwice, Invariance, PTL DEF Spec
==============================================================================
