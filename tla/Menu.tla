--------------------------------- MODULE Menu ---------------------------------
(***************************************************************************)
(* GRUB's menu from reading the configuration file to starting a system    *)
(* and back after the machine was reset: cmain and run_menu of             *)
(* grub4dos/stage2/stage2.c, and the commands fallback, default, timeout,  *)
(* hiddenmenu and savedefault of builtins.c.                               *)
(*                                                                         *)
(* The user, the clock and the machine act on it: a key may be pressed at  *)
(* any time, a second may pass first, an entry may fail to load or its     *)
(* system may crash, and only the default file outlives a reset.           *)
(***************************************************************************)
EXTENDS Integers, Sequences

CONSTANTS
  N,             \* entries of the menu (num_entries of cmain)
  MaxLines,      \* bound: lines of an edited entry; 0 to edit none
  MaxFallback,   \* MAX_FALLBACK_ENTRIES
  Terms,         \* terminals: [dumb : BOOLEAN, height : MENU_BOX_H]
  Configs,       \* menu commands: [default, timeout, fallback, hidden]
  Saves,         \* Saves[e]: entry e's savedefault: "none", "self", "fallback"
  Healths,       \* what may become of the entries: functions to Health
  Digits         \* digit keys the user has

Health == {"noload",    \* a command of the entry fails, before savedefault
           "returns",   \* no kernel is loaded: run_script returns 0
           "crashes",   \* the system starts and has the machine reset
           "works"}

Entries == 0 .. N - 1
SaveArgs == {"none", "self", "fallback"}

Saved == -1    \* default_entry of "default saved": the number in the default file

ASSUME MenuAssumption ==
  /\ N \in Nat \ {0} /\ MaxLines \in Nat /\ MaxFallback \in Nat \ {0}
  /\ Terms \subseteq [dumb : BOOLEAN, height : Nat \ {0, 1}]
  /\ \A c \in Configs :
       /\ c.default \in Nat \cup {Saved}
       /\ c.timeout \in Nat \cup {-1}
       /\ c.fallback \in Seq(Nat)
       /\ c.hidden \in BOOLEAN
  /\ Saves \in [Entries -> SaveArgs]
  /\ Healths \subseteq [Entries -> Health]
  /\ Digits \subseteq 0 .. 9

VARIABLES
  config, health,  \* the configuration file and the entries on the disk
  saved,           \* the default file: the entry savedefault wrote
  pc,              \* where GRUB is
  term,            \* current_term
  level,           \* run_menu's caller: "main" (cmain) or "edit" (run_menu, 'e')
  first, entryno,  \* first_entry, entryno: top line, cursor below it
  num,             \* num_entries of this run_menu
  outer,           \* the cursor of the menu below
  emptied,         \* all lines of an edited entry have once been deleted
  strayed,         \* a line was deleted on a dumb terminal that was scrolled
  temp,            \* temp_entryno: the number being typed
  timeout,         \* grub_timeout
  shown,           \* show_menu
  list,            \* fallback_entries
  fallback,        \* fallback_entryno
  chk, arg,        \* i of fallback_func and of cmain; fallback_func's argument
  current,         \* current_entryno
  ran,             \* what run_script is given: an entry, or one of the below
  attended         \* a key was pressed since the machine was first switched on

disk    == <<config, health, saved>>
cursor  == <<level, first, entryno, num, outer, emptied, strayed>>
policy  == <<list, fallback, chk, arg>>
running == <<current, ran>>
vars == <<disk, pc, term, cursor, temp, timeout, shown, policy, running, attended>>

Nothing == -1   \* values of ran: no script is run,
Edited  == -2   \* the lines of the edited entry,
Garbage == -3   \* whatever there is where an edited entry has no config_entries

H == term.height

Min2(a, b) == IF a < b THEN a ELSE b
Max2(a, b) == IF a > b THEN a ELSE b

(***************************************************************************)
(* reset and init_config, in memory that was just loaded.                  *)
(***************************************************************************)
NoFallbacks == [i \in 0 .. MaxFallback - 1 |-> IF i = 0 THEN -1 ELSE 0]

Init ==
  /\ config \in Configs /\ health \in Healths
  /\ saved = 0
  /\ pc = "config"
  /\ term \in Terms
  /\ level = "main" /\ first = 0 /\ entryno = 0 /\ num = N
  /\ outer = [first |-> 0, entryno |-> 0] /\ emptied = FALSE /\ strayed = FALSE
  /\ temp = 0 /\ timeout = -1 /\ shown = TRUE
  /\ list = NoFallbacks /\ fallback = -1 /\ chk = 0 /\ arg = 1
  /\ current = 0 /\ ran = Nothing
  /\ attended = FALSE

------------------------------------------------------------------------------
(***************************************************************************)
(* cmain: the menu commands are run, the fallback list is validated and    *)
(* the default entry chosen.                                               *)
(***************************************************************************)

RunMenuCommands ==
  /\ pc = "config"
  /\ pc' = IF config.fallback = <<>> THEN "default" ELSE "fallback"
  /\ timeout' = config.timeout
  /\ shown' = ~ config.hidden
  /\ UNCHANGED <<disk, term, cursor, temp, policy, running, attended>>

\* fallback_func has stored n numbers and is done.
FallbackDone(l, n) ==
  /\ list' = IF n < MaxFallback THEN [l EXCEPT ![n] = -1] ELSE l
  /\ fallback' = 0
  /\ pc' = "validate"
  /\ chk' = 0
  /\ UNCHANGED arg

AnyNumberIsNew(a) == FALSE   \* faulty OnList: duplicates are kept

OnList(a) == \E j \in 0 .. chk - 1 : list[j] = a

\* fallback_func looks at its next argument, a.  A number that is there already
\* is skipped without the blank behind it, where no number is then found.
ParseFallback ==
  /\ pc = "fallback"
  /\ LET a == config.fallback[arg]
         last == arg = Len(config.fallback)
         known == OnList(a)
         added == [list EXCEPT ![chk] = a]
     IN \/ known /\ last /\ FallbackDone(list, chk)
        \/ known /\ ~ last /\ pc' = "default" /\ UNCHANGED policy
        \/ /\ ~ known /\ (last \/ chk + 1 = MaxFallback)
           /\ FallbackDone(added, chk + 1)
        \/ /\ ~ known /\ ~ last /\ chk + 1 < MaxFallback
           /\ list' = added /\ chk' = chk + 1 /\ arg' = arg + 1
           /\ UNCHANGED <<pc, fallback>>
  /\ UNCHANGED <<disk, term, cursor, temp, timeout, shown, running, attended>>

\* grub_memmove over list[chk]: the last number stays where it is.
Removed == [i \in DOMAIN list |->
              IF i >= chk /\ i < MaxFallback - 1 THEN list[i + 1] ELSE list[i]]

Validated == chk \in DOMAIN list => list[chk] < 0

ValidateFallback ==
  /\ pc = "validate"
  /\ \/ /\ ~ Validated /\ list[chk] >= N
        /\ list' = Removed
        /\ UNCHANGED <<chk, fallback, pc>>
     \/ /\ ~ Validated /\ list[chk] < N
        /\ chk' = chk + 1
        /\ UNCHANGED <<list, fallback, pc>>
     \/ /\ Validated
        /\ fallback' = IF list[0] < 0 THEN -1 ELSE fallback
        /\ pc' = "default"
        /\ UNCHANGED <<list, chk>>
  /\ UNCHANGED <<disk, term, cursor, temp, timeout, shown, arg, running, attended>>

SameFallback == fallback     \* faulty NextFallback: the same one again and again

NextFallback == IF fallback + 1 >= MaxFallback \/ list[fallback + 1] < 0
                  THEN -1 ELSE fallback + 1

\* run_menu's label restart: the cursor is brought into the box, the menu is
\* shown unless it is hidden and the clock runs.
Restart(f, e, t, show) ==
  LET over == IF t.dumb THEN 0 ELSE Max2(0, e - (t.height - 1)) IN
  /\ first' = f + over /\ entryno' = e - over
  /\ temp' = 0
  /\ shown' = (show \/ timeout' < 0)
  /\ pc' = IF shown' THEN "menu" ELSE "hidden"

\* What the command default asks for, which need not be an entry.
DefaultEntry == IF config.default = Saved THEN saved ELSE config.default

ChooseDefault ==
  /\ pc = "default"
  /\ UNCHANGED <<disk, term, level, num, outer, emptied, strayed, timeout, list,
                 chk, arg, running, attended>>
  /\ \/ /\ DefaultEntry < N
        /\ Restart(0, DefaultEntry, term, shown)
        /\ UNCHANGED fallback
     \/ /\ DefaultEntry >= N /\ fallback >= 0
        /\ Restart(0, list[0], term, shown)
        /\ fallback' = NextFallback
     \/ /\ DefaultEntry >= N /\ fallback < 0
        /\ Restart(0, 0, term, shown)
        /\ UNCHANGED fallback

------------------------------------------------------------------------------
(***************************************************************************)
(* run_menu: the clock.                                                    *)
(***************************************************************************)

\* The highlighted entry is booted; in an edited entry, its lines are.
Boot ==
  /\ pc' = "run"
  /\ current' = first' + entryno'
  /\ ran' = IF level = "main" THEN first' + entryno' ELSE Edited

\* A second passes, on the menu or on "Press `ESC' to enter the menu".
CountDown ==
  /\ pc \in {"menu", "hidden"} /\ timeout >= 0
  /\ timeout' = timeout - 1
  /\ UNCHANGED cursor
  /\ IF timeout = 0 THEN Boot ELSE UNCHANGED <<pc, running>>
  /\ UNCHANGED <<disk, term, temp, shown, policy, attended>>

EscapeHidden ==
  /\ pc = "hidden"
  /\ timeout' = -1
  /\ shown' = TRUE /\ pc' = "menu" /\ temp' = 0
  /\ attended' = TRUE
  /\ UNCHANGED <<disk, term, cursor, policy, running>>

(***************************************************************************)
(* run_menu: the keys.  A key stops the clock, and with it the fallback.   *)
(***************************************************************************)
Key ==
  /\ pc = "menu"
  /\ timeout' = -1
  /\ fallback' = IF timeout >= 0 THEN -1 ELSE fallback
  /\ attended' = TRUE
  /\ UNCHANGED <<disk, list, chk, arg>>

\* A key that only moves the cursor to line e of the window starting at f.
MoveTo(f, e) ==
  /\ Key
  /\ first' = f /\ entryno' = e
  /\ UNCHANGED <<pc, term, level, num, outer, emptied, strayed, shown, running>>

Up ==
  /\ temp' = 0
  /\ \/ entryno > 0 /\ MoveTo(first, entryno - 1)
     \/ entryno <= 0 /\ MoveTo(IF term.dumb THEN first ELSE Max2(0, first - 1), entryno)

Down ==
  /\ temp' = 0
  /\ LET below == first + entryno + 1 < num
         inside == term.dumb \/ entryno < H - 1
     IN \/ below /\ inside /\ MoveTo(first, entryno + 1)
        \/ /\ below /\ ~ inside
           /\ MoveTo(IF num > H + first THEN first + 1 ELSE first, entryno)
        \/ ~ below /\ MoveTo(first, entryno)

PageUp ==
  /\ temp' = 0
  /\ IF first >= H THEN MoveTo(first - H, entryno)
                   ELSE MoveTo(0, Max2(0, entryno + first - H))

\* faulty: the last page's last line is counted from 1.
PageDownTooFar ==
  /\ temp' = 0
  /\ IF first + H + entryno + 1 >= num
       THEN LET top == Max2(0, num - H) IN MoveTo(top, num - top)
       ELSE MoveTo(first + H, entryno)

PageDown ==
  /\ temp' = 0
  /\ IF first + H + entryno + 1 >= num
       THEN LET top == Max2(0, num - H) IN MoveTo(top, num - top - 1)
       ELSE MoveTo(first + H, entryno)

\* Label check_update, reached with number t in temp_entryno, and what follows
\* it.  C's division truncates: -1, of an empty list, is line -1.
JumpTo(t) ==
  /\ temp' = IF t * 10 >= num THEN 0 ELSE t
  /\ IF t = first + entryno THEN MoveTo(first, entryno)
     ELSE IF t < 0 THEN MoveTo(0, t)
     ELSE MoveTo((t \div H) * H, t % H)

\* Bound: no digits after End in an empty list, where temp_entryno is negative
\* and would go on growing.
Digit(c) ==
  LET typed == temp * 10 + c
      t == IF typed < num THEN typed ELSE IF c < num THEN c ELSE 0
  IN /\ temp >= 0
     /\ \/ (t # 0 \/ c = 0) /\ JumpTo(t)
        \/ t = 0 /\ c # 0 /\ temp' = 0 /\ MoveTo(first, entryno)

Home == JumpTo(0)

End == JumpTo(num - 1)

BootKey ==
  /\ Key
  /\ temp' = 0
  /\ UNCHANGED cursor
  /\ Boot
  /\ UNCHANGED <<term, shown>>

\* 'e' on an entry: a menu of its lines is run.
EditEntry ==
  /\ level = "main"
  /\ Key
  /\ \E lines \in 1 .. MaxLines : num' = lines
  /\ level' = "edit"
  /\ outer' = [first |-> first, entryno |-> entryno]
  /\ Restart(0, 0, term, shown)
  /\ UNCHANGED <<term, emptied, strayed, running>>

\* ESC: the edited lines are dropped.
LeaveEdit ==
  /\ level = "edit"
  /\ Key
  /\ level' = "main" /\ num' = N
  /\ outer' = [first |-> 0, entryno |-> 0] /\ strayed' = FALSE
  /\ Restart(outer.first, outer.entryno, term, shown)
  /\ UNCHANGED <<term, emptied, running>>

\* 'e' on a line: its text is edited, the lines stay as many.
EditLine ==
  /\ level = "edit"
  /\ Key
  /\ Restart(first, entryno, term, shown)
  /\ UNCHANGED <<term, level, num, outer, emptied, strayed, running>>

\* 'c': on the command-line the terminal may be changed.
CommandLine ==
  /\ Key
  /\ term' \in Terms
  /\ Restart(first, entryno, term', shown)
  /\ UNCHANGED <<level, num, outer, emptied, strayed, running>>

\* 'O' and 'o' open a line before and after the one at the cursor.
OpenLine(after) ==
  /\ level = "edit" /\ num < MaxLines
  /\ Key
  /\ num' = num + 1 /\ temp' = 0
  /\ LET scrolls == after /\ ~ term.dumb /\ entryno >= H - 1 IN
       /\ first' = IF scrolls THEN first + 1 ELSE first
       /\ entryno' = IF after /\ ~ scrolls THEN entryno + 1 ELSE entryno
  /\ UNCHANGED <<pc, term, level, outer, emptied, strayed, shown, running>>

AnyTime == TRUE              \* faulty HasLines: in an empty list, too
HasLines == num > 0

StayBelow(n) == entryno      \* faulty LineAbove: below the last line
LineAbove(n) == IF entryno >= n THEN entryno - 1 ELSE entryno

DeleteLine ==
  /\ level = "edit" /\ HasLines
  /\ Key
  /\ num' = num - 1 /\ temp' = 0
  /\ entryno' = LineAbove(num')
  /\ first' = IF first > 0 /\ num' < H + first THEN first - 1 ELSE first
  /\ emptied' = (emptied \/ num' = 0)
  /\ strayed' = (strayed \/ (term.dumb /\ first > 0))
  /\ UNCHANGED <<pc, term, level, outer, shown, running>>

MoveKey ==
  \/ Up \/ Down \/ PageUp \/ PageDown \/ Home \/ End
  \/ \E c \in Digits : Digit(c)

EditKey == OpenLine(TRUE) \/ OpenLine(FALSE) \/ DeleteLine \/ EditLine \/ LeaveEdit

PressKey == MoveKey \/ EditKey \/ BootKey \/ EditEntry \/ CommandLine

------------------------------------------------------------------------------
(***************************************************************************)
(* run_menu: booting.  run_script runs the entry; savedefault comes when   *)
(* everything is loaded.                                                   *)
(***************************************************************************)

\* faulty NextOf: the entry is its own fallback.
ThatOf(e) ==
  LET used  == {i \in DOMAIN list : \A j \in 0 .. i : list[j] >= 0}
      found == {i \in used : list[i] = e}
  IN IF found = {} THEN 0 ELSE CHOOSE i \in found : \A j \in found : i <= j

\* "savedefault fallback" takes the number after entry e's in the list, or the
\* first if e's is not there.
NextOf(e) ==
  LET used  == {i \in DOMAIN list : \A j \in 0 .. i : list[j] >= 0}
      found == {i \in used : list[i] = e}
  IN IF found = {} THEN 0 ELSE 1 + (CHOOSE i \in found : \A j \in found : i <= j)

Last(e) == NextOf(e) \in DOMAIN list => list[NextOf(e)] < 0

Save(how, e) ==
  CASE how = "self" -> e
    [] how = "fallback" -> list[NextOf(e)]
    [] how = "none" -> saved

\* A script that is no entry of the menu may do anything an entry may.
Scripts == IF ran \in Entries THEN {[end |-> health[ran], save |-> Saves[ran]]}
                              ELSE [end : Health, save : SaveArgs]

\* run_script returns 1: a command before savedefault fails, or savedefault
\* finds no fallback after this entry.
Fails(s) == s.end = "noload" \/ (s.save = "fallback" /\ Last(current))

StartSystem ==
  /\ pc = "run"
  /\ \E s \in Scripts : /\ ~ Fails(s) /\ s.end \in {"crashes", "works"}
                       /\ saved' = Save(s.save, current)
  /\ pc' = "system"
  /\ UNCHANGED <<config, health, term, cursor, temp, timeout, shown, policy,
                 running, attended>>

\* An error with a fallback left: its entry is run next.  The lines of an
\* edited entry are not looked at again, and there is no config_entries.
FallBack ==
  /\ pc = "run" /\ \E s \in Scripts : Fails(s)
  /\ fallback >= 0
  /\ first' = 0 /\ entryno' = list[fallback]
  /\ fallback' = NextFallback
  /\ current' = list[fallback]
  /\ ran' = IF level = "main" THEN list[fallback] ELSE Garbage
  /\ UNCHANGED <<disk, pc, term, level, num, outer, emptied, strayed, temp, timeout,
                 shown, list, chk, arg, attended>>

\* An error otherwise: "Press any key to continue...".
ReportError ==
  /\ pc = "run" /\ \E s \in Scripts : Fails(s)
  /\ fallback < 0
  /\ pc' = "error"
  /\ UNCHANGED <<disk, term, cursor, temp, timeout, shown, policy, running, attended>>

BackToMenu ==
  /\ \/ pc = "error" /\ attended' = TRUE /\ UNCHANGED saved
     \/ /\ pc = "run" /\ UNCHANGED attended
        /\ \E s \in Scripts : /\ ~ Fails(s) /\ s.end = "returns"
                             /\ saved' = Save(s.save, current)
  /\ UNCHANGED timeout
  /\ Restart(first, entryno, term, TRUE)
  /\ ran' = Nothing
  /\ UNCHANGED <<config, health, term, level, num, outer, emptied, strayed, policy,
                 current>>

\* The system crashed, or its user restarts it.
Reset ==
  /\ pc = "system"
  /\ pc' = "config"
  /\ level' = "main" /\ first' = 0 /\ entryno' = 0 /\ num' = N
  /\ outer' = [first |-> 0, entryno |-> 0] /\ strayed' = FALSE
  /\ temp' = 0 /\ timeout' = -1 /\ shown' = TRUE
  /\ list' = NoFallbacks /\ fallback' = -1 /\ chk' = 0 /\ arg' = 1
  /\ current' = 0 /\ ran' = Nothing
  /\ term' \in Terms
  /\ UNCHANGED <<disk, emptied, attended>>

Boots == StartSystem \/ FallBack \/ ReportError \/ BackToMenu

Next ==
  \/ RunMenuCommands \/ ParseFallback \/ ValidateFallback \/ ChooseDefault
  \/ CountDown \/ EscapeHidden \/ PressKey
  \/ Boots \/ Reset

Spec == Init /\ [][Next]_vars

(***************************************************************************)
(* GRUB runs on, seconds pass, and a system that crashes has the machine   *)
(* reset.  Nobody has to press a key.                                      *)
(***************************************************************************)
Fairness ==
  /\ WF_vars(RunMenuCommands \/ ParseFallback \/ ValidateFallback \/ ChooseDefault)
  /\ WF_vars(CountDown)
  /\ WF_vars(pc = "run" /\ Boots)
  /\ WF_vars((ran \in Entries => health[ran] = "crashes") /\ Reset)

FairSpec == Spec /\ Fairness

------------------------------------------------------------------------------
Positions == {"config", "fallback", "validate", "default", "hidden", "menu",
              "run", "error", "system"}

DiskOK   == config \in Configs /\ health \in Healths /\ saved \in Int
CursorOK == /\ level \in {"main", "edit"}
            /\ first \in Int /\ entryno \in Int /\ num \in Nat
            /\ outer \in [first : Int, entryno : Int]
            /\ temp \in Int
ListOK   == /\ list \in [0 .. MaxFallback - 1 -> Int]
            /\ fallback \in -1 .. MaxFallback - 1
            /\ chk \in 0 .. MaxFallback /\ arg \in Nat
RunOK    == /\ pc \in Positions /\ term \in Terms
            /\ timeout \in Int /\ current \in Int /\ ran \in Int
FlagsOK  == shown \in BOOLEAN /\ emptied \in BOOLEAN /\ strayed \in BOOLEAN
            /\ attended \in BOOLEAN

\* Every variable keeps its type whatever keys are pressed.
TypeOK == DiskOK /\ CursorOK /\ ListOK /\ RunOK /\ FlagsOK

(***************************************************************************)
(* The highlighted entry exists and is inside the box, whatever keys, page *)
(* moves, typed numbers, edits, fallbacks, resets and changes of the       *)
(* terminal came before (run_menu's first_entry and entryno).  The one way *)
(* out: savedefault in a script whose lines were all deleted may store -1, *)
(* which "default saved" takes for an entry.                               *)
(***************************************************************************)
OnEntry(f, e) == f >= 0 /\ e >= 0 /\ f + e < N

CursorInMenu ==
  ~ (emptied /\ config.default = Saved) =>
    /\ level = "main" => OnEntry(first, entryno)
    /\ level = "edit" => OnEntry(outer.first, outer.entryno)
    /\ pc = "menu" /\ ~ term.dumb => entryno < H

(***************************************************************************)
(* The cursor is on a line of the edited entry, as long as the user never  *)
(* deleted all of them ('d', 'o' and 'O', and the keys that move), no      *)
(* fallback is left, whose number would be taken for a line's, and no line *)
(* was deleted on a dumb terminal whose first_entry was not 0.  run_menu's *)
(* comment rules that out ("invariant for TERM_DUMB: first_entry == 0"),   *)
(* but Page Down and a typed number scroll there too, the cursor goes on   *)
(* below the box, and 'd' on the last line then leaves it past the end.    *)
(***************************************************************************)
CursorInEdit ==
  level = "edit" /\ ~ emptied /\ ~ strayed /\ config.fallback = <<>> =>
    first >= 0 /\ entryno >= 0 /\ first + entryno < num

(***************************************************************************)
(* No entry is twice on the list of fallbacks GRUB goes through ("Remove   *)
(* duplications to prevent infinite looping"), unless the configuration    *)
(* fills it.                                                               *)
(***************************************************************************)
FallbacksDistinct ==
  fallback >= 0 /\ pc \in {"menu", "run"} /\ Len(config.fallback) < MaxFallback =>
    \A j \in DOMAIN list : \A i \in 0 .. j - 1 :
      (\A k \in 0 .. j : list[k] >= 0) => list[i] # list[j]

(***************************************************************************)
(* What comes after the entry being run is kept twice: run_menu has its    *)
(* place in the list of fallbacks (fallback_entryno), "savedefault         *)
(* fallback" looks the entry's number up in it (current_entryno).  With    *)
(* nobody at the keyboard, what it would save for the next boot is what    *)
(* run_menu itself would try next, through removed duplicates, invalid     *)
(* entries, a default that is no entry, errors and resets.  A default that *)
(* is on the list is excused: run_menu starts with the first fallback,     *)
(* savedefault with the one after it.  So is a list the configuration      *)
(* fills, which may hold a number twice.                                   *)
(***************************************************************************)
SavesWhatComesNext ==
  ~ attended /\ pc = "run" /\ fallback >= 0 /\ Len(config.fallback) < MaxFallback =>
    NextOf(current) = fallback \/ (fallback = 0 /\ current = DefaultEntry)

(***************************************************************************)
(* Going from fallback to fallback comes to an end: a system starts, or    *)
(* the user is asked.                                                      *)
(***************************************************************************)
BootingEnds == pc = "run" ~> pc # "run"

(***************************************************************************)
(* "This solution ensures that your system is started even if GRUB cannot  *)
(* find your kernel or if your kernel panics" (grub.texi on "default       *)
(* saved", "fallback 1 2" and "savedefault fallback"): with nobody at the  *)
(* keyboard the machine goes through errors and resets to an entry that    *)
(* works, if one does.                                                     *)
(***************************************************************************)
Chain == [i \in 1 .. N - 1 |-> i]

Chained ==
  /\ config.default = Saved /\ config.timeout >= 0 /\ config.fallback = Chain
  /\ Saves = [e \in Entries |-> IF e = N - 1 THEN "self" ELSE "fallback"]
  /\ \A e \in Entries : health[e] # "returns"
  /\ \E e \in Entries : health[e] = "works"

Working == pc = "system" /\ ran \in Entries /\ health[ran] = "works"

EnsuresStarted == Chained => <>(attended \/ Working)

(***************************************************************************)
(* "Make sure that all fallback entries are valid": the list is validated, *)
(* and the menu comes up.                                                  *)
(***************************************************************************)
ValidationEnds == pc = "validate" ~> pc = "default"
==============================================================================
