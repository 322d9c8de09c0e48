------------------------------- MODULE NicProofs -----------------------------
(***************************************************************************)
(* Proofs about Nic, receiving: a card and any of the drivers implement    *)
(* Link in that direction, for any number of frames.  Everything rests    *)
(* on RxInv, which says for each part of a driver's program what card and  *)
(* driver then agree on: as long as the driver is not excused,             *)
(*   - a stored frame is newer than all that were delivered, and it is     *)
(*     marked as damaged if and only if it is (TrueSlots);                 *)
(*   - the driver's slot holds the older frame, if any, and the card goes  *)
(*     on behind the newer one (InStep), but while a reset is under way;   *)
(*   - what was copied and is not yet delivered is sound, newer than what  *)
(*     was delivered and older than what is stored (Copied).               *)
(* Drivers with one slot, eepro100 and ni5010, have invariants of their    *)
(* own; the other nineteen share TwoSlots, by way of the few shapes their  *)
(* programs have.                                                          *)
(***************************************************************************)
EXTENDS Nic, SequenceTheorems, TLAPS

---------------------------------------------------------------------------
(* The invariant. *)

\* These have no damaged frame in a slot, or promise no more from then on.
NeverDamaged == LooksAtNoError \cup {"sk_g16"} \cup DropsDamaged
\* They have one slot.
OneSlot == {"eepro100", "ni5010"}

RxTypes ==
  /\ rxNic \in Receivers
  /\ rxSlots \in [0 .. SlotCount - 1 ->
                    [stored : BOOLEAN, frame : 0 .. rxArrived, kind : {"sound", "damaged", "long"}]]
  /\ rxAt \in 0 .. SlotCount - 1 /\ rxCur \in 0 .. SlotCount - 1
  /\ rxOn \in BOOLEAN /\ rxOverrun \in BOOLEAN /\ rxLastBad \in BOOLEAN
  /\ rxClosed \in BOOLEAN /\ rxExcused \in BOOLEAN
  /\ rxArrived \in Nat /\ rxSpoilt \subseteq 1 .. rxArrived
  /\ packet \in 0 .. rxArrived /\ rxOut \in Seq(0 .. rxArrived)

\* What may be left of the drivers' programs: a reset before each of its steps,
\* a ring that is drained, nothing but a start or a stop, ...
Anew == {<<"off", "rings", "point", "on">>, <<"off", "rings", "point", "on", "on">>}
Emptying == {<<"rings", "point", "on">>, <<"rings", "point", "on", "on">>}
Pointing == {<<"point", "on">>, <<"point", "on", "on">>}
Draining == {<<"off", "drain", "on">>, <<"drain", "on">>}
Resting == {<<>>, <<"on">>, <<"on", "on">>, <<"off">>}
\* ... a poll that delivers, before copy, give, next and take, ...
Copying == {<<"copy", "give", "next", "take">>, <<"copy", "give", "next", "on", "take">>,
            <<"copy", "give", "next", "take", "on">>, <<"copy", "give", "next", "again">>}
Giving == {<<"give", "next", "take">>, <<"give", "next", "on", "take">>,
           <<"give", "next", "take", "on">>, <<"give", "next", "again">>}
Moving == {<<"next", "take">>, <<"next", "on", "take">>,
           <<"next", "take", "on">>, <<"next", "again">>}
Taking == {<<"on", "take">>, <<"take">>, <<"take", "on">>, <<"again">>}
\* ... a poll that drops a frame, ...
CopyingBad == {<<"copy", "give", "next">>}
GivingBad == {<<"give", "next">>, <<"give", "next", "on">>}
MovingBad == {<<"next">>, <<"next", "on">>}
\* ... and one that copies after the slot was given back.
Lending == {<<"give", "on", "copy", "take">>, <<"give", "off", "copy", "take">>}
Lent == {<<"on", "copy", "take">>, <<"off", "copy", "take">>, <<"copy", "take">>}

\* A frame is newer than all that were delivered; it may be delivered; a slot
\* holds a frame, and which.
Newer(f) == \A i \in DOMAIN rxOut : rxOut[i] < f
Sound(f) == f \in (1 .. rxArrived) \ rxSpoilt /\ Newer(f)
Stored(i) == rxSlots[i].stored
Frame(i) == rxSlots[i].frame
\* What the slots hold is as it came, and newer than all that was delivered.
TrueSlots ==
  \A i \in 0 .. SlotCount - 1 : Stored(i) =>
    /\ Frame(i) \in 1 .. rxArrived /\ Newer(Frame(i))
    /\ rxSlots[i].kind \in {"sound", "damaged"}
    /\ rxSlots[i].kind = "damaged" <=> Frame(i) \in rxSpoilt
    /\ rxNic \in NeverDamaged => rxSlots[i].kind = "sound"
\* The driver looks for the older frame where it is, and the card goes on
\* behind the newer.
InStep(first) ==
  LET other == After(first)
  IN  /\ Stored(other) => Stored(first) /\ Frame(first) < Frame(other)
      /\ rxAt = IF Stored(first) /\ ~Stored(other) THEN other ELSE first
\* No slot holds a frame; and no frame comes to be stored that excuses nothing.
Emptied == \A i \in 0 .. SlotCount - 1 : ~Stored(i)
Unstored == ~rxOn \/ rxNic = "epic100"
\* What was copied is sound, and older than what is stored.
Copied == Sound(packet) /\ \A i \in 0 .. SlotCount - 1 : Stored(i) => packet < Frame(i)

\* What holds at each point of the program of a driver with two slots, ...
TwoSlots ==
  \/ rxProg \in Anew
  \/ rxProg \in Emptying /\ Unstored
  \/ rxProg \in Pointing /\ Unstored /\ Emptied /\ rxCur = 0
  \/ rxProg \in Draining \cup Resting /\ InStep(rxCur)
  \/ rxProg \in Copying /\ InStep(rxCur) /\ Stored(rxCur) /\ rxSlots[rxCur].kind = "sound"
  \/ rxProg \in Giving /\ InStep(rxCur) /\ Stored(rxCur) /\ Sound(packet) /\ packet = Frame(rxCur)
  \/ rxProg \in Moving /\ InStep(After(rxCur)) /\ Copied
  \/ rxProg \in Taking /\ InStep(rxCur) /\ Copied
  \/ rxProg \in CopyingBad \cup GivingBad /\ InStep(rxCur) /\ Stored(rxCur)
  \/ rxProg \in MovingBad /\ InStep(After(rxCur))

\* ... of eepro100.c ...
Speedo ==
  \/ rxProg \in Anew \cup Emptying \cup Pointing \cup Resting
  \/ rxProg \in Lending /\ Stored(0)
  \/ rxProg \in Lent /\ ~Stored(0) /\ Sound(Frame(0))
  \/ rxProg = <<"take">> /\ Copied

\* ... and of ni5010.c.
Ni5010 ==
  /\ Stored(0) => ~rxOn
  /\ \/ rxProg \in {<<>>, <<"off">>, <<"off", "rings", "on">>, <<"off", "rings", "point", "on">>, <<"give">>}
     \/ rxProg \in {<<"rings", "on">>, <<"rings", "point", "on">>} /\ ~rxOn
     \/ rxProg \in {<<"point", "on">>, <<"on">>} /\ ~rxOn /\ ~Stored(0)
     \/ rxProg = <<"give", "off", "copy", "take">> /\ Stored(0) /\ rxSlots[0].kind = "sound"
     \/ rxProg \in {<<"off", "copy", "take">>, <<"copy", "take">>} /\ ~rxOn /\ ~Stored(0) /\ Sound(Frame(0))
     \/ rxProg = <<"take">> /\ Copied

\* After eth_disable the receiver stops, but for those that it leaves running.
WhileClosed ==
  rxClosed => \/ rxProg = <<"off">>
              \/ rxProg = <<>> /\ (~rxOn \/ rxNic \in NeverDisabled)

InOrder ==
  /\ TrueSlots
  /\ rxNic \notin OneSlot => TwoSlots
  /\ rxNic = "eepro100" => Speedo
  /\ rxNic = "ni5010" => Ni5010
\* The inductive invariant.
RxInv == RxTypes /\ WhileClosed /\ (~rxExcused => InOrder)

---------------------------------------------------------------------------
(* The programs of the drivers. *)

Steps == {"copy", "take", "give", "next", "off", "on", "rings", "point", "again", "drain"}

\* What poll of a W89C840 appends its restart of the receiver to.
LEMMA Appended ==
  /\ <<>> \o <<"on">> = <<"on">>
  /\ WinbondReset \o <<"on">> = <<"off", "rings", "point", "on", "on">>
  /\ <<"copy", "give", "next", "take">> \o <<"on">> = <<"copy", "give", "next", "take", "on">>
  /\ \A p \in Seq(Steps) : p \o <<>> = p
<1>1. ASSUME NEW p \in Seq(Steps), NEW q \in Seq(Steps),
             Len(q) = Len(p) + 1, \A i \in 1 .. Len(p) : p[i] = q[i], q[Len(q)] = "on"
      PROVE  p \o <<"on">> = q
  <2>1. /\ p \o <<"on">> \in Seq(Steps) /\ Len(p \o <<"on">>) = Len(p) + 1
        /\ \A i \in 1 .. Len(p) + 1 : (p \o <<"on">>)[i] = IF i <= Len(p) THEN p[i] ELSE "on"
    <3>1. <<"on">> \in Seq(Steps) /\ Len(<<"on">>) = 1 /\ <<"on">>[1] = "on"
      BY DEF Steps
    <3> QED BY <3>1, ConcatProperties
  <2> QED BY <2>1, <1>1, SeqEqual
<1>2. <<>> \o <<"on">> = <<"on">>
  BY <1>1
<1>3. WinbondReset \o <<"on">> = <<"off", "rings", "point", "on", "on">>
  <2> DEFINE p == <<"off", "rings", "point", "on">>
             q == <<"off", "rings", "point", "on", "on">>
  <2>1. p \in Seq(Steps) /\ q \in Seq(Steps) /\ Len(p) = 4 /\ Len(q) = 5
    BY DEF Steps
  <2>2. (\A i \in 1 .. 4 : p[i] = q[i]) /\ q[5] = "on"
    OBVIOUS
  <2>3. p \o <<"on">> = q
    <3> HIDE DEF p, q
    <3>1. Len(q) = Len(p) + 1 /\ (\A i \in 1 .. Len(p) : p[i] = q[i]) /\ q[Len(q)] = "on"
      BY <2>1, <2>2
    <3> QED BY <1>1, <2>1, <3>1
  <2> QED BY <2>3 DEF WinbondReset, StartAfresh
<1>4. <<"copy", "give", "next", "take">> \o <<"on">> = <<"copy", "give", "next", "take", "on">>
  <2> DEFINE p == <<"copy", "give", "next", "take">>
             q == <<"copy", "give", "next", "take", "on">>
  <2>1. p \in Seq(Steps) /\ q \in Seq(Steps) /\ Len(p) = 4 /\ Len(q) = 5
    BY DEF Steps
  <2>2. (\A i \in 1 .. 4 : p[i] = q[i]) /\ q[5] = "on"
    OBVIOUS
  <2>3. p \o <<"on">> = q
    <3> HIDE DEF p, q
    <3>1. Len(q) = Len(p) + 1 /\ (\A i \in 1 .. Len(p) : p[i] = q[i]) /\ q[Len(q)] = "on"
      BY <2>1, <2>2
    <3> QED BY <1>1, <2>1, <3>1
  <2> QED BY <2>3
<1>5. \A p \in Seq(Steps) : p \o <<>> = p
  OBVIOUS
<1> QED BY <1>2, <1>3, <1>4, <1>5

\* PollOf, driver by driver.
LEMMA PollIs ==
  ASSUME NEW s
  PROVE  /\ PollOf("tulip", s) = TulipPoll(s) /\ PollOf("davicom", s) = DavicomPoll(s)
         /\ PollOf("natsemi", s) = NatsemiPoll(s) /\ PollOf("sis900", s) = SisPoll(s)
         /\ PollOf("fa311", s) = FaPoll(s) /\ PollOf("rtl8139", s) = RtlPoll(s)
         /\ PollOf("w89c840", s) = WinbondPoll(s) /\ PollOf("via-rhine", s) = RhinePoll(s)
         /\ PollOf("epic100", s) = EpicPoll(s) /\ PollOf("3c90x", s) = VortexPoll(s)
         /\ PollOf("otulip", s) = OtulipPoll(s) /\ PollOf("lance", s) = LancePoll(s)
         /\ PollOf("depca", s) = DepcaPoll(s) /\ PollOf("sk_g16", s) = SkPoll(s)
         /\ PollOf("eepro100", s) = SpeedoPoll(s) /\ PollOf("ns8390", s) = NsPoll(s)
         /\ PollOf("3c509", s) = T509Poll(s) /\ PollOf("3c595", s) = T595Poll(s)
         /\ PollOf("smc9000", s) = SmcPoll(s) /\ PollOf("eepro", s) = EeproPoll(s)
         /\ PollOf("ni5010", s) = Ni5010Poll(s)
BY Zenon DEF PollOf

\* What poll of a driver with two slots or more may come to.  A frame is copied
\* to be delivered only where one is stored that was not marked as damaged.
LEMMA PollPrograms ==
  ASSUME NEW d \in Receivers \ OneSlot, NEW s \in [stored : BOOLEAN, bad : BOOLEAN, long : BOOLEAN,
                                                   overrun : BOOLEAN, lastBad : BOOLEAN, got : BOOLEAN],
         s.stored /\ d = "w89c840" => ~s.long, s.stored /\ d \in NeverDamaged => ~s.bad
  PROVE  \/ PollOf(d, s) \in Anew \cup Draining \cup Resting
         \/ PollOf(d, s) = <<"take">> /\ s.got
         \/ PollOf(d, s) \in Copying /\ s.stored /\ ~s.bad
         \/ PollOf(d, s) \in CopyingBad \cup GivingBad /\ s.stored
<1> DEFINE Drops(p) == \/ p = <<>>
                       \/ p = <<"give", "next">> /\ s.stored
                       \/ p = <<"copy", "give", "next", "take">> /\ s.stored /\ ~s.bad
<1>1. Drops(DropOrDeliver(s))
  BY DEF DropOrDeliver, Skip, Deliver
<1>2. \A p : Drops(p) => \/ p \in Resting
                         \/ p \in Copying /\ s.stored /\ ~s.bad
                         \/ p \in GivingBad /\ s.stored
  BY DEF Resting, Copying, GivingBad
<1>3. CASE d \in {"tulip", "davicom", "via-rhine", "lance", "3c509", "3c595", "smc9000"}
  BY <1>1, <1>2, <1>3, PollIs DEF TulipPoll, DavicomPoll, RhinePoll, LancePoll, T509Poll, T595Poll, SmcPoll
<1>4. CASE d \in {"natsemi", "sis900", "fa311"}
  BY <1>4, PollIs DEF NatsemiPoll, SisPoll, FaPoll, Resting, Copying, GivingBad
<1>5. CASE d = "rtl8139"
  BY <1>5, PollIs DEF RtlPoll, RtlReset, StartAfresh, Resting, Copying, Anew
<1>6. CASE d = "w89c840"
  <2>1. s.stored => ~s.long BY <1>6
  <2>2. \/ WinbondPoll(s) \in {<<>>, <<"on">>, <<"off", "rings", "point", "on">>,
                                 <<"off", "rings", "point", "on", "on">>}
        \/ /\ WinbondPoll(s) \in {<<"copy", "give", "next", "take">>,
                                    <<"copy", "give", "next", "take", "on">>}
           /\ s.stored /\ ~s.bad
    <3> DEFINE body == IF ~s.stored THEN <<>> ELSE IF s.bad THEN WinbondReset
                       ELSE <<"copy", "give", "next", "take">>
    <3>1. WinbondPoll(s) = body \o (IF s.overrun THEN <<"on">> ELSE <<>>)
      BY <2>1 DEF WinbondPoll
    <3>2. body \in Seq(Steps)
      <4>1. /\ <<>> \in Seq(Steps) /\ <<"copy", "give", "next", "take">> \in Seq(Steps)
            /\ WinbondReset \in Seq(Steps)
        BY DEF WinbondReset, StartAfresh, Steps
      <4> QED BY <4>1
    <3>3. \/ body = <<>>
          \/ body = WinbondReset
          \/ body = <<"copy", "give", "next", "take">> /\ s.stored /\ ~s.bad
      OBVIOUS
    <3> HIDE DEF body
    <3>4. CASE s.overrun
      <4>1. WinbondPoll(s) = body \o <<"on">>
        BY <3>1, <3>4
      <4>2. CASE body = <<>>
        <5>1. WinbondPoll(s) = <<"on">>
          BY <4>1, <4>2, Appended
        <5> QED BY <5>1
      <4>3. CASE body = WinbondReset
        <5>1. WinbondPoll(s) = <<"off", "rings", "point", "on", "on">>
          BY <4>1, <4>3, Appended
        <5> QED BY <5>1
      <4>4. CASE body = <<"copy", "give", "next", "take">> /\ s.stored /\ ~s.bad
        BY <4>1, <4>4, Appended
      <4> QED BY <4>2, <4>3, <4>4, <3>3
    <3>5. CASE ~s.overrun
      <4>1. WinbondPoll(s) = body
        BY <3>1, <3>2, <3>5, Appended
      <4>2. CASE body = <<>>
        BY <4>1, <4>2
      <4>3. CASE body = WinbondReset
        BY <4>1, <4>3 DEF WinbondReset, StartAfresh
      <4>4. CASE body = <<"copy", "give", "next", "take">> /\ s.stored /\ ~s.bad
        BY <4>1, <4>4
      <4> QED BY <4>2, <4>3, <4>4, <3>3
    <3> QED BY <3>4, <3>5
  <2> QED BY <1>6, <2>2, PollIs DEF Resting, Anew, Copying
<1>7. CASE d \in {"epic100", "otulip", "depca", "sk_g16"}
  <2>1. s.stored => ~s.bad BY <1>7 DEF NeverDamaged, LooksAtNoError
  <2> QED BY <1>7, <2>1, PollIs DEF EpicPoll, OtulipPoll, DepcaPoll, SkPoll, Deliver, Resting, Copying
<1>8. CASE d = "3c90x"
  BY <1>8, PollIs DEF VortexPoll, Deliver, Resting, Copying, CopyingBad
<1>9. CASE d \in {"ns8390", "eepro"}
  <2>1. s.stored => ~s.bad BY <1>9 DEF NeverDamaged, DropsDamaged
  <2> QED BY <1>9, <2>1, PollIs DEF NsPoll, NsRxOverrun, EeproPoll, Resting, Copying, Draining
<1> QED BY <1>3, <1>4, <1>5, <1>6, <1>7, <1>8, <1>9 DEF Receivers, OneSlot

\* The steps of a reset, of a ring that is drained and of a driver at rest.
LEMMA Begun ==
  /\ \A p \in Anew : p # <<>> /\ Head(p) = "off" /\ Tail(p) \in Emptying
  /\ \A p \in Emptying : p # <<>> /\ Head(p) = "rings" /\ Tail(p) \in Pointing
  /\ \A p \in Pointing : p # <<>> /\ Head(p) = "point" /\ Tail(p) \in Resting
  /\ \A p \in Draining : p # <<>> /\ Head(p) \in {"off", "drain"} /\ Tail(p) \in Draining \cup Resting
  /\ \A p \in Resting \ {<<>>} : Head(p) \in {"on", "off"} /\ Tail(p) \in Resting
<1>1. /\ Tail(<<"off", "rings", "point", "on">>) = <<"rings", "point", "on">>
      /\ Tail(<<"off", "rings", "point", "on", "on">>) = <<"rings", "point", "on", "on">>
      /\ Tail(<<"rings", "point", "on">>) = <<"point", "on">>
      /\ Tail(<<"rings", "point", "on", "on">>) = <<"point", "on", "on">>
      /\ Tail(<<"point", "on">>) = <<"on">>
      /\ Tail(<<"point", "on", "on">>) = <<"on", "on">>
      /\ Tail(<<"off", "drain", "on">>) = <<"drain", "on">>
      /\ Tail(<<"drain", "on">>) = <<"on">>
      /\ Tail(<<"on", "on">>) = <<"on">>
      /\ Tail(<<"on">>) = <<>>
      /\ Tail(<<"off">>) = <<>>
  OBVIOUS
<1>2. /\ \A p \in Anew : p # <<>> /\ Head(p) = "off"
      /\ \A p \in Emptying : p # <<>> /\ Head(p) = "rings"
      /\ \A p \in Pointing : p # <<>> /\ Head(p) = "point"
      /\ \A p \in Draining : p # <<>> /\ Head(p) \in {"off", "drain"}
      /\ \A p \in Resting \ {<<>>} : Head(p) \in {"on", "off"}
  BY DEF Anew, Emptying, Pointing, Draining, Resting
<1> QED BY <1>1, <1>2, Zenon DEF Anew, Emptying, Pointing, Draining, Resting

\* The steps of a poll that finds a frame.
LEMMA Fetched ==
  /\ \A p \in Copying : p # <<>> /\ Head(p) = "copy" /\ Tail(p) \in Giving
  /\ \A p \in Giving : p # <<>> /\ Head(p) = "give" /\ Tail(p) \in Moving
  /\ \A p \in Moving : p # <<>> /\ Head(p) = "next" /\ Tail(p) \in Taking
  /\ \A p \in Taking :
       /\ p # <<>>
       /\ \/ Head(p) = "on" /\ Tail(p) \in Taking
          \/ Head(p) = "take" /\ Tail(p) \in Resting
          \/ Head(p) = "again"
  /\ \A p \in CopyingBad : p # <<>> /\ Head(p) = "copy" /\ Tail(p) \in GivingBad
  /\ \A p \in GivingBad : p # <<>> /\ Head(p) = "give" /\ Tail(p) \in MovingBad
  /\ \A p \in MovingBad : p # <<>> /\ Head(p) = "next" /\ Tail(p) \in Resting
<1>1. /\ Tail(<<"copy", "give", "next", "take">>) = <<"give", "next", "take">>
      /\ Tail(<<"copy", "give", "next", "on", "take">>) = <<"give", "next", "on", "take">>
      /\ Tail(<<"copy", "give", "next", "take", "on">>) = <<"give", "next", "take", "on">>
      /\ Tail(<<"copy", "give", "next", "again">>) = <<"give", "next", "again">>
      /\ Tail(<<"give", "next", "take">>) = <<"next", "take">>
      /\ Tail(<<"give", "next", "on", "take">>) = <<"next", "on", "take">>
      /\ Tail(<<"give", "next", "take", "on">>) = <<"next", "take", "on">>
      /\ Tail(<<"give", "next", "again">>) = <<"next", "again">>
      /\ Tail(<<"next", "take">>) = <<"take">>
      /\ Tail(<<"next", "on", "take">>) = <<"on", "take">>
      /\ Tail(<<"next", "take", "on">>) = <<"take", "on">>
      /\ Tail(<<"next", "again">>) = <<"again">>
      /\ Tail(<<"on", "take">>) = <<"take">> /\ Tail(<<"take">>) = <<>>
      /\ Tail(<<"take", "on">>) = <<"on">>
      /\ Tail(<<"copy", "give", "next">>) = <<"give", "next">>
      /\ Tail(<<"give", "next">>) = <<"next">> /\ Tail(<<"next">>) = <<>>
      /\ Tail(<<"give", "next", "on">>) = <<"next", "on">> /\ Tail(<<"next", "on">>) = <<"on">>
  OBVIOUS
<1>2. /\ \A p \in Copying : p # <<>> /\ Head(p) = "copy"
      /\ \A p \in Giving : p # <<>> /\ Head(p) = "give"
      /\ \A p \in Moving : p # <<>> /\ Head(p) = "next"
      /\ \A p \in Taking :
           /\ p # <<>>
           /\ \/ Head(p) = "on" /\ p = <<"on", "take">>
              \/ Head(p) = "take" /\ p \in {<<"take">>, <<"take", "on">>}
              \/ Head(p) = "again"
      /\ \A p \in CopyingBad : p # <<>> /\ Head(p) = "copy"
      /\ \A p \in GivingBad : p # <<>> /\ Head(p) = "give"
      /\ \A p \in MovingBad : p # <<>> /\ Head(p) = "next"
  BY DEF Copying, Giving, Moving, Taking, CopyingBad, GivingBad, MovingBad
<1>3. /\ \A p \in Copying : Tail(p) \in Giving
      /\ \A p \in Giving : Tail(p) \in Moving
      /\ \A p \in Moving : Tail(p) \in Taking
  BY <1>1, Zenon DEF Copying, Giving, Moving, Taking
<1>4. /\ \A p \in CopyingBad : Tail(p) \in GivingBad
      /\ \A p \in GivingBad : Tail(p) \in MovingBad
      /\ \A p \in MovingBad : Tail(p) \in Resting
  BY <1>1, Zenon DEF CopyingBad, GivingBad, MovingBad, Resting
<1>5. /\ Tail(<<"on", "take">>) \in Taking
      /\ Tail(<<"take">>) \in Resting /\ Tail(<<"take", "on">>) \in Resting
  BY <1>1, Zenon DEF Taking, Resting
<1> QED BY <1>2, <1>3, <1>4, <1>5, Zenon

\* The steps of a poll that gives a frame's slot back before it is copied.
LEMMA Lends ==
  /\ \A p \in Lending : p # <<>> /\ Head(p) = "give" /\ Tail(p) \in Lent
  /\ \A p \in Lent : /\ p # <<>>
                     /\ \/ Head(p) \in {"on", "off"} /\ Tail(p) \in Lent
                        \/ Head(p) = "copy" /\ Tail(p) = <<"take">>
  /\ Head(<<"take">>) = "take" /\ Tail(<<"take">>) = <<>>
<1>1. /\ Tail(<<"give", "on", "copy", "take">>) = <<"on", "copy", "take">>
      /\ Tail(<<"give", "off", "copy", "take">>) = <<"off", "copy", "take">>
      /\ Tail(<<"on", "copy", "take">>) = <<"copy", "take">>
      /\ Tail(<<"off", "copy", "take">>) = <<"copy", "take">>
      /\ Tail(<<"copy", "take">>) = <<"take">> /\ Tail(<<"take">>) = <<>>
      /\ Head(<<"take">>) = "take"
  OBVIOUS
<1>2. /\ \A p \in Lending : p # <<>> /\ Head(p) = "give"
      /\ \A p \in Lent : /\ p # <<>>
                         /\ \/ Head(p) \in {"on", "off"} /\ p # <<"copy", "take">>
                            \/ Head(p) = "copy" /\ p = <<"copy", "take">>
  BY DEF Lending, Lent
<1> QED BY <1>1, <1>2, Zenon DEF Lending, Lent

---------------------------------------------------------------------------
(* Steps. *)

\* A driver has one slot or two.
LEMMA Slots ==
  /\ rxNic \notin OneSlot => 0 .. SlotCount - 1 = {0, 1} /\ After(0) = 1 /\ After(1) = 0
  /\ rxNic \in OneSlot => 0 .. SlotCount - 1 = {0} /\ After(0) = 0
BY DEF SlotCount, After, OneSlot

\* RxStep without its CASE expressions: what each kind of step does.
LEMMA StepIs ==
  ASSUME RxStep
  PROVE  LET step == Head(rxProg)
             drains == step = "drain" /\ ~rxLastBad
         IN  /\ rxProg # <<>>
             /\ packet' = IF step = "copy" THEN rxSlots[rxCur].frame ELSE packet
             /\ step = "give" => rxSlots' = Given({rxCur})
             /\ step = "rings" \/ drains => rxSlots' = Given(0 .. SlotCount - 1)
             /\ step \notin {"give", "rings"} /\ ~drains => rxSlots' = rxSlots
             /\ step = "next" => rxCur' = After(rxCur)
             /\ step = "rings" => rxCur' = 0
             /\ drains => rxCur' = rxAt
             /\ step \notin {"next", "rings"} /\ ~drains => rxCur' = rxCur
             /\ rxAt' = IF step = "point" THEN 0 ELSE rxAt
             /\ rxOn' = IF step = "on" THEN TRUE ELSE rxOn /\ step # "off"
             /\ rxOut' = IF step = "take" THEN Append(rxOut, packet) ELSE rxOut
             /\ rxProg' = IF step = "again" THEN PollOf(rxNic, Seen(packet # 0)) ELSE Tail(rxProg)
             /\ UNCHANGED <<rxNic, rxOverrun, rxLastBad, rxClosed, rxArrived, rxSpoilt, rxExcused>>
<1> DEFINE step == Head(rxProg)
           drains == step = "drain" /\ ~rxLastBad
           all == 0 .. SlotCount - 1
<1>1. /\ rxProg # <<>>
      /\ rxSlots' = CASE step = "give" -> Given({rxCur})
                      [] step = "rings" \/ drains -> Given(all)
                      [] OTHER -> rxSlots
      /\ rxCur' = CASE step = "next" -> After(rxCur)
                    [] step = "rings" -> 0
                    [] drains -> rxAt
                    [] OTHER -> rxCur
  BY Zenon DEF RxStep
<1>2. /\ packet' = IF step = "copy" THEN rxSlots[rxCur].frame ELSE packet
      /\ rxAt' = IF step = "point" THEN 0 ELSE rxAt
      /\ rxOn' = IF step = "on" THEN TRUE ELSE rxOn /\ step # "off"
      /\ rxOut' = IF step = "take" THEN Append(rxOut, packet) ELSE rxOut
      /\ rxProg' = IF step = "again" THEN PollOf(rxNic, Seen(packet # 0)) ELSE Tail(rxProg)
      /\ UNCHANGED <<rxNic, rxOverrun, rxLastBad, rxClosed, rxArrived, rxSpoilt, rxExcused>>
  BY Zenon DEF RxStep
<1> HIDE DEF all, step
<1>3. /\ step = "give" => rxSlots' = Given({rxCur})
      /\ step = "rings" \/ drains => rxSlots' = Given(all)
      /\ step \notin {"give", "rings"} /\ ~drains => rxSlots' = rxSlots
  BY <1>1, Zenon
<1>4. /\ step = "next" => rxCur' = After(rxCur)
      /\ step = "rings" => rxCur' = 0
      /\ drains => rxCur' = rxAt
      /\ step \notin {"next", "rings"} /\ ~drains => rxCur' = rxCur
  BY <1>1, Zenon
<1> QED BY <1>1, <1>2, <1>3, <1>4 DEF all, step

\* The variables have their types when the probe begins.
LEMMA RxInitTypes == RxInit => RxTypes
<1> SUFFICES ASSUME RxInit PROVE RxTypes
  OBVIOUS
<1>1. SlotCount \in {1, 2}
  BY DEF SlotCount
<1>2. rxArrived = 0 /\ rxOut = <<>> /\ rxSpoilt = {} /\ packet = 0
  BY DEF RxInit
<1>3. rxSlots \in [0 .. SlotCount - 1 -> [stored : BOOLEAN, frame : 0 .. rxArrived, kind : {"sound", "damaged", "long"}]]
  BY <1>2 DEF RxInit, Empty
<1>4. rxOut \in Seq(0 .. rxArrived) /\ rxSpoilt \subseteq 1 .. rxArrived /\ packet \in 0 .. rxArrived
  BY <1>2
<1> QED BY <1>1, <1>2, <1>3, <1>4 DEF RxInit, RxTypes

\* Every step keeps the types.
LEMMA RxTypesKept == RxTypes /\ [RxNext]_rxVars => RxTypes'
<1> SUFFICES ASSUME RxTypes, [RxNext]_rxVars PROVE RxTypes'
  OBVIOUS
<1> USE DEF RxTypes
<1>s. SlotCount \in {1, 2} /\ \A i \in 0 .. SlotCount - 1 : After(i) \in 0 .. SlotCount - 1
  BY DEF SlotCount, After
<1>c. rxNic' = rxNic => SlotCount' = SlotCount
  BY DEF SlotCount
<1>1. ASSUME NEW kind \in Kinds, Arrive(kind) PROVE RxTypes'
  <2>1. kind \in {"sound", "damaged", "long"}
    BY DEF Kinds
  <2>2. rxNic' = rxNic /\ rxArrived' = rxArrived + 1 /\ rxCur' = rxCur /\ packet' = packet /\ rxOut' = rxOut
        /\ rxClosed' = rxClosed /\ rxSpoilt' \in {rxSpoilt, rxSpoilt \cup {rxArrived + 1}}
    BY <1>1 DEF Arrive
  <2>3. /\ rxSlots' \in {rxSlots, [rxSlots EXCEPT ![rxAt] =
                               [stored |-> TRUE, frame |-> rxArrived + 1, kind |-> kind]]}
        /\ rxAt' \in {rxAt, After(rxAt)}
    BY <1>1 DEF Arrive
  <2>4. rxOn' \in BOOLEAN /\ rxOverrun' \in BOOLEAN /\ rxLastBad' \in BOOLEAN /\ rxExcused' \in BOOLEAN
    BY <1>1 DEF Arrive
  <2>5. rxSlots' \in [0 .. SlotCount - 1 -> [stored : BOOLEAN, frame : 0 .. rxArrived + 1, kind : {"sound", "damaged", "long"}]]
    <3> DEFINE S == [stored : BOOLEAN, frame : 0 .. rxArrived + 1, kind : {"sound", "damaged", "long"}]
    <3>1. rxSlots \in [0 .. SlotCount - 1 -> S]
      <4>1. \A i \in 0 .. SlotCount - 1 : rxSlots[i] \in S
        OBVIOUS
      <4> HIDE DEF S
      <4> QED BY <4>1
    <3>2. [stored |-> TRUE, frame |-> rxArrived + 1, kind |-> kind] \in S
      BY <2>1
    <3> HIDE DEF S
    <3>3. rxSlots' \in [0 .. SlotCount - 1 -> S]
      BY <2>3, <3>1, <3>2
    <3> QED BY <3>3 DEF S
  <2>6. rxOut \in Seq(0 .. rxArrived + 1)
    <3>1. 0 .. rxArrived \subseteq 0 .. rxArrived + 1
      OBVIOUS
    <3>2. \A n, m : n \subseteq m => Seq(n) \subseteq Seq(m)
      OBVIOUS
    <3> QED BY <3>1, <3>2
  <2>7. rxAt' \in 0 .. SlotCount - 1 /\ rxArrived' \in Nat /\ packet' \in 0 .. rxArrived'
        /\ rxSpoilt' \subseteq 1 .. rxArrived'
    <3>1. rxAt' \in 0 .. SlotCount - 1
      BY <2>3, <1>s
    <3>2. rxSpoilt' \subseteq 1 .. rxArrived + 1
      BY <2>2
    <3> QED BY <2>2, <3>1, <3>2
  <2> QED BY <2>2, <2>4, <2>5, <2>6, <2>7, <1>c
<1>2. ASSUME Stray PROVE RxTypes'
  <2>1. rxOut' \in Seq(0 .. rxArrived)
    BY <1>2 DEF Stray
  <2> QED BY <1>2, <2>1, <1>c DEF Stray, rxCard
<1>3. ASSUME eth_poll PROVE RxTypes'
  <2>1. /\ packet' = 0 /\ rxOverrun' = FALSE
        /\ UNCHANGED <<rxNic, rxSlots, rxAt, rxCur, rxOn, rxLastBad, rxClosed,
                       rxArrived, rxSpoilt, rxOut, rxExcused>>
    BY <1>3 DEF eth_poll, rxHistory
  <2>2. SlotCount' = SlotCount /\ packet' \in 0 .. rxArrived
    BY <2>1, <1>c
  <2> QED BY <2>1, <2>2
<1>4. ASSUME Transmitted PROVE RxTypes'
  BY <1>4, <1>c DEF Transmitted, rxCard
<1>5. ASSUME eth_disable PROVE RxTypes'
  BY <1>5, <1>c DEF eth_disable, rxCard, rxHistory
<1>6. ASSUME RxStep PROVE RxTypes'
  <2>1. \A X : Given(X) \in [0 .. SlotCount - 1 -> [stored : BOOLEAN, frame : 0 .. rxArrived, kind : {"sound", "damaged", "long"}]]
    BY DEF Given
  <2>2. rxSlots' \in [0 .. SlotCount - 1 -> [stored : BOOLEAN, frame : 0 .. rxArrived, kind : {"sound", "damaged", "long"}]]
    BY <1>6, <2>1, StepIs
  <2>3. rxCur' \in 0 .. SlotCount - 1 /\ rxAt' \in 0 .. SlotCount - 1
    <3>1. 0 \in 0 .. SlotCount - 1
      BY <1>s
    <3> DEFINE step == Head(rxProg)
    <3>2. rxCur' \in {rxCur, After(rxCur), 0, rxAt} /\ rxAt' \in {rxAt, 0}
      BY <1>6, StepIs
    <3> QED BY <3>1, <3>2, <1>s
  <2>4. packet' \in 0 .. rxArrived /\ rxOut' \in Seq(0 .. rxArrived)
    <3>1. packet' \in {packet, rxSlots[rxCur].frame} /\ rxOut' \in {rxOut, Append(rxOut, packet)}
      BY <1>6, StepIs
    <3>2. rxSlots[rxCur].frame \in 0 .. rxArrived /\ Append(rxOut, packet) \in Seq(0 .. rxArrived)
      OBVIOUS
    <3> QED BY <3>1, <3>2
  <2>5. rxOn' \in BOOLEAN /\ UNCHANGED <<rxNic, rxOverrun, rxLastBad, rxClosed, rxArrived, rxSpoilt, rxExcused>>
    BY <1>6, StepIs
  <2> QED BY <2>2, <2>3, <2>4, <2>5, <1>c
<1>7. ASSUME UNCHANGED rxVars PROVE RxTypes'
  BY <1>7, <1>c DEF rxVars
<1> QED BY <1>1, <1>2, <1>3, <1>4, <1>5, <1>6, <1>7 DEF RxNext

\* After eth_disable the receiver is stopped, but for those that stop none.
LEMMA ClosedKept == WhileClosed /\ [RxNext]_rxVars => WhileClosed'
<1> SUFFICES ASSUME WhileClosed, [RxNext]_rxVars PROVE WhileClosed'
  OBVIOUS
<1>1. ASSUME NEW kind \in Kinds, Arrive(kind) PROVE WhileClosed'
  BY <1>1 DEF Arrive, WhileClosed
<1>2. ASSUME Stray PROVE WhileClosed'
  BY <1>2 DEF Stray, WhileClosed, rxCard
<1>3. ASSUME eth_poll PROVE WhileClosed'
  <2>1. ~rxClosed' BY <1>3 DEF eth_poll
  <2> QED BY <2>1 DEF WhileClosed
<1>4. ASSUME Transmitted PROVE WhileClosed'
  <2>1. ~rxClosed' BY <1>4 DEF Transmitted
  <2> QED BY <2>1 DEF WhileClosed
<1>5. ASSUME eth_disable PROVE WhileClosed'
  BY <1>5 DEF eth_disable, WhileClosed, NeverDisabled, rxCard
<1>6. ASSUME RxStep PROVE WhileClosed'
  <2>1. rxProg # <<>> /\ rxClosed' = rxClosed
    BY <1>6, StepIs
  <2>2. CASE rxClosed
    <3>1. rxProg = <<"off">>
      BY <2>1, <2>2 DEF WhileClosed
    <3>2. Head(rxProg) = "off" /\ Tail(rxProg) = <<>>
      BY <3>1
    <3>3. ~rxOn' /\ rxProg' = <<>>
      BY <1>6, <3>2, StepIs
    <3> QED BY <3>3 DEF WhileClosed
  <2> QED BY <2>1, <2>2 DEF WhileClosed
<1>7. ASSUME UNCHANGED rxVars PROVE WhileClosed'
  BY <1>7 DEF WhileClosed, rxVars
<1> QED BY <1>1, <1>2, <1>3, <1>4, <1>5, <1>6, <1>7 DEF RxNext

---------------------------------------------------------------------------
(* The card and the calls of the driver. *)

\* What a frame that comes changes, unless the driver is excused from then on.
LEMMA ArrivalIs ==
  ASSUME RxTypes, ~rxExcused', NEW kind \in Kinds, Arrive(kind)
  PROVE  /\ UNCHANGED <<rxNic, rxCur, packet, rxProg, rxOut>>
         /\ rxArrived' = rxArrived + 1
         /\ rxSpoilt' = IF kind = "sound" THEN rxSpoilt ELSE rxSpoilt \cup {rxArrived + 1}
         /\ \/ /\ rxOn /\ ~Stored(rxAt)
               /\ rxSlots' = [rxSlots EXCEPT ![rxAt] =
                                [stored |-> TRUE, frame |-> rxArrived + 1, kind |-> kind]]
               /\ rxAt' = After(rxAt)
               /\ rxOn' = (rxNic # "ni5010")
               /\ kind \in {"sound", "damaged"} /\ (rxNic \in NeverDamaged => kind = "sound")
               /\ ~CopiesTooLate /\ ~ResetsWhileOn
            \/ UNCHANGED <<rxSlots, rxAt>> /\ (rxOn' => rxOn)
<1> DEFINE dropped == kind = "damaged" /\ rxNic \in DropsDamaged
           stores == rxOn /\ ~dropped /\ ~rxSlots[rxAt].stored
<1>1. kind \in {"sound", "damaged"} \/ (kind = "long" /\ rxNic = "w89c840")
  BY DEF Kinds
<1>2. /\ UNCHANGED <<rxNic, rxCur, packet, rxProg, rxOut>>
      /\ rxArrived' = rxArrived + 1
      /\ rxSpoilt' = IF kind = "sound" THEN rxSpoilt ELSE rxSpoilt \cup {rxArrived + 1}
  BY DEF Arrive
<1>3. CASE stores
  <2>1. ~CopiesTooLate /\ ~ResetsWhileOn /\ ~NotPromised(kind)
    BY <1>3 DEF Arrive
  <2>2. kind \in {"sound", "damaged"} /\ (rxNic \in NeverDamaged => kind = "sound")
    BY <1>1, <1>3, <2>1 DEF NotPromised, NeverDamaged
  <2>3. /\ rxSlots' = [rxSlots EXCEPT ![rxAt] =
                        [stored |-> TRUE, frame |-> rxArrived + 1, kind |-> kind]]
        /\ rxAt' = After(rxAt) /\ rxOn' = (rxNic # "ni5010")
    BY <1>3 DEF Arrive, StopsAfterFrame
  <2> QED BY <1>2, <1>3, <2>1, <2>2, <2>3 DEF Stored
<1>4. CASE ~stores
  BY <1>2, <1>4 DEF Arrive
<1> QED BY <1>3, <1>4

\* A frame that comes, at any point of the driver's program, leaves card and
\* driver in order.
LEMMA ArrivalKeeps ==
  ASSUME RxTypes, InOrder, ~rxExcused', NEW kind \in Kinds, Arrive(kind)
  PROVE  InOrder'
<1> DEFINE new == rxArrived + 1
           I == 0 .. SlotCount - 1
<1>a. /\ UNCHANGED <<rxNic, rxCur, packet, rxProg, rxOut>>
      /\ rxArrived' = new
      /\ rxSpoilt' = IF kind = "sound" THEN rxSpoilt ELSE rxSpoilt \cup {new}
  BY ArrivalIs
<1>b. ASSUME NEW i \in I, Stored(i)
      PROVE  Stored(i)' /\ rxSlots'[i] = rxSlots[i]
  <2>1. rxSlots \in [I -> [stored : BOOLEAN, frame : 0 .. rxArrived, kind : {"sound", "damaged", "long"}]]
    BY DEF RxTypes
  <2> QED BY <1>b, <2>1, ArrivalIs DEF Stored
<1>c. ASSUME NEW i \in I, ~Stored(i), Stored(i)'
      PROVE  /\ i = rxAt /\ rxOn /\ rxAt' = After(rxAt) /\ ~CopiesTooLate /\ ~ResetsWhileOn
             /\ rxSlots'[i] = [stored |-> TRUE, frame |-> new, kind |-> kind]
             /\ kind \in {"sound", "damaged"} /\ (rxNic \in NeverDamaged => kind = "sound")
             /\ rxOn' = (rxNic # "ni5010")
  <2>1. rxSlots \in [I -> [stored : BOOLEAN, frame : 0 .. rxArrived, kind : {"sound", "damaged", "long"}]]
    BY DEF RxTypes
  <2> QED BY <1>c, <2>1, ArrivalIs DEF Stored
<1>d. rxArrived \in Nat /\ rxSpoilt \subseteq 1 .. rxArrived /\ packet \in 0 .. rxArrived
      /\ \A i \in DOMAIN rxOut : rxOut[i] \in 0 .. rxArrived
  BY DEF RxTypes
<1>e. Newer(new) /\ \A f : Newer(f)' <=> Newer(f)
  BY <1>a, <1>d DEF Newer
<1>f. \A f : Sound(f) => Sound(f)'
  BY <1>a, <1>d, <1>e DEF Sound
<1>g. SlotCount' = SlotCount /\ \A i : After(i)' = After(i)
  BY <1>a DEF SlotCount, After
<1>1. TrueSlots'
  <2> SUFFICES ASSUME NEW i \in I, Stored(i)'
               PROVE  /\ Frame(i)' \in 1 .. new /\ Newer(Frame(i)')
                      /\ rxSlots'[i].kind \in {"sound", "damaged"}
                      /\ rxSlots'[i].kind = "damaged" <=> Frame(i)' \in rxSpoilt'
                      /\ rxNic \in NeverDamaged => rxSlots'[i].kind = "sound"
    BY <1>a, <1>e, <1>g DEF TrueSlots, Newer
  <2>1. CASE Stored(i)
    <3>1. rxSlots'[i] = rxSlots[i]
      BY <2>1, <1>b
    <3>2. /\ Frame(i) \in 1 .. rxArrived /\ Newer(Frame(i))
          /\ rxSlots[i].kind \in {"sound", "damaged"}
          /\ rxSlots[i].kind = "damaged" <=> Frame(i) \in rxSpoilt
          /\ rxNic \in NeverDamaged => rxSlots[i].kind = "sound"
      BY <2>1 DEF InOrder, TrueSlots
    <3> QED BY <3>1, <3>2, <1>a, <1>d DEF Frame
  <2>2. CASE ~Stored(i)
    BY <2>2, <1>a, <1>c, <1>d, <1>e DEF Frame
  <2> QED BY <2>1, <2>2
<1>2. ASSUME Copied PROVE Copied'
  <2>1. Sound(packet)' BY <1>2, <1>a, <1>f DEF Copied, Sound, Newer
  <2>2. ASSUME NEW i \in I, Stored(i)' PROVE packet < Frame(i)'
    <3>1. CASE Stored(i) BY <3>1, <1>2, <1>b DEF Copied, Frame
    <3>2. CASE ~Stored(i) BY <2>2, <3>2, <1>c, <1>d DEF Frame
    <3> QED BY <3>1, <3>2
  <2> QED BY <2>1, <2>2, <1>a, <1>g DEF Copied
<1>3. ASSUME rxNic \notin OneSlot, NEW f \in {0, 1}, InStep(f) PROVE InStep(f)'
  <2>1. I = {0, 1} /\ After(0) = 1 /\ After(1) = 0
    BY <1>3, Slots
  <2> PICK other \in {0, 1} : other = After(f)
    BY <2>1
  <2>2. f \in I /\ other \in I /\ f # other /\ After(f) = other /\ After(other) = f
    BY <2>1
  <2>3. Stored(other) => Stored(f) /\ Frame(f) < Frame(other)
    BY <1>3 DEF InStep
  <2>4. rxAt = IF Stored(f) /\ ~Stored(other) THEN other ELSE f
    BY <1>3 DEF InStep
  <2>5. \A i \in I : Stored(i) => Frame(i) \in 1 .. rxArrived
    BY DEF InOrder, TrueSlots
  <2>6. \A i \in I : Stored(i) => Stored(i)' /\ Frame(i)' = Frame(i)
    BY <1>b DEF Frame
  <2>7. \A i \in I : Stored(i)' /\ ~Stored(i) => i = rxAt /\ Frame(i)' = new /\ rxAt' = After(rxAt)
    BY <1>c DEF Frame
  <2>8. (\A i \in I : Stored(i)' => Stored(i)) => rxAt' = rxAt
    <3>1. rxAt \in I /\ rxSlots \in [I -> [stored : BOOLEAN, frame : 0 .. rxArrived, kind : {"sound", "damaged", "long"}]]
      BY DEF RxTypes
    <3>2. CASE UNCHANGED <<rxSlots, rxAt>>
      BY <3>2
    <3>3. CASE /\ ~Stored(rxAt)
               /\ rxSlots' = [rxSlots EXCEPT ![rxAt] =
                                [stored |-> TRUE, frame |-> rxArrived + 1, kind |-> kind]]
      <4>1. rxSlots'[rxAt].stored
        BY <3>1, <3>3
      <4> QED BY <3>1, <3>3, <4>1 DEF Stored
    <3> QED BY <3>2, <3>3, ArrivalIs
  <2>9. /\ Stored(f) => Stored(f)' /\ Frame(f)' = Frame(f) /\ Frame(f) \in 1 .. rxArrived
        /\ Stored(other) => Stored(other)' /\ Frame(other)' = Frame(other) /\ Frame(other) \in 1 .. rxArrived
        /\ Stored(f)' /\ ~Stored(f) => f = rxAt /\ Frame(f)' = new /\ rxAt' = After(rxAt)
        /\ Stored(other)' /\ ~Stored(other) => other = rxAt /\ Frame(other)' = new /\ rxAt' = After(rxAt)
    BY <2>2, <2>5, <2>6, <2>7
  <2>10. rxAt' # rxAt => \/ Stored(f)' /\ ~Stored(f)
                         \/ Stored(other)' /\ ~Stored(other)
    BY <2>1, <2>2, <2>8
  <2> HIDE DEF I
  <2>11. /\ Stored(other)' => Stored(f)' /\ Frame(f)' < Frame(other)'
         /\ rxAt' = IF Stored(f)' /\ ~Stored(other)' THEN other ELSE f
    <3>1. After(f) = other /\ After(other) = f /\ f # other
      BY <2>2
    <3> QED BY <3>1, <2>3, <2>4, <2>9, <2>10, <1>d
  <2> QED BY <2>2, <2>11, <1>g DEF InStep
<1>4. ASSUME rxNic \notin OneSlot PROVE TwoSlots'
  <2>1. rxCur \in {0, 1} /\ After(rxCur) \in {0, 1} /\ I = {0, 1}
    BY <1>4, Slots DEF RxTypes
  <2>2. /\ InStep(rxCur) => InStep(rxCur)'
        /\ InStep(After(rxCur)) => InStep(After(rxCur))'
    <3>1. InStep(rxCur) => \E f \in {0, 1} : f = rxCur /\ InStep(f)'
      BY <2>1, <1>3, <1>4
    <3>2. InStep(After(rxCur)) => \E f \in {0, 1} : f = After(rxCur) /\ InStep(f)'
      BY <2>1, <1>3, <1>4
    <3> QED BY <3>1, <3>2, <1>a, <1>g DEF InStep
  <2>3. Stored(rxCur) => /\ Stored(rxCur)' /\ rxSlots'[rxCur'] = rxSlots[rxCur]
                         /\ Frame(rxCur)' = Frame(rxCur)
    BY <2>1, <1>a, <1>b DEF Stored, Frame
  <2>4. Sound(packet) => Sound(packet)'
    BY <1>a, <1>f DEF Sound, Newer
  <2>5. ASSUME rxProg \in Emptying \cup Pointing, Unstored
        PROVE  Unstored' /\ (Emptied => Emptied')
    <3>1. rxNic = "epic100" => ResetsWhileOn
      <4>1. \A p \in Emptying \cup Pointing : \E i \in DOMAIN p : p[i] \in {"rings", "point"}
        BY DEF Emptying, Pointing
      <4> QED BY <4>1, <2>5 DEF ResetsWhileOn
    <3>2. ASSUME NEW i \in I, Stored(i)' PROVE Stored(i)
      BY <3>2, <3>1, <1>c, <2>5 DEF Unstored
    <3>3. Unstored'
      BY <2>5, <1>a, <1>4, ArrivalIs DEF Unstored, OneSlot
    <3> QED BY <3>2, <3>3, <1>g DEF Emptied
  <2> HIDE DEF I
  <2>6. TwoSlots
    BY <1>4 DEF InOrder
  <2>7. rxProg' = rxProg /\ rxCur' = rxCur /\ packet' = packet
    BY <1>a
  <2>8. CASE \/ rxProg \in Anew
             \/ rxProg \in Emptying /\ Unstored
             \/ rxProg \in Pointing /\ Unstored /\ Emptied /\ rxCur = 0
    BY <2>5, <2>7, <2>8 DEF TwoSlots
  <2>9. CASE \/ rxProg \in Draining \cup Resting /\ InStep(rxCur)
             \/ rxProg \in MovingBad /\ InStep(After(rxCur))
    BY <2>2, <2>7, <2>9 DEF TwoSlots
  <2>10. CASE \/ rxProg \in Copying /\ InStep(rxCur) /\ Stored(rxCur) /\ rxSlots[rxCur].kind = "sound"
              \/ rxProg \in Giving /\ InStep(rxCur) /\ Stored(rxCur) /\ Sound(packet) /\ packet = Frame(rxCur)
              \/ rxProg \in CopyingBad \cup GivingBad /\ InStep(rxCur) /\ Stored(rxCur)
    BY <2>2, <2>3, <2>4, <2>7, <2>10 DEF TwoSlots
  <2>11. CASE \/ rxProg \in Moving /\ InStep(After(rxCur)) /\ Copied
              \/ rxProg \in Taking /\ InStep(rxCur) /\ Copied
    BY <2>2, <1>2, <2>7, <2>11 DEF TwoSlots
  <2> QED BY <2>6, <2>8, <2>9, <2>10, <2>11 DEF TwoSlots
<1>5. ASSUME rxNic = "eepro100" PROVE Speedo'
  <2>1. I = {0} /\ rxCur = 0 /\ rxAt = 0
    BY <1>5, Slots DEF RxTypes, OneSlot
  <2>2. Speedo
    BY <1>5 DEF InOrder
  <2>3. Stored(0) => Stored(0)'
    BY <2>1, <1>b DEF Stored
  <2>4. ASSUME rxProg \in Lent, ~Stored(0), Sound(Frame(0)) PROVE ~Stored(0)' /\ Sound(Frame(0))'
    <3>1. \A p \in Lent : \E i \in DOMAIN p : p[i] = "copy"
      BY DEF Lent
    <3>2. CopiesTooLate
      BY <3>1, <1>5, <2>4 DEF CopiesTooLate
    <3>3. rxSlots' = rxSlots
      BY <3>2, ArrivalIs
    <3> QED BY <3>3, <2>4, <1>f, <1>a DEF Stored, Frame, Sound, Newer
  <2> QED BY <2>2, <2>3, <2>4, <1>2, <1>a DEF Speedo
<1>6. ASSUME rxNic = "ni5010" PROVE Ni5010'
  <2>1. I = {0} /\ rxCur = 0 /\ rxAt = 0
    BY <1>6, Slots DEF RxTypes, OneSlot
  <2>2. Ni5010
    BY <1>6 DEF InOrder
  <2>3. Stored(0) => Stored(0)' /\ rxSlots'[0] = rxSlots[0]
    BY <2>1, <1>b DEF Stored
  <2>4. /\ rxOn' => rxOn
        /\ Stored(0)' => ~rxOn'
    <3>1. Stored(0) => ~rxOn
      BY <2>2 DEF Ni5010
    <3> QED BY <3>1, <1>6, <2>1, <1>c, ArrivalIs
  <2>5. ~rxOn => rxSlots' = rxSlots
    BY ArrivalIs
  <2>6. Sound(Frame(0)) /\ ~rxOn => Sound(Frame(0))'
    BY <2>5, <1>f, <1>a DEF Frame, Sound, Newer
  <2> QED BY <2>2, <2>3, <2>4, <2>5, <2>6, <1>2, <1>a DEF Ni5010, Stored
<1> QED BY <1>1, <1>4, <1>5, <1>6, <1>a DEF InOrder

\* PollPrograms for what this poll sees.
LEMMA PollFits ==
  ASSUME RxTypes, TrueSlots, rxNic \notin OneSlot, NEW got \in BOOLEAN
  PROVE  LET p == PollOf(rxNic, Seen(got))
         IN  \/ p \in Anew \cup Draining \cup Resting
             \/ p = <<"take">> /\ got
             \/ p \in Copying /\ Stored(rxCur) /\ rxSlots[rxCur].kind = "sound"
             \/ p \in CopyingBad \cup GivingBad /\ Stored(rxCur)
<1> DEFINE s == Seen(got)
<1>1. s \in [stored : BOOLEAN, bad : BOOLEAN, long : BOOLEAN,
             overrun : BOOLEAN, lastBad : BOOLEAN, got : BOOLEAN]
  BY DEF Seen, RxTypes
<1>2. /\ s.stored = Stored(rxCur) /\ s.bad = (rxSlots[rxCur].kind = "damaged")
      /\ s.long = (rxSlots[rxCur].kind = "long") /\ s.got = got
  BY DEF Seen, Stored
<1>3. Stored(rxCur) => /\ rxSlots[rxCur].kind \in {"sound", "damaged"}
                       /\ rxNic \in NeverDamaged => rxSlots[rxCur].kind = "sound"
  BY DEF RxTypes, TrueSlots
<1>4. rxNic \in Receivers \ OneSlot
  BY DEF RxTypes
<1> HIDE DEF s
<1>5. s.stored /\ rxNic = "w89c840" => ~s.long
  BY <1>2, <1>3
<1>6. s.stored /\ rxNic \in NeverDamaged => ~s.bad
  BY <1>2, <1>3
<1>7. \/ PollOf(rxNic, s) \in Anew \cup Draining \cup Resting
      \/ PollOf(rxNic, s) = <<"take">> /\ s.got
      \/ PollOf(rxNic, s) \in Copying /\ s.stored /\ ~s.bad
      \/ PollOf(rxNic, s) \in CopyingBad \cup GivingBad /\ s.stored
  BY <1>1, <1>4, <1>5, <1>6, PollPrograms
<1> QED BY <1>2, <1>3, <1>7 DEF s

\* Between two calls card and driver are in step.
LEMMA Rested ==
  ASSUME RxTypes, InOrder, rxProg = <<>>
  PROVE  rxNic \notin OneSlot => InStep(rxCur)
<1>1. \A p \in Anew \cup Emptying \cup Pointing \cup Draining \cup Copying \cup Giving \cup Moving
          \cup Taking \cup CopyingBad \cup GivingBad \cup MovingBad : p # <<>>
  BY Begun, Fetched
<1> QED BY <1>1 DEF InOrder, TwoSlots

\* What eth_transmit leaves for the receiver to do.
LEMMA AfterSendIs ==
  ASSUME NEW d \in Receivers
  PROVE  /\ d \in {"rtl8139", "3c90x", "sk_g16"} => AfterSendOf(d) \subseteq Anew \cup {<<>>}
         /\ d = "epic100" => AfterSendOf(d) \subseteq Emptying \cup {<<>>}
         /\ d = "ni5010" => AfterSendOf(d) = {<<"off", "rings", "on">>}
         /\ d \notin {"rtl8139", "3c90x", "sk_g16", "epic100", "smc9000", "ni5010"} => AfterSendOf(d) = {<<>>}
<1>1. /\ AfterSendOf("rtl8139") = {<<>>, RtlReset} /\ AfterSendOf("3c90x") = {<<>>, VortexReset}
      /\ AfterSendOf("epic100") = {<<>>, EpicOpen} /\ AfterSendOf("sk_g16") = {<<>>, SkReset}
      /\ AfterSendOf("ni5010") = {<<"off", "rings", "on">>}
      /\ d \notin {"rtl8139", "3c90x", "sk_g16", "epic100", "smc9000", "ni5010"} => AfterSendOf(d) = {<<>>}
  BY Zenon DEF AfterSendOf
<1> QED BY <1>1 DEF RtlReset, VortexReset, SkReset, EpicOpen, StartAfresh, Anew, Emptying

\* Every probe ends in a reset that starts the receiver.
LEMMA ProbeIs == \A d \in Receivers : ProbeOf(d) = <<"off", "rings", "point", "on">>
<1>1. /\ ProbeOf("tulip") = TulipReset /\ ProbeOf("davicom") = DavicomReset /\ ProbeOf("natsemi") = NatsemiReset
      /\ ProbeOf("sis900") = SisReset /\ ProbeOf("fa311") = FaReset /\ ProbeOf("rtl8139") = RtlReset
      /\ ProbeOf("w89c840") = WinbondReset /\ ProbeOf("via-rhine") = RhineReset /\ ProbeOf("3c90x") = VortexReset
      /\ ProbeOf("otulip") = OtulipReset /\ ProbeOf("lance") = LanceReset /\ ProbeOf("depca") = DepcaReset
      /\ ProbeOf("sk_g16") = SkReset /\ ProbeOf("eepro100") = SpeedoReset /\ ProbeOf("ns8390") = NsReset
      /\ ProbeOf("3c509") = T509Reset /\ ProbeOf("3c595") = T595Reset /\ ProbeOf("eepro") = EeproReset
      /\ ProbeOf("ni5010") = Ni5010Reset /\ ProbeOf("epic100") = StartAfresh /\ ProbeOf("smc9000") = StartAfresh
  BY Zenon DEF ProbeOf
<1> QED BY <1>1 DEF Receivers, StartAfresh,
        TulipReset, DavicomReset, NatsemiReset, SisReset, FaReset, RtlReset, WinbondReset,
        RhineReset, VortexReset, OtulipReset, LanceReset, DepcaReset, SkReset, SpeedoReset,
        NsReset, T509Reset, T595Reset, EeproReset, Ni5010Reset

\* The invariant holds when the probe begins.
LEMMA RxInitInv == RxInit => RxInv
<1> SUFFICES ASSUME RxInit PROVE RxInv
  OBVIOUS
<1>1. rxProg = <<"off", "rings", "point", "on">>
  BY ProbeIs DEF RxInit
<1>2. ~Stored(0) /\ \A i \in 0 .. SlotCount - 1 : ~Stored(i)
  BY DEF RxInit, Stored, Empty, SlotCount
<1>3. InOrder
  BY <1>1, <1>2 DEF InOrder, TrueSlots, TwoSlots, Speedo, Ni5010, Anew
<1> QED BY <1>3, RxInitTypes DEF RxInv, RxInit, WhileClosed

\* Nothing but the program of the driver and nic->packet changes.
LEMMA Programmed ==
  ASSUME UNCHANGED <<rxNic, rxSlots, rxAt, rxCur, rxOn, rxArrived, rxSpoilt, rxOut>>
  PROVE  /\ TrueSlots' = TrueSlots /\ InStep(rxCur)' = InStep(rxCur)
         /\ Unstored' = Unstored /\ Emptied' = Emptied
         /\ rxSlots' = rxSlots /\ rxCur' = rxCur /\ SlotCount' = SlotCount
         /\ \A i : Stored(i)' = Stored(i) /\ Frame(i)' = Frame(i)
         /\ \A f : Sound(f)' = Sound(f)
BY DEF TrueSlots, InStep, Unstored, Emptied, Stored, Frame, Sound, Newer, After, SlotCount

\* eth_poll leaves card and driver in order.
LEMMA PollKeeps ==
  ASSUME RxTypes, InOrder, eth_poll
  PROVE  InOrder'
<1>1. /\ rxProg = <<>> /\ rxProg' = PollOf(rxNic, Seen(FALSE))
      /\ UNCHANGED <<rxNic, rxSlots, rxAt, rxCur, rxOn, rxArrived, rxSpoilt, rxOut>>
  BY Zenon DEF eth_poll, rxHistory
<1>2. TrueSlots'
  BY <1>1, Programmed DEF InOrder
<1>3. ASSUME rxNic \notin OneSlot PROVE TwoSlots'
  <2>1. InStep(rxCur)
    BY <1>1, <1>3, Rested
  <2>2. \/ rxProg' \in Anew \cup Draining \cup Resting
        \/ rxProg' \in Copying /\ Stored(rxCur) /\ rxSlots[rxCur].kind = "sound"
        \/ rxProg' \in CopyingBad \cup GivingBad /\ Stored(rxCur)
    BY <1>1, <1>3, PollFits DEF InOrder
  <2>3. /\ InStep(rxCur)' /\ rxSlots'[rxCur'] = rxSlots[rxCur]
        /\ Stored(rxCur)' = Stored(rxCur)
    BY <1>1, <2>1, Programmed DEF Stored
  <2> QED BY <2>2, <2>3 DEF TwoSlots
<1>4. ASSUME rxNic = "eepro100" PROVE Speedo'
  <2>1. rxCur = 0
    BY <1>4, Slots DEF RxTypes, OneSlot
  <2>2. rxProg' = SpeedoPoll(Seen(FALSE))
    BY <1>1, <1>4, PollIs
  <2>3. Seen(FALSE).stored = Stored(0)
    BY <2>1 DEF Seen, Stored
  <2>4. rxProg' = <<>> \/ (rxProg' \in Lending /\ Stored(0))
    BY <2>2, <2>3 DEF SpeedoPoll, Lending
  <2> QED BY <1>1, <2>4, Programmed DEF Speedo, Resting
<1>5. ASSUME rxNic = "ni5010" PROVE Ni5010'
  <2>1. rxCur = 0
    BY <1>5, Slots DEF RxTypes, OneSlot
  <2>2. rxProg' = Ni5010Poll(Seen(FALSE))
    BY <1>1, <1>5, PollIs
  <2>3. Seen(FALSE).stored = Stored(0) /\ Seen(FALSE).bad = (rxSlots[0].kind = "damaged")
    BY <2>1 DEF Seen, Stored
  <2>4. Stored(0) => rxSlots[0].kind \in {"sound", "damaged"}
    BY <1>5, Slots DEF InOrder, TrueSlots, OneSlot
  <2>5. \/ rxProg' \in {<<>>, <<"give">>}
        \/ rxProg' = <<"give", "off", "copy", "take">> /\ Stored(0) /\ rxSlots[0].kind = "sound"
    BY <2>2, <2>3, <2>4 DEF Ni5010Poll
  <2>6. Stored(0) => ~rxOn
    BY <1>5 DEF InOrder, Ni5010
  <2>7. rxSlots' = rxSlots /\ Stored(0)' = Stored(0) /\ rxOn' = rxOn
    BY <1>1, Programmed
  <2> QED BY <2>5, <2>6, <2>7 DEF Ni5010
<1> QED BY <1>1, <1>2, <1>3, <1>4, <1>5 DEF InOrder

\* So does eth_transmit.
LEMMA SendKeeps ==
  ASSUME RxTypes, InOrder, ~rxExcused', Transmitted
  PROVE  InOrder'
<1>1. /\ rxProg = <<>> /\ rxProg' \in AfterSendOf(rxNic)
      /\ UNCHANGED <<rxNic, rxSlots, rxAt, rxCur, rxOn, rxArrived, rxSpoilt, rxOut>>
      /\ rxNic = "smc9000" => rxProg' = <<>>
  BY DEF Transmitted, rxCard
<1>2. TrueSlots'
  BY <1>1, Programmed DEF InOrder
<1>a. rxNic \in Receivers
  BY DEF RxTypes
<1>3. ASSUME rxNic \notin OneSlot PROVE TwoSlots'
  <2>1. InStep(rxCur)'
    BY <1>1, <1>3, Rested, Programmed
  <2>2. rxProg' \in Anew \cup {<<>>} \/ (rxProg' \in Emptying /\ rxNic = "epic100")
    BY <1>1, <1>3, <1>a, AfterSendIs DEF OneSlot
  <2> QED BY <1>1, <2>1, <2>2 DEF TwoSlots, Resting, Unstored
<1>4. ASSUME rxNic = "eepro100" PROVE Speedo'
  <2>1. rxProg' = <<>>
    BY <1>1, <1>4, <1>a, AfterSendIs
  <2> QED BY <2>1 DEF Speedo, Resting
<1>5. ASSUME rxNic = "ni5010" PROVE Ni5010'
  <2>1. rxProg' = <<"off", "rings", "on">>
    BY <1>1, <1>5, <1>a, AfterSendIs
  <2>2. Stored(0)' => ~rxOn'
    BY <1>1, <1>5, Programmed DEF InOrder, Ni5010
  <2> QED BY <2>1, <2>2 DEF Ni5010
<1> QED BY <1>1, <1>2, <1>3, <1>4, <1>5 DEF InOrder

\* So does eth_disable.
LEMMA DisableKeeps ==
  ASSUME RxTypes, InOrder, eth_disable
  PROVE  InOrder'
<1>1. /\ rxProg = <<>> /\ rxProg' \in {<<>>, <<"off">>}
      /\ UNCHANGED <<rxNic, rxSlots, rxAt, rxCur, rxOn, rxArrived, rxSpoilt, rxOut>>
  BY DEF eth_disable, rxCard, rxHistory
<1>2. TrueSlots'
  BY <1>1, Programmed DEF InOrder
<1>3. ASSUME rxNic \notin OneSlot PROVE TwoSlots'
  BY <1>1, <1>3, Rested, Programmed DEF TwoSlots, Resting
<1>4. ASSUME rxNic = "eepro100" PROVE Speedo'
  BY <1>1 DEF Speedo, Resting
<1>5. ASSUME rxNic = "ni5010" PROVE Ni5010'
  BY <1>1, <1>5, Programmed DEF InOrder, Ni5010
<1> QED BY <1>1, <1>2, <1>3, <1>4, <1>5 DEF InOrder

---------------------------------------------------------------------------
(* The steps of the driver. *)

\* Slots that are given back are empty, and still hold what they held.
LEMMA GivenIs ==
  ASSUME RxTypes, NEW X
  PROVE  \A i \in 0 .. SlotCount - 1 :
           /\ Given(X)[i].stored = (i \notin X /\ Stored(i))
           /\ Given(X)[i].frame = Frame(i) /\ Given(X)[i].kind = rxSlots[i].kind
BY DEF Given, Stored, Frame, RxTypes

\* Slots that are given back leave what is stored in the others.
LEMMA StillTrue ==
  ASSUME TrueSlots, UNCHANGED <<rxNic, rxArrived, rxSpoilt, rxOut>>,
         \A i \in 0 .. SlotCount - 1 :
           rxSlots'[i].stored => /\ Stored(i) /\ rxSlots'[i].frame = Frame(i)
                                 /\ rxSlots'[i].kind = rxSlots[i].kind
  PROVE  TrueSlots'
BY DEF TrueSlots, SlotCount, Stored, Frame, Newer

\* The older of the frames in step goes back, and the other is then the older.
LEMMA GivenInStep ==
  ASSUME RxTypes, rxNic \notin OneSlot, InStep(rxCur), Stored(rxCur),
         rxSlots' = Given({rxCur}), UNCHANGED <<rxNic, rxAt, rxCur>>
  PROVE  InStep(After(rxCur))' /\ \A i \in 0 .. SlotCount - 1 : rxSlots'[i].stored => Stored(i) /\ i = After(rxCur)
<1>1. 0 .. SlotCount - 1 = {0, 1} /\ After(0) = 1 /\ After(1) = 0
  BY Slots
<1>2. rxCur \in {0, 1} /\ After(rxCur) \in {0, 1} /\ After(rxCur) # rxCur /\ After(After(rxCur)) = rxCur
  BY <1>1 DEF RxTypes
<1>3. \A i \in {0, 1} : rxSlots'[i].stored = (i # rxCur /\ Stored(i))
  BY <1>1, GivenIs
<1>4. rxAt = IF ~Stored(After(rxCur)) THEN After(rxCur) ELSE rxCur
  BY DEF InStep
<1>5. After(rxCur)' = After(rxCur) /\ After(After(rxCur))' = After(After(rxCur))
  BY DEF After, SlotCount
<1>6. ~rxSlots'[rxCur].stored /\ (rxSlots'[After(rxCur)].stored = Stored(After(rxCur)))
  <2>1. \A i \in {0, 1} : Stored(i) \in BOOLEAN
    BY <1>1 DEF RxTypes, Stored
  <2> QED BY <1>2, <1>3, <2>1
<1>7. InStep(After(rxCur))'
  BY <1>2, <1>4, <1>5, <1>6 DEF InStep, Stored
<1> QED BY <1>1, <1>2, <1>3, <1>7

\* What was copied is taken.
LEMMA TakenIs ==
  ASSUME RxTypes, TrueSlots, Copied, UNCHANGED <<rxNic, rxSlots, rxArrived, rxSpoilt>>,
         rxOut' = Append(rxOut, packet)
  PROVE  TrueSlots'
<1>1. \A f \in Nat : Newer(f) /\ packet < f => Newer(f)'
  BY DEF Newer, RxTypes
<1>2. \A i \in 0 .. SlotCount - 1 : Stored(i) => Frame(i) \in Nat /\ packet < Frame(i)
  BY DEF Copied, TrueSlots
<1>3. SlotCount' = SlotCount
  BY DEF SlotCount
<1> QED BY <1>1, <1>2, <1>3 DEF TrueSlots, Stored, Frame, Newer

\* A step of a driver with two slots, between any two of which a frame may
\* come, leaves it in order with the card.
LEMMA TwoSlotsStep ==
  ASSUME RxTypes, TrueSlots, TwoSlots, rxNic \notin OneSlot, RxStep
  PROVE  TrueSlots' /\ TwoSlots'
<1> DEFINE I == 0 .. SlotCount - 1
<1>a. /\ UNCHANGED <<rxNic, rxArrived, rxSpoilt>>
      /\ SlotCount' = SlotCount /\ \A i : After(i)' = After(i)
  <2>1. UNCHANGED <<rxNic, rxArrived, rxSpoilt>>
    BY StepIs
  <2> QED BY <2>1 DEF SlotCount, After
<1>b. I = {0, 1} /\ After(0) = 1 /\ After(1) = 0 /\ rxCur \in I /\ rxAt \in I
  BY Slots DEF RxTypes
<1>1. CASE rxProg \in Anew
  <2>1. Head(rxProg) = "off" /\ Tail(rxProg) \in Emptying
    BY <1>1, Begun
  <2>2. rxProg' \in Emptying /\ rxOn' = FALSE /\ rxSlots' = rxSlots /\ rxOut' = rxOut
    BY <2>1, StepIs
  <2>3. TrueSlots'
    BY <1>a, <2>2, StillTrue DEF Stored, Frame
  <2> QED BY <2>2, <2>3 DEF TwoSlots, Unstored
<1>2. CASE rxProg \in Emptying /\ Unstored
  <2>1. Head(rxProg) = "rings" /\ Tail(rxProg) \in Pointing
    BY <1>2, Begun
  <2>2. rxProg' \in Pointing /\ rxOn' = rxOn /\ rxSlots' = Given(I) /\ rxOut' = rxOut /\ rxCur' = 0
    BY <2>1, StepIs DEF RxTypes
  <2>3. \A i \in I : ~rxSlots'[i].stored
    BY <2>2, GivenIs
  <2>4. TrueSlots'
    BY <1>a, <2>2, <2>3, StillTrue
  <2> QED BY <1>2, <1>a, <2>2, <2>3, <2>4 DEF TwoSlots, Unstored, Emptied, Stored
<1>3. CASE rxProg \in Pointing /\ Unstored /\ Emptied /\ rxCur = 0
  <2>1. Head(rxProg) = "point" /\ Tail(rxProg) \in Resting
    BY <1>3, Begun
  <2>2. rxProg' \in Resting /\ rxAt' = 0 /\ rxCur' = rxCur /\ rxSlots' = rxSlots /\ rxOut' = rxOut
    BY <2>1, StepIs
  <2>3. TrueSlots'
    BY <1>a, <2>2, StillTrue DEF Stored, Frame
  <2>4. ~Stored(0) /\ ~Stored(1)
    BY <1>3, <1>b DEF Emptied
  <2>5. InStep(rxCur)'
    BY <1>3, <1>a, <1>b, <2>2, <2>4 DEF InStep, Stored, Frame
  <2> QED BY <2>2, <2>3, <2>5 DEF TwoSlots
<1>4. CASE rxProg \in Draining \cup Resting /\ InStep(rxCur)
  <2>1. Head(rxProg) \in {"on", "off", "drain"} /\ Tail(rxProg) \in Draining \cup Resting
    BY <1>4, Begun, StepIs
  <2>2. rxProg' \in Draining \cup Resting /\ rxOut' = rxOut /\ rxAt' = rxAt
    BY <2>1, StepIs
  <2>3. CASE Head(rxProg) = "drain" /\ ~rxLastBad
    <3>1. rxSlots' = Given(I) /\ rxCur' = rxAt
      BY <2>3, StepIs
    <3>2. \A i \in I : ~rxSlots'[i].stored
      BY <3>1, GivenIs
    <3>3. TrueSlots'
      BY <1>a, <2>2, <3>2, StillTrue
    <3>4. InStep(rxCur)'
      BY <1>a, <1>b, <2>2, <3>1, <3>2 DEF InStep, Stored, Frame
    <3> QED BY <2>2, <3>3, <3>4 DEF TwoSlots
  <2>4. CASE ~(Head(rxProg) = "drain" /\ ~rxLastBad)
    <3>1. rxSlots' = rxSlots /\ rxCur' = rxCur
      BY <2>1, <2>4, StepIs
    <3>2. TrueSlots'
      BY <1>a, <2>2, <3>1, StillTrue DEF Stored, Frame
    <3>3. InStep(rxCur)'
      BY <1>4, <1>a, <2>2, <3>1 DEF InStep, Stored, Frame
    <3> QED BY <2>2, <3>2, <3>3 DEF TwoSlots
  <2> QED BY <2>3, <2>4
<1>5. CASE rxProg \in Copying /\ InStep(rxCur) /\ Stored(rxCur) /\ rxSlots[rxCur].kind = "sound"
  <2>1. Head(rxProg) = "copy" /\ Tail(rxProg) \in Giving
    BY <1>5, Fetched
  <2>2. /\ rxProg' \in Giving /\ packet' = Frame(rxCur)
        /\ UNCHANGED <<rxOut, rxAt, rxCur, rxSlots>>
    BY <2>1, StepIs DEF Frame
  <2>3. TrueSlots'
    BY <1>a, <2>2, StillTrue DEF Stored, Frame
  <2>4. Sound(Frame(rxCur))
    BY <1>5, <1>b DEF TrueSlots, Sound
  <2>5. Sound(packet)' /\ packet' = Frame(rxCur)' /\ InStep(rxCur)' /\ Stored(rxCur)'
    BY <1>5, <1>a, <2>2, <2>4 DEF Sound, Newer, InStep, Stored, Frame
  <2> QED BY <2>2, <2>3, <2>5 DEF TwoSlots
<1>6. CASE rxProg \in Giving /\ InStep(rxCur) /\ Stored(rxCur) /\ Sound(packet) /\ packet = Frame(rxCur)
  <2>1. Head(rxProg) = "give" /\ Tail(rxProg) \in Moving
    BY <1>6, Fetched
  <2>2. /\ rxProg' \in Moving /\ rxSlots' = Given({rxCur})
        /\ UNCHANGED <<rxOut, rxAt, rxCur, packet>>
    BY <2>1, StepIs
  <2>3. TrueSlots'
    BY <1>a, <2>2, GivenIs, StillTrue
  <2>4. /\ InStep(After(rxCur))'
        /\ \A i \in I : rxSlots'[i].stored => Stored(i) /\ i = After(rxCur)
    BY <1>6, <1>a, <2>2, GivenInStep
  <2>5. Stored(After(rxCur)) => packet < Frame(After(rxCur))
    BY <1>6 DEF InStep
  <2>6. \A i \in I : rxSlots'[i].frame = Frame(i)
    BY <2>2, GivenIs
  <2>7. Copied'
    BY <1>6, <1>a, <2>2, <2>4, <2>5, <2>6 DEF Copied, Sound, Newer, Stored, Frame
  <2> QED BY <2>2, <2>3, <2>4, <2>7 DEF TwoSlots
<1>7. CASE rxProg \in Moving /\ InStep(After(rxCur)) /\ Copied
  <2>1. Head(rxProg) = "next" /\ Tail(rxProg) \in Taking
    BY <1>7, Fetched
  <2>2. /\ rxProg' \in Taking /\ rxCur' = After(rxCur)
        /\ UNCHANGED <<rxOut, rxAt, rxSlots, packet>>
    BY <2>1, StepIs
  <2>3. TrueSlots'
    BY <1>a, <2>2, StillTrue DEF Stored, Frame
  <2>4. InStep(rxCur)' /\ Copied'
    BY <1>7, <1>a, <2>2 DEF InStep, Copied, Sound, Newer, Stored, Frame
  <2> QED BY <2>2, <2>3, <2>4 DEF TwoSlots
<1>8. CASE rxProg \in Taking /\ InStep(rxCur) /\ Copied
  <2>1. \/ Head(rxProg) = "on" /\ Tail(rxProg) \in Taking
        \/ Head(rxProg) = "take" /\ Tail(rxProg) \in Resting
        \/ Head(rxProg) = "again"
    BY <1>8, Fetched
  <2>2. UNCHANGED <<rxAt, rxCur, rxSlots, packet>>
    BY <2>1, StepIs
  <2>3. InStep(rxCur)'
    BY <1>8, <1>a, <2>2 DEF InStep, Stored, Frame
  <2>4. CASE Head(rxProg) = "on" /\ Tail(rxProg) \in Taking
    <3>1. rxProg' \in Taking /\ rxOut' = rxOut
      BY <2>4, StepIs
    <3>2. Copied' /\ TrueSlots'
      BY <1>8, <1>a, <2>2, <3>1, StillTrue DEF Copied, Sound, Newer, Stored, Frame
    <3> QED BY <2>3, <3>1, <3>2 DEF TwoSlots
  <2>5. CASE Head(rxProg) = "take" /\ Tail(rxProg) \in Resting
    <3>1. rxProg' \in Resting /\ rxOut' = Append(rxOut, packet)
      BY <2>5, StepIs
    <3>2. TrueSlots'
      BY <1>8, <1>a, <2>2, <3>1, TakenIs
    <3> QED BY <2>3, <3>1, <3>2 DEF TwoSlots
  <2>6. CASE Head(rxProg) = "again"
    <3>1. rxProg' = PollOf(rxNic, Seen(packet # 0)) /\ rxOut' = rxOut
      BY <2>6, StepIs
    <3>2. Copied' /\ TrueSlots'
      BY <1>8, <1>a, <2>2, <3>1, StillTrue DEF Copied, Sound, Newer, Stored, Frame
    <3>3. \/ rxProg' \in Anew \cup Draining \cup Resting
          \/ rxProg' = <<"take">>
          \/ rxProg' \in Copying /\ Stored(rxCur) /\ rxSlots[rxCur].kind = "sound"
          \/ rxProg' \in CopyingBad \cup GivingBad /\ Stored(rxCur)
      BY <3>1, PollFits
    <3>4. <<"take">> \in Taking
      BY DEF Taking
    <3>5. Stored(rxCur)' = Stored(rxCur) /\ rxSlots'[rxCur'] = rxSlots[rxCur]
      BY <2>2 DEF Stored
    <3> QED BY <2>3, <3>2, <3>3, <3>4, <3>5 DEF TwoSlots
  <2> QED BY <2>1, <2>4, <2>5, <2>6
<1>9. CASE rxProg \in CopyingBad \cup GivingBad /\ InStep(rxCur) /\ Stored(rxCur)
  <2>1. CASE rxProg \in CopyingBad
    <3>1. Head(rxProg) = "copy" /\ Tail(rxProg) \in GivingBad
      BY <2>1, Fetched
    <3>2. rxProg' \in GivingBad /\ UNCHANGED <<rxOut, rxAt, rxCur, rxSlots>>
      BY <3>1, StepIs
    <3>3. TrueSlots' /\ InStep(rxCur)' /\ Stored(rxCur)'
      BY <1>9, <1>a, <3>2, StillTrue DEF InStep, Stored, Frame
    <3> QED BY <3>2, <3>3 DEF TwoSlots
  <2>2. CASE rxProg \in GivingBad
    <3>1. Head(rxProg) = "give" /\ Tail(rxProg) \in MovingBad
      BY <2>2, Fetched
    <3>2. /\ rxProg' \in MovingBad /\ rxSlots' = Given({rxCur})
          /\ UNCHANGED <<rxOut, rxAt, rxCur>>
      BY <3>1, StepIs
    <3>3. TrueSlots'
      BY <1>a, <3>2, GivenIs, StillTrue
    <3>4. InStep(After(rxCur))'
      BY <1>9, <1>a, <3>2, GivenInStep
    <3> QED BY <3>2, <3>3, <3>4 DEF TwoSlots
  <2> QED BY <1>9, <2>1, <2>2
<1>10. CASE rxProg \in MovingBad /\ InStep(After(rxCur))
  <2>1. Head(rxProg) = "next" /\ Tail(rxProg) \in Resting
    BY <1>10, Fetched
  <2>2. /\ rxProg' \in Resting /\ rxCur' = After(rxCur)
        /\ UNCHANGED <<rxOut, rxAt, rxSlots>>
    BY <2>1, StepIs
  <2>3. TrueSlots' /\ InStep(rxCur)'
    BY <1>10, <1>a, <2>2, StillTrue DEF InStep, Stored, Frame
  <2> QED BY <2>2, <2>3 DEF TwoSlots
<1> QED BY <1>1, <1>2, <1>3, <1>4, <1>5, <1>6, <1>7, <1>8, <1>9, <1>10 DEF TwoSlots

\* A step of eepro100.c, which copies from a slot that it has given back.
LEMMA SpeedoStep ==
  ASSUME RxTypes, TrueSlots, Speedo, rxNic = "eepro100", RxStep
  PROVE  TrueSlots' /\ Speedo'
<1>a. /\ UNCHANGED <<rxNic, rxArrived, rxSpoilt>> /\ SlotCount' = SlotCount
      /\ 0 .. SlotCount - 1 = {0} /\ rxCur = 0 /\ rxProg # <<>>
  <2>1. UNCHANGED <<rxNic, rxArrived, rxSpoilt>> /\ rxProg # <<>>
    BY StepIs
  <2> QED BY <2>1, Slots DEF SlotCount, OneSlot, RxTypes
<1>1. CASE rxProg \in Anew \cup Emptying \cup Pointing \cup Resting
  <2>1. /\ Head(rxProg) \in {"off", "rings", "point", "on"}
        /\ Tail(rxProg) \in Emptying \cup Pointing \cup Resting
    BY <1>1, <1>a, Begun
  <2>2. rxProg' = Tail(rxProg) /\ rxOut' = rxOut /\ rxSlots' \in {rxSlots, Given({0})}
    BY <1>a, <2>1, StepIs
  <2>3. TrueSlots'
    BY <1>a, <2>2, GivenIs, StillTrue DEF Stored, Frame
  <2> QED BY <2>1, <2>2, <2>3 DEF Speedo
<1>2. CASE rxProg \in Lending /\ Stored(0)
  <2>1. Head(rxProg) = "give" /\ Tail(rxProg) \in Lent
    BY <1>2, Lends
  <2>2. rxProg' \in Lent /\ rxOut' = rxOut /\ rxSlots' = Given({0})
    BY <1>a, <2>1, StepIs
  <2>3. ~rxSlots'[0].stored /\ rxSlots'[0].frame = Frame(0)
    BY <1>a, <2>2, GivenIs
  <2>4. TrueSlots'
    BY <1>a, <2>2, <2>3, StillTrue
  <2>5. Sound(Frame(0))
    BY <1>2, <1>a DEF TrueSlots, Sound, NeverDamaged, LooksAtNoError
  <2>6. Sound(Frame(0))' /\ ~Stored(0)'
    BY <1>a, <2>2, <2>3, <2>5 DEF Sound, Newer, Frame, Stored
  <2> QED BY <2>2, <2>4, <2>6 DEF Speedo
<1>3. CASE rxProg \in Lent /\ ~Stored(0) /\ Sound(Frame(0))
  <2>1. \/ Head(rxProg) \in {"on", "off"} /\ Tail(rxProg) \in Lent
        \/ Head(rxProg) = "copy" /\ Tail(rxProg) = <<"take">>
    BY <1>3, Lends
  <2>2. /\ UNCHANGED <<rxSlots, rxOut>> /\ rxProg' = Tail(rxProg)
        /\ Head(rxProg) = "copy" => packet' = Frame(0)
    BY <1>a, <2>1, StepIs DEF Frame
  <2>3. TrueSlots'
    BY <1>a, <2>2, StillTrue DEF Stored, Frame
  <2>4. ~Stored(0)' /\ Sound(Frame(0))' /\ (Head(rxProg) = "copy" => Copied')
    BY <1>3, <1>a, <2>2 DEF Sound, Newer, Frame, Stored, Copied
  <2> QED BY <2>1, <2>2, <2>3, <2>4 DEF Speedo
<1>4. CASE rxProg = <<"take">> /\ Copied
  <2>1. Head(rxProg) = "take" /\ Tail(rxProg) = <<>>
    BY <1>4, Lends
  <2>2. rxProg' = <<>> /\ rxSlots' = rxSlots /\ rxOut' = Append(rxOut, packet)
    BY <2>1, StepIs
  <2>3. TrueSlots'
    BY <1>4, <1>a, <2>2, TakenIs
  <2> QED BY <2>2, <2>3 DEF Speedo, Resting
<1> QED BY <1>1, <1>2, <1>3, <1>4 DEF Speedo

\* The steps of ni5010.c.
LEMMA Ni5010Programs ==
  /\ Head(<<"off">>) = "off" /\ Tail(<<"off">>) = <<>>
  /\ Head(<<"off", "rings", "on">>) = "off" /\ Tail(<<"off", "rings", "on">>) = <<"rings", "on">>
  /\ Head(<<"off", "rings", "point", "on">>) = "off"
  /\ Tail(<<"off", "rings", "point", "on">>) = <<"rings", "point", "on">>
  /\ Head(<<"give">>) = "give" /\ Tail(<<"give">>) = <<>>
  /\ Head(<<"rings", "on">>) = "rings" /\ Tail(<<"rings", "on">>) = <<"on">>
  /\ Head(<<"rings", "point", "on">>) = "rings" /\ Tail(<<"rings", "point", "on">>) = <<"point", "on">>
  /\ Head(<<"point", "on">>) = "point" /\ Tail(<<"point", "on">>) = <<"on">>
  /\ Head(<<"on">>) = "on" /\ Tail(<<"on">>) = <<>>
  /\ Head(<<"give", "off", "copy", "take">>) = "give"
  /\ Tail(<<"give", "off", "copy", "take">>) = <<"off", "copy", "take">>
  /\ Head(<<"off", "copy", "take">>) = "off" /\ Tail(<<"off", "copy", "take">>) = <<"copy", "take">>
  /\ Head(<<"copy", "take">>) = "copy" /\ Tail(<<"copy", "take">>) = <<"take">>
OBVIOUS

\* A step of ni5010.c, whose receiver is stopped while a frame is stored.
LEMMA Ni5010Step ==
  ASSUME RxTypes, TrueSlots, Ni5010, rxNic = "ni5010", RxStep
  PROVE  TrueSlots' /\ Ni5010'
<1>a. /\ UNCHANGED <<rxNic, rxArrived, rxSpoilt>> /\ SlotCount' = SlotCount
      /\ 0 .. SlotCount - 1 = {0} /\ rxCur = 0 /\ rxProg # <<>>
  <2>1. UNCHANGED <<rxNic, rxArrived, rxSpoilt>> /\ rxProg # <<>>
    BY StepIs
  <2> QED BY <2>1, Slots DEF SlotCount, OneSlot, RxTypes
<1>b. Stored(0) => ~rxOn
  BY DEF Ni5010
<1>1. CASE rxProg \in {<<"off">>, <<"off", "rings", "on">>, <<"off", "rings", "point", "on">>}
  <2>1. /\ Head(rxProg) = "off"
        /\ Tail(rxProg) \in {<<>>, <<"rings", "on">>, <<"rings", "point", "on">>}
    BY <1>1, Ni5010Programs
  <2>2. rxProg' = Tail(rxProg) /\ rxOut' = rxOut /\ rxSlots' = rxSlots /\ ~rxOn'
    BY <2>1, StepIs
  <2>3. TrueSlots'
    BY <1>a, <2>2, StillTrue DEF Stored, Frame
  <2> QED BY <2>1, <2>2, <2>3 DEF Ni5010
<1>2. CASE rxProg = <<"give">>
  <2>1. rxProg' = <<>> /\ rxOut' = rxOut /\ rxSlots' = Given({0})
    BY <1>2, <1>a, Ni5010Programs, StepIs
  <2>2. ~rxSlots'[0].stored
    BY <1>a, <2>1, GivenIs
  <2>3. TrueSlots'
    BY <1>a, <2>1, <2>2, StillTrue
  <2> QED BY <2>1, <2>2, <2>3 DEF Ni5010, Stored
<1>3. CASE rxProg \in {<<"rings", "on">>, <<"rings", "point", "on">>} /\ ~rxOn
  <2>1. Head(rxProg) = "rings" /\ Tail(rxProg) \in {<<"on">>, <<"point", "on">>}
    BY <1>3, Ni5010Programs
  <2>2. /\ rxProg' \in {<<"on">>, <<"point", "on">>} /\ rxOut' = rxOut
        /\ rxSlots' = Given({0}) /\ ~rxOn'
    BY <1>3, <1>a, <2>1, StepIs
  <2>3. ~rxSlots'[0].stored
    BY <1>a, <2>2, GivenIs
  <2>4. TrueSlots'
    BY <1>a, <2>2, <2>3, StillTrue
  <2> QED BY <2>2, <2>3, <2>4 DEF Ni5010, Stored
<1>4. CASE rxProg \in {<<"point", "on">>, <<"on">>} /\ ~rxOn /\ ~Stored(0)
  <2>1. \/ Head(rxProg) = "point" /\ Tail(rxProg) = <<"on">>
        \/ Head(rxProg) = "on" /\ Tail(rxProg) = <<>>
    BY <1>4, Ni5010Programs
  <2>2. /\ rxProg' = Tail(rxProg) /\ rxOut' = rxOut /\ rxSlots' = rxSlots
        /\ Head(rxProg) = "point" => ~rxOn'
    BY <1>4, <2>1, StepIs
  <2>3. TrueSlots'
    BY <1>a, <2>2, StillTrue DEF Stored, Frame
  <2>4. ~Stored(0)'
    BY <1>4, <2>2 DEF Stored
  <2> QED BY <2>1, <2>2, <2>3, <2>4 DEF Ni5010
<1>5. CASE rxProg = <<"give", "off", "copy", "take">> /\ Stored(0) /\ rxSlots[0].kind = "sound"
  <2>1. /\ rxProg' = <<"off", "copy", "take">> /\ rxOut' = rxOut /\ rxSlots' = Given({0})
        /\ rxOn' = rxOn
    <3>1. Head(rxProg) = "give" /\ Tail(rxProg) = <<"off", "copy", "take">>
      BY <1>5, Ni5010Programs
    <3> QED BY <1>a, <3>1, StepIs DEF RxTypes
  <2>2. ~rxSlots'[0].stored /\ rxSlots'[0].frame = Frame(0)
    BY <1>a, <2>1, GivenIs
  <2>3. TrueSlots'
    BY <1>a, <2>1, <2>2, StillTrue
  <2>4. Sound(Frame(0))
    BY <1>5, <1>a DEF TrueSlots, Sound
  <2>5. Sound(Frame(0))' /\ ~Stored(0)' /\ ~rxOn'
    BY <1>5, <1>a, <1>b, <2>1, <2>2, <2>4 DEF Sound, Newer, Frame, Stored
  <2> QED BY <2>1, <2>3, <2>5 DEF Ni5010
<1>6. CASE /\ rxProg \in {<<"off", "copy", "take">>, <<"copy", "take">>}
           /\ ~rxOn /\ ~Stored(0) /\ Sound(Frame(0))
  <2>1. \/ Head(rxProg) = "off" /\ Tail(rxProg) = <<"copy", "take">>
        \/ Head(rxProg) = "copy" /\ Tail(rxProg) = <<"take">>
    BY <1>6, Ni5010Programs
  <2>2. /\ UNCHANGED <<rxSlots, rxOut>> /\ rxProg' = Tail(rxProg) /\ ~rxOn'
        /\ Head(rxProg) = "copy" => packet' = Frame(0)
    BY <1>6, <1>a, <2>1, StepIs DEF Frame
  <2>3. TrueSlots'
    BY <1>a, <2>2, StillTrue DEF Stored, Frame
  <2>4. ~Stored(0)' /\ Sound(Frame(0))' /\ (Head(rxProg) = "copy" => Copied')
    BY <1>6, <1>a, <2>2 DEF Sound, Newer, Frame, Stored, Copied
  <2> QED BY <2>1, <2>2, <2>3, <2>4 DEF Ni5010
<1>7. CASE rxProg = <<"take">> /\ Copied
  <2>1. Head(rxProg) = "take" /\ Tail(rxProg) = <<>>
    BY <1>7, Lends
  <2>2. rxProg' = <<>> /\ rxSlots' = rxSlots /\ rxOut' = Append(rxOut, packet) /\ rxOn' = rxOn
    BY <2>1, StepIs DEF RxTypes
  <2>3. TrueSlots'
    BY <1>7, <1>a, <2>2, TakenIs
  <2>4. Stored(0)' = Stored(0)
    BY <2>2 DEF Stored
  <2> QED BY <1>b, <2>2, <2>3, <2>4 DEF Ni5010
<1> QED BY <1>a, <1>1, <1>2, <1>3, <1>4, <1>5, <1>6, <1>7 DEF Ni5010

---------------------------------------------------------------------------
(* The invariant holds, and it implies Link. *)

\* A frame is stored after eth_disable only for a driver that stops no receiver.
LEMMA StraysExcused ==
  ASSUME WhileClosed, Stray PROVE rxExcused'
<1>1. /\ rxClosed /\ rxOn /\ rxProg = <<>>
      /\ rxExcused' = (rxExcused \/ rxNic \in NeverDisabled)
  BY DEF Stray
<1>2. rxNic \in NeverDisabled
  BY <1>1 DEF WhileClosed
<1> QED BY <1>1, <1>2

\* Every step keeps the invariant.
LEMMA RxInvKept == RxInv /\ [RxNext]_rxVars => RxInv'
<1> SUFFICES ASSUME RxInv, [RxNext]_rxVars PROVE RxInv'
  OBVIOUS
<1>1. RxTypes' /\ WhileClosed'
  BY RxTypesKept, ClosedKept DEF RxInv
<1>2. ASSUME ~rxExcused' PROVE InOrder'
  <2>1. ~rxExcused
    <3>1. ASSUME rxExcused, NEW kind \in Kinds, Arrive(kind) PROVE rxExcused'
      BY <3>1 DEF Arrive
    <3>2. ASSUME rxExcused, Stray \/ eth_poll \/ Transmitted \/ eth_disable PROVE rxExcused'
      BY <3>2 DEF Stray, eth_poll, Transmitted, eth_disable, rxHistory
    <3>3. ASSUME rxExcused, RxStep \/ UNCHANGED rxVars PROVE rxExcused'
      BY <3>3, StepIs DEF rxVars
    <3> QED BY <1>2, <3>1, <3>2, <3>3 DEF RxNext
  <2>2. RxTypes /\ WhileClosed /\ InOrder
    BY <2>1 DEF RxInv
  <2>3. ASSUME NEW kind \in Kinds, Arrive(kind) PROVE InOrder'
    BY <1>2, <2>2, <2>3, ArrivalKeeps
  <2>4. CASE Stray
    BY <1>2, <2>2, <2>4, StraysExcused
  <2>5. CASE eth_poll
    BY <2>2, <2>5, PollKeeps
  <2>6. CASE Transmitted
    BY <1>2, <2>2, <2>6, SendKeeps
  <2>7. CASE eth_disable
    BY <2>2, <2>7, DisableKeeps
  <2>8. CASE RxStep
    <3>1. rxNic' = rxNic
      BY <2>8, StepIs
    <3>2. rxNic \notin OneSlot \/ rxNic = "eepro100" \/ rxNic = "ni5010"
      BY DEF OneSlot
    <3>3. CASE rxNic \notin OneSlot
      BY <2>2, <2>8, <3>1, <3>3, TwoSlotsStep DEF InOrder, OneSlot
    <3>4. CASE rxNic = "eepro100"
      BY <2>2, <2>8, <3>1, <3>4, SpeedoStep DEF InOrder, OneSlot
    <3>5. CASE rxNic = "ni5010"
      BY <2>2, <2>8, <3>1, <3>5, Ni5010Step DEF InOrder, OneSlot
    <3> QED BY <3>2, <3>3, <3>4, <3>5
  <2>9. CASE UNCHANGED rxVars
    BY <2>2, <2>9 DEF rxVars, InOrder, TrueSlots, TwoSlots, Speedo, Ni5010, InStep, Unstored,
       Emptied, Copied, Stored, Frame, Sound, Newer, After, SlotCount
  <2> QED BY <2>3, <2>4, <2>5, <2>6, <2>7, <2>8, <2>9 DEF RxNext
<1> QED BY <1>1, <1>2 DEF RxInv

\* RxInv holds always, for all drivers and any number of frames.
LEMMA ReceivesInOrder == RxSpec => []RxInv
BY RxInitInv, RxInvKept, PTL DEF RxSpec

\* What poll returns as nic->packet is a frame that came undamaged and after all
\* that were delivered before it.
LEMMA TakesSound ==
  ASSUME RxInv, RxStep
  PROVE  /\ rxExcused' = rxExcused
         /\ \/ UNCHANGED <<rxArrived, rxSpoilt, rxOut>>
            \/ Rx!Leave
<1>1. UNCHANGED <<rxNic, rxArrived, rxSpoilt, rxExcused>>
  BY StepIs
<1>2. CASE Head(rxProg) # "take"
  BY <1>1, <1>2, StepIs
<1>3. CASE Head(rxProg) = "take"
  <2>1. rxOut' = Append(rxOut, packet) /\ packet \in 0 .. rxArrived /\ rxProg # <<>>
    BY <1>3, StepIs DEF RxInv, RxTypes
  <2>2. ASSUME ~rxExcused PROVE Sound(packet)
    <3>1. InOrder /\ RxTypes
      BY <2>2 DEF RxInv
    <3>2. CASE rxNic \notin OneSlot
      <4>1. TwoSlots
        BY <3>1, <3>2 DEF InOrder
      <4>2. \A p \in (Anew \cup Emptying \cup Pointing \cup Draining \cup Resting) \ {<<>>} : Head(p) # "take"
        BY Begun
      <4>3. \A p \in Copying \cup Giving \cup Moving \cup CopyingBad \cup GivingBad \cup MovingBad :
              Head(p) # "take"
        BY Fetched
      <4> QED BY <1>3, <2>1, <4>1, <4>2, <4>3 DEF TwoSlots, Copied
    <3>3. CASE rxNic = "eepro100"
      <4>1. Speedo
        BY <3>1, <3>3 DEF InOrder
      <4>2. \A p \in (Anew \cup Emptying \cup Pointing \cup Resting) \ {<<>>} : Head(p) # "take"
        BY Begun
      <4>3. \A p \in Lending \cup Lent : Head(p) # "take"
        BY Lends
      <4> QED BY <1>3, <2>1, <4>1, <4>2, <4>3 DEF Speedo, Copied
    <3>4. CASE rxNic = "ni5010"
      <4>1. Ni5010
        BY <3>1, <3>4 DEF InOrder
      <4> QED BY <1>3, <2>1, <4>1, Ni5010Programs DEF Ni5010, Copied
    <3> QED BY <3>2, <3>3, <3>4 DEF OneSlot
  <2>3. rxExcused' \/ (packet \in 1 .. rxArrived \ rxSpoilt /\ \A i \in DOMAIN rxOut : rxOut[i] < packet)
    BY <1>1, <2>2 DEF Sound, Newer
  <2>4. Rx!Leave
    BY <1>1, <2>1, <2>3 DEF Rx!Leave
  <2> QED BY <1>1, <2>4
<1> QED BY <1>2, <1>3

\* ImplementsLink, the receiving half: what the poll routine of any driver of
\* netboot delivers are frames that came, whole and undamaged, each at most once
\* and in the order in which they came, whatever the card stores between any two
\* steps of eth_poll, eth_transmit and eth_disable, up to what the driver does
\* not promise.
THEOREM ReceiverImplementsLink == RxSpec => Rx!LinkSpec
<1>1. RxInit => Rx!LinkInit
  BY DEF RxInit, Rx!LinkInit
<1>2. RxInv /\ [RxNext]_rxVars => [Rx!LinkNext]_(Rx!linkVars)
  <2> SUFFICES ASSUME RxInv, [RxNext]_rxVars PROVE Rx!LinkNext
    BY DEF Rx!LinkNext
  <2> USE DEF Rx!LinkNext
  <2>1. ASSUME NEW kind \in Kinds, Arrive(kind) PROVE Rx!LinkNext
    BY <2>1 DEF Arrive, Rx!Enter
  <2>2. CASE Stray
    <3>1. rxOut' = Append(rxOut, 0) /\ 0 \in 0 .. rxArrived /\ UNCHANGED <<rxArrived, rxSpoilt>>
      BY <2>2 DEF Stray, RxInv, RxTypes
    <3>2. rxExcused'
      BY <2>2, StraysExcused DEF RxInv
    <3> QED BY <3>1, <3>2 DEF Rx!Leave
  <2>3. CASE eth_poll \/ Transmitted \/ eth_disable
    <3>1. CASE eth_poll
      BY <3>1, Zenon DEF eth_poll, rxHistory
    <3>2. CASE Transmitted
      <4>1. /\ rxExcused' = (rxExcused \/ (rxNic = "smc9000" /\ rxProg' # <<>>))
            /\ UNCHANGED <<rxArrived, rxSpoilt, rxOut>>
        BY <3>2, Zenon DEF Transmitted
      <4> QED BY <4>1
    <3>3. CASE eth_disable
      BY <3>3 DEF eth_disable, rxHistory
    <3> QED BY <2>3, <3>1, <3>2, <3>3
  <2>4. CASE RxStep
    BY <2>4, TakesSound
  <2>5. CASE UNCHANGED rxVars
    BY <2>5 DEF rxVars
  <2> QED BY <2>1, <2>2, <2>3, <2>4, <2>5 DEF RxNext
<1> QED BY <1>1, <1>2, ReceivesInOrder, PTL DEF RxSpec, Rx!LinkSpec

(***************************************************************************)
(* Sending: a card and any of the drivers implement Link                   *)
(* in that direction too, for any number of frames and of attempts.        *)
(* Everything rests on TxInv: what is left of the driver's program (Fits), *)
(* and, as long as the driver is not excused, Faithful:                    *)
(*   - the frame of this call is newer than all that went out, and is in   *)
(*     the buffer as far as the program has written it (Written);          *)
(*   - a descriptor that is the card's has a buffer whose head and body    *)
(*     are of one frame that has not gone out, but for the one that is     *)
(*     being written (TrueBuffers), and so does the one the card reads,    *)
(*     which has read of that frame only (TrueSending);                    *)
(*   - with one buffer (OneBuffer), one descriptor at most is the card's,  *)
(*     and none that it could begin with while the buffer is written;      *)
(*   - with two (Ring), the older frame is where the card goes on, and the *)
(*     next to be written is free or follows it.                           *)
(* TrueSending is what the refinement needs; the rest is what keeps it.    *)
(***************************************************************************)

---------------------------------------------------------------------------
(* The invariant. *)

\* Two descriptors with a buffer each; a FIFO behind two descriptors.
TwoBuffers == {"via-rhine", "epic100", "depca", "sk_g16", "3c509", "3c595"}
Fifo == {"3c509", "3c595"}
\* Two descriptors for one buffer.
Shared == {"davicom", "rtl8139", "w89c840"}
\* The steps of the drivers' programs, and the descriptor after another.
SendSteps == {"head", "body", "own", "next", "stop", "start", "load", "wait", "sign", "room",
          "fetched", "sent", "glance", "disown", "free", "chip", "recover", "gone"}
Follow(slot) == (slot + 1) % TxCount

\* Where everything is.
TxTypes ==
  /\ txNic \in Senders
  /\ txOwn \in [0 .. TxCount - 1 -> BOOLEAN]
  /\ txBuf \in [{Buffer(slot) : slot \in 0 .. TxCount - 1} ->
                  [head : 0 .. txAsked, body : 0 .. txAsked]]
  /\ txAt \in 0 .. TxCount - 1 /\ txCur \in 0 .. TxCount - 1 /\ txEntry \in 0 .. TxCount - 1
  /\ txOn \in BOOLEAN /\ txFailed \in BOOLEAN /\ txLate \in BOOLEAN /\ txExcused \in BOOLEAN
  /\ txSending = Idle \/ txSending \in [slot : 0 .. TxCount - 1, head : 0 .. txAsked, body : {Unread} \cup 0 .. txAsked]
  /\ txAgain \in Nat /\ txAsked \in Nat /\ txOut \in Seq(0 .. txAsked)

\* A step is still to come in a program, and in that of this call.
Holds(p, step) == \E i \in DOMAIN p : p[i] = step
Has(step) == Holds(txProg, step)

\* What may be left of a driver's program: which driver takes which step, what
\* no longer comes after a step, and what still does.
Writes == {"head", "body"}
Fits(d, p) ==
  /\ p \in Seq(SendSteps)
  /\ \A i \in DOMAIN p :
       /\ p[i] = "stop" => d \in {"tulip", "natsemi", "sis900", "3c90x", "ni5010"}
       /\ p[i] = "chip" => d \in {"rtl8139", "smc9000", "sk_g16"}
       /\ p[i] = "free" => d = "epic100" /\ p = <<"free", "load">>
       /\ p[i] = "load" /\ d \in TwoBuffers => d = "epic100" /\ p \in {<<"free", "load">>, <<"load">>}
       /\ p[i] = "disown" => d = "depca"
       /\ p[i] \in {"recover", "room"} => d \in Fifo
       /\ p[i] = "gone" => d = "eepro100"
       /\ p[i] = "start" => d \notin Fifo
       /\ p[i] = "glance" => d = "sk_g16"
       /\ p[i] = "wait" => d \notin NeverWaits
       /\ p[i] = "chip" /\ d = "rtl8139" => p = <<"chip", "start">>
  /\ \A i \in DOMAIN p, j \in DOMAIN p : i < j =>
       /\ p[i] \in {"own", "disown"} => p[j] \notin Writes
       /\ p[i] = p[j] => p[i] \notin {"own", "head", "body", "next"}
       /\ p[i] \in {"start", "gone", "next", "chip", "wait", "glance", "sign", "fetched", "sent"} =>
            p[j] \notin {"head", "body", "own"}
       /\ p[i] = "gone" => p[j] \notin {"wait", "sent"}
       /\ p[i] \in Writes => p[j] # "room"
  /\ \A i \in DOMAIN p :
       /\ p[i] \in {"head", "body", "disown", "recover"} => \E j \in DOMAIN p : i < j /\ p[j] = "own"
       /\ p[i] = "own" /\ d \in TwoBuffers => \E j \in DOMAIN p : i < j /\ p[j] = "next"
       /\ p[i] = "glance" => \E j \in DOMAIN p : i < j /\ p[j] = "next"
       /\ p[i] = "own" /\ d \notin TwoBuffers \cup NeverWaits =>
            \E j \in DOMAIN p : i < j /\ p[j] \in {"wait", "sent"}

\* All that went out is older than f; the buffer is being written; a buffer is of
\* one frame that has not gone out, and older than the one that is to be written.
Gone(f) == \A i \in DOMAIN txOut : txOut[i] < f
Mid == Has("own") /\ (~Has("head") \/ ~Has("body"))
Whole(b) == txBuf[b].head = txBuf[b].body /\ txBuf[b].head \in 1 .. txAsked /\ Gone(txBuf[b].head)
            /\ (Has("own") => txBuf[b].head < txAsked)

\* The frame of this call is in the buffer as far as it was written.
Written ==
  Has("own") =>
    /\ Gone(txAsked) /\ txAsked > 0
    /\ ~Has("head") => txBuf[Buffer(txEntry)].head = txAsked
    /\ ~Has("body") => txBuf[Buffer(txEntry)].body = txAsked
\* What is the card's is whole, but for the buffer that is being written.
TrueBuffers ==
  \A k \in 0 .. TxCount - 1 :
    txOwn[k] /\ ~(Mid /\ Buffer(k) = Buffer(txEntry)) => Whole(Buffer(k))
\* What the card has read is of the frame that is in the buffer.
TrueSending ==
  txSending # Idle =>
    /\ Whole(Buffer(txSending.slot))
    /\ txSending.head = txBuf[Buffer(txSending.slot)].head
    /\ txSending.body \in {Unread, txSending.head}

\* With one buffer nothing is the card's while it is written, and one descriptor
\* at most at any time; who waits has nothing there when it returns, unless it
\* gave up; and the 3C90x driver, which writes the head again, has its body still.
OneBuffer ==
  /\ Mid => txSending = Idle /\ \A k \in 0 .. TxCount - 1 : ~(txOwn[k] /\ txOn)
  /\ \A k, l \in 0 .. TxCount - 1 : txOwn[k] /\ txOwn[l] => k = l
  /\ txSending # Idle => txOwn[txSending.slot]
  /\ txNic \in Shared => txOn \/ (txProg = <<"start">> /\ \A k \in 0 .. TxCount - 1 : ~txOwn[k])
  /\ txNic = "eepro100" => txOn
  /\ txNic \notin NeverWaits /\ ~txLate =>
       /\ \A k \in 0 .. TxCount - 1 : txOwn[k] => k = txEntry
       /\ Has("own") \/ (~Has("wait") /\ ~Has("sent")) => \A k \in 0 .. TxCount - 1 : ~txOwn[k]
  /\ txNic = "3c90x" /\ txProg # <<>> /\ ~Has("own") =>
       /\ txBuf[0].body = txAsked /\ txAsked > 0
       /\ txOwn[0] \/ txFailed => Gone(txAsked)

\* The next descriptor to be written, as soon as this call has moved on.
Free == IF ~Has("own") /\ Has("next") THEN Follow(txCur) ELSE txCur
\* With two buffers the card goes on at the older frame, or where the next comes,
\* and reads there.
InRing ==
  LET other == Follow(Free)
  IN  /\ txOwn[Free] => txOwn[other] /\ txBuf[Free].head < txBuf[other].head
      /\ txAt = IF txOwn[other] /\ ~txOwn[Free] THEN other ELSE Free
      /\ txSending # Idle => txSending.slot = txAt /\ txOwn[txAt]
\* ... and does so but while epic100 starts anew; what is written is not the
\* card's, but where nothing is asked before.
Ring ==
  /\ IF txProg = <<"load">> THEN txCur = 0 /\ ~txOwn[0] /\ ~txOwn[1] ELSE InRing
  /\ Has("own") => txCur = txEntry
  /\ Mid => ~txOwn[txEntry]
  /\ txNic = "epic100" /\ Has("own") => ~txOwn[txEntry]
  /\ txNic \in Fifo /\ Has("own") /\ ~Has("room") => ~txOwn[txEntry]
  /\ txNic \in NeverWaits => txOn
  /\ txNic \in Fifo /\ txFailed => ~txOn /\ txSending = Idle
  /\ txNic = "sk_g16" /\ Has("glance") => txAgain = 0

\* The invariant.
Faithful ==
  /\ Written /\ TrueBuffers /\ TrueSending
  /\ txNic \notin TwoBuffers => OneBuffer
  /\ txNic \in TwoBuffers => Ring
TxInv == TxTypes /\ Fits(txNic, txProg) /\ (~txExcused => Faithful)

---------------------------------------------------------------------------
(* Descriptors, and what is left of a program. *)

\* The descriptors and buffers of the three kinds of card.
LEMMA Descriptors ==
  ASSUME txNic \in Senders
  PROVE  /\ txNic \in TwoBuffers => /\ 0 .. TxCount - 1 = {0, 1} /\ Follow(0) = 1 /\ Follow(1) = 0
                                    /\ \A k : Buffer(k) = k
         /\ txNic \in Shared => /\ 0 .. TxCount - 1 = {0, 1} /\ Follow(0) = 1 /\ Follow(1) = 0
                                /\ \A k : Buffer(k) = 0
         /\ txNic \notin TwoBuffers \cup Shared => /\ 0 .. TxCount - 1 = {0} /\ Follow(0) = 0
                                                   /\ \A k : Buffer(k) = k
BY DEF Senders, Receivers, TwoBuffers, Shared, TxCount, TwoDescriptors, Follow, Buffer, Fifo

\* A program that is not over has a first step and a rest.
LEMMA Rest ==
  ASSUME NEW d, NEW p, Fits(d, p), p # <<>>
  PROVE  /\ Head(p) \in SendSteps /\ Tail(p) \in Seq(SendSteps)
         /\ Len(Tail(p)) = Len(p) - 1 /\ Len(p) \in Nat /\ Len(p) > 0
         /\ \A i \in 1 .. Len(p) - 1 : Tail(p)[i] = p[i + 1]
         /\ Head(p) = p[1] /\ DOMAIN p = 1 .. Len(p) /\ DOMAIN Tail(p) = 1 .. Len(p) - 1
BY DEF Fits

\* A step is still to come if it is the first or in the rest.
LEMMA HoldsRest ==
  ASSUME NEW d, NEW p, Fits(d, p), p # <<>>
  PROVE  \A s : Holds(p, s) <=> s = Head(p) \/ Holds(Tail(p), s)
<1>1. ASSUME NEW s, Holds(p, s) PROVE s = Head(p) \/ Holds(Tail(p), s)
  <2>1. PICK i \in 1 .. Len(p) : p[i] = s
    BY <1>1, Rest DEF Holds
  <2>2. CASE i = 1
    BY <2>1, <2>2, Rest
  <2>3. CASE i # 1
    <3>1. i - 1 \in 1 .. Len(p) - 1 /\ Tail(p)[i - 1] = s
      BY <2>1, <2>3, Rest
    <3> QED BY <3>1, Rest DEF Holds
  <2> QED BY <2>2, <2>3
<1>2. ASSUME NEW s, s = Head(p) \/ Holds(Tail(p), s) PROVE Holds(p, s)
  <2>1. CASE s = Head(p)
    BY <2>1, Rest DEF Holds
  <2>2. CASE Holds(Tail(p), s)
    <3>1. PICK i \in 1 .. Len(p) - 1 : Tail(p)[i] = s
      BY <2>2, Rest DEF Holds
    <3>2. i + 1 \in 1 .. Len(p) /\ p[i + 1] = s
      BY <3>1, Rest
    <3> QED BY <3>2, Rest DEF Holds
  <2> QED BY <1>2, <2>1, <2>2
<1> QED BY <1>1, <1>2

\* Nothing is to come in a program that is over.
LEMMA NothingHeld == \A s : ~Holds(<<>>, s)
BY DEF Holds

\* What the first step of a program says of the rest.
LEMMA NextStep ==
  ASSUME NEW d, NEW p, Fits(d, p), p # <<>>
  PROVE  LET h == Head(p)
             q == Tail(p)
         IN  /\ h \in {"own", "disown"} => ~Holds(q, "head") /\ ~Holds(q, "body")
             /\ h \in {"own", "head", "body", "next"} => ~Holds(q, h)
             /\ h \in {"start", "gone", "next", "chip", "wait", "glance", "sign", "fetched", "sent"} =>
                  ~Holds(q, "head") /\ ~Holds(q, "body") /\ ~Holds(q, "own")
             /\ h = "gone" => ~Holds(q, "wait") /\ ~Holds(q, "sent")
             /\ h \in Writes => ~Holds(q, "room")
             /\ h \in {"head", "body", "disown", "recover"} => Holds(q, "own")
             /\ h = "own" /\ d \in TwoBuffers => Holds(q, "next")
             /\ h = "glance" => Holds(q, "next")
             /\ h = "own" /\ d \notin TwoBuffers \cup NeverWaits => Holds(q, "wait") \/ Holds(q, "sent")
<1> DEFINE h == Head(p)
           q == Tail(p)
<1>1. \A s : Holds(q, s) => \E j \in 2 .. Len(p) : p[j] = s
  <2> SUFFICES ASSUME NEW s, Holds(q, s) PROVE \E j \in 2 .. Len(p) : p[j] = s
    OBVIOUS
  <2>1. PICK i \in 1 .. Len(p) - 1 : q[i] = s
    BY Rest DEF Holds
  <2>2. i + 1 \in 2 .. Len(p) /\ p[i + 1] = s
    BY <2>1, Rest
  <2> QED BY <2>2
<1>2. \A s : (\E j \in 2 .. Len(p) : p[j] = s) => Holds(q, s)
  <2> SUFFICES ASSUME NEW s, NEW j \in 2 .. Len(p), p[j] = s PROVE Holds(q, s)
    OBVIOUS
  <2>1. j - 1 \in 1 .. Len(p) - 1 /\ q[j - 1] = s
    BY Rest
  <2> QED BY <2>1, Rest DEF Holds
<1>3. h = p[1] /\ DOMAIN p = 1 .. Len(p) /\ Len(p) \in Nat /\ Len(p) > 0
  BY Rest
<1> HIDE DEF h, q
<1>4. \A j \in 2 .. Len(p) :
        /\ h \in {"own", "disown"} => p[j] \notin Writes
        /\ h = p[j] => h \notin {"own", "head", "body", "next"}
        /\ h \in {"start", "gone", "next", "chip", "wait", "glance", "sign", "fetched", "sent"} =>
             p[j] \notin {"head", "body", "own"}
        /\ h = "gone" => p[j] \notin {"wait", "sent"}
        /\ h \in Writes => p[j] # "room"
  BY <1>3 DEF Fits
<1>5. /\ h \in {"head", "body", "disown", "recover"} => \E j \in 2 .. Len(p) : p[j] = "own"
      /\ h = "own" /\ d \in TwoBuffers => \E j \in 2 .. Len(p) : p[j] = "next"
      /\ h = "glance" => \E j \in 2 .. Len(p) : p[j] = "next"
      /\ h = "own" /\ d \notin TwoBuffers \cup NeverWaits =>
           \E j \in 2 .. Len(p) : p[j] \in {"wait", "sent"}
  BY <1>3 DEF Fits
<1>6. /\ h \in {"own", "disown"} => ~Holds(q, "head") /\ ~Holds(q, "body")
      /\ h \in {"own", "head", "body", "next"} => ~Holds(q, h)
      /\ h \in {"start", "gone", "next", "chip", "wait", "glance", "sign", "fetched", "sent"} =>
           ~Holds(q, "head") /\ ~Holds(q, "body") /\ ~Holds(q, "own")
      /\ h = "gone" => ~Holds(q, "wait") /\ ~Holds(q, "sent")
      /\ h \in Writes => ~Holds(q, "room")
  BY <1>1, <1>4 DEF Writes
<1>7. /\ h \in {"head", "body", "disown", "recover"} => Holds(q, "own")
      /\ h = "own" /\ d \in TwoBuffers => Holds(q, "next")
      /\ h = "glance" => Holds(q, "next")
      /\ h = "own" /\ d \notin TwoBuffers \cup NeverWaits => Holds(q, "wait") \/ Holds(q, "sent")
  BY <1>2, <1>5
<1> QED BY <1>6, <1>7 DEF h, q

\* What the first step of a program says of the driver.
LEMMA StepOf ==
  ASSUME NEW d, NEW p, Fits(d, p), p # <<>>
  PROVE  LET h == Head(p)
             q == Tail(p)
         IN  /\ h = "stop" => d \in {"tulip", "natsemi", "sis900", "3c90x", "ni5010"}
             /\ h = "chip" => d \in {"rtl8139", "smc9000", "sk_g16"}
             /\ h = "free" => d = "epic100" /\ q = <<"load">>
             /\ h = "load" /\ d \in TwoBuffers => d = "epic100" /\ p = <<"load">> /\ q = <<>>
             /\ h = "disown" => d = "depca"
             /\ h \in {"recover", "room"} => d \in Fifo
             /\ h = "gone" => d = "eepro100"
             /\ h = "start" => d \notin Fifo
             /\ h = "glance" => d = "sk_g16"
             /\ h = "wait" => d \notin NeverWaits
             /\ d \in TwoBuffers /\ q = <<"load">> => h = "free"
             /\ h = "chip" /\ d = "rtl8139" => q = <<"start">>
<1>1. 1 \in DOMAIN p /\ Head(p) = p[1]
  BY Rest
<1>2. /\ Tail(<<"free", "load">>) = <<"load">> /\ Tail(<<"chip", "start">>) = <<"start">>
      /\ Tail(<<"load">>) = <<>> /\ Head(<<"free", "load">>) # "load"
      /\ <<"load">>[1] = "load" /\ Len(<<"load">>) = 1 /\ <<"free", "load">>[1] = "free"
  OBVIOUS
<1>3. ASSUME d \in TwoBuffers, Tail(p) = <<"load">> PROVE Head(p) = "free"
  <2>1. 2 \in DOMAIN p /\ p[2] = "load" /\ Len(p) = 2
    <3> DEFINE q == Tail(p)
    <3>1. Len(q) = 1 /\ q[1] = "load"
      BY <1>2, <1>3
    <3>2. Len(q) = Len(p) - 1 /\ Len(p) \in Nat /\ DOMAIN p = 1 .. Len(p)
          /\ \A i \in 1 .. Len(p) - 1 : q[i] = p[i + 1]
      BY Rest
    <3> HIDE DEF q
    <3>3. Len(p) = 2
      <4>1. Len(q) = 1 /\ Len(q) = Len(p) - 1 /\ Len(p) \in Nat
        BY <3>1, <3>2
      <4>2. \A n \in Nat : n - 1 = 1 => n = 2
        OBVIOUS
      <4>3. Len(p) - 1 = 1
        BY <4>1, Zenon
      <4> QED BY <4>1, <4>2, <4>3, Zenon
    <3>4. q[1] = p[1 + 1]
      BY <3>2, <3>3
    <3> QED BY <3>1, <3>2, <3>3, <3>4
  <2>2. p \in {<<"free", "load">>, <<"load">>}
    BY <1>3, <2>1 DEF Fits
  <2> QED BY <1>1, <1>2, <2>1, <2>2
<1>4. LET h == p[1]
      IN  /\ h = "stop" => d \in {"tulip", "natsemi", "sis900", "3c90x", "ni5010"}
          /\ h = "chip" => d \in {"rtl8139", "smc9000", "sk_g16"}
          /\ h = "free" => d = "epic100" /\ p = <<"free", "load">>
          /\ h = "load" /\ d \in TwoBuffers => d = "epic100" /\ p \in {<<"free", "load">>, <<"load">>}
          /\ h = "disown" => d = "depca"
          /\ h \in {"recover", "room"} => d \in Fifo
          /\ h = "gone" => d = "eepro100"
          /\ h = "start" => d \notin Fifo
          /\ h = "glance" => d = "sk_g16"
          /\ h = "wait" => d \notin NeverWaits
          /\ h = "chip" /\ d = "rtl8139" => p = <<"chip", "start">>
  BY <1>1 DEF Fits
<1> QED BY <1>1, <1>2, <1>3, <1>4

\* The rest of a program is one that may be left.
LEMMA FitsRest ==
  ASSUME NEW d, NEW p, Fits(d, p), p # <<>>
  PROVE  Fits(d, Tail(p))
<1> DEFINE q == Tail(p)
<1>1. /\ DOMAIN q = 1 .. Len(p) - 1 /\ DOMAIN p = 1 .. Len(p) /\ Len(p) \in Nat /\ q \in Seq(SendSteps)
      /\ \A i \in DOMAIN q : i + 1 \in DOMAIN p /\ q[i] = p[i + 1]
  BY Rest
<1>2. /\ Tail(<<"free", "load">>) = <<"load">> /\ Tail(<<"chip", "start">>) = <<"start">>
      /\ Tail(<<"load">>) = <<>>
  OBVIOUS
<1>3. ASSUME NEW i \in DOMAIN q
      PROVE  /\ q[i] = "stop" => d \in {"tulip", "natsemi", "sis900", "3c90x", "ni5010"}
             /\ q[i] = "chip" => d \in {"rtl8139", "smc9000", "sk_g16"}
             /\ q[i] = "free" => d = "epic100" /\ q = <<"free", "load">>
             /\ q[i] = "load" /\ d \in TwoBuffers => d = "epic100" /\ q \in {<<"free", "load">>, <<"load">>}
             /\ q[i] = "disown" => d = "depca"
             /\ q[i] \in {"recover", "room"} => d \in Fifo
             /\ q[i] = "gone" => d = "eepro100"
             /\ q[i] = "start" => d \notin Fifo
             /\ q[i] = "glance" => d = "sk_g16"
             /\ q[i] = "wait" => d \notin NeverWaits
             /\ q[i] = "chip" /\ d = "rtl8139" => q = <<"chip", "start">>
  <2>1. i + 1 \in DOMAIN p /\ q[i] = p[i + 1] /\ i \in 1 .. Len(q)
    BY <1>1
  <2>2. q[i] # "free"
    <3>1. <<"load">>[1] = "load" /\ DOMAIN <<"load">> = {1}
      OBVIOUS
    <3>2. p = <<"free", "load">> => q[i] # "free"
      BY <1>2, <3>1
    <3> QED BY <2>1, <3>2 DEF Fits
  <2>3. ~(q[i] = "chip" /\ d = "rtl8139")
    <3>1. <<"start">>[1] = "start" /\ DOMAIN <<"start">> = {1}
      OBVIOUS
    <3>2. p = <<"chip", "start">> => q[i] # "chip"
      BY <1>2, <3>1
    <3> QED BY <2>1, <3>2 DEF Fits
  <2>4. q[i] = "load" /\ d \in TwoBuffers => d = "epic100" /\ q = <<"load">>
    <3>1. q # <<>>
      OBVIOUS
    <3> QED BY <1>2, <2>1, <3>1 DEF Fits
  <2> QED BY <2>1, <2>2, <2>3, <2>4 DEF Fits
<1>4. ASSUME NEW i \in DOMAIN q, NEW j \in DOMAIN q, i < j
      PROVE  /\ q[i] \in {"own", "disown"} => q[j] \notin Writes
             /\ q[i] = q[j] => q[i] \notin {"own", "head", "body", "next"}
             /\ q[i] \in {"start", "gone", "next", "chip", "wait", "glance", "sign", "fetched", "sent"} =>
                  q[j] \notin {"head", "body", "own"}
             /\ q[i] = "gone" => q[j] \notin {"wait", "sent"}
             /\ q[i] \in Writes => q[j] # "room"
  <2>1. /\ i + 1 \in DOMAIN p /\ j + 1 \in DOMAIN p /\ i + 1 < j + 1
        /\ q[i] = p[i + 1] /\ q[j] = p[j + 1]
    BY <1>1, <1>4
  <2> HIDE DEF q
  <2> QED BY <2>1 DEF Fits
<1>5. ASSUME NEW i \in DOMAIN q
      PROVE  /\ q[i] \in {"head", "body", "disown", "recover"} => \E j \in DOMAIN q : i < j /\ q[j] = "own"
             /\ q[i] = "own" /\ d \in TwoBuffers => \E j \in DOMAIN q : i < j /\ q[j] = "next"
             /\ q[i] = "glance" => \E j \in DOMAIN q : i < j /\ q[j] = "next"
             /\ q[i] = "own" /\ d \notin TwoBuffers \cup NeverWaits =>
                  \E j \in DOMAIN q : i < j /\ q[j] \in {"wait", "sent"}
  <2>1. i + 1 \in DOMAIN p /\ q[i] = p[i + 1]
    BY <1>1
  <2>2. \A j \in DOMAIN p : i + 1 < j => j - 1 \in DOMAIN q /\ i < j - 1 /\ q[j - 1] = p[j]
    BY <1>1
  <2> HIDE DEF q
  <2>3. \A j \in DOMAIN p : i + 1 < j => \E k \in DOMAIN q : i < k /\ q[k] = p[j]
    BY <2>2
  <2> QED BY <2>1, <2>3 DEF Fits
<1> HIDE DEF q
<1>6. Fits(d, q)
  BY <1>1, <1>3, <1>4, <1>5 DEF Fits
<1> QED BY <1>6 DEF q

\* The programs of the drivers are such.
LEMMA WholePrograms ==
  ASSUME NEW d \in Senders
  PROVE  /\ d \in {"tulip"} => Fits(d, <<"stop", "head", "body", "own", "load", "start", "wait", "stop">>)
         /\ d \in {"davicom", "rtl8139"} => Fits(d, <<"head", "body", "own", "start", "wait", "next">>)
         /\ d \in {"natsemi", "sis900"} => Fits(d, <<"stop", "load", "head", "body", "own", "start", "wait">>)
         /\ d \in {"fa311"} => Fits(d, <<"head", "body", "own", "next", "start", "wait">>)
         /\ d \in {"w89c840"} => Fits(d, <<"head", "body", "own", "next", "start", "sign", "wait">>)
         /\ d \in {"3c90x"} => Fits(d, <<"body", "stop", "head", "own", "load", "start", "fetched", "wait">>)
         /\ d \in {"otulip"} => Fits(d, <<"body", "head", "own", "load", "start">>)
         /\ d \in {"lance"} => Fits(d, <<"head", "body", "own", "start", "wait">>)
         /\ d \in {"eepro100"} => Fits(d, <<"body", "head", "own", "load", "start", "wait", "gone">>)
         /\ d \in {"ns8390"} => Fits(d, <<"head", "body", "own", "start">>)
         /\ d \in {"smc9000"} => Fits(d, <<"head", "body", "own", "wait">>)
         /\ d \in {"ni5010"} => Fits(d, <<"stop", "head", "body", "own", "start", "sent">>)
         /\ d \in {"via-rhine"} => Fits(d, <<"head", "body", "own", "start", "next">>)
         /\ d \in {"epic100"} => Fits(d, <<"head", "body", "own", "next", "start", "wait">>)
         /\ d \in {"depca"} => Fits(d, <<"head", "body", "disown", "own", "start", "next">>)
         /\ d \in {"sk_g16"} => Fits(d, <<"head", "body", "own", "start", "glance", "next">>)
         /\ d \in {"3c509", "3c595"} => Fits(d, <<"recover", "room", "head", "body", "own", "next">>)
<1>1. ASSUME d \in {"tulip"}
      PROVE  Fits(d, <<"stop", "head", "body", "own", "load", "start", "wait", "stop">>)
  BY <1>1 DEF Fits, SendSteps, TwoBuffers, NeverWaits, Fifo, Writes
<1>2. ASSUME d \in {"davicom", "rtl8139"}
      PROVE  Fits(d, <<"head", "body", "own", "start", "wait", "next">>)
  BY <1>2 DEF Fits, SendSteps, TwoBuffers, NeverWaits, Fifo, Writes
<1>3. ASSUME d \in {"natsemi", "sis900"}
      PROVE  Fits(d, <<"stop", "load", "head", "body", "own", "start", "wait">>)
  BY <1>3 DEF Fits, SendSteps, TwoBuffers, NeverWaits, Fifo, Writes
<1>4. ASSUME d \in {"fa311"}
      PROVE  Fits(d, <<"head", "body", "own", "next", "start", "wait">>)
  BY <1>4 DEF Fits, SendSteps, TwoBuffers, NeverWaits, Fifo, Writes
<1>5. ASSUME d \in {"w89c840"}
      PROVE  Fits(d, <<"head", "body", "own", "next", "start", "sign", "wait">>)
  BY <1>5 DEF Fits, SendSteps, TwoBuffers, NeverWaits, Fifo, Writes
<1>6. ASSUME d \in {"3c90x"}
      PROVE  Fits(d, <<"body", "stop", "head", "own", "load", "start", "fetched", "wait">>)
  BY <1>6 DEF Fits, SendSteps, TwoBuffers, NeverWaits, Fifo, Writes
<1>7. ASSUME d \in {"otulip"}
      PROVE  Fits(d, <<"body", "head", "own", "load", "start">>)
  BY <1>7 DEF Fits, SendSteps, TwoBuffers, NeverWaits, Fifo, Writes
<1>8. ASSUME d \in {"lance"}
      PROVE  Fits(d, <<"head", "body", "own", "start", "wait">>)
  BY <1>8 DEF Fits, SendSteps, TwoBuffers, NeverWaits, Fifo, Writes
<1>9. ASSUME d \in {"eepro100"}
      PROVE  Fits(d, <<"body", "head", "own", "load", "start", "wait", "gone">>)
  BY <1>9 DEF Fits, SendSteps, TwoBuffers, NeverWaits, Fifo, Writes
<1>10. ASSUME d \in {"ns8390"}
      PROVE  Fits(d, <<"head", "body", "own", "start">>)
  BY <1>10 DEF Fits, SendSteps, TwoBuffers, NeverWaits, Fifo, Writes
<1>11. ASSUME d \in {"smc9000"}
      PROVE  Fits(d, <<"head", "body", "own", "wait">>)
  BY <1>11 DEF Fits, SendSteps, TwoBuffers, NeverWaits, Fifo, Writes
<1>12. ASSUME d \in {"ni5010"}
      PROVE  Fits(d, <<"stop", "head", "body", "own", "start", "sent">>)
  BY <1>12 DEF Fits, SendSteps, TwoBuffers, NeverWaits, Fifo, Writes
<1>13. ASSUME d \in {"via-rhine"}
      PROVE  Fits(d, <<"head", "body", "own", "start", "next">>)
  BY <1>13 DEF Fits, SendSteps, TwoBuffers, NeverWaits, Fifo, Writes
<1>14. ASSUME d \in {"epic100"}
      PROVE  Fits(d, <<"head", "body", "own", "next", "start", "wait">>)
  BY <1>14 DEF Fits, SendSteps, TwoBuffers, NeverWaits, Fifo, Writes
<1>15. ASSUME d \in {"depca"}
      PROVE  Fits(d, <<"head", "body", "disown", "own", "start", "next">>)
  BY <1>15 DEF Fits, SendSteps, TwoBuffers, NeverWaits, Fifo, Writes
<1>16. ASSUME d \in {"sk_g16"}
      PROVE  Fits(d, <<"head", "body", "own", "start", "glance", "next">>)
  BY <1>16 DEF Fits, SendSteps, TwoBuffers, NeverWaits, Fifo, Writes
<1>17. ASSUME d \in {"3c509", "3c595"}
      PROVE  Fits(d, <<"recover", "room", "head", "body", "own", "next">>)
  BY <1>17 DEF Fits, SendSteps, TwoBuffers, NeverWaits, Fifo, Writes
<1> QED BY <1>1, <1>2, <1>3, <1>4, <1>5, <1>6, <1>7, <1>8, <1>9, <1>10, <1>11, <1>12, <1>13, <1>14, <1>15, <1>16, <1>17

\* TransmitOf, driver by driver.
\* The program of each driver.
LEMMA TransmitIs ==
  ASSUME NEW d, NEW busy
  PROVE  /\ d = "tulip" => TransmitOf(d, busy) = TulipTransmit
         /\ d = "davicom" => TransmitOf(d, busy) = DavicomTransmit
         /\ d = "natsemi" => TransmitOf(d, busy) = NatsemiTransmit
         /\ d = "sis900" => TransmitOf(d, busy) = SisTransmit
         /\ d = "fa311" => TransmitOf(d, busy) = FaTransmit
         /\ d = "rtl8139" => TransmitOf(d, busy) = RtlTransmit
         /\ d = "w89c840" => TransmitOf(d, busy) = WinbondTransmit
         /\ d = "via-rhine" => TransmitOf(d, busy) = RhineTransmit
         /\ d = "epic100" => TransmitOf(d, busy) = EpicTransmit(busy)
         /\ d = "3c90x" => TransmitOf(d, busy) = VortexTransmit
         /\ d = "otulip" => TransmitOf(d, busy) = OtulipTransmit
         /\ d = "lance" => TransmitOf(d, busy) = LanceTransmit
         /\ d = "depca" => TransmitOf(d, busy) = DepcaTransmit
         /\ d = "sk_g16" => TransmitOf(d, busy) = SkTransmit
         /\ d = "eepro100" => TransmitOf(d, busy) = SpeedoTransmit
         /\ d = "ns8390" => TransmitOf(d, busy) = NsTransmit
         /\ d = "3c509" => TransmitOf(d, busy) = T509Transmit
         /\ d = "3c595" => TransmitOf(d, busy) = T595Transmit
         /\ d = "smc9000" => TransmitOf(d, busy) = SmcTransmit
         /\ d = "ni5010" => TransmitOf(d, busy) = Ni5010Transmit
BY Zenon DEF TransmitOf

\* A frame is sent by the 3C90x driver as it is sent again, after its body.
LEMMA VortexBegins ==
  <<"body">> \o VortexAttempt = <<"body", "stop", "head", "own", "load", "start", "fetched", "wait">>
<1> DEFINE b == <<"body">>
           p == <<"stop", "head", "own", "load", "start", "fetched", "wait">>
           q == <<"body", "stop", "head", "own", "load", "start", "fetched", "wait">>
<1>1. b \in Seq(SendSteps) /\ p \in Seq(SendSteps) /\ q \in Seq(SendSteps)
      /\ Len(b) = 1 /\ Len(p) = 7 /\ Len(q) = 8
  BY DEF SendSteps
<1>2. b[1] = q[1] /\ \A i \in 1 .. 7 : p[i] = q[i + 1]
  OBVIOUS
<1>3. b \o p = q
  <2> HIDE DEF b, p, q
  <2>1. b \o p \in Seq(SendSteps) /\ Len(b \o p) = 8
        /\ \A i \in 1 .. 8 : (b \o p)[i] = IF i <= 1 THEN b[i] ELSE p[i - 1]
    <3>1. b \o p \in Seq(SendSteps) /\ Len(b \o p) = Len(b) + Len(p)
          /\ \A i \in 1 .. Len(b) + Len(p) : (b \o p)[i] = IF i <= Len(b) THEN b[i] ELSE p[i - Len(b)]
      BY <1>1, ConcatProperties
    <3> QED BY <3>1, <1>1
  <2>2. ASSUME NEW i \in 1 .. 8 PROVE (b \o p)[i] = q[i]
    <3>1. CASE i = 1
      BY <3>1, <2>1, <1>2
    <3>2. CASE i # 1
      <4>1. i - 1 \in 1 .. 7 /\ ~(i <= 1) /\ (i - 1) + 1 = i
        BY <3>2
      <4> QED BY <4>1, <2>1, <1>2
    <3> QED BY <3>1, <3>2
  <2> QED BY <2>1, <2>2, <1>1, SeqEqual
<1> QED BY <1>3 DEF VortexAttempt

\* What eth_transmit begins with: it writes a frame and gives it to the card, or
\* frees what the card holds.
LEMMA SendBegun ==
  ASSUME NEW d \in Senders, NEW busy
  PROVE  LET p == TransmitOf(d, busy).steps
         IN  /\ Fits(d, p)
             /\ d = "epic100" /\ busy => p = <<"free", "load">>
             /\ d # "epic100" \/ ~busy => Holds(p, "own") /\ Holds(p, "head") /\ Holds(p, "body")
             /\ d \in Fifo => Holds(p, "room")
<1> DEFINE Good(p) == /\ Fits(d, p) /\ Holds(p, "own") /\ Holds(p, "head") /\ Holds(p, "body")
                      /\ d \in Fifo => Holds(p, "room")
<1>1. CASE d = "tulip"
  <2> DEFINE p == <<"stop", "head", "body", "own", "load", "start", "wait", "stop">>
  <2>1. DOMAIN p = 1 .. 8 /\ p[4] = "own" /\ p[2] = "head" /\ p[3] = "body"
    OBVIOUS
  <2>2. Fits(d, p)
    BY <1>1, WholePrograms
  <2>3. TransmitOf(d, busy).steps = p
    BY <1>1, TransmitIs DEF Sending, SendingOr, TulipTransmit
  <2> HIDE DEF p
  <2>4. Good(p)
    BY <1>1, <2>1, <2>2 DEF Holds, Fifo
  <2> QED BY <1>1, <2>3, <2>4
<1>2. CASE d \in {"davicom", "rtl8139"}
  <2> DEFINE p == <<"head", "body", "own", "start", "wait", "next">>
  <2>1. DOMAIN p = 1 .. 6 /\ p[3] = "own" /\ p[1] = "head" /\ p[2] = "body"
    OBVIOUS
  <2>2. Fits(d, p)
    BY <1>2, WholePrograms
  <2>3. TransmitOf(d, busy).steps = p
    BY <1>2, TransmitIs DEF Sending, SendingOr, DavicomTransmit, RtlTransmit
  <2> HIDE DEF p
  <2>4. Good(p)
    BY <1>2, <2>1, <2>2 DEF Holds, Fifo
  <2> QED BY <1>2, <2>3, <2>4
<1>3. CASE d \in {"natsemi", "sis900"}
  <2> DEFINE p == <<"stop", "load", "head", "body", "own", "start", "wait">>
  <2>1. DOMAIN p = 1 .. 7 /\ p[5] = "own" /\ p[3] = "head" /\ p[4] = "body"
    OBVIOUS
  <2>2. Fits(d, p)
    BY <1>3, WholePrograms
  <2>3. TransmitOf(d, busy).steps = p
    BY <1>3, TransmitIs DEF Sending, SendingOr, NatsemiTransmit, SisTransmit
  <2> HIDE DEF p
  <2>4. Good(p)
    BY <1>3, <2>1, <2>2 DEF Holds, Fifo
  <2> QED BY <1>3, <2>3, <2>4
<1>4. CASE d = "fa311"
  <2> DEFINE p == <<"head", "body", "own", "next", "start", "wait">>
  <2>1. DOMAIN p = 1 .. 6 /\ p[3] = "own" /\ p[1] = "head" /\ p[2] = "body"
    OBVIOUS
  <2>2. Fits(d, p)
    BY <1>4, WholePrograms
  <2>3. TransmitOf(d, busy).steps = p
    BY <1>4, TransmitIs DEF Sending, SendingOr, FaTransmit
  <2> HIDE DEF p
  <2>4. Good(p)
    BY <1>4, <2>1, <2>2 DEF Holds, Fifo
  <2> QED BY <1>4, <2>3, <2>4
<1>5. CASE d = "w89c840"
  <2> DEFINE p == <<"head", "body", "own", "next", "start", "sign", "wait">>
  <2>1. DOMAIN p = 1 .. 7 /\ p[3] = "own" /\ p[1] = "head" /\ p[2] = "body"
    OBVIOUS
  <2>2. Fits(d, p)
    BY <1>5, WholePrograms
  <2>3. TransmitOf(d, busy).steps = p
    BY <1>5, TransmitIs DEF Sending, SendingOr, WinbondTransmit
  <2> HIDE DEF p
  <2>4. Good(p)
    BY <1>5, <2>1, <2>2 DEF Holds, Fifo
  <2> QED BY <1>5, <2>3, <2>4
<1>6. CASE d = "3c90x"
  <2> DEFINE p == <<"body", "stop", "head", "own", "load", "start", "fetched", "wait">>
  <2>1. DOMAIN p = 1 .. 8 /\ p[4] = "own" /\ p[3] = "head" /\ p[1] = "body"
    OBVIOUS
  <2>2. Fits(d, p)
    BY <1>6, WholePrograms
  <2>3. TransmitOf(d, busy).steps = p
    <3>1. VortexTransmit.steps = <<"body">> \o VortexAttempt
      BY DEF VortexTransmit, SendingOr
    <3> QED BY <1>6, <3>1, TransmitIs, VortexBegins
  <2> HIDE DEF p
  <2>4. Good(p)
    BY <1>6, <2>1, <2>2 DEF Holds, Fifo
  <2> QED BY <1>6, <2>3, <2>4
<1>7. CASE d = "otulip"
  <2> DEFINE p == <<"body", "head", "own", "load", "start">>
  <2>1. DOMAIN p = 1 .. 5 /\ p[3] = "own" /\ p[2] = "head" /\ p[1] = "body"
    OBVIOUS
  <2>2. Fits(d, p)
    BY <1>7, WholePrograms
  <2>3. TransmitOf(d, busy).steps = p
    BY <1>7, TransmitIs DEF Sending, SendingOr, OtulipTransmit
  <2> HIDE DEF p
  <2>4. Good(p)
    BY <1>7, <2>1, <2>2 DEF Holds, Fifo
  <2> QED BY <1>7, <2>3, <2>4
<1>8. CASE d = "lance"
  <2> DEFINE p == <<"head", "body", "own", "start", "wait">>
  <2>1. DOMAIN p = 1 .. 5 /\ p[3] = "own" /\ p[1] = "head" /\ p[2] = "body"
    OBVIOUS
  <2>2. Fits(d, p)
    BY <1>8, WholePrograms
  <2>3. TransmitOf(d, busy).steps = p
    BY <1>8, TransmitIs DEF Sending, SendingOr, LanceTransmit
  <2> HIDE DEF p
  <2>4. Good(p)
    BY <1>8, <2>1, <2>2 DEF Holds, Fifo
  <2> QED BY <1>8, <2>3, <2>4
<1>9. CASE d = "eepro100"
  <2> DEFINE p == <<"body", "head", "own", "load", "start", "wait", "gone">>
  <2>1. DOMAIN p = 1 .. 7 /\ p[3] = "own" /\ p[2] = "head" /\ p[1] = "body"
    OBVIOUS
  <2>2. Fits(d, p)
    BY <1>9, WholePrograms
  <2>3. TransmitOf(d, busy).steps = p
    BY <1>9, TransmitIs DEF Sending, SendingOr, SpeedoTransmit
  <2> HIDE DEF p
  <2>4. Good(p)
    BY <1>9, <2>1, <2>2 DEF Holds, Fifo
  <2> QED BY <1>9, <2>3, <2>4
<1>10. CASE d = "ns8390"
  <2> DEFINE p == <<"head", "body", "own", "start">>
  <2>1. DOMAIN p = 1 .. 4 /\ p[3] = "own" /\ p[1] = "head" /\ p[2] = "body"
    OBVIOUS
  <2>2. Fits(d, p)
    BY <1>10, WholePrograms
  <2>3. TransmitOf(d, busy).steps = p
    BY <1>10, TransmitIs DEF Sending, SendingOr, NsTransmit
  <2> HIDE DEF p
  <2>4. Good(p)
    BY <1>10, <2>1, <2>2 DEF Holds, Fifo
  <2> QED BY <1>10, <2>3, <2>4
<1>11. CASE d = "smc9000"
  <2> DEFINE p == <<"head", "body", "own", "wait">>
  <2>1. DOMAIN p = 1 .. 4 /\ p[3] = "own" /\ p[1] = "head" /\ p[2] = "body"
    OBVIOUS
  <2>2. Fits(d, p)
    BY <1>11, WholePrograms
  <2>3. TransmitOf(d, busy).steps = p
    BY <1>11, TransmitIs DEF Sending, SendingOr, SmcTransmit
  <2> HIDE DEF p
  <2>4. Good(p)
    BY <1>11, <2>1, <2>2 DEF Holds, Fifo
  <2> QED BY <1>11, <2>3, <2>4
<1>12. CASE d = "ni5010"
  <2> DEFINE p == <<"stop", "head", "body", "own", "start", "sent">>
  <2>1. DOMAIN p = 1 .. 6 /\ p[4] = "own" /\ p[2] = "head" /\ p[3] = "body"
    OBVIOUS
  <2>2. Fits(d, p)
    BY <1>12, WholePrograms
  <2>3. TransmitOf(d, busy).steps = p
    BY <1>12, TransmitIs DEF Sending, SendingOr, Ni5010Transmit
  <2> HIDE DEF p
  <2>4. Good(p)
    BY <1>12, <2>1, <2>2 DEF Holds, Fifo
  <2> QED BY <1>12, <2>3, <2>4
<1>13. CASE d = "via-rhine"
  <2> DEFINE p == <<"head", "body", "own", "start", "next">>
  <2>1. DOMAIN p = 1 .. 5 /\ p[3] = "own" /\ p[1] = "head" /\ p[2] = "body"
    OBVIOUS
  <2>2. Fits(d, p)
    BY <1>13, WholePrograms
  <2>3. TransmitOf(d, busy).steps = p
    BY <1>13, TransmitIs DEF Sending, SendingOr, RhineTransmit
  <2> HIDE DEF p
  <2>4. Good(p)
    BY <1>13, <2>1, <2>2 DEF Holds, Fifo
  <2> QED BY <1>13, <2>3, <2>4
<1>14. CASE d = "epic100" /\ ~busy
  <2> DEFINE p == <<"head", "body", "own", "next", "start", "wait">>
  <2>1. DOMAIN p = 1 .. 6 /\ p[3] = "own" /\ p[1] = "head" /\ p[2] = "body"
    OBVIOUS
  <2>2. Fits(d, p)
    BY <1>14, WholePrograms
  <2>3. TransmitOf(d, busy).steps = p
    BY <1>14, TransmitIs DEF Sending, SendingOr, EpicTransmit
  <2> HIDE DEF p
  <2>4. Good(p)
    BY <1>14, <2>1, <2>2 DEF Holds, Fifo
  <2> QED BY <1>14, <2>3, <2>4
<1>15. CASE d = "depca"
  <2> DEFINE p == <<"head", "body", "disown", "own", "start", "next">>
  <2>1. DOMAIN p = 1 .. 6 /\ p[4] = "own" /\ p[1] = "head" /\ p[2] = "body"
    OBVIOUS
  <2>2. Fits(d, p)
    BY <1>15, WholePrograms
  <2>3. TransmitOf(d, busy).steps = p
    BY <1>15, TransmitIs DEF Sending, SendingOr, DepcaTransmit
  <2> HIDE DEF p
  <2>4. Good(p)
    BY <1>15, <2>1, <2>2 DEF Holds, Fifo
  <2> QED BY <1>15, <2>3, <2>4
<1>16. CASE d = "sk_g16"
  <2> DEFINE p == <<"head", "body", "own", "start", "glance", "next">>
  <2>1. DOMAIN p = 1 .. 6 /\ p[3] = "own" /\ p[1] = "head" /\ p[2] = "body"
    OBVIOUS
  <2>2. Fits(d, p)
    BY <1>16, WholePrograms
  <2>3. TransmitOf(d, busy).steps = p
    BY <1>16, TransmitIs DEF Sending, SendingOr, SkTransmit
  <2> HIDE DEF p
  <2>4. Good(p)
    BY <1>16, <2>1, <2>2 DEF Holds, Fifo
  <2> QED BY <1>16, <2>3, <2>4
<1>17. CASE d \in {"3c509", "3c595"}
  <2> DEFINE p == <<"recover", "room", "head", "body", "own", "next">>
  <2>1. DOMAIN p = 1 .. 6 /\ p[5] = "own" /\ p[3] = "head" /\ p[4] = "body" /\ p[2] = "room"
    OBVIOUS
  <2>2. Fits(d, p)
    BY <1>17, WholePrograms
  <2>3. TransmitOf(d, busy).steps = p
    BY <1>17, TransmitIs DEF Sending, SendingOr, T509Transmit, T595Transmit
  <2> HIDE DEF p
  <2>4. Good(p)
    BY <1>17, <2>1, <2>2 DEF Holds, Fifo
  <2> QED BY <1>17, <2>3, <2>4
<1>18. CASE d = "epic100" /\ busy
  <2> DEFINE p == <<"free", "load">>
  <2>1. Fits(d, p)
    BY <1>18 DEF Fits, SendSteps, TwoBuffers, NeverWaits, Fifo, Writes
  <2>2. TransmitOf(d, busy).steps = p
    <3>1. EpicTransmit(busy) = Sending(p)
      BY <1>18, Zenon DEF EpicTransmit
    <3>2. Sending(p).steps = p
      BY DEF Sending
    <3> HIDE DEF p
    <3>3. TransmitOf(d, busy) = EpicTransmit(busy)
      BY <1>18, TransmitIs
    <3> QED BY <3>1, <3>2, <3>3
  <2> HIDE DEF p
  <2> QED BY <1>18, <2>1, <2>2 DEF Fifo, p
<1> QED BY <1>1, <1>2, <1>3, <1>4, <1>5, <1>6, <1>7, <1>8, <1>9, <1>10, <1>11, <1>12, <1>13, <1>14, <1>15, <1>16, <1>17, <1>18 DEF Senders, Receivers

\* What a driver does in place of the rest: a reset, or the frame once more.
\* What is done when a wait has not the answer that was hoped for: a reset, or,
\* by the 3C90x driver, the frame again.
LEMMA Late ==
  ASSUME NEW d \in Senders, NEW busy, TransmitOf(d, busy).onLate
  PROVE  LET p == TransmitOf(d, busy).late
         IN  /\ Fits(d, p)
             /\ d \in {"rtl8139", "smc9000", "sk_g16", "3c90x"}
             /\ d \in {"rtl8139", "smc9000"} =>
                  \A s \in {"own", "head", "body", "wait", "sent"} : ~Holds(p, s)
             /\ d = "sk_g16" => /\ \A s \in {"own", "head", "body", "glance"} : ~Holds(p, s)
                               /\ Holds(p, "next") /\ p # <<"load">>
             /\ d = "3c90x" => Holds(p, "own") /\ Holds(p, "head") /\ ~Holds(p, "body")
             /\ p # <<"start">>
<1>1. d \in {"rtl8139", "smc9000", "sk_g16", "3c90x"}
  <2>1. /\ ~TulipTransmit.onLate /\ ~DavicomTransmit.onLate /\ ~NatsemiTransmit.onLate
        /\ ~SisTransmit.onLate /\ ~FaTransmit.onLate /\ ~WinbondTransmit.onLate
        /\ ~RhineTransmit.onLate /\ ~OtulipTransmit.onLate /\ ~LanceTransmit.onLate
        /\ ~DepcaTransmit.onLate /\ ~SpeedoTransmit.onLate /\ ~NsTransmit.onLate
        /\ ~T509Transmit.onLate /\ ~T595Transmit.onLate /\ ~Ni5010Transmit.onLate
    BY DEF Sending, TulipTransmit, DavicomTransmit, NatsemiTransmit, SisTransmit, FaTransmit,
           WinbondTransmit, RhineTransmit, OtulipTransmit, LanceTransmit, DepcaTransmit,
           SpeedoTransmit, NsTransmit, T509Transmit, T595Transmit, Ni5010Transmit
  <2>2. ~EpicTransmit(busy).onLate
    <3>1. \A steps : ~Sending(steps).onLate
      BY DEF Sending
    <3>2. \E steps : EpicTransmit(busy) = Sending(steps)
      BY Zenon DEF EpicTransmit
    <3> QED BY <3>1, <3>2
  <2>3. d \notin {"tulip", "davicom", "natsemi", "sis900", "fa311", "w89c840", "via-rhine",
                  "epic100", "otulip", "lance", "depca", "eepro100", "ns8390", "3c509",
                  "3c595", "ni5010"}
    BY <2>1, <2>2, TransmitIs
  <2> QED BY <2>3 DEF Senders, Receivers
<1>2. CASE d = "rtl8139"
  <2> DEFINE p == <<"chip", "start">>
  <2>1. TransmitOf(d, busy).late = p
    <3>1. RtlTransmit.late = p
      BY DEF RtlTransmit, SendingOr
    <3> QED BY <1>2, <3>1, TransmitIs
  <2>2. Fits(d, p)
    BY <1>2 DEF Fits, SendSteps, TwoBuffers, NeverWaits, Fifo, Writes
  <2>3. \A s \in {"own", "head", "body", "wait", "sent"} : ~Holds(p, s)
    BY DEF Holds
  <2>4. p # <<"start">>
    OBVIOUS
  <2> HIDE DEF p
  <2> QED BY <1>2, <2>1, <2>2, <2>3, <2>4
<1>3. CASE d = "smc9000"
  <2> DEFINE p == <<"chip">>
  <2>1. TransmitOf(d, busy).late = p
    <3>1. SmcTransmit.late = p
      BY DEF SmcTransmit, SendingOr
    <3> QED BY <1>3, <3>1, TransmitIs
  <2>2. Fits(d, p)
    BY <1>3 DEF Fits, SendSteps, TwoBuffers, NeverWaits, Fifo, Writes
  <2>3. \A s \in {"own", "head", "body", "wait", "sent"} : ~Holds(p, s)
    BY DEF Holds
  <2>4. p # <<"start">>
    OBVIOUS
  <2> HIDE DEF p
  <2> QED BY <1>3, <2>1, <2>2, <2>3, <2>4
<1>4. CASE d = "sk_g16"
  <2> DEFINE p == <<"chip", "start", "next">>
  <2>1. TransmitOf(d, busy).late = p
    <3>1. SkTransmit.late = p
      BY DEF SkTransmit, SendingOr
    <3> QED BY <1>4, <3>1, TransmitIs
  <2>2. Fits(d, p)
    BY <1>4 DEF Fits, SendSteps, TwoBuffers, NeverWaits, Fifo, Writes
  <2>3. \A s \in {"own", "head", "body", "glance"} : ~Holds(p, s)
    BY DEF Holds
  <2>4. Holds(p, "next")
    <3>1. 3 \in DOMAIN p /\ p[3] = "next"
      OBVIOUS
    <3> HIDE DEF p
    <3> QED BY <3>1 DEF Holds
  <2>5. p # <<"start">> /\ p # <<"load">>
    OBVIOUS
  <2> HIDE DEF p
  <2> QED BY <1>4, <2>1, <2>2, <2>3, <2>4, <2>5
<1>5. CASE d = "3c90x"
  <2> DEFINE p == <<"stop", "head", "own", "load", "start", "fetched", "wait">>
  <2>1. TransmitOf(d, busy).late = p
    <3>1. VortexTransmit.late = VortexAttempt
      BY DEF VortexTransmit, SendingOr
    <3> QED BY <1>5, <3>1, TransmitIs DEF VortexAttempt
  <2>2. Fits(d, p)
    BY <1>5 DEF Fits, SendSteps, TwoBuffers, NeverWaits, Fifo, Writes
  <2>3. ~Holds(p, "body")
    BY DEF Holds
  <2>4. Holds(p, "own") /\ Holds(p, "head")
    <3>1. 2 \in DOMAIN p /\ p[2] = "head" /\ 3 \in DOMAIN p /\ p[3] = "own"
      OBVIOUS
    <3> HIDE DEF p
    <3> QED BY <3>1 DEF Holds
  <2>5. p # <<"start">>
    OBVIOUS
  <2> HIDE DEF p
  <2> QED BY <1>5, <2>1, <2>2, <2>3, <2>4, <2>5
<1> QED BY <1>1, <1>2, <1>3, <1>4, <1>5

---------------------------------------------------------------------------
(* The driver's steps. *)

\* The steps that wait for the card, or look at what it has done.
WaitingSteps == {"wait", "glance", "room", "sent", "fetched", "sign"}

\* A step of the driver, by what it waits for.
LEMMA TxStepIs ==
  ASSUME TxStep
  PROVE  LET step == Head(txProg)
         IN  /\ txProg # <<>>
             /\ \/ step = "wait" /\ Done /\ ~txFailed /\ GoesOn
                \/ step = "wait" /\ ~(Done /\ ~txFailed) /\ GivesUpWaiting(~Done)
                \/ step = "glance" /\ ~txFailed /\ GoesOn
                \/ step = "glance" /\ txFailed /\ GivesUpWaiting(FALSE)
                \/ step = "room" /\ ~txOwn[txCur] /\ GoesOn
                \/ step = "sent" /\ Done /\ GoesOn
                \/ step = "fetched" /\ GoesOn
                \/ /\ step = "sign" /\ txProg' = Tail(txProg)
                   /\ UNCHANGED <<txNic, txOwn, txBuf, txCur, txEntry, txOn, txAt, txSending,
                        txFailed, txDead, txAgain, txLate, txAsked, txOut, txExcused>>
                   /\ txSigned' = FALSE
                \/ step \notin WaitingSteps /\ DoStep(step)
<1> DEFINE step == Head(txProg)
<1>1. /\ txProg # <<>>
      /\ step = "wait" => IF Done /\ ~txFailed THEN GoesOn ELSE GivesUpWaiting(~Done)
      /\ step = "glance" => IF txFailed THEN GivesUpWaiting(FALSE) ELSE GoesOn
      /\ step = "room" => ~txOwn[txCur] /\ GoesOn
      /\ step = "sent" => Done /\ GoesOn
      /\ step = "fetched" => GoesOn
      /\ step = "sign" =>
           /\ txProg' = Tail(txProg) /\ txSigned' = FALSE
           /\ UNCHANGED <<txNic, txOwn, txBuf, txCur, txEntry, txOn, txAt, txSending,
                txFailed, txDead, txAgain, txLate, txAsked, txOut, txExcused>>
      /\ step \notin WaitingSteps => DoStep(step)
  BY Zenon DEF TxStep, WaitingSteps
<1> HIDE DEF step
<1>2. step = "wait" => \/ Done /\ ~txFailed /\ GoesOn
                       \/ ~(Done /\ ~txFailed) /\ GivesUpWaiting(~Done)
  BY <1>1, Zenon
<1>3. step = "glance" => \/ ~txFailed /\ GoesOn
                         \/ txFailed /\ GivesUpWaiting(FALSE)
  BY <1>1, Zenon
<1> QED BY <1>1, <1>2, <1>3, Zenon DEF step, WaitingSteps

\* What a step that waits for nothing does.
LEMMA DoStepIs ==
  ASSUME NEW h, DoStep(h), TxTypes
  PROVE  /\ txProg' = Tail(txProg)
         /\ UNCHANGED <<txNic, txEntry, txAgain, txLate, txAsked, txOut>>
         /\ h = "head" => txBuf' = [txBuf EXCEPT ![Buffer(txEntry)].head = txAsked]
         /\ h = "body" => txBuf' = [txBuf EXCEPT ![Buffer(txEntry)].body = txAsked]
         /\ h \notin {"head", "body", "gone"} => txBuf' = txBuf
         /\ h = "own" => txOwn' = [txOwn EXCEPT ![txEntry] = TRUE]
         /\ h = "disown" => txOwn' = [txOwn EXCEPT ![txEntry] = FALSE]
         /\ h \in {"free", "chip"} => txOwn' = [i \in DOMAIN txOwn |-> FALSE]
         /\ h = "recover" => txOwn' = [i \in DOMAIN txOwn |-> txOwn[i] /\ ~txFailed]
         /\ h \notin {"own", "disown", "free", "chip", "recover"} => txOwn' = txOwn
         /\ h = "next" => txCur' = Follow(txCur)
         /\ h \in {"free", "chip"} => txCur' = 0
         /\ h \notin {"next", "free", "chip"} => txCur' = txCur
         /\ h = "load" \/ (h = "recover" /\ txFailed) => txAt' = txCur
         /\ h = "chip" => txAt' = 0
         /\ h \notin {"load", "chip"} /\ ~(h = "recover" /\ txFailed) => txAt' = txAt
         /\ h = "start" \/ (h = "recover" /\ txFailed) => txOn' = TRUE
         /\ h \in {"stop", "chip"} => txOn' = FALSE
         /\ h \notin {"start", "stop", "chip"} /\ ~(h = "recover" /\ txFailed) => txOn' = txOn
         /\ h = "chip" => txSending' = Idle
         /\ h # "chip" => txSending' = txSending
         /\ h \in {"chip", "recover"} => txFailed' = FALSE
         /\ h = "own" => txFailed' = (txFailed /\ txNic \in StopsWhenFailed)
         /\ h \notin {"chip", "recover", "own"} => txFailed' = txFailed
         /\ txExcused' \in BOOLEAN
         /\ ~txExcused' => ~txExcused /\ ~Overwrites /\ ~OutOfStep(h)
<1>1. /\ txProg' = Tail(txProg)
      /\ UNCHANGED <<txNic, txEntry, txAgain, txLate, txAsked, txOut>>
  BY DEF DoStep
<1>2. /\ h = "head" => txBuf' = [txBuf EXCEPT ![Buffer(txEntry)].head = txAsked]
      /\ h = "body" => txBuf' = [txBuf EXCEPT ![Buffer(txEntry)].body = txAsked]
      /\ h \notin {"head", "body", "gone"} => txBuf' = txBuf
  BY Zenon DEF DoStep
<1>3. /\ h = "own" => txOwn' = [txOwn EXCEPT ![txEntry] = h = "own"]
      /\ h = "disown" => txOwn' = [txOwn EXCEPT ![txEntry] = h = "own"]
      /\ h \in {"free", "chip"} => txOwn' = [i \in DOMAIN txOwn |-> FALSE]
      /\ h = "recover" => txOwn' = [i \in DOMAIN txOwn |-> txOwn[i] /\ ~txFailed]
      /\ h \notin {"own", "disown", "free", "chip", "recover"} => txOwn' = txOwn
  BY Zenon DEF DoStep
<1>4. /\ h = "next" => txCur' = Follow(txCur)
      /\ h \in {"free", "chip"} => txCur' = 0
      /\ h \notin {"next", "free", "chip"} => txCur' = txCur
  BY Zenon DEF DoStep, Follow
<1>5. /\ h = "load" \/ (h = "recover" /\ txFailed) => txAt' = txCur
      /\ h = "chip" => txAt' = 0
      /\ h \notin {"load", "chip"} /\ ~(h = "recover" /\ txFailed) => txAt' = txAt
  BY Zenon DEF DoStep
<1>6. /\ txOn' = (h = "start" \/ (h = "recover" /\ txFailed) \/ (txOn /\ h \notin {"stop", "chip"}))
      /\ txSending' = IF h = "chip" THEN Idle ELSE txSending
      /\ txFailed' = (txFailed /\ h \notin {"chip", "recover"} /\ (h = "own" => txNic \in StopsWhenFailed))
      /\ txExcused' = (txExcused \/ Overwrites \/ OutOfStep(h))
  BY Zenon DEF DoStep
<1>7. txOn \in BOOLEAN /\ txFailed \in BOOLEAN
  BY DEF TxTypes
<1>8. /\ h = "start" \/ (h = "recover" /\ txFailed) => txOn' = TRUE
      /\ h \in {"stop", "chip"} => txOn' = FALSE
      /\ h \notin {"start", "stop", "chip"} /\ ~(h = "recover" /\ txFailed) => txOn' = txOn
  BY <1>6, <1>7
<1>9. /\ h = "chip" => txSending' = Idle
      /\ h # "chip" => txSending' = txSending
  BY <1>6, Zenon
<1>10. /\ h \in {"chip", "recover"} => txFailed' = FALSE
       /\ h = "own" => txFailed' = (txFailed /\ txNic \in StopsWhenFailed)
       /\ h \notin {"chip", "recover", "own"} => txFailed' = txFailed
  BY <1>6, <1>7
<1>11. /\ txExcused' \in BOOLEAN
       /\ ~txExcused' => ~txExcused /\ ~Overwrites /\ ~OutOfStep(h)
  BY <1>6, Zenon
<1> QED BY <1>1, <1>2, <1>3, <1>4, <1>5, <1>8, <1>9, <1>10, <1>11

---------------------------------------------------------------------------
(* Types. *)

\* The number of descriptors is that of the driver.
LEMMA SameDriver ==
  ASSUME txNic' = txNic
  PROVE  /\ TxCount' = TxCount
         /\ \A k : Buffer(k)' = Buffer(k)
         /\ \A k : Follow(k)' = Follow(k)
BY DEF TxCount, Buffer, Follow

\* SendSlots and buffers.
LEMMA SendSlots ==
  ASSUME txNic \in Senders
  PROVE  /\ TxCount \in {1, 2} /\ 0 \in 0 .. TxCount - 1
         /\ \A k \in 0 .. TxCount - 1 :
              /\ k \in Int /\ k # -1 /\ Follow(k) \in 0 .. TxCount - 1
              /\ Buffer(k) \in {Buffer(slot) : slot \in 0 .. TxCount - 1}
<1>1. TxCount \in {1, 2}
  BY DEF TxCount
<1>2. \A k \in 0 .. TxCount - 1 : Follow(k) \in 0 .. TxCount - 1
  BY <1>1 DEF Follow
<1> QED BY <1>1, <1>2

\* Types hold at first.
LEMMA TxInitTypes == TxInit => TxTypes /\ Fits(txNic, txProg)
<1> SUFFICES ASSUME TxInit PROVE TxTypes /\ Fits(txNic, txProg)
  OBVIOUS
<1>1. txNic \in Senders /\ txProg = <<>>
  BY DEF TxInit
<1>2. Fits(txNic, txProg)
  BY <1>1 DEF Fits
<1>3. txBuf \in [{Buffer(slot) : slot \in 0 .. TxCount - 1} -> [head : 0 .. txAsked, body : 0 .. txAsked]]
  BY DEF TxInit
<1>4. txOwn \in [0 .. TxCount - 1 -> BOOLEAN]
  BY DEF TxInit
<1>5. txOut \in Seq(0 .. txAsked)
  BY DEF TxInit
<1> QED BY <1>1, <1>2, <1>3, <1>4, <1>5, SendSlots DEF TxInit, TxTypes

\* The card keeps the types, ...
LEMMA CardTypes ==
  ASSUME TxTypes, CardWorks
  PROVE  TxTypes'
<1> DEFINE I == 0 .. TxCount - 1
           B == {Buffer(slot) : slot \in I}
<1>1. UNCHANGED <<txNic, txBuf, txCur, txEntry, txProg, txAgain, txLate, txAsked, txExcused>>
  BY DEF CardWorks, driverVars
<1>2. TxCount' = TxCount /\ \A k : Buffer(k)' = Buffer(k)
  BY <1>1, SameDriver
<1>3. /\ txBuf \in [B -> [head : 0 .. txAsked, body : 0 .. txAsked]]
      /\ txOwn \in [I -> BOOLEAN] /\ txAt \in I /\ txAsked \in Nat
      /\ txSending = Idle \/ txSending \in [slot : I, head : 0 .. txAsked, body : {Unread} \cup 0 .. txAsked]
      /\ txOut \in Seq(0 .. txAsked)
      /\ txNic \in Senders
  BY DEF TxTypes
<1>4. B' = B /\ I' = I
  BY <1>2
<1> HIDE DEF B
<1>5. \A k \in I : txBuf[Buffer(k)] \in [head : 0 .. txAsked, body : 0 .. txAsked]
  <2>1. \A k \in I : Buffer(k) \in B
    BY DEF B
  <2> QED BY <1>3, <2>1
<1>6. ASSUME Begins \/ Reads \/ \E sent \in BOOLEAN : Ends(sent)
      PROVE  /\ txOwn' \in [I -> BOOLEAN] /\ txAt' \in I
             /\ txOn' \in BOOLEAN /\ txFailed' \in BOOLEAN
             /\ txSending' = Idle \/ txSending' \in [slot : I, head : 0 .. txAsked, body : {Unread} \cup 0 .. txAsked]
             /\ txOut' \in Seq(0 .. txAsked)
  <2>1. txOn \in BOOLEAN /\ txFailed \in BOOLEAN
    BY DEF TxTypes
  <2>2. CASE Begins
    BY <2>1, <2>2, <1>3, <1>5 DEF Begins
  <2>3. CASE Reads
    <3>1. txSending \in [slot : I, head : 0 .. txAsked, body : {Unread} \cup 0 .. txAsked]
      BY <2>3, <1>3 DEF Reads
    <3>2. txBuf[Buffer(txSending.slot)].body \in 0 .. txAsked
      BY <3>1, <1>5
    <3>3. txSending' \in [slot : I, head : 0 .. txAsked, body : {Unread} \cup 0 .. txAsked]
      BY <3>1, <3>2, <2>3 DEF Reads
    <3> QED BY <2>1, <2>3, <3>3, <1>3 DEF Reads
  <2>4. ASSUME NEW sent \in BOOLEAN, Ends(sent)
        PROVE  /\ txOwn' \in [I -> BOOLEAN] /\ txAt' \in I
               /\ txOn' \in BOOLEAN /\ txFailed' \in BOOLEAN
               /\ txSending' = Idle
               /\ txOut' \in Seq(0 .. txAsked)
    <3>1. txSending \in [slot : I, head : 0 .. txAsked, body : {Unread} \cup 0 .. txAsked]
      BY <2>4, <1>3 DEF Ends
    <3>2. txOwn' \in [I -> BOOLEAN] /\ txSending' = Idle
      BY <2>4, <3>1, <1>3 DEF Ends
    <3>3. txAt' \in I
      BY <2>4, <3>1, <1>3, SendSlots DEF Ends, Follow
    <3>4. txOn' \in BOOLEAN /\ txFailed' \in BOOLEAN
      BY <2>1, <2>4 DEF Ends
    <3>5. txOut' \in Seq(0 .. txAsked)
      <4>1. txSending.head \in 0 .. txAsked /\ 0 \in 0 .. txAsked
        BY <3>1, <1>3
      <4>2. \/ txOut' = txOut
            \/ txOut' = Append(txOut, txSending.head)
            \/ txOut' = Append(txOut, 0)
        BY <2>4, Zenon DEF Ends
      <4> DEFINE S == 0 .. txAsked
      <4>3. txOut \in Seq(S) /\ txSending.head \in S /\ 0 \in S
        BY <4>1, <1>3
      <4> HIDE DEF S
      <4>4. \A f \in S : Append(txOut, f) \in Seq(S)
        BY <4>3
      <4>5. txOut' \in Seq(S)
        BY <4>2, <4>3, <4>4
      <4> QED BY <4>5 DEF S
    <3> QED BY <3>2, <3>3, <3>4, <3>5
  <2> QED BY <1>6, <2>2, <2>3, <2>4
<1>7. Begins \/ Reads \/ \E sent \in BOOLEAN : Ends(sent)
  BY DEF CardWorks
<1> HIDE DEF I
<1> QED BY <1>1, <1>2, <1>4, <1>6, <1>7 DEF TxTypes, B, I

\* ... and so do the steps of the driver, ...
LEMMA DoStepTypes ==
  ASSUME TxTypes, NEW h, DoStep(h)
  PROVE  TxTypes'
<1> DEFINE I == 0 .. TxCount - 1
           B == {Buffer(slot) : slot \in I}
<1>1. UNCHANGED <<txNic, txEntry, txAgain, txLate, txAsked, txOut>>
  BY DoStepIs
<1>2. TxCount' = TxCount /\ \A k : Buffer(k)' = Buffer(k)
  BY <1>1, SameDriver
<1>3. /\ txBuf \in [B -> [head : 0 .. txAsked, body : 0 .. txAsked]]
      /\ txOwn \in [I -> BOOLEAN] /\ txAt \in I /\ txAsked \in Nat /\ txCur \in I
      /\ txEntry \in I /\ txOn \in BOOLEAN /\ txFailed \in BOOLEAN /\ txNic \in Senders
  BY DEF TxTypes
<1>4. B' = B /\ I' = I
  BY <1>2
<1>5. Buffer(txEntry) \in B /\ 0 \in I /\ Follow(txCur) \in I
  BY <1>3, SendSlots
<1> HIDE DEF B
<1>6. txBuf' \in [B -> [head : 0 .. txAsked, body : 0 .. txAsked]]
  <2>1. CASE h = "head"
    <3>1. txBuf' = [txBuf EXCEPT ![Buffer(txEntry)].head = txAsked]
      BY <2>1, DoStepIs
    <3> QED BY <3>1, <1>3, <1>5
  <2>4. CASE h = "body"
    <3>1. txBuf' = [txBuf EXCEPT ![Buffer(txEntry)].body = txAsked]
      BY <2>4, DoStepIs
    <3> QED BY <3>1, <1>3, <1>5
  <2>2. CASE h = "gone"
    <3>1. txBuf' = [txBuf EXCEPT ![Buffer(txEntry)].head = 0]
      BY <2>2, Zenon DEF DoStep
    <3> QED BY <3>1, <1>3, <1>5
  <2>3. CASE h \notin {"head", "body", "gone"}
    BY <2>3, <1>3, DoStepIs
  <2> QED BY <2>1, <2>2, <2>3, <2>4
<1>7. txOwn' \in [I -> BOOLEAN]
  <2>1. CASE h \in {"own", "disown"}
    BY <2>1, <1>3, DoStepIs
  <2>2. CASE h \in {"free", "chip"}
    BY <2>2, <1>3, DoStepIs
  <2>3. CASE h = "recover"
    BY <2>3, <1>3, DoStepIs
  <2>4. CASE h \notin {"own", "disown", "free", "chip", "recover"}
    BY <2>4, <1>3, DoStepIs
  <2> QED BY <2>1, <2>2, <2>3, <2>4
<1>8. txCur' \in I /\ txAt' \in I /\ txOn' \in BOOLEAN /\ txExcused' \in BOOLEAN
  <2> HIDE DEF I
  <2> QED BY <1>3, <1>5, DoStepIs
<1>9. txFailed' \in BOOLEAN
  BY <1>3, DoStepIs
<1>10. txSending' = Idle \/ txSending' = txSending
  BY DoStepIs
<1> HIDE DEF I
<1> QED BY <1>1, <1>2, <1>4, <1>6, <1>7, <1>8, <1>9, <1>10 DEF TxTypes, B, I

\* ... a call, ...
LEMMA CallTypes ==
  ASSUME TxTypes, Fits(txNic, txProg), eth_transmit
  PROVE  TxTypes' /\ Fits(txNic', txProg')
<1> DEFINE I == 0 .. TxCount - 1
           B == {Buffer(slot) : slot \in I}
<1>1. UNCHANGED <<txNic, txOwn, txBuf, txCur, txOn, txCard, txLate, txOut, txExcused>>
      /\ txAsked' = txAsked + 1 /\ txEntry' = txCur /\ txAgain' = 0
      /\ txProg' = TransmitOf(txNic, txOwn[txCur]).steps
  BY DEF eth_transmit
<1>2. TxCount' = TxCount /\ \A k : Buffer(k)' = Buffer(k)
  BY <1>1, SameDriver
<1>3. I' = I /\ B' = B
  BY <1>2
<1>4. /\ txBuf \in [B -> [head : 0 .. txAsked, body : 0 .. txAsked]]
      /\ txSending = Idle \/ txSending \in [slot : I, head : 0 .. txAsked, body : {Unread} \cup 0 .. txAsked]
      /\ txAsked \in Nat /\ txOut \in Seq(0 .. txAsked) /\ txNic \in Senders
  BY DEF TxTypes
<1> DEFINE S == 0 .. txAsked
           T == 0 .. txAsked + 1
<1>5. S \subseteq T
  BY <1>4
<1> HIDE DEF B, I, S, T
<1>6. txBuf \in [B -> [head : T, body : T]]
  BY <1>4, <1>5 DEF S
<1>7. txSending = Idle \/ txSending \in [slot : I, head : T, body : {Unread} \cup T]
  BY <1>4, <1>5 DEF S
<1>8. txOut \in Seq(T)
  BY <1>4, <1>5 DEF S
<1>9. Fits(txNic', txProg')
  BY <1>1, <1>4, SendBegun
<1> QED BY <1>1, <1>2, <1>3, <1>6, <1>7, <1>8, <1>9 DEF TxTypes, B, I, T, txCard

\* ... and every step; what is left of the program is one that may be.
LEMMA TypesKept ==
  ASSUME TxTypes, Fits(txNic, txProg), [TxNext]_txVars
  PROVE  TxTypes' /\ Fits(txNic', txProg')
<1>1. CASE CardWorks
  BY <1>1, CardTypes DEF CardWorks, driverVars
<1>2. CASE CardSigns \/ CardDies \/ UNCHANGED txVars
  <2>1. UNCHANGED <<txNic, txOwn, txBuf, txAt, txCur, txEntry, txOn, txSending, txFailed,
                   txProg, txAgain, txLate, txAsked, txOut, txExcused>>
    BY <1>2 DEF CardSigns, Signs, CardDies, driverVars, txVars, txCard
  <2>2. TxCount' = TxCount /\ \A k : Buffer(k)' = Buffer(k)
    BY <2>1, SameDriver
  <2> QED BY <2>1, <2>2 DEF TxTypes
<1>3. CASE eth_transmit
  BY <1>3, CallTypes
<1>4. CASE TxStep
  <2> DEFINE step == Head(txProg)
  <2>1. txProg # <<>>
    BY <1>4, TxStepIs
  <2>2. Fits(txNic, Tail(txProg))
    BY <2>1, FitsRest
  <2>3. CASE step \notin WaitingSteps /\ DoStep(step)
    BY <2>2, <2>3, DoStepIs, DoStepTypes
  <2>4. CASE \/ GoesOn
             \/ /\ txProg' = Tail(txProg)
                /\ UNCHANGED <<txNic, txOwn, txBuf, txCur, txEntry, txOn, txAt, txSending,
                     txFailed, txDead, txAgain, txLate, txAsked, txOut, txExcused>>
    <3>1. UNCHANGED <<txNic, txOwn, txBuf, txAt, txCur, txEntry, txOn, txSending, txFailed,
                     txAgain, txLate, txAsked, txOut, txExcused>>
          /\ txProg' = Tail(txProg)
      BY <2>4 DEF GoesOn, txCard
    <3>2. TxCount' = TxCount /\ \A k : Buffer(k)' = Buffer(k)
      BY <3>1, SameDriver
    <3> QED BY <2>2, <3>1, <3>2 DEF TxTypes
  <2>5. ASSUME NEW late \in BOOLEAN, GivesUpWaiting(late)
        PROVE  TxTypes' /\ Fits(txNic', txProg')
    <3>1. UNCHANGED <<txNic, txOwn, txBuf, txAt, txCur, txEntry, txOn, txSending, txFailed,
                     txAsked, txOut>>
      BY <2>5 DEF GivesUpWaiting, txCard
    <3>2. TxCount' = TxCount /\ \A k : Buffer(k)' = Buffer(k)
      BY <3>1, SameDriver
    <3>3. txLate' \in BOOLEAN /\ txExcused' \in BOOLEAN
      BY <2>5, Zenon DEF GivesUpWaiting
    <3>4. txAgain' \in Nat
      <4>1. txAgain' = txAgain + 1 \/ txAgain' = txAgain + 0
        BY <2>5, Zenon DEF GivesUpWaiting
      <4>2. txAgain \in Nat
        BY DEF TxTypes
      <4> QED BY <4>1, <4>2
    <3>5. Fits(txNic', txProg')
      <4>1. \/ txProg' = Tail(txProg)
            \/ Program.onLate /\ txProg' = Program.late
            \/ txProg' = <<>>
        BY <2>5, Zenon DEF GivesUpWaiting
      <4>2. Fits(txNic, <<>>)
        BY DEF Fits
      <4>3. Program.onLate => Fits(txNic, Program.late)
        BY Late DEF Program, TxTypes
      <4> QED BY <2>2, <3>1, <4>1, <4>2, <4>3
    <3> QED BY <3>1, <3>2, <3>3, <3>4, <3>5 DEF TxTypes
  <2> QED BY <1>4, <2>3, <2>4, <2>5, TxStepIs
<1> QED BY <1>1, <1>2, <1>3, <1>4 DEF TxNext

---------------------------------------------------------------------------
(* The card. *)

\* What the card leaves alone.
LEMMA CardChanges ==
  ASSUME TxTypes, CardWorks
  PROVE  /\ UNCHANGED <<txNic, txBuf, txCur, txEntry, txProg, txAgain, txLate, txAsked, txExcused>>
         /\ TxCount' = TxCount /\ \A k : Buffer(k)' = Buffer(k) /\ Follow(k)' = Follow(k)
         /\ \A h : Has(h)' <=> Has(h)
         /\ Mid' <=> Mid
         /\ Free' = Free
<1>1. UNCHANGED <<txNic, txBuf, txCur, txEntry, txProg, txAgain, txLate, txAsked, txExcused>>
  BY DEF CardWorks, driverVars
<1>2. TxCount' = TxCount /\ (\A k : Buffer(k)' = Buffer(k)) /\ \A k : Follow(k)' = Follow(k)
  BY <1>1, SameDriver
<1>3. (\A h : Has(h)' <=> Has(h)) /\ (Mid' <=> Mid)
  BY <1>1 DEF Has, Mid
<1>4. Free' = Free
  BY <1>1, <1>2 DEF Free, Has
<1> QED BY <1>1, <1>2, <1>3, <1>4

\* What a frame that goes out leaves whole: whatever is newer.
LEMMA WholeKept ==
  ASSUME txBuf' = txBuf, txAsked' = txAsked, Has("own")' <=> Has("own")
  PROVE  /\ txOut' = txOut => \A b : Whole(b)' <=> Whole(b)
         /\ txOut' = txOut => \A f : Gone(f)' <=> Gone(f)
<1>1. txOut' = txOut => \A f : Gone(f)' <=> Gone(f)
  BY DEF Gone
<1>2. ASSUME txOut' = txOut, NEW b
      PROVE  Whole(b)' <=> Whole(b)
  <2>1. Gone(txBuf[b].head)' <=> Gone(txBuf[b].head)
    BY <1>2, <1>1
  <2> QED BY <1>2, <2>1 DEF Whole
<1> QED BY <1>1, <1>2

\* The card begins with a descriptor that is its own, so with a whole buffer.
LEMMA BeginsKeeps ==
  ASSUME TxTypes, Faithful, CardWorks, Begins
  PROVE  Faithful'
<1> DEFINE I == 0 .. TxCount - 1
           b == txBuf[Buffer(txAt)]
<1>a. /\ UNCHANGED <<txNic, txBuf, txCur, txEntry, txProg, txAgain, txLate, txAsked, txExcused>>
      /\ TxCount' = TxCount /\ (\A k : Buffer(k)' = Buffer(k)) /\ \A k : Follow(k)' = Follow(k)
      /\ (\A h : Has(h)' <=> Has(h)) /\ (Mid' <=> Mid) /\ Free' = Free
  BY CardChanges
<1>b. /\ txOn /\ txSending = Idle /\ txOwn[txAt]
      /\ txSending' = [slot |-> txAt, head |-> b.head, body |-> Unread]
      /\ UNCHANGED <<txOwn, txAt, txOn, txFailed, txSigned, txOut>>
  BY DEF Begins
<1>c. (\A k : Whole(k)' <=> Whole(k)) /\ \A f : Gone(f)' <=> Gone(f)
  BY <1>a, <1>b, WholeKept
<1>d. txNic \in Senders /\ txAt \in I
  BY DEF TxTypes
<1>1. Written'
  BY <1>a, <1>b, <1>c DEF Faithful, Written
<1>2. TrueBuffers'
  BY <1>a, <1>b, <1>c DEF Faithful, TrueBuffers
<1>3. ~(Mid /\ Buffer(txAt) = Buffer(txEntry))
  <2>1. CASE txNic \in TwoBuffers
    BY <2>1, <1>b, <1>d, Descriptors DEF Faithful, Ring
  <2>2. CASE txNic \notin TwoBuffers
    BY <2>2, <1>b, <1>d DEF Faithful, OneBuffer
  <2> QED BY <2>1, <2>2
<1>4. Whole(Buffer(txAt))
  BY <1>3, <1>b, <1>d DEF Faithful, TrueBuffers
<1>5. TrueSending'
  <2>1. txSending'.slot = txAt /\ txSending'.head = b.head /\ txSending'.body = Unread
    BY <1>b
  <2>2. Whole(Buffer(txAt))'
    BY <1>4, <1>c, <1>a, <1>b
  <2> QED BY <2>1, <2>2, <1>a, <1>b, <1>c, <1>4 DEF TrueSending
<1>6. ASSUME txNic \notin TwoBuffers PROVE OneBuffer'
  <2>1. ~Mid
    BY <1>6, <1>b, <1>d DEF Faithful, OneBuffer
  <2>2. txSending'.slot = txAt
    BY <1>b
  <2> QED BY <1>6, <2>1, <2>2, <1>a, <1>b, <1>c DEF Faithful, OneBuffer
<1>7. ASSUME txNic \in TwoBuffers PROVE Ring'
  <2>1. txSending'.slot = txAt
    BY <1>b
  <2>2. txProg # <<"load">> /\ InRing
    BY <1>7, <1>b, <1>d, Descriptors DEF Faithful, Ring
  <2>3. InRing'
    BY <2>1, <2>2, <1>a, <1>b DEF InRing
  <2>4. ~(txNic \in Fifo /\ txFailed)
    BY <1>7, <1>b DEF Faithful, Ring
  <2> QED BY <1>7, <2>2, <2>3, <2>4, <1>a, <1>b DEF Faithful, Ring
<1> QED BY <1>1, <1>2, <1>5, <1>6, <1>7, <1>a DEF Faithful

\* It reads the body of the frame it has read the head of.
LEMMA ReadsKeeps ==
  ASSUME TxTypes, Faithful, CardWorks, Reads
  PROVE  Faithful'
<1>a. /\ UNCHANGED <<txNic, txBuf, txCur, txEntry, txProg, txAgain, txLate, txAsked, txExcused>>
      /\ TxCount' = TxCount /\ (\A k : Buffer(k)' = Buffer(k)) /\ \A k : Follow(k)' = Follow(k)
      /\ (\A h : Has(h)' <=> Has(h)) /\ (Mid' <=> Mid) /\ Free' = Free
  BY CardChanges
<1>b. /\ txSending # Idle
      /\ txSending' = [txSending EXCEPT !.body = txBuf[Buffer(txSending.slot)].body]
      /\ UNCHANGED <<txOwn, txAt, txOn, txFailed, txSigned, txOut>>
  BY DEF Reads
<1>c. (\A k : Whole(k)' <=> Whole(k)) /\ \A f : Gone(f)' <=> Gone(f)
  BY <1>a, <1>b, WholeKept
<1>d. /\ txSending \in [slot : 0 .. TxCount - 1, head : 0 .. txAsked, body : {Unread} \cup 0 .. txAsked]
      /\ txNic \in Senders
  BY <1>b DEF TxTypes
<1>e. /\ txSending'.slot = txSending.slot /\ txSending'.head = txSending.head
      /\ txSending'.body = txBuf[Buffer(txSending.slot)].body
  BY <1>b, <1>d
<1>1. Written'
  BY <1>a, <1>b, <1>c DEF Faithful, Written
<1>2. TrueBuffers'
  BY <1>a, <1>b, <1>c DEF Faithful, TrueBuffers
<1>3. Whole(Buffer(txSending.slot)) /\ txSending.head = txBuf[Buffer(txSending.slot)].head
  BY <1>b DEF Faithful, TrueSending
<1>4. txSending'.body = txSending.head
  BY <1>3, <1>e DEF Whole
<1>5. TrueSending'
  <2>1. Whole(Buffer(txSending.slot))'
    BY <1>3, <1>a, <1>c, <1>b, <1>e
  <2> QED BY <2>1, <1>3, <1>4, <1>a, <1>e, <1>c DEF TrueSending
<1>6. ASSUME txNic \notin TwoBuffers PROVE OneBuffer'
  BY <1>6, <1>a, <1>b, <1>c, <1>e DEF Faithful, OneBuffer
<1>7. ASSUME txNic \in TwoBuffers PROVE Ring'
  <2>1. InRing => InRing'
    BY <1>a, <1>b, <1>e DEF InRing
  <2> QED BY <1>7, <2>1, <1>a, <1>b, <1>e DEF Faithful, Ring
<1> QED BY <1>1, <1>2, <1>5, <1>6, <1>7, <1>a DEF Faithful

\* The frame is gone: what else the card has is newer, and the card goes on
\* where that is.
LEMMA EndsKeeps ==
  ASSUME TxTypes, Faithful, CardWorks, NEW sent \in BOOLEAN, Ends(sent)
  PROVE  Faithful'
<1> DEFINE I == 0 .. TxCount - 1
           slot == txSending.slot
           f == txBuf[Buffer(slot)].head
<1>a. /\ UNCHANGED <<txNic, txBuf, txCur, txEntry, txProg, txAgain, txLate, txAsked, txExcused>>
      /\ TxCount' = TxCount /\ (\A k : Buffer(k)' = Buffer(k)) /\ \A k : Follow(k)' = Follow(k)
      /\ (\A h : Has(h)' <=> Has(h)) /\ (Mid' <=> Mid) /\ Free' = Free
  BY CardChanges
<1>b. /\ txSending # Idle /\ txSending' = Idle
      /\ txOwn' = [txOwn EXCEPT ![slot] = FALSE]
      /\ txAt' = Follow(slot)
      /\ txFailed' = ~sent
      /\ txOn' = (txOn /\ (sent \/ txNic \notin StopsWhenFailed))
      /\ sent => txSending.body # Unread
  BY DEF Ends, Follow
<1>d. /\ txSending \in [slot : I, head : 0 .. txAsked, body : {Unread} \cup 0 .. txAsked]
      /\ txNic \in Senders /\ txOwn \in [I -> BOOLEAN] /\ txOut \in Seq(0 .. txAsked)
      /\ txAsked \in Nat /\ txOn \in BOOLEAN
  BY <1>b DEF TxTypes
<1>e. slot \in I /\ \A k \in I : txOwn'[k] => txOwn[k] /\ k # slot
  BY <1>b, <1>d
<1>f. \A k \in I : txOwn[k] /\ k # slot => txOwn'[k]
  BY <1>b, <1>d
<1>g. Whole(Buffer(slot)) /\ txSending.head = f /\ (sent => txSending.head = txSending.body)
  BY <1>b DEF Faithful, TrueSending
<1>h. f \in 1 .. txAsked /\ Gone(f) /\ (Has("own") => f < txAsked)
  BY <1>g DEF Whole
<1>c. \/ txOut' = txOut /\ ~sent
      \/ txOut' = Append(txOut, f) /\ sent
  <2>1. txOut' = IF ~sent THEN txOut
                 ELSE Append(txOut, IF txSending.head = txSending.body THEN txSending.head ELSE 0)
    BY DEF Ends
  <2> QED BY <2>1, <1>g
<1> HIDE DEF f, slot
<1>i. \A g \in Int : Gone(g) /\ f < g => Gone(g)'
  <2>1. CASE txOut' = txOut
    BY <2>1 DEF Gone
  <2>2. CASE txOut' = Append(txOut, f)
    <3> SUFFICES ASSUME NEW g \in Int, Gone(g), f < g, NEW j \in DOMAIN txOut' PROVE txOut'[j] < g
      BY DEF Gone
    <3>1. \/ j \in DOMAIN txOut /\ txOut'[j] = txOut[j]
          \/ txOut'[j] = f
      BY <1>d, <1>h, <2>2
    <3> QED BY <3>1 DEF Gone
  <2> QED BY <2>1, <2>2, <1>c
<1>j. ~sent => \A g : Gone(g)' <=> Gone(g)
  BY <1>c DEF Gone
<1>1. Written'
  <2>1. Has("own") => Gone(txAsked)'
    <3>1. Has("own") => Gone(txAsked) /\ f < txAsked /\ txAsked \in Int
      BY <1>d, <1>h DEF Faithful, Written
    <3> QED BY <3>1, <1>a, <1>i DEF Gone
  <2> QED BY <2>1, <1>a DEF Faithful, Written, Gone
<1>2. ASSUME NEW k \in I, txOwn'[k]
      PROVE  /\ txNic \in TwoBuffers
             /\ f < txBuf[k].head /\ Whole(k) /\ Buffer(k) = k
  <2>1. txOwn[k] /\ k # slot
    BY <1>2, <1>e
  <2>2. txNic \in TwoBuffers
    BY <2>1, <1>b, <1>d, <1>e DEF Faithful, OneBuffer, slot
  <2>3. I = {0, 1} /\ Follow(0) = 1 /\ Follow(1) = 0 /\ \A m : Buffer(m) = m
    BY <2>2, <1>d, Descriptors
  <2>4. txProg # <<"load">> /\ InRing
    BY <2>1, <2>2, <2>3 DEF Faithful, Ring
  <2>5. slot = txAt /\ txOwn[txAt]
    BY <1>b, <2>4 DEF InRing, slot
  <2>6. Free \in I
    BY <2>3 DEF Free, TxTypes
  <2>7. txAt = Free /\ k = Follow(Free)
    BY <2>1, <2>3, <2>4, <2>5, <2>6, <1>e DEF InRing
  <2>8. f < txBuf[k].head
    BY <2>1, <2>3, <2>4, <2>5, <2>7 DEF InRing, f
  <2>9. Whole(k)
    BY <2>1, <2>2, <2>3, <1>d DEF Faithful, TrueBuffers, Ring
  <2> QED BY <2>2, <2>3, <2>8, <2>9
<1>3. TrueBuffers'
  <2> SUFFICES ASSUME NEW k \in I, txOwn'[k] PROVE Whole(Buffer(k))'
    BY <1>a DEF TrueBuffers
  <2>1. Buffer(k) = k /\ Whole(k) /\ f < txBuf[k].head
    BY <1>2
  <2>2. Gone(txBuf[k].head)'
    BY <2>1, <1>a, <1>i DEF Whole, Gone
  <2> QED BY <2>1, <2>2, <1>a DEF Whole, Gone
<1>4. TrueSending'
  BY <1>b DEF TrueSending
<1>5. ASSUME txNic \notin TwoBuffers PROVE OneBuffer'
  <2>1. \A k \in I : ~txOwn'[k]
    BY <1>2, <1>5
  <2>2. ~Mid
    BY <1>5, <1>b DEF Faithful, OneBuffer
  <2>3. txOn' = txOn
    BY <1>5, <1>b, <1>d DEF StopsWhenFailed, TwoBuffers
  <2>4. 0 \in I
    BY <1>d, SendSlots
  <2>5. ~sent => slot \in I /\ txOwn[slot]
    BY <1>5, <1>b, <1>e DEF Faithful, OneBuffer, slot
  <2>6. ASSUME txNic = "3c90x", txProg # <<>>, ~Has("own"), ~sent PROVE Gone(txAsked)
    <3>1. slot = 0
      BY <2>6, <1>d, <1>e, Descriptors DEF TwoBuffers, Shared
    <3> QED BY <3>1, <2>5, <2>6, <1>5 DEF Faithful, OneBuffer
  <2>7. txNic = "3c90x" /\ txProg # <<>> /\ ~Has("own") =>
          /\ txBuf[0].body = txAsked /\ txAsked > 0
          /\ txFailed' => Gone(txAsked)'
    <3>1. txNic = "3c90x" /\ txProg # <<>> /\ ~Has("own") => txBuf[0].body = txAsked /\ txAsked > 0
      BY <1>5 DEF Faithful, OneBuffer
    <3>2. ~sent /\ Gone(txAsked) => Gone(txAsked)'
      BY <1>a, <1>j DEF Gone
    <3> QED BY <3>1, <3>2, <1>b, <2>6
  <2> QED BY <1>5, <1>a, <1>b, <2>1, <2>2, <2>3, <2>4, <2>7 DEF Faithful, OneBuffer
<1>6. ASSUME txNic \in TwoBuffers PROVE Ring'
  <2>1. I = {0, 1} /\ Follow(0) = 1 /\ Follow(1) = 0
    BY <1>6, <1>d, Descriptors
  <2>2. ASSUME InRing PROVE InRing'
    <3>1. slot = txAt /\ txOwn[txAt]
      BY <1>b, <2>2 DEF InRing, slot
    <3>2. Free \in I
      BY <2>1 DEF Free, TxTypes
    <3> PICK other \in I : other = Follow(Free)
      BY <2>1, <3>2
    <3>3. Free # other /\ Follow(other) = Free
      BY <2>1, <3>2
    <3>4. /\ txOwn[Free] => txOwn[other]
          /\ txAt = IF txOwn[other] /\ ~txOwn[Free] THEN other ELSE Free
      BY <2>2 DEF InRing
    <3>5. ~txOwn'[Free]
      BY <3>1, <3>2, <3>3, <3>4, <1>e
    <3>6. txAt' = IF txOwn'[other] THEN other ELSE Free
      <4>1. CASE slot = Free
        BY <4>1, <3>1, <3>3, <3>4, <1>b, <1>f
      <4>2. CASE slot = other
        BY <4>2, <3>3, <1>b, <1>e
      <4> QED BY <4>1, <4>2, <3>1, <3>4
    <3> QED BY <3>5, <3>6, <1>a, <1>b DEF InRing
  <2>3. txNic \in NeverWaits => txOn' = txOn
    BY <1>6, <1>b, <1>d DEF NeverWaits, StopsWhenFailed
  <2>4. txNic \in Fifo /\ txFailed' => ~txOn'
    BY <1>b DEF Fifo, StopsWhenFailed
  <2>5. (~txOwn[0] => ~txOwn'[0]) /\ (~txOwn[1] => ~txOwn'[1]) /\ (~txOwn[txEntry] => ~txOwn'[txEntry])
    BY <2>1, <1>e DEF TxTypes
  <2> QED BY <1>6, <2>2, <2>3, <2>4, <2>5, <1>a, <1>b DEF Faithful, Ring
<1> QED BY <1>1, <1>3, <1>4, <1>5, <1>6, <1>a DEF Faithful

---------------------------------------------------------------------------
(* The first state, and a call. *)

\* Nothing is the card's at first.
LEMMA InitFaithful ==
  ASSUME TxInit
  PROVE  Faithful
<1>1. /\ \A s : ~Has(s)
      /\ txProg = <<>> /\ txSending = Idle /\ ~Mid
      /\ \A k \in 0 .. TxCount - 1 : ~txOwn[k]
  BY NothingHeld DEF TxInit, Has, Mid
<1>2. txOn /\ ~txFailed /\ txCur = 0 /\ txEntry = 0 /\ txAt = 0 /\ txNic \in Senders
  BY DEF TxInit
<1>3. Written /\ TrueBuffers /\ TrueSending
  BY <1>1 DEF Written, TrueBuffers, TrueSending
<1>4. txNic \notin TwoBuffers => OneBuffer
  BY <1>1, <1>2 DEF OneBuffer
<1>5. ASSUME txNic \in TwoBuffers PROVE Ring
  <2>1. 0 .. TxCount - 1 = {0, 1} /\ Follow(0) = 1
    BY <1>5, <1>2, Descriptors
  <2>2. Free = 0 /\ InRing
    BY <1>1, <1>2, <2>1 DEF Free, InRing
  <2>3. txProg # <<"load">>
    BY <1>1
  <2> QED BY <1>1, <1>2, <2>2, <2>3 DEF Ring
<1> QED BY <1>3, <1>4, <1>5 DEF Faithful

\* A call brings a frame newer than all that are the card's, and has nothing
\* written yet.
LEMMA CallKeeps ==
  ASSUME TxTypes, Fits(txNic, txProg), Faithful, eth_transmit
  PROVE  Faithful'
<1> DEFINE I == 0 .. TxCount - 1
           p == TransmitOf(txNic, txOwn[txCur]).steps
<1>a. /\ UNCHANGED <<txNic, txOwn, txBuf, txCur, txOn, txAt, txSending, txFailed, txLate, txOut, txExcused>>
      /\ txAsked' = txAsked + 1 /\ txEntry' = txCur /\ txAgain' = 0
      /\ txProg = <<>> /\ txProg' = p
  BY DEF eth_transmit, txCard
<1>b. /\ txNic \in Senders /\ txAsked \in Nat /\ txOut \in Seq(0 .. txAsked) /\ txCur \in I
  BY DEF TxTypes
<1>c. /\ TxCount' = TxCount /\ (\A k : Buffer(k)' = Buffer(k)) /\ \A k : Follow(k)' = Follow(k)
  BY <1>a, SameDriver
<1>d. /\ txNic = "epic100" /\ txOwn[txCur] => p = <<"free", "load">>
      /\ txNic # "epic100" \/ ~txOwn[txCur] => Holds(p, "own") /\ Holds(p, "head") /\ Holds(p, "body")
      /\ txNic \in Fifo => Holds(p, "room")
      /\ Fits(txNic, p)
  BY <1>b, SendBegun
<1>e. \A s : ~Has(s)
  BY <1>a, NothingHeld DEF Has
<1>f. \A s : Has(s)' <=> Holds(p, s)
  BY <1>a DEF Has
<1>g. Gone(txAsked + 1) /\ \A f : Gone(f)' <=> Gone(f)
  BY <1>a, <1>b DEF Gone
<1>h. p # <<"load">> /\ p # <<"start">>
  <2>1. /\ <<"free", "load">> # <<"load">> /\ <<"free", "load">> # <<"start">>
        /\ ~Holds(<<"load">>, "own") /\ ~Holds(<<"start">>, "own")
    BY DEF Holds
  <2> QED BY <2>1, <1>d
<1>i. Holds(p, "own") => Holds(p, "head") /\ Holds(p, "body") /\ (txNic = "epic100" => ~txOwn[txCur])
  <2>1. ~Holds(<<"free", "load">>, "own")
    BY DEF Holds
  <2> QED BY <2>1, <1>d
<1> HIDE DEF p
<1>j. ~Mid /\ ~Mid'
  BY <1>e, <1>f, <1>i DEF Mid
<1>k. \A b : Whole(b) => Whole(b)'
  <2> SUFFICES ASSUME NEW b, Whole(b) PROVE Whole(b)'
    OBVIOUS
  <2>1. txBuf[b].head \in 1 .. txAsked
    BY DEF Whole
  <2>2. Gone(txBuf[b].head)'
    BY <1>a, <1>g DEF Whole, Gone
  <2> QED BY <2>1, <2>2, <1>a, <1>b DEF Whole
<1>1. Written'
  <2>1. Gone(txAsked)'
    BY <1>a, <1>g DEF Gone
  <2> QED BY <2>1, <1>a, <1>b, <1>f, <1>i DEF Written
<1>2. TrueBuffers'
  <2>1. \A k \in I : txOwn[k] => Whole(Buffer(k))
    BY <1>j DEF Faithful, TrueBuffers
  <2> QED BY <2>1, <1>a, <1>c, <1>j, <1>k DEF TrueBuffers
<1>3. TrueSending'
  <2>1. txSending # Idle => Whole(Buffer(txSending.slot))'
    BY <1>a, <1>c, <1>k DEF Faithful, TrueSending
  <2> QED BY <2>1, <1>a, <1>c DEF Faithful, TrueSending
<1>4. ASSUME txNic \notin TwoBuffers PROVE OneBuffer'
  <2>1. txNic # "epic100" /\ Holds(p, "own")
    BY <1>4, <1>d DEF TwoBuffers
  <2>2. <<>> # <<"start">>
    OBVIOUS
  <2> QED BY <1>4, <1>a, <1>c, <1>e, <1>f, <1>j, <2>1, <2>2 DEF Faithful, OneBuffer
<1>5. ASSUME txNic \in TwoBuffers PROVE Ring'
  <2>1. I = {0, 1} /\ Follow(0) = 1 /\ Follow(1) = 0
    BY <1>5, <1>b, Descriptors
  <2>2. Free = txCur
    BY <1>e DEF Free
  <2>3. Free' = txCur
    <3>1. Holds(p, "own") \/ ~Holds(p, "next")
      <4>1. ~Holds(<<"free", "load">>, "next")
        BY DEF Holds
      <4> QED BY <4>1, <1>d
    <3> QED BY <3>1, <1>a, <1>f DEF Free
  <2>4. InRing
    BY <1>5, <1>a DEF Faithful, Ring
  <2>5. InRing'
    BY <2>2, <2>3, <2>4, <1>a, <1>c DEF InRing
  <2> QED BY <1>5, <2>5, <1>a, <1>d, <1>f, <1>h, <1>i, <1>j DEF Faithful, Ring
<1> QED BY <1>1, <1>2, <1>3, <1>4, <1>5, <1>a DEF Faithful

\* What does not concern the frames.
LEMMA AsideKeeps ==
  ASSUME Faithful,
         UNCHANGED <<txNic, txOwn, txBuf, txAt, txCur, txEntry, txOn, txSending, txFailed,
                     txProg, txAgain, txLate, txAsked, txOut>>
  PROVE  Faithful'
<1>1. (TxCount' = TxCount) /\ (\A k : Buffer(k)' = Buffer(k)) /\ \A k : Follow(k)' = Follow(k)
  BY SameDriver
<1>2. (\A h : Has(h)' <=> Has(h)) /\ (Mid' <=> Mid)
  BY DEF Has, Mid
<1>3. (\A k : Whole(k)' <=> Whole(k)) /\ \A f : Gone(f)' <=> Gone(f)
  BY <1>2, WholeKept
<1>4. Free' = Free
  BY <1>1, <1>2 DEF Free
<1>5. Written'
  BY <1>2, <1>1, <1>3 DEF Faithful, Written, Gone
<1>6. TrueBuffers'
  BY <1>1, <1>2, <1>3 DEF Faithful, TrueBuffers
<1>7. TrueSending'
  <2>1. txSending # Idle => Whole(Buffer(txSending.slot))'
    BY <1>1, <1>3 DEF Faithful, TrueSending
  <2> QED BY <2>1, <1>1 DEF Faithful, TrueSending
<1>8. txNic \notin TwoBuffers => OneBuffer'
  BY <1>1, <1>2, <1>3 DEF Faithful, OneBuffer, Gone
<1>9. InRing => InRing'
  BY <1>1, <1>4 DEF InRing
<1>10. txNic \in TwoBuffers => Ring'
  BY <1>1, <1>2, <1>9 DEF Faithful, Ring
<1> QED BY <1>5, <1>6, <1>7, <1>8, <1>10 DEF Faithful

---------------------------------------------------------------------------
(* The driver: steps that write no buffer and give nothing to the card. *)

\* A step of the driver, and what comes after it.
LEMMA Goes ==
  ASSUME Fits(txNic, txProg), txProg # <<>>, txProg' = Tail(txProg)
  PROVE  LET h == Head(txProg)
         IN  /\ \A s : Has(s) <=> s = h \/ Has(s)'
             /\ h \in {"own", "disown"} => ~Has("head")' /\ ~Has("body")'
             /\ \A s \in {"own", "head", "body", "next"} : h = s => ~Has(s)'
             /\ h \in {"start", "gone", "next", "chip", "wait", "glance", "sign", "fetched", "sent"} =>
                  ~Has("head")' /\ ~Has("body")' /\ ~Has("own")'
             /\ h = "gone" => ~Has("wait")' /\ ~Has("sent")'
             /\ h \in Writes => ~Has("room")'
             /\ h \in {"head", "body", "disown", "recover"} => Has("own")'
             /\ h = "own" /\ txNic \in TwoBuffers => Has("next")'
             /\ h = "glance" => Has("next")'
             /\ h = "own" /\ txNic \notin TwoBuffers \cup NeverWaits => Has("wait")' \/ Has("sent")'
<1> DEFINE h == Head(txProg)
<1>1. \A s : Holds(txProg, s) <=> s = h \/ Holds(txProg', s)
  BY HoldsRest
<1> HIDE DEF h
<1>2. \A s : (Has(s) <=> Holds(txProg, s)) /\ (Has(s)' <=> Holds(txProg', s))
  BY DEF Has
<1>3. \A s : Has(s) <=> s = h \/ Has(s)'
  BY <1>1, <1>2
<1>4. /\ h \in {"own", "disown"} => ~Holds(txProg', "head") /\ ~Holds(txProg', "body")
      /\ h \in {"own", "head", "body", "next"} => ~Holds(txProg', h)
      /\ h \in {"start", "gone", "next", "chip", "wait", "glance", "sign", "fetched", "sent"} =>
           ~Holds(txProg', "head") /\ ~Holds(txProg', "body") /\ ~Holds(txProg', "own")
      /\ h = "gone" => ~Holds(txProg', "wait") /\ ~Holds(txProg', "sent")
      /\ h \in Writes => ~Holds(txProg', "room")
      /\ h \in {"head", "body", "disown", "recover"} => Holds(txProg', "own")
      /\ h = "own" /\ txNic \in TwoBuffers => Holds(txProg', "next")
      /\ h = "glance" => Holds(txProg', "next")
      /\ h = "own" /\ txNic \notin TwoBuffers \cup NeverWaits =>
           Holds(txProg', "wait") \/ Holds(txProg', "sent")
  BY NextStep DEF h
<1> QED BY <1>2, <1>3, <1>4 DEF h

\* As long as the same is to be written and nothing new becomes the card's, what
\* the card has stays whole.
LEMMA SameFrames ==
  ASSUME Written, TrueBuffers, TrueSending,
         UNCHANGED <<txNic, txBuf, txEntry, txAsked, txOut>>,
         \A s \in {"own", "head", "body"} : Has(s)' <=> Has(s),
         \A k \in 0 .. TxCount - 1 : txOwn'[k] => txOwn[k],
         txSending' \in {Idle, txSending}
  PROVE  /\ Written' /\ TrueBuffers' /\ TrueSending' /\ (Mid' <=> Mid)
         /\ \A f : Gone(f)' <=> Gone(f)
<1>1. (TxCount' = TxCount) /\ (\A k : Buffer(k)' = Buffer(k))
  BY SameDriver
<1>2. Mid' <=> Mid
  BY DEF Mid
<1>3. (\A k : Whole(k)' <=> Whole(k)) /\ \A f : Gone(f)' <=> Gone(f)
  BY WholeKept
<1>4. Written'
  BY <1>1, <1>3 DEF Written, Gone
<1>5. TrueBuffers'
  BY <1>1, <1>2, <1>3 DEF TrueBuffers
<1>6. TrueSending'
  <2>1. \A k : Whole(Buffer(k)) => Whole(Buffer(k))'
    BY <1>1, <1>3
  <2>2. CASE txSending' = Idle
    BY <2>2 DEF TrueSending
  <2>3. CASE txSending' = txSending
    <3>1. txSending # Idle => Whole(Buffer(txSending.slot))'
      BY <2>1, <2>3, <1>1, <1>3 DEF TrueSending
    <3> QED BY <3>1, <2>3, <1>1 DEF TrueSending
  <2> QED BY <2>2, <2>3
<1> QED BY <1>2, <1>3, <1>4, <1>5, <1>6

\* The same with one buffer, ...
LEMMA SameOne ==
  ASSUME TxTypes, Faithful, txNic \notin TwoBuffers,
         UNCHANGED <<txNic, txBuf, txEntry, txAsked, txOut>>,
         \A s \in {"own", "head", "body"} : Has(s)' <=> Has(s),
         \A k \in 0 .. TxCount - 1 : txOwn'[k] => txOwn[k],
         txSending' = Idle \/ UNCHANGED <<txSending, txOwn>>,
         Mid => (txOn' => txOn),
         txNic \in Shared => txOn' \/ (txProg' = <<"start">> /\ \A k \in 0 .. TxCount - 1 : ~txOwn'[k]),
         txNic = "eepro100" => txOn',
         txLate => txLate',
         txNic \notin NeverWaits /\ ~txLate' /\ (Has("own")' \/ (~Has("wait")' /\ ~Has("sent")')) =>
           \A k \in 0 .. TxCount - 1 : ~txOwn'[k],
         txNic = "3c90x" /\ txProg' # <<>> => txProg # <<>> /\ (txFailed' => txFailed \/ txOwn[0])
  PROVE  Faithful'
<1>1. (TxCount' = TxCount)
  BY SameDriver
<1>2. /\ Written' /\ TrueBuffers' /\ TrueSending' /\ (Mid' <=> Mid)
      /\ \A f : Gone(f)' <=> Gone(f)
  BY SameFrames DEF Faithful
<1> DEFINE I == 0 .. TxCount - 1
<1>3. I' = I /\ 0 \in I
  BY <1>1, SendSlots DEF TxTypes
<1>4. OneBuffer
  BY DEF Faithful
<1> HIDE DEF I
<1>5. Mid' => txSending' = Idle /\ \A k \in I : ~(txOwn'[k] /\ txOn')
  BY <1>2, <1>4 DEF OneBuffer, I
<1>6. \A k, l \in I : txOwn'[k] /\ txOwn'[l] => k = l
  BY <1>4 DEF OneBuffer, I
<1>7. txSending' # Idle => txOwn'[txSending'.slot]
  BY <1>4 DEF OneBuffer
<1>8. txNic \notin NeverWaits /\ ~txLate' => \A k \in I : txOwn'[k] => k = txEntry
  BY <1>4 DEF OneBuffer, I
<1>9. txNic = "3c90x" /\ txProg' # <<>> /\ ~Has("own")' =>
        /\ txBuf[0].body = txAsked /\ txAsked > 0
        /\ txOwn'[0] \/ txFailed' => Gone(txAsked)'
  <2>1. txNic = "3c90x" /\ txProg' # <<>> /\ ~Has("own")' =>
          /\ txBuf[0].body = txAsked /\ txAsked > 0
          /\ txOwn'[0] \/ txFailed' => Gone(txAsked)
    BY <1>3, <1>4 DEF OneBuffer, I
  <2>2. Gone(txAsked) => Gone(txAsked)'
    BY <1>2 DEF Gone
  <2> QED BY <2>1, <2>2
<1>10. OneBuffer'
  BY <1>3, <1>5, <1>6, <1>7, <1>8, <1>9 DEF OneBuffer, I
<1> QED BY <1>2, <1>10 DEF Faithful

\* ... and with two.
LEMMA SameRing ==
  ASSUME TxTypes, Faithful, txNic \in TwoBuffers,
         UNCHANGED <<txNic, txBuf, txEntry, txAsked, txOut>>,
         \A s \in {"own", "head", "body"} : Has(s)' <=> Has(s),
         \A k \in 0 .. TxCount - 1 : txOwn'[k] => txOwn[k],
         txSending' \in {Idle, txSending},
         IF txProg' = <<"load">> THEN txCur' = 0 /\ ~txOwn'[0] /\ ~txOwn'[1] ELSE InRing',
         Has("own") => txCur' = txCur,
         txNic \in Fifo /\ Has("own") /\ ~Has("room")' => ~txOwn'[txEntry],
         txNic \in NeverWaits => txOn',
         txNic \in Fifo /\ txFailed' => ~txOn' /\ txSending' = Idle,
         txNic = "sk_g16" /\ Has("glance")' => txAgain' = 0
  PROVE  Faithful'
<1>1. TxCount' = TxCount /\ txEntry \in 0 .. TxCount - 1
  BY SameDriver DEF TxTypes
<1>2. /\ Written' /\ TrueBuffers' /\ TrueSending' /\ (Mid' <=> Mid)
  BY SameFrames DEF Faithful
<1>3. Ring'
  BY <1>1, <1>2 DEF Faithful, Ring
<1> QED BY <1>2, <1>3 DEF Faithful

\* The steps that are neither a write nor a hand-over, with one buffer, ...
LEMMA QuietOne ==
  ASSUME TxTypes, Fits(txNic, txProg), Faithful, ~txExcused', txProg # <<>>,
         NEW h, h = Head(txProg), DoStep(h), h \in {"stop", "start", "load", "next", "chip"},
         txNic \notin TwoBuffers
  PROVE  Faithful'
<1> DEFINE I == 0 .. TxCount - 1
<1>1. /\ txProg' = Tail(txProg)
      /\ UNCHANGED <<txNic, txEntry, txAgain, txLate, txAsked, txOut, txBuf>>
  BY DoStepIs
<1>2. /\ \A s \in {"own", "head", "body", "wait", "sent"} : Has(s)' <=> Has(s)
      /\ h \in {"start", "next", "chip"} => ~Has("own")
  BY <1>1, Goes
<1>3. txOwn \in [I -> BOOLEAN] /\ txOn \in BOOLEAN
  BY DEF TxTypes
<1>4. /\ h = "chip" => txSending' = Idle /\ (\A k \in I : ~txOwn'[k]) /\ ~txFailed'
      /\ h # "chip" => UNCHANGED <<txSending, txOwn, txFailed>>
  BY <1>3, DoStepIs
<1>5. /\ h = "stop" => ~txOn' /\ txNic \notin Shared \cup {"eepro100"}
      /\ h = "start" => txOn'
      /\ h = "chip" => ~txOn' /\ txNic # "eepro100" /\ (txNic \in Shared => txProg' = <<"start">>)
      /\ h \in {"load", "next"} => txOn' = txOn
  <2>1. /\ h = "stop" => txNic \in {"tulip", "natsemi", "sis900", "3c90x", "ni5010"}
        /\ h = "chip" => txNic \in {"rtl8139", "smc9000", "sk_g16"}
        /\ h = "chip" /\ txNic = "rtl8139" => txProg' = <<"start">>
    BY <1>1, StepOf
  <2>2. /\ h \in {"stop", "chip"} => ~txOn'
        /\ h = "start" => txOn'
        /\ h \in {"load", "next"} => txOn' = txOn
    BY DoStepIs
  <2> QED BY <2>1, <2>2 DEF Shared
<1>6. h # "start" => txProg # <<"start">>
  OBVIOUS
<1>7. OneBuffer
  BY DEF Faithful
<1>8. Mid => (txOn' => txOn)
  BY <1>2, <1>5 DEF Mid
<1>9. txNic \in Shared => txOn' \/ (txProg' = <<"start">> /\ \A k \in I : ~txOwn'[k])
  BY <1>4, <1>5, <1>6, <1>7 DEF OneBuffer
<1>10. txNic = "eepro100" => txOn'
  BY <1>5, <1>7 DEF OneBuffer
<1>11. txNic \notin NeverWaits /\ ~txLate' /\ (Has("own")' \/ (~Has("wait")' /\ ~Has("sent")')) =>
           \A k \in I : ~txOwn'[k]
  BY <1>1, <1>2, <1>4, <1>7 DEF OneBuffer
<1>12. \A k \in I : txOwn'[k] => txOwn[k]
  BY <1>4
<1>13. txSending' = Idle \/ UNCHANGED <<txSending, txOwn>>
  BY <1>4
<1>14. txFailed' => txFailed
  BY <1>4
<1> HIDE DEF I
<1> QED BY <1>1, <1>2, <1>8, <1>9, <1>10, <1>11, <1>12, <1>13, <1>14, SameOne DEF I

\* ... and with two.
LEMMA QuietTwo ==
  ASSUME TxTypes, Fits(txNic, txProg), Faithful, ~txExcused', txProg # <<>>,
         NEW h, h = Head(txProg), DoStep(h),
         h \in {"stop", "start", "load", "next", "chip", "free", "disown", "recover"},
         txNic \in TwoBuffers
  PROVE  Faithful'
<1>1. /\ txProg' = Tail(txProg)
      /\ UNCHANGED <<txNic, txEntry, txAgain, txLate, txAsked, txOut, txBuf>>
  BY DoStepIs
<1>2. /\ \A s \in {"own", "head", "body", "room", "glance"} : Has(s)' <=> Has(s)
      /\ h \in {"start", "next"} => ~Has("own")
      /\ h = "disown" => ~Has("head") /\ ~Has("body")
      /\ h \in {"disown", "recover"} => Has("own")
      /\ h # "next" => (Has("next")' <=> Has("next"))
      /\ h = "next" => Has("next") /\ ~Has("next")'
  BY <1>1, Goes
<1>3. /\ 0 .. TxCount - 1 = {0, 1} /\ Follow(0) = 1 /\ Follow(1) = 0
      /\ TxCount' = TxCount /\ \A k : Follow(k)' = Follow(k)
  BY <1>1, Descriptors, SameDriver DEF TxTypes
<1>4. /\ txOwn \in [{0, 1} -> BOOLEAN] /\ txOn \in BOOLEAN /\ txCur \in {0, 1} /\ txEntry \in {0, 1}
  BY <1>3 DEF TxTypes
<1>5. /\ h \notin {"stop", "chip"}
      /\ h = "free" => txNic = "epic100" /\ txProg' = <<"load">>
      /\ h = "load" => txNic = "epic100" /\ txProg = <<"load">> /\ txProg' = <<>>
      /\ h = "disown" => txNic = "depca"
      /\ h = "recover" => txNic \in Fifo
      /\ h = "start" => txNic \notin Fifo
      /\ h # "free" => txProg' # <<"load">>
  <2>1. txNic \notin {"tulip", "natsemi", "sis900", "3c90x", "ni5010", "rtl8139", "smc9000"}
    BY DEF TwoBuffers
  <2>2. ~OutOfStep(h)
    BY DoStepIs
  <2>3. h = "chip" => txNic # "sk_g16"
    BY <2>2 DEF OutOfStep
  <2> QED BY <1>1, <2>1, <2>3, StepOf
<1>6. h # "load" => txProg # <<"load">>
  OBVIOUS
<1>7. Ring
  BY DEF Faithful
<1>8. CASE h = "start"
  <2>1. UNCHANGED <<txOwn, txCur, txAt, txSending, txFailed>> /\ txOn'
    BY <1>8, DoStepIs
  <2>2. Free' = Free
    BY <1>2, <1>3, <1>8, <2>1 DEF Free
  <2>3. InRing'
    BY <1>1, <1>3, <1>5, <1>6, <1>7, <1>8, <2>1, <2>2 DEF InRing, Ring
  <2> QED BY <1>1, <1>2, <1>5, <1>7, <1>8, <2>1, <2>3, SameRing DEF Ring
<1>9. CASE h = "next"
  <2>1. UNCHANGED <<txOwn, txAt, txSending, txFailed, txOn>> /\ txCur' = Follow(txCur)
    BY <1>9, DoStepIs
  <2>2. Free = Follow(txCur) /\ Free' = Follow(txCur)
    BY <1>2, <1>3, <1>9, <2>1 DEF Free
  <2>3. InRing'
    BY <1>1, <1>3, <1>5, <1>6, <1>7, <1>9, <2>1, <2>2 DEF InRing, Ring
  <2> QED BY <1>1, <1>2, <1>5, <1>7, <1>9, <2>1, <2>3, SameRing DEF Ring
<1>10. CASE h = "load"
  <2>1. UNCHANGED <<txOwn, txCur, txSending, txFailed, txOn>> /\ txAt' = txCur
    BY <1>10, DoStepIs
  <2>2. txSending = Idle
    <3>1. ~OutOfStep(h)
      BY DoStepIs
    <3> QED BY <3>1, <1>5, <1>10 DEF OutOfStep
  <2>3. txCur = 0 /\ ~txOwn[0] /\ ~txOwn[1]
    BY <1>5, <1>7, <1>10 DEF Ring
  <2>4. Free' = 0
    <3>1. \A s : ~Has(s)'
      BY <1>5, <1>10, NothingHeld DEF Has
    <3> QED BY <2>1, <2>3, <3>1 DEF Free
  <2>5. InRing'
    BY <1>3, <2>1, <2>2, <2>3, <2>4 DEF InRing
  <2> QED BY <1>1, <1>2, <1>5, <1>7, <1>10, <2>1, <2>5, SameRing DEF Ring, Fifo, NeverWaits
<1>11. CASE h = "free"
  <2>1. UNCHANGED <<txSending, txFailed, txOn, txAt>> /\ txCur' = 0 /\ ~txOwn'[0] /\ ~txOwn'[1]
    <3>1. txOwn' = [i \in DOMAIN txOwn |-> FALSE]
      BY <1>11, DoStepIs
    <3> QED BY <1>11, <3>1, <1>4, DoStepIs
  <2>2. ~Has("own")
    <3>1. ~Holds(<<"load">>, "own")
      BY DEF Holds
    <3> QED BY <1>2, <1>5, <1>11, <3>1 DEF Has
  <2> QED BY <1>1, <1>2, <1>3, <1>5, <1>11, <2>1, <2>2, SameRing DEF Fifo, NeverWaits
<1>12. CASE h = "disown"
  <2>1. Mid
    BY <1>2, <1>12 DEF Mid
  <2>2. txOwn' = txOwn
    <3>1. ~txOwn[txEntry]
      BY <1>7, <2>1 DEF Ring
    <3>2. txOwn' = [txOwn EXCEPT ![txEntry] = FALSE]
      BY <1>12, DoStepIs
    <3> QED BY <1>4, <3>1, <3>2
  <2>3. UNCHANGED <<txCur, txAt, txSending, txFailed, txOn>>
    BY <1>12, DoStepIs
  <2>4. Free' = Free
    BY <1>2, <1>3, <1>12, <2>3 DEF Free
  <2>5. InRing'
    BY <1>1, <1>3, <1>5, <1>6, <1>7, <1>12, <2>2, <2>3, <2>4 DEF InRing, Ring
  <2> QED BY <1>1, <1>2, <1>5, <1>7, <1>12, <2>2, <2>3, <2>5, SameRing DEF Ring, Fifo
<1>13. CASE h = "recover"
  <2>1. Free = txCur /\ Free' = txCur /\ txCur' = txCur /\ txSending' = txSending /\ txFailed' = FALSE
    BY <1>2, <1>13, DoStepIs DEF Free
  <2>2. \A k \in {0, 1} : txOwn'[k] <=> txOwn[k] /\ ~txFailed
    <3>1. txOwn' = [i \in DOMAIN txOwn |-> txOwn[i] /\ ~txFailed]
      BY <1>13, DoStepIs
    <3> QED BY <3>1, <1>4
  <2>3. InRing'
    <3>1. CASE txFailed
      <4>1. txSending = Idle
        BY <1>5, <1>7, <1>13, <3>1 DEF Ring
      <4>2. txAt' = txCur
        BY <1>13, <3>1, DoStepIs
      <4> QED BY <1>3, <1>4, <2>1, <2>2, <3>1, <4>1, <4>2 DEF InRing
    <3>2. CASE ~txFailed
      <4>1. txAt' = txAt
        BY <1>13, <3>2, DoStepIs
      <4>2. InRing
        BY <1>6, <1>7, <1>13 DEF Ring
      <4>3. txSending # Idle => txAt \in {0, 1}
        BY <1>3 DEF TxTypes
      <4> QED BY <1>1, <1>3, <1>4, <2>1, <2>2, <3>2, <4>1, <4>2, <4>3 DEF InRing
    <3> QED BY <3>1, <3>2
  <2>4. txNic \notin NeverWaits
    BY <1>5, <1>13 DEF Fifo, NeverWaits
  <2>5. txNic \in Fifo /\ Has("own") /\ ~Has("room")' => ~txOwn'[txEntry]
    BY <1>2, <1>4, <1>7, <2>2 DEF Ring
  <2> QED BY <1>1, <1>2, <1>3, <1>5, <1>7, <1>13, <2>1, <2>2, <2>3, <2>4, <2>5, SameRing DEF Fifo
<1> QED BY <1>5, <1>8, <1>9, <1>10, <1>11, <1>12, <1>13

\* The eepro100 driver forgets a frame that is out.
LEMMA GoneKeeps ==
  ASSUME TxTypes, Fits(txNic, txProg), Faithful, ~txExcused', txProg # <<>>,
         Head(txProg) = "gone", DoStep("gone")
  PROVE  Faithful'
<1> DEFINE I == 0 .. TxCount - 1
<1>1. /\ txProg' = Tail(txProg)
      /\ UNCHANGED <<txNic, txEntry, txAgain, txLate, txAsked, txOut, txOwn, txOn, txSending>>
  BY DoStepIs
<1>2. /\ ~Has("own") /\ ~Has("wait") /\ ~Has("sent") /\ ~Has("own")' /\ ~Has("wait")' /\ ~Has("sent")'
  BY <1>1, Goes
<1>3. txNic = "eepro100"
  BY StepOf
<1>4. I = {0} /\ (\A k : Buffer(k) = k) /\ TxCount' = TxCount /\ txEntry \in I
  BY <1>1, <1>3, Descriptors, SameDriver DEF TxTypes, TwoBuffers, Shared
<1>5. OneBuffer /\ txNic \notin TwoBuffers
  BY <1>3 DEF Faithful, TwoBuffers
<1>6. ~txOwn[0] /\ txSending = Idle
  <2>1. CASE txLate
    <3>1. ~Reading(0)
      <4>1. ~Overwrites /\ txNic \notin StopsWhenFailed /\ txOwn \in [I -> BOOLEAN]
        BY <1>3, DoStepIs DEF StopsWhenFailed, TxTypes
      <4> QED BY <4>1, <1>4, <2>1 DEF Overwrites
    <3>2. txOn
      BY <1>3, <1>5 DEF OneBuffer
    <3>3. txSending = Idle \/ txSending.slot = 0
      BY <1>4 DEF TxTypes
    <3> QED BY <3>1, <3>2, <3>3 DEF Reading
  <2>2. CASE ~txLate
    <3>1. ~txOwn[0]
      BY <1>2, <1>3, <1>4, <1>5, <2>2 DEF OneBuffer, NeverWaits
    <3>2. txSending = Idle \/ txSending.slot = 0
      BY <1>4 DEF TxTypes
    <3> QED BY <1>5, <3>1, <3>2 DEF OneBuffer
  <2> QED BY <2>1, <2>2
<1>7. Written' /\ TrueBuffers' /\ TrueSending'
  BY <1>1, <1>2, <1>4, <1>6 DEF Written, TrueBuffers, TrueSending
<1>8. OneBuffer'
  BY <1>1, <1>2, <1>3, <1>4, <1>5, <1>6 DEF OneBuffer, Mid, Shared
<1> QED BY <1>1, <1>5, <1>7, <1>8 DEF Faithful

---------------------------------------------------------------------------
(* The driver: a frame is written, and is the card's. *)

\* What a write changes.
LEMMA WriteIs ==
  ASSUME TxTypes, Fits(txNic, txProg), txProg # <<>>,
         NEW h \in Writes, h = Head(txProg), DoStep(h)
  PROVE  /\ UNCHANGED <<txNic, txEntry, txAgain, txLate, txAsked, txOut, txOwn, txCur, txAt,
                        txOn, txSending, txFailed>>
         /\ Has("own") /\ Has("own")' /\ Mid'
         /\ \A s \in Writes : ~Has(s)' => s = h \/ ~Has(s)
         /\ Has(h) /\ ~Has("room")
         /\ \A s \in {"next", "wait", "sent", "glance", "room"} : Has(s)' <=> Has(s)
         /\ TxCount' = TxCount /\ (\A k : Buffer(k)' = Buffer(k)) /\ (\A k : Follow(k)' = Follow(k))
         /\ txBuf'[Buffer(txEntry)].head = IF h = "head" THEN txAsked ELSE txBuf[Buffer(txEntry)].head
         /\ txBuf'[Buffer(txEntry)].body = IF h = "body" THEN txAsked ELSE txBuf[Buffer(txEntry)].body
         /\ \A k \in 0 .. TxCount - 1 : Buffer(k) # Buffer(txEntry) => txBuf'[Buffer(k)] = txBuf[Buffer(k)]
         /\ txProg # <<"start">> /\ txProg # <<"load">> /\ txProg' # <<"load">>
<1>1. /\ txProg' = Tail(txProg)
      /\ UNCHANGED <<txNic, txEntry, txAgain, txLate, txAsked, txOut, txOwn, txCur, txAt, txOn, txSending, txFailed>>
  BY DoStepIs DEF Writes
<1>2. /\ Has("own") /\ Has("own")' /\ Has(h) /\ ~Holds(txProg', h) /\ ~Has("room")
      /\ \A s \in Writes : ~Has(s)' => s = h \/ ~Has(s)
      /\ \A s \in {"next", "wait", "sent", "glance", "room"} : Has(s)' <=> Has(s)
  <2>1. \A s \in Writes : h = s => ~Has(s)' /\ ~Has("room")' /\ Has("own")'
    BY <1>1, Goes DEF Writes
  <2>2. \A s : Has(s) <=> s = h \/ Has(s)'
    BY <1>1, Goes
  <2>3. ~Holds(txProg', h)
    BY <2>1 DEF Has
  <2> QED BY <2>1, <2>2, <2>3 DEF Writes
<1>3. Mid'
  BY <1>2 DEF Mid, Has, Writes
<1>4. TxCount' = TxCount /\ (\A k : Buffer(k)' = Buffer(k)) /\ (\A k : Follow(k)' = Follow(k))
  BY <1>1, SameDriver
<1>5. /\ txBuf'[Buffer(txEntry)].head = IF h = "head" THEN txAsked ELSE txBuf[Buffer(txEntry)].head
      /\ txBuf'[Buffer(txEntry)].body = IF h = "body" THEN txAsked ELSE txBuf[Buffer(txEntry)].body
      /\ \A k \in 0 .. TxCount - 1 : Buffer(k) # Buffer(txEntry) => txBuf'[Buffer(k)] = txBuf[Buffer(k)]
  <2> DEFINE B == {Buffer(slot) : slot \in 0 .. TxCount - 1}
             b == Buffer(txEntry)
  <2>1. txBuf \in [B -> [head : 0 .. txAsked, body : 0 .. txAsked]]
    BY DEF TxTypes
  <2>2. b \in B /\ \A k \in 0 .. TxCount - 1 : Buffer(k) \in B
    BY DEF TxTypes
  <2> HIDE DEF B, b
  <2>3. CASE h = "head"
    <3>1. txBuf' = [txBuf EXCEPT ![b].head = txAsked]
      BY <2>3, DoStepIs DEF b
    <3>2. txBuf'[b].head = txAsked /\ txBuf'[b].body = txBuf[b].body
          /\ \A k \in B : k # b => txBuf'[k] = txBuf[k]
      BY <2>1, <2>2, <3>1
    <3> QED BY <3>2, <2>2, <2>3 DEF b
  <2>4. CASE h = "body"
    <3>1. txBuf' = [txBuf EXCEPT ![b].body = txAsked]
      BY <2>4, DoStepIs DEF b
    <3>2. txBuf'[b].body = txAsked /\ txBuf'[b].head = txBuf[b].head
          /\ \A k \in B : k # b => txBuf'[k] = txBuf[k]
      BY <2>1, <2>2, <3>1
    <3> QED BY <3>2, <2>2, <2>4 DEF b
  <2> QED BY <2>3, <2>4 DEF Writes
<1>6. txProg # <<"start">> /\ txProg # <<"load">>
  BY DEF Writes
<1>7. txProg' # <<"load">>
  <2>1. ~Holds(<<"load">>, "own")
    BY DEF Holds
  <2> QED BY <2>1, <1>2 DEF Has
<1> QED BY <1>1, <1>2, <1>3, <1>4, <1>5, <1>6, <1>7

\* What was to be written is.
LEMMA WriteWritten ==
  ASSUME TxTypes, Fits(txNic, txProg), Faithful, txProg # <<>>,
         NEW h \in Writes, h = Head(txProg), DoStep(h)
  PROVE  Written'
<1>1. Written
  BY DEF Faithful
<1>2. /\ ~Has("head")' => h = "head" \/ ~Has("head")
      /\ ~Has("body")' => h = "body" \/ ~Has("body")
  BY WriteIs DEF Writes
<1>3. UNCHANGED <<txEntry, txAsked, txOut>> /\ Has("own") /\ (\A k : Buffer(k)' = Buffer(k))
  BY WriteIs
<1>4. /\ txBuf'[Buffer(txEntry)].head = IF h = "head" THEN txAsked ELSE txBuf[Buffer(txEntry)].head
      /\ txBuf'[Buffer(txEntry)].body = IF h = "body" THEN txAsked ELSE txBuf[Buffer(txEntry)].body
  BY WriteIs
<1> QED BY <1>1, <1>2, <1>3, <1>4 DEF Written, Gone

\* With one buffer the card has nothing while it is written, ...
LEMMA WriteOne ==
  ASSUME TxTypes, Fits(txNic, txProg), Faithful, ~txExcused', txProg # <<>>,
         NEW h \in Writes, h = Head(txProg), DoStep(h), txNic \notin TwoBuffers
  PROVE  Faithful'
<1> DEFINE I == 0 .. TxCount - 1
<1>1. (\A k : Buffer(k) = 0 \/ Buffer(k) = k) /\ (\A k \in I : Buffer(k) = 0) /\ txEntry \in I
  BY Descriptors DEF TxTypes
<1>2. OneBuffer
  BY DEF Faithful
<1>3. /\ UNCHANGED <<txNic, txEntry, txAgain, txLate, txAsked, txOut, txOwn, txCur, txAt,
                     txOn, txSending, txFailed>>
      /\ Has("own") /\ Has("own")' /\ Mid'
      /\ TxCount' = TxCount /\ (\A k : Buffer(k)' = Buffer(k))
      /\ txProg # <<"start">>
  BY WriteIs
<1>4. txSending # Idle => txSending.slot \in I
  BY DEF TxTypes
<1>5. txSending = Idle /\ \A k \in I : ~(txOwn[k] /\ txOn)
  <2>1. CASE txNic \notin NeverWaits /\ ~txLate
    <3>1. \A k \in I : ~txOwn[k]
      BY <1>2, <1>3, <2>1 DEF OneBuffer
    <3> QED BY <1>2, <1>4, <3>1 DEF OneBuffer
  <2>2. CASE txNic \in NeverWaits \/ txLate
    <3>1. ~Overwrites /\ DOMAIN txOwn = I
      BY DoStepIs DEF TxTypes
    <3>2. \A k \in I : ~Reading(k)
      BY <1>1, <2>2, <3>1 DEF Overwrites, Writes
    <3> QED BY <1>4, <3>2 DEF Reading
  <2> QED BY <2>1, <2>2
<1>6. Written'
  BY WriteWritten
<1>7. TrueBuffers'
  BY <1>1, <1>3 DEF TrueBuffers
<1>8. TrueSending'
  BY <1>3, <1>5 DEF TrueSending
<1>9. OneBuffer'
  BY <1>2, <1>3, <1>5 DEF OneBuffer
<1> QED BY <1>3, <1>6, <1>7, <1>8, <1>9 DEF Faithful

\* ... and with two it does not read the one that is.
LEMMA WriteTwo ==
  ASSUME TxTypes, Fits(txNic, txProg), Faithful, ~txExcused', txProg # <<>>,
         NEW h \in Writes, h = Head(txProg), DoStep(h), txNic \in TwoBuffers
  PROVE  Faithful'
<1>1. /\ 0 .. TxCount - 1 = {0, 1} /\ Follow(0) = 1 /\ Follow(1) = 0 /\ \A k : Buffer(k) = k
      /\ txEntry \in {0, 1}
  BY Descriptors DEF TxTypes
<1>2. Ring
  BY DEF Faithful
<1>3. /\ UNCHANGED <<txNic, txEntry, txAgain, txLate, txAsked, txOut, txOwn, txCur, txAt,
                     txOn, txSending, txFailed>>
      /\ Has("own") /\ Has("own")' /\ Mid' /\ ~Has("room")
      /\ (Has("room")' <=> Has("room")) /\ (Has("glance")' <=> Has("glance"))
      /\ TxCount' = TxCount /\ (\A k : Buffer(k)' = Buffer(k)) /\ (\A k : Follow(k)' = Follow(k))
      /\ txProg # <<"load">> /\ txProg' # <<"load">>
  BY WriteIs
<1>4. \A k \in {0, 1} : k # txEntry => txBuf'[k] = txBuf[k]
  BY <1>1, WriteIs
<1>5. InRing /\ txCur = txEntry /\ Free = txEntry /\ Free' = txEntry
  BY <1>2, <1>3 DEF Ring, Free
<1>6. ~txOwn[txEntry]
  <2>1. CASE txNic \in NeverWaits
    <3>1. ~Overwrites /\ DOMAIN txOwn = {0, 1} /\ txOn
      BY <1>1, <1>2, <2>1, DoStepIs DEF TxTypes, Ring
    <3>2. ~Reading(txEntry)
      BY <1>1, <2>1, <3>1 DEF Overwrites, Writes
    <3> QED BY <3>1, <3>2 DEF Reading
  <2>2. CASE txNic \in Fifo \cup {"epic100"}
    BY <1>2, <1>3, <2>2 DEF Ring
  <2> QED BY <2>1, <2>2 DEF TwoBuffers, NeverWaits, Fifo
<1>7. txSending # Idle => txSending.slot \in {0, 1} /\ txSending.slot # txEntry
  <2>1. txSending # Idle => txSending.slot \in {0, 1}
    BY <1>1 DEF TxTypes
  <2> QED BY <1>5, <1>6, <2>1 DEF InRing
<1>8. Written'
  BY WriteWritten
<1>9. \A k \in {0, 1} : k # txEntry /\ Whole(k) => Whole(k)'
  BY <1>3, <1>4 DEF Whole, Gone
<1>10. TrueBuffers'
  <2> SUFFICES ASSUME NEW k \in {0, 1}, txOwn[k], k # txEntry PROVE Whole(k)'
    BY <1>1, <1>3 DEF TrueBuffers
  <2>1. Whole(k)
    BY <1>1 DEF Faithful, TrueBuffers
  <2> QED BY <1>9, <2>1
<1>11. TrueSending'
  <2> SUFFICES ASSUME txSending # Idle
               PROVE  /\ Whole(txSending.slot)'
                      /\ txSending.head = txBuf'[txSending.slot].head
                      /\ txSending.body \in {Unread, txSending.head}
    BY <1>1, <1>3 DEF TrueSending
  <2>1. PICK slot \in {0, 1} : slot = txSending.slot /\ slot # txEntry
    BY <1>7
  <2>2. /\ Whole(slot) /\ txSending.head = txBuf[slot].head
        /\ txSending.body \in {Unread, txSending.head}
    BY <1>1, <2>1 DEF Faithful, TrueSending
  <2>3. Whole(slot)' /\ txBuf'[slot] = txBuf[slot]
    BY <1>4, <1>9, <2>1, <2>2
  <2>4. Whole(txSending.slot)'
    BY <1>3, <2>1, <2>3 DEF Whole, Gone
  <2> QED BY <2>1, <2>2, <2>3, <2>4
<1>12. InRing'
  BY <1>1, <1>3, <1>5, <1>6 DEF InRing
<1>13. Ring'
  BY <1>2, <1>3, <1>5, <1>6, <1>12 DEF Ring
<1> QED BY <1>3, <1>8, <1>10, <1>11, <1>13 DEF Faithful

\* The descriptor becomes the card's, with a frame newer than any it has, ...
LEMMA OwnIs ==
  ASSUME TxTypes, Fits(txNic, txProg), Faithful, txProg # <<>>, Head(txProg) = "own", DoStep("own")
  PROVE  /\ UNCHANGED <<txNic, txEntry, txAgain, txLate, txAsked, txOut, txBuf, txCur, txAt,
                        txOn, txSending>>
         /\ txFailed' = (txFailed /\ txNic \in StopsWhenFailed)
         /\ TxCount' = TxCount /\ (\A k : Buffer(k)' = Buffer(k)) /\ (\A k : Follow(k)' = Follow(k))
         /\ Has("own") /\ ~Has("own")' /\ Mid /\ ~Mid'
         /\ \A k \in 0 .. TxCount - 1 : txOwn'[k] <=> k = txEntry \/ txOwn[k]
         /\ txBuf[Buffer(txEntry)].head = txAsked /\ txBuf[Buffer(txEntry)].body = txAsked
         /\ Gone(txAsked) /\ txAsked \in Nat /\ txAsked > 0
         /\ \A b : Whole(b) => Whole(b)' /\ txBuf[b].head < txAsked
         /\ Whole(Buffer(txEntry))'
         /\ Written' /\ TrueBuffers' /\ TrueSending'
<1>1. /\ UNCHANGED <<txNic, txEntry, txAgain, txLate, txAsked, txOut, txBuf, txCur, txAt, txOn, txSending>>
      /\ txFailed' = (txFailed /\ txNic \in StopsWhenFailed)
      /\ txProg' = Tail(txProg)
  BY DoStepIs
<1>2. TxCount' = TxCount /\ (\A k : Buffer(k)' = Buffer(k)) /\ (\A k : Follow(k)' = Follow(k))
  BY <1>1, SameDriver
<1>3. /\ Has("own") /\ ~Has("own")' /\ ~Has("head") /\ ~Has("body")
  BY <1>1, Goes
<1>4. Mid /\ ~Mid'
  BY <1>3 DEF Mid
<1>5. \A k \in 0 .. TxCount - 1 : txOwn'[k] <=> k = txEntry \/ txOwn[k]
  <2>1. txOwn' = [txOwn EXCEPT ![txEntry] = TRUE]
    BY DoStepIs
  <2>2. txOwn \in [0 .. TxCount - 1 -> BOOLEAN] /\ txEntry \in 0 .. TxCount - 1
    BY DEF TxTypes
  <2> QED BY <2>1, <2>2
<1>6. /\ txBuf[Buffer(txEntry)].head = txAsked /\ txBuf[Buffer(txEntry)].body = txAsked
      /\ Gone(txAsked) /\ txAsked \in Nat /\ txAsked > 0
  BY <1>3 DEF Faithful, Written, TxTypes
<1>7. \A b : Whole(b) => Whole(b)' /\ txBuf[b].head < txAsked
  BY <1>1, <1>3 DEF Whole, Gone
<1>8. Whole(Buffer(txEntry))'
  BY <1>1, <1>2, <1>3, <1>6 DEF Whole, Gone
<1>9. Written'
  BY <1>3 DEF Written
<1>10. TrueBuffers'
  <2> SUFFICES ASSUME NEW k \in 0 .. TxCount - 1, txOwn'[k] PROVE Whole(Buffer(k))'
    BY <1>2 DEF TrueBuffers
  <2>1. CASE Buffer(k) = Buffer(txEntry)
    BY <2>1, <1>1, <1>2, <1>8
  <2>2. CASE Buffer(k) # Buffer(txEntry)
    <3>1. Whole(Buffer(k))
      BY <1>5, <2>2 DEF Faithful, TrueBuffers
    <3> QED BY <1>2, <1>7, <3>1
  <2> QED BY <2>1, <2>2
<1>11. TrueSending'
  <2>1. txSending # Idle => Whole(Buffer(txSending.slot))'
    BY <1>1, <1>2, <1>7 DEF Faithful, TrueSending
  <2> QED BY <1>1, <1>2, <2>1 DEF Faithful, TrueSending
<1> QED BY <1>1, <1>2, <1>3, <1>4, <1>5, <1>6, <1>7, <1>8, <1>9, <1>10, <1>11

\* ... and behind them.
LEMMA OwnKeeps ==
  ASSUME TxTypes, Fits(txNic, txProg), Faithful, txProg # <<>>, Head(txProg) = "own", DoStep("own")
  PROVE  Faithful'
<1> DEFINE I == 0 .. TxCount - 1
<1>1. txProg' = Tail(txProg) /\ txProg # <<"start">> /\ txProg # <<"load">>
  <2>1. Head(<<"start">>) = "start" /\ Head(<<"load">>) = "load"
    OBVIOUS
  <2> QED BY <2>1, DoStepIs
<1>2. ASSUME txNic \notin TwoBuffers PROVE OneBuffer'
  <2>1. OneBuffer
    BY <1>2 DEF Faithful
  <2>2. 0 \in I /\ txEntry \in I
    BY SendSlots DEF TxTypes
  <2>3. txSending = Idle
    BY <2>1, OwnIs DEF OneBuffer
  <2>4. \A k \in I : txOwn'[k] => k = txEntry
    <3>1. CASE txNic \in Shared
      <4>1. \A k \in I : ~txOwn[k]
        BY <1>1, <2>1, <3>1, OwnIs DEF OneBuffer
      <4> QED BY <4>1, OwnIs
    <3>2. CASE txNic \notin Shared
      <4>1. I = {0}
        BY <1>2, <3>2, Descriptors DEF TxTypes
      <4> QED BY <2>2, <4>1
    <3> QED BY <3>1, <3>2
  <2>5. txNic \notin NeverWaits => Has("wait")' \/ Has("sent")'
    BY <1>1, <1>2, Goes
  <2>6. txNic = "3c90x" => txBuf[0].body = txAsked
    <3>1. txNic = "3c90x" => Buffer(txEntry) = 0
      BY <2>2, Descriptors DEF TwoBuffers, Shared, TxTypes
    <3> QED BY <3>1, OwnIs
  <2>7. txNic \in Shared => txOn
    BY <1>1, <2>1 DEF OneBuffer
  <2>8. Gone(txAsked)'
    BY OwnIs DEF Gone
  <2> QED BY <2>1, <2>3, <2>4, <2>5, <2>6, <2>7, <2>8, OwnIs DEF OneBuffer
<1>3. ASSUME txNic \in TwoBuffers PROVE Ring'
  <2>1. Ring /\ InRing
    BY <1>1, <1>3 DEF Faithful, Ring
  <2>2. I = {0, 1} /\ Follow(0) = 1 /\ Follow(1) = 0 /\ (\A k : Buffer(k) = k) /\ txEntry \in I
    BY <1>3, Descriptors DEF TxTypes
  <2>3. txCur = txEntry /\ Free = txEntry /\ ~txOwn[txEntry]
    BY <2>1, OwnIs DEF Ring, Free
  <2>4. Has("next")' /\ Free' = Follow(txEntry)
    <3>1. Has("next")'
      BY <1>1, <1>3, Goes
    <3> QED BY <2>3, <3>1, OwnIs DEF Free
  <2>5. txProg' # <<"load">>
    BY <1>1, <1>3, StepOf
  <2> PICK other \in {0, 1} : other = Follow(txEntry)
    BY <2>2
  <2>6. other # txEntry /\ Follow(other) = txEntry
    BY <2>2
  <2>7. txOwn[other] => Whole(other)
    BY <2>2, <2>6 DEF Faithful, TrueBuffers
  <2>8. /\ txOwn'[txEntry] /\ (txOwn'[other] <=> txOwn[other])
        /\ txOwn[other] => txBuf[other].head < txBuf[txEntry].head
    BY <2>2, <2>6, <2>7, OwnIs
  <2>9. txAt = IF txOwn[other] THEN other ELSE txEntry
    BY <2>1, <2>3 DEF InRing
  <2>10. txSending # Idle => txSending.slot = txAt /\ txOwn[txAt]
    BY <2>1 DEF InRing
  <2>11. InRing'
    <3>1. /\ Free' = other /\ Follow(other)' = txEntry /\ txAt' = txAt /\ txSending' = txSending /\ txBuf' = txBuf
      BY <2>4, <2>6, OwnIs
    <3> QED BY <2>6, <2>8, <2>9, <2>10, <3>1 DEF InRing
  <2>12. txNic = "sk_g16" /\ Has("glance")' => txAgain' = 0
    <3>1. Has("glance")' => Has("glance")
      BY <1>1, Goes
    <3> QED BY <2>1, <3>1, OwnIs DEF Ring
  <2>13. /\ ~Has("own")' /\ ~Mid' /\ UNCHANGED <<txNic, txOn, txSending>> /\ (txFailed' => txFailed)
    BY OwnIs
  <2> QED BY <2>1, <2>5, <2>11, <2>12, <2>13 DEF Ring
<1> QED BY <1>2, <1>3, OwnIs DEF Faithful

---------------------------------------------------------------------------
(* The driver: steps that wait. *)

\* The wait is over, or given up and the rest follows.
LEMMA RestKeeps ==
  ASSUME TxTypes, Fits(txNic, txProg), Faithful, txProg # <<>>, txProg' = Tail(txProg),
         UNCHANGED <<txNic, txOwn, txBuf, txAt, txCur, txEntry, txOn, txSending, txFailed, txAsked, txOut>>,
         NEW h, h = Head(txProg), h \in WaitingSteps,
         h \in {"wait", "sent"} => ~txOwn[txEntry] \/ txLate',
         h = "room" => ~txOwn[txCur],
         txLate => txLate', txAgain' = txAgain
  PROVE  Faithful'
<1> DEFINE I == 0 .. TxCount - 1
<1>1. /\ \A s : Has(s) <=> s = h \/ Has(s)'
      /\ \A s \in {"own", "head", "body", "next"} : Has(s)' <=> Has(s)
  <2>1. \A s : Has(s) <=> s = h \/ Has(s)'
    BY Goes
  <2> QED BY <2>1 DEF WaitingSteps
<1>2. txProg # <<"start">> /\ txProg # <<"load">>
  <2>1. Head(<<"start">>) = "start" /\ Head(<<"load">>) = "load"
    OBVIOUS
  <2> QED BY <2>1 DEF WaitingSteps
<1>3. (\A k \in I : txOwn'[k] => txOwn[k]) /\ txSending' \in {Idle, txSending}
  OBVIOUS
<1>4. ASSUME txNic \notin TwoBuffers PROVE Faithful'
  <2>1. OneBuffer
    BY <1>4 DEF Faithful
  <2>2. txNic \in Shared => txOn'
    BY <1>2, <2>1 DEF OneBuffer
  <2>3. txNic = "eepro100" => txOn'
    BY <2>1 DEF OneBuffer
  <2>4. txNic \notin NeverWaits /\ ~txLate' /\ (Has("own")' \/ (~Has("wait")' /\ ~Has("sent")')) =>
          \A k \in I : ~txOwn'[k]
    <3>1. CASE h \in {"wait", "sent"}
      BY <2>1, <3>1 DEF OneBuffer
    <3>2. CASE h \notin {"wait", "sent"}
      BY <1>1, <2>1, <3>2 DEF OneBuffer
    <3> QED BY <3>1, <3>2
  <2> HIDE DEF I
  <2> QED BY <1>1, <1>3, <1>4, <2>2, <2>3, <2>4, SameOne DEF I
<1>5. ASSUME txNic \in TwoBuffers PROVE Faithful'
  <2>1. Ring /\ InRing
    BY <1>2, <1>5 DEF Faithful, Ring
  <2>2. TxCount' = TxCount /\ \A k : Follow(k)' = Follow(k)
    BY SameDriver
  <2>3. Free' = Free
    BY <1>1, <2>2 DEF Free
  <2>4. InRing'
    BY <2>1, <2>2, <2>3 DEF InRing
  <2>5. txProg' # <<"load">>
    BY <1>5, StepOf DEF WaitingSteps
  <2>6. txNic \in Fifo /\ Has("own") /\ ~Has("room")' => ~txOwn'[txEntry]
    BY <1>1, <2>1 DEF Ring
  <2>7. txNic = "sk_g16" /\ Has("glance")' => txAgain' = 0
    BY <1>1, <2>1 DEF Ring
  <2>8. /\ txNic \in NeverWaits => txOn'
        /\ txNic \in Fifo /\ txFailed' => ~txOn' /\ txSending' = Idle
    BY <2>1 DEF Ring
  <2> HIDE DEF I
  <2> QED BY <1>1, <1>3, <1>5, <2>4, <2>5, <2>6, <2>7, <2>8, SameRing DEF I
<1> QED BY <1>4, <1>5

\* What follows a wait that was given up: the rest, nothing, a reset, or the
\* frame again.
LEMMA GivesUpIs ==
  ASSUME TxTypes, NEW late \in BOOLEAN, GivesUpWaiting(late)
  PROVE  /\ UNCHANGED <<txNic, txOwn, txBuf, txAt, txCur, txEntry, txOn, txSending, txFailed, txAsked, txOut>>
         /\ txLate => txLate'
         /\ late => txLate'
         /\ ~txExcused' => ~txExcused /\ ~(txNic = "3c90x" /\ late)
         /\ \/ txProg' = Tail(txProg) /\ txAgain' = txAgain
            \/ Program.onLate /\ txAgain < MaxAgain /\ txProg' = Program.late
            \/ Program.onLate /\ ~(txAgain < MaxAgain) /\ txProg' = <<>>
<1>1. UNCHANGED <<txNic, txOwn, txBuf, txAt, txCur, txEntry, txOn, txSending, txFailed, txAsked, txOut>>
  BY DEF GivesUpWaiting, txCard
<1>2. /\ txLate => txLate'
      /\ late => txLate'
      /\ ~txExcused' => ~txExcused /\ ~(txNic = "3c90x" /\ late)
  BY Zenon DEF GivesUpWaiting
<1>3. \/ txProg' = Tail(txProg) /\ txAgain' = txAgain + 0
      \/ Program.onLate /\ txAgain < MaxAgain /\ txProg' = Program.late
      \/ Program.onLate /\ ~(txAgain < MaxAgain) /\ txProg' = <<>>
  BY Zenon DEF GivesUpWaiting
<1>4. txAgain \in Nat
  BY DEF TxTypes
<1> QED BY <1>1, <1>2, <1>3, <1>4

\* ... and nothing is lost: those that reset the card have nothing more to write,
\* and the 3C90x driver sends again only what the card reports as failed.
LEMMA GivesUpKeeps ==
  ASSUME TxTypes, Fits(txNic, txProg), Faithful, ~txExcused', txProg # <<>>,
         NEW late \in BOOLEAN, GivesUpWaiting(late),
         \/ Head(txProg) = "wait" /\ late = ~Done /\ ~(Done /\ ~txFailed)
         \/ Head(txProg) = "glance" /\ late = FALSE /\ txFailed
  PROVE  Faithful'
<1> DEFINE I == 0 .. TxCount - 1
<1>1. CASE txProg' = Tail(txProg) /\ txAgain' = txAgain
  <2>1. Head(txProg) \in WaitingSteps
    BY DEF WaitingSteps
  <2>2. Head(txProg) \in {"wait", "sent"} => ~txOwn[txEntry] \/ txLate'
    BY GivesUpIs DEF Done
  <2>3. Head(txProg) # "room"
    OBVIOUS
  <2> QED BY <1>1, <2>1, <2>2, <2>3, GivesUpIs, RestKeeps
<1>2. ASSUME Program.onLate,
             \/ txAgain < MaxAgain /\ txProg' = Program.late
             \/ ~(txAgain < MaxAgain) /\ txProg' = <<>>
      PROVE  Faithful'
  <2>1. /\ UNCHANGED <<txNic, txOwn, txBuf, txAt, txCur, txEntry, txOn, txSending, txFailed, txAsked, txOut>>
        /\ txLate => txLate'
        /\ late => txLate'
        /\ ~(txNic = "3c90x" /\ late)
    BY GivesUpIs
  <2>2. txNic \in {"rtl8139", "smc9000", "sk_g16", "3c90x"}
    BY <1>2, Late DEF Program, TxTypes
  <2>3. /\ ~Has("own") /\ ~Has("head") /\ ~Has("body") /\ ~Mid
    <3> DEFINE q == Tail(txProg)
    <3>1. ~Holds(q, "head") /\ ~Holds(q, "body") /\ ~Holds(q, "own")
      BY NextStep
    <3> QED BY <3>1, HoldsRest DEF Has, Mid
  <2>4. /\ \A s : Has(s)' <=> Holds(txProg', s)
        /\ \A s : ~Holds(<<>>, s)
    BY NothingHeld DEF Has
  <2>5. (\A k \in I : txOwn'[k] => txOwn[k]) /\ txSending' \in {Idle, txSending}
    BY <2>1
  <2>6. late => ~Done
    OBVIOUS
  <2>7. ASSUME txNic \in {"rtl8139", "smc9000"} PROVE Faithful'
    <3>1. txNic \notin TwoBuffers /\ txNic # "sk_g16" /\ txNic # "eepro100" /\ txNic # "3c90x"
      BY <2>7 DEF TwoBuffers
    <3>2. Head(txProg) = "wait" /\ OneBuffer
      BY <3>1, StepOf DEF Faithful
    <3>3. /\ \A s \in {"own", "head", "body", "wait", "sent"} : ~Holds(Program.late, s)
      BY <1>2, <2>7, Late DEF Program, TxTypes
    <3>4. \A s \in {"own", "head", "body"} : Has(s)' <=> Has(s)
      BY <1>2, <2>3, <2>4, <3>3
    <3>5. txProg # <<"start">>
      <4>1. Head(<<"start">>) = "start"
        OBVIOUS
      <4> QED BY <4>1, <3>2
    <3>6. txNic \in Shared => txOn'
      BY <2>1, <3>2, <3>5 DEF OneBuffer
    <3>7. txNic \notin NeverWaits /\ ~txLate' => \A k \in I : ~txOwn'[k]
      <4> SUFFICES ASSUME txNic \notin NeverWaits, ~txLate', NEW k \in I, txOwn[k] PROVE FALSE
        BY <2>1
      <4>1. k = txEntry
        BY <2>1, <3>2 DEF OneBuffer
      <4>2. Done
        BY <2>1, <3>2
      <4> QED BY <4>1, <4>2 DEF Done
    <3> HIDE DEF I
    <3> QED BY <2>1, <2>3, <2>5, <3>1, <3>4, <3>6, <3>7, SameOne DEF I
  <2>8. ASSUME txNic = "sk_g16" PROVE Faithful'
    <3>1. txNic \in TwoBuffers /\ txNic \in NeverWaits /\ txNic \notin Fifo
      BY <2>8 DEF TwoBuffers, NeverWaits, Fifo
    <3>2. Head(txProg) = "glance" /\ Ring
      BY <3>1, StepOf DEF Faithful
    <3>3. txAgain = 0
      <4>1. Has("glance")
        BY <3>2, HoldsRest DEF Has
      <4> QED BY <2>8, <3>2, <4>1 DEF Ring
    <3>4. txProg' = Program.late
      BY <1>2, <3>3, TxAssumption
    <3>5. ~Holds(txProg', "own") /\ ~Holds(txProg', "glance") /\ Holds(txProg', "next") /\ txProg' # <<"load">>
      BY <1>2, <2>8, <3>4, Late DEF Program, TxTypes
    <3>6. Has("next")
      <4>1. Holds(Tail(txProg), "next")
        BY <3>2, NextStep
      <4> QED BY <4>1, HoldsRest DEF Has
    <3>7. TxCount' = TxCount /\ \A k : Follow(k)' = Follow(k)
      BY <2>1, SameDriver
    <3>8. txProg # <<"load">>
      <4>1. Head(<<"load">>) = "load"
        OBVIOUS
      <4> QED BY <4>1, <3>2
    <3>9. Free' = Free
      BY <2>1, <2>3, <2>4, <3>5, <3>6, <3>7 DEF Free
    <3>10. InRing'
      BY <2>1, <3>2, <3>7, <3>8, <3>9 DEF Ring, InRing
    <3>11. txOn
      BY <3>1, <3>2 DEF Ring
    <3>12. \A s \in {"own", "head", "body"} : Has(s)' <=> Has(s)
      <4>1. ~Holds(Program.late, "head") /\ ~Holds(Program.late, "body")
        BY <1>2, <2>8, Late DEF Program, TxTypes
      <4> QED BY <2>3, <2>4, <3>4, <3>5, <4>1
    <3> HIDE DEF I
    <3> QED BY <2>1, <2>3, <2>4, <2>5, <3>1, <3>5, <3>10, <3>11, <3>12, SameRing DEF I
  <2>9. ASSUME txNic = "3c90x" PROVE Faithful'
    <3>1. txNic \notin TwoBuffers \cup Shared /\ txNic # "sk_g16" /\ txNic # "eepro100" /\ txNic \notin NeverWaits
      BY <2>9 DEF TwoBuffers, Shared, NeverWaits
    <3>2. Head(txProg) = "wait" /\ OneBuffer /\ I = {0} /\ txEntry \in I /\ Buffer(0) = 0
      BY <3>1, StepOf, Descriptors DEF Faithful, TxTypes
    <3>3. Done /\ txFailed /\ ~txOwn[0]
      BY <2>1, <2>9, <3>2 DEF Done
    <3>4. txSending = Idle
      <4>1. txSending = Idle \/ txSending.slot = 0
        BY <3>2 DEF TxTypes
      <4> QED BY <3>2, <3>3, <4>1 DEF OneBuffer
    <3>5. Gone(txAsked) /\ txBuf[0].body = txAsked /\ txAsked > 0
      BY <2>3, <2>9, <3>2, <3>3 DEF OneBuffer
    <3>6. TxCount' = TxCount /\ (\A k : Buffer(k)' = Buffer(k))
      BY <2>1, SameDriver
    <3>7. \A f : Gone(f)' <=> Gone(f)
      BY <2>1 DEF Gone
    <3>8. \/ txProg' = <<>> /\ \A s : ~Has(s)'
          \/ Has("own")' /\ Has("head")' /\ ~Has("body")'
      <4>1. Holds(Program.late, "own") /\ Holds(Program.late, "head") /\ ~Holds(Program.late, "body")
        BY <1>2, <2>9, Late DEF Program, TxTypes
      <4> QED BY <1>2, <2>4, <4>1
    <3>9. Written'
      <4>1. Gone(txAsked)'
        BY <2>1, <3>5, <3>7 DEF Gone
      <4>2. txEntry = 0
        BY <3>2
      <4> QED BY <2>1, <3>2, <3>5, <3>6, <3>8, <4>1, <4>2 DEF Written
    <3>10. TrueBuffers' /\ TrueSending'
      BY <2>1, <3>2, <3>3, <3>4, <3>6 DEF TrueBuffers, TrueSending
    <3>11. OneBuffer'
      BY <2>1, <3>1, <3>2, <3>3, <3>4, <3>6, <3>8 DEF OneBuffer
    <3> QED BY <2>1, <3>1, <3>9, <3>10, <3>11 DEF Faithful
  <2> QED BY <2>2, <2>7, <2>8, <2>9
<1>3. \/ txProg' = Tail(txProg) /\ txAgain' = txAgain
      \/ Program.onLate /\ txAgain < MaxAgain /\ txProg' = Program.late
      \/ Program.onLate /\ ~(txAgain < MaxAgain) /\ txProg' = <<>>
  BY GivesUpIs
<1>4. ASSUME ~(txProg' = Tail(txProg) /\ txAgain' = txAgain) PROVE Faithful'
  <2>1. /\ Program.onLate
        /\ \/ txAgain < MaxAgain /\ txProg' = Program.late
           \/ ~(txAgain < MaxAgain) /\ txProg' = <<>>
    BY <1>3, <1>4, Zenon
  <2> QED BY <1>2, <2>1
<1> QED BY <1>1, <1>4

---------------------------------------------------------------------------
(* All steps of the driver. *)

\* The driver keeps what the card has to send whole.
LEMMA TxStepKeeps ==
  ASSUME TxTypes, Fits(txNic, txProg), Faithful, ~txExcused', TxStep
  PROVE  Faithful'
<1> DEFINE h == Head(txProg)
<1>1. txProg # <<>> /\ h \in SendSteps
  BY TxStepIs, Rest
<1>2. ASSUME txProg' = Tail(txProg), h \in WaitingSteps,
             UNCHANGED <<txNic, txOwn, txBuf, txAt, txCur, txEntry, txOn, txSending, txFailed,
                         txAgain, txLate, txAsked, txOut>>,
             h \in {"wait", "sent"} => Done,
             h = "room" => ~txOwn[txCur]
      PROVE  Faithful'
  <2>1. h \in {"wait", "sent"} => ~txOwn[txEntry] \/ txLate'
    BY <1>2 DEF Done
  <2> HIDE DEF h
  <2> QED BY <1>1, <1>2, <2>1, RestKeeps DEF h
<1>3. ASSUME GoesOn, h \in WaitingSteps, h \in {"wait", "sent"} => Done, h = "room" => ~txOwn[txCur]
      PROVE  Faithful'
  <2>1. /\ txProg' = Tail(txProg)
        /\ UNCHANGED <<txNic, txOwn, txBuf, txAt, txCur, txEntry, txOn, txSending, txFailed,
                        txAgain, txLate, txAsked, txOut>>
    BY <1>3 DEF GoesOn, txCard
  <2> QED BY <1>2, <1>3, <2>1
<1>4. ASSUME h = "wait", ~(Done /\ ~txFailed), GivesUpWaiting(~Done) PROVE Faithful'
  <2>1. PICK late \in BOOLEAN : late = ~Done
    OBVIOUS
  <2> QED BY <1>1, <1>4, <2>1, GivesUpKeeps
<1>5. ASSUME h = "glance", txFailed, GivesUpWaiting(FALSE) PROVE Faithful'
  BY <1>1, <1>5, GivesUpKeeps
<1>6. ASSUME h \notin WaitingSteps, DoStep(h) PROVE Faithful'
  <2>1. h \in {"stop", "start", "load", "next", "chip", "free", "disown", "recover"} \/ h \in {"gone", "own", "head", "body"}
    BY <1>1, <1>6 DEF SendSteps, WaitingSteps
  <2>2. ASSUME h \in {"stop", "start", "load", "next", "chip", "free", "disown", "recover"} PROVE Faithful'
    <3>1. CASE txNic \in TwoBuffers
      BY <1>1, <1>6, <2>2, <3>1, QuietTwo
    <3>2. CASE txNic \notin TwoBuffers
      <4>1. h \notin {"free", "disown", "recover"}
        BY <1>1, <3>2, StepOf DEF TwoBuffers, Fifo
      <4> QED BY <1>1, <1>6, <2>2, <3>2, <4>1, QuietOne
    <3> QED BY <3>1, <3>2
  <2>3. ASSUME h = "gone" PROVE Faithful'
    BY <1>1, <1>6, <2>3, GoneKeeps
  <2>4. ASSUME h = "own" PROVE Faithful'
    BY <1>1, <1>6, <2>4, OwnKeeps
  <2>5. ASSUME h \in {"head", "body"} PROVE Faithful'
    <3>1. CASE txNic \in TwoBuffers
      BY <1>1, <1>6, <2>5, <3>1, WriteTwo DEF Writes
    <3>2. CASE txNic \notin TwoBuffers
      BY <1>1, <1>6, <2>5, <3>2, WriteOne DEF Writes
    <3> QED BY <3>1, <3>2
  <2> QED BY <2>1, <2>2, <2>3, <2>4, <2>5
<1>7. \/ h = "wait" /\ Done /\ ~txFailed /\ GoesOn
      \/ h = "wait" /\ ~(Done /\ ~txFailed) /\ GivesUpWaiting(~Done)
      \/ h = "glance" /\ ~txFailed /\ GoesOn
      \/ h = "glance" /\ txFailed /\ GivesUpWaiting(FALSE)
      \/ h = "room" /\ ~txOwn[txCur] /\ GoesOn
      \/ h = "sent" /\ Done /\ GoesOn
      \/ h = "fetched" /\ GoesOn
      \/ /\ h = "sign" /\ txProg' = Tail(txProg)
         /\ UNCHANGED <<txNic, txOwn, txBuf, txCur, txEntry, txOn, txAt, txSending,
              txFailed, txDead, txAgain, txLate, txAsked, txOut, txExcused>>
      \/ h \notin WaitingSteps /\ DoStep(h)
  BY TxStepIs
<1> HIDE DEF h
<1>8. /\ h = "wait" /\ Done /\ ~txFailed /\ GoesOn => Faithful'
      /\ h = "glance" /\ ~txFailed /\ GoesOn => Faithful'
      /\ h = "room" /\ ~txOwn[txCur] /\ GoesOn => Faithful'
      /\ h = "sent" /\ Done /\ GoesOn => Faithful'
      /\ h = "fetched" /\ GoesOn => Faithful'
  BY <1>3 DEF WaitingSteps
<1>9. /\ h = "sign" /\ txProg' = Tail(txProg)
      /\ UNCHANGED <<txNic, txOwn, txBuf, txCur, txEntry, txOn, txAt, txSending,
              txFailed, txDead, txAgain, txLate, txAsked, txOut, txExcused>>
      => Faithful'
  BY <1>2 DEF WaitingSteps
<1> QED BY <1>4, <1>5, <1>6, <1>7, <1>8, <1>9, Zenon

---------------------------------------------------------------------------
(* The invariant, and the link. *)

\* Every step keeps the invariant, and no driver is unexcused again.
LEMMA TxKept ==
  ASSUME TxInv, TxNext
  PROVE  TxInv' /\ (txExcused => txExcused')
<1>1. TxTypes' /\ Fits(txNic, txProg)'
  BY TypesKept DEF TxInv
<1>2. txExcused => txExcused'
  <2>1. CardWorks \/ CardSigns \/ CardDies \/ eth_transmit => txExcused' = txExcused
    BY DEF CardWorks, CardSigns, CardDies, eth_transmit, driverVars
  <2>2. ASSUME TxStep, ~txExcused' PROVE ~txExcused
    <3> DEFINE h == Head(txProg)
    <3>1. GoesOn => txExcused' = txExcused
      BY DEF GoesOn
    <3>2. ASSUME NEW late \in BOOLEAN, GivesUpWaiting(late) PROVE ~txExcused
      BY <2>2, <3>2, Zenon DEF GivesUpWaiting
    <3>3. ASSUME DoStep(h) PROVE ~txExcused
      BY <2>2, <3>3, DoStepIs DEF TxInv
    <3>4. (~Done) \in BOOLEAN
      OBVIOUS
    <3> QED BY <2>2, <3>1, <3>2, <3>3, <3>4, TxStepIs
  <2> QED BY <2>1, <2>2 DEF TxNext
<1>3. ASSUME ~txExcused' PROVE Faithful'
  <2>1. TxTypes /\ Fits(txNic, txProg) /\ Faithful
    BY <1>2, <1>3 DEF TxInv
  <2>2. CASE CardWorks
    BY <2>1, <2>2, BeginsKeeps, ReadsKeeps, EndsKeeps DEF CardWorks
  <2>3. CASE CardSigns
    BY <2>1, <2>3, AsideKeeps DEF CardSigns, Signs, driverVars
  <2>4. CASE CardDies
    BY <2>1, <2>4, AsideKeeps DEF CardDies, driverVars
  <2>5. CASE eth_transmit
    BY <2>1, <2>5, CallKeeps
  <2>6. CASE TxStep
    BY <2>1, <2>6, <1>3, TxStepKeeps
  <2> QED BY <2>2, <2>3, <2>4, <2>5, <2>6 DEF TxNext
<1> QED BY <1>1, <1>2, <1>3 DEF TxInv

\* The invariant holds.
LEMMA SendsInOrder == TxSpec => []TxInv
<1>1. TxInit => TxInv
  BY TxInitTypes, InitFaithful DEF TxInv
<1>2. TxInv /\ [TxNext]_txVars => TxInv'
  <2> SUFFICES ASSUME TxInv, [TxNext]_txVars PROVE TxInv'
    OBVIOUS
  <2>1. CASE TxNext
    BY <2>1, TxKept
  <2>2. CASE UNCHANGED txVars
    <3>1. TxTypes' /\ Fits(txNic, txProg)'
      BY TypesKept DEF TxInv
    <3>2. /\ UNCHANGED <<txNic, txOwn, txBuf, txAt, txCur, txEntry, txOn, txSending, txFailed,
                         txProg, txAgain, txLate, txAsked, txOut>>
          /\ txExcused' = txExcused
      BY <2>2 DEF txVars, txCard
    <3>3. Faithful => Faithful'
      BY <3>2, AsideKeeps
    <3> QED BY <3>1, <3>2, <3>3 DEF TxInv
  <2> QED BY <2>1, <2>2
<1> QED BY <1>1, <1>2, PTL DEF TxSpec

\* What goes out is a frame that was to be sent, whole, and newer than what went
\* out before, unless the driver is excused.
LEMMA EndsSound ==
  ASSUME TxInv, NEW sent \in BOOLEAN, CardWorks, Ends(sent)
  PROVE  Tx!Leave \/ UNCHANGED <<txAsked, txOut>>
<1>1. /\ UNCHANGED <<txAsked, txExcused>>
      /\ txSending # Idle /\ (sent => txSending.body # Unread)
      /\ ~sent => txOut' = txOut
      /\ sent => txOut' = Append(txOut, IF txSending.head = txSending.body THEN txSending.head ELSE 0)
  BY Zenon DEF CardWorks, Ends, driverVars
<1>2. CASE sent
  <2> DEFINE f == IF txSending.head = txSending.body THEN txSending.head ELSE 0
  <2>1. f \in 0 .. txAsked
    BY <1>1 DEF TxInv, TxTypes
  <2>2. ASSUME ~txExcused PROVE f \in 1 .. txAsked /\ \A i \in DOMAIN txOut : txOut[i] < f
    <3>1. TrueSending
      BY <2>2 DEF TxInv, Faithful
    <3>2. f = txSending.head
      BY <1>1, <1>2, <3>1 DEF TrueSending
    <3>3. txSending.head \in 1 .. txAsked /\ Gone(txSending.head)
      BY <1>1, <3>1 DEF TrueSending, Whole
    <3> QED BY <3>2, <3>3 DEF Gone
  <2>3. txOut' = Append(txOut, f)
    BY <1>1, <1>2
  <2> HIDE DEF f
  <2> QED BY <1>1, <2>1, <2>2, <2>3 DEF Tx!Leave
<1> QED BY <1>1, <1>2

\* The sending half of ImplementsLink: what goes out is what eth_transmit was
\* given, whole, each frame at most once and in order.
THEOREM TransmitterImplementsLink == TxSpec => Tx!LinkSpec
<1>1. TxInit => Tx!LinkInit
  BY DEF TxInit, Tx!LinkInit
<1>2. TxInv /\ [TxNext]_txVars => [Tx!LinkNext]_(Tx!linkVars)
  <2> SUFFICES ASSUME TxInv, [TxNext]_txVars PROVE Tx!LinkNext
    BY DEF Tx!LinkNext
  <2>1. CASE TxNext
    <3>1. txExcused => txExcused'
      BY <2>1, TxKept
    <3>2. Tx!Enter \/ Tx!Leave \/ UNCHANGED <<txAsked, txOut>>
      <4>1. CASE CardWorks
        <5>1. Begins \/ Reads => UNCHANGED <<txAsked, txOut>>
          BY <4>1 DEF CardWorks, driverVars, Begins, Reads
        <5> QED BY <4>1, <5>1, EndsSound DEF CardWorks
      <4>2. CASE CardSigns \/ CardDies
        BY <4>2 DEF CardSigns, CardDies, Signs, driverVars
      <4>3. CASE eth_transmit
        BY <4>3 DEF eth_transmit, Tx!Enter
      <4>4. CASE TxStep
        <5>1. GoesOn => UNCHANGED <<txAsked, txOut>>
          BY DEF GoesOn
        <5>2. \A late : GivesUpWaiting(late) => UNCHANGED <<txAsked, txOut>>
          BY DEF GivesUpWaiting
        <5>3. \A h : DoStep(h) => UNCHANGED <<txAsked, txOut>>
          BY DEF DoStep
        <5> QED BY <4>4, <5>1, <5>2, <5>3, TxStepIs
      <4> QED BY <2>1, <4>1, <4>2, <4>3, <4>4 DEF TxNext
    <3> QED BY <3>1, <3>2 DEF Tx!LinkNext
  <2>2. CASE UNCHANGED txVars
    BY <2>2 DEF txVars, Tx!LinkNext
  <2> QED BY <2>1, <2>2
<1> QED BY <1>1, <1>2, SendsInOrder, PTL DEF TxSpec, Tx!LinkSpec

\* ImplementsLink: a card and its driver implement the link, in both directions,
\* for each of the drivers, any number of frames, and whenever the card does
\* what it does.
THEOREM NicImplementsLink == RxSpec /\ TxSpec => ImplementsLink
BY ReceiverImplementsLink, TransmitterImplementsLink DEF ImplementsLink

=============================================================================
