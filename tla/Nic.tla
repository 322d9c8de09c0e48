-------------------------------- MODULE Nic --------------------------------
(***************************************************************************)
(* A network card and the driver that is linked in.  The two directions    *)
(* share nothing but the card, so each has state of its own: a card that   *)
(* stores frames between any two steps of eth_poll, eth_transmit and       *)
(* eth_disable, and one that reads descriptors and buffers between any two *)
(* steps of eth_transmit.                                                  *)
(***************************************************************************)
EXTENDS NicDrivers, Integers, FiniteSets

-----------------------------------------------------------------------------
(* Receiving. *)
CONSTANTS MaxArrivals,   \* frames that come
          MaxStrays      \* of them, those after eth_disable that are looked at

ASSUME RxAssumption == MaxArrivals \in Nat /\ MaxStrays \in Nat

VARIABLES
  rxNic,      \* the driver that is linked in
  rxSlots,    \* what the card's slots hold, and whether that is the driver's
  rxAt,       \* the slot the card fills next
  rxCur,      \* the driver's slot: cur_rx, rxd_tail, rmdnum
  rxOn,       \* the receiver runs
  rxOverrun,  \* the card has reported a frame it had no room for
  rxLastBad,  \* the last frame to come was damaged
  packet,     \* nic->packet
  rxProg,     \* what the driver has still to do before it returns
  rxClosed,   \* eth_disable was called
  rxArrived, rxSpoilt, rxOut, rxExcused    \* history: see Link.tla

rxVars == <<rxNic, rxSlots, rxAt, rxCur, rxOn, rxOverrun, rxLastBad, packet,
            rxProg, rxClosed, rxArrived, rxSpoilt, rxOut, rxExcused>>
rxCard == <<rxAt, rxOn, rxOverrun, rxLastBad>>
rxHistory == <<rxArrived, rxSpoilt, rxOut, rxExcused>>

SlotCount == IF rxNic \in {"eepro100", "ni5010"} THEN 1 ELSE 2
After(slot) == (slot + 1) % SlotCount
Empty == [stored |-> FALSE, frame |-> 0, kind |-> "sound"]

\* What a card does with a frame, as far as its driver counts on it.
StopsWithoutRoom ==
  {"natsemi", "sis900", "fa311", "w89c840", "epic100", "eepro100"}
StopsAfterFrame == {"ni5010"}
DropsDamaged == {"ns8390", "eepro"}
Kinds == IF rxNic = "w89c840" THEN {"sound", "damaged", "long"} ELSE {"sound", "damaged"}

(***************************************************************************)
(* What the drivers do not promise.  Four look at no error, and one of     *)
(* them copies from a slot it has given back; three do not stop the card;  *)
(* one leaves the slot of a long frame in the driver's hands, one stays at *)
(* a slot it gave back, and one resets rings that the card is filling.     *)
(***************************************************************************)
LooksAtNoError == {"epic100", "otulip", "depca", "eepro100"}
CopiesTooLate == rxNic = "eepro100" /\ \E i \in DOMAIN rxProg : rxProg[i] = "copy"
ResetsWhileOn == rxNic = "epic100" /\ \E i \in DOMAIN rxProg : rxProg[i] \in {"rings", "point"}

NotPromised(kind) ==
  \/ kind # "sound" /\ rxNic \in LooksAtNoError
  \/ kind = "long" /\ rxNic = "w89c840"
  \/ kind = "damaged" /\ rxNic = "sk_g16"

(***************************************************************************)
(* The probe finds a card that something before has left running.          *)
(***************************************************************************)
RxInit ==
  /\ rxNic \in Receivers
  /\ rxSlots = [i \in 0 .. SlotCount - 1 |-> Empty]
  /\ rxAt \in 0 .. SlotCount - 1 /\ rxCur = 0
  /\ rxOn = TRUE /\ rxOverrun = FALSE /\ rxLastBad = FALSE
  /\ packet = 0 /\ rxProg = ProbeOf(rxNic) /\ rxClosed = FALSE
  /\ rxArrived = 0 /\ rxSpoilt = {} /\ rxOut = <<>> /\ rxExcused = FALSE

\* A frame comes in.
Arrive(kind) ==
  LET frame == rxArrived + 1
      dropped == kind = "damaged" /\ rxNic \in DropsDamaged
      stores == rxOn /\ ~dropped /\ ~rxSlots[rxAt].stored
  IN  /\ ~rxClosed /\ rxArrived < MaxArrivals
      /\ rxArrived' = frame
      /\ rxSpoilt' = IF kind = "sound" THEN rxSpoilt ELSE rxSpoilt \cup {frame}
      /\ rxLastBad' = IF rxOn THEN dropped ELSE rxLastBad
      /\ IF stores
         THEN /\ rxSlots' = [rxSlots EXCEPT ![rxAt] =
                               [stored |-> TRUE, frame |-> frame, kind |-> kind]]
              /\ rxAt' = After(rxAt) /\ rxOn' = (rxNic \notin StopsAfterFrame)
              /\ UNCHANGED rxOverrun
         ELSE LET full == rxOn /\ ~dropped
              IN  /\ rxOverrun' = (rxOverrun \/ full)
                  /\ rxOn' = (rxOn /\ ~(full /\ rxNic \in StopsWithoutRoom))
                  /\ UNCHANGED <<rxSlots, rxAt>>
      /\ rxExcused' = (rxExcused \/ (stores /\ (CopiesTooLate \/ ResetsWhileOn \/ NotPromised(kind))))
      /\ UNCHANGED <<rxNic, rxCur, packet, rxProg, rxClosed, rxOut>>

\* A frame that is stored after eth_disable, in memory that is no longer the
\* driver's.
Stray ==
  /\ rxClosed /\ rxOn /\ rxProg = <<>> /\ ~rxSlots[rxAt].stored
  /\ Cardinality({i \in DOMAIN rxOut : rxOut[i] = 0}) < MaxStrays
  /\ rxOut' = Append(rxOut, 0)
  /\ rxExcused' = (rxExcused \/ rxNic \in NeverDisabled)
  /\ UNCHANGED <<rxNic, rxSlots, rxCur, packet, rxProg, rxClosed, rxCard,
                 rxArrived, rxSpoilt>>

(***************************************************************************)
(* The driver.                                                             *)
(***************************************************************************)
Seen(got) ==
  [stored |-> rxSlots[rxCur].stored, bad |-> rxSlots[rxCur].kind = "damaged",
   long |-> rxSlots[rxCur].kind = "long",
   overrun |-> rxOverrun, lastBad |-> rxLastBad, got |-> got]

eth_poll ==
  /\ rxProg = <<>> /\ ~rxClosed
  /\ packet' = 0 /\ rxProg' = PollOf(rxNic, Seen(FALSE))
  /\ rxOverrun' = FALSE
  /\ UNCHANGED <<rxNic, rxSlots, rxAt, rxCur, rxOn, rxLastBad, rxClosed, rxHistory>>

\* What eth_transmit does to the receiver.
Transmitted ==
  /\ rxProg = <<>> /\ ~rxClosed
  /\ rxProg' \in AfterSendOf(rxNic)
  /\ UNCHANGED <<rxNic, rxSlots, rxCur, packet, rxClosed, rxCard>>
  /\ rxExcused' = (rxExcused \/ (rxNic = "smc9000" /\ rxProg' # <<>>))
  /\ UNCHANGED <<rxArrived, rxSpoilt, rxOut>>

eth_disable ==
  /\ rxProg = <<>> /\ ~rxClosed
  /\ rxClosed' = TRUE
  /\ rxProg' = IF rxNic \in NeverDisabled THEN <<>> ELSE <<"off">>
  /\ UNCHANGED <<rxNic, rxSlots, rxCur, packet, rxCard, rxHistory>>

Given(slots) == [i \in 0 .. SlotCount - 1 |->
                   IF i \in slots THEN [rxSlots[i] EXCEPT !.stored = FALSE] ELSE rxSlots[i]]

RxStep ==
  LET step == Head(rxProg)
      all  == 0 .. SlotCount - 1
      drains == step = "drain" /\ ~rxLastBad
  IN
  /\ rxProg # <<>>
  /\ packet' = IF step = "copy" THEN rxSlots[rxCur].frame ELSE packet
  /\ rxSlots' = CASE step = "give" -> Given({rxCur})
                  [] step = "rings" \/ drains -> Given(all)
                  [] OTHER -> rxSlots
  /\ rxCur' = CASE step = "next" -> After(rxCur)
                [] step = "rings" -> 0
                [] drains -> rxAt
                [] OTHER -> rxCur
  /\ rxAt' = IF step = "point" THEN 0 ELSE rxAt
  /\ rxOn' = IF step = "on" THEN TRUE ELSE rxOn /\ step # "off"
  /\ rxOut' = IF step = "take" THEN Append(rxOut, packet) ELSE rxOut
  /\ rxProg' = IF step = "again" THEN PollOf(rxNic, Seen(packet # 0)) ELSE Tail(rxProg)
  /\ UNCHANGED <<rxNic, rxOverrun, rxLastBad, rxClosed, rxArrived, rxSpoilt, rxExcused>>

RxNext ==
  \/ \E kind \in Kinds : Arrive(kind)
  \/ Stray \/ eth_poll \/ Transmitted \/ eth_disable \/ RxStep

(***************************************************************************)
(* await_reply polls until its time is over, and what it waits for is then *)
(* asked again; that a transmit fails and resets the card need not happen. *)
(***************************************************************************)
Asks == rxNic = "ni5010" /\ Transmitted
RxFairness == WF_rxVars(RxStep) /\ WF_rxVars(eth_poll) /\ SF_rxVars(Asks)
RxSpec == RxInit /\ [][RxNext]_rxVars /\ RxFairness

(***************************************************************************)
(* Properties.                                                             *)
(***************************************************************************)
Rx == INSTANCE Link WITH
  sent <- rxArrived, spoilt <- rxSpoilt, out <- rxOut, excused <- rxExcused

\* The receiver runs, every slot is the card's, and card and driver go on from
\* the same one.
Ready ==
  /\ rxOn /\ rxAt = rxCur
  /\ \A i \in DOMAIN rxSlots : ~rxSlots[i].stored
\* An NS8390's ring is not looked at while the last frame was a damaged one.
Waits == rxNic = "ns8390" /\ rxLastBad

\* KeepsReceiving.  The card comes back again and again to where a frame can be
\* received: no overrun, damaged frame or failed transmit leaves it stopped, its
\* slots lost or the driver at another slot than the card.
KeepsReceiving == []<>(Ready \/ rxClosed \/ Waits \/ rxExcused)

-----------------------------------------------------------------------------
(* Sending. *)
CONSTANTS MaxAsked,     \* frames that are to be sent
          MaxAgain      \* times that one is sent again

ASSUME TxAssumption == MaxAsked \in Nat /\ MaxAgain \in Nat \ {0}

VARIABLES
  txNic,      \* the driver that is linked in
  txOwn,      \* the descriptors that are the card's
  txBuf,      \* each buffer: the frames its head and its body are of
  txAt,       \* the descriptor the card reads next
  txCur,      \* the driver's: cur_tx, TxPtr, tmdnum
  txEntry,    \* the one this call uses
  txOn,       \* the transmitter runs
  txSending,  \* what the card has begun to send: the descriptor, and what it
              \* has read of the buffer
  txFailed,   \* the card gave a frame up and says so
  txSigned,   \* the card has reported something
  txDead,     \* the card does nothing any more
  txProg,     \* what the driver has still to do before it returns
  txAgain,    \* how often the frame was sent again
  txLate,     \* history: a wait was given up
  txAsked, txOut, txExcused    \* history: see Link.tla

txCard == <<txAt, txSending, txFailed, txSigned, txDead>>
txVars == <<txNic, txOwn, txBuf, txCur, txEntry, txOn, txCard, txProg, txAgain,
            txLate, txAsked, txOut, txExcused>>

\* The descriptor says that it failed, or the card does and sends nothing more.
StopsWhenFailed == {"3c509", "3c595"}

Unread == -1
Idle == [slot |-> -1, head |-> Unread, body |-> Unread]
TwoDescriptors == {"davicom", "rtl8139", "w89c840", "via-rhine", "epic100",
                   "depca", "sk_g16", "3c509", "3c595"}
TxCount == IF txNic \in TwoDescriptors THEN 2 ELSE 1
\* The buffer of a descriptor.
Buffer(slot) == IF txNic \in {"davicom", "rtl8139", "w89c840"} THEN 0 ELSE slot

(***************************************************************************)
(* What the drivers do not promise: five do not wait for the card at all,  *)
(* and the others not for ever; one sends again what it did not see go     *)
(* out, one is out of step with its card when it has reset it, and one     *)
(* sends it back to the first descriptor while it reads another.           *)
(***************************************************************************)
NeverWaits == {"via-rhine", "otulip", "depca", "sk_g16", "ns8390"}
Reading(slot) == txSending.slot = slot \/ (txOwn[slot] /\ txOn)
Overwrites ==
  /\ Head(txProg) \in {"head", "body", "gone"}
  /\ \E slot \in DOMAIN txOwn : Buffer(slot) = Buffer(txEntry) /\ Reading(slot)
  /\ txNic \in NeverWaits \/ txLate
OutOfStep(step) ==
  \/ step = "chip" /\ txNic = "sk_g16"
  \/ step = "load" /\ txNic = "epic100" /\ txSending # Idle

TxInit ==
  /\ txNic \in Senders
  /\ txOwn = [i \in 0 .. TxCount - 1 |-> FALSE]
  /\ txBuf = [i \in {Buffer(slot) : slot \in 0 .. TxCount - 1} |-> [head |-> 0, body |-> 0]]
  /\ txAt = 0 /\ txCur = 0 /\ txEntry = 0
  /\ txOn = TRUE /\ txSending = Idle /\ txFailed = FALSE /\ txSigned = FALSE
  /\ txDead = FALSE /\ txProg = <<>> /\ txAgain = 0 /\ txLate = FALSE
  /\ txAsked = 0 /\ txOut = <<>> /\ txExcused = FALSE

(***************************************************************************)
(* The card.                                                               *)
(***************************************************************************)
driverVars == <<txNic, txBuf, txCur, txEntry, txProg, txAgain, txLate, txAsked, txExcused>>

Begins ==
  /\ txOn /\ txSending = Idle /\ txOwn[txAt]
  /\ txSending' = [slot |-> txAt, head |-> txBuf[Buffer(txAt)].head, body |-> Unread]
  /\ UNCHANGED <<txOwn, txAt, txOn, txFailed, txSigned, txOut>>

Reads ==
  /\ txSending # Idle /\ txSending.body = Unread
  /\ txSending' = [txSending EXCEPT !.body = txBuf[Buffer(txSending.slot)].body]
  /\ UNCHANGED <<txOwn, txAt, txOn, txFailed, txSigned, txOut>>

\* The frame is on the wire, or given up, after which two cards stop.
Ends(sent) ==
  /\ txSending # Idle /\ (sent => txSending.body # Unread)
  /\ txSending' = Idle /\ txSigned' = TRUE
  /\ txOwn' = [txOwn EXCEPT ![txSending.slot] = FALSE]
  /\ txAt' = (txSending.slot + 1) % TxCount
  /\ txFailed' = ~sent
  /\ txOn' = (txOn /\ (sent \/ txNic \notin StopsWhenFailed))
  /\ txOut' = IF ~sent THEN txOut
              ELSE Append(txOut, IF txSending.head = txSending.body THEN txSending.head ELSE 0)

\* The W89C840 reports frames that come in too.
Signs ==
  /\ txNic = "w89c840" /\ ~txSigned /\ txSigned' = TRUE
  /\ UNCHANGED <<txOwn, txAt, txOn, txSending, txFailed, txOut>>

CardWorks ==
  /\ ~txDead /\ (Begins \/ Reads \/ \E sent \in BOOLEAN : Ends(sent))
  /\ UNCHANGED <<driverVars, txDead>>
CardSigns == ~txDead /\ Signs /\ UNCHANGED <<driverVars, txDead>>
CardDies ==
  /\ ~txDead /\ txDead' = TRUE
  /\ UNCHANGED <<driverVars, txOwn, txAt, txOn, txSending, txFailed, txSigned, txOut>>

(***************************************************************************)
(* The driver.                                                             *)
(***************************************************************************)
Program == TransmitOf(txNic, txOwn[txEntry])

eth_transmit ==
  /\ txProg = <<>> /\ txAsked < MaxAsked
  /\ txAsked' = txAsked + 1
  /\ txProg' = TransmitOf(txNic, txOwn[txCur]).steps
  /\ txEntry' = txCur /\ txAgain' = 0
  /\ UNCHANGED <<txNic, txOwn, txBuf, txCur, txOn, txCard, txLate, txOut, txExcused>>

\* A step that waits for nothing.
DoStep(step) ==
  /\ txProg' = Tail(txProg)
  /\ txBuf' = LET b == Buffer(txEntry)
              IN  CASE step = "head" -> [txBuf EXCEPT ![b].head = txAsked]
                    [] step = "body" -> [txBuf EXCEPT ![b].body = txAsked]
                    [] step = "gone" -> [txBuf EXCEPT ![b].head = 0]
                    [] OTHER -> txBuf
  /\ txOwn' = CASE step \in {"own", "disown"} -> [txOwn EXCEPT ![txEntry] = step = "own"]
                [] step \in {"free", "chip"} -> [i \in DOMAIN txOwn |-> FALSE]
                [] step = "recover" -> [i \in DOMAIN txOwn |-> txOwn[i] /\ ~txFailed]
                [] OTHER -> txOwn
  /\ txCur' = CASE step = "next" -> (txCur + 1) % TxCount
                [] step \in {"free", "chip"} -> 0
                [] OTHER -> txCur
  /\ txAt' = CASE step = "load" \/ (step = "recover" /\ txFailed) -> txCur
               [] step = "chip" -> 0
               [] OTHER -> txAt
  /\ txOn' = (step = "start" \/ (step = "recover" /\ txFailed)
              \/ (txOn /\ step \notin {"stop", "chip"}))
  /\ txSending' = IF step = "chip" THEN Idle ELSE txSending
  /\ txFailed' = (txFailed /\ step \notin {"chip", "recover"}
                  /\ (step = "own" => txNic \in StopsWhenFailed))
  /\ txExcused' = (txExcused \/ Overwrites \/ OutOfStep(step))
  /\ UNCHANGED <<txNic, txEntry, txSigned, txDead, txAgain, txLate, txAsked, txOut>>

\* A step that waits, and goes on with the rest.
GoesOn ==
  /\ txProg' = Tail(txProg)
  /\ UNCHANGED <<txNic, txOwn, txBuf, txCur, txEntry, txOn, txCard, txAgain, txLate,
                 txAsked, txOut, txExcused>>

\* Not the answer that was hoped for: the rest, or what is done in its place.
GivesUpWaiting(late) ==
  /\ txProg' = IF ~Program.onLate THEN Tail(txProg)
               ELSE IF txAgain < MaxAgain THEN Program.late ELSE <<>>
  /\ txAgain' = txAgain + (IF Program.onLate /\ txAgain < MaxAgain THEN 1 ELSE 0)
  /\ txLate' = (txLate \/ late)
  /\ txExcused' = (txExcused \/ (txNic = "3c90x" /\ late))
  /\ UNCHANGED <<txNic, txOwn, txBuf, txCur, txEntry, txOn, txCard, txAsked, txOut>>

Done == ~txOwn[txEntry]

TxStep ==
  /\ txProg # <<>>
  /\ LET step == Head(txProg)
     IN  CASE step = "wait" -> IF Done /\ ~txFailed THEN GoesOn ELSE GivesUpWaiting(~Done)
           [] step = "glance" -> IF txFailed THEN GivesUpWaiting(FALSE) ELSE GoesOn
           [] step = "room" -> ~txOwn[txCur] /\ GoesOn
           [] step = "sent" -> Done /\ GoesOn
           [] step = "fetched" -> (Done \/ txSending.body # Unread) /\ GoesOn
           [] step = "sign" ->
                /\ txSigned /\ txProg' = Tail(txProg) /\ txSigned' = FALSE
                /\ UNCHANGED <<txNic, txOwn, txBuf, txCur, txEntry, txOn, txAt, txSending,
                     txFailed, txDead, txAgain, txLate, txAsked, txOut, txExcused>>
           [] OTHER -> DoStep(step)

TxNext == CardWorks \/ CardSigns \/ CardDies \/ eth_transmit \/ TxStep

\* A card that is alive goes on with what it has begun, and so does the driver.
TxSpec == TxInit /\ [][TxNext]_txVars /\ WF_txVars(CardWorks) /\ WF_txVars(TxStep)

(***************************************************************************)
(* Properties.                                                             *)
(***************************************************************************)
Tx == INSTANCE Link WITH
  sent <- txAsked, spoilt <- {}, out <- txOut, excused <- txExcused

WaitsForEver == {"w89c840", "3c509", "3c595", "ni5010", "3c90x"}

\* TransmitReturns.  eth_transmit returns whatever the card does to the frame.
\* From a card that answers nothing any more five drivers do not return, and one
\* not if the card had a descriptor still when it was used again.
Answers ==
  /\ txDead => txNic \notin WaitsForEver
  /\ txLate => txNic # "w89c840"
TransmitReturns == []<>(txProg = <<>> \/ ~Answers)

-----------------------------------------------------------------------------
(* Both directions. *)

\* ImplementsLink.  What comes out of a card's driver, in each direction, is
\* what was put in, whole and undamaged, each frame at most once and in order;
\* what the drivers do not promise is named above: LooksAtNoError and after
\* for what is received, NeverWaits and after for what is sent.
ImplementsLink == Rx!LinkSpec /\ Tx!LinkSpec
=============================================================================
