----------------------------- MODULE NicDrivers -----------------------------
(***************************************************************************)
(* The network card drivers of netboot: for each the steps of its reset,   *)
(* poll and transmit, in the order of the code.  The cards of              *)
(* Nic.tla work between any two of them.                                   *)
(*                                                                         *)
(* Receiving.  A card has slots, descriptors with a buffer each or frames  *)
(* in its own memory, and fills them one after another.                    *)
(*   copy, take   the frame at the driver's slot goes to nic->packet; poll *)
(*                returns 1                                                *)
(*   give, next   the slot is the card's again; the driver's next slot     *)
(*                (its counter, which the card does not see, may move      *)
(*                first)                                                   *)
(*   off, on      the receiver is stopped, started                         *)
(*   rings, point all slots are the card's and the driver begins at the    *)
(*                first; the card does                                     *)
(*   again, drain poll looks at the next slot; drops all that is there     *)
(* poll sees whether a frame is stored at its slot, damaged (bad) or in    *)
(* more than one buffer (long), that the card had no room (overrun), that  *)
(* the last frame of all was damaged (lastBad), and whether this poll has  *)
(* copied one (got).                                                       *)
(***************************************************************************)
EXTENDS Naturals, Sequences

Skip == <<"give", "next">>
DeliverGiven == <<"give", "copy", "next", "take">>   \* faulty
Deliver == <<"copy", "give", "next", "take">>
DropOrDeliver(s) ==
  IF ~s.stored THEN <<>> ELSE IF s.bad THEN Skip ELSE Deliver
StartAfresh == <<"off", "rings", "point", "on">>

(***************************************************************************)
(* Sending.  A card reads descriptors in turn, each with a buffer or all   *)
(* with one.                                                               *)
(*   head, body   the frame is written to the buffer                       *)
(*   own, next    the descriptor is the card's; the driver's next one      *)
(*   stop, start  the transmitter finishes what it reads and begins        *)
(*                nothing more; is started                                 *)
(*   load         the card begins at the driver's descriptor               *)
(*   wait         until the frame is sent, the card gives it up or the     *)
(*                time is over                                             *)
(*   sign, room, fetched, sent   until the card reports something, has     *)
(*                room for a frame, has read it, is done with it: without  *)
(*                a limit                                                  *)
(*   glance       no wait: whether it was given up already                 *)
(*   disown, free the descriptor is the driver's, all are                  *)
(*   chip         a reset: all are, and card and driver begin at the first *)
(*   recover      a transmitter that gave a frame up is reset              *)
(*   gone         the head was on the stack and is no longer there         *)
(* late is what follows a wait that was not answered with success, in      *)
(* place of the rest.                                                      *)
(***************************************************************************)
Sending(steps) == [steps |-> steps, late |-> <<>>, onLate |-> FALSE]
SendingOr(steps, late) == [steps |-> steps, late |-> late, onLate |-> TRUE]

(***************************************************************************)
(* DEC 21x4x: the transmitter is stopped around every frame.               *)
(***************************************************************************)
TulipReset == StartAfresh
TulipPoll(s) == DropOrDeliver(s)
TulipTransmit ==
  Sending(<<"stop", "head", "body", "own", "load", "start", "wait", "stop">>)

(***************************************************************************)
(* Davicom: two descriptors for one buffer, and the transmitter runs on.   *)
(***************************************************************************)
DavicomReset == StartAfresh
DavicomPoll(s) == DropOrDeliver(s)
DavicomTransmit == Sending(<<"head", "body", "own", "start", "wait", "next">>)

(***************************************************************************)
(* DP83815: a receiver without room stops, so that poll starts it.         *)
(***************************************************************************)
NatsemiReset == StartAfresh
NatsemiPoll(s) ==
  IF ~s.stored THEN <<>>
  ELSE IF s.bad THEN <<"give", "next", "on">> ELSE <<"copy", "give", "next", "on", "take">>
NatsemiTransmit ==
  Sending(<<"stop", "load", "head", "body", "own", "start", "wait">>)

SisReset == StartAfresh
SisPoll(s) ==
  IF ~s.stored THEN <<>>
  ELSE IF s.bad THEN <<"give", "next", "on">> ELSE <<"copy", "give", "next", "on", "take">>
SisTransmit ==
  Sending(<<"stop", "load", "head", "body", "own", "start", "wait">>)

\* The same chip on the FA311: it is started by polls that see nothing too.
FaReset == StartAfresh
FaPoll(s) ==
  IF ~s.stored THEN <<"on">>
  ELSE IF s.bad THEN <<"give", "next", "on">> ELSE <<"copy", "give", "next", "on", "take">>
FaTransmit == Sending(<<"head", "body", "own", "next", "start", "wait">>)

(***************************************************************************)
(* RTL8139: frames follow each other in one receive buffer; a damaged one  *)
(* and a frame that is not sent are answered with a reset of the chip.     *)
(***************************************************************************)
RtlReset == StartAfresh
RtlPoll(s) ==
  IF ~s.stored THEN <<>>
  ELSE IF s.bad THEN RtlReset ELSE <<"copy", "give", "next", "take">>
RtlTransmit ==
  SendingOr(<<"head", "body", "own", "start", "wait", "next">>, <<"chip", "start">>)

(***************************************************************************)
(* W89C840: a damaged frame is answered with a reset; one too long is left *)
(* in its slot, which is passed over.                                      *)
(***************************************************************************)
WinbondReset == StartAfresh
WinbondPoll(s) ==
  (IF ~s.stored THEN <<>> ELSE IF s.long THEN <<"next">>
   ELSE IF s.bad THEN WinbondReset ELSE <<"copy", "give", "next", "take">>)
  \o (IF s.overrun THEN <<"on">> ELSE <<>>)
WinbondTransmit ==
  Sending(<<"head", "body", "own", "next", "start", "sign", "wait">>)

(***************************************************************************)
(* VIA Rhine: transmit neither waits nor looks whether its descriptor is   *)
(* free.                                                                   *)
(***************************************************************************)
RhineReset == StartAfresh
RhinePoll(s) == DropOrDeliver(s)
RhineTransmit == Sending(<<"head", "body", "own", "start", "next">>)

(***************************************************************************)
(* EPIC/100: status keeps the owner bit alone, so that no error is ever    *)
(* seen.  A descriptor that is still the card's is answered with an open,  *)
(* which stops nothing, and the frame is not sent.                         *)
(***************************************************************************)
EpicOpen == <<"rings", "point", "on">>
EpicPoll(s) ==
  IF ~s.stored THEN <<>> ELSE <<"copy", "give", "next", "on", "take">>
EpicTransmit(busy) ==
  IF busy THEN Sending(<<"free", "load">>)
  ELSE Sending(<<"head", "body", "own", "next", "start", "wait">>)

(***************************************************************************)
(* 3C90x: the card keeps frames itself and puts the first where the driver *)
(* tells it to, in nic->packet.  A frame is sent again until the card says *)
(* that it went out.                                                       *)
(***************************************************************************)
VortexReset == StartAfresh
VortexPoll(s) ==
  IF ~s.stored THEN <<>> ELSE IF s.bad THEN <<"copy", "give", "next">> ELSE Deliver
VortexAttempt ==
  <<"stop", "head", "own", "load", "start", "fetched", "wait">>
VortexTransmit == SendingOr(<<"body">> \o VortexAttempt, VortexAttempt)

(***************************************************************************)
(* The older tulip driver: no error is looked at; the card takes the body  *)
(* from the caller's memory, and transmit does not wait.                   *)
(***************************************************************************)
OtulipReset == StartAfresh
OtulipPoll(s) == IF ~s.stored THEN <<>> ELSE Deliver
OtulipTransmit == Sending(<<"body", "head", "own", "load", "start">>)

(***************************************************************************)
(* LANCE and its kin: one buffer to send from; DEPCA and SK_G16 have two   *)
(* and do not wait.                                                        *)
(***************************************************************************)
LanceReset == StartAfresh
LancePoll(s) == DropOrDeliver(s)
LanceTransmit == Sending(<<"head", "body", "own", "start", "wait">>)

DepcaReset == StartAfresh
DepcaPoll(s) == IF ~s.stored THEN <<>> ELSE Deliver
DepcaTransmit == Sending(<<"head", "body", "disown", "own", "start", "next">>)

\* SK_poll takes all that is there and keeps the last; a damaged frame's slot
\* is given back and the driver stays at it.
SkReset == StartAfresh
SkPoll(s) ==
  IF ~s.stored THEN IF s.got THEN <<"take">> ELSE <<>>
  ELSE IF s.bad THEN <<"give", "again">> ELSE <<"copy", "give", "next", "again">>
\* The counter goes on after a reset too, while the card begins again.
SkTransmit ==
  SendingOr(<<"head", "body", "own", "start", "glance", "next">>, <<"chip", "start", "next">>)

(***************************************************************************)
(* EtherExpress Pro/100: one slot, which is the card's again before the    *)
(* frame is copied from it.  The head is on transmit's stack, the body     *)
(* where the caller has it.                                                *)
(***************************************************************************)
SpeedoReset == StartAfresh
SpeedoPoll(s) == IF ~s.stored THEN <<>> ELSE <<"give", "on", "copy", "take">>
SpeedoTransmit ==
  Sending(<<"body", "head", "own", "load", "start", "wait", "gone">>)

(***************************************************************************)
(* NS8390 and NE2000: the status poll reads is that of the last frame to   *)
(* come.  When the ring ran over, all that is in it goes.  One page to     *)
(* send from, and no wait.                                                 *)
(***************************************************************************)
NsReset == StartAfresh
NsRxOverrun == <<"off", "drain", "on">>
NsPoll(s) ==
  IF s.overrun THEN NsRxOverrun
  ELSE IF s.lastBad \/ ~s.stored THEN <<>> ELSE <<"copy", "give", "next", "take">>
NsTransmit == Sending(<<"head", "body", "own", "start">>)

(***************************************************************************)
(* 3C509 and 3C595: frames pass through the card's memory.                 *)
(***************************************************************************)
T509Reset == StartAfresh
T509Poll(s) == DropOrDeliver(s)
T509TransmitStopped == Sending(<<"room", "head", "body", "own", "next">>)   \* faulty
T509Transmit == Sending(<<"recover", "room", "head", "body", "own", "next">>)

T595Reset == StartAfresh
T595Poll(s) == DropOrDeliver(s)
T595Transmit == Sending(<<"recover", "room", "head", "body", "own", "next">>)

(***************************************************************************)
(* SMC9000: the probe starts what its reset leaves stopped.                *)
(***************************************************************************)
SmcReset == <<"off", "rings", "point">>
SmcPoll(s) == DropOrDeliver(s)
SmcTransmit == SendingOr(<<"head", "body", "own", "wait">>, <<"chip">>)

(***************************************************************************)
(* EtherExpress Pro/10: the card drops damaged frames, and keeps the       *)
(* others in a ring of its memory.                                         *)
(***************************************************************************)
EeproReset == StartAfresh
EeproPoll(s) ==
  IF ~s.stored \/ s.bad THEN <<>> ELSE <<"copy", "give", "next", "take">>

(***************************************************************************)
(* NI5010: one buffer.  The receiver stops with every frame, and starts    *)
(* again only when one was sent.                                           *)
(***************************************************************************)
Ni5010Reset == StartAfresh
Ni5010Poll(s) ==
  IF ~s.stored THEN <<>> ELSE IF s.bad THEN <<"give">> ELSE <<"give", "off", "copy", "take">>
Ni5010Transmit == Sending(<<"stop", "head", "body", "own", "start", "sent">>)

(***************************************************************************)
(* What eth_poll, eth_transmit and a probe that found a card come to.      *)
(***************************************************************************)
Receivers ==
  {"tulip", "davicom", "natsemi", "sis900", "fa311", "rtl8139", "w89c840",
   "via-rhine", "epic100", "3c90x", "otulip", "lance", "depca", "sk_g16",
   "eepro100", "ns8390", "3c509", "3c595", "smc9000", "eepro", "ni5010"}
Senders == Receivers \ {"eepro"}

ProbeOf(d) ==
  CASE d = "tulip" -> TulipReset     [] d = "davicom" -> DavicomReset
    [] d = "natsemi" -> NatsemiReset [] d = "sis900" -> SisReset
    [] d = "fa311" -> FaReset        [] d = "rtl8139" -> RtlReset
    [] d = "w89c840" -> WinbondReset [] d = "via-rhine" -> RhineReset
    [] d = "epic100" -> StartAfresh
    [] d = "3c90x" -> VortexReset    [] d = "otulip" -> OtulipReset
    [] d = "lance" -> LanceReset     [] d = "depca" -> DepcaReset
    [] d = "sk_g16" -> SkReset       [] d = "eepro100" -> SpeedoReset
    [] d = "ns8390" -> NsReset       [] d = "3c509" -> T509Reset
    [] d = "3c595" -> T595Reset      [] d = "smc9000" -> StartAfresh
    [] d = "eepro" -> EeproReset     [] d = "ni5010" -> Ni5010Reset

PollOf(d, s) ==
  CASE d = "tulip" -> TulipPoll(s)     [] d = "davicom" -> DavicomPoll(s)
    [] d = "natsemi" -> NatsemiPoll(s) [] d = "sis900" -> SisPoll(s)
    [] d = "fa311" -> FaPoll(s)        [] d = "rtl8139" -> RtlPoll(s)
    [] d = "w89c840" -> WinbondPoll(s) [] d = "via-rhine" -> RhinePoll(s)
    [] d = "epic100" -> EpicPoll(s)    [] d = "3c90x" -> VortexPoll(s)
    [] d = "otulip" -> OtulipPoll(s)   [] d = "lance" -> LancePoll(s)
    [] d = "depca" -> DepcaPoll(s)     [] d = "sk_g16" -> SkPoll(s)
    [] d = "eepro100" -> SpeedoPoll(s) [] d = "ns8390" -> NsPoll(s)
    [] d = "3c509" -> T509Poll(s)      [] d = "3c595" -> T595Poll(s)
    [] d = "smc9000" -> SmcPoll(s)     [] d = "eepro" -> EeproPoll(s)
    [] d = "ni5010" -> Ni5010Poll(s)

TransmitOf(d, busy) ==
  CASE d = "tulip" -> TulipTransmit     [] d = "davicom" -> DavicomTransmit
    [] d = "natsemi" -> NatsemiTransmit [] d = "sis900" -> SisTransmit
    [] d = "fa311" -> FaTransmit        [] d = "rtl8139" -> RtlTransmit
    [] d = "w89c840" -> WinbondTransmit [] d = "via-rhine" -> RhineTransmit
    [] d = "epic100" -> EpicTransmit(busy)
    [] d = "3c90x" -> VortexTransmit    [] d = "otulip" -> OtulipTransmit
    [] d = "lance" -> LanceTransmit     [] d = "depca" -> DepcaTransmit
    [] d = "sk_g16" -> SkTransmit       [] d = "eepro100" -> SpeedoTransmit
    [] d = "ns8390" -> NsTransmit       [] d = "3c509" -> T509Transmit
    [] d = "3c595" -> T595Transmit      [] d = "smc9000" -> SmcTransmit
    [] d = "ni5010" -> Ni5010Transmit

\* What a transmit may do to the receiver: nothing, or a reset on an error.
AfterSendOf(d) ==
  CASE d = "rtl8139" -> {<<>>, RtlReset}   [] d = "3c90x" -> {<<>>, VortexReset}
    [] d = "epic100" -> {<<>>, EpicOpen}   [] d = "sk_g16" -> {<<>>, SkReset}
    [] d = "smc9000" -> {<<>>, SmcReset}
    [] d = "ni5010" -> {<<"off", "rings", "on">>}
    [] OTHER -> {<<>>}

\* eth_disable leaves the receiver of these running.
NeverDisabled == {"epic100", "otulip", "ns8390"}
=============================================================================
