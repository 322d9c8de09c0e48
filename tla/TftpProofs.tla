----------------------------- MODULE TftpProofs -----------------------------
(***************************************************************************)
(* Proofs about Tftp, for all files, packet sizes, buffers, servers and    *)
(* numbers of losses, repetitions and strays.  The argument has four       *)
(* layers:                                                                 *)
(*   Frame     the types, and that all the server of the file sends and    *)
(*             gets is of the port in use;                                 *)
(*   LinkInv   what is on the network and at the server, all of it of the  *)
(*             transfer in progress, in step with the client;              *)
(*   FileInv   what the client made of it: the buffer and the size;        *)
(*   PlaceInv  what tftp_read makes of the buffer, where filepos is never  *)
(*             set forwards.                                               *)
(* Frame holds always, and so does the part of PlaceInv that keeps filepos *)
(* in the buffer; the rest until something of another transfer is taken    *)
(* (mixed), and again from the next opening on.                            *)
(***************************************************************************)
EXTENDS Tftp, TLAPS

---------------------------------------------------------------------------
(* Numbers. *)

LEMMA SmallMod ==
  ASSUME NEW m \in Nat \ {0}, NEW x \in 0 .. m - 1
  PROVE  x % m = x
OBVIOUS

LEMMA ModInRange ==
  ASSUME NEW m \in Nat \ {0}, NEW x \in Int
  PROVE  x % m \in 0 .. m - 1
OBVIOUS

LEMMA OneMore ==
  ASSUME NEW n \in Nat, NEW p \in Nat
  PROVE  (n + 1) * p = n * p + p /\ n * p \in Nat /\ ((n + 1) - 1) * p = n * p
OBVIOUS

---------------------------------------------------------------------------
(* The network: every datagram and the server's transfer are of the port   *)
(* and the file in use, at most one transfer, at most a block ahead of the *)
(* client; while the request is on its way there is nothing else.  Where   *)
(* the last block number is used up nothing is said of the server's block: *)
(* the client takes no block from then on.                                 *)

States == {"closed", "open", "opening", "sizing", "copying", "reading",
           "rewinding", "reopening", "closing"}

Types ==
  /\ pc \in States
  /\ file \in Files \cup {NoFile}
  /\ pc # "closed" => file \in Files
  /\ tp \in {"rrq", "ack", "error"}
  /\ iport \in Nat /\ retry \in Nat /\ bcounter \in Nat /\ calls \in Nat
  /\ block \in 0 .. BlockMod - 1
  /\ prevblock \in 0 .. BlockMod - 1
  /\ ackBlock \in 0 .. BlockMod - 1
  /\ bufEof \in BOOLEAN
  /\ granted \in Servers
  /\ packetsize \in {DefaultSize, MaxPacket}

\* What comes from the server of this transfer, and what it serves.
Data0 == Seq((Files \cup {Elsewhere}) \X Nat)
Arriving(m) ==
  /\ m.from \in {Here, Elsewhere}
  /\ m.type = "oack" => m.blksize \in {DefaultSize, MaxPacket}
                        /\ m.tsize \in Nat \cup {Unknown}
  /\ m.type = "data" => m.block \in 0 .. BlockMod - 1 /\ m.data \in Data0
Session == [port : {iport}, file : Files, resent : Nat, sent : Nat]
Nets ==
  /\ \A m \in toServer : m.port = iport /\ (m.type = "rrq" => m.file \in Files)
  /\ \A m \in toClient : m.port = iport /\ Arriving(m)
  /\ sessions \subseteq Session
Beside == strays \subseteq StrayTypes /\ mixed \in BOOLEAN /\ oport \in {Here, Elsewhere}
Frame == Types /\ Nets /\ Beside

\* The numbers of a block agree, unless an abort goes out in its place.
Counted ==
  /\ bcounter = prevblock
  /\ ~bufEof => block = prevblock /\ (block # 0 => ackBlock = block)

\* Both sides cut the file into the same packets.
Agreed == packetsize = Packet(granted)
Sized == /\ ~granted.blksize => packetsize = DefaultSize
         /\ bcounter > 0 => Agreed

\* A block number is left for the next block.
Numbered == bcounter < BlockMod - 1

FromClient(m) ==
  \/ /\ m = Request(iport, file)
     /\ file \in Files /\ bcounter = 0 /\ sessions = {} /\ toClient = {}
  \/ m = Abort(iport)
  \/ \E b \in 0 .. bcounter : m = Ack(iport, b) /\ Agreed
IsBlock(m) ==
  /\ m.type = "data" /\ m.port = iport /\ m.block \in 0 .. BlockMod - 1
  /\ Agreed /\ file \in Files
  /\ Numbered => /\ m.block \in 1 .. bcounter + 1
                 /\ m.data = BlockOf(file, m.block)
                 /\ \A s \in sessions : m.block <= s.sent
FromServer(m) ==
  \/ m = Refusal(iport)
  \/ m = Oack(iport, granted, file) /\ file \in Files
  \/ IsBlock(m)
Serving(s) ==
  /\ s.resent \in Nat /\ s.sent \in Nat
  /\ s = [port |-> iport, file |-> file, resent |-> s.resent, sent |-> s.sent]
  /\ file \in Files
  /\ s.sent > 0 => Agreed
  /\ Numbered => s.sent \in {bcounter, bcounter + 1}
  /\ \A t \in sessions : t = s

Outgoing == \A m \in toServer : FromClient(m)
Incoming == \A m \in toClient : FromServer(m)
Served == \A s \in sessions : Serving(s)
LinkInv == Types /\ Counted /\ Sized /\ Outgoing /\ Incoming /\ Served

LEMMA PutOneMore ==
  ASSUME NEW net, NEW m
  PROVE  Put(net, m) \subseteq net \cup {m}
BY DEF Put
---------------------------------------------------------------------------
(* The types, and the port: whatever the packets say and whoever sends them. *)

LEMMA StraysTyped ==
  ASSUME NEW m \in StrayTypes
  PROVE  Arriving(m)
<1>1. ASSUME m.type = "oack"
      PROVE  m.blksize \in {DefaultSize, MaxPacket} /\ m.tsize \in Nat \cup {Unknown}
  BY <1>1 DEF StrayTypes
<1>2. ASSUME m.type = "data"
      PROVE  m.block \in 0 .. BlockMod - 1 /\ m.data \in Data0
  <2>1. m.block \in 0 .. BlockMod - 1 /\ m.data \in Seq({Elsewhere} \X Nat)
    BY <1>2 DEF StrayTypes
  <2>2. \A q \in Seq({Elsewhere} \X Nat) : q \in Data0
    BY DEF Data0
  <2> QED
    BY <2>1, <2>2
<1>3. m.from = Elsewhere
  BY DEF StrayTypes
<1> QED
  BY <1>1, <1>2, <1>3 DEF Arriving

LEMMA FrameInit == Init => Frame
<1> SUFFICES ASSUME Init PROVE Frame
  OBVIOUS
<1>1. 0 \in 0 .. BlockMod - 1
  BY TftpAssumption
<1>2. Types
  BY <1>1 DEF Init, Types, States
<1>3. Nets
  BY DEF Init, Nets
<1>4. Beside
  BY TftpAssumption DEF Init, Beside
<1> QED
  BY <1>2, <1>3, <1>4 DEF Frame

LEMMA FrameFewer ==
  ASSUME Frame,
         UNCHANGED <<file, tp, ackBlock, oport, iport, block, prevblock, bcounter,
                     packetsize, bufEof, granted>>,
         toServer' \subseteq toServer, toClient' \subseteq toClient,
         sessions' \subseteq sessions, strays' \subseteq strays, mixed' \in BOOLEAN,
         pc' \in States, pc' # "closed" => pc # "closed", retry' \in Nat, calls' \in Nat
  PROVE  Frame'
<1>1. Types'
  BY DEF Frame, Types
<1>2. Nets'
  BY DEF Frame, Nets, Session, Arriving, Data0
<1>3. Beside'
  BY DEF Frame, Beside
<1> QED
  BY <1>1, <1>2, <1>3 DEF Frame

\* A new request is all there is of its transfer.
LEMMA PortIsNew ==
  ASSUME Frame
  PROVE  /\ Of(iport + 1, toServer) = {}
         /\ Of(iport + 1, toClient) = {}
         /\ Of(iport + 1, sessions) = {}
<1>1. iport \in Nat
  BY DEF Frame, Types
<1>2. \A s \in sessions : s.port = iport
  BY DEF Frame, Nets, Session
<1> QED
  BY <1>1, <1>2 DEF Frame, Nets, Of

LEMMA FrameSendRrq ==
  ASSUME Frame, NEW f \in Files, SendRrq(f), file' = f, strays' = strays,
         mixed' \in BOOLEAN, pc' \in States, calls' \in Nat
  PROVE  Frame'
<1>1. toServer' = {Request(iport', f)} /\ toClient' = {} /\ sessions' = {}
  BY PortIsNew DEF SendRrq, NewPort
<1>2. 0 \in 0 .. BlockMod - 1
  BY TftpAssumption
<1>3. /\ retry' = 0 /\ block' = 0 /\ prevblock' = 0 /\ bcounter' = 0
      /\ packetsize' = DefaultSize /\ bufEof' = FALSE /\ tp' = "rrq"
      /\ ackBlock' = ackBlock /\ oport' = oport
      /\ iport' = iport + 1 /\ granted' = granted
  BY DEF SendRrq, NewPort
<1>4. Types'
  <2>1. ackBlock' \in 0 .. BlockMod - 1
    BY <1>3 DEF Frame, Types
  <2>2. bufEof' \in BOOLEAN
    BY <1>3
  <2>3. granted' \in Servers
    BY <1>3 DEF Frame, Types
  <2>4. iport' \in Nat /\ retry' \in Nat /\ bcounter' \in Nat
    BY <1>3 DEF Frame, Types
  <2>5. file' \in Files
    OBVIOUS
  <2>6. packetsize' \in {DefaultSize, MaxPacket} /\ tp' \in {"rrq", "ack", "error"}
    BY <1>3
  <2>7. block' \in 0 .. BlockMod - 1 /\ prevblock' \in 0 .. BlockMod - 1
    BY <1>2, <1>3
  <2> QED
    BY <2>1, <2>2, <2>3, <2>4, <2>5, <2>6, <2>7 DEF Types
<1>5. Nets'
  BY <1>1 DEF Nets, Request
<1>6. Beside'
  BY <1>3 DEF Frame, Beside
<1> QED
  BY <1>4, <1>5, <1>6 DEF Frame

LEMMA FrameAskAgain ==
  ASSUME Frame, AskAgain, UNCHANGED others
  PROVE  Frame'
<1>1. /\ toServer' \subseteq {Request(iport', file)}
      /\ toClient' = {} /\ sessions' = {}
  BY PortIsNew DEF AskAgain, NewPort
<1>2. Types'
  BY DEF Frame, Types, AskAgain, NewPort, sent, buffer, reader
<1>3. file \in Files
  BY DEF Frame, Types, AskAgain, Filling, Waiting, Aborting
<1>4. Nets'
  BY <1>1, <1>3 DEF Nets, Request
<1>5. Beside'
  BY DEF Frame, Beside, AskAgain, sent, others
<1> QED
  BY <1>2, <1>4, <1>5 DEF Frame

\* What a packet is taken for: the number of a block, or that of the last.
LEMMA FrameReceive ==
  ASSUME Frame, NEW m, m.port = iport, Arriving(m),
         Filling, ReceiveOack(m) \/ ReceiveData(m) \/ ReceiveError(m),
         UNCHANGED server, toClient' \subseteq toClient,
         strays' \subseteq strays, mixed' \in BOOLEAN
  PROVE  Frame'
<1> USE DEF client, sent, transfer, buffer, reader, server
<1>1. CASE ReceiveError(m)
  <2>1. pc' \in States /\ pc # "closed" /\ UNCHANGED toServer
    BY <1>1 DEF ReceiveError, FillFails, Filling, Waiting, Aborting, States
  <2> QED
    BY <1>1, <2>1, FrameFewer DEF ReceiveError, FillFails, Frame, Types
<1>2. CASE UNCHANGED <<client, toServer>>
  BY <1>2, FrameFewer DEF Frame, Types
<1>3. CASE /\ m.type = "oack" /\ ReceiveOack(m) /\ ~UNCHANGED <<client, toServer>>
  <2>1. /\ UNCHANGED <<pc, file, iport, retry, prevblock, bcounter, calls>>
        /\ block' = 0 /\ ackBlock' = 0 /\ packetsize' = m.blksize
        /\ bufEof' = Aborting /\ tp' \in {"error", "ack"} /\ oport' = m.from
        /\ toServer' \subseteq toServer \cup {Abort(iport), Ack(iport, 0)}
    BY <1>3, PutOneMore DEF ReceiveOack, Answer, Ignore
  <2>2. packetsize' \in {DefaultSize, MaxPacket}
    BY <1>3, <2>1 DEF Arriving
  <2>3. 0 \in 0 .. BlockMod - 1
    BY TftpAssumption
  <2>4. Types'
    BY <2>1, <2>2, <2>3 DEF Frame, Types, Aborting
  <2>5. Nets'
    BY <2>1 DEF Frame, Nets, Session, Arriving, Data0, Abort, Ack
  <2>6. Beside'
    BY <2>1 DEF Frame, Beside, Arriving
  <2> QED
    BY <2>4, <2>5, <2>6 DEF Frame
<1>4. CASE /\ m.type = "data" /\ ReceiveData(m) /\ ~UNCHANGED <<client, toServer>>
  <2> DEFINE b == IF OutOfOrder(m.block) THEN prevblock ELSE m.block
  <2>1. /\ UNCHANGED <<pc, file, iport, packetsize, calls>>
        /\ block' = b /\ ackBlock' = b /\ oport' = m.from
        /\ tp' \in {"error", "ack"}
        /\ toServer' \subseteq toServer \cup {Abort(iport), Ack(iport, b)}
    BY <1>4, PutOneMore DEF ReceiveData, Answer, Ignore
  <2>2. /\ prevblock' \in {prevblock, b} /\ retry' \in {0, retry}
        /\ bcounter' \in {bcounter, bcounter + 1} /\ bufEof' \in BOOLEAN
    <3>1. TakeBlock(b, m.data) => bufEof' \in BOOLEAN
      BY DEF TakeBlock
    <3>2. \/ TakeBlock(b, m.data)
          \/ UNCHANGED <<retry, prevblock, bcounter>> /\ bufEof' \in {TRUE, bufEof}
      BY <1>4 DEF ReceiveData, Ignore
    <3> QED
      BY <3>1, <3>2 DEF TakeBlock, Frame, Types
  <2>3. b \in 0 .. BlockMod - 1
    BY <1>4 DEF Arriving, Frame, Types
  <2> HIDE DEF b
  <2>4. Types'
    <3>1. retry' \in Nat /\ bcounter' \in Nat
      BY <2>2 DEF Frame, Types
    <3>2. block' \in 0 .. BlockMod - 1 /\ ackBlock' \in 0 .. BlockMod - 1
          /\ prevblock' \in 0 .. BlockMod - 1
      BY <2>1, <2>2, <2>3 DEF Frame, Types
    <3>3. tp' \in {"rrq", "ack", "error"}
      BY <2>1
    <3> QED
      BY <2>1, <2>2, <3>1, <3>2, <3>3 DEF Frame, Types
  <2>5. Nets'
    BY <2>1 DEF Frame, Nets, Session, Arriving, Data0, Abort, Ack
  <2>6. Beside'
    BY <2>1 DEF Frame, Beside, Arriving
  <2> QED
    BY <2>4, <2>5, <2>6 DEF Frame
<1> QED
  BY <1>1, <1>2, <1>3, <1>4 DEF ReceiveOack, ReceiveData

LEMMA FrameSends ==
  ASSUME Frame, UNCHANGED <<client, granted, others>>, toServer' \subseteq toServer,
         NEW s \in Session, sessions' \subseteq sessions \cup {s},
         toClient' \subseteq toClient \cup {LastSent(s)}
  PROVE  Frame'
<1>1. Types' /\ Beside'
  BY DEF Frame, Types, Beside, client, sent, transfer, buffer, others
<1>2. LastSent(s).port = iport /\ Arriving(LastSent(s))
  <2>1. s.port = iport /\ s.file \in Files /\ s.sent \in Nat
    BY DEF Session
  <2>2. CASE s.sent = 0
    <3>1. Length[s.file] \in Nat
      BY <2>1, TftpAssumption
    <3>2. LastSent(s) = Oack(iport, granted, s.file)
      BY <2>1, <2>2 DEF LastSent
    <3> QED
      BY <3>1, <3>2 DEF Oack, Arriving
  <2>3. CASE s.sent # 0
    <3>1. LastSent(s) = Data(iport, s.sent % BlockMod, BlockOf(s.file, s.sent))
      BY <2>1, <2>3 DEF LastSent
    <3>2. s.sent % BlockMod \in 0 .. BlockMod - 1
      <4>1. BlockMod \in Nat \ {0} /\ s.sent \in Int
        BY <2>1, TftpAssumption
      <4> QED
        BY <4>1, ModInRange
    <3>3. BlockOf(s.file, s.sent) \in Data0
      <4> DEFINE from == (s.sent - 1) * Packet(granted)
                 n == Lowest(Packet(granted), Length[s.file] - from)
      <4>1. Packet(granted) \in Nat /\ Length[s.file] \in Nat /\ s.sent - 1 \in Nat
        BY <2>1, <2>3, TftpAssumption DEF Packet
      <4>2. from \in Nat
        <5>1. \A x, y \in Nat : x * y \in Nat
          OBVIOUS
        <5> QED
          BY <4>1, <5>1
      <4>3. BlockOf(s.file, s.sent) = [i \in 1 .. n |-> <<s.file, from + i - 1>>]
        BY DEF BlockOf
      <4>4. n \in Int
        BY <4>1, <4>2 DEF Lowest
      <4> HIDE DEF n, from
      <4>5. PICK k \in Nat : 1 .. n = 1 .. k
        <5>1. CASE n >= 0
          BY <4>4, <5>1
        <5>2. CASE ~(n >= 0)
          <6>1. 1 .. n = 1 .. 0
            BY <4>4, <5>2
          <6> QED
            BY <6>1
        <5> QED
          BY <5>1, <5>2
      <4>6. \A i \in 1 .. k : <<s.file, from + i - 1>> \in (Files \cup {Elsewhere}) \X Nat
        BY <2>1, <4>2
      <4>7. BlockOf(s.file, s.sent) \in [1 .. k -> (Files \cup {Elsewhere}) \X Nat]
        BY <4>3, <4>5, <4>6
      <4> QED
        BY <4>5, <4>7 DEF Data0
    <3> QED
      BY <3>1, <3>2, <3>3 DEF Data, Arriving
  <2> QED
    BY <2>2, <2>3
<1>3. Nets'
  <2>1. iport' = iport
    BY DEF client
  <2>2. \A m : Arriving(m)' = Arriving(m)
    BY DEF Arriving, Data0
  <2> QED
    BY <1>2, <2>1, <2>2 DEF Frame, Nets, Session
<1> QED
  BY <1>1, <1>3 DEF Frame

LEMMA FrameServes ==
  ASSUME Frame, Serves, UNCHANGED others
  PROVE  Frame'
<1> USE DEF client, sent, transfer, buffer, server, others
<1>1. ASSUME NEW m \in toServer, Begin(m)
      PROVE  Frame'
  <2> DEFINE n == IF granted.blksize \/ granted.tsize THEN 0 ELSE 1
             t == [port |-> iport, file |-> m.file, resent |-> 0, sent |-> n]
  <2>1. m.port = iport /\ m.file \in Files
    BY <1>1 DEF Begin, Frame, Nets
  <2>2. t \in Session
    BY <2>1 DEF Session
  <2>3. /\ sessions' = sessions \cup {t} /\ toServer' = toServer \ {m}
        /\ toClient' \subseteq toClient \cup {LastSent(t)} /\ UNCHANGED <<client, granted>>
    BY <1>1, <2>1, PutOneMore DEF Begin
  <2> HIDE DEF t
  <2> QED
    BY <2>2, <2>3, FrameSends
<1>2. ASSUME NEW m \in toServer, Refuse(m)
      PROVE  Frame'
  <2>1. /\ UNCHANGED <<client, granted, sessions>> /\ toServer' = toServer \ {m}
        /\ toClient' \subseteq toClient \cup {Refusal(iport)}
    BY <1>2, PutOneMore DEF Refuse, Frame, Nets
  <2>2. Types' /\ Beside'
    BY <2>1 DEF Frame, Types, Beside
  <2>3. Nets'
    BY <2>1 DEF Frame, Nets, Session, Arriving, Data0, Refusal
  <2> QED
    BY <2>2, <2>3 DEF Frame
<1>3. ASSUME NEW m \in toServer, Acknowledged(m)
      PROVE  Frame'
  <2>1. UNCHANGED <<client, granted>> /\ toServer' = toServer \ {m}
    BY <1>3 DEF Acknowledged
  <2>2. CASE UNCHANGED toClient /\ sessions' \subseteq sessions
    BY <2>1, <2>2, FrameFewer DEF Frame, Types, Beside
  <2>3. ASSUME NEW s \in sessions, NEW t, t = [s EXCEPT !.sent = @ + 1, !.resent = 0],
               sessions' = (sessions \ {s}) \cup {t},
               toClient' = Put(toClient, LastSent(t))
        PROVE  Frame'
    <3>1. s \in Session
      BY DEF Frame, Nets
    <3>2. t \in Session
      <4>1. PICK f \in Files, r \in Nat, n \in Nat :
              s = [port |-> iport, file |-> f, resent |-> r, sent |-> n]
        BY <3>1 DEF Session
      <4>2. t = [s EXCEPT !.sent = @ + 1, !.resent = 0]
        BY <2>3
      <4>3. t = [port |-> iport, file |-> f, resent |-> 0, sent |-> n + 1]
        BY <4>1, <4>2
      <4> QED
        BY <4>3 DEF Session
    <3>3. sessions' \subseteq sessions \cup {t} /\ toClient' \subseteq toClient \cup {LastSent(t)}
      BY <2>3, PutOneMore
    <3> QED
      BY <2>1, <3>2, <3>3, FrameSends
  <2> QED
    BY <1>3, <2>2, <2>3 DEF Acknowledged
<1>4. ASSUME NEW s \in sessions, Resend(s)
      PROVE  Frame'
  <2> DEFINE t == [s EXCEPT !.resent = @ + 1]
  <2>1. s \in Session
    BY DEF Frame, Nets
  <2>2. t \in Session
    BY <2>1 DEF Session
  <2>3. LastSent(s) = LastSent(t)
    BY <2>1 DEF LastSent, Session
  <2>4. /\ UNCHANGED <<client, granted, toServer>> /\ sessions' \subseteq sessions \cup {t}
        /\ toClient' \subseteq toClient \cup {LastSent(t)}
    BY <1>4, <2>3, PutOneMore DEF Resend
  <2> HIDE DEF t
  <2> QED
    BY <2>2, <2>4, FrameSends
<1>5. CASE (\E m \in toServer : Aborted(m)) \/ (\E s \in sessions : Abandon(s))
  BY <1>5, FrameFewer DEF Aborted, Abandon, Frame, Types, Beside
<1> QED
  BY <1>1, <1>2, <1>3, <1>4, <1>5 DEF Serves

LEMMA FrameUndisturbed ==
  ASSUME Frame, Undisturbed, UNCHANGED others
  PROVE  Frame'
<1> USE DEF sent, transfer, buffer, reader, client, server, others
<1>1. CASE Calls
  BY <1>1, FrameFewer DEF Calls, Seek, Read, Close, Frame, Types, States, Beside
<1>2. CASE Opened \/ Count \/ Closed
  BY <1>2, FrameFewer DEF Opened, Count, Closed, Frame, Types, States, Beside
<1>3. CASE FillReturns \/ CopyOut \/ SkipBuffer
  BY <1>3, FrameFewer
  DEF FillReturns, CopyOut, SkipBuffer, Copying, Filled, Frame, Types, States, Beside
<1>4. CASE Reopen \/ Rewound
  <2>1. calls' \in Nat /\ pc' \in States /\ SendRrq(file) /\ file' = file /\ file \in Files
        /\ strays' = strays /\ mixed' \in BOOLEAN
    BY <1>4 DEF Reopen, Rewound, Frame, Types, States, Beside
  <2> QED
    BY <2>1, FrameSendRrq
<1>5. ASSUME NEW m \in toClient, Receive(m)
      PROVE  Frame'
  <2>1. m.port = iport /\ Arriving(m)
    BY DEF Frame, Nets
  <2> QED
    BY <1>5, <2>1, FrameReceive DEF Receive, Frame, Beside
<1>6. CASE AckAgain
  <2>1. /\ UNCHANGED <<pc, file, tp, ackBlock, oport, iport, block, prevblock, bcounter,
                       packetsize, bufEof, granted, sessions, toClient, calls>>
        /\ retry' = retry + 1
        /\ toServer' \subseteq toServer \cup {Ack(iport, ackBlock)}
    BY <1>6, PutOneMore DEF AckAgain
  <2>2. Types' /\ Beside'
    BY <2>1 DEF Frame, Types, Beside
  <2>3. Nets'
    BY <2>1 DEF Frame, Nets, Session, Arriving, Data0, Ack
  <2> QED
    BY <2>2, <2>3 DEF Frame
<1>7. CASE GiveUp \/ Interrupt
  <2>1. pc' \in States /\ pc # "closed"
    BY <1>7 DEF GiveUp, Interrupt, FillFails, Filling, Waiting, Aborting, States
  <2>2. retry' \in Nat
    BY <1>7, TftpAssumption DEF GiveUp, Interrupt, Limit, Frame, Types
  <2> QED
    BY <1>7, <2>1, <2>2, FrameFewer DEF GiveUp, Interrupt, FillFails, Frame, Types, Beside
<1>8. CASE Lose
  BY <1>8, FrameFewer DEF Lose, Frame, Types, Beside
<1> QED
  BY <1>1, <1>2, <1>3, <1>4, <1>5, <1>6, <1>7, <1>8, FrameAskAgain, FrameServes
  DEF Undisturbed, Steps, Awaits

LEMMA FrameNext ==
  ASSUME Frame, [Next]_vars
  PROVE  Frame'
<1>1. ASSUME NEW f \in Files, Open(f)
      PROVE  Frame'
  <2>1. calls' \in Nat /\ pc' \in States /\ SendRrq(f) /\ file' = f /\ strays' = strays
    BY <1>1 DEF Open, Frame, Types, States
  <2>2. mixed' \in BOOLEAN
    BY <1>1 DEF Open
  <2> QED
    BY <2>1, <2>2, FrameSendRrq
<1>2. ASSUME NEW m \in strays, ReceiveStray(m)
      PROVE  Frame'
  <2>1. m \in StrayTypes /\ Arriving(m)
    BY StraysTyped DEF Frame, Beside
  <2>2. mixed' \in BOOLEAN
    BY <1>2 DEF ReceiveStray, Frame, Beside
  <2>3. m.port = iport /\ strays' \subseteq strays /\ UNCHANGED <<server, toClient>>
    BY <1>2 DEF ReceiveStray
  <2> QED
    BY <1>2, <2>1, <2>2, <2>3, FrameReceive DEF ReceiveStray
<1>3. CASE UNCHANGED vars
  BY <1>3, FrameFewer
  DEF vars, client, sent, transfer, buffer, server, others, Frame, Types, Beside
<1> QED
  BY <1>1, <1>2, <1>3, FrameUndisturbed DEF Next, Opens, Astray

LEMMA FrameCorrect == Spec => []Frame
BY FrameInit, FrameNext, PTL DEF Spec

---------------------------------------------------------------------------
(* The link, as long as nothing of another transfer was taken. *)

LEMMA LinkInit == Init => LinkInv
<1> SUFFICES ASSUME Init PROVE LinkInv
  OBVIOUS
<1>1. 0 \in 0 .. BlockMod - 1
  BY TftpAssumption
<1>2. Types
  BY <1>1 DEF Init, Types, States
<1>3. Counted
  BY DEF Init, Counted
<1>4. Sized
  BY DEF Init, Sized
<1> QED
  BY <1>2, <1>3, <1>4 DEF Init, LinkInv, Outgoing, Incoming, Served

\* What the link layer says stays true where nothing of it is touched, and
\* where datagrams or the server's transfer are given up.
LEMMA LinkFewer ==
  ASSUME LinkInv,
         UNCHANGED <<file, tp, ackBlock, iport, block, prevblock, bcounter,
                     packetsize, bufEof, granted>>,
         toServer' \subseteq toServer, toClient' \subseteq toClient,
         sessions' \subseteq sessions,
         pc' \in States, pc' # "closed" => pc # "closed", retry' \in Nat, calls' \in Nat
  PROVE  LinkInv'
<1>1. Types' /\ Counted' /\ Sized'
  BY DEF LinkInv, Types, Counted, Sized, Agreed, Packet
<1>2. \A f, k : BlockOf(f, k)' = BlockOf(f, k)
  BY DEF BlockOf, Packet
<1>3. Oack(iport, granted, file)' = Oack(iport, granted, file)
  BY DEF Oack
<1>4. Outgoing'
  BY DEF LinkInv, Outgoing, FromClient, Agreed, Packet, Request, Abort, Ack
<1>5. Incoming'
  BY <1>2, <1>3
  DEF LinkInv, Incoming, FromServer, IsBlock, Refusal, Agreed, Numbered, Packet
<1>6. Served'
  BY DEF LinkInv, Served, Serving, Agreed, Numbered, Packet
<1> QED
  BY <1>1, <1>4, <1>5, <1>6 DEF LinkInv

LEMMA LinkSendRrq ==
  ASSUME Frame, NEW f \in Files, SendRrq(f), file' = f, strays' = strays,
         mixed' \in BOOLEAN, pc' \in States, calls' \in Nat
  PROVE  LinkInv'
<1>1. toServer' = {Request(iport', f)} /\ toClient' = {} /\ sessions' = {}
  BY PortIsNew DEF SendRrq, NewPort
<1>2. Types'
  BY FrameSendRrq DEF Frame
<1>3. Counted' /\ Sized'
  BY DEF Counted, Sized, SendRrq, NewPort
<1>4. Outgoing' /\ Incoming' /\ Served'
  BY <1>1 DEF Outgoing, Incoming, Served, FromClient, SendRrq, Request
<1> QED
  BY <1>2, <1>3, <1>4 DEF LinkInv

LEMMA LinkAskAgain ==
  ASSUME Frame, LinkInv, AskAgain
  PROVE  LinkInv'
<1>1. /\ toServer' \subseteq {Request(iport', file)}
      /\ toClient' = {} /\ sessions' = {}
  BY PortIsNew DEF AskAgain, NewPort
<1>2. Types' /\ Counted' /\ Sized'
  BY DEF LinkInv, Types, Counted, Sized, Agreed, Packet, AskAgain, NewPort, sent, buffer, reader
<1>3. file' = file /\ file \in Files /\ bcounter' = 0
  BY DEF LinkInv, Types, Counted, AskAgain, Filling, Waiting, Aborting, buffer
<1>4. Outgoing' /\ Incoming' /\ Served'
  BY <1>1, <1>3 DEF Outgoing, Incoming, Served, FromClient, Request
<1> QED
  BY <1>2, <1>4 DEF LinkInv

LEMMA LinkAckAgain ==
  ASSUME LinkInv, AckAgain
  PROVE  LinkInv'
<1>1. /\ UNCHANGED <<pc, file, tp, ackBlock, iport, block, prevblock, bcounter,
                     packetsize, bufEof, granted, sessions, toClient, calls>>
      /\ retry' = retry + 1
      /\ toServer' \subseteq toServer \cup {Ack(iport, ackBlock)}
  BY PutOneMore DEF AckAgain, sent, buffer, server, reader
<1>2. ackBlock = bcounter /\ bcounter \in Nat /\ Agreed
  BY DEF LinkInv, Types, Counted, Sized, AckAgain, Filling
<1>3. Types' /\ Counted' /\ Sized'
  BY <1>1 DEF LinkInv, Types, Counted, Sized, Agreed, Packet
<1>4. Outgoing'
  BY <1>1, <1>2 DEF LinkInv, Outgoing, FromClient, Agreed, Packet, Request, Abort, Ack
<1>5. Incoming' /\ Served'
  BY <1>1 DEF LinkInv, Incoming, Served, FromServer, IsBlock, Serving, Refusal, Oack,
              Agreed, Numbered, Packet, BlockOf
<1> QED
  BY <1>3, <1>4, <1>5 DEF LinkInv

\* A request that is on its way is alone.
LEMMA NoRequest ==
  ASSUME LinkInv, toClient # {} \/ sessions # {} \/ bcounter > 0, NEW k \in toServer
  PROVE  k = Abort(iport) \/ \E b \in 0 .. bcounter : k = Ack(iport, b) /\ Agreed
BY DEF LinkInv, Types, Outgoing, FromClient

LEMMA LinkOack ==
  ASSUME LinkInv, NEW m \in toClient, Receive(m), ReceiveOack(m)
  PROVE  LinkInv'
<1>1. CASE prevblock # 0
  <2>1. toClient' \subseteq toClient /\ UNCHANGED <<client, server, toServer>>
    BY <1>1 DEF Receive, ReceiveOack, Ignore
  <2> QED
    BY <2>1, LinkFewer DEF client, server, sent, transfer, buffer, LinkInv, Types
<1>2. CASE prevblock = 0
  <2>1. /\ UNCHANGED <<pc, file, iport, retry, prevblock, bcounter, granted, sessions, calls>>
        /\ block' = 0 /\ ackBlock' = 0 /\ packetsize' = m.blksize
        /\ bufEof' = Aborting /\ tp' \in {"error", "ack"}
        /\ toClient' \subseteq toClient
        /\ toServer' \subseteq toServer \cup {Abort(iport), Ack(iport, 0)}
    BY <1>2, PutOneMore DEF Receive, ReceiveOack, Answer, server, reader
  <2>2. m = Oack(iport, granted, file)
    BY DEF ReceiveOack, LinkInv, Incoming, FromServer, IsBlock, Refusal
  <2>3. packetsize' = Packet(granted)
    BY <2>1, <2>2 DEF Oack, Packet
  <2>4. Agreed' /\ packetsize' \in {DefaultSize, MaxPacket}
    BY <2>1, <2>3 DEF Agreed, Packet
  <2>5. bcounter = 0 /\ 0 \in 0 .. BlockMod - 1
    BY <1>2, TftpAssumption DEF LinkInv, Counted
  <2>6. Types'
    BY <2>1, <2>4, <2>5 DEF LinkInv, Types, Aborting
  <2>7. Counted' /\ Sized'
    BY <1>2, <2>1, <2>3, <2>4, <2>5 DEF Counted, Sized, Packet
  <2>8. \A k \in toServer' : k = Abort(iport) \/ \E b \in 0 .. bcounter : k = Ack(iport, b)
    BY <2>1, <2>5, NoRequest
  <2>9. Outgoing'
    BY <2>1, <2>4, <2>8 DEF Outgoing, FromClient, Abort, Ack
  <2>10. Incoming' /\ Served'
    BY <2>1, <2>4 DEF LinkInv, Incoming, Served, FromServer, IsBlock, Serving, Refusal, Oack,
                      Numbered, Packet, BlockOf
  <2> QED
    BY <2>6, <2>7, <2>9, <2>10 DEF LinkInv
<1> QED
  BY <1>1, <1>2

\* The number buf_fill goes by is that of the last block or of the next.
LEMMA NextOrLast ==
  ASSUME LinkInv, NEW n \in 0 .. BlockMod - 1,
         NEW b, b = IF OutOfOrder(n) THEN prevblock ELSE n
  PROVE  /\ b \in 0 .. BlockMod - 1
         /\ (b - prevblock) % BlockMod # 1 => b = prevblock
         /\ (b - prevblock) % BlockMod = 1 => b = n /\ b = prevblock + 1
<1>1. prevblock \in 0 .. BlockMod - 1 /\ bcounter = prevblock
  BY DEF LinkInv, Types, Counted
<1>2. b = prevblock \/ (b = n /\ b = prevblock + 1)
  BY <1>1 DEF OutOfOrder
<1>3. BlockMod \in Nat \ {0} /\ 0 \in 0 .. BlockMod - 1 /\ 1 \in 0 .. BlockMod - 1
  BY TftpAssumption
<1>4. 0 % BlockMod = 0 /\ 1 % BlockMod = 1
  BY <1>3, SmallMod
<1>5. CASE b = prevblock
  <2>1. b - prevblock = 0
    BY <1>1, <1>5
  <2> QED
    BY <1>1, <1>4, <1>5, <2>1
<1>6. CASE b = n /\ b = prevblock + 1
  <2>1. b - prevblock = 1
    BY <1>1, <1>6
  <2> QED
    BY <1>4, <1>6, <2>1
<1> QED
  BY <1>2, <1>5, <1>6

\* What has been on its way before stays a block of the transfer while the
\* client takes the next.
LEMMA BlockStays ==
  ASSUME LinkInv, NEW k, IsBlock(k), bcounter' \in {bcounter, bcounter + 1},
         UNCHANGED <<iport, packetsize, granted, file, sessions>>
  PROVE  IsBlock(k)'
<1>1. bcounter \in Nat /\ BlockMod \in Nat
  BY TftpAssumption DEF LinkInv, Types
<1>2. Numbered' => Numbered
  BY <1>1 DEF Numbered
<1>3. BlockOf(file, k.block)' = BlockOf(file, k.block)
  BY DEF BlockOf, Packet
<1>4. k.block \in 1 .. bcounter + 1 => k.block \in 1 .. bcounter' + 1
  BY <1>1
<1> QED
  BY <1>2, <1>3, <1>4 DEF IsBlock, Agreed, Packet

LEMMA LinkData ==
  ASSUME LinkInv, NEW m \in toClient, Receive(m), ReceiveData(m)
  PROVE  LinkInv'
<1>1. CASE Len(m.data) > packetsize
  <2>1. toClient' \subseteq toClient /\ UNCHANGED <<client, server, toServer>>
    BY <1>1 DEF Receive, ReceiveData, Ignore
  <2> QED
    BY <2>1, LinkFewer DEF client, server, sent, transfer, buffer, LinkInv, Types
<1>2. CASE ~(Len(m.data) > packetsize)
  <2> DEFINE b == IF OutOfOrder(m.block) THEN prevblock ELSE m.block
             taken == ~Aborting /\ (b - prevblock) % BlockMod = 1
  <2>1. /\ UNCHANGED <<pc, file, iport, packetsize, granted, sessions, calls>>
        /\ block' = b /\ ackBlock' = b
        /\ tp' = IF Aborting THEN "error" ELSE "ack"
        /\ toClient' \subseteq toClient
        /\ toServer' \subseteq toServer \cup
             {IF Aborting THEN Abort(iport) ELSE Ack(iport, b)}
    BY <1>2, PutOneMore DEF Receive, ReceiveData, Answer, server, reader
  <2>a. taken => TakeBlock(b, m.data)
    BY <1>2 DEF ReceiveData
  <2>b. TakeBlock(b, m.data) => bufEof' \in BOOLEAN
    BY DEF TakeBlock
  <2>2. taken => /\ prevblock' = b /\ retry' = 0 /\ bcounter' = bcounter + 1
                 /\ bufEof' \in BOOLEAN
    BY <2>a, <2>b DEF TakeBlock
  <2>3. ~taken => /\ UNCHANGED <<prevblock, retry, bcounter>>
                  /\ bufEof' = IF Aborting THEN TRUE ELSE bufEof
    BY <1>2 DEF Receive, ReceiveData
  <2>4. IsBlock(m)
    BY DEF LinkInv, Incoming, FromServer, Refusal, Oack, ReceiveData
  <2>5. /\ b \in 0 .. BlockMod - 1
        /\ (b - prevblock) % BlockMod # 1 => b = prevblock
        /\ (b - prevblock) % BlockMod = 1 => b = m.block /\ b = prevblock + 1
    BY <2>4, NextOrLast DEF IsBlock
  <2>6. bcounter = prevblock /\ bcounter \in Nat /\ Agreed /\ Types /\ ~bufEof
    BY <2>4 DEF LinkInv, Types, Counted, IsBlock, Receive, Filling
  <2>7. bcounter' \in {bcounter, bcounter + 1} /\ bcounter' = prevblock'
    BY <2>2, <2>3, <2>5, <2>6
  <2>8. ~Aborting => b = bcounter'
    BY <2>2, <2>3, <2>5, <2>6
  <2>9. Agreed'
    BY <2>1, <2>6 DEF Agreed, Packet
  <2>c. retry' \in {0, retry}
    BY <2>2, <2>3
  <2> HIDE DEF b
  <2>10. Types'
    <3>1. retry' \in Nat /\ bcounter' \in Nat
      BY <2>c, <2>6, <2>7 DEF Types
    <3>2. bufEof' \in BOOLEAN
      BY <2>2, <2>3, <2>6 DEF Types
    <3>3. block' \in 0 .. BlockMod - 1 /\ ackBlock' \in 0 .. BlockMod - 1
      BY <2>1, <2>5
    <3>4. prevblock' \in 0 .. BlockMod - 1
      BY <2>2, <2>3, <2>5, <2>6 DEF Types
    <3>5. tp' \in {"rrq", "ack", "error"}
      BY <2>1
    <3> QED
      BY <2>1, <2>6, <3>1, <3>2, <3>3, <3>4, <3>5 DEF Types
  <2>11. Counted'
    <3>1. ~bufEof' => ~Aborting
      BY <2>3
    <3> QED
      BY <2>1, <2>7, <2>8, <3>1 DEF Counted
  <2>12. Sized'
    BY <2>1, <2>9 DEF LinkInv, Sized
  <2>13. Outgoing'
    <3>1. ASSUME NEW k \in toServer'
          PROVE  k = Abort(iport) \/ \E n \in 0 .. bcounter' : k = Ack(iport, n)
      <4>1. CASE k \in toServer
        BY <2>6, <2>7, <4>1, NoRequest
      <4>2. CASE k \notin toServer
        <5>1. k = IF Aborting THEN Abort(iport) ELSE Ack(iport, b)
          BY <2>1, <4>2
        <5>2. ~Aborting => b \in 0 .. bcounter'
          BY <2>5, <2>8
        <5> QED
          BY <5>1, <5>2
      <4> QED
        BY <4>1, <4>2
    <3> QED
      BY <2>1, <2>9, <3>1 DEF Outgoing, FromClient, Abort, Ack
  <2>14. Incoming'
    <3>1. ASSUME NEW k \in toClient'
          PROVE  FromServer(k)'
      <4>1. FromServer(k)
        BY <2>1 DEF LinkInv, Incoming
      <4>2. IsBlock(k) => IsBlock(k)'
        BY <2>1, <2>7, BlockStays
      <4> QED
        BY <2>1, <4>1, <4>2 DEF FromServer, Refusal, Oack
    <3> QED
      BY <3>1 DEF Incoming
  <2>15. Served'
    <3>1. ASSUME NEW s \in sessions, Numbered'
          PROVE  s.sent \in {bcounter', bcounter' + 1}
      <4>1. Numbered /\ s.sent \in {bcounter, bcounter + 1} /\ m.block <= s.sent
        BY <2>4, <2>6, <2>7, <3>1, TftpAssumption
        DEF LinkInv, Served, Serving, IsBlock, Numbered
      <4>2. CASE taken
        BY <2>2, <2>5, <2>6, <4>1, <4>2
      <4>3. CASE ~taken
        BY <2>3, <4>1, <4>3
      <4> QED
        BY <4>2, <4>3
    <3> QED
      BY <2>1, <2>9, <3>1 DEF LinkInv, Served, Serving
  <2> QED
    BY <2>10, <2>11, <2>12, <2>13, <2>14, <2>15 DEF LinkInv
<1> QED
  BY <1>1, <1>2

\* What the server sends for its transfer belongs to it.
LEMMA SendsOfTransfer ==
  ASSUME LinkInv, NEW s, NEW x, x = LastSent(s),
         UNCHANGED <<iport, file, granted, bcounter, packetsize>>,
         s.port = iport, s.file = file, file \in Files, s.sent \in Nat,
         s.sent > 0 => Agreed, Numbered => s.sent \in {bcounter, bcounter + 1},
         \A t \in sessions' : t = s
  PROVE  FromServer(x)'
<1>1. CASE s.sent = 0
  BY <1>1 DEF LastSent, FromServer, Oack
<1>2. CASE s.sent # 0
  <2>1. x = Data(s.port, s.sent % BlockMod, BlockOf(s.file, s.sent)) /\ Agreed
    BY <1>2 DEF LastSent
  <2>2. x.type = "data" /\ x.port = iport /\ x.block = s.sent % BlockMod
        /\ x.data = BlockOf(file, s.sent)
    BY <2>1 DEF Data
  <2>3. BlockMod \in Nat \ {0} /\ bcounter \in Nat
    BY TftpAssumption DEF LinkInv, Types
  <2>4. x.block \in 0 .. BlockMod - 1
    BY <2>2, <2>3, ModInRange
  <2>5. Numbered => x.block = s.sent /\ s.sent \in 1 .. bcounter + 1
    <3>1. Numbered => s.sent \in 0 .. BlockMod - 1
      BY <2>3 DEF Numbered
    <3> QED
      BY <1>2, <2>2, <2>3, <3>1, SmallMod
  <2>6. BlockOf(file, x.block)' = BlockOf(file, x.block)
    BY DEF BlockOf, Packet
  <2>7. Agreed' /\ (Numbered' <=> Numbered)
    BY <2>1 DEF Agreed, Numbered, Packet
  <2>8. Numbered => \A t \in sessions' : x.block <= t.sent
    BY <2>3, <2>5
  <2>9. IsBlock(x)'
    BY <2>2, <2>4, <2>5, <2>6, <2>7, <2>8 DEF IsBlock
  <2> QED
    BY <2>9 DEF FromServer
<1> QED
  BY <1>1, <1>2

\* The server sends x for its one transfer, which is now t.
LEMMA LinkSends ==
  ASSUME LinkInv, NEW t, NEW x, x = LastSent(t),
         UNCHANGED <<client, granted>>,
         toServer' \subseteq toServer,
         \A k \in toServer' : k # Request(iport, file),
         toClient' \subseteq toClient \cup {x},
         sessions' = {t},
         t = [port |-> iport, file |-> file, resent |-> t.resent, sent |-> t.sent],
         t.resent \in Nat, t.sent \in Nat, file \in Files,
         t.sent > 0 => Agreed, Numbered => t.sent \in {bcounter, bcounter + 1},
         toClient = {} \/ \E s \in sessions : s.sent <= t.sent
  PROVE  LinkInv'
<1>1. UNCHANGED <<pc, file, tp, ackBlock, iport, retry, block, prevblock, bcounter,
                  packetsize, bufEof, granted, calls>>
  BY DEF client, sent, transfer, buffer
<1>2. Types' /\ Counted' /\ Sized'
  BY <1>1 DEF LinkInv, Types, Counted, Sized, Agreed, Packet
<1>3. Outgoing'
  BY <1>1 DEF LinkInv, Outgoing, FromClient, Request, Abort, Ack, Agreed, Packet
<1>4. Served'
  BY <1>1 DEF Served, Serving, Agreed, Numbered, Packet
<1>5. FromServer(x)'
  <2>1. t.port = iport /\ t.file = file /\ \A s \in sessions' : s = t
    OBVIOUS
  <2> QED
    BY <1>1, <2>1, SendsOfTransfer
<1>6. ASSUME NEW k \in toClient, k \in toClient'
      PROVE  FromServer(k)'
  <2>1. FromServer(k)
    BY DEF LinkInv, Incoming
  <2>2. ASSUME IsBlock(k)
        PROVE  IsBlock(k)'
    <3>1. PICK s \in sessions : s.sent <= t.sent
      OBVIOUS
    <3>2. Numbered => k.block \in 1 .. bcounter + 1 /\ k.block <= s.sent /\ s.sent \in Nat
      BY <2>2 DEF IsBlock, LinkInv, Served, Serving
    <3>3. bcounter \in Nat
      BY DEF LinkInv, Types
    <3>4. Numbered => k.block <= t.sent
      BY <3>1, <3>2, <3>3
    <3>5. BlockOf(file, k.block)' = BlockOf(file, k.block)
      BY <1>1 DEF BlockOf, Packet
    <3> QED
      BY <1>1, <2>2, <3>4, <3>5 DEF IsBlock, Agreed, Numbered, Packet
  <2> QED
    BY <1>1, <2>1, <2>2 DEF FromServer, Refusal, Oack
<1> QED
  BY <1>2, <1>3, <1>4, <1>5, <1>6 DEF LinkInv, Incoming

LEMMA LinkBegin ==
  ASSUME LinkInv, NEW m \in toServer, Begin(m)
  PROVE  LinkInv'
<1> DEFINE n == IF granted.blksize \/ granted.tsize THEN 0 ELSE 1
           t == [port |-> iport, file |-> file, resent |-> 0, sent |-> n]
<1>1. m = Request(iport, file) /\ file \in Files /\ bcounter = 0 /\ sessions = {} /\ toClient = {}
  BY DEF LinkInv, Outgoing, FromClient, Begin, Abort, Ack
<1>2. /\ UNCHANGED <<client, granted>> /\ toServer' = toServer \ {m}
      /\ sessions' = {t}
      /\ toClient' \subseteq toClient \cup {LastSent(t)}
  BY <1>1, PutOneMore DEF Begin, Request
<1>3. n = 1 => Agreed
  BY DEF LinkInv, Sized, Agreed, Packet
<1>4. t.resent = 0 /\ t.sent = n /\ n \in {0, 1}
  OBVIOUS
<1>5. \A k \in toServer' : k # Request(iport, file)
  BY <1>1, <1>2
<1> HIDE DEF n
<1>6. t = [port |-> iport, file |-> file, resent |-> t.resent, sent |-> t.sent]
  BY <1>4
<1>7. t.sent > 0 => Agreed
  BY <1>3, <1>4
<1>8. t.sent \in {bcounter, bcounter + 1} /\ t.resent \in Nat /\ t.sent \in Nat
  BY <1>1, <1>4
<1> HIDE DEF t
<1> QED
  BY <1>1, <1>2, <1>5, <1>6, <1>7, <1>8, LinkSends

LEMMA LinkResend ==
  ASSUME LinkInv, NEW s \in sessions, Resend(s)
  PROVE  LinkInv'
<1> DEFINE t == [s EXCEPT !.resent = @ + 1]
<1>1. Serving(s)
  BY DEF LinkInv, Served
<1>2. t = [port |-> iport, file |-> file, resent |-> s.resent + 1, sent |-> s.sent]
  BY <1>1 DEF Serving
<1>3. t = [port |-> iport, file |-> file, resent |-> t.resent, sent |-> t.sent]
      /\ t.resent \in Nat /\ t.sent = s.sent
  BY <1>1, <1>2 DEF Serving
<1>4. LastSent(s) = LastSent(t)
  BY <1>1, <1>2 DEF LastSent, Serving
<1>5. sessions = {s}
  BY <1>1 DEF Serving
<1>6. /\ UNCHANGED <<client, granted, toServer>> /\ sessions' = {t}
      /\ toClient' \subseteq toClient \cup {LastSent(t)}
  BY <1>4, <1>5, PutOneMore DEF Resend
<1>7. \A k \in toServer' : k # Request(iport, file)
  BY <1>5, <1>6, NoRequest DEF Request, Abort, Ack
<1>8. /\ t.sent \in Nat /\ file \in Files
      /\ t.sent > 0 => Agreed
      /\ Numbered => t.sent \in {bcounter, bcounter + 1}
      /\ s.sent <= t.sent
  BY <1>1, <1>3 DEF Serving
<1>9. /\ UNCHANGED <<client, granted>> /\ toServer' \subseteq toServer
      /\ \E k \in sessions : k.sent <= t.sent
  BY <1>6, <1>8
<1>10. t.sent > 0 => Agreed
  BY <1>8
<1> HIDE DEF t
<1> QED
  BY <1>3, <1>6, <1>7, <1>8, <1>9, <1>10, LinkSends

LEMMA LinkAcknowledged ==
  ASSUME LinkInv, NEW m \in toServer, Acknowledged(m)
  PROVE  LinkInv'
<1>1. UNCHANGED <<client, granted>> /\ toServer' = toServer \ {m} /\ m.type = "ack"
  BY DEF Acknowledged
<1>2. CASE UNCHANGED toClient /\ sessions' \subseteq sessions
  BY <1>1, <1>2, LinkFewer DEF client, sent, transfer, buffer, LinkInv, Types
<1>3. ASSUME NEW s \in sessions, m.block = s.sent % BlockMod,
             NEW t, t = [s EXCEPT !.sent = @ + 1, !.resent = 0],
             sessions' = (sessions \ {s}) \cup {t},
             toClient' = Put(toClient, LastSent(t))
      PROVE  LinkInv'
  <2>1. Serving(s)
    BY DEF LinkInv, Served
  <2>2. t = [port |-> iport, file |-> file, resent |-> 0, sent |-> s.sent + 1]
    <3>1. PICK r \in Nat, n \in Nat :
            s = [port |-> iport, file |-> file, resent |-> r, sent |-> n]
      BY <2>1 DEF Serving
    <3>2. t = [s EXCEPT !.sent = @ + 1, !.resent = 0]
      BY <1>3
    <3> QED
      BY <3>1, <3>2
  <2>3. /\ t = [port |-> iport, file |-> file, resent |-> t.resent, sent |-> t.sent]
        /\ t.resent \in Nat /\ t.sent = s.sent + 1
    BY <2>2
  <2>4. sessions' = {t} /\ toClient' \subseteq toClient \cup {LastSent(t)}
    BY <1>3, <2>1, PutOneMore DEF Serving
  <2>5. m.block \in 0 .. bcounter /\ Agreed
    BY <1>1, NoRequest DEF Abort, Ack
  <2>6. \A k \in toServer' : k # Request(iport, file)
    BY <1>1, NoRequest DEF Request, Abort, Ack
  <2>7. BlockMod \in Nat \ {0} /\ bcounter \in Nat /\ s.sent \in Nat
    BY <2>1, TftpAssumption DEF LinkInv, Types, Serving
  <2>8. Numbered => t.sent = bcounter + 1
    <3>1. Numbered => s.sent \in 0 .. BlockMod - 1 /\ s.sent \in {bcounter, bcounter + 1}
      BY <2>1, <2>7 DEF Serving, Numbered
    <3>2. Numbered => s.sent % BlockMod = s.sent
      BY <2>7, <3>1, SmallMod
    <3> QED
      BY <1>3, <2>3, <2>5, <2>7, <3>1, <3>2
  <2>9. t.sent \in Nat /\ s.sent <= t.sent /\ file \in Files
    BY <2>1, <2>3, <2>7 DEF Serving
  <2> QED
    BY <1>1, <2>3, <2>4, <2>5, <2>6, <2>8, <2>9, LinkSends
<1> QED
  BY <1>1, <1>2, <1>3 DEF Acknowledged

\* A packet of another transfer that is not taken: its acknowledgement is that
\* of the last block once more, and goes elsewhere.
LEMMA StrayIsLast ==
  ASSUME LinkInv, NEW m \in StrayTypes, ReceiveStray(m), ~mixed'
  PROVE  /\ UNCHANGED <<prevblock, bcounter, packetsize, filemax, iport, file, buf, bufRead,
                        savedPos, filepos, granted, sessions, toServer, toClient, calls>>
         /\ \/ ReceiveError(m)
            \/ UNCHANGED <<pc, size, got, retry>> /\ UNCHANGED <<block, ackBlock, tp, bufEof>>
            \/ /\ UNCHANGED <<pc, size, got, retry>>
               /\ block' \in {prevblock, prevblock + 1} /\ ackBlock' = block'
               /\ block' = prevblock \/ bufEof'
               /\ tp' \in {"ack", "error"}
               /\ \/ Aborting /\ bufEof' = TRUE
                  \/ ~Aborting /\ bufEof' = bufEof
<1> USE DEF client, sent, transfer, buffer, reader, server
<1>1. UNCHANGED <<packetsize, filemax, bcounter, granted, sessions, toClient>> /\ ~bufEof
  BY DEF ReceiveStray, Filling
<1>2. CASE ReceiveError(m)
  BY <1>1, <1>2 DEF ReceiveError, FillFails
<1>3. CASE UNCHANGED <<client, toServer>>
  BY <1>1, <1>3
<1>4. m.from = Elsewhere /\ Here # Elsewhere
  BY DEF StrayTypes, Here, Elsewhere
<1>5. CASE ReceiveOack(m) /\ ~UNCHANGED <<client, toServer>>
  <2>1. prevblock = 0
    BY <1>5 DEF ReceiveOack, Ignore
  <2>2. /\ block' = 0 /\ ackBlock' = 0 /\ tp' \in {"error", "ack"} /\ bufEof' = Aborting
        /\ UNCHANGED <<toServer, pc, file, iport, retry, prevblock, buf, bufRead, savedPos,
                       filepos, size, got, calls>>
    BY <1>4, <1>5, <2>1 DEF ReceiveOack, Answer
  <2>3. \/ Aborting /\ bufEof' = TRUE
        \/ ~Aborting /\ bufEof' = bufEof
    <3>1. bufEof = FALSE
      BY <1>1 DEF LinkInv, Types
    <3>2. bufEof' = Aborting /\ Aborting \in BOOLEAN
      BY <2>2 DEF Aborting
    <3> QED
      BY <3>1, <3>2, Zenon
  <2> QED
    BY <1>1, <2>1, <2>2, <2>3
<1>6. CASE ReceiveData(m) /\ ~UNCHANGED <<client, toServer>>
  <2> DEFINE b == IF OutOfOrder(m.block) THEN prevblock ELSE m.block
  <2>1. /\ ~(Len(m.data) > packetsize)
        /\ block' = b /\ ackBlock' = b /\ tp' \in {"error", "ack"}
        /\ UNCHANGED <<toServer, pc, file, iport, savedPos, filepos, size, got, calls>>
    BY <1>4, <1>6 DEF ReceiveData, Ignore, Answer
  <2>2. m.block \in 0 .. BlockMod - 1
    BY <1>6 DEF ReceiveData, StrayTypes
  <2>3. bcounter \in Nat /\ bcounter = prevblock
    BY DEF LinkInv, Types, Counted
  <2>4. CASE Aborting
    <3>1. UNCHANGED <<retry, prevblock, buf, bufRead>> /\ bufEof' = TRUE
      BY <1>6, <2>1, <2>4 DEF ReceiveData
    <3>2. b = prevblock \/ b = prevblock + 1
      BY <2>2, NextOrLast
    <3> HIDE DEF b
    <3>3. block' \in {prevblock, prevblock + 1} /\ ackBlock' = block' /\ bufEof'
      BY <2>1, <3>1, <3>2
    <3> QED
      BY <1>1, <2>1, <2>4, <3>1, <3>3
  <2>5. CASE ~Aborting
    <3>1. (b - prevblock) % BlockMod # 1
      BY <1>1, <1>6, <2>1, <2>3, <2>5 DEF ReceiveData, TakeBlock
    <3>2. UNCHANGED <<retry, prevblock, buf, bufRead, bufEof>>
      BY <1>6, <2>1, <2>5, <3>1 DEF ReceiveData
    <3>3. b = prevblock
      BY <2>2, <3>1, NextOrLast
    <3> HIDE DEF b
    <3>4. block' = prevblock /\ ackBlock' = block'
      BY <2>1, <3>3
    <3> QED
      BY <1>1, <2>1, <2>5, <3>2, <3>4
  <2> QED
    BY <2>4, <2>5
<1> QED
  BY <1>2, <1>3, <1>5, <1>6 DEF ReceiveStray

LEMMA LinkStray ==
  ASSUME Frame, LinkInv, NEW m \in strays, ReceiveStray(m), ~mixed'
  PROVE  LinkInv'
<1>1. m \in StrayTypes
  BY DEF Frame, Beside
<1>2. CASE ReceiveError(m)
  <2>1. pc' \in States /\ pc # "closed" /\ UNCHANGED <<calls, toServer, sessions, granted>>
    BY <1>2
    DEF ReceiveStray, ReceiveError, FillFails, Filling, Waiting, Aborting, States, server
  <2> QED
    BY <1>2, <2>1, LinkFewer
    DEF ReceiveStray, ReceiveError, FillFails, LinkInv, Types, sent, transfer, buffer
<1>3. CASE ~ReceiveError(m)
  <2>1. /\ UNCHANGED <<pc, retry, prevblock, bcounter, packetsize, iport, file, granted,
                       sessions, toServer, toClient, calls>>
        /\ \/ UNCHANGED <<block, ackBlock, tp, bufEof>>
           \/ /\ block' \in {prevblock, prevblock + 1} /\ ackBlock' = block'
              /\ block' = prevblock \/ bufEof'
              /\ tp' \in {"ack", "error"} /\ bufEof' \in {TRUE, bufEof}
    BY <1>1, <1>3, StrayIsLast
  <2>2. Types'
    BY FrameNext DEF Frame, Next, Astray
  <2>3. Counted'
    BY <2>1 DEF LinkInv, Counted
  <2>4. Sized'
    BY <2>1 DEF LinkInv, Sized, Agreed, Packet
  <2>5. Outgoing' /\ Incoming' /\ Served'
    BY <2>1 DEF LinkInv, Outgoing, Incoming, Served, FromClient, FromServer, IsBlock, Serving,
                Request, Abort, Ack, Refusal, Oack, Agreed, Numbered, Packet, BlockOf
  <2> QED
    BY <2>2, <2>3, <2>4, <2>5 DEF LinkInv
<1> QED
  BY <1>2, <1>3

\* What the link layer says stays true in every step.
LEMMA LinkUndisturbed ==
  ASSUME Frame, LinkInv, Undisturbed, UNCHANGED others
  PROVE  LinkInv'
<1> USE DEF sent, transfer, buffer, reader, client, server, others
<1>2. CASE \/ \E pos \in Seeks : Seek(pos)
           \/ \E n \in ReadSizes : Read(n)
           \/ Close
  BY <1>2, LinkFewer DEF Seek, Read, Close, LinkInv, Types, States
<1>3. CASE Opened \/ Count \/ Closed
  BY <1>3, LinkFewer DEF Opened, Count, Closed, LinkInv, Types, States
<1>4. CASE FillReturns \/ CopyOut \/ SkipBuffer
  BY <1>4, LinkFewer
  DEF FillReturns, CopyOut, SkipBuffer, Copying, Filled, LinkInv, Types, States
<1>5. CASE Reopen \/ Rewound
  <2>1. calls' \in Nat /\ pc' \in States /\ SendRrq(file) /\ file' = file /\ file \in Files
        /\ strays' = strays /\ mixed' \in BOOLEAN
    BY <1>5 DEF Reopen, Rewound, LinkInv, Types, States, Frame, Beside
  <2> QED
    BY <2>1, LinkSendRrq
<1>6. ASSUME NEW m \in toClient, Receive(m)
      PROVE  LinkInv'
  <2>1. CASE ReceiveError(m)
    <3>1. toClient' \subseteq toClient /\ pc' \in States /\ pc # "closed"
      BY <1>6, <2>1
      DEF Receive, ReceiveError, FillFails, Filling, Waiting, Aborting, States
    <3> QED
      BY <1>6, <2>1, <3>1, LinkFewer
      DEF Receive, ReceiveError, FillFails, LinkInv, Types
  <2> QED
    BY <1>6, <2>1, LinkOack, LinkData DEF Receive
<1>7. CASE GiveUp \/ Interrupt
  <2>1. pc' \in States /\ pc # "closed"
    BY <1>7 DEF GiveUp, Interrupt, FillFails, Filling, Waiting, Aborting, States
  <2>2. retry' \in Nat
    BY <1>7, TftpAssumption DEF GiveUp, Interrupt, Limit, LinkInv, Types
  <2> QED
    BY <1>7, <2>1, <2>2, LinkFewer DEF GiveUp, Interrupt, FillFails, LinkInv, Types
<1>8. ASSUME NEW m \in toServer, Refuse(m)
      PROVE  LinkInv'
  <2>1. /\ UNCHANGED <<client, granted, sessions>>
        /\ toServer' = toServer \ {m} /\ m = Request(iport, file)
        /\ toClient' \subseteq toClient \cup {Refusal(iport)}
    BY <1>8, PutOneMore DEF Refuse, LinkInv, Outgoing, FromClient, Request, Abort, Ack
  <2>2. toClient = {} /\ sessions = {}
    BY <1>8, NoRequest, <2>1 DEF Request, Abort, Ack
  <2>3. Types' /\ Counted' /\ Sized'
    BY <2>1 DEF LinkInv, Types, Counted, Sized, Agreed, Packet
  <2>4. Outgoing'
    BY <2>1 DEF LinkInv, Outgoing, FromClient, Request, Abort, Ack, Agreed, Packet
  <2>5. Incoming' /\ Served'
    BY <2>1, <2>2 DEF Incoming, Served, FromServer, Refusal
  <2> QED
    BY <2>3, <2>4, <2>5 DEF LinkInv
<1>9. CASE (\E m \in toServer : Aborted(m)) \/ (\E s \in sessions : Abandon(s)) \/ Lose
  BY <1>9, LinkFewer DEF Aborted, Abandon, Lose, LinkInv, Types
<1> QED
  BY <1>2, <1>3, <1>4, <1>5, <1>6, <1>7, <1>8, <1>9, LinkAskAgain,
     LinkAckAgain, LinkBegin, LinkResend, LinkAcknowledged
  DEF Undisturbed, Calls, Steps, Awaits, Serves

Linked == mixed \/ LinkInv

LEMMA LinkNext ==
  ASSUME Frame, Linked, [Next]_vars
  PROVE  Linked'
<1>1. ASSUME NEW f \in Files, Open(f)
      PROVE  LinkInv'
  <2>1. calls' \in Nat /\ pc' \in States /\ SendRrq(f) /\ file' = f /\ strays' = strays
    BY <1>1 DEF Open, Frame, Types, States
  <2>2. mixed' \in BOOLEAN
    BY <1>1 DEF Open
  <2> QED
    BY <2>1, <2>2, LinkSendRrq
<1>2. ASSUME NEW m \in strays, ReceiveStray(m)
      PROVE  Linked'
  BY <1>2, LinkStray DEF Linked, ReceiveStray
<1>3. CASE UNCHANGED vars
  BY <1>3, LinkFewer DEF vars, client, sent, transfer, buffer, server, others, Linked, LinkInv,
                         Types
<1>4. CASE Undisturbed /\ UNCHANGED others
  BY <1>4, LinkUndisturbed DEF Linked, others
<1> QED
  BY <1>1, <1>2, <1>3, <1>4 DEF Next, Opens, Astray, Linked

LEMMA LinkCorrect == Spec => [](Frame /\ Linked)
<1>1. Init => Linked
  BY LinkInit DEF Linked
<1> QED
  BY <1>1, FrameInit, FrameNext, LinkNext, PTL DEF Spec

\* No acknowledgement goes out for a block that is not copied: the server's
\* transfer is at the client's block or at the next (LockStep, buf_fill).
THEOREM ServerInStep == Spec => []LockStep
<1>1. Linked => LockStep
  BY DEF Linked, LinkInv, Served, Serving, Numbered, LockStep
<1> QED
  BY <1>1, LinkCorrect, PTL

---------------------------------------------------------------------------
(* The buffer: where the client may use it, it holds the bytes of the file *)
(* from Base on, up to where the blocks taken so far reach; the size is    *)
(* known when it is used.                                                  *)

Byte == (Files \X Nat) \cup {Junk}
Streaming == pc \in {"opening", "sizing", "copying", "reading", "open"}
Base == IF pc = "sizing" THEN filemax ELSE savedPos

Sizes ==
  /\ filemax \in Nat \cup {Unknown}
  /\ pc \in {"open", "copying", "reading", "rewinding", "reopening"} =>
       filemax = Length[file]
  /\ pc = "opening" => /\ filemax \in {Unknown, Length[file]} /\ savedPos = 0
                       /\ bufEof => bcounter > 0
  /\ pc = "sizing" => filemax \in Nat /\ bcounter > 0
Reached ==
  Streaming =>
    /\ Base + bufRead = IF bufEof THEN Length[file] ELSE bcounter * packetsize
    /\ Base + bufRead <= Length[file]
Held ==
  /\ buf \in [0 .. BufLen - 1 -> Byte]
  /\ bufRead \in Int /\ bufRead <= BufLen /\ savedPos \in Nat
  /\ ~Streaming /\ pc # "closed" => bufRead = 0
True == Streaming => \A i \in 0 .. bufRead - 1 : buf[i] = <<file, Base + i>>
FileInv == Sizes /\ Reached /\ Held /\ True

LEMMA NoBytesHeld == NoBytes \in [0 .. BufLen - 1 -> Byte]
BY DEF NoBytes, Byte

LEMMA FileInit == Init => FileInv
BY NoBytesHeld, TftpAssumption
DEF Init, FileInv, Sizes, Reached, Held, True, Streaming, Base

\* A block of a file, up to its end.
LEMMA BlockBytes ==
  ASSUME NEW f \in Files, NEW k \in Nat \ {0}, granted \in Servers,
         NEW from, from = (k - 1) * Packet(granted), from <= Length[f]
  PROVE  /\ from \in Nat
         /\ Len(BlockOf(f, k)) = Lowest(Packet(granted), Length[f] - from)
         /\ Len(BlockOf(f, k)) \in Nat
         /\ \A i \in 1 .. Len(BlockOf(f, k)) : BlockOf(f, k)[i] = <<f, from + i - 1>>
<1>1. Packet(granted) \in Nat /\ Length[f] \in Nat
  BY TftpAssumption DEF Packet
<1>2. k - 1 \in Nat
  OBVIOUS
<1>3. from \in Nat
  BY <1>1, <1>2
<1> DEFINE n == Lowest(Packet(granted), Length[f] - from)
<1>4. n \in Nat
  BY <1>1, <1>3 DEF Lowest
<1>5. BlockOf(f, k) = [i \in 1 .. n |-> <<f, from + i - 1>>]
  BY DEF BlockOf
<1> HIDE DEF n
<1>6. Len(BlockOf(f, k)) = n
  BY <1>4, <1>5
<1> QED
  BY <1>3, <1>4, <1>5, <1>6 DEF n

LEMMA FileSendRrq ==
  ASSUME NEW f \in Files, SendRrq(f), file' = f,
         \/ pc' = "opening" /\ filemax' \in {Unknown, Length[f]}
         \/ pc' = "copying" /\ filemax' = Length[f]
  PROVE  FileInv'
<1>1. /\ bcounter' = 0 /\ packetsize' = DefaultSize
      /\ buf' = NoBytes /\ bufRead' = 0 /\ bufEof' = FALSE /\ savedPos' = 0
  BY DEF SendRrq
<1>2. Length[f] \in Nat /\ 0 * DefaultSize = 0 /\ BufLen \in Nat
  BY TftpAssumption
<1>3. Sizes'
  BY <1>1, <1>2 DEF Sizes
<1>4. Reached'
  BY <1>1, <1>2 DEF Reached, Base
<1>5. Held' /\ True'
  BY <1>1, <1>2, NoBytesHeld DEF Held, True, Streaming
<1> QED
  BY <1>3, <1>4, <1>5 DEF FileInv

\* A step that leaves the buffer and the size alone.
LEMMA FileLocal ==
  ASSUME FileInv,
         UNCHANGED <<file, bcounter, packetsize, buf, bufRead, bufEof, savedPos, filemax>>,
         \/ pc' = pc
         \/ pc' = "closed"
         \/ pc = "opening" /\ filemax # Unknown /\ pc' = "open"
         \/ pc \in {"open", "copying", "reading"} /\ pc' \in {"open", "copying", "reading"}
         \/ pc = "rewinding" /\ pc' = "reopening"
  PROVE  FileInv'
<1>1. Sizes'
  BY DEF FileInv, Sizes
<1>2. Streaming' => Streaming /\ Base' = Base
  BY DEF Streaming, Base
<1>3. Reached' /\ True'
  BY <1>2 DEF FileInv, Reached, True
<1>4. Held'
  BY DEF FileInv, Held, Streaming
<1> QED
  BY <1>1, <1>3, <1>4 DEF FileInv

\* A step that empties the buffer: the bytes are counted, skipped, or given up.
LEMMA FileEmpties ==
  ASSUME LinkInv, FileInv,
         UNCHANGED <<file, bcounter, packetsize, bufEof>>,
         buf' = NoBytes, bufRead' = 0, Sizes', savedPos' \in Nat,
         \/ Streaming /\ Streaming' /\ Base' = Base + bufRead
         \/ pc' \in {"rewinding", "closing"}
  PROVE  FileInv'
<1>1. Held'
  BY NoBytesHeld, TftpAssumption DEF Held
<1>2. True'
  BY DEF True
<1>3. Reached'
  <2>1. CASE pc' \in {"rewinding", "closing"}
    BY <2>1 DEF Reached, Streaming
  <2>2. CASE Streaming /\ Streaming' /\ Base' = Base + bufRead
    <3>1. Base + bufRead \in Nat
      <4>1. file \in Files
        BY <2>2 DEF LinkInv, Types, Streaming
      <4>2. bcounter \in Nat /\ packetsize \in Nat /\ Length[file] \in Nat
        BY <4>1, TftpAssumption DEF LinkInv, Types
      <4>3. bcounter * packetsize \in Nat
        BY <4>2, OneMore
      <4> QED
        BY <2>2, <4>2, <4>3 DEF FileInv, Reached
    <3>2. Base' + bufRead' = Base + bufRead
      BY <2>2, <3>1
    <3> QED
      BY <2>2, <3>2 DEF FileInv, Reached
  <2> QED
    BY <2>1, <2>2
<1> QED
  BY <1>1, <1>2, <1>3 DEF FileInv

\* How far the bytes in the buffer reach is a place in the file.
LEMMA ReachIsPlace ==
  ASSUME LinkInv, FileInv, Streaming
  PROVE  Base + bufRead \in Nat /\ Base + bufRead <= Length[file]
<1>1. file \in Files
  BY DEF LinkInv, Types, Streaming
<1>2. bcounter \in Nat /\ packetsize \in Nat /\ Length[file] \in Nat
  BY <1>1, TftpAssumption DEF LinkInv, Types
<1>3. bcounter * packetsize \in Nat
  BY <1>2, OneMore
<1> QED
  BY <1>2, <1>3 DEF FileInv, Reached

LEMMA FileCount ==
  ASSUME LinkInv, FileInv, Count
  PROVE  FileInv'
<1>1. /\ UNCHANGED <<file, bcounter, packetsize, bufEof, savedPos>>
      /\ buf' = NoBytes /\ bufRead' = 0 /\ pc' = "sizing"
      /\ Waiting /\ ~Filling
  BY DEF Count, transfer, Filled
<1>2. CASE pc = "opening" /\ filemax' = bufRead
  <2>1. Streaming /\ Base = 0 /\ savedPos = 0 /\ bufRead \in Int
    BY <1>2 DEF Streaming, Base, FileInv, Sizes, Held
  <2>2. bufRead \in Nat
    BY <2>1, ReachIsPlace
  <2>3. bcounter > 0
    <3>1. CASE bufEof
      BY <1>2, <3>1 DEF FileInv, Sizes
    <3>2. CASE ~bufEof
      <4>1. bufRead + packetsize > BufLen /\ bufRead = bcounter * packetsize
        BY <1>1, <2>1, <2>2, <3>2, TftpAssumption DEF Filling, FileInv, Reached, LinkInv, Types
      <4>2. packetsize \in Nat /\ packetsize <= BufLen /\ bcounter \in Nat
        BY TftpAssumption DEF LinkInv, Types
      <4>3. bcounter = 0 => bcounter * packetsize = 0
        BY <4>2
      <4> QED
        BY <2>2, <4>1, <4>2, <4>3, TftpAssumption
    <3> QED
      BY <3>1, <3>2
  <2>4. Sizes'
    BY <1>1, <1>2, <2>2, <2>3 DEF Sizes
  <2>5. Streaming' /\ Base' = Base + bufRead
    BY <1>1, <1>2, <2>1, <2>2 DEF Streaming, Base
  <2> QED
    BY <1>1, <2>1, <2>4, <2>5, FileEmpties
<1>3. CASE pc = "sizing" /\ filemax' = filemax + bufRead
  <2>1. Streaming /\ Base = filemax /\ savedPos \in Nat
    BY <1>3 DEF Streaming, Base, FileInv, Held
  <2>2. filemax' \in Nat
    BY <1>3, <2>1, ReachIsPlace
  <2>3. Sizes'
    BY <1>1, <1>3, <2>2 DEF FileInv, Sizes
  <2>4. Streaming' /\ Base' = Base + bufRead
    BY <1>1, <1>3, <2>1 DEF Streaming, Base
  <2> QED
    BY <1>1, <2>1, <2>3, <2>4, FileEmpties
<1> QED
  BY <1>2, <1>3 DEF Count

LEMMA FileSkip ==
  ASSUME LinkInv, FileInv, SkipBuffer
  PROVE  FileInv'
<1>1. /\ UNCHANGED <<file, bcounter, packetsize, bufEof, filemax>>
      /\ buf' = NoBytes /\ bufRead' = 0 /\ savedPos' = savedPos + bufRead
      /\ pc = "copying" /\ pc' = "reading"
  BY DEF SkipBuffer, transfer, Copying
<1>2. Streaming /\ Streaming' /\ Base = savedPos /\ Base' = savedPos'
  BY <1>1 DEF Streaming, Base
<1>3. savedPos' \in Nat
  BY <1>1, <1>2, ReachIsPlace
<1>4. Sizes'
  BY <1>1 DEF FileInv, Sizes
<1> QED
  BY <1>1, <1>2, <1>3, <1>4, FileEmpties

LEMMA FileReadClose ==
  ASSUME LinkInv, FileInv, Close \/ \E n \in ReadSizes : Read(n)
  PROVE  FileInv'
<1>1. /\ pc = "open"
      /\ UNCHANGED <<file, bcounter, packetsize, bufEof, filemax, savedPos>>
      /\ \/ pc' \in {"rewinding", "closing"} /\ bufRead' = 0 /\ buf' = NoBytes
         \/ pc' = "copying" /\ UNCHANGED <<bufRead, buf>>
  BY DEF Close, Read, transfer
<1>2. CASE pc' = "copying"
  BY <1>1, <1>2, FileLocal
<1>3. CASE pc' # "copying"
  <2>1. Sizes' /\ savedPos' \in Nat
    BY <1>1, <1>3 DEF FileInv, Sizes, Held
  <2> QED
    BY <1>1, <1>3, <2>1, FileEmpties
<1> QED
  BY <1>2, <1>3

\* Moving the unused data forwards keeps every byte in its place of the file.
LEMMA FileCopyOut ==
  ASSUME LinkInv, FileInv, CopyOut
  PROVE  FileInv'
<1>1. /\ UNCHANGED <<file, bcounter, packetsize, bufEof, filemax>>
      /\ pc = "copying" /\ pc' \in {"open", "reading"}
  BY DEF CopyOut, transfer, Copying
<1>2. CASE UNCHANGED <<buf, bufRead, savedPos>>
  BY <1>1, <1>2, FileLocal
<1>3. CASE /\ buf' = [i \in 0 .. BufLen - 1 |->
                        IF i < BufLen \div 2 THEN buf[i + BufLen \div 2] ELSE Junk]
           /\ bufRead' = bufRead - BufLen \div 2
           /\ savedPos' = savedPos + BufLen \div 2
  <2> DEFINE half == BufLen \div 2
  <2>1. half \in Nat /\ half + half = BufLen /\ BufLen \in Nat
    BY TftpAssumption
  <2>2. /\ buf \in [0 .. BufLen - 1 -> Byte]
        /\ bufRead \in Int /\ bufRead <= BufLen /\ savedPos \in Nat
    BY DEF FileInv, Held
  <2>3. Base = savedPos /\ Base' = savedPos' /\ Streaming /\ Streaming'
    BY <1>1 DEF Base, Streaming
  <2>4. bufRead' = bufRead - half /\ savedPos' = savedPos + half
        /\ buf' = [i \in 0 .. BufLen - 1 |-> IF i < half THEN buf[i + half] ELSE Junk]
    BY <1>3
  <2> HIDE DEF half
  <2>5. Base' + bufRead' = Base + bufRead
    BY <2>1, <2>2, <2>3, <2>4
  <2>6. Sizes'
    BY <1>1 DEF FileInv, Sizes
  <2>7. Reached'
    BY <1>1, <2>3, <2>5 DEF FileInv, Reached
  <2>8. Held'
    <3>1. \A i \in 0 .. BufLen - 1 : i < half => i + half \in 0 .. BufLen - 1
      BY <2>1
    <3>2. buf' \in [0 .. BufLen - 1 -> Byte]
      BY <2>2, <2>4, <3>1 DEF Byte
    <3> QED
      BY <2>1, <2>2, <2>3, <2>4, <3>2 DEF Held
  <2>9. True'
    <3>1. ASSUME NEW i \in 0 .. bufRead' - 1
          PROVE  buf'[i] = <<file, Base' + i>>
      <4>1. i \in 0 .. BufLen - 1 /\ i < half /\ i + half \in 0 .. bufRead - 1
        BY <2>1, <2>2, <2>4
      <4>2. buf'[i] = buf[i + half]
        BY <2>4, <4>1
      <4>3. buf[i + half] = <<file, Base + (i + half)>>
        BY <2>3, <4>1 DEF FileInv, True
      <4>4. Base + (i + half) = Base' + i
        BY <2>1, <2>2, <2>3, <2>4, <4>1
      <4> QED
        BY <4>2, <4>3, <4>4
    <3> QED
      BY <1>1, <3>1 DEF True
  <2> QED
    BY <2>6, <2>7, <2>8, <2>9 DEF FileInv
<1> QED
  BY <1>2, <1>3 DEF CopyOut

\* The size comes with the options of the server, or not.
LEMMA FileOack ==
  ASSUME LinkInv, FileInv, NEW m \in toClient, Receive(m), ReceiveOack(m)
  PROVE  FileInv'
<1>1. CASE prevblock # 0
  <2>1. UNCHANGED client
    BY <1>1 DEF ReceiveOack, Ignore
  <2> QED
    BY <2>1, FileLocal DEF client, transfer, buffer
<1>2. CASE prevblock = 0
  <2>1. /\ UNCHANGED <<pc, file, bcounter, buf, bufRead, savedPos>>
        /\ filemax' = IF m.tsize = Unknown THEN filemax ELSE m.tsize
        /\ packetsize' = m.blksize /\ bufEof' = Aborting
        /\ Waiting /\ ~bufEof /\ bcounter = 0
    BY <1>2 DEF Receive, ReceiveOack, Filling, LinkInv, Counted
  <2>2. m = Oack(iport, granted, file) /\ file \in Files
    BY DEF ReceiveOack, LinkInv, Incoming, FromServer, IsBlock, Refusal
  <2>3. filemax' \in {filemax, Length[file]}
    BY <2>1, <2>2 DEF Oack
  <2>4. Length[file] \in Nat
    BY <2>2, TftpAssumption
  <2>5. pc # "sizing"
    BY <2>1 DEF FileInv, Sizes
  <2>6. Streaming => ~Aborting
    BY DEF Streaming, Aborting
  <2>7. Sizes'
    BY <2>1, <2>3, <2>4, <2>5, <2>6 DEF FileInv, Sizes, Streaming
  <2>8. packetsize \in Nat /\ packetsize' \in Nat
    BY <2>1, <2>2, TftpAssumption DEF Oack, LinkInv, Types
  <2>9. bcounter * packetsize = 0 /\ bcounter' * packetsize' = 0
    BY <2>1, <2>8
  <2>10. Streaming' = Streaming /\ Base' = Base
    BY <2>1, <2>5 DEF Streaming, Base
  <2>11. Reached'
    BY <2>1, <2>6, <2>9, <2>10 DEF FileInv, Reached
  <2>12. Held' /\ True'
    BY <2>1, <2>10 DEF FileInv, Held, True
  <2> QED
    BY <2>7, <2>11, <2>12 DEF FileInv
<1> QED
  BY <1>1, <1>2

\* The next block goes where it belongs.
LEMMA FileData ==
  ASSUME LinkInv, FileInv, NEW m \in toClient, Receive(m), ReceiveData(m)
  PROVE  FileInv'
<1>1. CASE Len(m.data) > packetsize
  <2>1. UNCHANGED client
    BY <1>1 DEF ReceiveData, Ignore
  <2> QED
    BY <2>1, FileLocal DEF client, transfer, buffer
<1>2. CASE ~(Len(m.data) > packetsize)
  <2> DEFINE b == IF OutOfOrder(m.block) THEN prevblock ELSE m.block
             taken == ~Aborting /\ (b - prevblock) % BlockMod = 1
  <2>1. UNCHANGED <<pc, file, packetsize, savedPos, filemax>>
    BY <1>2 DEF ReceiveData
  <2>2. Waiting /\ ~bufEof /\ bufRead + packetsize <= BufLen
    BY DEF Receive, Filling
  <2>3. Streaming <=> ~Aborting
    BY <2>2 DEF Streaming, Waiting, Aborting
  <2>4. Streaming' = Streaming /\ Base' = Base
    BY <2>1 DEF Streaming, Base
  <2>5. CASE ~taken
    <3>1. /\ UNCHANGED <<bcounter, buf, bufRead>>
          /\ bufEof' = IF Aborting THEN TRUE ELSE bufEof
      BY <1>2, <2>5 DEF ReceiveData
    <3>2. ~Aborting => bufEof' = bufEof
      BY <3>1
    <3>3. pc = "opening" => ~Aborting
      BY DEF Aborting
    <3>4. Sizes'
      BY <2>1, <3>1, <3>2, <3>3 DEF FileInv, Sizes
    <3>5. Reached' /\ Held' /\ True'
      BY <2>1, <2>3, <2>4, <3>1, <3>2 DEF FileInv, Reached, Held, True
    <3> QED
      BY <3>4, <3>5 DEF FileInv
  <2>6. CASE taken
    <3> DEFINE n == Len(m.data)
               from == bcounter * packetsize
    <3>1. TakeBlock(b, m.data) /\ Streaming
      BY <1>2, <2>3, <2>6 DEF ReceiveData
    <3>2. IsBlock(m)
      BY DEF LinkInv, Incoming, FromServer, Refusal, Oack, ReceiveData
    <3>3. m.block = prevblock + 1 /\ m.block \in 0 .. BlockMod - 1
      BY <2>6, <3>2, NextOrLast DEF IsBlock
    <3>4. bcounter \in Nat /\ bcounter = prevblock /\ packetsize \in Nat /\ BlockMod \in Nat
      BY TftpAssumption DEF LinkInv, Types, Counted
    <3>5. Numbered /\ m.block = bcounter + 1
      BY <3>3, <3>4 DEF Numbered
    <3>6. m.data = BlockOf(file, bcounter + 1) /\ Agreed /\ file \in Files /\ granted \in Servers
      BY <3>2, <3>5 DEF IsBlock, LinkInv, Types
    <3>7. from = Base + bufRead /\ from <= Length[file] /\ Length[file] \in Nat /\ from \in Nat
      BY <2>2, <3>1, <3>6, TftpAssumption, ReachIsPlace DEF FileInv, Reached
    <3>8. from = ((bcounter + 1) - 1) * Packet(granted) /\ bcounter + 1 \in Nat \ {0}
      BY <3>4, <3>6, OneMore DEF Agreed
    <3>9. /\ n = Lowest(packetsize, Length[file] - from)
          /\ n \in Nat
          /\ \A i \in 1 .. n : m.data[i] = <<file, from + i - 1>>
      <4>1. packetsize = Packet(granted)
        BY <3>6 DEF Agreed
      <4> HIDE DEF from
      <4>2. PICK k \in Nat \ {0} : k = bcounter + 1
        BY <3>8
      <4>5. from = (k - 1) * Packet(granted)
        BY <3>8, <4>2
      <4>3. m.data = BlockOf(file, k) /\ from = (k - 1) * Packet(granted)
        BY <3>6, <4>2, <4>5
      <4>4. /\ Len(BlockOf(file, k)) = Lowest(Packet(granted), Length[file] - from)
            /\ Len(BlockOf(file, k)) \in Nat
            /\ \A i \in 1 .. Len(BlockOf(file, k)) :
                 BlockOf(file, k)[i] = <<file, from + i - 1>>
        BY <3>6, <3>7, <4>3, BlockBytes
      <4> QED
        BY <4>1, <4>3, <4>4
    <3>10. /\ bcounter' = bcounter + 1
           /\ buf' = [i \in 0 .. BufLen - 1 |->
                        IF i \in bufRead .. bufRead + n - 1
                        THEN m.data[i - bufRead + 1] ELSE buf[i]]
           /\ bufRead' = bufRead + n
           /\ bufEof' = (n < packetsize)
      BY <3>1 DEF TakeBlock
    <3>11. (bcounter + 1) * packetsize = from + packetsize
      BY <3>4, OneMore
    <3> HIDE DEF n, from
    <3>12. /\ buf \in [0 .. BufLen - 1 -> Byte]
           /\ bufRead \in Int /\ bufRead <= BufLen /\ savedPos \in Nat /\ BufLen \in Nat
      BY TftpAssumption DEF FileInv, Held
    <3>13. Base \in Int
      BY <3>1, <3>12 DEF Base, FileInv, Sizes
    <3>14. n <= packetsize /\ n <= Length[file] - from
           /\ (n < packetsize => n = Length[file] - from)
      BY <3>4, <3>7, <3>9 DEF Lowest
    <3>15. Sizes'
      BY <2>1, <3>4, <3>10 DEF FileInv, Sizes
    <3>16. Reached'
      <4>1. Base' + bufRead' = from + n
        BY <2>4, <3>7, <3>9, <3>10, <3>12, <3>13
      <4>2. from + n <= Length[file]
        BY <3>7, <3>9, <3>14
      <4>3. CASE n < packetsize
        <5>1. from + n = Length[file]
          BY <3>7, <3>9, <3>14, <4>3
        <5>2. bufEof' = TRUE
          BY <3>10, <4>3
        <5> QED
          BY <2>1, <4>1, <5>1, <5>2, <3>7 DEF Reached
      <4>4. CASE ~(n < packetsize)
        <5>1. n = packetsize
          <6>1. n \in Nat /\ packetsize \in Nat /\ n <= packetsize
            BY <3>4, <3>9, <3>14
          <6> QED
            BY <4>4, <6>1
        <5>2. ~bufEof'
          BY <3>10, <4>4
        <5>3. bcounter' * packetsize' = from + n
          BY <2>1, <3>10, <3>11, <5>1
        <5> QED
          BY <2>1, <4>1, <4>2, <5>2, <5>3 DEF Reached
      <4> QED
        BY <4>3, <4>4
    <3>17. \A i \in bufRead .. bufRead + n - 1 :
             m.data[i - bufRead + 1] = <<file, Base + i>> /\ (i >= 0 => Base + i \in Nat)
      <4>1. ASSUME NEW i \in bufRead .. bufRead + n - 1
            PROVE  m.data[i - bufRead + 1] = <<file, Base + i>> /\ (i >= 0 => Base + i \in Nat)
        <5>1. i - bufRead + 1 \in 1 .. n
          BY <3>9, <3>12
        <5>2. m.data[i - bufRead + 1] = <<file, from + (i - bufRead + 1) - 1>>
          BY <3>9, <5>1
        <5>3. from + (i - bufRead + 1) - 1 = Base + i /\ Base + i >= from
          BY <3>7, <3>9, <3>12, <3>13
        <5> QED
          BY <3>7, <3>9, <3>12, <3>13, <5>2, <5>3
      <4> QED
        BY <4>1
    <3>20. bufRead' \in Int /\ bufRead' <= BufLen
      BY <2>2, <3>4, <3>9, <3>10, <3>12, <3>14
    <3>18. Held'
      <4>2. buf' \in [0 .. BufLen - 1 -> Byte]
        <5>1. ASSUME NEW i \in 0 .. BufLen - 1
              PROVE  (IF i \in bufRead .. bufRead + n - 1
                      THEN m.data[i - bufRead + 1] ELSE buf[i]) \in Byte
          <6>1. i >= 0
            OBVIOUS
          <6>2. CASE i \in bufRead .. bufRead + n - 1
            <7>1. <<file, Base + i>> \in Files \X Nat
              BY <3>6, <3>17, <6>1, <6>2
            <7> QED
              BY <3>17, <6>2, <7>1 DEF Byte
          <6>3. CASE i \notin bufRead .. bufRead + n - 1
            BY <3>12, <6>3
          <6> QED
            BY <6>2, <6>3
        <5> QED
          BY <3>10, <5>1
      <4> QED
        BY <2>1, <2>4, <3>1, <3>12, <3>20, <4>2 DEF Held
    <3>19. True'
      <4>1. ASSUME NEW i \in 0 .. bufRead' - 1
            PROVE  buf'[i] = <<file, Base + i>>
        <5>1. i \in 0 .. BufLen - 1
          <6>1. BufLen \in Nat /\ bufRead \in Int /\ n \in Nat
            BY <3>9, <3>12
          <6>2. bufRead' = bufRead + n /\ bufRead + n <= BufLen
            BY <3>10, <3>20
          <6> QED
            BY <6>1, <6>2
        <5>2. i \in bufRead .. bufRead + n - 1 \/ i \in 0 .. bufRead - 1
          BY <3>9, <3>10, <3>12
        <5>3. CASE i \in bufRead .. bufRead + n - 1
          BY <3>10, <3>17, <5>1, <5>3
        <5>4. CASE i \in 0 .. bufRead - 1 /\ i \notin bufRead .. bufRead + n - 1
          <6>1. buf'[i] = buf[i]
            BY <3>10, <5>1, <5>4
          <6> QED
            BY <3>1, <5>4, <6>1 DEF FileInv, True
        <5> QED
          BY <5>2, <5>3, <5>4
      <4> QED
        BY <2>1, <2>4, <4>1 DEF True
    <3> QED
      BY <3>15, <3>16, <3>18, <3>19 DEF FileInv
  <2> QED
    BY <2>5, <2>6
<1> QED
  BY <1>1, <1>2

\* A packet of another transfer that is not taken may end one that is given up.
LEMMA FileStray ==
  ASSUME Frame, LinkInv, FileInv, NEW m \in strays, ReceiveStray(m), ~mixed'
  PROVE  FileInv'
<1>1. m \in StrayTypes
  BY DEF Frame, Beside
<1>2. CASE ReceiveError(m)
  BY <1>2, FileLocal
  DEF ReceiveStray, ReceiveError, FillFails, Filling, Waiting, Aborting, transfer, buffer
<1>3. CASE ~ReceiveError(m)
  <2>1. /\ UNCHANGED <<pc, file, bcounter, packetsize, buf, bufRead, savedPos, filemax>>
        /\ bufEof' = bufEof \/ Aborting
    BY <1>1, <1>3, StrayIsLast
  <2>2. CASE bufEof' = bufEof
    BY <2>1, <2>2, FileLocal
  <2>3. CASE Aborting
    <3>1. ~Streaming /\ ~Streaming' /\ pc # "opening"
      BY <2>1, <2>3 DEF Aborting, Streaming
    <3> QED
      BY <2>1, <3>1 DEF FileInv, Sizes, Reached, Held, True
  <2> QED
    BY <2>1, <2>2, <2>3
<1> QED
  BY <1>2, <1>3

LEMMA FileUndisturbed ==
  ASSUME LinkInv, FileInv, Undisturbed
  PROVE  FileInv'
<1> USE DEF transfer, buffer, client
<1>2. CASE \E pos \in Seeks : Seek(pos)
  BY <1>2, FileLocal DEF Seek
<1>3. CASE Opened \/ Closed \/ FillReturns
  BY <1>3, FileLocal DEF Opened, Closed, FillReturns
<1>4. CASE Reopen
  <2>1. /\ SendRrq(file) /\ file' = file /\ pc' = "opening"
        /\ filemax' = filemax + bufRead /\ pc = "sizing" /\ bufEof
    BY <1>4 DEF Reopen
  <2>2. filemax' = Length[file] /\ file \in Files
    BY <2>1 DEF FileInv, Reached, Base, Streaming, LinkInv, Types
  <2> QED
    BY <2>1, <2>2, FileSendRrq
<1>5. CASE Rewound
  <2>1. SendRrq(file) /\ file' = file /\ pc' = "copying" /\ filemax' = Length[file]
    BY <1>5 DEF Rewound, FileInv, Sizes
  <2>2. file \in Files
    BY <1>5 DEF Rewound, LinkInv, Types
  <2> QED
    BY <2>1, <2>2, FileSendRrq
<1>6. ASSUME NEW m \in toClient, Receive(m)
      PROVE  FileInv'
  <2>1. CASE ReceiveError(m)
    BY <1>6, <2>1, FileLocal
    DEF Receive, ReceiveError, FillFails, Filling, Waiting, Aborting
  <2> QED
    BY <1>6, <2>1, FileOack, FileData DEF Receive
<1>7. CASE AskAgain \/ AckAgain
  BY <1>7, FileLocal DEF AskAgain, AckAgain
<1>8. CASE GiveUp \/ Interrupt
  BY <1>8, FileLocal DEF GiveUp, Interrupt, FillFails, Filling, Waiting, Aborting
<1>9. CASE Serves \/ Lose
  <2>1. UNCHANGED client
    BY <1>9
    DEF Serves, Begin, Refuse, Acknowledged, Aborted, Resend, Abandon, Lose
  <2> QED
    BY <2>1, FileLocal
<1> QED
  BY <1>2, <1>3, <1>4, <1>5, <1>6, <1>7, <1>8, <1>9, FileReadClose, FileCount,
     FileSkip, FileCopyOut
  DEF Undisturbed, Calls, Steps, Awaits

Filed == mixed \/ FileInv

LEMMA FileNext ==
  ASSUME Frame, Linked, Filed, [Next]_vars
  PROVE  Filed'
<1>1. ASSUME NEW f \in Files, Open(f)
      PROVE  FileInv'
  <2>1. SendRrq(f) /\ file' = f /\ pc' = "opening" /\ filemax' = Unknown
    BY <1>1 DEF Open
  <2> QED
    BY <2>1, FileSendRrq
<1>2. ASSUME NEW m \in strays, ReceiveStray(m)
      PROVE  Filed'
  BY <1>2, FileStray DEF Linked, Filed, ReceiveStray
<1>3. CASE UNCHANGED vars
  BY <1>3, FileLocal DEF vars, client, transfer, buffer, others, Filed
<1>4. CASE Undisturbed /\ UNCHANGED others
  BY <1>4, FileUndisturbed DEF Linked, Filed, others
<1> QED
  BY <1>1, <1>2, <1>3, <1>4 DEF Next, Opens, Astray, Filed

LEMMA FileCorrect == Spec => []Filed
<1>1. Init => Filed
  BY FileInit DEF Filed
<1> QED
  BY <1>1, LinkCorrect, FileNext, PTL DEF Spec

\* A file that is open has its true length, whether the server told it or the
\* client counted it (SizeIsTrue, tftp_dir).
THEOREM SizeStaysTrue == Spec => []SizeIsTrue
<1>1. Filed => SizeIsTrue
  BY DEF Filed, FileInv, Sizes, SizeIsTrue
<1> QED
  BY <1>1, FileCorrect, PTL

\* The buffer holds the piece of the file that saved_filepos says: no packet
\* is lost, taken twice or out of turn, or of an earlier transfer of this part
\* of the code, unless something of an extension file's was taken for it
\* (BufferIsFile, buf_fill).
THEOREM BufferStaysFile == Spec => []BufferIsFile
<1>1. Filed => BufferIsFile
  BY DEF Filed, FileInv, Held, True, Base, Streaming, BufferIsFile
<1> QED
  BY <1>1, FileCorrect, PTL

---------------------------------------------------------------------------
(* Reading: where filepos is only ever set to the beginning of the file,   *)
(* the place to be read is in the buffer or at its end whenever tftp_read  *)
(* copies.                                                                 *)

\* Nobody skips what was not read.
RewindsOnly == Seeks \subseteq {0}

InBuffer == filepos \in savedPos .. savedPos + bufRead
Fits == bufRead \in 0 .. BufLen /\ DOMAIN buf = 0 .. BufLen - 1
Known ==
  /\ filemax \in Nat \cup {Unknown}
  /\ pc \notin {"closed", "opening", "closing"} => filemax \in Nat
Placed ==
  /\ savedPos \in Nat /\ filepos \in Nat /\ size \in Nat
  /\ pc \in {"copying", "reading"} => InBuffer
  /\ pc = "open" => filepos = 0 \/ InBuffer
  /\ pc \in {"opening", "sizing", "rewinding", "reopening"} => filepos = 0
Delivered ==
  /\ got \in Seq(Byte)
  /\ pc # "closed" =>
       \A i \in 1 .. Len(got) : got[i] = <<file, filepos - Len(got) + i - 1>>
PlaceInv == Fits /\ Known /\ Placed /\ (mixed \/ Delivered)

LEMMA Joined ==
  ASSUME NEW S, NEW s \in Seq(S), NEW t \in Seq(S)
  PROVE  /\ s \o t \in Seq(S) /\ Len(s \o t) = Len(s) + Len(t)
         /\ \A i \in 1 .. Len(s) : (s \o t)[i] = s[i]
         /\ \A i \in 1 .. Len(t) : (s \o t)[Len(s) + i] = t[i]
OBVIOUS

LEMMA PlaceInit == Init => PlaceInv
BY TftpAssumption DEF Init, PlaceInv, Fits, Known, Placed, Delivered, NoBytes

\* A step that leaves filepos and the beginning of the buffer alone.
LEMMA PlaceLocal ==
  ASSUME PlaceInv, mixed => mixed',
         UNCHANGED <<file, filepos, savedPos>>, Fits', Known', size' \in Nat,
         bufRead' >= bufRead \/ pc' \in {"sizing", "closing"},
         got' \in {got, <<>>}, pc = "closed" => pc' = "closed",
         \/ pc' = pc
         \/ pc' \in {"closed", "closing"}
         \/ pc = "opening" /\ pc' \in {"open", "sizing"}
         \/ pc = "reading" /\ pc' \in {"open", "copying"}
         \/ pc = "rewinding" /\ pc' = "reopening"
  PROVE  PlaceInv'
<1>1. mixed' \/ Delivered'
  <2>1. <<>> \in Seq(Byte) /\ Len(<<>>) = 0
    OBVIOUS
  <2>2. CASE got' = got
    BY <2>2 DEF PlaceInv, Delivered
  <2>3. CASE got' = <<>>
    BY <2>1, <2>3 DEF Delivered
  <2> QED
    BY <2>2, <2>3
<1>2. InBuffer /\ bufRead' >= bufRead => InBuffer'
  <2> SUFFICES ASSUME InBuffer, bufRead' >= bufRead PROVE InBuffer'
    OBVIOUS
  <2>1. PICK r \in Int : r = bufRead'
    BY DEF Fits
  <2>2. r >= bufRead
    BY <2>1
  <2>3. bufRead \in Int /\ savedPos \in Nat /\ filepos \in savedPos .. savedPos + bufRead
    BY DEF InBuffer, PlaceInv, Placed, Fits
  <2>4. filepos \in savedPos .. savedPos + r
    BY <2>2, <2>3
  <2> QED
    BY <2>1, <2>4 DEF InBuffer
<1>3. Placed'
  BY <1>2 DEF PlaceInv, Placed
<1> QED
  BY <1>1, <1>3 DEF PlaceInv

LEMMA PlaceSendRrq ==
  ASSUME NEW f \in Files, SendRrq(f), filepos' = 0, size' \in Nat, Known',
         pc' \in {"opening", "copying"},
         \/ got' = <<>>
         \/ PlaceInv /\ pc # "closed" /\ UNCHANGED <<file, filepos, got, mixed>>
  PROVE  PlaceInv'
<1>1. bufRead' = 0 /\ savedPos' = 0 /\ buf' = NoBytes
  BY DEF SendRrq
<1>2. Placed'
  BY <1>1 DEF Placed, InBuffer
<1>3. Fits'
  BY <1>1, TftpAssumption DEF Fits, NoBytes
<1>4. <<>> \in Seq(Byte) /\ Len(<<>>) = 0
  OBVIOUS
<1>5. mixed' \/ Delivered'
  <2>1. CASE got' = <<>>
    BY <1>4, <2>1 DEF Delivered
  <2>2. CASE PlaceInv /\ pc # "closed" /\ UNCHANGED <<file, filepos, got, mixed>>
    BY <2>2 DEF PlaceInv, Delivered
  <2> QED
    BY <2>1, <2>2
<1> QED
  BY <1>2, <1>3, <1>5 DEF PlaceInv

\* The buffer only grows while the client fills it, and not over its end.
LEMMA BufferGrows ==
  ASSUME Frame, Fits, Filling, NEW m, Arriving(m), ReceiveData(m)
  PROVE  Fits' /\ bufRead' >= bufRead
<1>1. bufRead \in 0 .. BufLen /\ BufLen \in Nat
  BY TftpAssumption DEF Fits
<1>2. CASE UNCHANGED <<buf, bufRead>>
  BY <1>1, <1>2 DEF Fits
<1>3. CASE ~UNCHANGED <<buf, bufRead>>
  <2> DEFINE n == Len(m.data)
  <2>1. m.type = "data" /\ ~(n > packetsize)
    BY <1>3 DEF ReceiveData, Ignore, client, buffer
  <2>2. PICK b : TakeBlock(b, m.data)
    BY <1>3, <2>1 DEF ReceiveData
  <2>3. /\ bufRead' = bufRead + n
        /\ DOMAIN buf' = 0 .. BufLen - 1
    BY <2>2 DEF TakeBlock
  <2>4. n \in Nat
    BY <2>1 DEF Arriving, Data0
  <2>5. packetsize \in Nat /\ bufRead + packetsize <= BufLen
    BY TftpAssumption DEF Frame, Types, Filling
  <2> HIDE DEF n
  <2>6. bufRead + n \in 0 .. BufLen /\ bufRead + n >= bufRead
    BY <1>1, <2>1, <2>4, <2>5
  <2> QED
    BY <2>3, <2>6 DEF Fits
<1> QED
  BY <1>2, <1>3

\* A packet, whoever sent it.
LEMMA PlaceReceive ==
  ASSUME Frame, PlaceInv, Filling, NEW m, Arriving(m), mixed => mixed',
         ReceiveOack(m) \/ ReceiveData(m) \/ ReceiveError(m)
  PROVE  PlaceInv'
<1> USE DEF client, transfer, buffer, reader
<1>1. /\ Waiting /\ size \in Nat /\ Known /\ Fits /\ bufRead >= bufRead
  BY DEF Filling, PlaceInv, Placed, Fits
<1>2. CASE UNCHANGED client
  <2>1. Fits' /\ Known'
    BY <1>1, <1>2 DEF Fits, Known
  <2> QED
    BY <1>1, <1>2, <2>1, PlaceLocal
<1>3. CASE ReceiveOack(m) /\ ~UNCHANGED client
  <2>1. /\ UNCHANGED <<pc, file, buf, bufRead, savedPos, filepos, size, got>>
        /\ filemax' = IF m.tsize = Unknown THEN filemax ELSE m.tsize
        /\ m.type = "oack"
    BY <1>3 DEF ReceiveOack, Ignore
  <2>2. Known'
    BY <1>1, <2>1 DEF Arriving, Known
  <2>3. Fits'
    BY <1>1, <2>1 DEF Fits
  <2> QED
    BY <1>1, <2>1, <2>2, <2>3, PlaceLocal
<1>4. CASE ReceiveData(m) /\ ~UNCHANGED client
  <2>1. Fits' /\ bufRead' >= bufRead
    BY <1>1, <1>4, BufferGrows
  <2>2. UNCHANGED <<pc, file, savedPos, filepos, size, got, filemax>>
    BY <1>4 DEF ReceiveData, Ignore
  <2>3. Known'
    BY <1>1, <2>2 DEF Known
  <2> QED
    BY <1>1, <2>1, <2>2, <2>3, PlaceLocal
<1>5. CASE ReceiveError(m)
  <2>1. /\ UNCHANGED <<file, buf, bufRead, savedPos, filepos, filemax>>
        /\ size' \in Nat /\ got' \in {got, <<>>}
        /\ \/ pc' = "closed"
           \/ pc = "reading" /\ pc' = "open"
           \/ pc = "rewinding" /\ pc' = "reopening"
    BY <1>1, <1>5 DEF ReceiveError, FillFails, Waiting, Aborting
  <2>2. Fits' /\ Known'
    BY <1>1, <2>1 DEF Fits, Known
  <2> QED
    BY <1>1, <2>1, <2>2, PlaceLocal DEF Waiting, Aborting
<1> QED
  BY <1>2, <1>3, <1>4, <1>5

\* tftp_read's copying.
LEMMA PlaceCopyOut ==
  ASSUME Filed, PlaceInv, CopyOut, UNCHANGED mixed
  PROVE  PlaceInv'
<1> DEFINE a == Amount
           skip == filepos - savedPos
           half == BufLen \div 2
<1>1. /\ pc = "copying" /\ pc' \in {"open", "reading"} /\ file' = file
      /\ a > 0 /\ size > 0
      /\ got' = got \o Bytes(skip, a) /\ size' = size - a /\ filepos' = filepos + a
      /\ \/ (filepos + a) - savedPos > half /\ bufRead' = bufRead - half
                                          /\ savedPos' = savedPos + half
         \/ UNCHANGED <<bufRead, savedPos>>
  <2>1. filepos' = filepos + a
    BY DEF CopyOut
  <2>2. /\ pc = "copying" /\ pc' \in {"open", "reading"} /\ file' = file
        /\ a > 0 /\ size > 0
        /\ got' = got \o Bytes(skip, a) /\ size' = size - a
    BY DEF CopyOut, Copying
  <2>3. IF filepos' - savedPos > half
        THEN bufRead' = bufRead - half /\ savedPos' = savedPos + half
        ELSE UNCHANGED <<bufRead, savedPos>>
    BY DEF CopyOut
  <2> HIDE DEF a, half, skip
  <2>4. CASE filepos' - savedPos > half
    BY <2>1, <2>2, <2>3, <2>4
  <2>5. CASE ~(filepos' - savedPos > half)
    BY <2>1, <2>2, <2>3, <2>5
  <2> QED
    BY <2>4, <2>5
<1>2. /\ bufRead \in Nat /\ filepos \in Nat /\ size \in Nat /\ savedPos \in Nat
      /\ savedPos <= filepos /\ filepos <= savedPos + bufRead /\ bufRead <= BufLen
      /\ BufLen \in Nat
  BY <1>1, TftpAssumption DEF PlaceInv, Placed, InBuffer, Fits
<1>3. a \in Nat /\ a <= size /\ filepos + a <= savedPos + bufRead
  BY <1>2 DEF Amount
<1>4. half \in Nat
  BY <1>2
<1> HIDE DEF a, half
<1>5. size' \in Nat /\ filepos' \in Nat
  BY <1>1, <1>2, <1>3
<1>6. bufRead' \in 0 .. BufLen /\ savedPos' \in Nat /\ InBuffer'
  <2>1. CASE UNCHANGED <<bufRead, savedPos>>
    BY <1>1, <1>2, <1>3, <2>1 DEF InBuffer
  <2>2. CASE (filepos + a) - savedPos > half /\ bufRead' = bufRead - half
                                           /\ savedPos' = savedPos + half
    <3>1. bufRead - half \in 0 .. BufLen /\ savedPos + half \in Nat
      BY <1>2, <1>3, <1>4, <2>2
    <3>2. filepos + a \in savedPos + half .. savedPos + half + (bufRead - half)
      BY <1>2, <1>3, <1>4, <2>2
    <3> QED
      BY <1>1, <2>2, <3>1, <3>2 DEF InBuffer
  <2> QED
    BY <1>1, <2>1, <2>2
<1>7. Placed' /\ Fits' /\ Known'
  <2>1. DOMAIN buf' = 0 .. BufLen - 1 /\ filemax' = filemax
    BY DEF CopyOut, PlaceInv, Fits
  <2>2. Fits'
    BY <1>6, <2>1 DEF Fits
  <2>3. Known'
    BY <1>1, <2>1 DEF Known, PlaceInv
  <2> QED
    BY <1>1, <1>5, <1>6, <2>2, <2>3 DEF Placed
<1>8. ASSUME FileInv
      PROVE  /\ Bytes(skip, a) \in Seq(Byte)
             /\ Len(Bytes(skip, a)) = a
             /\ \A i \in 1 .. a : Bytes(skip, a)[i] = <<file, filepos + i - 1>>
  <2>1. Bytes(skip, a) =
          [i \in 1 .. a |-> IF skip + i - 1 < BufLen THEN buf[skip + i - 1] ELSE Junk]
    BY DEF Bytes
  <2>2. ASSUME NEW i \in 1 .. a
        PROVE  /\ skip + i - 1 \in 0 .. bufRead - 1 /\ skip + i - 1 < BufLen
               /\ skip + i - 1 \in 0 .. BufLen - 1
               /\ savedPos + (skip + i - 1) = filepos + i - 1
    BY <1>2, <1>3
  <2>3. ASSUME NEW i \in 1 .. a
        PROVE  buf[skip + i - 1] = <<file, filepos + i - 1>> /\ buf[skip + i - 1] \in Byte
    <3>1. Streaming /\ Base = savedPos
      BY <1>1 DEF Streaming, Base
    <3>2. buf[skip + i - 1] = <<file, savedPos + (skip + i - 1)>>
      BY <1>8, <2>2, <3>1 DEF FileInv, True
    <3>3. buf[skip + i - 1] \in Byte
      BY <1>8, <2>2 DEF FileInv, Held
    <3> QED
      BY <2>2, <3>2, <3>3
  <2> HIDE DEF skip
  <2>4. \A i \in 1 .. a : Bytes(skip, a)[i] = buf[skip + i - 1]
    BY <2>1, <2>2
  <2>5. Bytes(skip, a) \in [1 .. a -> Byte]
    BY <2>1, <2>2, <2>3
  <2>6. Bytes(skip, a) \in Seq(Byte) /\ Len(Bytes(skip, a)) = a
    BY <1>3, <2>5
  <2> QED
    BY <2>3, <2>4, <2>6
<1>9. ASSUME ~mixed
      PROVE  Delivered'
  <2> DEFINE new == Bytes(skip, a)
             old == Len(got)
  <2> HIDE DEF skip
  <2>1. got \in Seq(Byte) /\ old \in Nat
        /\ \A i \in 1 .. old : got[i] = <<file, filepos - old + i - 1>>
    BY <1>1, <1>9 DEF PlaceInv, Delivered
  <2>2. new \in Seq(Byte) /\ Len(new) = a
        /\ \A i \in 1 .. a : new[i] = <<file, filepos + i - 1>>
    BY <1>8, <1>9 DEF Filed
  <2> HIDE DEF new
  <2>3. /\ got \o new \in Seq(Byte) /\ Len(got \o new) = old + a
        /\ \A i \in 1 .. old : (got \o new)[i] = got[i]
        /\ \A i \in 1 .. a : (got \o new)[old + i] = new[i]
    BY <2>1, <2>2, Joined
  <2>4. ASSUME NEW i \in 1 .. old + a
        PROVE  (got \o new)[i] = <<file, (filepos + a) - (old + a) + i - 1>>
    <3>1. CASE i <= old
      <4>1. (got \o new)[i] = got[i] /\ i \in 1 .. old
        BY <1>3, <2>1, <2>3, <3>1
      <4>2. (filepos + a) - (old + a) + i - 1 = filepos - old + i - 1
        BY <1>2, <1>3, <2>1
      <4> QED
        BY <2>1, <4>1, <4>2
    <3>2. CASE i > old
      <4>0. i - old \in 1 .. a /\ old + (i - old) = i
        BY <1>3, <2>1, <3>2
      <4>1. (got \o new)[i] = new[i - old] /\ i - old \in 1 .. a
        BY <2>3, <4>0
      <4>2. (filepos + a) - (old + a) + i - 1 = filepos + (i - old) - 1
        BY <1>2, <1>3, <2>1
      <4> QED
        BY <2>2, <4>1, <4>2
    <3> QED
      <4>1. old \in Nat /\ i \in Int
        BY <1>3, <2>1
      <4>2. i <= old \/ i > old
        BY <4>1
      <4> QED
        BY <3>1, <3>2, <4>2
  <2>5. got' = got \o new
    BY <1>1 DEF new
  <2> HIDE DEF old
  <2>6. Len(got') = old + a
    BY <2>3, <2>5
  <2>7. ASSUME NEW i \in 1 .. Len(got')
        PROVE  got'[i] = <<file', filepos' - Len(got') + i - 1>>
    <3>1. i \in 1 .. old + a
      BY <2>6
    <3>2. got'[i] = <<file, (filepos + a) - (old + a) + i - 1>>
      BY <2>4, <2>5, <3>1
    <3> QED
      BY <1>1, <2>6, <3>2
  <2>8. got' \in Seq(Byte)
    BY <2>3, <2>5
  <2> QED
    BY <2>7, <2>8 DEF Delivered
<1> QED
  BY <1>7, <1>9 DEF PlaceInv

LEMMA PlaceUndisturbed ==
  ASSUME RewindsOnly, Frame, Filed, PlaceInv, Undisturbed, UNCHANGED others
  PROVE  PlaceInv'
<1> USE DEF transfer, buffer, client, reader, others
<1>0. /\ savedPos \in Nat /\ bufRead \in Nat /\ size \in Nat /\ filepos \in Nat
      /\ bufRead >= bufRead /\ mixed => mixed'
  BY TftpAssumption DEF PlaceInv, Placed, Fits
<1>1. UNCHANGED <<buf, bufRead>> => Fits'
  BY DEF PlaceInv, Fits
<1>2. buf' = NoBytes /\ bufRead' = 0 => Fits'
  BY TftpAssumption DEF Fits, NoBytes
<1>3. UNCHANGED filemax /\ (\/ pc' \in {pc, "closed", "closing"}
                            \/ pc \notin {"opening", "closed", "closing"})
        => Known'
  BY DEF PlaceInv, Known
<1>4. ASSUME NEW pos \in Seeks, Seek(pos)
      PROVE  PlaceInv'
  <2>1. pos = 0 /\ <<>> \in Seq(Byte) /\ Len(<<>>) = 0
    BY DEF RewindsOnly
  <2>2. /\ pc = "open" /\ filepos' = 0 /\ got' = <<>>
        /\ UNCHANGED <<pc, buf, bufRead, savedPos, size, filemax>>
    BY <1>4, <2>1 DEF Seek
  <2>3. Placed'
    BY <1>0, <2>2 DEF Placed
  <2>4. Delivered'
    BY <2>1, <2>2 DEF Delivered
  <2> QED
    BY <1>1, <1>3, <2>2, <2>3, <2>4 DEF PlaceInv
<1>5. ASSUME NEW n \in ReadSizes, Read(n)
      PROVE  PlaceInv'
  <2>1. /\ pc = "open" /\ UNCHANGED <<file, filepos, savedPos, filemax>> /\ got' = <<>>
        /\ filepos < filemax /\ size' = Lowest(n, filemax - filepos)
        /\ \/ filepos < savedPos /\ pc' = "rewinding" /\ bufRead' = 0 /\ buf' = NoBytes
           \/ ~(filepos < savedPos) /\ pc' = "copying" /\ UNCHANGED <<buf, bufRead>>
    BY <1>5 DEF Read
  <2>2. filemax \in Nat /\ n \in Nat
    BY <2>1, TftpAssumption DEF PlaceInv, Known
  <2>3. Lowest(n, filemax - filepos) \in Nat
    BY <1>0, <2>1, <2>2 DEF Lowest
  <2>4. <<>> \in Seq(Byte) /\ Len(<<>>) = 0
    OBVIOUS
  <2>5. Delivered'
    BY <2>1, <2>4 DEF Delivered
  <2>6. Fits' /\ Known'
    BY <1>1, <1>2, <1>3, <2>1
  <2>7. Placed'
    <3>1. CASE filepos < savedPos /\ pc' = "rewinding"
      <4>1. filepos = 0
        BY <1>0, <2>1, <3>1 DEF PlaceInv, Placed, InBuffer
      <4> QED
        BY <1>0, <2>1, <2>3, <3>1, <4>1 DEF Placed
    <3>2. CASE ~(filepos < savedPos) /\ pc' = "copying" /\ bufRead' = bufRead
      <4>1. InBuffer
        BY <1>0, <2>1, <3>2 DEF PlaceInv, Placed, InBuffer
      <4> QED
        BY <1>0, <2>1, <2>3, <3>2, <4>1 DEF Placed, InBuffer
    <3> QED
      BY <2>1, <3>1, <3>2
  <2> QED
    BY <2>5, <2>6, <2>7 DEF PlaceInv
<1>6. CASE Close \/ Closed \/ Opened
  <2>1. /\ UNCHANGED <<file, filepos, savedPos, size, got, filemax>>
        /\ \/ UNCHANGED <<buf, bufRead>> /\ pc' \in {"open", "closed"}
           \/ buf' = NoBytes /\ bufRead' = 0 /\ pc' = "closing"
        /\ \/ pc = "open" /\ pc' = "closing"
           \/ pc = "closing" /\ pc' = "closed"
           \/ pc = "opening" /\ pc' = "open" /\ filemax # Unknown
    BY <1>6 DEF Close, Closed, Opened
  <2>2. Fits'
    BY <1>1, <1>2, <2>1
  <2>3. Known'
    BY <2>1 DEF PlaceInv, Known
  <2> QED
    BY <1>0, <2>1, <2>2, <2>3, PlaceLocal
<1>7. CASE Count
  <2>1. /\ UNCHANGED <<file, filepos, savedPos, size, got>>
        /\ buf' = NoBytes /\ bufRead' = 0 /\ pc' = "sizing"
        /\ \/ pc = "opening" /\ filemax' = bufRead
           \/ pc = "sizing" /\ filemax' = filemax + bufRead
    BY <1>7 DEF Count
  <2>2. Fits'
    BY <1>2, <2>1
  <2>3. Known'
    <3>1. pc = "sizing" => filemax \in Nat
      BY DEF PlaceInv, Known
    <3>2. filemax' \in Nat
      BY <1>0, <2>1, <3>1
    <3> QED
      BY <3>2 DEF Known
  <2> QED
    BY <1>0, <2>1, <2>2, <2>3, PlaceLocal
<1>8. CASE Reopen \/ Rewound
  <2>1. /\ SendRrq(file) /\ filepos' = filepos /\ filepos = 0 /\ size' \in Nat
        /\ pc' \in {"opening", "copying"}
        /\ pc # "closed" /\ UNCHANGED <<file, filepos, got, mixed>>
    BY <1>0, <1>8 DEF Reopen, Rewound, PlaceInv, Placed
  <2>2. Known'
    <3>1. filemax \in Nat
      BY <1>8 DEF Reopen, Rewound, PlaceInv, Known
    <3>2. filemax' \in {filemax, filemax + bufRead}
      BY <1>8 DEF Reopen, Rewound
    <3>3. filemax' \in Nat
      BY <1>0, <3>1, <3>2
    <3> QED
      BY <3>3 DEF Known
  <2>3. file \in Files
    BY <2>1 DEF Frame, Types
  <2> QED
    BY <2>1, <2>2, <2>3, PlaceSendRrq
<1>9. CASE FillReturns
  <2>1. /\ UNCHANGED <<file, filepos, savedPos, filemax, buf, bufRead>>
        /\ pc = "reading" /\ pc' \in {"open", "copying"}
        /\ size' \in Nat /\ got' \in {got, <<>>}
    BY <1>0, <1>9 DEF FillReturns
  <2> QED
    BY <1>0, <1>1, <1>3, <2>1, PlaceLocal
<1>10. CASE SkipBuffer
  <2>1. /\ pc = "copying" /\ pc' = "reading" /\ size > 0 /\ Amount = 0
        /\ savedPos' = savedPos + bufRead /\ bufRead' = 0 /\ buf' = NoBytes
        /\ UNCHANGED <<file, filepos, size, got, filemax>>
    BY <1>10 DEF SkipBuffer, Copying
  <2>2. filepos = savedPos + bufRead
    BY <1>0, <2>1 DEF Amount, PlaceInv, Placed, InBuffer
  <2>3. filepos \in filepos .. filepos + 0
    BY <1>0
  <2>4. InBuffer'
    BY <2>1, <2>2, <2>3 DEF InBuffer
  <2>5. Placed'
    BY <1>0, <2>1, <2>4 DEF Placed
  <2>6. mixed' \/ Delivered'
    BY <2>1 DEF PlaceInv, Delivered
  <2> QED
    BY <1>2, <1>3, <2>1, <2>5, <2>6 DEF PlaceInv
<1>11. ASSUME NEW m \in toClient, Receive(m)
      PROVE  PlaceInv'
  <2>1. Arriving(m)
    BY DEF Frame, Nets
  <2> QED
    BY <1>0, <1>11, <2>1, PlaceReceive DEF Receive
<1>12. CASE AskAgain \/ AckAgain
  <2>1. UNCHANGED <<pc, file, filepos, savedPos, filemax, buf, bufRead, size, got>>
    BY <1>12 DEF AskAgain, AckAgain
  <2>2. Fits' /\ Known'
    BY <1>1, <1>3, <2>1
  <2> QED
    BY <1>0, <2>1, <2>2, PlaceLocal
<1>13. CASE GiveUp \/ Interrupt
  <2>1. /\ UNCHANGED <<file, buf, bufRead, savedPos, filepos, filemax>>
        /\ size' \in Nat /\ got' \in {got, <<>>}
        /\ \/ pc' = "closed"
           \/ pc = "reading" /\ pc' = "open"
           \/ pc = "rewinding" /\ pc' = "reopening"
        /\ pc # "closed"
    BY <1>0, <1>13 DEF GiveUp, Interrupt, FillFails, Filling, Waiting, Aborting
  <2>2. Fits' /\ Known'
    BY <1>1, <1>3, <2>1
  <2> QED
    BY <1>0, <2>1, <2>2, PlaceLocal
<1>14. CASE Serves \/ Lose
  <2>1. UNCHANGED client
    BY <1>14 DEF Serves, Begin, Refuse, Acknowledged, Aborted, Resend, Abandon, Lose
  <2>2. Fits' /\ Known'
    BY <1>1, <1>3, <2>1
  <2> QED
    BY <1>0, <2>1, <2>2, PlaceLocal
<1> QED
  BY <1>4, <1>5, <1>6, <1>7, <1>8, <1>9, <1>10, <1>11, <1>12, <1>13, <1>14, PlaceCopyOut
  DEF Undisturbed, Calls, Steps, Awaits

LEMMA PlaceNext ==
  ASSUME RewindsOnly, Frame, Filed, PlaceInv, [Next]_vars
  PROVE  PlaceInv'
<1>1. ASSUME NEW f \in Files, Open(f)
      PROVE  PlaceInv'
  <2>1. /\ SendRrq(f) /\ filepos' = 0 /\ size' \in Nat /\ pc' = "opening"
        /\ got' = <<>> /\ filemax' = Unknown
    BY <1>1 DEF Open
  <2>2. Known'
    BY <2>1 DEF Known
  <2> QED
    BY <2>1, <2>2, PlaceSendRrq
<1>2. ASSUME NEW m \in strays, ReceiveStray(m)
      PROVE  PlaceInv'
  <2>1. Arriving(m)
    BY StraysTyped DEF Frame, Beside
  <2>2. mixed => mixed'
    BY <1>2 DEF ReceiveStray
  <2> QED
    BY <1>2, <2>1, <2>2, PlaceReceive DEF ReceiveStray
<1>3. CASE UNCHANGED vars
  <2>1. UNCHANGED <<client, others>>
    BY <1>3 DEF vars
  <2> QED
    BY <2>1 DEF client, transfer, buffer, reader, others, PlaceInv, Fits, Known, Placed,
                Delivered, InBuffer
<1> QED
  BY <1>1, <1>2, <1>3, PlaceUndisturbed DEF Next, Opens, Astray

LEMMA PlaceCorrect ==
  ASSUME RewindsOnly
  PROVE  Spec => []PlaceInv
BY LinkCorrect, FileCorrect, PlaceInit, PlaceNext, PTL DEF Spec

\* Every variable of the client keeps its type and the buffer is never filled
\* over its end, whoever sends the packets, where the only seek is back to the
\* beginning (TypeOK).
THEOREM TypeCorrect ==
  ASSUME RewindsOnly
  PROVE  Spec => []TypeOK
<1>1. Frame /\ PlaceInv => TypeOK
  BY DEF Frame, Types, Beside, States, PlaceInv, Fits, Known, Placed, TypeOK
<1> QED
  BY <1>1, LinkCorrect, PlaceCorrect, PTL

\* tftp_read delivers the bytes at filepos, in order, where the only seek is
\* back to the beginning (ReadIsFile).
THEOREM ReadsAreFile ==
  ASSUME RewindsOnly
  PROVE  Spec => []ReadIsFile
<1>1. PlaceInv => ReadIsFile
  BY DEF PlaceInv, Delivered, ReadIsFile
<1> QED
  BY <1>1, PlaceCorrect, PTL
=============================================================================
