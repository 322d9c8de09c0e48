------------------------------- MODULE Tftp -------------------------------
(***************************************************************************)
(* grub4dos's reading of files over TFTP, netboot/fsys_tftp.c: tftp_dir    *)
(* opens a file and learns its size, tftp_read reads through a buffer that *)
(* buf_fill fills packet by packet, tftp_close ends the transfer.  The     *)
(* network loses, delays and reorders datagrams.  The server is outside    *)
(* this repository; it is what the client's code supposes it is: one       *)
(* transfer for each port a request comes from, a packet sent again when   *)
(* no acknowledgement comes, options granted or not.                       *)
(*                                                                         *)
(* The ports are not the client's alone: netboot/main.c fetches extension  *)
(* files from ports that it, too, counts from 2000 on, and so does the     *)
(* machine again after a reset.  Datagrams that a server sends for such a  *)
(* transfer are strays here.                                               *)
(*                                                                         *)
(* A byte of file f is <<f, i>>, i its place in the file, so that bytes    *)
(* that come from elsewhere show.                                          *)
(***************************************************************************)
EXTENDS Integers, Sequences, FiniteSets

CONSTANTS
  Files,
  Length,         \* Length[f]: its length in bytes
  Junk,           \* what memory holds that nothing was written to
  NoFile,
  Unknown,        \* filemax = -1
  BufLen,         \* FSYS_BUFLEN, even
  DefaultSize,    \* TFTP_DEFAULTSIZE_PACKET, a packet when none is agreed on
  MaxPacket,      \* TFTP_MAX_PACKET, the size the client asks for
  BlockMod,       \* 2^16: a block number is an unsigned short
  MaxRetries,     \* MAX_TFTP_RETRIES
  MaxRexmt,       \* how often TFTP_REXMT is added before TFTP_TIMEOUT
  Servers,        \* what the server may grant: [blksize, tsize]
  InFlight,       \* how many datagrams the network holds each way (a bound:
                  \* it loses what goes beyond it)
  Strays,         \* what may yet come of other transfers (a bound)
  MaxResend,      \* how often the server sends a packet again (a bound)
  MaxCalls,       \* opens and seeks in a behaviour (a bound)
  ReadSizes,      \* the lengths asked of tftp_read (a bound)
  Seeks           \* where the callers set filepos (a bound)

\* Who sends: the server of this transfer, or that of another one.
Here == "here"
Elsewhere == "elsewhere"

StrayTypes ==
  [type : {"oack"}, from : {Elsewhere}, port : Nat,
   blksize : {DefaultSize, MaxPacket}, tsize : Nat \cup {Unknown}]
  \cup [type : {"data"}, from : {Elsewhere}, port : Nat,
        block : 0 .. BlockMod - 1, data : Seq({Elsewhere} \X Nat)]
  \cup [type : {"error"}, from : {Elsewhere}, port : Nat]

ASSUME TftpAssumption ==
  /\ Length \in [Files -> Nat]
  /\ NoFile \notin Files /\ Unknown \notin Nat
  /\ BufLen \in Nat /\ BufLen % 2 = 0
  /\ DefaultSize \in Nat \ {0} /\ MaxPacket \in Nat \ {0}
  /\ 2 * MaxPacket <= BufLen /\ DefaultSize <= MaxPacket
  /\ BlockMod \in Nat /\ BlockMod > 2
  /\ MaxRetries \in Nat /\ MaxRexmt \in Nat
  /\ Servers \subseteq [blksize : BOOLEAN, tsize : BOOLEAN]
  /\ InFlight \in Nat \ {0}
  /\ \A net \in Strays : net \subseteq StrayTypes
  /\ MaxResend \in Nat /\ MaxCalls \in Nat
  /\ ReadSizes \subseteq Nat \ {0} /\ Seeks \subseteq Nat

VARIABLES
  pc,             \* where the client is, see Waiting
  file,           \* the file named in saved_tp, the request kept for reopening
  tp,             \* the datagram in tp: "rrq", "ack" or "error"
  ackBlock,       \* tp.u.ack.block
  iport,          \* the client's port
  oport,          \* whom the last acknowledgement went to
  retry, block, prevblock, bcounter, packetsize,
  buf, bufRead, bufEof,       \* the buffer, buf_read, buf_eof
  savedPos,                   \* saved_filepos: the place of buf's first byte
  filepos, filemax,
  size,           \* what tftp_read still has to deliver
  got,            \* what it has delivered
  calls,          \* history: opens and seeks so far
  granted,        \* what the server grants
  sessions,       \* the server's transfers
  toServer, toClient,         \* datagrams on their way
  strays,         \* those of other transfers that are still to come
  mixed           \* history: since the file was opened, something of another
                  \* transfer has been taken

transfer == <<retry, block, prevblock, bcounter, packetsize>>
buffer == <<buf, bufRead, bufEof, savedPos>>
sent == <<tp, ackBlock, oport>>
reader == <<filepos, size, got>>
client == <<pc, file, sent, iport, transfer, buffer, reader, filemax, calls>>
server == <<granted, sessions>>
others == <<strays, mixed>>
vars == <<client, server, toServer, toClient, others>>

Lowest(a, b) == IF a < b THEN a ELSE b

\* The network with one more datagram, if it does not lose it.
Put(net, m) == IF Cardinality(net) < InFlight THEN net \cup {m} ELSE net

\* The client takes a new port for every request and await_reply takes what
\* comes to that port alone, so that what concerns an older port can no longer
\* reach it: the specification forgets it.  A stray is not forgotten: its port
\* may be one that is yet to come.
Of(port, things) == {x \in things : x.port = port}

NewPort(port) == /\ iport' = port
                 /\ toClient' = Of(port, toClient)
                 /\ sessions' = Of(port, sessions)
                 /\ UNCHANGED granted

NoBytes == [i \in 0 .. BufLen - 1 |-> Junk]

\* The client is in buf_fill, called by tftp_dir ("opening"; "sizing" when it
\* reads the whole file for its length), by tftp_read ("reading"; "rewinding"
\* when it first gives up the transfer) or by tftp_close.
Aborting == pc \in {"rewinding", "closing"}
Waiting == pc \in {"opening", "sizing", "reading"} \/ Aborting
\* Faulty: a packet is taken whether or not it fits.
FillingOver == Waiting /\ ~bufEof /\ bufRead <= BufLen
Filling == Waiting /\ ~bufEof /\ bufRead + packetsize <= BufLen

---------------------------------------------------------------------------
(* The datagrams. *)

Request(port, f) == [type |-> "rrq", port |-> port, file |-> f]
Ack(port, b) == [type |-> "ack", port |-> port, block |-> b]
Abort(port) == [type |-> "error", port |-> port]

Oack(port, g, f) ==
  [type |-> "oack", from |-> Here, port |-> port,
   blksize |-> IF g.blksize THEN MaxPacket ELSE DefaultSize,
   tsize |-> IF g.tsize THEN Length[f] ELSE Unknown]
Data(port, b, bytes) ==
  [type |-> "data", from |-> Here, port |-> port, block |-> b, data |-> bytes]
Refusal(port) == [type |-> "error", from |-> Here, port |-> port]

---------------------------------------------------------------------------
(* The client: sending. *)

\* Faulty: the new transfer uses the old one's port.
SendRrqSamePort(f) ==
  /\ retry' = 0 /\ block' = 0 /\ prevblock' = 0 /\ bcounter' = 0
  /\ packetsize' = DefaultSize
  /\ buf' = NoBytes /\ bufRead' = 0 /\ bufEof' = FALSE /\ savedPos' = 0
  /\ tp' = "rrq" /\ UNCHANGED <<ackBlock, oport>>
  /\ NewPort(iport)
  /\ toServer' = Put(toServer, Request(iport, f))

\* send_rrq: the transfer starts afresh, from a port that no request of this
\* file's was sent from.
SendRrq(f) ==
  /\ retry' = 0 /\ block' = 0 /\ prevblock' = 0 /\ bcounter' = 0
  /\ packetsize' = DefaultSize
  /\ buf' = NoBytes /\ bufRead' = 0 /\ bufEof' = FALSE /\ savedPos' = 0
  /\ tp' = "rrq" /\ UNCHANGED <<ackBlock, oport>>
  /\ NewPort(iport + 1)
  /\ toServer' = Of(iport + 1, toServer) \cup {Request(iport + 1, f)}

\* tftp_dir: the request goes out, the size is not known.
Open(f) ==
  /\ pc \in {"closed", "open"}
  /\ calls < MaxCalls
  /\ calls' = calls + 1
  /\ pc' = "opening"
  /\ file' = f
  /\ filepos' = 0 /\ size' = 0 /\ got' = <<>>
  /\ filemax' = Unknown
  /\ mixed' = FALSE /\ UNCHANGED strays
  /\ SendRrq(f)

\* A caller moves filepos: boot.c to a section of a kernel, gunzip_test_header
\* to the last bytes of the file, rewinding to the first.
Seek(pos) ==
  /\ pc = "open"
  /\ calls < MaxCalls
  /\ pos # filepos /\ pos <= filemax
  /\ calls' = calls + 1
  /\ filepos' = pos
  /\ got' = <<>>
  /\ UNCHANGED <<pc, file, sent, iport, transfer, buffer, size, filemax,
                 server, toServer, toClient>>

\* grub_read cuts the length to what the file has left.
Read(n) ==
  /\ pc = "open"
  /\ filepos < filemax
  /\ size' = Lowest(n, filemax - filepos)
  /\ got' = <<>>
  /\ IF filepos < savedPos
     THEN /\ pc' = "rewinding"            \* "Uggh.. FILEPOS has been moved
          /\ bufRead' = 0                 \* backwards. So reopen the file."
          /\ buf' = NoBytes
     ELSE /\ pc' = "copying"
          /\ UNCHANGED <<buf, bufRead>>
  /\ UNCHANGED <<file, sent, iport, transfer, bufEof, savedPos, filepos,
                 filemax, calls, server, toServer, toClient>>

Close ==
  /\ pc = "open"
  /\ pc' = "closing"
  /\ bufRead' = 0 /\ buf' = NoBytes
  /\ UNCHANGED <<file, sent, iport, transfer, bufEof, savedPos, reader,
                 filemax, calls, server, toServer, toClient>>

---------------------------------------------------------------------------
(* The client: buf_fill. *)

\* "Block order should be continuous": an int compared with an unsigned
\* short, so that block 0 never comes next.
OutOfOrder(b) == (b # 0 \/ bcounter # 0) /\ b # prevblock + 1

\* The acknowledgement of block b, or the datagram that ends the transfer, to
\* whoever sent the packet.  How another transfer goes on is not followed.
Answer(b, from) ==
  /\ ackBlock' = b
  /\ tp' = IF Aborting THEN "error" ELSE "ack"
  /\ oport' = from
  /\ toServer' =
       IF from = Here
       THEN Put(toServer, IF Aborting THEN Abort(iport) ELSE Ack(iport, b))
       ELSE toServer

Ignore == UNCHANGED <<client, toServer>>

ReceiveOack(m) ==
  /\ m.type = "oack"
  /\ IF prevblock # 0
     THEN Ignore
     ELSE /\ packetsize' = m.blksize
          /\ filemax' = IF m.tsize = Unknown THEN filemax ELSE m.tsize
          /\ block' = 0
          /\ Answer(0, m.from)
          /\ bufEof' = Aborting
          /\ UNCHANGED <<pc, file, iport, retry, prevblock, bcounter, buf,
                         bufRead, savedPos, reader, calls>>

\* Faulty: the block is copied but not noted.
TakeUnnoted(b, bytes) ==
  /\ UNCHANGED prevblock
  /\ retry' = 0
  /\ bcounter' = bcounter + 1
  /\ buf' = [i \in 0 .. BufLen - 1 |->
               IF i \in bufRead .. bufRead + Len(bytes) - 1
               THEN bytes[i - bufRead + 1] ELSE buf[i]]
  /\ bufRead' = Lowest(BufLen, bufRead + Len(bytes))
  /\ bufEof' = (Len(bytes) < packetsize)

\* Block b is the one to come next: its bytes go to the end of the buffer.
TakeBlock(b, bytes) ==
  /\ prevblock' = b
  /\ retry' = 0
  /\ bcounter' = bcounter + 1
  /\ buf' = [i \in 0 .. BufLen - 1 |->
               IF i \in bufRead .. bufRead + Len(bytes) - 1
               THEN bytes[i - bufRead + 1] ELSE buf[i]]
  /\ bufRead' = bufRead + Len(bytes)
  /\ bufEof' = (Len(bytes) < packetsize)

ReceiveData(m) ==
  /\ m.type = "data"
  /\ IF Len(m.data) > packetsize
     THEN Ignore
     ELSE LET b == IF OutOfOrder(m.block) THEN prevblock ELSE m.block
          IN  /\ block' = b
              /\ Answer(b, m.from)
              /\ IF Aborting
                 THEN /\ bufEof' = TRUE
                      /\ UNCHANGED <<retry, prevblock, bcounter, buf, bufRead>>
                 ELSE IF (b - prevblock) % BlockMod # 1
                      THEN UNCHANGED <<retry, prevblock, bcounter, buf,
                                       bufRead, bufEof>>
                      ELSE TakeBlock(b, m.data)
              /\ UNCHANGED <<pc, file, iport, packetsize, savedPos, reader,
                             filemax, calls>>

\* buf_fill returns 0 to its caller.
FillFails ==
  /\ pc' = CASE pc \in {"opening", "sizing"} -> "closed"
             [] pc = "reading" -> "open"               \* ERR_READ
             [] pc = "rewinding" -> "reopening"        \* not looked at
             [] pc = "closing" -> "closed"
  /\ IF pc = "reading"
     THEN size' = 0 /\ got' = <<>>
     ELSE UNCHANGED <<size, got>>
  /\ UNCHANGED <<file, iport, buffer, filepos, filemax, calls>>

ReceiveError(m) ==
  /\ m.type = "error"
  /\ FillFails
  /\ UNCHANGED <<sent, transfer, toServer>>

\* await_reply takes what comes to the client's port and drops the rest.
Receive(m) ==
  /\ Filling
  /\ m.port = iport
  /\ toClient' = toClient \ {m}
  /\ ReceiveOack(m) \/ ReceiveData(m) \/ ReceiveError(m)
  /\ UNCHANGED server

\* It does not look at who sends: a packet of another transfer is taken like one
\* of this, its packet size or its length for the file's, its block for the next.
ReceiveStray(m) ==
  /\ Filling
  /\ m.port = iport
  /\ strays' = strays \ {m}
  /\ ReceiveOack(m) \/ ReceiveData(m) \/ ReceiveError(m)
  /\ mixed' = (mixed \/ <<packetsize, filemax, bcounter>>' #
                        <<packetsize, filemax, bcounter>>)
  /\ UNCHANGED <<server, toClient>>

\* "Maybe initial request was lost": tp goes to the server's request port
\* from a new port, whatever it holds by now.  The server takes nothing but a
\* request there.
AskAgain ==
  /\ Filling
  /\ block = 0
  /\ retry < MaxRetries
  /\ retry' = retry + 1
  /\ NewPort(iport + 1)
  /\ toServer' = Of(iport + 1, toServer) \cup
                 (IF tp = "rrq" THEN {Request(iport + 1, file)} ELSE {})
  /\ UNCHANGED <<pc, file, sent, block, prevblock, bcounter, packetsize,
                 buffer, reader, filemax, calls>>

\* "We resend our last ack."
AckAgain ==
  /\ Filling
  /\ block # 0
  /\ retry < MaxRexmt
  /\ retry' = retry + 1
  /\ toServer' = IF oport = Here THEN Put(toServer, Ack(iport, ackBlock))
                                  ELSE toServer
  /\ UNCHANGED <<pc, file, sent, iport, block, prevblock, bcounter, packetsize,
                 buffer, reader, filemax, calls, server, toClient>>

Limit == IF block = 0 THEN MaxRetries ELSE MaxRexmt

GiveUp ==
  /\ Filling
  /\ retry >= Limit
  /\ retry' = Limit + 1               \* how far past the limit is not told
  /\ FillFails
  /\ UNCHANGED <<sent, block, prevblock, bcounter, packetsize, server,
                 toServer, toClient>>

\* The user presses Control-C: await_reply sets ip_abort.
Interrupt ==
  /\ Filling
  /\ FillFails
  /\ UNCHANGED <<sent, transfer, server, toServer, toClient>>

---------------------------------------------------------------------------
(* The client: what follows when the buffer is full or the file at its end. *)

Filled == Waiting /\ ~Filling

\* tftp_dir has the size, from the server or from the first reading.
Opened ==
  /\ pc = "opening"
  /\ Filled
  /\ filemax # Unknown
  /\ pc' = "open"
  /\ UNCHANGED <<file, sent, iport, transfer, buffer, reader, filemax, calls,
                 server, toServer, toClient>>

\* "The server doesn't support the tsize option, so we must read the file
\* twice...": the lengths are added up and the bytes dropped.
Count ==
  /\ \/ pc = "opening" /\ filemax = Unknown /\ filemax' = bufRead
     \/ pc = "sizing" /\ ~bufEof /\ filemax' = filemax + bufRead
  /\ Filled
  /\ pc' = "sizing"
  /\ bufRead' = 0 /\ buf' = NoBytes
  /\ UNCHANGED <<file, sent, iport, transfer, bufEof, savedPos, reader,
                 calls, server, toServer, toClient>>

\* Faulty: what the last packets brought is not added.
ReopenShort ==
  /\ pc = "sizing"
  /\ Filled
  /\ bufEof
  /\ pc' = "opening"
  /\ SendRrq(file)
  /\ UNCHANGED <<file, reader, filemax, calls>>

\* "Retry the open instruction."
Reopen ==
  /\ pc = "sizing"
  /\ Filled
  /\ bufEof
  /\ filemax' = filemax + bufRead
  /\ pc' = "opening"
  /\ SendRrq(file)
  /\ UNCHANGED <<file, reader, calls>>

\* tftp_read has given up the old transfer; the request is restored from
\* saved_tp and sent again.
Rewound ==
  /\ pc = "reopening" \/ (pc = "rewinding" /\ Filled)
  /\ pc' = "copying"
  /\ SendRrq(file)
  /\ UNCHANGED <<file, reader, filemax, calls>>

Closed ==
  /\ pc = "closing"
  /\ Filled
  /\ pc' = "closed"
  /\ UNCHANGED <<file, sent, iport, transfer, buffer, reader, filemax, calls,
                 server, toServer, toClient>>

\* tftp_read after a buf_fill: "Sanity check."
FillReturns ==
  /\ pc = "reading"
  /\ Filled
  /\ IF bufRead = 0
     THEN pc' = "open" /\ size' = 0 /\ got' = <<>>     \* ERR_READ
     ELSE pc' = "copying" /\ UNCHANGED <<size, got>>
  /\ UNCHANGED <<file, sent, iport, transfer, buffer, filepos, filemax, calls,
                 server, toServer, toClient>>

---------------------------------------------------------------------------
(* The client: tftp_read's copying. *)

\* amt is an int and size an unsigned long, so that a negative amt is over
\* every size: "cut it down" makes it the size.
Amount == LET amt == bufRead + savedPos - filepos
          IN  IF amt < 0 \/ amt > size THEN size ELSE amt

Bytes(from, n) ==
  [i \in 1 .. n |-> IF from + i - 1 < BufLen THEN buf[from + i - 1] ELSE Junk]

Copying == pc = "copying" /\ size > 0

\* Faulty: the data move forwards, saved_filepos does not.
CopyOutUnmoved ==
  /\ Copying
  /\ Amount > 0
  /\ got' = got \o Bytes(filepos - savedPos, Amount)
  /\ size' = size - Amount
  /\ filepos' = filepos + Amount
  /\ buf' = IF filepos' - savedPos > BufLen \div 2
            THEN [i \in 0 .. BufLen - 1 |->
                    IF i < BufLen \div 2 THEN buf[i + BufLen \div 2] ELSE Junk]
            ELSE buf
  /\ pc' = IF size' = 0 THEN "open" ELSE "reading"
  /\ UNCHANGED <<file, sent, iport, transfer, bufEof, bufRead, savedPos,
                 filemax, calls, server, toServer, toClient>>

\* The bytes the buffer has; then "if the size of the empty space becomes
\* small, move the unused data forwards".
CopyOut ==
  /\ Copying
  /\ Amount > 0
  /\ got' = got \o Bytes(filepos - savedPos, Amount)
  /\ size' = size - Amount
  /\ filepos' = filepos + Amount
  /\ IF filepos' - savedPos > BufLen \div 2
     THEN /\ buf' = [i \in 0 .. BufLen - 1 |->
                       IF i < BufLen \div 2 THEN buf[i + BufLen \div 2]
                                            ELSE Junk]
          /\ bufRead' = bufRead - BufLen \div 2
          /\ savedPos' = savedPos + BufLen \div 2
     ELSE UNCHANGED <<buf, bufRead, savedPos>>
  /\ pc' = IF size' = 0 THEN "open" ELSE "reading"
  /\ UNCHANGED <<file, sent, iport, transfer, bufEof, filemax, calls,
                 server, toServer, toClient>>

\* Faulty: copying goes on without anything having been read.
SkipNothing ==
  /\ Copying
  /\ Amount = 0
  /\ savedPos' = savedPos + bufRead
  /\ bufRead' = 0 /\ buf' = NoBytes
  /\ pc' = "copying"
  /\ UNCHANGED <<file, sent, iport, transfer, bufEof, reader, filemax, calls,
                 server, toServer, toClient>>

\* "Skip the whole buffer."
SkipBuffer ==
  /\ Copying
  /\ Amount = 0
  /\ savedPos' = savedPos + bufRead
  /\ bufRead' = 0 /\ buf' = NoBytes
  /\ pc' = "reading"
  /\ UNCHANGED <<file, sent, iport, transfer, bufEof, reader, filemax, calls,
                 server, toServer, toClient>>

---------------------------------------------------------------------------
(* The server and the network. *)

Packet(g) == IF g.blksize THEN MaxPacket ELSE DefaultSize

\* The bytes of block k of file f, fewer than a packet in the last block.
BlockOf(f, k) ==
  LET from == (k - 1) * Packet(granted)
  IN  [i \in 1 .. Lowest(Packet(granted), Length[f] - from) |->
         <<f, from + i - 1>>]

\* What session s sent last and sends again when it is not acknowledged.
LastSent(s) ==
  IF s.sent = 0
  THEN Oack(s.port, granted, s.file)
  ELSE Data(s.port, s.sent % BlockMod, BlockOf(s.file, s.sent))

Begin(m) ==
  /\ m.type = "rrq"
  /\ LET s == [port |-> m.port, file |-> m.file, resent |-> 0,
               sent |-> IF granted.blksize \/ granted.tsize THEN 0 ELSE 1]
     IN  /\ sessions' = sessions \cup {s}
         /\ toClient' = Put(toClient, LastSent(s))
  /\ toServer' = toServer \ {m}
  /\ UNCHANGED <<client, granted>>

Refuse(m) ==
  /\ m.type = "rrq"
  /\ toClient' = Put(toClient, Refusal(m.port))
  /\ toServer' = toServer \ {m}
  /\ UNCHANGED <<client, server>>

\* An acknowledgement of the block sent last brings the next one, or ends a
\* transfer whose last block was short; any other is too late.
Acknowledged(m) ==
  /\ m.type = "ack"
  /\ toServer' = toServer \ {m}
  /\ \/ \E s \in sessions :
          /\ s.port = m.port
          /\ m.block = s.sent % BlockMod
          /\ IF s.sent > 0 /\ Len(BlockOf(s.file, s.sent)) < Packet(granted)
             THEN sessions' = sessions \ {s} /\ UNCHANGED toClient
             ELSE LET t == [s EXCEPT !.sent = @ + 1, !.resent = 0]
                  IN  /\ sessions' = (sessions \ {s}) \cup {t}
                      /\ toClient' = Put(toClient, LastSent(t))
     \/ /\ \A s \in sessions :
             s.port = m.port => m.block # s.sent % BlockMod
        /\ UNCHANGED <<sessions, toClient>>
  /\ UNCHANGED <<client, granted>>

Aborted(m) ==
  /\ m.type = "error"
  /\ toServer' = toServer \ {m}
  /\ sessions' = {s \in sessions : s.port # m.port}
  /\ UNCHANGED <<client, granted, toClient>>

Resend(s) ==
  /\ s.resent < MaxResend
  /\ sessions' = (sessions \ {s}) \cup {[s EXCEPT !.resent = @ + 1]}
  /\ toClient' = Put(toClient, LastSent(s))
  /\ UNCHANGED <<client, granted, toServer>>

Abandon(s) ==
  /\ s.resent = MaxResend
  /\ sessions' = sessions \ {s}
  /\ UNCHANGED <<client, granted, toServer, toClient>>

Lose == /\ \/ \E m \in toServer : toServer' = toServer \ {m} /\ UNCHANGED toClient
           \/ \E m \in toClient : toClient' = toClient \ {m} /\ UNCHANGED toServer
        /\ UNCHANGED <<client, server>>

---------------------------------------------------------------------------

Init == /\ pc = "closed" /\ file = NoFile
        /\ tp = "rrq" /\ ackBlock = 0 /\ iport = 0 /\ oport = Here
        /\ retry = 0 /\ block = 0 /\ prevblock = 0 /\ bcounter = 0
        /\ packetsize = DefaultSize
        /\ buf = NoBytes /\ bufRead = 0 /\ bufEof = FALSE /\ savedPos = 0
        /\ filepos = 0 /\ filemax = 0 /\ size = 0 /\ got = <<>>
        /\ calls = 0
        /\ granted \in Servers
        /\ sessions = {} /\ toServer = {} /\ toClient = {}
        /\ strays \in Strays /\ mixed = FALSE

Opens == \E f \in Files : Open(f)

Calls == \/ \E pos \in Seeks : Seek(pos)
         \/ \E n \in ReadSizes : Read(n)
         \/ Close

Steps == \/ Opened \/ Count \/ Reopen \/ Rewound \/ Closed \/ FillReturns
         \/ CopyOut \/ SkipBuffer

Awaits == \/ \E m \in toClient : Receive(m)
          \/ AskAgain \/ AckAgain \/ GiveUp \/ Interrupt
Astray == \E m \in strays : ReceiveStray(m)

Serves == \/ \E m \in toServer : \/ Begin(m) \/ Refuse(m)
                                 \/ Acknowledged(m) \/ Aborted(m)
          \/ \E s \in sessions : Resend(s) \/ Abandon(s)

Undisturbed == Calls \/ Steps \/ Awaits \/ Serves \/ Lose

Next == Opens \/ Astray \/ (Undisturbed /\ UNCHANGED others)

Spec == Init /\ [][Next]_vars

\* buf_fill and tftp_read go on by themselves, and await_reply comes back at
\* the latest at its timeout.
FairSpec ==
  Spec /\ WF_vars(Steps /\ UNCHANGED others) /\ WF_vars(Awaits /\ UNCHANGED others)
---------------------------------------------------------------------------
(* Properties. *)

\* Type invariant; the buffer is never filled over its end.
TypeOK ==
  /\ pc \in {"closed", "open", "opening", "sizing", "copying", "reading",
             "rewinding", "reopening", "closing"}
  /\ file \in Files \cup {NoFile}
  /\ tp \in {"rrq", "ack", "error"}
  /\ iport \in Nat /\ retry \in Nat /\ bcounter \in Nat
  /\ {block, prevblock, ackBlock} \subseteq 0 .. BlockMod - 1
  /\ packetsize \in {DefaultSize, MaxPacket}
  /\ bufRead \in 0 .. BufLen
  /\ bufEof \in BOOLEAN
  /\ savedPos \in Nat /\ filepos \in Nat /\ size \in Nat /\ calls \in Nat
  /\ filemax \in Nat \cup {Unknown}
  /\ DOMAIN buf = 0 .. BufLen - 1
  /\ oport \in {Here, Elsewhere} /\ mixed \in BOOLEAN

\* What the buffer holds is the piece of the file that starts where
\* saved_filepos says: no packet is lost, taken twice or out of turn, and none
\* of an earlier transfer, of this or of another file, gets in (buf_fill, and
\* the new port of every request).  Excused, here and below, is a file of which
\* a stray was taken for a part: the extension file's transfer had used its port
\* (main.c:303 and fsys_tftp.c:38 count apart), and buf_fill does not ask who
\* sends.
BufferIsFile ==
  pc # "closed" /\ ~mixed =>
    \A i \in 0 .. bufRead - 1 :
       buf[i] = <<file, (IF pc = "sizing" THEN filemax ELSE savedPos) + i>>

\* tftp_read delivers the bytes at filepos, in order: "Read up to SIZE bytes,
\* returned in ADDR".
ReadIsFile ==
  pc # "closed" /\ ~mixed =>
    \A i \in 1 .. Len(got) : got[i] = <<file, filepos - Len(got) + i - 1>>

\* A file that is open has its true length, whether the server told it or the
\* client counted it: "Get the size and save it in FILEMAX".
SizeIsTrue ==
  pc \in {"open", "copying", "reading", "rewinding", "reopening"} /\ ~mixed =>
    filemax = Length[file]

\* The server's transfer is never behind the client and never more than one
\* block ahead of it, as long as there are block numbers left: no
\* acknowledgement goes out for a block that is not copied (buf_fill sends it
\* before the copy).
LockStep ==
  \A s \in sessions :
     s.port = iport /\ bcounter < BlockMod - 1 /\ ~mixed =>
       s.sent \in {bcounter, bcounter + 1}

\* Every open, read and close comes back to its caller, whatever is lost.
EveryCallReturns ==
  (pc \notin {"open", "closed"}) ~> (pc \in {"open", "closed"})
===========================================================================
