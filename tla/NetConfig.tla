----------------------------- MODULE NetConfig -----------------------------
(***************************************************************************)
(* How stage2 gets an address, a netmask, a file server and a gateway:     *)
(* bootp (which dhcp is another name for), rarp and ifconfig of            *)
(* netboot/main.c, the resolution of addresses in udp_transmit, and the    *)
(* extension file that a reply may name, fetched by tftp in the middle of  *)
(* await_reply.                                                            *)
(*                                                                         *)
(* The network loses, repeats, delays and reorders: what bootp and its     *)
(* servers send stays in wire and is taken any number of times, or never.  *)
(* What is the same at every time is not kept there: ARP and RARP replies. *)
(* The queue of the card being part of the wire, draining it (AWAIT_QDRAIN) *)
(* changes nothing; nor does answering the ARP requests of others, which   *)
(* await_reply does whatever it waits for.                                 *)
(***************************************************************************)
EXTENDS Naturals, Sequences

CONSTANTS
  Sites,           \* networks the machine may stand in, see MCNetwork
  Arguments,       \* what ifconfig may be called with
  Names,           \* of servers and of hardware addresses
  MaxBootpRetries, MaxArpRetries, MaxTftpRetries,
  MaxRetransmits   \* TFTP_TIMEOUT / TFTP_REXMT

Nobody == "nobody"
NoNode == Nobody              \* six zeroes
Self == "self"                \* that of the machine itself

\* An address: the network that its class gives it, the subnet in that, the
\* host.  A netmask is how many of the three it keeps.
NoIp == <<0, 0, 0>>
Ones == 9                     \* the number whose bits are all ones

NoMask == 0
default_netmask == 1          \* that of the class, A, B or C alike
Masks == NoMask .. 3

Kept(ip, mask) == SubSeq(ip, 1, mask)
AllOf(ip, mask, n) == \A i \in mask + 1 .. 3 : ip[i] = n

\* ifconfig: the address of a host, neither the one that stands for the network
\* nor the one for all hosts of it.
IsHost(ip, mask) == mask # NoMask /\ ~AllOf(ip, mask, 0) /\ ~AllOf(ip, mask, Ones)

\* Whom udp_transmit hands what is for dest.
NextHop(dest, client, mask, gateway) ==
  IF Kept(dest, mask) # Kept(client, mask) /\ gateway # NoIp THEN gateway ELSE dest

Ips == [1 .. 3 -> Nat]
Entries == [ip : Ips, node : Names]
FileTypes == [blocks : Nat, oack : {"none", "granted", "refused"}, cookie : BOOLEAN,
              fits : Nat, mask : Masks, router : Ips]
ServerTypes == [kind : {"dhcp", "bootp", "rarp"}, addr : Ips, siaddr : Ips, giaddr : Ips,
                mask : Masks, router : Ips, file : Seq(FileTypes)]
\* Of the options of ifconfig: none, or one.
ArgumentTypes == [sm : Seq(Masks), ip : Seq(Ips), gw : Seq(Ips), svr : Seq(Ips), read : 0 .. 4]
ASSUME NamesAssumption == {Nobody, Self} \subseteq Names
ASSUME ArgumentsAssumption == Arguments \subseteq ArgumentTypes
ASSUME SitesAssumption ==
  \A n \in Sites :
    /\ n.servers \in [DOMAIN n.servers -> ServerTypes] /\ DOMAIN n.servers \subseteq Names
    /\ n.owners \in [DOMAIN n.owners -> Names]

VARIABLES
  site,            \* the network: its servers and who owns which address
  arptable,        \* address and hardware address of the three it knows
  netmask, network_ready,
  dhcp_reply,      \* the type of the last reply that had one
  dhcp_server, dhcp_addr,
  request,         \* the packet bootp sends
  xid, ip_abort,
  at,              \* where the machine is
  asker,           \* for whom: the wait that took a reply, or the file system
  bootpretry, reqretry, arpretry,   \* retry of bootp and rarp, reqretry, retry
                                    \* of udp_transmit
  ext,             \* the transfer of an extension file
  wire,            \* what bootp and its servers have sent
  leases,          \* what each server has done with its address
  configured, netCalls        \* history: the last call that configured; calls

dhcp == <<dhcp_reply, dhcp_server, dhcp_addr>>
loops == <<bootpretry, reqretry, arpretry>>
config == <<arptable, netmask, network_ready>>
netVars == <<site, config, dhcp, request, xid, ip_abort, at, asker, loops, ext, wire,
             leases, configured, netCalls>>

Hosts == DOMAIN site.servers
OwnerOf(ip) == IF ip \in DOMAIN site.owners THEN site.owners[ip] ELSE NoNode

\* The user gives commands, as many as the site has room for.
Command(what) == /\ at = "idle" /\ netCalls < Len(site.commands)
               /\ netCalls' = netCalls + 1 /\ what \in site.commands[netCalls']
Returns == at' = "idle" /\ asker' = Nobody
Succeeds(how) == network_ready' = TRUE /\ configured' = how /\ Returns

---------------------------------------------------------------------------
(* ifconfig, and tftpserver, which is ifconfig with a server alone. *)

\* Each option is read and stored in turn: those after one that is refused are
\* not looked at, those before it stay.  Of sm, ip, gw and svr, a.read
\* are read, and the next one, if there is one, is refused.
Reads(a, n) == a.read >= n
OrKept(given, old) == IF given = <<>> THEN old ELSE given[1]

\* Faulty: the hardware address of the server before is kept.
ServerOfBefore(a) == [arptable.server EXCEPT !.ip = IF Reads(a, 4) THEN OrKept(a.svr, @) ELSE @]
ServerOf(a) == IF Reads(a, 4) THEN [ip |-> OrKept(a.svr, arptable.server.ip), node |-> NoNode]
               ELSE arptable.server
GatewayOf(a) == IF Reads(a, 3) THEN [ip |-> OrKept(a.gw, arptable.gateway.ip), node |-> NoNode]
                ELSE arptable.gateway

ifconfig(a) ==
  LET ip == IF Reads(a, 2) THEN OrKept(a.ip, arptable.client.ip) ELSE arptable.client.ip
      byClass == Reads(a, 2) /\ a.ip # <<>> /\ a.sm = <<>> /\ netmask = NoMask
      mask == IF byClass THEN default_netmask
              ELSE IF Reads(a, 1) THEN OrKept(a.sm, netmask) ELSE netmask
  IN  /\ Command("ifconfig") /\ configured' = "ifconfig"
      /\ netmask' = mask
      /\ arptable' = [client |-> [arptable.client EXCEPT !.ip = ip],
                      gateway |-> GatewayOf(a), server |-> ServerOf(a)]
      /\ network_ready' = IF Reads(a, 4) /\ (a.ip # <<>> \/ a.sm # <<>>)
                          THEN IsHost(ip, mask) ELSE network_ready
      /\ UNCHANGED <<site, dhcp, request, xid, ip_abort, at, asker, loops, ext, wire, leases>>

---------------------------------------------------------------------------
(* bootp. *)

Discover == [what |-> "discover", server |-> Nobody, addr |-> NoIp]
RequestOf(s, addr) == [what |-> "request", server |-> s, addr |-> addr]
Reply(what, x, s) == [what |-> what, by |-> s, xid |-> x]
Asked == {m \in wire : m.what \in {"discover", "request"}}
Broadcast ==
  wire' = wire \cup {[what |-> request.what, server |-> request.server,
                      addr |-> request.addr, xid |-> xid]}

\* The transaction is numbered by the clock.
bootp ==
  /\ Command("bootp")
  /\ network_ready' = FALSE
  /\ request' = Discover /\ xid' = xid + 1 /\ bootpretry' = 0
  /\ at' = "outer" /\ UNCHANGED asker
  /\ UNCHANGED <<site, arptable, netmask, dhcp, ip_abort, reqretry, arpretry, ext, wire,
                 leases, configured>>

\* The head of the outer loop: from the first offer on it is the request that
\* it sends, not the discovery again.
SendFirst ==
  /\ at = "outer"
  /\ IF bootpretry < MaxBootpRetries
     THEN /\ Broadcast /\ bootpretry' = bootpretry + 1 /\ ip_abort' = FALSE
          /\ at' = "await" /\ asker' = "outer"
     ELSE Returns /\ UNCHANGED <<wire, bootpretry, ip_abort>>
  /\ UNCHANGED <<site, config, dhcp, request, xid, reqretry, arpretry, ext, leases,
                 configured, netCalls>>

\* Faulty: the round is not counted.
SendAgainUncounted ==
  /\ at = "inner"
  /\ IF reqretry < MaxBootpRetries
     THEN /\ Broadcast /\ dhcp_reply' = Nobody /\ ip_abort' = FALSE
          /\ at' = "await" /\ asker' = "inner"
     ELSE at' = "outer" /\ UNCHANGED <<wire, dhcp_reply, ip_abort, asker>>
  /\ UNCHANGED <<site, config, dhcp_server, dhcp_addr, request, xid, loops, ext, leases,
                 configured, netCalls>>
\* The head of the inner loop.
SendAgain ==
  /\ at = "inner"
  /\ IF reqretry < MaxBootpRetries
     THEN /\ Broadcast /\ dhcp_reply' = Nobody /\ reqretry' = reqretry + 1
          /\ ip_abort' = FALSE /\ at' = "await" /\ asker' = "inner"
     ELSE at' = "outer" /\ UNCHANGED <<wire, dhcp_reply, reqretry, ip_abort, asker>>
  /\ UNCHANGED <<site, config, dhcp_server, dhcp_addr, request, xid, bootpretry, arpretry,
                 ext, leases, configured, netCalls>>

\* What a reply says; a refusal says nothing of addresses.
Fields(m) == IF m.what = "nak"
             THEN [site.servers[m.by] EXCEPT !.addr = NoIp, !.siaddr = NoIp, !.giaddr = NoIp,
                     !.mask = NoMask, !.router = NoIp, !.file = <<>>]
             ELSE site.servers[m.by]

\* await_reply takes a reply and decode_rfc1533 its options: all of the
\* configuration is replaced at once, whatever the type of the reply.
TakeReply(m) ==
  LET f == Fields(m)
  IN  /\ at = "await" /\ m \in wire \ Asked /\ m.xid = xid
      /\ arptable' =
           [client |-> [arptable.client EXCEPT !.ip = f.addr],
            server |-> [ip |-> f.siaddr, node |-> NoNode],
            gateway |-> [ip |-> IF f.router = NoIp THEN f.giaddr ELSE f.router,
                         node |-> NoNode]]
      /\ netmask' = IF f.mask = NoMask THEN default_netmask ELSE f.mask
      /\ dhcp_addr' = f.addr
      /\ IF m.what = "bootp" THEN UNCHANGED <<dhcp_reply, dhcp_server>>
         ELSE dhcp_reply' = m.what /\ dhcp_server' = m.by
      /\ IF f.file = <<>> THEN at' = "decide" /\ UNCHANGED ext
         ELSE at' = "extension" /\ ext' = [ext EXCEPT !.by = m.by]
      /\ UNCHANGED <<site, network_ready, request, xid, ip_abort, asker, loops, wire, leases,
                     configured, netCalls>>

\* Faulty: any reply with a type ends the inner loop.
AcceptsTyped == IF asker = "outer" THEN dhcp_reply # "offer" ELSE dhcp_reply # Nobody
\* The outer loop takes all but an offer for the reply of a BOOTP server, the
\* inner one only an acknowledgement.
Accepts == IF asker = "outer" THEN dhcp_reply # "offer" ELSE dhcp_reply = "ack"

Decide ==
  /\ at = "decide"
  /\ \/ Accepts /\ Succeeds("bootp") /\ UNCHANGED <<dhcp_reply, request, reqretry>>
     \/ /\ ~Accepts /\ asker = "outer"
        /\ dhcp_reply' = Nobody /\ request' = RequestOf(dhcp_server, dhcp_addr)
        /\ reqretry' = 0 /\ at' = "inner"
        /\ UNCHANGED <<network_ready, configured, asker>>
     \/ /\ ~Accepts /\ asker = "inner"
        /\ IF ip_abort THEN Returns ELSE at' = "inner" /\ UNCHANGED asker
        /\ UNCHANGED <<network_ready, configured, dhcp_reply, request, reqretry>>
  /\ UNCHANGED <<site, arptable, netmask, dhcp_server, dhcp_addr, xid, ip_abort, bootpretry,
                 arpretry, ext, wire, leases, netCalls>>

WaitsInVain ==
  /\ at = "await" /\ at' = asker
  /\ UNCHANGED <<site, config, dhcp, request, xid, ip_abort, asker, loops, ext, wire, leases,
                 configured, netCalls>>
\* The user presses Ctrl-C.
GivesUp ==
  /\ at \in {"await", "rarp"} /\ ip_abort' = TRUE /\ Returns
  /\ UNCHANGED <<site, config, dhcp, request, xid, loops, ext, wire, leases, configured,
                 netCalls>>

---------------------------------------------------------------------------
(* rarp: netmask and gateway stay what they were. *)

rarp ==
  /\ Command("rarp") /\ network_ready' = FALSE /\ bootpretry' = 0
  /\ ip_abort' = FALSE /\ at' = "rarp" /\ UNCHANGED asker
  /\ UNCHANGED <<site, arptable, netmask, dhcp, request, xid, reqretry, arpretry, ext, wire,
                 leases, configured>>
RarpAnswered(s) ==
  /\ at = "rarp" /\ site.servers[s].kind = "rarp"
  /\ LET o == site.servers[s]
     IN  arptable' = [arptable EXCEPT !.client.ip = o.addr,
                        !.server = [ip |-> o.siaddr, node |-> OwnerOf(o.siaddr)]]
  /\ Succeeds("rarp")
  /\ UNCHANGED <<site, netmask, dhcp, request, xid, ip_abort, loops, ext, wire, leases,
                 netCalls>>
RarpInVain ==
  /\ at = "rarp" /\ bootpretry' = bootpretry + 1
  /\ IF bootpretry' < MaxArpRetries THEN UNCHANGED <<at, asker>> ELSE Returns
  /\ UNCHANGED <<site, config, dhcp, request, xid, ip_abort, reqretry, arpretry, ext, wire,
                 leases, configured, netCalls>>

---------------------------------------------------------------------------
(* udp_transmit to the file server: for the file system, or for tftp. *)

Dest == arptable.server.ip
Hop == NextHop(Dest, arptable.client.ip, netmask, arptable.gateway.ip)
\* The first of the three with that address.
EntryOf(ip) ==
  CASE arptable.client.ip = ip -> "client"
    [] arptable.client.ip # ip /\ arptable.server.ip = ip -> "server"
    [] OTHER -> "gateway"
InTable == Hop \in {arptable[e].ip : e \in DOMAIN arptable}
Node == arptable[EntryOf(Hop)].node

\* A datagram for the server comes there from the server's own wire, or through
\* a router.
Arrives(node) == node \in {OwnerOf(Dest)} \cup site.routers

TransmitFails ==
  IF asker = "files" THEN Returns ELSE at' = "decide" /\ UNCHANGED asker

File == site.servers[ext.by].file[1]
FirstBlock(o) == IF o.oack = "none" THEN 1 ELSE 0
\* The request goes out, from a port of its own: nothing of an earlier one is
\* heard any more.
Requested(node) ==
  \E heard \in BOOLEAN :
     ext' = [ext EXCEPT !.prev = 0, !.retry = 0, !.tp = "rrq", !.out =
               IF heard /\ Arrives(node) THEN {FirstBlock(File)} ELSE {}]

\* Someone reads a file: tftp_mount refuses unless the network is ready.
ReadFile ==
  /\ Command("files") /\ network_ready
  /\ at' = "transmit" /\ asker' = "files"
  /\ UNCHANGED <<site, config, dhcp, request, xid, ip_abort, loops, ext, wire, leases,
                 configured>>

Transmit ==
  /\ at \in {"transmit", "extension"}
  /\ ip_abort' = FALSE
  /\ \/ ~InTable /\ TransmitFails /\ UNCHANGED <<arpretry, ext>>
     \/ /\ InTable /\ Node = NoNode /\ at' = "arp" /\ arpretry' = 1
        /\ UNCHANGED <<asker, ext>>
     \/ /\ InTable /\ Node # NoNode /\ UNCHANGED arpretry
        /\ IF asker = "files" THEN Returns /\ UNCHANGED ext
           ELSE at' = "tftp" /\ Requested(Node) /\ UNCHANGED asker
  /\ UNCHANGED <<site, config, dhcp, request, xid, bootpretry, reqretry, wire, leases,
                 configured, netCalls>>

ArpAnswered ==
  /\ at = "arp" /\ OwnerOf(Hop) # NoNode
  /\ arptable' = [arptable EXCEPT ![EntryOf(Hop)].node = OwnerOf(Hop)]
  /\ IF asker = "files" THEN Returns /\ UNCHANGED ext
     ELSE at' = "tftp" /\ Requested(OwnerOf(Hop)) /\ UNCHANGED asker
  /\ UNCHANGED <<site, netmask, network_ready, dhcp, request, xid, ip_abort, loops, wire,
                 leases, configured, netCalls>>
ArpInVain(key) ==
  /\ at = "arp" /\ ip_abort' = key
  /\ IF arpretry < MaxArpRetries /\ ~key
     THEN arpretry' = arpretry + 1 /\ UNCHANGED <<at, asker>>
     ELSE TransmitFails /\ UNCHANGED arpretry
  /\ UNCHANGED <<site, config, dhcp, request, xid, bootpretry, reqretry, ext, wire, leases,
                 configured, netCalls>>

---------------------------------------------------------------------------
(* tftp, for the extension file.  prev is prevblock, and bcounter with it; *)
(* out is what the server has sent to this port, an OACK being block 0.    *)

\* An acknowledgement of block b goes out; the server may hear it.  A file that
\* is refused is one the server does not have, or an OACK the client refuses.
AckSent(b, prev, retry) ==
  \E heard \in BOOLEAN :
     ext' = [ext EXCEPT !.prev = prev, !.retry = retry, !.tp = "ack", !.out =
               @ \cup (IF heard /\ Arrives(Node) THEN {b + 1} \cap 1 .. File.blocks ELSE {})]

\* The options of the file; the gateway keeps the hardware address it has.
Parsed ==
  /\ netmask' = IF File.mask = NoMask THEN netmask ELSE File.mask
  /\ arptable' = [arptable EXCEPT !.gateway.ip = IF File.router = NoIp THEN @ ELSE File.router]
Unparsed == UNCHANGED <<netmask, arptable>>

TftpTakes(b) ==
  /\ at = "tftp" /\ b \in ext.out
  /\ \/ /\ b = 0 /\ ext.prev = 0 /\ File.oack = "refused"
        /\ at' = "decide" /\ Unparsed /\ UNCHANGED ext
     \/ /\ b = 0 /\ ext.prev = 0 /\ File.oack # "refused"
        /\ AckSent(0, 0, ext.retry) /\ Unparsed /\ UNCHANGED at
     \/ /\ b \notin {0, ext.prev + 1}
        /\ AckSent(ext.prev, ext.prev, ext.retry) /\ Unparsed /\ UNCHANGED at
     \/ /\ b = ext.prev + 1
        /\ AckSent(b, b, 0)
        /\ CASE ~File.cookie \/ b > File.fits -> at' = "decide" /\ Unparsed
             [] File.cookie /\ b <= File.fits /\ b = File.blocks -> at' = "decide" /\ Parsed
             [] OTHER -> Unparsed /\ UNCHANGED at
  /\ UNCHANGED <<site, network_ready, dhcp, request, xid, ip_abort, asker, loops, wire,
                 leases, configured, netCalls>>

\* Nothing came, or the user pressed Ctrl-C, which is the same here.  What is
\* sent again is whatever was sent last: after an OACK that is an
\* acknowledgement, which to the port for requests means nothing.
TftpInVain(key) ==
  /\ at = "tftp"
  /\ \/ /\ ext.prev = 0 /\ ext.retry < MaxTftpRetries
        /\ ip_abort' = FALSE /\ UNCHANGED at
        /\ \E heard \in BOOLEAN :
             ext' = [ext EXCEPT !.retry = @ + 1, !.out =
                       IF heard /\ Arrives(Node) /\ ext.tp = "rrq" THEN {FirstBlock(File)} ELSE {}]
     \/ /\ ext.prev > 0 /\ ext.retry + 1 < MaxRetransmits
        /\ ip_abort' = FALSE /\ UNCHANGED at
        /\ AckSent(ext.prev, ext.prev, ext.retry + 1)
     \/ /\ IF ext.prev = 0 THEN ext.retry >= MaxTftpRetries ELSE ext.retry + 1 >= MaxRetransmits
        /\ ip_abort' = key /\ at' = "decide" /\ UNCHANGED ext
  /\ UNCHANGED <<site, config, dhcp, request, xid, asker, loops, wire, leases, configured,
                 netCalls>>

---------------------------------------------------------------------------
(* The servers. *)

Answers(s, what, m, lease) ==
  /\ wire' = wire \cup {Reply(what, m.xid, s)}
  /\ leases' = [leases EXCEPT ![s] = lease]
  /\ UNCHANGED <<site, config, dhcp, request, xid, ip_abort, at, asker, loops, ext,
                 configured, netCalls>>

Keeps(s) == site.servers[s].kind = "dhcp" /\ leases[s] # "gone"
Offers(s, m) ==
  /\ Keeps(s) /\ m.what = "discover"
  /\ Answers(s, "offer", m, IF leases[s] = "bound" THEN "bound" ELSE "offered")
\* It binds the address it has offered, and refuses any other.
Binds(s, m) ==
  /\ Keeps(s) /\ m.server = s /\ leases[s] # "free" /\ m.addr = site.servers[s].addr
  /\ Answers(s, "ack", m, "bound")
Refuses(s, m) ==
  /\ site.servers[s].kind = "dhcp" /\ m.server = s
  /\ leases[s] \in {"free", "gone"} \/ m.addr # site.servers[s].addr
  /\ Answers(s, "nak", m, leases[s])
\* A BOOTP server answers any request.
AnswersBootp(s, m) == site.servers[s].kind = "bootp" /\ Answers(s, "bootp", m, leases[s])
\* An offer is withdrawn: another server was chosen, or the address is given to
\* somebody else.
Withdraws(s) ==
  /\ leases[s] \in {"free", "offered"} /\ site.servers[s].kind = "dhcp"
  /\ \/ /\ \E m \in Asked : m.what = "request" /\ m.server # s
        /\ leases[s] = "offered" /\ leases' = [leases EXCEPT ![s] = "free"]
     \/ leases' = [leases EXCEPT ![s] = "gone"]
  /\ UNCHANGED <<site, config, dhcp, request, xid, ip_abort, at, asker, loops, ext, wire,
                 configured, netCalls>>

---------------------------------------------------------------------------

NcInit ==
  /\ site \in Sites
  /\ arptable = [client |-> [ip |-> NoIp, node |-> Self],
                 server |-> [ip |-> NoIp, node |-> NoNode],
                 gateway |-> [ip |-> NoIp, node |-> NoNode]]
  /\ netmask = NoMask /\ network_ready = FALSE
  /\ dhcp_reply = Nobody /\ dhcp_server = Nobody /\ dhcp_addr = NoIp
  /\ request = Discover /\ xid = 0 /\ ip_abort = FALSE
  /\ at = "idle" /\ asker = Nobody
  /\ bootpretry = 0 /\ reqretry = 0 /\ arpretry = 0
  /\ ext = [by |-> Nobody, prev |-> 0, retry |-> 0, tp |-> "rrq", out |-> {}]
  /\ wire = {} /\ leases = [s \in Hosts |-> "free"]
  /\ configured = Nobody /\ netCalls = 0

Commands == bootp \/ rarp \/ ReadFile \/ \E a \in Arguments : ifconfig(a)
\* What the machine does by itself: the clock goes on.
Proceeds ==
  \/ SendFirst \/ SendAgain \/ Decide \/ WaitsInVain \/ RarpInVain
  \/ Transmit \/ ArpInVain(FALSE) \/ TftpInVain(FALSE)
Keys == GivesUp \/ ArpInVain(TRUE) \/ TftpInVain(TRUE)
Hears ==
  \/ \E m \in wire \ Asked : TakeReply(m)
  \/ \E s \in Hosts : RarpAnswered(s)
  \/ ArpAnswered
  \/ \E b \in ext.out : TftpTakes(b)
ServersStep ==
  \E s \in Hosts :
     \/ \E m \in Asked : \/ Offers(s, m) \/ Binds(s, m) \/ Refuses(s, m)
                         \/ AnswersBootp(s, m)
     \/ Withdraws(s)
NcNext == Commands \/ Proceeds \/ Keys \/ Hears \/ ServersStep
NcSpec == NcInit /\ [][NcNext]_netVars

---------------------------------------------------------------------------
(* Properties. *)

ConfigTypes ==
  /\ arptable \in [client : Entries, server : Entries, gateway : Entries]
  /\ netmask \in Masks /\ network_ready \in BOOLEAN
PlaceTypes ==
  /\ at \in {"idle", "outer", "inner", "await", "decide", "rarp", "extension", "transmit",
             "arp", "tftp"}
  /\ asker \in {Nobody, "outer", "inner", "files"} /\ ip_abort \in BOOLEAN
DhcpTypes ==
  /\ request \in [what : {"discover", "request"}, server : Names, addr : Ips] /\ xid \in Nat
  /\ dhcp_reply \in {Nobody, "offer", "ack", "nak"}
  /\ dhcp_server \in Names /\ dhcp_addr \in Ips
ExtTypes == ext \in [by : Names, prev : Nat, retry : Nat, tp : {"rrq", "ack"}, out : SUBSET Nat]
WireTypes ==
  /\ wire \subseteq [what : {"discover", "request"}, server : Names, addr : Ips, xid : Nat]
                    \cup [what : {"offer", "ack", "nak", "bootp"}, by : Hosts, xid : Nat]
  /\ leases \in [Hosts -> {"free", "offered", "bound", "gone"}]
NcTypeOK ==
  site \in Sites /\ ConfigTypes /\ PlaceTypes /\ DhcpTypes /\ ExtTypes /\ WireTypes

\* The machine has what the server o says, with its extension file or without.
Extended(f, mask, gateway) == <<IF f.mask = NoMask THEN mask ELSE f.mask,
                                IF f.router = NoIp THEN gateway ELSE f.router>>
Configured(o) ==
  LET mask == IF o.mask = NoMask THEN default_netmask ELSE o.mask
      gateway == IF o.router = NoIp THEN o.giaddr ELSE o.router
  IN  /\ arptable.client.ip = o.addr /\ arptable.server.ip = o.siaddr
      /\ \/ netmask = mask /\ arptable.gateway.ip = gateway
         \/ /\ o.file # <<>>
            /\ <<netmask, arptable.gateway.ip>> = Extended(o.file[1], mask, gateway)

\* A refusal taken for the reply of a BOOTP server: the address is 0.0.0.0.
RefusalTaken == dhcp_reply = "nak" /\ arptable.client.ip = NoIp

\* AddressIsLeased.  Once bootp has configured the machine, its address is one
\* that a server has bound to it, or that a BOOTP server keeps for it, and the
\* file server, the netmask and the gateway are those that go with that address:
\* of the same reply, or of the extension file that it named.  Excused is a
\* refusal that comes to the outer loop (netboot/main.c, 613), which sends the
\* request once more when the inner loop is through.
AddressIsLeased ==
  network_ready /\ configured = "bootp" /\ ~RefusalTaken =>
    \E s \in Hosts : LET o == site.servers[s]
                     IN  Configured(o) /\ (o.kind = "dhcp" => leases[s] = "bound")

\* ArpTrue.  A hardware address that the machine would send to is that of the
\* owner of the address beside it, through any sequence of commands and replies.
\* Excused is a gateway that an extension file replaces (netboot/main.c, 1037):
\* it is reached through the hardware address of the one before.
ArpTrue ==
  \A e \in {"server", "gateway"} :
     LET x == arptable[e]
     IN  \/ x.node \in {NoNode, OwnerOf(x.ip)}
         \/ e = "gateway" /\ \E s \in Hosts : /\ site.servers[s].file # <<>>
                                             /\ site.servers[s].file[1].router = x.ip

\* ConfigurationEnds.  Every command on the network comes to its end, whoever is
\* silent, refuses or answers too much.
ConfigurationEnds == (at # "idle") ~> (at = "idle")
=============================================================================
