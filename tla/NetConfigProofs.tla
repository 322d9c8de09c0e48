-------------------------- MODULE NetConfigProofs --------------------------
(***************************************************************************)
(* Theorems about the configuration of the network, for any servers, files, *)
(* arguments, numbers of retries and commands: the state keeps its types,   *)
(* hardware addresses are those of their owners, and the address in use is  *)
(* one that a server gave.                                                  *)
(***************************************************************************)
EXTENDS NetConfig, TLAPS

\* The machine has what the server o says, without its extension file.
Based(o) ==
  /\ arptable.client.ip = o.addr /\ arptable.server.ip = o.siaddr
  /\ netmask = (IF o.mask = NoMask THEN default_netmask ELSE o.mask)
  /\ arptable.gateway.ip = (IF o.router = NoIp THEN o.giaddr ELSE o.router)

\* A reply was taken and its extension file is being fetched, or it is judged.
Fetching == at \in {"extension", "tftp"} \/ (at = "arp" /\ asker # "files")
Underway == Fetching \/ at \in {"outer", "inner", "await", "decide", "rarp"}

\* Who waits where; the network is not ready meanwhile.
Placed ==
  /\ at \in {"await", "extension", "tftp", "decide"} => asker \in {"outer", "inner"}
  /\ at = "arp" => asker # Nobody /\ InTable
  /\ at = "transmit" => asker = "files"
  /\ Underway => ~network_ready

\* An acknowledgement on the wire has bound the address; a reply without a type
\* is that of a BOOTP server.
WireTrue ==
  \A m \in wire \ Asked : /\ m.what = "ack" => leases[m.by] = "bound"
                          /\ m.what = "bootp" => site.servers[m.by].kind = "bootp"

\* The configuration is that of a reply on the wire, whose type was noted.
Holds(m) == m.what = "bootp" \/ dhcp_reply = m.what
ReplyHeld ==
  /\ Fetching => \E m \in wire \ Asked : /\ Holds(m) /\ m.what # "nak" /\ m.by = ext.by
                                         /\ site.servers[m.by].file # <<>>
                                         /\ Based(site.servers[m.by])
  /\ at = "decide" => \E m \in wire \ Asked : Holds(m) /\ Configured(Fields(m))

IInv == NcTypeOK /\ Placed /\ WireTrue /\ ReplyHeld /\ ArpTrue /\ AddressIsLeased

---------------------------------------------------------------------------
(* What a step keeps that leaves addresses, replies and leases alone. *)

SameIps == \A e \in {"client", "server", "gateway"} : arptable'[e].ip = arptable[e].ip
BoundStay == \A s \in Hosts : leases[s] = "bound" => leases'[s] = "bound"

LEMMA WireKept ==
  ASSUME WireTrue, WireTypes, UNCHANGED site, BoundStay, wire' \ Asked' \subseteq wire \ Asked
  PROVE  WireTrue'
<1> SUFFICES ASSUME NEW m \in wire' \ Asked'
             PROVE  /\ m.what = "ack" => leases'[m.by] = "bound"
                    /\ m.what = "bootp" => site.servers[m.by].kind = "bootp"
  BY DEF WireTrue
<1>1. m \in wire \ Asked
  OBVIOUS
<1>2. m.by \in Hosts
  BY <1>1 DEF WireTypes, Asked
<1> QED
  BY <1>1, <1>2 DEF WireTrue, BoundStay

LEMMA ArpKept ==
  ASSUME ArpTrue, UNCHANGED <<site, arptable>>
  PROVE  ArpTrue'
BY DEF ArpTrue, Hosts, OwnerOf

LEMMA InTableKept ==
  ASSUME UNCHANGED config
  PROVE  InTable' = InTable
BY DEF config, InTable, Hop, Dest

LEMMA ConfiguredKept ==
  ASSUME NEW o, SameIps, UNCHANGED netmask
  PROVE  Configured(o)' = Configured(o) /\ Based(o)' = Based(o)
BY DEF Configured, Based, Extended, SameIps

LEMMA LeasedKept ==
  ASSUME AddressIsLeased, SameIps, BoundStay,
         UNCHANGED <<site, netmask, network_ready, dhcp_reply, configured>>
  PROVE  AddressIsLeased'
<1> SUFFICES ASSUME network_ready, configured = "bootp", ~RefusalTaken'
             PROVE  \E s \in Hosts : /\ Configured(site.servers[s])'
                                     /\ site.servers[s].kind = "dhcp" => leases'[s] = "bound"
  BY DEF AddressIsLeased, Hosts
<1>1. ~RefusalTaken
  BY DEF RefusalTaken, SameIps
<1>2. PICK s \in Hosts : /\ Configured(site.servers[s])
                         /\ site.servers[s].kind = "dhcp" => leases[s] = "bound"
  BY <1>1 DEF AddressIsLeased
<1>3. Configured(site.servers[s])'
  BY <1>2, ConfiguredKept
<1> QED
  BY <1>2, <1>3 DEF BoundStay

LEMMA NotReadyIsLeased ==
  ASSUME ~network_ready'
  PROVE  AddressIsLeased'
BY DEF AddressIsLeased

LEMMA ReplyKept ==
  ASSUME ReplyHeld, SameIps, UNCHANGED <<site, netmask, dhcp_reply>>, ext'.by = ext.by,
         wire \ Asked \subseteq wire' \ Asked', Fetching' => Fetching,
         at' = "decide" => at = "decide" \/ Fetching
  PROVE  ReplyHeld'
<1> DEFINE Fetched(m) == /\ Holds(m) /\ m.what # "nak" /\ m.by = ext.by
                         /\ site.servers[m.by].file # <<>> /\ Based(site.servers[m.by])
           Judged(m) == Holds(m) /\ Configured(Fields(m))
<1>1. \A m : Holds(m)' = Holds(m) /\ Fields(m)' = Fields(m)
  BY DEF Holds, Fields
<1>2. \A m : Fetched(m) => Fetched(m)'
  BY <1>1, ConfiguredKept
<1>3. \A m : Judged(m) => Judged(m)'
  BY <1>1, ConfiguredKept
<1>4. \A m : Fetched(m) => Judged(m)
  BY DEF Based, Configured, Fields
<1>5. ASSUME Fetching' PROVE \E m \in wire' \ Asked' : Fetched(m)'
  <2>1. PICK m \in wire \ Asked : Fetched(m)
    BY <1>5 DEF ReplyHeld
  <2> QED
    BY <2>1, <1>2
<1>6. ASSUME at' = "decide" PROVE \E m \in wire' \ Asked' : Judged(m)'
  <2>1. PICK m \in wire \ Asked : Judged(m)
    BY <1>6, <1>4 DEF ReplyHeld
  <2> QED
    BY <2>1, <1>3
<1> HIDE DEF Fetched, Judged
<1> QED
  BY <1>5, <1>6 DEF ReplyHeld, Fetched, Judged

---------------------------------------------------------------------------
(* Types. *)

LEMMA NoIpType == NoIp \in Ips
BY DEF NoIp, Ips

LEMMA InitIInv == NcInit => IInv
<1> SUFFICES ASSUME NcInit PROVE IInv
  OBVIOUS
<1>1. NcTypeOK
  <2>1. ConfigTypes
    <3>1. /\ [ip |-> NoIp, node |-> Self] \in Entries
          /\ [ip |-> NoIp, node |-> NoNode] \in Entries
      BY NoIpType, NamesAssumption DEF Entries, NoNode
    <3>2. netmask \in Masks
      BY DEF NcInit, Masks, NoMask
    <3> QED
      BY <3>1, <3>2 DEF NcInit, ConfigTypes
  <2>2. DhcpTypes
    BY NoIpType, NamesAssumption DEF NcInit, DhcpTypes, Discover
  <2>3. ExtTypes
    BY NamesAssumption DEF NcInit, ExtTypes
  <2>4. WireTypes
    BY DEF NcInit, WireTypes
  <2>5. PlaceTypes
    BY DEF NcInit, PlaceTypes
  <2> QED
    BY <2>1, <2>2, <2>3, <2>4, <2>5 DEF NcInit, NcTypeOK
<1>2. Placed /\ ReplyHeld
  BY DEF NcInit, Placed, ReplyHeld, Underway, Fetching, Nobody
<1>3. WireTrue
  BY DEF NcInit, WireTrue, Asked
<1>4. ArpTrue /\ AddressIsLeased
  BY DEF NcInit, ArpTrue, AddressIsLeased, NoNode
<1> QED
  BY <1>1, <1>2, <1>3, <1>4 DEF IInv

LEMMA ServerType ==
  ASSUME site \in Sites, NEW s \in Hosts
  PROVE  site.servers[s] \in ServerTypes /\ s \in Names
BY SitesAssumption DEF Hosts

LEMMA OwnerType ==
  ASSUME site \in Sites, NEW ip
  PROVE  OwnerOf(ip) \in Names
BY SitesAssumption, NamesAssumption DEF OwnerOf, NoNode

LEMMA FirstType ==
  ASSUME NEW S, NEW s \in Seq(S), s # <<>>
  PROVE  s[1] \in S
OBVIOUS

LEMMA FieldsType ==
  ASSUME site \in Sites, NEW m, m.by \in Hosts
  PROVE  /\ Fields(m).addr \in Ips /\ Fields(m).siaddr \in Ips /\ Fields(m).giaddr \in Ips
         /\ Fields(m).router \in Ips /\ Fields(m).mask \in Masks
BY ServerType, NoIpType DEF Fields, ServerTypes, Masks, NoMask

LEMMA FileType ==
  ASSUME site \in Sites, ext.by \in Hosts, site.servers[ext.by].file # <<>>
  PROVE  File \in FileTypes
BY ServerType, FirstType DEF File, ServerTypes

---------------------------------------------------------------------------
(* ifconfig and rarp. *)

LEMMA IfconfigStep ==
  ASSUME IInv, NEW a \in Arguments, ifconfig(a)
  PROVE  IInv'
<1> USE DEF IInv
<1>1. ConfigTypes'
  <2>1. /\ a.sm \in Seq(Masks) /\ a.ip \in Seq(Ips) /\ a.gw \in Seq(Ips) /\ a.svr \in Seq(Ips)
    BY ArgumentsAssumption DEF ArgumentTypes
  <2>2. /\ \A old \in Masks : OrKept(a.sm, old) \in Masks
        /\ \A old \in Ips : /\ OrKept(a.ip, old) \in Ips /\ OrKept(a.gw, old) \in Ips
                            /\ OrKept(a.svr, old) \in Ips
    BY <2>1, FirstType DEF OrKept
  <2>3. ServerOf(a) \in Entries /\ GatewayOf(a) \in Entries
    BY <2>2, NamesAssumption DEF NcTypeOK, ConfigTypes, Entries, ServerOf, GatewayOf, NoNode
  <2>4. netmask' \in Masks
    BY <2>2 DEF ifconfig, NcTypeOK, ConfigTypes, Masks, default_netmask, NoMask
  <2>5. arptable'.client \in Entries
    BY <2>2 DEF ifconfig, NcTypeOK, ConfigTypes, Entries
  <2>6. network_ready' \in BOOLEAN
    BY DEF ifconfig, NcTypeOK, ConfigTypes, IsHost
  <2> QED
    BY <2>3, <2>4, <2>5, <2>6 DEF ifconfig, ConfigTypes
<1>2. NcTypeOK'
  BY <1>1 DEF ifconfig, dhcp, NcTypeOK, PlaceTypes, DhcpTypes, ExtTypes, WireTypes, Hosts
<1>3. at' = "idle"
  BY DEF ifconfig, Command
<1>4. Placed' /\ ReplyHeld'
  BY <1>3 DEF Placed, ReplyHeld, Underway, Fetching
<1>5. WireTrue'
  BY WireKept DEF ifconfig, BoundStay, NcTypeOK, Asked
<1>6. ArpTrue'
  BY DEF ifconfig, ArpTrue, ServerOf, GatewayOf, OwnerOf, Hosts
<1>7. AddressIsLeased'
  BY DEF ifconfig, AddressIsLeased
<1> QED
  BY <1>2, <1>4, <1>5, <1>6, <1>7

LEMMA RarpStep ==
  ASSUME IInv, rarp
  PROVE  IInv'
<1> USE DEF IInv
<1>1. NcTypeOK'
  BY DEF rarp, dhcp, Command, NcTypeOK, ConfigTypes, PlaceTypes, DhcpTypes, ExtTypes,
         WireTypes, Hosts
<1>2. Placed' /\ ReplyHeld'
  BY DEF rarp, Placed, ReplyHeld, Underway, Fetching
<1>3. WireTrue'
  BY WireKept DEF rarp, BoundStay, NcTypeOK, Asked
<1>4. ArpTrue' /\ AddressIsLeased'
  BY ArpKept, NotReadyIsLeased DEF rarp
<1> QED
  BY <1>1, <1>2, <1>3, <1>4

LEMMA RarpAnsweredStep ==
  ASSUME IInv, NEW s \in Hosts, RarpAnswered(s)
  PROVE  IInv'
<1> USE DEF IInv
<1>1. ConfigTypes'
  <2>1. site.servers[s].addr \in Ips /\ site.servers[s].siaddr \in Ips
    BY ServerType DEF NcTypeOK, ServerTypes
  <2>2. arptable'.client \in Entries /\ arptable'.server \in Entries
    BY <2>1, OwnerType DEF RarpAnswered, NcTypeOK, ConfigTypes, Entries
  <2> QED
    BY <2>2 DEF RarpAnswered, Succeeds, NcTypeOK, ConfigTypes
<1>2. NcTypeOK'
  BY <1>1 DEF RarpAnswered, Succeeds, Returns, dhcp, NcTypeOK, PlaceTypes, DhcpTypes,
              ExtTypes, WireTypes, Hosts
<1>3. Placed' /\ ReplyHeld'
  BY DEF RarpAnswered, Succeeds, Returns, Placed, ReplyHeld, Underway, Fetching
<1>4. WireTrue'
  BY WireKept DEF RarpAnswered, BoundStay, NcTypeOK, Asked
<1>5. ArpTrue'
  BY DEF RarpAnswered, NcTypeOK, ConfigTypes, ArpTrue, OwnerOf, Hosts
<1>6. AddressIsLeased'
  BY DEF RarpAnswered, Succeeds, AddressIsLeased
<1> QED
  BY <1>2, <1>3, <1>4, <1>5, <1>6

---------------------------------------------------------------------------
(* Steps that wait, give up or send: addresses and leases stay. *)

LEMMA WaitingStep ==
  ASSUME IInv, UNCHANGED <<site, arptable, netmask, leases, configured>>,
         ~network_ready' \/ UNCHANGED <<network_ready, dhcp_reply>>,
         wire' \ Asked' \subseteq wire \ Asked,
         ConfigTypes', PlaceTypes', DhcpTypes', ExtTypes', WireTypes', Placed', ReplyHeld'
  PROVE  IInv'
<1> USE DEF IInv
<1>1. NcTypeOK'
  BY DEF NcTypeOK
<1>2. WireTrue'
  BY WireKept DEF BoundStay, NcTypeOK, Asked
<1>3. ArpTrue'
  BY ArpKept
<1>4. AddressIsLeased'
  BY LeasedKept, NotReadyIsLeased DEF SameIps, BoundStay
<1> QED
  BY <1>1, <1>2, <1>3, <1>4

LEMMA RarpInVainStep ==
  ASSUME IInv, RarpInVain
  PROVE  IInv'
<1>1. /\ ConfigTypes' /\ PlaceTypes' /\ DhcpTypes' /\ ExtTypes' /\ WireTypes'
  BY DEF IInv, RarpInVain, Returns, config, dhcp, NcTypeOK, ConfigTypes, PlaceTypes,
         DhcpTypes, ExtTypes, WireTypes, Hosts
<1>2. Placed' /\ ReplyHeld'
  BY DEF IInv, RarpInVain, Returns, config, Placed, ReplyHeld, Underway, Fetching
<1> QED
  BY <1>1, <1>2, WaitingStep DEF RarpInVain, config, dhcp, Asked

LEMMA GivesUpStep ==
  ASSUME IInv, GivesUp
  PROVE  IInv'
<1>1. /\ ConfigTypes' /\ PlaceTypes' /\ DhcpTypes' /\ ExtTypes' /\ WireTypes'
  BY DEF IInv, GivesUp, Returns, config, dhcp, NcTypeOK, ConfigTypes, PlaceTypes,
         DhcpTypes, ExtTypes, WireTypes, Hosts
<1>2. Placed' /\ ReplyHeld'
  BY DEF IInv, GivesUp, Returns, config, Placed, ReplyHeld, Underway, Fetching
<1> QED
  BY <1>1, <1>2, WaitingStep DEF GivesUp, config, dhcp, Asked

LEMMA WaitsInVainStep ==
  ASSUME IInv, WaitsInVain
  PROVE  IInv'
<1>1. asker \in {"outer", "inner"}
  BY DEF IInv, WaitsInVain, Placed
<1>2. /\ ConfigTypes' /\ PlaceTypes' /\ DhcpTypes' /\ ExtTypes' /\ WireTypes'
  BY <1>1 DEF IInv, WaitsInVain, config, dhcp, NcTypeOK, ConfigTypes, PlaceTypes,
              DhcpTypes, ExtTypes, WireTypes, Hosts
<1>3. Placed' /\ ReplyHeld'
  BY <1>1 DEF IInv, WaitsInVain, config, Placed, ReplyHeld, Underway, Fetching
<1> QED
  BY <1>2, <1>3, WaitingStep DEF WaitsInVain, config, dhcp, Asked

LEMMA BootpStep ==
  ASSUME IInv, bootp
  PROVE  IInv'
<1>1. /\ ConfigTypes' /\ PlaceTypes' /\ ExtTypes' /\ WireTypes'
  BY DEF IInv, bootp, Command, NcTypeOK, ConfigTypes, PlaceTypes, ExtTypes, WireTypes, Hosts
<1>2. DhcpTypes'
  BY NamesAssumption, NoIpType
     DEF IInv, bootp, Command, dhcp, NcTypeOK, DhcpTypes, Discover
<1>3. Placed' /\ ReplyHeld'
  BY DEF IInv, bootp, Placed, ReplyHeld, Underway, Fetching
<1> QED
  BY <1>1, <1>2, <1>3, WaitingStep DEF bootp, dhcp, Asked

\* What bootp sends is none of the replies.
LEMMA BroadcastStep ==
  ASSUME IInv, Broadcast, UNCHANGED site
  PROVE  wire' \ Asked' \subseteq wire \ Asked /\ (UNCHANGED leases => WireTypes')
<1> DEFINE p == [what |-> request.what, server |-> request.server, addr |-> request.addr,
                 xid |-> xid]
<1>1. p \in [what : {"discover", "request"}, server : Names, addr : Ips, xid : Nat]
  BY DEF IInv, NcTypeOK, DhcpTypes
<1>2. wire' = wire \cup {p} /\ p.what \in {"discover", "request"}
  BY <1>1 DEF Broadcast
<1> HIDE DEF p
<1>3. wire' \ Asked' \subseteq wire \ Asked
  BY <1>2 DEF Asked
<1>4. UNCHANGED leases => WireTypes'
  BY <1>1, <1>2 DEF IInv, NcTypeOK, WireTypes, Hosts
<1> QED
  BY <1>3, <1>4

LEMMA SendFirstStep ==
  ASSUME IInv, SendFirst
  PROVE  IInv'
<1>1. /\ ConfigTypes' /\ PlaceTypes' /\ DhcpTypes' /\ ExtTypes'
  BY DEF IInv, SendFirst, Returns, config, dhcp, NcTypeOK, ConfigTypes, PlaceTypes,
         DhcpTypes, ExtTypes
<1>2. Placed' /\ ReplyHeld'
  BY DEF IInv, SendFirst, Returns, config, Placed, ReplyHeld, Underway, Fetching
<1>3. WireTypes' /\ wire' \ Asked' \subseteq wire \ Asked
  <2>1. CASE Broadcast
    BY <2>1, BroadcastStep DEF SendFirst
  <2>2. CASE UNCHANGED wire
    BY <2>2 DEF IInv, NcTypeOK, WireTypes, SendFirst, Hosts, Asked
  <2> QED
    BY <2>1, <2>2 DEF SendFirst
<1> QED
  BY <1>1, <1>2, <1>3, WaitingStep DEF SendFirst, config, dhcp

LEMMA SendAgainStep ==
  ASSUME IInv, SendAgain
  PROVE  IInv'
<1>1. /\ ConfigTypes' /\ PlaceTypes' /\ DhcpTypes' /\ ExtTypes'
  BY DEF IInv, SendAgain, config, NcTypeOK, ConfigTypes, PlaceTypes, DhcpTypes, ExtTypes
<1>2. Placed' /\ ReplyHeld'
  BY DEF IInv, SendAgain, config, Placed, ReplyHeld, Underway, Fetching
<1>3. WireTypes' /\ wire' \ Asked' \subseteq wire \ Asked
  <2>1. CASE Broadcast
    BY <2>1, BroadcastStep DEF SendAgain
  <2>2. CASE UNCHANGED wire
    BY <2>2 DEF IInv, NcTypeOK, WireTypes, SendAgain, Hosts, Asked
  <2> QED
    BY <2>1, <2>2 DEF SendAgain
<1>4. ~network_ready'
  BY DEF IInv, SendAgain, config, Placed, Underway
<1> QED
  BY <1>1, <1>2, <1>3, <1>4, WaitingStep DEF SendAgain, config

---------------------------------------------------------------------------
(* Sending to the file server, and the extension file. *)

LEMMA ReadFileStep ==
  ASSUME IInv, ReadFile
  PROVE  IInv'
<1>1. /\ ConfigTypes' /\ PlaceTypes' /\ DhcpTypes' /\ ExtTypes' /\ WireTypes'
  BY DEF IInv, ReadFile, Command, config, dhcp, NcTypeOK, ConfigTypes, PlaceTypes,
         DhcpTypes, ExtTypes, WireTypes, Hosts
<1>2. Placed' /\ ReplyHeld'
  BY DEF ReadFile, Placed, ReplyHeld, Underway, Fetching
<1> QED
  BY <1>1, <1>2, WaitingStep DEF ReadFile, config, dhcp, Asked

LEMMA RequestedExt ==
  ASSUME ExtTypes, NEW node, Requested(node)
  PROVE  ExtTypes' /\ ext'.by = ext.by
<1>1. PICK new \in SUBSET Nat :
        ext' = [ext EXCEPT !.prev = 0, !.retry = 0, !.tp = "rrq", !.out = new]
  <2>1. \A heard \in BOOLEAN :
          (IF heard /\ Arrives(node) THEN {FirstBlock(File)} ELSE {}) \in SUBSET Nat
    BY DEF FirstBlock
  <2> QED
    BY <2>1 DEF Requested
<1> QED
  BY <1>1 DEF ExtTypes

LEMMA AckExt ==
  ASSUME ExtTypes, NEW b \in Nat, NEW prev \in Nat, NEW retry \in Nat, AckSent(b, prev, retry)
  PROVE  ExtTypes' /\ ext'.by = ext.by
<1>1. PICK new \in SUBSET Nat :
        ext' = [ext EXCEPT !.prev = prev, !.retry = retry, !.tp = "ack", !.out = @ \cup new]
  <2>1. \A heard \in BOOLEAN :
          (IF heard /\ Arrives(Node) THEN {b + 1} \cap 1 .. File.blocks ELSE {}) \in SUBSET Nat
    OBVIOUS
  <2> QED
    BY <2>1 DEF AckSent
<1> QED
  BY <1>1 DEF ExtTypes

\* A reply that is being fetched for, and the one that is judged, stay.
LEMMA FetchingStep ==
  ASSUME IInv, UNCHANGED <<site, config, dhcp, request, xid, wire, leases, configured>>,
         PlaceTypes', ExtTypes', Placed', ext'.by = ext.by, Fetching' => Fetching,
         at' = "decide" => at = "decide" \/ Fetching
  PROVE  IInv'
<1>1. ConfigTypes' /\ DhcpTypes' /\ WireTypes'
  BY DEF IInv, config, dhcp, NcTypeOK, ConfigTypes, DhcpTypes, WireTypes, Hosts
<1>2. ReplyHeld'
  BY ReplyKept DEF IInv, SameIps, config, dhcp, Asked
<1> QED
  BY <1>1, <1>2, WaitingStep DEF config, dhcp, Asked

LEMMA TransmitStep ==
  ASSUME IInv, Transmit
  PROVE  IInv'
<1>1. ExtTypes' /\ ext'.by = ext.by
  BY RequestedExt DEF IInv, NcTypeOK, ExtTypes, Transmit
<1>2. PlaceTypes'
  BY DEF IInv, Transmit, TransmitFails, Returns, NcTypeOK, PlaceTypes
<1>3. InTable' = InTable
  BY InTableKept DEF Transmit
<1>4. Placed'
  BY <1>3 DEF IInv, Transmit, TransmitFails, Returns, config, Placed, Underway, Fetching, Nobody
<1>5. /\ Fetching' => Fetching
      /\ at' = "decide" => at = "decide" \/ Fetching
  BY DEF IInv, Placed, Transmit, TransmitFails, Returns, Fetching
<1> QED
  BY <1>1, <1>2, <1>4, <1>5, FetchingStep DEF Transmit

LEMMA ArpInVainStep ==
  ASSUME IInv, NEW key \in BOOLEAN, ArpInVain(key)
  PROVE  IInv'
<1>1. ExtTypes' /\ ext'.by = ext.by
  BY DEF IInv, NcTypeOK, ExtTypes, ArpInVain
<1>2. PlaceTypes'
  BY DEF IInv, ArpInVain, TransmitFails, Returns, NcTypeOK, PlaceTypes
<1>3. InTable' = InTable
  BY InTableKept DEF ArpInVain
<1>4. Placed'
  BY <1>3 DEF IInv, NcTypeOK, PlaceTypes, ArpInVain, TransmitFails, Returns, config, Placed,
              Underway, Fetching
<1>5. /\ Fetching' => Fetching
      /\ at' = "decide" => at = "decide" \/ Fetching
  BY DEF ArpInVain, TransmitFails, Returns, Fetching
<1> QED
  BY <1>1, <1>2, <1>4, <1>5, FetchingStep DEF ArpInVain

LEMMA TftpInVainStep ==
  ASSUME IInv, NEW key \in BOOLEAN, TftpInVain(key)
  PROVE  IInv'
<1>1. ExtTypes' /\ ext'.by = ext.by
  <2>1. ext.prev \in Nat /\ ext.retry + 1 \in Nat
    BY DEF IInv, NcTypeOK, ExtTypes
  <2>3. CASE \E heard \in BOOLEAN :
               ext' = [ext EXCEPT !.retry = @ + 1, !.out =
                         IF heard /\ Arrives(Node) /\ ext.tp = "rrq" THEN {FirstBlock(File)}
                         ELSE {}]
    <3>1. PICK new \in SUBSET Nat : ext' = [ext EXCEPT !.retry = ext.retry + 1, !.out = new]
      <4>1. \A heard \in BOOLEAN :
              (IF heard /\ Arrives(Node) /\ ext.tp = "rrq" THEN {FirstBlock(File)} ELSE {})
              \in SUBSET Nat
        BY DEF FirstBlock
      <4> QED
        BY <2>3, <4>1
    <3> QED
      BY <2>1, <3>1 DEF IInv, NcTypeOK, ExtTypes
  <2>4. CASE AckSent(ext.prev, ext.prev, ext.retry + 1)
    BY <2>1, <2>4, AckExt DEF IInv, NcTypeOK
  <2>5. CASE UNCHANGED ext
    BY <2>5 DEF IInv, NcTypeOK, ExtTypes
  <2> QED
    BY <2>3, <2>4, <2>5 DEF TftpInVain
<1>2. PlaceTypes'
  BY DEF IInv, TftpInVain, NcTypeOK, PlaceTypes
<1>3. Placed'
  BY DEF IInv, TftpInVain, config, Placed, Underway, Fetching
<1>4. /\ Fetching' => Fetching
      /\ at' = "decide" => at = "decide" \/ Fetching
  BY DEF TftpInVain, Fetching
<1> QED
  BY <1>1, <1>2, <1>3, <1>4, FetchingStep DEF TftpInVain

LEMMA ArpAnsweredStep ==
  ASSUME IInv, ArpAnswered
  PROVE  IInv'
<1> USE DEF IInv
<1> DEFINE e == EntryOf(Hop)
<1>1. e \in {"client", "server", "gateway"} /\ arptable[e].ip = Hop
  <2>1. Hop \in {arptable.client.ip, arptable.server.ip, arptable.gateway.ip}
    BY DEF ArpAnswered, Placed, InTable, NcTypeOK, ConfigTypes
  <2> QED
    BY <2>1 DEF EntryOf
<1>2. arptable' = [arptable EXCEPT ![e].node = OwnerOf(arptable[e].ip)]
  BY <1>1 DEF ArpAnswered
<1> HIDE DEF e
<1>3. SameIps /\ ConfigTypes'
  <2>1. OwnerOf(arptable[e].ip) \in Names
    BY OwnerType DEF NcTypeOK
  <2> QED
    BY <1>1, <1>2, <2>1 DEF ArpAnswered, SameIps, NcTypeOK, ConfigTypes, Entries
<1>4. ExtTypes' /\ ext'.by = ext.by
  BY RequestedExt DEF NcTypeOK, ExtTypes, ArpAnswered
<1>5. NcTypeOK'
  BY <1>3, <1>4 DEF ArpAnswered, Returns, dhcp, NcTypeOK, PlaceTypes, DhcpTypes, WireTypes,
                    Hosts
<1>6. Placed'
  BY DEF ArpAnswered, Returns, NcTypeOK, PlaceTypes, Placed, Underway, Fetching
<1>7. WireTrue'
  BY WireKept DEF ArpAnswered, BoundStay, NcTypeOK, Asked
<1>8. ReplyHeld'
  <2>1. (Fetching' => Fetching) /\ (at' = "decide" => at = "decide" \/ Fetching)
    BY DEF ArpAnswered, Returns, Fetching
  <2> QED
    BY <1>3, <1>4, <2>1, ReplyKept DEF ArpAnswered, dhcp, Asked
<1>9. ArpTrue'
  <2>1. \A x \in {"server", "gateway"} :
          arptable'[x].node = IF x = e THEN OwnerOf(arptable[x].ip) ELSE arptable[x].node
    BY <1>1, <1>2 DEF NcTypeOK, ConfigTypes
  <2>2. \A ip : OwnerOf(ip)' = OwnerOf(ip)
    BY DEF ArpAnswered, OwnerOf
  <2> QED
    BY <1>3, <2>1, <2>2 DEF ArpAnswered, ArpTrue, SameIps, Hosts
<1>10. AddressIsLeased'
  BY <1>3, LeasedKept DEF ArpAnswered, dhcp, BoundStay
<1> QED
  BY <1>5, <1>6, <1>7, <1>8, <1>9, <1>10

\* The options of the extension file are those that its reply announced.
LEMMA ParsedStep ==
  ASSUME IInv, at = "tftp", at' = "decide", Parsed, ExtTypes', ext'.by = ext.by,
         UNCHANGED <<site, network_ready, dhcp, request, xid, ip_abort, asker, wire, leases,
                     configured>>
  PROVE  IInv'
<1> USE DEF IInv
<1>1. PICK m \in wire \ Asked : /\ Holds(m) /\ m.what # "nak" /\ m.by = ext.by
                                /\ site.servers[m.by].file # <<>>
                                /\ Based(site.servers[m.by])
  BY DEF ReplyHeld, Fetching
<1>2. m.by \in Hosts /\ File \in FileTypes
  <2>1. m.by \in Hosts
    BY <1>1 DEF NcTypeOK, WireTypes, Asked
  <2> QED
    BY <1>1, <2>1, FileType DEF NcTypeOK
<1>3. ConfigTypes'
  BY <1>2 DEF Parsed, NcTypeOK, ConfigTypes, Entries, FileTypes
<1>4. NcTypeOK'
  BY <1>3 DEF dhcp, NcTypeOK, PlaceTypes, DhcpTypes, WireTypes, Hosts
<1>5. Placed' /\ ~network_ready'
  BY DEF Placed, Underway, Fetching
<1>6. WireTrue'
  BY WireKept DEF BoundStay, NcTypeOK, Asked
<1>7. ReplyHeld'
  <2> DEFINE o == site.servers[m.by]
  <2>1. File = o.file[1] /\ o.file # <<>> /\ Based(o)
    BY <1>1 DEF File
  <2>2. /\ arptable'.client.ip = arptable.client.ip /\ arptable'.server.ip = arptable.server.ip
        /\ arptable'.gateway.ip = IF File.router = NoIp THEN arptable.gateway.ip
                                  ELSE File.router
        /\ netmask' = IF File.mask = NoMask THEN netmask ELSE File.mask
    BY DEF Parsed, NcTypeOK, ConfigTypes, Entries
  <2>3. Configured(o)'
    BY <2>1, <2>2 DEF Based, Configured, Extended
  <2>4. Fields(m)' = o /\ o' = o
    BY <1>1 DEF Fields
  <2>5. Holds(m)' /\ m \in wire' \ Asked'
    BY <1>1 DEF Holds, dhcp, Asked
  <2>6. Configured(Fields(m))'
    BY <2>3, <2>4 DEF Configured
  <2> QED
    BY <2>5, <2>6 DEF ReplyHeld, Fetching
<1>8. ArpTrue'
  <2>1. /\ arptable'.server = arptable.server
        /\ arptable'.gateway.node = arptable.gateway.node
        /\ arptable'.gateway.ip = arptable.gateway.ip
           \/ site.servers[ext.by].file[1].router = arptable'.gateway.ip
    BY DEF Parsed, NcTypeOK, ConfigTypes, Entries, File
  <2>2. \A ip : OwnerOf(ip)' = OwnerOf(ip)
    BY DEF OwnerOf
  <2> QED
    BY <1>1, <1>2, <2>1, <2>2 DEF ArpTrue, Hosts
<1>9. AddressIsLeased'
  BY <1>5, NotReadyIsLeased
<1> QED
  BY <1>4, <1>5, <1>6, <1>7, <1>8, <1>9

LEMMA TftpTakesStep ==
  ASSUME IInv, NEW b \in ext.out, TftpTakes(b)
  PROVE  IInv'
<1>1. b \in Nat /\ ext.prev \in Nat /\ ext.retry \in Nat /\ ExtTypes
  BY DEF IInv, NcTypeOK, ExtTypes
<1>2. ExtTypes' /\ ext'.by = ext.by
  BY <1>1, AckExt DEF TftpTakes, ExtTypes
<1>3. CASE Parsed /\ at' = "decide"
  BY <1>2, <1>3, ParsedStep DEF TftpTakes
<1>4. CASE Unparsed /\ at' \in {"tftp", "decide"}
  <2>1. UNCHANGED config /\ PlaceTypes'
    BY <1>4 DEF IInv, NcTypeOK, PlaceTypes, TftpTakes, Unparsed, config
  <2>2. Placed'
    BY <1>4 DEF IInv, TftpTakes, Placed, Underway, Fetching
  <2>3. Fetching
    BY DEF TftpTakes, Fetching
  <2> QED
    BY <1>2, <2>1, <2>2, <2>3, FetchingStep DEF TftpTakes
<1> QED
  BY <1>3, <1>4 DEF TftpTakes

---------------------------------------------------------------------------
(* Replies. *)

LEMMA TakeReplyStep ==
  ASSUME IInv, NEW m \in wire \ Asked, TakeReply(m)
  PROVE  IInv'
<1> USE DEF IInv
<1> DEFINE f == Fields(m)
<1>1. /\ m.by \in Hosts /\ m.by \in Names
      /\ m.what \in {"offer", "ack", "nak", "bootp"}
  <2>1. m.by \in Hosts /\ m.what \in {"offer", "ack", "nak", "bootp"}
    BY DEF NcTypeOK, WireTypes, Asked
  <2> QED
    BY <2>1, ServerType DEF NcTypeOK
<1>2. /\ f.addr \in Ips /\ f.siaddr \in Ips /\ f.giaddr \in Ips
      /\ f.router \in Ips /\ f.mask \in Masks
  BY <1>1, FieldsType DEF NcTypeOK
<1>3. /\ arptable' = [client |-> [arptable.client EXCEPT !.ip = f.addr],
                      server |-> [ip |-> f.siaddr, node |-> NoNode],
                      gateway |-> [ip |-> IF f.router = NoIp THEN f.giaddr ELSE f.router,
                                   node |-> NoNode]]
      /\ netmask' = IF f.mask = NoMask THEN default_netmask ELSE f.mask
      /\ f.file = <<>> => at' = "decide"
      /\ f.file # <<>> => at' = "extension" /\ ext' = [ext EXCEPT !.by = m.by]
      /\ UNCHANGED ext \/ ext' = [ext EXCEPT !.by = m.by]
      /\ dhcp_addr' = f.addr
  BY DEF TakeReply
<1>4. Fields(m)' = f
  BY DEF Fields, TakeReply
<1> HIDE DEF f
<1>5. ConfigTypes'
  <2>1. arptable'.client \in Entries
    BY <1>2, <1>3 DEF NcTypeOK, ConfigTypes, Entries
  <2>2. [ip |-> f.siaddr, node |-> NoNode] \in Entries
    BY <1>2, NamesAssumption DEF Entries, NoNode
  <2>3. [ip |-> IF f.router = NoIp THEN f.giaddr ELSE f.router, node |-> NoNode] \in Entries
    BY <1>2, NamesAssumption DEF Entries, NoNode
  <2>4. netmask' \in Masks
    BY <1>2, <1>3 DEF Masks, default_netmask, NoMask
  <2> QED
    BY <1>3, <2>1, <2>2, <2>3, <2>4 DEF TakeReply, NcTypeOK, ConfigTypes
<1>6. ExtTypes'
  BY <1>1, <1>3 DEF NcTypeOK, ExtTypes
<1>7. DhcpTypes'
  BY <1>1, <1>2, <1>3 DEF TakeReply, NcTypeOK, DhcpTypes
<1>8. NcTypeOK'
  BY <1>3, <1>5, <1>6, <1>7 DEF TakeReply, NcTypeOK, PlaceTypes, WireTypes, Hosts
<1>9. Placed'
  BY <1>3 DEF TakeReply, Placed, Underway, Fetching
<1>10. WireTrue'
  BY WireKept DEF TakeReply, BoundStay, NcTypeOK, Asked
<1>11. ReplyHeld'
  <2>1. Holds(m)' /\ m \in wire' \ Asked'
    BY DEF TakeReply, Holds, Asked
  <2>2. f.file # <<>> => m.what # "nak" /\ f = site.servers[m.by] /\ ext'.by = m.by
    BY <1>3 DEF Fields, f, NcTypeOK, ExtTypes
  <2>3. Based(f)' /\ Configured(f)'
    BY <1>3, <1>4 DEF Based, Configured, NcTypeOK, ConfigTypes, Entries, f
  <2>4. CASE f.file = <<>>
    <3>1. Configured(Fields(m))'
      BY <1>4, <2>3 DEF Configured, f
    <3> QED
      BY <1>3, <2>1, <2>4, <3>1 DEF ReplyHeld, Fetching
  <2>5. CASE f.file # <<>>
    <3>1. site' = site
      BY DEF TakeReply
    <3>2. at' = "extension" /\ m.what # "nak" /\ m.by = ext'.by
      BY <1>3, <2>2, <2>5
    <3>3. f' = site'.servers[m.by] /\ site'.servers[m.by].file # <<>>
      BY <1>4, <2>2, <2>5, <3>1 DEF f
    <3>4. Based(site.servers[m.by])'
      BY <2>3, <3>3 DEF Based
    <3> HIDE DEF IInv
    <3> QED
      BY <2>1, <3>2, <3>3, <3>4 DEF ReplyHeld
  <2> QED
    BY <2>4, <2>5
<1>12. ArpTrue'
  BY <1>3 DEF ArpTrue
<1>13. AddressIsLeased'
  BY NotReadyIsLeased DEF TakeReply, Placed, Underway
<1> QED
  BY <1>8, <1>9, <1>10, <1>11, <1>12, <1>13

\* A reply that is accepted is an acknowledgement, or that of a BOOTP server, or
\* the refusal that AddressIsLeased excuses.
LEMMA DecideStep ==
  ASSUME IInv, Decide
  PROVE  IInv'
<1> USE DEF IInv
<1>1. NcTypeOK'
  <2>1. RequestOf(dhcp_server, dhcp_addr)
          \in [what : {"discover", "request"}, server : Names, addr : Ips]
    BY DEF NcTypeOK, DhcpTypes, RequestOf
  <2>2. DhcpTypes'
    BY <2>1 DEF Decide, NcTypeOK, DhcpTypes
  <2> QED
    BY <2>2 DEF Decide, Succeeds, Returns, NcTypeOK, ConfigTypes, PlaceTypes, ExtTypes,
                WireTypes, Hosts
<1>2. Placed' /\ ReplyHeld'
  BY DEF Decide, Succeeds, Returns, Placed, ReplyHeld, Underway, Fetching
<1>3. WireTrue'
  BY WireKept DEF Decide, BoundStay, NcTypeOK, Asked
<1>4. ArpTrue'
  BY ArpKept DEF Decide
<1>5. AddressIsLeased'
  <2>1. CASE ~network_ready'
    BY <2>1, NotReadyIsLeased
  <2>2. CASE network_ready' /\ ~RefusalTaken'
    <3>1. Accepts /\ UNCHANGED <<site, arptable, netmask, leases, dhcp_reply>>
      BY <2>2 DEF Decide, Placed, Underway
    <3>2. PICK m \in wire \ Asked : Holds(m) /\ Configured(Fields(m))
      BY DEF Decide, ReplyHeld
    <3>3. m.by \in Hosts /\ m.what \in {"offer", "ack", "nak", "bootp"}
      BY DEF NcTypeOK, WireTypes, Asked
    <3>4. m.what # "nak"
      <4>1. m.what = "nak" => dhcp_reply = "nak" /\ Fields(m).addr = NoIp
        BY <3>2, ServerType, <3>3 DEF Holds, Fields, NcTypeOK, ServerTypes
      <4> QED
        BY <2>2, <3>1, <3>2, <4>1 DEF RefusalTaken, Configured
    <3>5. m.what # "offer"
      BY <3>1, <3>2 DEF Holds, Accepts, Decide, Placed
    <3>6. Fields(m) = site.servers[m.by]
      BY <3>4 DEF Fields
    <3>7. Configured(site.servers[m.by])
      BY <3>2, <3>6
    <3>8. site.servers[m.by].kind = "dhcp" => leases[m.by] = "bound"
      BY <3>3, <3>4, <3>5 DEF WireTrue
    <3>9. Configured(site.servers[m.by])'
      BY <3>1, <3>7 DEF Configured, Extended
    <3> QED
      BY <3>1, <3>3, <3>8, <3>9 DEF AddressIsLeased, Hosts
  <2>3. CASE RefusalTaken'
    BY <2>3 DEF AddressIsLeased
  <2> QED
    BY <2>1, <2>2, <2>3
<1> QED
  BY <1>1, <1>2, <1>3, <1>4, <1>5

---------------------------------------------------------------------------
(* Servers: an acknowledgement goes out with the address bound, and that stays. *)

LEMMA ServerStep ==
  ASSUME IInv,
         UNCHANGED <<site, config, dhcp, request, xid, ip_abort, at, asker, ext, configured>>,
         WireTypes', WireTrue', wire \ Asked \subseteq wire' \ Asked', BoundStay
  PROVE  IInv'
<1> USE DEF IInv
<1>1. NcTypeOK'
  BY DEF config, dhcp, NcTypeOK, ConfigTypes, PlaceTypes, DhcpTypes, ExtTypes
<1>2. Placed'
  BY InTableKept DEF config, Placed, Underway, Fetching
<1>3. ReplyHeld'
  BY ReplyKept DEF config, dhcp, SameIps, Fetching
<1>4. ArpTrue'
  BY ArpKept DEF config
<1>5. AddressIsLeased'
  BY LeasedKept DEF config, dhcp, SameIps
<1> QED
  BY <1>1, <1>2, <1>3, <1>4, <1>5

LEMMA AnswersStep ==
  ASSUME IInv, NEW s \in Hosts, NEW m \in Asked, NEW what \in {"offer", "ack", "nak", "bootp"},
         NEW lease \in {"free", "offered", "bound", "gone"}, Answers(s, what, m, lease),
         leases[s] = "bound" \/ what = "ack" => lease = "bound",
         what = "bootp" => site.servers[s].kind = "bootp"
  PROVE  IInv'
<1> DEFINE r == Reply(what, m.xid, s)
<1>1. /\ r \in [what : {"offer", "ack", "nak", "bootp"}, by : Hosts, xid : Nat]
      /\ r.what = what /\ r.by = s
  BY DEF IInv, NcTypeOK, WireTypes, Asked, Reply
<1>2. wire' = wire \cup {r} /\ leases' = [leases EXCEPT ![s] = lease] /\ UNCHANGED site
  BY DEF Answers
<1> HIDE DEF r
<1>3. WireTypes'
  BY <1>1, <1>2 DEF IInv, NcTypeOK, WireTypes, Hosts
<1>4. BoundStay
  BY <1>2 DEF IInv, NcTypeOK, WireTypes, BoundStay
<1>5. wire' \ Asked' = (wire \ Asked) \cup {r}
  BY <1>1, <1>2 DEF Asked
<1>6. WireTrue'
  <2> SUFFICES ASSUME NEW n \in wire' \ Asked'
               PROVE  /\ n.what = "ack" => leases'[n.by] = "bound"
                      /\ n.what = "bootp" => site.servers[n.by].kind = "bootp"
    BY <1>2 DEF WireTrue
  <2>1. CASE n = r
    BY <1>1, <1>2, <2>1 DEF IInv, NcTypeOK, WireTypes
  <2>2. CASE n \in wire \ Asked
    <3>1. n.by \in Hosts
      BY <2>2 DEF IInv, NcTypeOK, WireTypes, Asked
    <3> QED
      BY <1>4, <2>2, <3>1 DEF IInv, WireTrue, BoundStay
  <2> QED
    BY <1>5, <2>1, <2>2
<1> QED
  BY <1>3, <1>4, <1>5, <1>6, ServerStep DEF Answers

LEMMA ServersStepStep ==
  ASSUME IInv, ServersStep
  PROVE  IInv'
<1>1. PICK s \in Hosts : \/ \E m \in Asked : \/ Offers(s, m) \/ Binds(s, m) \/ Refuses(s, m)
                                             \/ AnswersBootp(s, m)
                         \/ Withdraws(s)
  BY DEF ServersStep
<1>2. leases[s] \in {"free", "offered", "bound", "gone"}
  BY DEF IInv, NcTypeOK, WireTypes
<1>3. ASSUME NEW m \in Asked, Offers(s, m) PROVE IInv'
  <2>1. CASE leases[s] = "bound"
    BY <1>3, <2>1, AnswersStep DEF Offers
  <2>2. CASE leases[s] # "bound"
    BY <1>3, <2>2, AnswersStep DEF Offers
  <2> QED
    BY <2>1, <2>2
<1>4. ASSUME NEW m \in Asked, Binds(s, m) PROVE IInv'
  BY <1>4, AnswersStep DEF Binds
<1>5. ASSUME NEW m \in Asked, Refuses(s, m) PROVE IInv'
  BY <1>2, <1>5, AnswersStep DEF Refuses
<1>6. ASSUME NEW m \in Asked, AnswersBootp(s, m) PROVE IInv'
  BY <1>2, <1>6, AnswersStep DEF AnswersBootp
<1>7. ASSUME Withdraws(s) PROVE IInv'
  <2>1. /\ leases[s] # "bound"
        /\ \E l \in {"free", "gone"} : leases' = [leases EXCEPT ![s] = l]
        /\ UNCHANGED <<site, wire>>
    BY <1>7 DEF Withdraws
  <2>2. WireTypes' /\ BoundStay
    BY <2>1 DEF IInv, NcTypeOK, WireTypes, BoundStay, Hosts
  <2>3. WireTrue' /\ wire' \ Asked' = wire \ Asked
    BY <2>1, <2>2, WireKept DEF IInv, NcTypeOK, Asked
  <2> QED
    BY <1>7, <2>2, <2>3, ServerStep DEF Withdraws
<1> QED
  BY <1>1, <1>3, <1>4, <1>5, <1>6, <1>7

---------------------------------------------------------------------------

LEMMA StutterStep ==
  ASSUME IInv, UNCHANGED netVars
  PROVE  IInv'
<1>1. WireTypes' /\ WireTrue' /\ BoundStay /\ wire' \ Asked' = wire \ Asked
  BY DEF IInv, NcTypeOK, WireTypes, WireTrue, BoundStay, netVars, Asked, Hosts
<1> QED
  BY <1>1, ServerStep DEF netVars

LEMMA NextIInv == IInv /\ [NcNext]_netVars => IInv'
<1> SUFFICES ASSUME IInv, [NcNext]_netVars PROVE IInv'
  OBVIOUS
<1>1. CASE Commands
  BY <1>1, BootpStep, RarpStep, ReadFileStep, IfconfigStep DEF Commands
<1>2. CASE Proceeds
  BY <1>2, SendFirstStep, SendAgainStep, DecideStep, WaitsInVainStep, RarpInVainStep,
     TransmitStep, ArpInVainStep, TftpInVainStep DEF Proceeds
<1>3. CASE Keys
  BY <1>3, GivesUpStep, ArpInVainStep, TftpInVainStep DEF Keys
<1>4. CASE Hears
  BY <1>4, TakeReplyStep, RarpAnsweredStep, ArpAnsweredStep, TftpTakesStep DEF Hears
<1>5. CASE ServersStep
  BY <1>5, ServersStepStep
<1>6. CASE UNCHANGED netVars
  BY <1>6, StutterStep
<1> QED
  BY <1>1, <1>2, <1>3, <1>4, <1>5, <1>6 DEF NcNext

LEMMA IInvHolds == NcSpec => []IInv
<1> QED
  BY InitIInv, NextIInv, PTL DEF NcSpec

\* The state of the configuration keeps its types (netboot/main.c).
THEOREM NcTypesHold == NcSpec => []NcTypeOK
<1>1. IInv => NcTypeOK
  BY DEF IInv
<1> QED
  BY <1>1, IInvHolds, PTL

\* Whatever servers, files, commands, retries and losses there are, the hardware
\* addresses that udp_transmit uses are those of the owners of the addresses
\* beside them, but for the gateway of an extension file.
THEOREM ArpStaysTrue == NcSpec => []ArpTrue
<1>1. IInv => ArpTrue
  BY DEF IInv
<1> QED
  BY <1>1, IInvHolds, PTL

\* Whatever servers, files, commands, retries and losses there are, bootp leaves
\* the machine with an address that a server gave it, and with the file server,
\* the netmask and the gateway that belong to it, but for the refusal it takes
\* for a reply.
THEOREM AddressStaysLeased == NcSpec => []AddressIsLeased
<1>1. IInv => AddressIsLeased
  BY DEF IInv
<1> QED
  BY <1>1, IInvHolds, PTL
=============================================================================
