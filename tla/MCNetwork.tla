----------------------------- MODULE MCNetwork -----------------------------
(***************************************************************************)
(* The network: the transfer of files (Tftp), and how the machine gets its  *)
(* address (NetConfig), which part says a behaviour is about.  Networks to  *)
(* stand in: the machine is to have 1.1.5 or 1.1.6, one file server is on   *)
(* the same net, another behind a router.                                   *)
(***************************************************************************)
EXTENDS MCTftp, NetConfig, TLC

VARIABLE part
partVars == <<part, vars, netVars>>

Net(a, b) == <<1, a, b>>
Near == Net(1, 1)
Far == Net(2, 1)
Router == Net(1, 8)
Exit == Net(1, 7)
Owners == Near :> "near" @@ Far :> "far" @@ Router :> "router" @@ Exit :> "exit"

Server(kind, addr, siaddr, giaddr, mask, router, files) ==
  [kind |-> kind, addr |-> addr, siaddr |-> siaddr, giaddr |-> giaddr, mask |-> mask,
   router |-> router, file |-> files]
Extension(blocks, oack, cookie, fits, mask, router) ==
  <<[blocks |-> blocks, oack |-> oack, cookie |-> cookie, fits |-> fits, mask |-> mask,
     router |-> router]>>
Site(servers, commands) ==
  [servers |-> servers, commands |-> commands,
   owners |-> Owners, routers |-> {"router", "exit"}]

NearServer == Server("dhcp", Net(1, 5), Near, NoIp, 2, Router, <<>>)
FarServer == Server("dhcp", Net(1, 6), Far, Exit, NoMask, NoIp, <<>>)
OldServer == Server("bootp", Net(1, 5), Near, Exit, NoMask, NoIp, <<>>)
RarpServer == Server("rarp", Net(1, 5), Near, NoIp, NoMask, NoIp, <<>>)
WithFile(o, f) == [o EXCEPT !.file = f]
ExtensionFiles ==
  {Extension(2, "none", TRUE, 2, 2, Router), Extension(2, "granted", TRUE, 2, NoMask, Router),
   Extension(1, "refused", TRUE, 1, 2, Router), Extension(1, "none", FALSE, 1, 2, Router),
   Extension(2, "none", TRUE, 1, 2, Router)}

MCSites ==
  {Site("one" :> NearServer @@ "two" :> FarServer, <<{"bootp"}, {"files"}>>),
   Site("one" :> FarServer @@ "two" :> OldServer, <<{"bootp"}, {"bootp"}>>),
   Site("one" :> RarpServer @@ "two" :> NearServer,
        <<{"ifconfig", "rarp"}, {"files", "ifconfig"}, {"ifconfig", "rarp"}, {"files"}>>),
   Site("one" :> [FarServer EXCEPT !.mask = 2],
        <<{"bootp"}, {"files"}, {"ifconfig"}, {"files"}>>)}
  \cup {Site("one" :> WithFile([FarServer EXCEPT !.mask = 2], f), <<{"bootp"}, {"files"}>>) :
          f \in ExtensionFiles}
MCNames == {Nobody, Self, "one", "two", "near", "far", "router", "exit"}
\* Every option is left out or given, and any of them is refused.
MCArguments ==
  [sm : {<<>>, <<2>>}, ip : {<<>>, <<Net(1, 6)>>}, gw : {<<>>, <<Exit>>},
   svr : {<<>>, <<Far>>}, read : 0 .. 4]

MCInit ==
  /\ part \in {"transfer", "config"}
  /\ Init /\ (part # "transfer" => granted = [blksize |-> TRUE, tsize |-> FALSE])
  /\ strays = StraysBeside(granted)
  /\ NcInit /\ (part # "config" => site = CHOOSE s \in MCSites : TRUE)
\* A step of part p is none of the other.
Alone(p) ==
  /\ part = p /\ UNCHANGED part
  /\ p # "transfer" => UNCHANGED vars
  /\ p # "config" => UNCHANGED netVars
MCNext ==
  \/ part = "transfer" /\ Opens /\ UNCHANGED <<part, netVars>>
  \/ part = "transfer" /\ Astray /\ UNCHANGED <<part, netVars>>
  \/ part = "transfer" /\ Undisturbed /\ UNCHANGED <<part, netVars, others>>
  \/ part = "config" /\ NcNext /\ UNCHANGED <<part, vars>>
MCSpec ==
  /\ MCInit /\ [][MCNext]_partVars
  /\ WF_partVars(Steps /\ UNCHANGED others /\ Alone("transfer"))
  /\ WF_partVars(Awaits /\ UNCHANGED others /\ Alone("transfer"))
  /\ WF_partVars(Proceeds /\ Alone("config"))

\* Both type invariants.
TypesOK == TypeOK /\ (part = "config" => NcTypeOK)
\* EveryCallEnds.  Every open, read and close of a file and every command that
\* configures the network comes to its end (Tftp.tla, NetConfig.tla).
EveryCallEnds == EveryCallReturns /\ ConfigurationEnds
=============================================================================
