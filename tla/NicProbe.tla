------------------------------ MODULE NicProbe ------------------------------
(***************************************************************************)
(* How GRUB finds its network card: the PCI functions that a driver is     *)
(* listed for, then every driver that is linked in, in the order of        *)
(* config.c.  A call that found nothing may be made again; one that found  *)
(* a card is the last.                                                     *)
(*                                                                         *)
(* A machine has a BIOS, PCI functions and at most one ISA card.  A        *)
(* function may be a network card, and the BIOS may have enabled its       *)
(* ports.                                                                  *)
(***************************************************************************)
EXTENDS Naturals, Sequences
LOCAL INSTANCE SequencesExt
LOCAL INSTANCE IsaProbes

CONSTANTS Builds,      \* machines [bios, functions, isa], isa a set of at most one card,
                       \* each with a set of drivers that are linked in
          MaxProbes    \* calls of eth_probe

VARIABLES pnMachine, pnLinked,
          pnEnabled,   \* the functions whose ports answer
          pnTurn,      \* the counter of the ISA card
          pnTodo,      \* the rows still to be tried
          pnNic,       \* what was found
          pnCalls
pnVars == <<pnMachine, pnLinked, pnEnabled, pnTurn, pnTodo, pnNic, pnCalls>>

(***************************************************************************)
(* The tables of config.c: the cards that are listed for a driver, in the  *)
(* order of PCI_NIC, and the order of NIC.                                 *)
(***************************************************************************)
PciKinds ==
  [nepci |-> {"rtl8029"}, a3c90x |-> {"3c905b", "3c900"}, t595 |-> {"3c595", "3c900"},
   eepro100 |-> {"82557"}, epic100 |-> {"epic100"}, lancepci |-> {"pcnet"}, rtl8139 |-> {"rtl8139"},
   otulip |-> {"21040", "21140"}, tulip |-> {"21040", "21140", "pnic", "comet", "dm9102", "dm9009"},
   davicom |-> {"dm9102", "dm9009"}, rhine |-> {"rhine"}, w89c840 |-> {"w89c840"},
   sis900 |-> {"sis900", "sis630"}, natsemi |-> {"dp83815"}]
PCI_NIC == <<"nepci", "a3c90x", "t595", "eepro100", "epic100", "lancepci", "rtl8139", "otulip",
             "tulip", "davicom", "rhine", "w89c840", "sis900", "natsemi">>
NIC == <<"rtl8139", "sis900", "natsemi", "wd", "t503", "ne", "t509", "t529", "t595", "a3c90x",
         "eepro", "eepro100", "epic100", "otulip", "tulip", "davicom", "ne2100", "ni6510", "sk_g16",
         "t507", "ni5010", "ni5210", "exos205", "smc9000", "tiara", "depca", "nepci", "lancepci",
         "rhine", "w89c840">>
PciDrivers == DOMAIN PciKinds

pci_nic_list(linked) == UNION {PciKinds[d] : d \in linked \cap PciDrivers}
Found(machine, linked) == eth_pci_init(machine.bios, machine.functions, pci_nic_list(linked))
\* The rows of a call, in order, with the table they are in.
Rows(table, drivers) == SelectSeq(table, LAMBDA d : d \in drivers)
RowsOfCall(machine, linked) ==
  LET listed == {d \in linked \cap PciDrivers : Found(machine, linked).id \in PciKinds[d]}
  IN  Rows(PCI_NIC, listed) \o Rows(NIC, linked)

(***************************************************************************)
(* What a driver makes of a PCI card.  Most of them see to it first that   *)
(* its ports answer.                                                       *)
(***************************************************************************)
\* The one of the Winbond card looks at the identity before that.
Adjusts(driver, p) ==
  /\ p # NoDevice
  /\ driver = "w89c840" => p.id = "w89c840"
  /\ driver \in {"rtl8139", "natsemi", "sis900", "tulip", "w89c840", "eepro100", "a3c90x", "lancepci"}
PciProbe(driver, card, bridge) ==
  CASE driver = "nepci" -> nepci_probe(card)
    [] driver = "a3c90x" -> a3c90x_probe(card)
    [] driver = "t595" -> t595_probe(card)
    [] driver = "eepro100" -> eepro100_probe(card)
    [] driver = "epic100" -> epic100_probe(card)
    [] driver = "lancepci" -> lancepci_probe(card)
    [] driver = "rtl8139" -> rtl8139_probe(card)
    [] driver = "otulip" -> otulip_probe(card)
    [] driver = "tulip" -> tulip_probe(card)
    [] driver = "davicom" -> davicom_probe(card)
    [] driver = "rhine" -> rhine_probe(card)
    [] driver = "w89c840" -> w89c840_probe(card)
    [] driver = "sis900" -> sis900_probe(card, bridge)
    [] driver = "natsemi" -> natsemi_probe(card)

\* The chip of another driver has other registers: nobody knows what they hold
\* when a driver does not look at the identity first.
ForeignOutcomes(driver) ==
  LET silent == PciProbe(driver, Silent, FALSE)
  IN  IF driver \in {"tulip", "w89c840"} \/ silent.outcome = "takes" THEN {silent}
      ELSE {silent, Takes(AllOnes, NoPhy)}

IsaKinds ==
  [wd |-> "wd", t503 |-> "3c503", ne |-> "ne", nepci |-> "ne", t509 |-> "3c509", t529 |-> "3c509",
   eepro |-> "eepro", ne2100 |-> "ne2100", ni6510 |-> "ni6510", sk_g16 |-> "sk_g16",
   t507 |-> "3c507", ni5010 |-> "ni5010", ni5210 |-> "ni5210", exos205 |-> "exos205",
   smc9000 |-> "smc9000", tiara |-> "tiara", depca |-> "depca"]
IsaProbe(driver, card, turn) ==
  CASE driver = "wd" -> wd_probe(card)
    [] driver = "t503" -> t503_probe(card)
    [] driver \in {"ne", "nepci"} -> ne_probe(card)
    [] driver = "t509" -> t509_probe(card)
    [] driver = "t529" -> t529_probe(card)
    [] driver = "eepro" -> eepro_probe(card, turn)
    [] driver = "ne2100" -> ne2100_probe(card)
    [] driver = "ni6510" -> ni6510_probe(card)
    [] driver = "sk_g16" -> SK_probe(card)
    [] driver = "t507" -> t507_probe(card)
    [] driver = "ni5010" -> ni5010_probe(card, turn)
    [] driver = "ni5210" -> ni5210_probe(card)
    [] driver = "exos205" -> exos205_probe(card)
    [] driver = "smc9000" -> smc9000_probe(card)
    [] driver = "tiara" -> tiara_probe(card)
    [] driver = "depca" -> depca_probe(card, turn)
IsaFound(driver) == {c \in pnMachine.isa : driver \in DOMAIN IsaKinds /\ c.kind = IsaKinds[driver]}

(***************************************************************************)
(* Without a PCI card the PCI drivers of NIC return at once; but the one   *)
(* of the RTL8139 has no such test, and the one of PCI NE2000s looks at    *)
(* the ports of ISA cards.                                                 *)
(***************************************************************************)
Outcomes(driver) ==
  LET p == Found(pnMachine, pnLinked)
      card == IF p.id \notin PciKinds[driver] \/ ~(Adjusts(driver, p) \/ p \in pnEnabled) THEN Silent
              ELSE p.card
  IN  IF driver \in PciDrivers /\ p # NoDevice
      THEN IF p.id \in PciKinds[driver]
           THEN {PciProbe(driver, card, ScannedWithoutPorts(pnMachine.functions, IsaBridge))}
           ELSE ForeignOutcomes(driver)
      ELSE IF driver = "rtl8139" THEN {rtl8139_probe(Silent)}
      ELSE IF IsaFound(driver) = {} THEN {Refuses}
      ELSE {IsaProbe(driver, c, pnTurn) : c \in IsaFound(driver)}

Nobody == [state |-> "none", driver |-> "none", addr |-> NoAddress, phy |-> NoPhy]

PnInit ==
  /\ \E build \in Builds : pnMachine = build.machine /\ pnLinked = build.linked
  /\ pnEnabled = {f \in pnMachine.functions : f.on}
  /\ pnTurn \in UNION {IF c.kind = "eepro" THEN 0 .. 3
                       ELSE IF c.kind \in {"depca", "ni5010"} THEN {0, 7, 24, 25, 31} ELSE {0}
                       : c \in pnMachine.isa} \cup (IF pnMachine.isa = {} THEN {0} ELSE {})
  /\ pnTodo = <<>> /\ pnNic = Nobody /\ pnCalls = 0

\* A command that needs the network, when there is a card already and when not.
eth_probe ==
  /\ pnCalls < MaxProbes /\ pnNic.state \in {"none", "taken"} /\ pnCalls' = pnCalls + 1
  /\ IF pnNic.state = "taken" THEN UNCHANGED <<pnTodo, pnNic>>
     ELSE pnTodo' = RowsOfCall(pnMachine, pnLinked) /\ pnNic' = [Nobody EXCEPT !.state = "probing"]
  /\ UNCHANGED <<pnMachine, pnLinked, pnEnabled, pnTurn>>

TryDriver ==
  /\ pnNic.state = "probing" /\ pnTodo # <<>>
  /\ LET driver == Head(pnTodo)
         p == Found(pnMachine, pnLinked)
     IN  /\ \E result \in Outcomes(driver) :
              CASE result.outcome = "takes" ->
                     /\ pnNic' = [state |-> "taken", driver |-> driver, addr |-> result.addr, phy |-> result.phy]
                     /\ pnTodo' = <<>>
                [] result.outcome = "refuses" -> pnTodo' = Tail(pnTodo) /\ UNCHANGED pnNic
                [] result.outcome = "hangs" ->
                     pnNic' = [Nobody EXCEPT !.state = "hung", !.driver = driver] /\ pnTodo' = <<>>
         /\ pnEnabled' = IF Adjusts(driver, p) THEN adjust_pci_device(pnEnabled, p) ELSE pnEnabled
         \* Two reads of the counter.
         /\ pnTurn' = IF driver = "eepro" /\ IsaFound(driver) # {} THEN (pnTurn + 2) % 4 ELSE pnTurn
  /\ UNCHANGED <<pnMachine, pnLinked, pnCalls>>

NoneLeft ==
  /\ pnNic.state = "probing" /\ pnTodo = <<>>
  /\ pnNic' = Nobody
  /\ UNCHANGED <<pnMachine, pnLinked, pnEnabled, pnTurn, pnTodo, pnCalls>>

PnNext == eth_probe \/ TryDriver \/ NoneLeft

(***************************************************************************)
(* Properties.                                                             *)
(***************************************************************************)
\* The PCI cards that a driver reads the address of as their maker wrote it.
Ordinary(card) == card.rom = "own" /\ card.width = 6
ReadsWell(driver, card) ==
  CASE driver \in {"nepci", "epic100", "lancepci", "rhine"} -> TRUE
    [] driver \in {"a3c90x", "t595", "eepro100"} -> card.rom = "own"
    [] driver = "rtl8139" -> Ordinary(card) \/ card.rom = "blank"
    [] driver = "tulip" -> \/ card.id \in {"21040", "pnic", "comet"}
                           \/ card.id \in {"21140", "dm9102"} /\ card.rom # "blank" /\ card.width = 6
    [] driver = "otulip" -> card.id = "21140" /\ Ordinary(card)
    [] driver = "sis900" -> card.phy # NoPhy /\ (Ordinary(card) \/ card.id = "sis630")
    [] driver \in {"davicom", "w89c840", "natsemi"} -> Ordinary(card)
\* A driver that does not enable the ports depends on the BIOS for that; the
\* address of a SiS 630 is reached through the bridge.
Suits(driver, p) ==
  /\ p # NoDevice /\ p.id \in PciKinds[driver] /\ ReadsWell(driver, p.card)
  /\ p.on \/ Adjusts(driver, p)
  /\ p.id = "sis630" => ScannedWithoutPorts(pnMachine.functions, IsaBridge)
\* The transceiver that a driver found, where it uses one.  To the DM9102's a
\* line that nothing drives is a link, too.
RightPhy(driver, card) ==
  CASE driver = "sis900" \/ (driver = "tulip" /\ card.id \in {"21140", "dm9102", "pnic"}) -> pnNic.phy = card.phy
    [] driver = "w89c840" -> pnNic.phy = (IF card.phy = 0 THEN NoPhy ELSE card.phy)
    [] driver = "davicom" -> (pnNic.phy = 1) = (card.id = "dm9102")
    [] OTHER -> TRUE
\* The other drivers for a card come later: one that takes it stands before
\* those that would read it well.
First(driver, p) ==
  \A d \in pnLinked \cap PciDrivers :
    Suits(d, p) => \E i, j \in DOMAIN PCI_NIC : PCI_NIC[i] = driver /\ PCI_NIC[j] = d /\ i < j
\* Drivers that wait for a card to become ready, for ever if it is not theirs.
Waiting == {"a3c90x", "t595", "rhine"}

\* ProbesCards.  The network card that eth_probe settles on is one that is
\* there, with its own address and its own transceiver, whatever lines the
\* driver moves to read them; and it does not give up while there is a card
\* that a driver in the build reads.  The exceptions are few: a driver that
\* stands first for a card but does not read it (a blank or wider EEPROM, ports
\* that neither the BIOS nor the driver enabled) takes it with a wrong address
\* or waits for it without end; the RTL8139 driver takes port 0 if no PCI card
\* was found; and a counter of the EtherExpress that is about to wrap hides
\* that card from one call.
ProbesCards ==
  LET p == Found(pnMachine, pnLinked)
      d == pnNic.driver
  IN  CASE pnNic.state = "taken" ->
             \/ d \in PciDrivers /\ Suits(d, p) /\ pnNic.addr = p.card.addr /\ RightPhy(d, p.card)
             \/ \E c \in IsaFound(d) : c.sound /\ pnNic.addr = c.addr
             \/ d = "rtl8139" /\ p = NoDevice
             \/ d \in PciDrivers /\ p # NoDevice /\ ~Suits(d, p) /\ First(d, p)
        [] pnNic.state = "hung" -> d \in Waiting /\ ~Suits(d, p) /\ First(d, p)
        [] pnNic.state = "none" /\ pnCalls > 0 ->
             /\ \A e \in pnLinked \cap PciDrivers : ~Suits(e, p)
             /\ \A e \in pnLinked : \A c \in IsaFound(e) : c.sound => c.kind = "eepro" /\ pnCalls = 1
        [] OTHER -> TRUE
=============================================================================
