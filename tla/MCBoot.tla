------------------------------- MODULE MCBoot -------------------------------
(***************************************************************************)
(* What goes on by itself once the machine is on: the menu of three entries *)
(* that is booted from, the commands that load and boot, and the network    *)
(* cards below.  These are independent of each other: part says which of    *)
(* them a behaviour is about.                                               *)
(***************************************************************************)
EXTENDS MCMenu, Loading, Nic, NicProbe
Pci == INSTANCE PciProbes

---------------------------------------------------------------------------
(* Files for Loading: a machine with 640 KB and 3 MB above 1 MB.             *)
\* Kernels: two segments with symbols, one of them cut short; a segment below
\* 1 MB; a symbol table that is cut short; one segment of its own; a.out, cut
\* short too; Linux, of the largest size for a zImage, one that leaves its
\* real-mode part no room, with a long real-mode part, in a list of blocks.
File(name, format, type) ==
  [name |-> name, format |-> format, type |-> type, fault |-> "none", short |-> 0,
   segments |-> <<>>, at |-> MB, text |-> 0, data |-> 0, bss |-> 0, align |-> TRUE,
   tables |-> <<>>, setup |-> 10, big |-> TRUE, old |-> FALSE, blocks |-> FALSE, max |-> 3670016]
Tables(has) == <<[size |-> 2, has |-> 2], [size |-> 5, has |-> has]>>
Elf == [File("elf", "elf", "multiboot") EXCEPT
  !.segments = <<Part(MB + 64, 100, 120), Part(MB, 60, 60)>>, !.tables = Tables(5)]
ElfCut == [Elf EXCEPT !.name = "elfcut", !.short = 1]
ElfLow == [Elf EXCEPT !.name = "elflow", !.segments = <<Part(256, 10, 10), Part(MB, 60, 60)>>,
                      !.tables = Tables(4)]
Kludge == [File("kludge", "kludge", "multiboot") EXCEPT !.text = 90, !.bss = 20]
Aout == [File("aout", "aout", "netbsd") EXCEPT !.text = 90, !.data = 10, !.bss = 5,
           !.tables = Tables(5)]
AoutCut == [Aout EXCEPT !.name = "aoutcut", !.short = 2, !.type = "freebsd"]
LinuxFile(name, text) == [File(name, "linux", "linux") EXCEPT !.text = text]
ZImage == [LinuxFile("zimage", 2048) EXCEPT !.big = FALSE]
ZTooBig == [ZImage EXCEPT !.name = "ztoobig", !.text = 2049]
BzImage == LinuxFile("bzimage", 6000)
Tight == LinuxFile("tight", 12288 - 40)
LongSetup == [BzImage EXCEPT !.name = "long", !.setup = 60]
Blocks == [Tight EXCEPT !.name = "blocks", !.text = 12288 - 5, !.blocks = TRUE]
NoFormat == File("noformat", "other", "none")

Kern(f, mem) == [file |-> f, args |-> "a", len |-> 3, mem |-> mem, type |-> "none"]
AllKernels ==
  {Kern(f, 0) : f \in {Elf, ElfCut, ElfLow, Aout, AoutCut, ZImage, ZTooBig, BzImage,
                       Tight, LongSetup, Blocks, NoFormat}}
  \cup {Kern(BzImage, MB + 8000), [Kern(Kludge, 0) EXCEPT !.args = "b"],
        [Kern(ZImage, 0) EXCEPT !.type = "biglinux"], [Kern(Elf, 0) EXCEPT !.type = "bad"]}
MCKernelCommands == AllKernels

\* Modules, and initial disks: one that fits, one that does not, one of all memory.
Mod(name, size, args) == [file |-> [name |-> name, size |-> size], args |-> args, len |-> 3]
AllModules == {Mod("m", 100, "c"), Mod("n", 5000, "d"), Mod("empty", 0, "c"),
                     Mod("huge", 12200, "c"), Mod("all", MB + 12288 - 100, "d")}
MCModuleCommands == AllModules

ChainFile(name, sort) == [name |-> name, sort |-> sort, drive |-> 129, long |-> sort \notin {"sector", "unsigned"},
                          volume0 |-> FALSE]
Chainload(f) == [file |-> f, at |-> Default, drive |-> Default, raw |-> FALSE, force |-> FALSE, bad |-> FALSE]
AllChains ==
  LET sector == ChainFile("sector", "sector")
      mbr == [ChainFile("mbr", "sector") EXCEPT !.volume0 = TRUE]
  IN  {Chainload(ChainFile(s, s)) : s \in {"unsigned", "freedos", "msdos", "ntldr", "isolinux", "cd", "cdhard",
                                       "cdflat", "other"}}
      \cup {Chainload(sector), Chainload(mbr), [Chainload(mbr) EXCEPT !.drive = 128], [Chainload(mbr) EXCEPT !.drive = 0],
            [Chainload(sector) EXCEPT !.bad = TRUE, !.at = Far(4096, 0)],
            [Chainload(ChainFile("unsigned", "unsigned")) EXCEPT !.force = TRUE, !.raw = TRUE],
            [Chainload(ChainFile("ntldr", "ntldr")) EXCEPT !.at = Far(4096, 0)]}
MCChainCommands == AllChains
MCDrives == {0, 128}

---------------------------------------------------------------------------
(* Machines for NicProbe, each with builds that have every driver, one of    *)
(* its own, or others beside it.                                             *)

Mac == <<0, 160, 204, 58, 113, 250>>
Card(id) == [id |-> id, addr |-> Mac, rom |-> "own", width |-> 6, phy |-> 1]
Slot(dev, fn, multi, card) ==
  [bus |-> 0, dev |-> dev, fn |-> fn, multi |-> multi, id |-> card.id, io |-> 61440 + 256 * dev, on |-> TRUE, card |-> card]
Other(dev, fn, multi, id) == [Slot(dev, fn, multi, Card(id)) EXCEPT !.io = 0]
Bios32 == [sums |-> TRUE, revision |-> 0, service |-> 0, present |-> TRUE, low |-> TRUE]
Pc(functions) == [bios |-> <<Bios32>>, functions |-> functions, isa |-> {}]
OnlyCard(card) == Pc({Slot(9, 0, FALSE, card)})

Ids == UNION {PciKinds[d] : d \in PciDrivers}
Plain == {OnlyCard(Card(id)) : id \in Ids} \cup {Pc({Slot(9, 0, FALSE, Card("sis630")), Other(2, 0, FALSE, Pci!IsaBridge)})}
\* Cards that a driver may not read.
Odd ==
  {OnlyCard([Card(id) EXCEPT !.width = 8]) : id \in {"82557", "sis900", "21140", "3c905b"}}
  \cup {OnlyCard([Card(id) EXCEPT !.rom = "blank"]) : id \in {"rtl8139", "sis900", "21140", "dm9102"}}
  \cup {OnlyCard([Card("21140") EXCEPT !.rom = r]) : r \in {"twice", "third", "swapped"}}
  \cup {OnlyCard([Card(id) EXCEPT !.phy = n]) : id \in {"sis900", "21140", "w89c840", "dm9102", "epic100"}, n \in {0, 31, Pci!NoPhy}}
  \cup {Pc({[Slot(9, 0, FALSE, Card(id)) EXCEPT !.on = FALSE]}) : id \in {"rtl8139", "3c595", "21140", "dm9102", "rhine", "rtl8029"}}
\* Where a card may be, and what may be wrong with the BIOS.
Placed ==
  LET card == Card("rtl8139")
      bad  == [Bios32 EXCEPT !.sums = FALSE]
  IN  {Pc({Slot(9, 1, FALSE, card), Other(9, 0, multi, "usb")}) : multi \in BOOLEAN}
      \cup {Pc({Slot(9, 2, FALSE, card), Other(9, 0, TRUE, "usb")}), Pc({Slot(31, 7, FALSE, card)}),
            Pc({Slot(9, 0, FALSE, card), Slot(11, 0, FALSE, Card("82557"))}),
            Pc({[Slot(3, 0, FALSE, card) EXCEPT !.io = 0], Slot(9, 0, FALSE, card)})}
      \cup {[OnlyCard(card) EXCEPT !.bios = b] :
              b \in {<<>>, <<bad, Bios32>>, <<[Bios32 EXCEPT !.low = FALSE], Bios32>>,
                     <<[Bios32 EXCEPT !.revision = 1]>>, <<[Bios32 EXCEPT !.service = 128]>>}}

Isa(kind, port, form) == [kind |-> kind, port |-> port, addr |-> Mac, form |-> form, sound |-> TRUE]
Bad(card) == [card EXCEPT !.sound = FALSE]
El3(bus, port) == [Isa("3c509", port, [bus |-> bus, slot |-> port \div 4096, cfg |-> IF bus = "eisa" THEN 31 ELSE (port - 512) \div 16,
                                       pos4 |-> port \div 256, prod |-> IF bus = "mca" THEN 25334 ELSE 37200,
                                       connector |-> "aui", has |-> {"utp", "aui"}]) EXCEPT !.sound = TRUE]
IsaCards ==
  {Isa("wd", 640, [board |-> 41]), Bad(Isa("wd", 640, [board |-> 49])), Isa("wd", 992, [board |-> 3]),
   Isa("3c503", 736, [bcfr |-> 1, pcfr |-> 128]), Bad(Isa("3c503", 736, [bcfr |-> 1, pcfr |-> 1])),
   Isa("ne", 768, [memory |-> 8192]), Isa("ne", 832, [memory |-> 16384]), Bad(Isa("ne", 864, [memory |-> 16384])),
   Isa("eepro", 768, [reg |-> 10]), Isa("eepro", 864, [reg |-> 11]),
   El3("isa", 768), El3("eisa", 12288), El3("mca", 12800), Bad([El3("isa", 768) EXCEPT !.form.connector = "bnc"]),
   Isa("ne2100", 768, [at14 |-> 87, at15 |-> 87]), Isa("ni6510", 864, [at14 |-> 0, at15 |-> 85]),
   Isa("sk_g16", 800, {}), Isa("3c507", 640, {}), Isa("ni5010", 928, {}),
   Isa("ni5210", 864, [memory |-> 835584]), Bad(Isa("ni5210", 632, [memory |-> 835584])),
   Isa("exos205", 784, [memory |-> 835584]),
   Isa("smc9000", 768, [base |-> 6145, revision |-> 51]), Bad(Isa("smc9000", 768, [base |-> 6401, revision |-> 51])),
   [Isa("tiara", 256, {}) EXCEPT !.addr = <<8, 0, 26, 58, 113, 250>>], Bad(Isa("tiara", 256, {})),
   Isa("depca", 512, {})}

\* The driver of an MCA card is not the one of the others.
IsaDrivers(c) == {d \in DOMAIN IsaKinds : IsaKinds[d] = c.kind} \ (IF c.kind = "3c509" /\ c.form.bus = "mca" THEN {"t509"} ELSE {})
AllDrivers == PciDrivers \cup DOMAIN IsaKinds
AllBuilds ==
  {[machine |-> m, linked |-> linked] : m \in Plain \cup Odd \cup Placed,
     linked \in {AllDrivers, AllDrivers \ {"otulip", "a3c90x"}, {"rtl8139"}, {"sis900", "natsemi", "davicom"}}}
  \cup {[machine |-> [Pc({}) EXCEPT !.isa = {c}], linked |-> linked] : c \in IsaCards,
     linked \in {AllDrivers, AllDrivers \ {"rtl8139"}, {"ne", "wd"}}}
  \cup {[machine |-> [Pc({}) EXCEPT !.isa = {c}], linked |-> IsaDrivers(c)] : c \in IsaCards}
MCBuilds == AllBuilds

---------------------------------------------------------------------------
(* The parts beside each other.                                              *)
VARIABLE part
partVars == <<part, vars, loadVars, rxVars, txVars, pnVars>>

WhichParts == {"menu", "load", "receive", "transmit", "probe"}

\* No machine at all.
PnPinned ==
  /\ pnMachine = [bios |-> <<>>, functions |-> {}, isa |-> {}] /\ pnLinked = {} /\ pnEnabled = {}
  /\ pnTurn = 0 /\ pnTodo = <<>> /\ pnNic = Nobody /\ pnCalls = 0
MCInit ==
  /\ part \in WhichParts
  /\ Init /\ (part # "menu" => /\ config = CHOOSE c \in Configs : TRUE
                               /\ health = CHOOSE h \in Healths : TRUE)
  /\ LoadInit /\ (part # "load" => saved_drive = 0)
  /\ RxInit /\ (part # "receive" => rxNic = "tulip" /\ rxAt = 0)
  /\ TxInit /\ (part # "transmit" => txNic = "tulip")
  /\ IF part = "probe" THEN PnInit ELSE PnPinned
\* A step of part p is none of the others.
Alone(p) ==
  /\ part = p /\ UNCHANGED part
  /\ p # "menu" => UNCHANGED vars
  /\ p # "load" => UNCHANGED loadVars
  /\ p # "receive" => UNCHANGED rxVars
  /\ p # "transmit" => UNCHANGED txVars
  /\ p # "probe" => UNCHANGED pnVars
\* Frames run out, and a kernel is in charge; the menu may not come to an end.
Rest == part # "menu" /\ UNCHANGED partVars
\* One frame less is enough for the drivers that never free what a call finds in
\* use: epic100 does so at the third frame, and its card may then be in between.
FifthFrame == txAsked' = MaxAsked => txNic = "epic100"
MCNext ==
  \/ /\ UNCHANGED part
     /\ \/ part = "menu" /\ Next /\ UNCHANGED <<loadVars, rxVars, txVars, pnVars>>
        \/ part = "load" /\ LoadNext /\ UNCHANGED <<vars, rxVars, txVars, pnVars>>
        \/ part = "receive" /\ RxNext /\ UNCHANGED <<vars, loadVars, txVars, pnVars>>
        \/ part = "transmit" /\ TxNext /\ FifthFrame /\ UNCHANGED <<vars, loadVars, rxVars, pnVars>>
        \/ part = "probe" /\ PnNext /\ UNCHANGED <<vars, loadVars, rxVars, txVars>>
  \/ Rest

MCSpec ==
  /\ MCInit /\ [][MCNext]_partVars
  /\ WF_partVars((RunMenuCommands \/ ParseFallback \/ ValidateFallback \/ ChooseDefault) /\ Alone("menu"))
  /\ WF_partVars(CountDown /\ Alone("menu"))
  /\ WF_partVars((pc = "run" /\ Boots) /\ Alone("menu"))
  /\ WF_partVars(((ran \in Entries => health[ran] = "crashes") /\ Reset) /\ Alone("menu"))
  /\ WF_partVars(RxStep /\ Alone("receive")) /\ WF_partVars(eth_poll /\ Alone("receive"))
  /\ SF_partVars(Asks /\ Alone("receive"))
  /\ WF_partVars(CardWorks /\ Alone("transmit")) /\ WF_partVars(TxStep /\ Alone("transmit"))
=============================================================================
