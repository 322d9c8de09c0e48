----------------------------- MODULE PciProbes -----------------------------
(***************************************************************************)
(* How the driver of a PCI card finds out whether the card is there and    *)
(* which address it has.  A probe takes the card, refuses it, or waits for *)
(* a bit that never changes.  Before that, how the network code looks for  *)
(* the card on the PCI bus: through the BIOS service of the machine, and   *)
(* at the functions that answer.                                           *)
(***************************************************************************)
EXTENDS SerialRoms
LOCAL INSTANCE SequencesExt

(***************************************************************************)
(* The BIOS.  A machine has a sequence of structures that look like a      *)
(* BIOS32 directory; PCI goes through the first one that is sound.         *)
(***************************************************************************)
Sound(s) == s.sums /\ s.revision = 0

\* bios32_service: what the directory says of the PCI service, and whether
\* that is one.
check_pcibios(s) == s.service = 0 /\ s.present

\* A first directory above 1 MB ends the search; later ones are not used.
pcibios_init(bios) ==
  LET sound == SelectSeq(bios, Sound)
  IN  sound # <<>> /\ sound[1].low /\ check_pcibios(sound[1])

(***************************************************************************)
(* The functions of a machine's devices.                                   *)
(***************************************************************************)
Beside(f, g, number) == g.bus = f.bus /\ g.dev = f.dev /\ g.fn = number

\* A device without function 0, or one whose header says that there are no
\* more, is not looked at further, and a missing number hides what follows.
LooksAt(functions, f) ==
  /\ <<f.dev, f.fn>> # <<31, 7>>
  /\ f.fn # 0 => \E g \in functions : Beside(f, g, 0) /\ g.multi
  /\ \A number \in 1 .. f.fn - 1 : \E g \in functions : Beside(f, g, number)

Place(f) == 256 * f.bus + 8 * f.dev + f.fn
NoDevice == [id |-> "none", io |-> 0]
IsaBridge == "SiS 5513"

\* The first function whose identity is listed and that has ports.
scan_bus(functions, ids) ==
  LET hits == {f \in functions : LooksAt(functions, f) /\ f.id \in ids /\ f.io # 0}
  IN  IF hits = {} THEN NoDevice
      ELSE CHOOSE f \in hits : \A g \in hits : Place(f) <= Place(g)

\* A match without ports leaves its place in the list: the last one does.
ScannedWithoutPorts(functions, id) ==
  \E f \in functions : LooksAt(functions, f) /\ f.id = id

eth_pci_init(bios, functions, ids) ==
  IF pcibios_init(bios) THEN scan_bus(functions, ids) ELSE NoDevice

\* The card decodes its ports and masters the bus from then on.
adjust_pci_device(enabled, f) == enabled \cup {f}

Takes(addr, phy) == [outcome |-> "takes", addr |-> addr, phy |-> phy]
Refuses == [outcome |-> "refuses"]
Hangs == [outcome |-> "hangs"]
NoPhy == 32

LowFirst(words) == [k \in 1 .. 6 |-> (words[(k + 1) \div 2] \div (IF k % 2 = 1 THEN 1 ELSE 256)) % 256]
HighFirst(words) == [k \in 1 .. 6 |-> (words[(k + 1) \div 2] \div (IF k % 2 = 1 THEN 256 ELSE 1)) % 256]
AllOnes == [k \in 1 .. 6 |-> 255]
NoAddress == [k \in 1 .. 6 |-> 0]

(***************************************************************************)
(* Cards.  A card of kind id has the address addr: in its EEPROM of width  *)
(* address bits, where its maker puts it, or blank, and in the registers   *)
(* that it fills itself; its transceiver answers at phy.  A card that does *)
(* not decode its ports, or is not there, leaves all ones.                 *)
(***************************************************************************)
Silent == [id |-> "none", addr |-> AllOnes, rom |-> "blank", width |-> 6, phy |-> NoPhy]

FromWord(first, words) ==
  [a \in 0 .. 255 |-> IF a \in first .. first + Len(words) - 1 THEN words[a - first + 1] ELSE 33065]
LowWords(b) == [k \in 1 .. Len(b) \div 2 |-> b[2 * k - 1] + 256 * b[2 * k]]
HighWords(b) == [k \in 1 .. Len(b) \div 2 |-> 256 * b[2 * k - 1] + b[2 * k]]
Swapped(b) == [k \in DOMAIN b |-> b[IF k % 2 = 1 THEN k + 1 ELSE k - 1]]
\* The DP83815 keeps the 48 bits, lowest first, from the last bit of word 6 on,
\* and each word with its lowest bit first.
ShiftedWords(b) ==
  LET bits == [n \in 0 .. 63 |-> IF n \in 15 .. 62 THEN Bit(b[(n - 15) \div 8 + 1], (n - 15) % 8) ELSE 0]
  IN  [w \in 1 .. 4 |-> NumberOf([k \in 1 .. 16 |-> bits[16 * (w - 1) + k - 1]])]

Words(card) ==
  CASE card.rom = "blank" -> [a \in 0 .. 255 |-> 65535]
    [] card.rom = "twice" -> FromWord(0, LowWords(card.addr \o <<0, 0>> \o [k \in 1 .. 8 |-> 0] \o card.addr \o <<0, 0>>))
    [] card.rom = "third" -> FromWord(0, LowWords(<<255, 255>> \o card.addr))
    [] card.rom = "swapped" -> FromWord(10, LowWords(Swapped(card.addr)))
    [] card.rom = "own" ->
         CASE card.id = "rtl8139" -> FromWord(7, LowWords(card.addr))
           [] card.id = "dp83815" -> FromWord(6, ShiftedWords(card.addr))
           [] card.id \in {"sis900", "sis630"} -> FromWord(8, LowWords(card.addr))
           [] card.id \in {"w89c840", "82557"} -> FromWord(0, LowWords(card.addr))
           [] card.id \in {"3c905b", "3c900", "3c595"} ->
                [a \in 0 .. 255 |-> IF a \in 10 .. 12 THEN HighWords(card.addr)[a - 9]
                                    ELSE FromWord(0, HighWords(card.addr))[a]]
           [] OTHER -> FromWord(10, LowWords(card.addr))
RomOf(card) == IF card.id = "none" THEN Nothing ELSE Eeprom(Words(card), card.width)
\* The registers of a transceiver: its status is 782d, its first identity 1d.
PhyOf(card) ==
  IF card.phy = NoPhy THEN Nothing
  ELSE Transceiver([reg \in 0 .. 31 |-> CASE reg = 1 -> 30765 [] reg = 2 -> 29 [] OTHER -> 0], card.phy)

(***************************************************************************)
(* Reading words of an EEPROM, as each driver moves the lines.             *)
(***************************************************************************)
Request(width, loc) == MsbFirst(6 * 2^width + loc, width + 5)
\* What most of them do between selecting the chip and letting it go.
Serial(card, before, request, after) ==
  Heard(before \o Clocked(request) \o <<Put(1, 0, 0)>>
        \o Times(16, <<Hear(1, 1, 0), Put(1, 0, 0)>>) \o after, RomOf(card))
rtl8139_read_eeprom(card, loc) ==
  NumberOf(Serial(card, <<Put(0, 0, 0), Put(1, 0, 0)>>, Request(6, loc), <<Put(0, 1, 1)>>))
natsemi_eeprom_read(card, loc) ==
  LsbFirstNumber(Serial(card, <<Put(1, 0, 0)>>, Request(6, loc), <<Put(1, 0, 0), Put(0, 0, 0)>>))
w89c840_eeprom_read(card, loc) ==
  NumberOf(Serial(card, <<Put(1, 0, 0)>>, Request(6, loc), <<Put(0, 0, 0)>>))
davicom_read_eeprom(card, loc) ==
  NumberOf(Serial(card, <<Put(0, 0, 0), Put(1, 0, 0)>>, Request(6, loc), <<Put(0, 0, 0)>>))
tulip_read_eeprom(card, loc, addr_len) ==
  NumberOf(Serial(card, <<Put(0, 0, 0), Put(1, 0, 0)>>, Request(addr_len, loc), <<Put(0, 0, 0)>>))
sis900_read_eeprom_early(card, loc) ==   \* faulty: the answer is heard before the clock rises
  NumberOf(Heard(<<Put(0, 0, 0), Put(0, 1, 0)>> \o Clocked(MsbFirst(6 * 64 + loc, 9)) \o <<Put(1, 0, 0)>>
                 \o Times(16, <<Hear(1, 0, 0), Put(1, 1, 0)>>) \o <<Put(0, 0, 0), Put(0, 1, 0)>>,
                 RomOf(card)))
\* Here the clock stays high between a request and the next falling edge.
sis900_read_eeprom(card, loc) ==
  NumberOf(Heard(<<Put(0, 0, 0), Put(0, 1, 0)>> \o Clocked(MsbFirst(6 * 64 + loc, 9)) \o <<Put(1, 0, 0)>>
                 \o Times(16, <<Put(1, 0, 0), Hear(1, 1, 0)>>) \o <<Put(0, 0, 0), Put(0, 1, 0)>>,
                 RomOf(card)))
\* The request and the answer are one command of 28 bits, heard throughout.
do_eeprom_cmd(card, cmd) ==
  Heard(<<Put(1, 0, 0), Put(1, 1, 0)>>
        \o [k \in 1 .. 56 |-> IF k % 2 = 1 THEN Put(1, 0, Bit(cmd, 27 - k \div 2))
                              ELSE Hear(1, 1, Bit(cmd, 28 - k \div 2))]
        \o <<Put(1, 0, 0), Put(0, 0, 0)>>, RomOf(card))
\* The data line changes between a falling and a rising clock.
srom_idle == <<Put(0, 0, 0), Put(0, 0, 0), Put(1, 0, 0), Put(1, 1, 0)>>
             \o Times(25, <<Put(1, 0, 0), Put(1, 1, 0)>>) \o <<Put(1, 0, 0), Put(0, 0, 0), Put(0, 0, 0)>>
srom_read(card, loc) ==
  LET bits == MsbFirst(6 * 64 + loc, 9)
      last == bits[9]
  IN  NumberOf(Heard(srom_idle \o <<Put(0, 0, 0), Put(0, 0, 0), Put(1, 0, 0), Put(1, 1, 0)>>
                     \o [k \in 1 .. 27 |->
                           LET bit == (k + 2) \div 3
                           IN  CASE k % 3 = 1 -> Put(1, 0, IF bit = 1 THEN 0 ELSE bits[bit - 1])
                                 [] k % 3 = 2 -> Put(1, 0, bits[bit])
                                 [] k % 3 = 0 -> Put(1, 1, bits[bit])]
                     \o <<Put(1, 0, last)>> \o Times(16, <<Hear(1, 1, last), Put(1, 0, last)>>)
                     \o <<Put(0, 0, 0), Put(0, 0, 0)>>, RomOf(card)))

(***************************************************************************)
(* Reading the registers of a transceiver.                                 *)
(***************************************************************************)
Preamble(n) == Times(n, <<Put(1, 0, 1), Put(1, 1, 1)>>)
\* The driver turns the line around itself, and samples before each clock.
sis900_mdio_read(card, phy, reg) ==
  NumberOf(Heard(Preamble(33) \o Clocked(MsbFirst(24576 + 128 * phy + 4 * reg, 16))
                 \o Times(16, <<Hear(0, 0, 0), Put(0, 1, 0)>>), PhyOf(card)))
MiiCommand(phy, reg) == MsbFirst(55296 + 32 * phy + reg, 16)
\* Of the samples the last is dropped and 16 remain.
MiiAnswer(samples) == NumberOf(SubSeq(samples, Len(samples) - 16, Len(samples) - 1))
tulip_mdio_read(card, phy, reg) ==
  MiiAnswer(Heard(Preamble(33) \o Clocked(MiiCommand(phy, reg))
                  \o Times(19, <<Hear(0, 0, 0), Put(0, 1, 0)>>), PhyOf(card)))
\* One sample more than there should be: the register is heard one bit late.
w89c840_mdio_read(card, phy, reg) ==
  MiiAnswer(Heard(Preamble(32) \o Clocked(MiiCommand(phy, reg))
                  \o Times(20, <<Hear(0, 0, 0), Put(0, 1, 0)>>), PhyOf(card)))
\* The bits have the clock low again at their end, and the first one is not kept.
phy_read(card, reg) ==
  LET bits == <<0, 1, 1, 0>> \o MsbFirst(1, 5) \o MsbFirst(reg, 5)
  IN  NumberOf(Tail(Heard(Preamble(34) \o Clocked(bits) \o <<Put(1, 0, 0)>>
                          \o Times(17, <<Hear(0, 1, 0), Put(0, 0, 0)>>), PhyOf(card))))

(***************************************************************************)
(* The probes.                                                             *)
(***************************************************************************)
rtl8139_probe(card) ==
  Takes(IF rtl8139_read_eeprom(card, 0) # 65535
        THEN LowFirst([i \in 1 .. 3 |-> rtl8139_read_eeprom(card, i + 6)])
        ELSE card.addr, NoPhy)

natsemi_probe(card) ==
  LET word == [i \in 6 .. 9 |-> natsemi_eeprom_read(card, i)]
  IN  Takes([k \in 1 .. 6 |-> LET i == 7 + (k - 1) \div 2
                              IN  IF k % 2 = 1 THEN (2 * word[i] + word[i - 1] \div 32768) % 256
                                  ELSE (word[i] \div 128) % 256], NoPhy)

\* The address is in the CMOS of a SiS 630: 48h of the ISA bridge shows it.
sis900_get_mac_addr(card) ==
  IF sis900_read_eeprom(card, 0) \in {0, 65535} THEN Refuses
  ELSE Takes(LowFirst([i \in 1 .. 3 |-> sis900_read_eeprom(card, i + 7)]), NoPhy)
sis630e_get_mac_addr(card, bridge) == Takes(IF bridge THEN card.addr ELSE AllOnes, NoPhy)
\* The last transceiver whose identity is known stays.
sis900_probe(card, bridge) ==
  LET mac  == IF card.id = "sis630" THEN sis630e_get_mac_addr(card, bridge) ELSE sis900_get_mac_addr(card)
      phys == {p \in 0 .. 31 : /\ sis900_mdio_read(card, p, 1) \notin {0, 65535}
                               /\ sis900_mdio_read(card, p, 2) \in {29, 22, 0, 21}}
  IN  IF mac.outcome = "refuses" \/ phys = {} THEN Refuses
      ELSE Takes(mac.addr, CHOOSE p \in phys : \A q \in phys : p >= q)

\* A driver that scans keeps the transceivers it finds, first one first.
FirstPhy(phys) == IF phys = {} THEN NoPhy ELSE CHOOSE p \in phys : \A q \in phys : p <= q
w89c840_probe(card) ==
  IF card.id # "w89c840" THEN Refuses
  ELSE Takes(LowFirst([i \in 1 .. 3 |-> w89c840_eeprom_read(card, i - 1)]),
             FirstPhy({p \in 1 .. 31 : w89c840_mdio_read(card, p, 1) \notin {0, 65535}}))

\* The link is up and has been negotiated; a DM9009 has no such transceiver.
davicom_media_chk(card) ==
  LET status == phy_read(card, 1)
  IN  IF card.id # "dm9009" /\ Bit(status, 5) = 1 /\ Bit(status, 2) = 1 THEN 1 ELSE NoPhy
davicom_probe(card) ==
  Takes(LowFirst([i \in 1 .. 3 |-> davicom_read_eeprom(card, i + 9)]), davicom_media_chk(card))
otulip_probe(card) == Takes(LowFirst([i \in 1 .. 3 |-> srom_read(card, i + 9)]), NoPhy)

\* The dialogue tells an EEPROM of eight address bits by its late zero.
eepro100_probe(card) ==
  LET wide == \A bit \in 1 .. 11 : do_eeprom_cmd(card, 6 * 2^24)[bit] = 1
      read_cmd == IF wide THEN 6 * 2^24 ELSE 6 * 2^22
  IN  Takes(LowFirst([i \in 1 .. 3 |-> NumberOf(SubSeq(do_eeprom_cmd(card, read_cmd + (i - 1) * 65536), 13, 28))]),
            NoPhy)

(***************************************************************************)
(* Drivers whose cards read their EEPROM themselves: registers are left.   *)
(***************************************************************************)
\* The busy bit of what does not answer stays set.
a3c90x_internal_ReadEeprom(card, loc) == Words(card)[loc]
a3c90x_probe(card) ==
  IF card.id = "none" THEN Hangs
  ELSE Takes(HighFirst([i \in 1 .. 3 |-> a3c90x_internal_ReadEeprom(card, i - 1)]), NoPhy)
get_e(card, loc) == Words(card)[loc]
t595_probe(card) ==
  IF card.id = "none" THEN Hangs ELSE Takes(HighFirst([i \in 1 .. 3 |-> get_e(card, i + 9)]), NoPhy)
ReadMIIEnds(card) == card.id # "none"
rhine_probe(card) == IF ReadMIIEnds(card) THEN Takes(card.addr, NoPhy) ELSE Hangs
\* The registers of transceivers are read through the card, as are the words.
epic100_probe(card) == Takes(card.addr, IF card.phy = NoPhy THEN 3 ELSE card.phy)
lance_probe1(card) == card.id # "none"
lancepci_probe(card) == IF lance_probe1(card) THEN Takes(card.addr, NoPhy) ELSE Refuses
\* The PROM of an NE2000 is on the low half of a bus of 16 bits: each of its
\* bytes comes twice, and every other one is taken.  Memory that keeps what is
\* written tells that there is a card.
PromOf(card, wide) == [i \in 0 .. 15 |-> IF wide THEN (IF i \div 2 < 6 THEN card.addr[i \div 2 + 1] ELSE 87)
                                         ELSE IF i < 6 THEN card.addr[i + 1] ELSE 87]
nepci_probe(card) ==
  IF card.id = "none" THEN Refuses
  ELSE LET rom == PromOf(card, TRUE) IN Takes([i \in 1 .. 6 |-> rom[2 * (i - 1)]], NoPhy)

(***************************************************************************)
(* The tulip driver and the chips that it knows by their identity; those   *)
(* that config.c lists and this table does not, it refuses.                *)
(***************************************************************************)
pci_id_tbl == [id \in {"21040", "21140", "pnic", "comet", "dm9102"} |->
                 IF id = "dm9102" THEN "21140" ELSE id]
\* A ROM in the old format repeats its first eight bytes at 16; a third one
\* starts with two bytes of ones.
tulip_srom(card) ==
  LET word == [a \in 0 .. 63 |-> tulip_read_eeprom(card, a, 6)]
      byte == [a \in 0 .. 127 |-> (word[a \div 2] \div (IF a % 2 = 0 THEN 1 ELSE 256)) % 256]
      sa_offset == IF byte[0] = 255 /\ byte[1] = 255 /\ byte[2] = 0 THEN 2
                   ELSE IF \E i \in 0 .. 7 : byte[i] # byte[16 + i] THEN 20 ELSE 0
  IN  [k \in 1 .. 6 |-> byte[k - 1 + sa_offset]]
last_phys_addr == <<0, 76, 105, 110, 117, 120>>
\* Two bytes that no maker has in this order are exchanged, and so are the
\* others; without an address one is made up.
tulip_addr(read) ==
  IF read \in {AllOnes, NoAddress} THEN [last_phys_addr EXCEPT ![6] = @ + 1]
  ELSE IF read[1] \in {160, 192} /\ read[2] = 0 THEN Swapped(read) ELSE read
start_link(card, chip) ==
  CASE chip = "21040" -> NoPhy
    [] chip = "comet" -> IF card.phy = NoPhy THEN NoPhy ELSE 1
    [] chip = "pnic" -> card.phy
    [] chip = "21140" ->
         FirstPhy({p \in 0 .. 31 : LET status == tulip_mdio_read(card, p, 1)
                                   IN  IF status >= 32768 THEN Bit(status, 9) = 0 /\ Bit(status, 8) = 0 /\ Bit(status, 0) = 1
                                       ELSE \E i \in 11 .. 14 : Bit(status, i) = 1})
tulip_probe(card) ==
  IF card.id \notin DOMAIN pci_id_tbl THEN Refuses
  ELSE LET chip == pci_id_tbl[card.id]
           read == IF chip = "21140" THEN tulip_srom(card) ELSE card.addr
       IN  Takes(tulip_addr(read), start_link(card, chip))
=============================================================================
