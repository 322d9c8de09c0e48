----------------------------- MODULE IsaProbes -----------------------------
(***************************************************************************)
(* How the drivers of ISA cards look for them, at the ports where they may *)
(* be.  A port without a card reads all ones, which every test below       *)
(* fails; that a driver refuses the card of another one is assumed.        *)
(*                                                                         *)
(* A card has a kind, the port where it answers, its address and its form: *)
(* what its driver tells apart.  turn is how far its counter or its PROM   *)
(* has moved when it is first read.                                        *)
(***************************************************************************)
EXTENDS PciProbes
LOCAL INSTANCE SequencesExt

Every(step, first, last) == {port \in first .. last : (port - first) % step = 0}
Probed(card, ports, found, addr) ==
  IF card.port \in ports /\ found THEN Takes(addr, NoPhy) ELSE Refuses
Total(bytes) == FoldLeft(LAMBDA a, b : a + b, 0, bytes)

(***************************************************************************)
(* ns8390.c: the WD and SMC cards, the 3c503, the NE1000 and the NE2000.   *)
(***************************************************************************)
wd_boards == {2, 3, 5} \cup 36 .. 44
\* Registers 8 to 15: the address, the number of the board and what makes the
\* sum of all end in ones.
WdRegisters(card) ==
  LET known == Append(card.addr, card.form.board)
  IN  Append(known, (511 - (Total(known) % 256)) % 256)
wd_probe(card) ==
  LET reg == WdRegisters(card)
  IN  Probed(card, Every(32, 512, 992),
             /\ Total(reg) % 256 = 255 /\ reg[1] # 255 /\ reg[2] # 255
             /\ reg[7] \in wd_boards,
             SubSeq(reg, 1, 6))

\* Jumpers set one bit of the first register for the port, and one or none of
\* the second for the memory; a boot ROM's place is not memory.
AtMostOneBit(r) == r = 0 \/ r \in {2^i : i \in 0 .. 7}
t503_probe(card) ==
  Probed(card, {768, 784, 816, 848, 592, 640, 672, 736},
         /\ AtMostOneBit(card.form.bcfr) /\ AtMostOneBit(card.form.pcfr)
         /\ card.form.pcfr \in {0, 16, 32, 64, 128},
         card.addr)

\* What is written at 8192 is read back from an NE1000; an NE2000 has its
\* memory at 16384, and its bus is then 16 bits wide.
ne_probe(card) ==
  LET wide == card.form.memory = 16384
      rom  == PromOf(card, wide)
  IN  Probed(card, {640, 768, 800, 832}, card.form.memory \in {8192, 16384},
             [i \in 1 .. 6 |-> rom[(i - 1) + (IF wide THEN i - 1 ELSE 0)]])

(***************************************************************************)
(* eepro.c: a counter of two bits tells the card from others; each read    *)
(* moves it.                                                               *)
(***************************************************************************)
RoundRobin(turn, n) == 64 * ((turn + n) % 4)
\* Each bit of the request has the clock low at both its ends.
eepro_read_eeprom(card, reg, location) ==
  LET bits == MsbFirst(6 * 64 + location, 9)
  IN  NumberOf(Heard(<<Put(1, 0, 0)>>
                     \o [k \in 1 .. 27 |-> Put(1, IF k % 3 = 2 THEN 1 ELSE 0, bits[(k + 2) \div 3])]
                     \o <<Put(1, 0, 0)>> \o Times(16, <<Hear(1, 1, 0), Put(1, 0, 0)>>)
                     \o <<Put(0, 1, 0), Put(0, 0, 0)>>,
                     IF reg = card.form.reg THEN Eeprom(FromWord(2, Reverse(HighWords(card.addr))), 6) ELSE Nothing))
\* Nothing but ones or zeros in the third word: the EEPROM is behind the other
\* register.
eepro_probe1(card, turn) ==
  LET reg  == IF eepro_read_eeprom(card, 10, 2) \in {0, 65535} THEN 11 ELSE 10
      addr == HighFirst([i \in 1 .. 3 |-> eepro_read_eeprom(card, reg, 5 - i)])
  IN  IF RoundRobin(turn, 1) = RoundRobin(turn, 0) + 64 THEN Takes(addr, NoPhy) ELSE Refuses
eepro_probe(card, turn) ==
  IF card.port \in {768, 528, 576, 640, 704, 512, 800, 832, 864} THEN eepro_probe1(card, turn) ELSE Refuses

(***************************************************************************)
(* 3c509.c: a card in a slot of an EISA bus, one on an ISA bus that is set *)
(* to its port by a dialogue at the ID port, one in a slot of an MCA bus.  *)
(***************************************************************************)
MFG_ID == 27984
el3_mca_adapters == {25212, 25213, 25307, 25334, 25335}
SlotBase(slot) == 4096 * slot
\* The port that the driver then uses.
EisaBase(form) == IF form.bus = "eisa" /\ form.slot \in 1 .. 15 /\ form.cfg % 32 = 31 THEN SlotBase(form.slot) ELSE 0
send_ID_sequence(form) == IF form.bus = "isa" THEN (form.cfg % 32) * 16 + 512 ELSE EisaBase(form)
McaBase(form) == 256 * (4 * (form.pos4 \div 4) + 2)
\* PROD_ID without the four bits that tell the models apart; a connector that
\* the card has.
t509_Finds(card, base) ==
  /\ base = card.port
  /\ IF card.form.bus = "mca" THEN card.form.prod \in el3_mca_adapters
     ELSE card.form.prod \div 4096 = 9 /\ card.form.prod % 256 = 80
  /\ card.form.connector \in card.form.has \cap {"utp", "aui", "bnc"}
get_e509(card, i) == HighWords(card.addr)[i + 1]
t509_Address(card) == HighFirst([i \in 1 .. 3 |-> get_e509(card, i - 1)])
t509_probe(card) ==
  IF card.form.bus # "mca" /\ t509_Finds(card, send_ID_sequence(card.form))
  THEN Takes(t509_Address(card), NoPhy) ELSE Refuses
t529_probe(card) ==
  IF t509_Finds(card, IF card.form.bus = "mca" THEN McaBase(card.form) ELSE send_ID_sequence(card.form))
  THEN Takes(t509_Address(card), NoPhy) ELSE Refuses

(***************************************************************************)
(* The PROM of a DEPCA is a ring, and a mark in it stands before the       *)
(* address; that of an NI5010 shows ones while its counter is off it.      *)
(***************************************************************************)
Ring(prom, turn, n) == prom[1 + ((turn + n - 1) % Len(prom))]
sig == <<255, 0, 85, 170, 255, 0, 85, 170>>
DepcaProm(card) == card.addr \o [k \in 1 .. 18 |-> 0] \o sig
\* Two bytes are dropped; the mark has to end within 39 more.
depca_probe(card, turn) ==
  LET read == [n \in 1 .. 39 |-> Ring(DepcaProm(card), turn + 2, n)]
      ends == {n \in 8 .. 39 : SubSeq(read, n - 7, n) = sig}
      last == CHOOSE n \in ends : \A m \in ends : n <= m
  IN  Probed(card, {768, 512}, ends # {},
             [k \in 1 .. 6 |-> Ring(DepcaProm(card), turn + 2 + last, k)])

Ni5010Prom == <<2, 7, 1, 0, 0, 0, 0, 85, 170>> \o [k \in 1 .. 23 |-> 255]
\* Six ones at a stretch, in at most 41 groups of six; then the bytes after the
\* ones, which may be 32 more.
ni5010_probe(card, turn) ==
  LET Read(n) == Ring(Ni5010Prom, turn, n)
      groups  == {g \in 1 .. 41 : \A k \in 1 .. 6 : Read(6 * (g - 1) + k) = 255}
      from    == 6 * (CHOOSE g \in groups : \A h \in groups : g <= h)
      starts  == {n \in from + 1 .. from + 32 : Read(n) # 255}
      start   == CHOOSE n \in starts : \A m \in starts : n <= m
  IN  Probed(card, {768, 800, 832, 864, 896, 928},
             /\ groups # {} /\ starts # {}
             /\ <<Read(start), Read(start + 1), Read(start + 2)>> = <<2, 7, 1>>
             /\ <<Read(start + 7), Read(start + 8)>> = <<85, 170>>,
             card.addr)

(***************************************************************************)
(* The rest: a mark at the port.                                           *)
(***************************************************************************)
LancePorts == {768, 800, 832, 864}
ne2100_probe(card) ==
  Probed(card, LancePorts, card.form.at14 \in {82, 87} /\ card.form.at15 \in {87, 68}, card.addr)
ni6510_probe(card) ==
  Probed(card, LancePorts, card.form.at14 \in {0, 82} /\ card.form.at15 \in {85, 68}, card.addr)
\* Every second byte of its ROM.
SK_probe(card) ==
  LET rom == [j \in 0 .. 11 |-> IF j % 2 = 0 THEN card.addr[j \div 2 + 1] ELSE 255]
  IN  Probed(card, {256, 384, 520, 544, 648, 800, 808, 912}, TRUE, [i \in 1 .. 6 |-> rom[2 * (i - 1)]])
t507_probe(card) == Probed(card, {768, 800, 832, 640}, TRUE, card.addr)
\* The chip answers through memory: its busy word is cleared where it is.
ni5210_probe(card) ==
  Probed(card, Every(8, 512, 1000) \ {632, 760, 888, 944, 952},
         card.form.memory \in {786432 + 16384 * n : n \in 0 .. 11}, card.addr)
exos205_probe(card) == Probed(card, {784}, card.form.memory = 835584, card.addr)
\* The card knows its port, and its revision.
smc_probe(card) ==
  /\ 32 * ((card.form.base \div 256) % 32) = card.port
  /\ (card.form.revision \div 16) % 16 \in {3, 4, 5, 7, 8}
smc9000_probe(card) == Probed(card, Every(32, 512, 992), smc_probe(card), LowFirst(LowWords(card.addr)))
tiara_probe(card) ==
  Probed(card, Every(32, 256, 576) \cup {640, 672, 704, 768, 800, 832, 896, 960},
         SubSeq(card.addr, 1, 3) = <<8, 0, 26>>, card.addr)
=============================================================================
