----------------------------- MODULE SerialRoms -----------------------------
(***************************************************************************)
(* The two chips that network drivers talk to over single lines: the       *)
(* serial EEPROM with a card's address, and the transceiver.  A program is *)
(* the sequence of levels a driver puts on the lines; where it samples the *)
(* answer, hear is TRUE.                                                   *)
(***************************************************************************)
EXTENDS Naturals, Sequences
LOCAL INSTANCE SequencesExt

Bit(v, i) == (v \div 2^i) % 2
MsbFirst(v, n) == [k \in 1 .. n |-> Bit(v, n - k)]
NumberOf(bits) == FoldLeft(LAMBDA v, b : 2 * v + b, 0, bits)
LsbFirstNumber(bits) == NumberOf(Reverse(bits))

Put(cs, clk, di) == [cs |-> cs, clk |-> clk, di |-> di, hear |-> FALSE]
Hear(cs, clk, di) == [cs |-> cs, clk |-> clk, di |-> di, hear |-> TRUE]
\* Each bit with the clock low and then high.
Clocked(bits) == [k \in 1 .. 2 * Len(bits) |-> Put(1, (k + 1) % 2, bits[(k + 1) \div 2])]
Times(n, lines) == FlattenSeq([k \in 1 .. n |-> lines])

Eeprom(words, width) == [kind |-> "eeprom", words |-> words, width |-> width]
Transceiver(words, address) == [kind |-> "transceiver", words |-> words, address |-> address]
Nothing == [kind |-> "nothing"]

\* A 93C46 has six address bits, a 93C66 eight; a request is a one, the
\* operation 10 and an address.  A transceiver knows its own address; a request
\* is 01, the operation 10, five bits each of address and register, and one bit
\* to turn the line around.
StartOf(device) == IF device.kind = "eeprom" THEN 1 ELSE 0
RequestLength(device) == IF device.kind = "eeprom" THEN 3 + device.width ELSE 15
Asks(device, request) ==
  CASE device.kind = "eeprom" -> request[2] = 1 /\ request[3] = 0
    [] device.kind = "transceiver" -> /\ SubSeq(request, 1, 4) = <<0, 1, 1, 0>>
                                      /\ NumberOf(SubSeq(request, 5, 9)) = device.address
    [] device.kind = "nothing" -> FALSE
AskedWord(device, request) ==
  device.words[NumberOf(IF device.kind = "eeprom" THEN SubSeq(request, 4, Len(request))
                        ELSE SubSeq(request, 10, 14))]

\* What a chip drives after it has taken these bits: nothing, and the line is
\* high, until a request is whole; a zero then, and the word bit by bit.
ChipDrives(device, bits) ==
  LET starts  == {j \in DOMAIN bits : bits[j] = StartOf(device)}
      first   == CHOOSE j \in starts : \A i \in starts : j <= i
      last    == first + RequestLength(device) - 1
      request == SubSeq(bits, first, last)
      out     == Len(bits) - last
  IN  IF starts = {} \/ out < 0 \/ ~Asks(device, request) THEN 1
      ELSE CASE out = 0 -> 0
             [] out \in 1 .. 16 -> Bit(AskedWord(device, request), 16 - out)
             [] out > 16 -> 1

\* A chip takes a bit when the clock rises.  cs selects an EEPROM; of a
\* transceiver it says that the driver drives the data line, which is high
\* otherwise.
Rises(program, i) == program[i].clk = 1 /\ (i = 1 \/ program[i - 1].clk = 0)
Since(program, device, k) ==
  LET off == {i \in 1 .. k : device.kind = "eeprom" /\ program[i].cs = 0}
  IN  IF off = {} THEN 1 ELSE 1 + CHOOSE i \in off : \A j \in off : j <= i
TakenBits(program, device, k) ==
  LET since == Since(program, device, k)
      lines == SelectSeq([i \in 1 .. k |-> i], LAMBDA i : i >= since /\ Rises(program, i))
  IN  [n \in DOMAIN lines |-> IF program[lines[n]].cs = 1 THEN program[lines[n]].di ELSE 1]

\* What a driver hears while it plays a program to a device.
Heard(program, device) ==
  LET samples == SelectSeq([k \in DOMAIN program |-> k], LAMBDA k : program[k].hear)
  IN  [n \in DOMAIN samples |->
         IF device.kind = "nothing" THEN 1
         ELSE ChipDrives(device, TakenBits(program, device, samples[n]))]
=============================================================================
