------------------------------ MODULE MCTftp ------------------------------
(***************************************************************************)
(* Files for TLC.  A packet is one byte, or two where the server grants    *)
(* that; the buffer holds four bytes.  In MCNetwork.cfg block numbers go up   *)
(* to three: file b, read a byte at a time, has more blocks than numbers.  *)
(***************************************************************************)
EXTENDS Tftp

TwoFiles == [f \in {"a", "b"} |-> IF f = "a" THEN 2 ELSE 5]
LongFile == [f \in {"long"} |-> 7]
AllServers == [blksize : BOOLEAN, tsize : BOOLEAN]
NoStrays == {{}}
\* Of an extension file of two blocks: its first block or the second comes to
\* the first port, an error comes there, or a block to the port after it.  A
\* stray need not come, so that one set for each server is enough.
Stray(type, port) == [type |-> type, from |-> Elsewhere, port |-> port]
StrayData(port, b) ==
  [type |-> "data", from |-> Elsewhere, port |-> port, block |-> b,
   data |-> <<<<Elsewhere, b - 1>>>>]
StraysBeside(g) ==
  CASE g.blksize -> {}
    [] g.tsize -> {StrayData(1, 1), Stray("error", 1)}
    [] OTHER -> {StrayData(1, 2), StrayData(2, 1)}
SomeStrays == {StraysBeside(g) : g \in AllServers}
===========================================================================
