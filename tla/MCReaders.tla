----------------------------- MODULE MCReaders ------------------------------
(* Volumes for the readers of Readers.tla: directories and files long enough *)
(* to reach every level of each format's map, with holes, links and loops;   *)
(* files for gunzip_read of Gunzip.tla, and disks for Partitions.tla.  The   *)
(* three are independent: part says which of them a behaviour is about.      *)
EXTENDS Readers, Gunzip, Partitions

VARIABLE part
partVars == <<part, ioVars, zvars, partitionVars>>

File(blocks, size) == [type |-> "file", size |-> size, blocks |-> blocks,
                       names |-> <<>>, inos |-> <<>>, abs |-> FALSE, path |-> <<>>]
Dir(blocks, names, inos) ==
  [File(blocks, Len(names)) EXCEPT !.type = "dir", !.names = names, !.inos = inos]
Link(abs, path) == [File(<<90>>, 1) EXCEPT !.type = "link", !.abs = abs, !.path = path]

(* The runs of a node, each as long as can be.                               *)
Joined(blocks, i) ==
  i > 1 /\ IF blocks[i] = Hole THEN blocks[i - 1] = Hole
           ELSE blocks[i] = blocks[i - 1] + 1
RunFrom(blocks, i) ==
  LET last == CHOOSE j \in i..Len(blocks) :
                /\ \A k \in i + 1..j : Joined(blocks, k)
                /\ j = Len(blocks) \/ ~Joined(blocks, j + 1)
  IN  [off |-> i - 1, len |-> last - i + 1, addr |-> blocks[i]]
RunsIn(blocks) ==
  LET starts == {i \in 1..Len(blocks) : ~Joined(blocks, i)}
  IN  <<>> \o [k \in 1..Cardinality(starts) |->
         RunFrom(blocks, SetToSortSeq(starts, <)[k])]
WithRuns(nodes) == <<>> \o [n \in DOMAIN nodes |-> nodes[n] @@ [runs |-> RunsIn(nodes[n].blocks)]]

(* Block maps: the table of inode n that maps count logical blocks from      *)
(* first on has number 10000 n + 100 first + count.                          *)
TableOf(nodes, n, first, count) ==
  LET blocks == nodes[n].blocks
  IN  IF \E l \in first..Lesser(first + count, Len(blocks)) - 1 : blocks[l + 1] # Hole
      THEN 10000 * n + 100 * first + count ELSE Hole
TableAt(nodes, b) ==
  LET n     == b \div 10000
      first == (b % 10000) \div 100
      share == (b % 100) \div AddrPerBlock
      block(l) == IF l < Len(nodes[n].blocks) THEN nodes[n].blocks[l + 1] ELSE Hole
  IN  <<>> \o [j \in 1..AddrPerBlock |->
         IF share = 1 THEN block(first + j - 1)
         ELSE TableOf(nodes, n, first + (j - 1) * share, share)]
WithTables(v) ==
  LET tables == {TableOf(v.nodes, n, first, count) : n \in DOMAIN v.nodes,
                   first \in 1..20, count \in {2, 4, 8}} \ {Hole}
      tops(n) == <<>> \o [k \in 1..3 |-> TableOf(v.nodes, n, First(k), Span(k))]
  IN  [v EXCEPT !.nodes = <<>> \o [n \in DOMAIN @ |-> @[n] @@ [tops |-> tops(n)]]]
      @@ [table |-> [b \in tables |-> TableAt(v.nodes, b)]]

Find(p, q, r) == <<>> @@
  [x \in Paths |-> CASE x = <<"a">> -> p [] x = <<"d", "l">> -> q
                     [] x = <<"x">> -> r [] OTHER -> 0]


(* The FAT of a sound volume.  On the one whose root directory is fixed, a   *)
(* file's chain goes back to the entry just below the window (a directory's  *)
(* does not: the word read there could close it to a ring).  The damaged     *)
(* ones have a chain that ends early, a link to a free cluster, and one back *)
(* to the entry below the window.                                            *)
FatOf(nodes) == <<>> @@
  [c \in 2..NumClust - 1 |->
     LET after == UNION {{n.blocks[i + 1] : i \in {j \in 1..Len(n.blocks) - 1 :
                                                     n.blocks[j] = c}} :
                           n \in Range(nodes)}
     IN  IF after = {} THEN FatEof ELSE CHOOSE b \in after : TRUE]
FatNodes ==
  <<Dir(<<2, 7>>, <<"o", "a", "d", "x">>, <<0, 2, 3, 5>>),
               File(<<6, 3, 8, 4>>, 7),
               Dir(<<9>>, <<"l">>, <<4>>),
               File(<<5, 10>>, 3),
               File(<<11>>, 1)>>
FatVolume ==
  [format |-> "fat", excused |-> FALSE, fixed |-> FALSE, nodes |-> FatNodes,
   fat |-> FatOf(FatNodes), find |-> Find(2, 4, 5)]
FixedNodes ==
  <<Dir(<<20, 21, 22>>, <<"o", "a", "d", "x">>, <<0, 2, 3, 5>>),
    File(<<6, 5, 8, 4>>, 7),
    Dir(<<10, 2>>, <<"o", "o", "l">>, <<0, 0, 4>>),
    File(<<3, 7>>, 3),
    File(<<11>>, 1)>>
FixedVolume ==
  [FatVolume EXCEPT !.fixed = TRUE, !.nodes = FixedNodes, !.fat = FatOf(FixedNodes)]
FatDamaged(link, to, link2, to2) ==
  [FatVolume EXCEPT !.excused = TRUE, !.fat[link] = to, !.fat[link2] = to2]

MappedRoot ==
  Dir(<<10, 11, 12, 13, 14>>,
      <<"o", "o", "o", "o", "o", "x", "d", "o", "o", "a">>,
      <<0, 7, 7, 0, 7, 5, 3, 7, 7, 2>>)
Ext2Volume ==
  [format |-> "ext2", excused |-> FALSE, nodes |-> <<MappedRoot,
               File(<<20, 0, 22, 23, 24, 25, 26, 27, 28, 0, 29>>, 21),
               Dir(<<15>>, <<"l", "k">>, <<4, 6>>),
               Link(FALSE, <<"k">>),
               Link(TRUE, <<"x">>),
               Link(TRUE, <<"a">>),
               File(<<>>, 0)>>,
   find |-> Find(2, 2, 0)]
MinixVolume ==
  [format |-> "minix", excused |-> FALSE, nodes |-> <<MappedRoot,
               File(<<20, 21, 22, 23, 24, 25, 26>>, 14),
               Dir(<<15>>, <<"l", "k">>, <<4, 6>>),
               Link(FALSE, <<"k">>),
               Link(TRUE, <<"x">>),
               Link(TRUE, <<"a">>),
               File(<<>>, 0)>>,
   find |-> Find(2, 2, 0)]


(* The formats of Extents.tla: files in one run, in a few, and, for xfs, in  *)
(* more than a page of extents holds.                                        *)
IsoVolume ==
  [format |-> "iso9660", excused |-> FALSE,
   nodes |-> <<Dir(<<2, 3>>, <<"o", "a", "d", "x">>, <<5, 2, 3, 3>>),
               File(<<6, 7, 8>>, 5),
               Dir(<<9>>, <<"l">>, <<4>>),
               File(<<10, 11>>, 4),
               File(<<>>, 0)>>,
   find |-> Find(2, 4, 0)]
ListVolume ==
  [format |-> "list", excused |-> FALSE,
   nodes |-> WithRuns(<<Dir(<<>>, <<>>, <<>>), File(<<5, 6, 7, 2, 9, 10>>, 12)>>),
   find |-> Find(2, 0, 0)]
ExtentNodes(blocks) == WithRuns(
  <<Dir(<<5, 6, 30>>, <<"o", "o", "x", "d", "a">>, <<0, 7, 5, 3, 2>>),
    File(blocks, 2 * Len(blocks) - 1),
    Dir(<<15>>, <<"l", "k">>, <<4, 6>>),
    Link(FALSE, <<"k">>),
    Link(TRUE, <<"x">>),
    Link(TRUE, <<"a">>),
    File(<<>>, 0)>>)
JfsVolume ==
  [format |-> "jfs", excused |-> FALSE,
   nodes |-> ExtentNodes(<<20, 21, 24>>), find |-> Find(2, 2, 0)]
JfsPaged ==
  [format |-> "jfs", excused |-> TRUE,
   nodes |-> ExtentNodes(<<20, 21, 24, 27, 28>>), find |-> Find(2, 2, 0)]
XfsVolume ==
  [format |-> "xfs", excused |-> FALSE,
   nodes |-> ExtentNodes(<<20, 24, 25, 27, 29, 31>>), find |-> Find(2, 2, 0)]

(* NTFS with clusters of one block, and of two; the partitions below 4 GB    *)
(* and the larger clusters are where its reader goes wrong.                  *)
NtfsNodes ==
  <<Dir(<<5, 6>>, <<"o", "a", "x", "d">>, <<0, 2, 5, 3>>),
    File(<<20, 21, 24, 25, 0, 0, 30, 31>>, 15),
    Dir(<<15>>, <<"l">>, <<4>>),
    File(<<16, 17>>, 3),
    File(<<>>, 0)>>
NtfsVolume(spc, small, excused) ==
  [format |-> "ntfs", excused |-> excused, spc |-> spc, small |-> small,
   nodes |-> WithRuns(NtfsNodes),
   find |-> [Find(2, 4, 5) EXCEPT ![<<"d">>] = 5]]

(* A boot server that grants packets of 2 bytes.                             *)
PxeVolume ==
  [format |-> "pxe", excused |-> FALSE, blk |-> 2,
   nodes |-> <<Dir(<<>>, <<>>, <<>>), File(<<5, 6, 7, 8, 9>>, 9), File(<<4>>, 2)>>,
   find |-> Find(2, 3, 0)]

(* A reiserfs tree of four levels, of which two have slots of their own:     *)
(* leaves of up to three items, one or two children to a node.  The leaf 102 *)
(* is in the journal twice, in the second transaction after one that wraps   *)
(* around the end.                                                           *)
Pieces(n) == [k \in 1..CeilDiv(n, 2) |-> [from |-> 2 * k - 1, to |-> Lesser(2 * k, n)]]
ItemsOf(ino, node) ==
  LET stat  == <<[ino |-> ino, kind |-> "stat", off |-> 0, len |-> 0, list |-> <<>>]>>
      whole == node.size \div BlockBytes
      tail  == node.size % BlockBytes
      item(kind, off, len, list) ==
        [ino |-> ino, kind |-> kind, off |-> off, len |-> len, list |-> list]
      entries == [k \in DOMAIN Pieces(node.size) |->
                    LET p == Pieces(node.size)[k]
                    IN  item("dir", p.from, 0, [i \in 1..p.to - p.from + 1 |-> p.from + i - 1])]
      blocks  == [k \in DOMAIN Pieces(whole) |->
                    LET p == Pieces(whole)[k]
                    IN  item("indirect", (p.from - 1) * BlockBytes + 1,
                             (p.to - p.from + 1) * BlockBytes,
                             SubSeq(node.blocks, p.from, p.to))]
      direct  == IF tail = 0 THEN <<>>
                 ELSE <<item("direct", whole * BlockBytes + 1, tail,
                             [i \in 1..tail |-> ByteOf(node, whole * BlockBytes + i - 1)])>>
  IN  stat \o IF node.type = "dir" THEN entries ELSE blocks \o direct

ReiserNodes ==
  <<Dir(<<>>, <<"o", "x", "a", "d">>, <<0, 7, 2, 3>>),
    File(<<20, 21, 24, 25, 27, 28, 29>>, 13),
    Dir(<<>>, <<"l", "k">>, <<4, 6>>),
    Link(FALSE, <<"k">>),
    Link(TRUE, <<"x">>),
    Link(TRUE, <<"a">>),
    File(<<>>, 0)>>
ReiserItems == FlattenSeq([i \in DOMAIN ReiserNodes |-> ItemsOf(i, ReiserNodes[i])])
Leaf(k)  == [level |-> 1, kids |-> <<>>,
             items |-> SubSeq(ReiserItems, 3 * k - 2, Lesser(3 * k, Len(ReiserItems)))]
Inner(level, kids) == [level |-> level, kids |-> kids, items |-> <<>>]
Stale(k) == [Leaf(k) EXCEPT !.items = <<>> \o [i \in DOMAIN @ |-> [@[i] EXCEPT !.ino = 90 + i]]]
ReiserLeaves == 1..CeilDiv(Len(ReiserItems), 3)
ReiserTree ==
  [b \in {100 + k : k \in ReiserLeaves} |-> Leaf(b - 100)] @@
  (201 :> Inner(2, <<101, 102>>) @@ 202 :> Inner(2, <<103, 104>>) @@
   203 :> Inner(2, <<105>>) @@ 204 :> Inner(2, <<106>>) @@
   301 :> Inner(3, <<201, 202>>) @@ 302 :> Inner(3, <<203, 204>>) @@
   501 :> Inner(4, <<301, 302>>) @@
   407 :> Stale(2) @@ 403 :> Leaf(2) @@ 402 :> Leaf(3))
ReiserVolume ==
  [format |-> "reiserfs", excused |-> FALSE, nodes |-> ReiserNodes,
   find |-> Find(2, 2, 7), height |-> 4, root |-> 501,
   tree |-> <<>> @@ [b \in DOMAIN ReiserTree |-> IF b \in {102, 103} THEN Stale(2) ELSE ReiserTree[b]],
   first |-> <<>> @@ [b \in (101..106) \cup (201..204) \cup {301, 302} |->
                LET k == CASE b > 300 -> <<1, 5>>[b - 300]
                           [] b > 200 /\ b < 300 -> <<1, 3, 5, 6>>[b - 200]
                           [] OTHER -> b - 100
                    i == Leaf(k).items[1]
                IN  <<i.ino, i.off>>],
   journal |-> [block |-> 400, size |-> 8, first |-> 6,
                trans |-> <<<<102>>, <<103, 102>>>>]]

(* A directory entry without a stat item, and a node that is not a leaf      *)
(* where a leaf ought to be.                                                 *)
ReiserDamaged ==
  [ReiserVolume EXCEPT !.excused = TRUE, !.nodes[1].inos[2] = 8,
                       !.nodes = Append(@, File(<<>>, 0)),
                       !.tree[402].level = 2, !.tree[106].level = 2]

(* Files with holes where ext2fs_read and minix_read do not expect them.     *)
Sparse(v) == [v EXCEPT !.excused = TRUE, !.nodes[2].blocks =
                <<20, 0, 0, 23, 24, 0, 0, 0, 0, 0, 29>>]

Complete(v) ==
  v @@ [contents |-> <<>> @@
          [p \in Paths |-> IF v.find[p] = 0 THEN NoFile ELSE <<>> \o BytesOf(v.nodes[v.find[p]])]]
AllVolumes == {Complete(v) : v \in {FatVolume, FixedVolume, FatDamaged(3, FatEof, 5, 0), FatDamaged(8, 3, 2, FatEof),
               FatDamaged(6, FatEof, 2, 0), PxeVolume, ReiserVolume, ReiserDamaged,
               WithTables(Sparse(Ext2Volume)), WithTables(Sparse(MinixVolume)),
               WithTables(Ext2Volume), WithTables(MinixVolume), IsoVolume, ListVolume,
               JfsVolume, JfsPaged, XfsVolume, NtfsVolume(1, FALSE, FALSE),
               NtfsVolume(1, TRUE, TRUE), NtfsVolume(2, FALSE, TRUE)}}
MCVolumes == AllVolumes
MCPaths == {<<"a">>, <<"d", "l">>, <<"x">>, <<"d">>, <<"none">>}

(* Compressed files: blocks of every kind, copies that overlap themselves    *)
(* and cross windows, an empty stored block, a block type that is none, code *)
(* lengths that make no code, and a header that is damaged.                  *)
Lit(v)       == [t |-> "lit", v |-> v]
CopyOf(n, d) == [t |-> "copy", n |-> n, d |-> d]
Codes(last)  == [t |-> "block", last |-> last, type |-> "fixed", len |-> 0]
Dynamic(last, fits, lens) ==
  [t |-> "block", last |-> last, type |-> "dynamic", len |-> 0, fits |-> fits, lens |-> lens]
CodeLens == <<<<1, 2, 2>>, <<2, 0, 1, 2>>, <<0, 1>>>>
Stored(last, n) == [t |-> "block", last |-> last, type |-> "stored", len |-> n]
Reserved     == [t |-> "block", last |-> TRUE, type |-> "reserved", len |-> 0]
End          == [t |-> "end"]
Zipped(head, cells) == [plain |-> FALSE, head |-> head, bad |-> FALSE, cells |-> cells]
AllGzFiles ==
  <<[plain |-> TRUE, head |-> 0, bad |-> FALSE, cells |-> <<1, 2, 3, 4, 5>>],
    [Zipped(2, <<Codes(TRUE), Lit(1), End>>) EXCEPT !.bad = TRUE],
    Zipped(2, <<Stored(FALSE, 3), Lit(1), Lit(2), Lit(3), Dynamic(TRUE, TRUE, CodeLens), Lit(4),
                CopyOf(5, 3), Lit(5), CopyOf(4, 1), CopyOf(2, 4), End>>),
    Zipped(1, <<Codes(FALSE), Lit(1), CopyOf(3, 1), End, Reserved, Lit(2)>>),
    Zipped(1, <<Dynamic(FALSE, TRUE, <<<<1, 2, 2>>, <<1, 1, 2>>, <<>>>>), Lit(1), End>>),
    Zipped(1, <<Codes(FALSE), End, Dynamic(TRUE, TRUE, <<<<0, 1>>, <<2, 2, 2>>, <<>>>>), Lit(1)>>),
    Zipped(1, <<Stored(FALSE, 1), Lit(1), Dynamic(TRUE, FALSE, CodeLens), Lit(2)>>),
    Zipped(1, <<Codes(TRUE), Lit(1), Reserved, Lit(2), End>>),
    Zipped(1, <<Codes(FALSE), Lit(1), End, Stored(FALSE, 0), Stored(TRUE, 1), Lit(2)>>)>>
MCGzFiles == AllGzFiles

(* Tables, labels and files of disks, and the commands given on them.        *)
E(type, start, len) == [type |-> type, start |-> start, len |-> len, active |-> FALSE, filled |-> FALSE]
Empty == E(0, 0, 0)
Scrubbed == [E(246, 0, 0) EXCEPT !.filled = TRUE]
PTable(a, b, c, d) == [kind |-> "table", signed |-> TRUE, entries |-> <<a, b, c, d>>]
Label(parts) == [kind |-> "label", parts |-> parts]
L(type, start, len) == [type |-> type, start |-> start, len |-> len]
BootRecord(hidden, fs) == [kind |-> "boot", hidden |-> hidden, fs |-> fs]

\* linux, BSD with three letters of which one is unused, a chain whose first
\* table begins with its link and whose second holds empty entries, linux.
Disk1 ==
  (0 :> PTable([E(131, 2, 4) EXCEPT !.active = TRUE], E(165, 10, 6), E(5, 20, 20), E(11, 50, 8))) @@
  (2 :> BootRecord(9, 131)) @@
  (11 :> Label(<<L(0, 10, 2), L(7, 12, 2), L(7, 14, 2)>>)) @@
  (20 :> PTable(E(5, 10, 10), E(131, 1, 5), Empty, Empty)) @@
  (30 :> PTable(Scrubbed, E(5, 15, 5), E(11, 1, 3), Empty)) @@
  (35 :> PTable(Empty, Empty, Empty, E(131, 1, 4))) @@
  (31 :> BootRecord(31, 12)) @@ (50 :> BootRecord(50, 12)) @@ (53 :> BootRecord(0, 12))
\* Two BSD slices of which the first has no label, an empty entry 3, and a
\* chain whose first table begins with its link.
Disk2 ==
  (0 :> PTable(E(165, 10, 6), E(166, 14, 6), E(15, 20, 20), Empty)) @@
  (15 :> Label(<<L(7, 14, 2), L(7, 50, 2)>>)) @@
  (20 :> PTable(E(5, 10, 10), E(165, 2, 5), Empty, Empty)) @@
  (23 :> Label(<<L(0, 0, 0), L(7, 31, 2)>>)) @@
  (30 :> PTable(E(131, 1, 3), Scrubbed, E(5, 15, 3), E(7, 31, 2)))
\* No signature.
Disk3 == (0 :> [PTable(E(131, 2, 4), E(0, 3, 1), Empty, Empty) EXCEPT !.signed = FALSE])
AllDisks == {Disk1, Disk2, Disk3}
MCDisks == AllDisks
AllFiles ==
  (2 :> ("a" :> <<3, 4>>)) @@ (12 :> ("b" :> <<12>>)) @@
  (14 :> ("a" :> <<15>> @@ "b" :> <<14>>)) @@ (21 :> ("a" :> <<22, 24>>)) @@
  (31 :> ("b" :> <<32>>)) @@ (36 :> ("b" :> <<37>>)) @@
  (50 :> ("a" :> <<53, 54>> @@ "c" :> <<51, 53, 52>> @@ "d" :> <<51, 57, 53>>))
MCFiles == AllFiles
N(slice, bsd) == [slice |-> slice, bsd |-> bsd]
S(slice) == N(slice, 255)
Cmd(op, arg) == [op |-> op, arg |-> arg, file |-> "", set |-> "", type |-> 0, from |-> WholeDisk,
                 start |-> 0, len |-> 0, lost |-> FALSE, told |-> <<>>]
SetTo(slice, type) == [Cmd("settype", S(slice)) EXCEPT !.type = type]
Partnew2(slice, type, file, from) ==
  [Cmd("partnew", S(slice)) EXCEPT !.type = type, !.file = file, !.from = S(from)]
Partnew3(slice, type, start, len, set) ==
  [Cmd("partnew", S(slice)) EXCEPT !.type = type, !.start = start, !.len = len, !.set = set]
AllCommands ==
  {Cmd("open", name) : name \in {S(0), S(3), S(5), S(8), N(1, 0), N(4, 1), N(255, 1), N(255, 0)}} \cup
  {Cmd(op, WholeDisk) : op \in {"list", "endpart", "makeactive", "root", "settype"}} \cup
  {Cmd("root", name) : name \in {S(0), N(1, 1), N(255, 1), S(5)}} \cup
  {Cmd("rootnoverify", S(k)) : k \in {3, 9}} \cup
  {[Cmd(op, WholeDisk) EXCEPT !.file = file] : op \in {"find", "findroot"}, file \in {"a", "b"}} \cup
  {[Cmd("settype", S(k)) EXCEPT !.set = set] : k \in {1, 4}, set \in {"hide", "unhide"}} \cup
  {SetTo(0, 165), SetTo(2, 0), SetTo(4, 0), SetTo(5, 7), SetTo(9, 7)} \cup
  {Cmd("type", S(k)) : k \in {4, 7}} \cup
  {Partnew3(0, 131, 3, 1, "active"), Partnew3(4, 131, 3, 1, ""), Partnew3(0, 0, 0, 0, ""),
   Partnew3(1, 0, 3, 1, ""), Partnew3(1, 7, 0, 1, "")} \cup
  {Partnew2(3, 0, "a", 3), Partnew2(3, 16, "+1", 3), Partnew2(1, 7, "a", 3), Partnew2(0, 0, "a", 0),
   Partnew2(1, 0, "c", 3), Partnew2(1, 0, "d", 3), Partnew2(1, 0, "a", 4), Partnew2(1, 0, "+1", 0)}
MCCommands == AllCommands

MCInit == /\ part \in {"volumes", "gunzip", "partitions"}
          /\ Init /\ GunzipInit /\ PartitionsInit
          /\ part # "partitions" => disk = Disk3
Rest == given = MaxCommands /\ cmd = NoCommand /\ UNCHANGED partVars
MCNext == /\ UNCHANGED part
          /\ \/ part = "volumes" /\ Next /\ UNCHANGED <<zvars, partitionVars>>
             \/ part = "gunzip" /\ GunzipNext /\ UNCHANGED <<ioVars, partitionVars>>
             \/ part = "partitions" /\ PartitionsNext /\ UNCHANGED <<ioVars, zvars>>
             \/ part = "partitions" /\ Rest
MCSpec == /\ MCInit /\ [][MCNext]_partVars
          /\ WF_partVars(part = "volumes" /\ Turn /\ UNCHANGED <<part, zvars, partitionVars>>)
          /\ WF_partVars(part = "gunzip" /\ ZTurn /\ UNCHANGED <<part, ioVars, partitionVars>>)
          /\ WF_partVars(part = "partitions" /\ Works /\ UNCHANGED <<part, ioVars, zvars>>)

\* EveryWalkEnds.  Every open and read of a file, plain or compressed, and every
\* command on partitions comes to its end, whatever links lead to and whatever
\* read fails (Readers.tla, Gunzip.tla, Partitions.tla).
EveryWalkEnds == EveryCallReturns /\ EveryUnzipReturns /\ EveryCommandEnds
=============================================================================
