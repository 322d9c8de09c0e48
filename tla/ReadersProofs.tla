--------------------------- MODULE ReadersProofs ----------------------------
(***************************************************************************)
(* Proofs about Readers: for any volumes, paths and lengths, what a reader *)
(* keeps from one call to the next is true of the file that is open.       *)
(* Everything rests on Inv: a call has its form and is one the format can  *)
(* be in (Call), the position and what is left stay within the file (At),  *)
(* and for each format what its part of FSYS_BUF means then.               *)
(***************************************************************************)
EXTENDS Readers, FiniteSetTheorems, TLAPS

---------------------------------------------------------------------------
(* The invariant. *)

\* What the call can be doing in the mounted format.
OpsOf(format) ==
  {"idle", "opened", "read", "failed", "inode", "reading"} \cup
  CASE format = "fat" -> {"chain", "entry", "search"}
    [] format \in {"ext2", "minix", "iso9660"} -> {"search"}
    [] format = "list" -> {"list"}
    [] format \in {"jfs", "xfs"} -> {"search", "extents"}
    [] format = "ntfs" -> {"search", "blocks"}
    [] format = "pxe" -> {"pxe", "packets"}
    [] format = "reiserfs" -> {"tree", "next", "descend", "item", "items", "done"}
    [] OTHER -> {}

\* A call; what is only handed on is left as it is.
CallTyped ==
  call \in [op : {call.op}, name : {call.name}, want : {call.want}, path : {call.path},
            ino : {call.ino}, updir : {call.updir}, links : {call.links}, loc : {call.loc},
            left : Nat, buf : {call.buf}, lost : BOOLEAN, stale : BOOLEAN]

\* The directory or file that a call is at.
AtNode ==
  /\ volume \in Volumes /\ call.name \in Paths
  /\ call.ino \in DOMAIN Nodes /\ call.updir \in DOMAIN Nodes
  /\ call.op \in {"search", "entry"} => Node(call.ino).type = "dir"

\* The dir functions begin at 0.
Looking == \/ call.op \in {"inode", "search", "entry", "item"}
           \/ call.op \in {"tree", "next", "descend"} /\ cache.goal # "read"

Call ==
  /\ volume \in Volumes \cup {NoVolume} /\ fsys_type = volume.format
  /\ CallTyped /\ call.op \in OpsOf(fsys_type)
  /\ call.op # "idle" => AtNode
At ==
  /\ filepos \in Nat /\ filemax \in Nat
  /\ filepos + call.left <= filemax
  /\ Looking => filepos = 0 /\ call.left = 0

\* fat: in the middle of a read the chain has been followed up to the place;
\* where it leads is known unless a link was read from below the window.
FatForm == cache \in [cached_fat : {cache.cached_fat}, current_cluster_num : Nat,
                      current_cluster : {cache.current_cluster}, astray : BOOLEAN]
FatInv ==
  /\ FatForm
  /\ FileOpen \/ call.op = "chain" =>
       Node(call.ino).type = "file" /\ filemax = Node(call.ino).size
  /\ call.op = "chain" => cache.current_cluster_num <= filepos \div BlockBytes
  /\ ~volume.excused /\ ~cache.astray => CursorTrue

\* ext2, minix.
MapsInv ==
  /\ cache \in [mapblock1 : {cache.mapblock1}, mapblock2 : {cache.mapblock2},
                db1 : {cache.db1}, db2 : {cache.db2}]
  /\ TablesTrue

\* iso9660: a path is looked up from the root directory.
IsoInv == call.op = "inode" => call.ino = Root

\* A block list: the place is in one of its runs.
ListInv ==
  /\ cache \in [filepos : Nat, list : {cache.list}, num : Nat]
  /\ FileOpen \/ call.op = "list" =>
       /\ Node(call.ino).type = "file" /\ filemax = Node(call.ino).size
       /\ cache.list \in DOMAIN Runs(call.ino)
       /\ cache.num < Runs(call.ino)[cache.list].len
  /\ call.op = "list" => call.left > 0
  /\ CursorTrue

\* jfs, xfs.
ExtentsInv ==
  /\ cache \in [ino : {0} \cup DOMAIN Nodes, page : Nat, xad : Nat, xindex : Nat]
  /\ cache.ino # 0 => cache.xad # 0

\* ntfs: read_block is in a run that has its block, or at its end.
Bytes == Seq(Int \X Int)
NtfsInv ==
  /\ cache \in [save_pos : Nat \cup {NoPos}, sbuf : {cache.sbuf}, run : Nat, target : Nat]
  /\ FileOpen \/ call.op = "blocks" =>
       /\ cache.sbuf \in Bytes
       /\ filemax = IF Node(call.ino).type = "dir" THEN 0 ELSE Node(call.ino).size
       /\ cache.save_pos # NoPos => Len(cache.sbuf) = BlockBytes
       /\ ~volume.excused => BufferTrue
  /\ call.op = "reading" => call.buf = <<>>
  /\ call.op = "blocks" =>
       /\ call.buf \in Bytes /\ Len(call.buf) <= filepos
       /\ call.left > 0 =>
            /\ cache.run \in DOMAIN Runs(call.ino)
            /\ NtfsRun.off <= cache.target /\ cache.target <= NtfsRun.off + NtfsRun.len
            /\ cache.target = filepos \div BlockBytes

\* pxe: where the firmware is, the buffer begins, and the bytes go.
BufStart == cache.server - cache.read_ofs
There == BufStart + cache.cur_ofs
Coming == cache.server + cache.nb * Blk + cache.cur_ofs
PxeOpen == FileOpen \/ call.op \in {"pxe", "packets"}
PxeBytes == Seq({ByteOf(Node(call.ino), p) : p \in 0 .. filemax - 1})
PxeForm ==
  /\ cache \in [opened : BOOLEAN, saved_pos : Nat, cur_ofs : Nat, read_ofs : 0..PxeBufLen,
                data : {cache.data}, server : Nat, skip : BOOLEAN, len : Nat, nb : Nat]
  /\ DOMAIN cache.data = 0..PxeBufLen - 1
PxeInv ==
  /\ PxeForm
  /\ PxeOpen =>
       /\ cache.read_ofs <= cache.server /\ cache.server <= filemax
       /\ \A i \in 0..cache.read_ofs - 1 : cache.data[i] = ByteOf(Node(call.ino), BufStart + i)
  /\ FileOpen => cache.saved_pos = There
  /\ FileOpen \/ call.op = "pxe" => cache.cur_ofs <= cache.read_ofs
  /\ call.op = "reading" => call.buf = <<>>
  /\ call.op \in {"pxe", "packets"} =>
       IF cache.skip THEN call.buf = <<>> ELSE call.buf \in PxeBytes
  /\ call.op = "pxe" =>
       IF cache.skip THEN There + cache.len = filepos
       ELSE There = filepos + Len(call.buf) /\ There + cache.len = filepos + call.left
  /\ call.op = "packets" =>
       /\ cache.cur_ofs < Blk
       /\ cache.nb > 0 => cache.read_ofs + Blk <= PxeBufLen
       /\ IF cache.skip THEN Coming = filepos
          ELSE cache.server = filepos + Len(call.buf) /\ Coming = filepos + call.left

\* reiserfs: a slot has the node that blocks says, until a node that is none
\* was read, which ends the call; on the way down every node has its level.
SlotsTrue == \A d \in DOMAIN cache.blocks :
  d < CachedSlots /\ cache.blocks[d] # 0 => cache.slot[d] = Translated(cache.blocks[d])
ReiserForm ==
  /\ cache \in [slot : {cache.slot}, blocks : {cache.blocks}, next_key_nr : {cache.next_key_nr},
                cur : {cache.cur}, file : {cache.file}, depth : Nat,
                goal : {"stat", "link", "file", "entries", "read"}]
  /\ DOMAIN cache.slot = 1..CachedSlots /\ DOMAIN cache.blocks = 1..MaxHeight - 1
ReiserInv ==
  /\ ReiserForm
  /\ call.op \in {"items", "done"} => cache.goal = "read"
  /\ call.op = "item" => cache.goal # "read"
  /\ call.op \in {"next", "descend", "item"} => cache.goal # "stat"
  /\ call.op \in {"next", "descend", "item"} /\ cache.goal = "entries" =>
       Node(call.ino).type = "dir"
  /\ call.op = "tree" => cache.depth \in 1..Height
  /\ ~volume.excused =>
       /\ call.op \notin {"idle", "failed"} \/ errnum = None => SlotsTrue
       /\ call.op = "tree" => NodeAt(cache.depth).level = cache.depth

Inv ==
  /\ Call /\ At
  /\ fsys_type = "fat" => FatInv
  /\ fsys_type \in {"ext2", "minix"} => MapsInv
  /\ fsys_type = "iso9660" => IsoInv
  /\ fsys_type = "list" => ListInv
  /\ fsys_type \in {"jfs", "xfs"} => ExtentsInv
  /\ fsys_type = "ntfs" => NtfsInv
  /\ fsys_type = "pxe" => PxeInv
  /\ fsys_type = "reiserfs" => ReiserInv
---------------------------------------------------------------------------
\* The volume of a call that runs is one of those assumed.
LEMMA Running ==
  ASSUME Call, call.op # "idle"
  PROVE  /\ fsys_type \in Formats /\ NodesTyped(volume)
         /\ fsys_type \in {"list", "pxe"} => FindsFiles(volume)
         /\ fsys_type \in {"list", "jfs", "xfs", "ntfs"} => RunsTyped(volume)
         /\ fsys_type = "fat" => FatTyped(volume)
         /\ fsys_type = "iso9660" => IsoTyped(volume)
         /\ fsys_type = "list" => ListTyped(volume)
         /\ fsys_type = "ntfs" => NtfsTyped(volume)
         /\ fsys_type = "pxe" => PxeTyped(volume)
         /\ fsys_type = "reiserfs" => TreeTyped(volume) /\ (~volume.excused => TreeSound(volume))
  BY VolumesAssumption DEF Call, AtNode

\* The ops that every format has.
LEMMA Always ==
  \A format : {"idle", "opened", "read", "failed", "inode", "reading"} \subseteq OpsOf(format)
  BY DEF OpsOf

---------------------------------------------------------------------------
(* Numbers: a position is in block p \div b, at p % b. *)

LEMMA DivMod ==
  ASSUME NEW b \in Nat \ {0}, NEW p \in Nat
  PROVE  /\ p \div b \in Nat /\ p % b \in 0 .. b - 1 /\ p = b * (p \div b) + (p % b)
         /\ p = (p \div b) * b + (p % b) /\ p \div b <= p
<1>1. p % b \in 0 .. b - 1
  BY SMT
<1>2. p = b * (p \div b) + (p % b) /\ p \div b \in Nat
  BY SMT
<1>3. PICK q \in Nat : q = p \div b
  BY <1>2
<1>4. b * q = q * b /\ q <= b * q
  BY SMT
<1> QED BY <1>1, <1>2, <1>3, <1>4

\* Of two places in products, the one in the lower is the lower.
LEMMA LessTimes ==
  ASSUME NEW b \in Nat, NEW m \in Int, NEW n \in Int, m < n
  PROVE  m * b + b <= n * b
<1>1. PICK k \in Nat : n = m + 1 + k
  <2>1. n - m - 1 \in Nat /\ n = m + 1 + (n - m - 1)
    OBVIOUS
  <2> QED BY <2>1
<1>2. n * b = m * b + b + k * b
  BY <1>1, SMT
<1>3. k * b \in Nat /\ m * b \in Int
  BY SMT
<1> QED BY <1>2, <1>3

LEMMA DivOf ==
  ASSUME NEW b \in Nat \ {0}, NEW q \in Nat, NEW r \in 0 .. b - 1
  PROVE  (q * b + r) \div b = q /\ (q * b + r) % b = r
<1>1. q * b + r \in Nat
  BY SMT
<1> DEFINE p == q * b + r
<1>2. /\ p \div b \in Nat /\ p % b \in 0 .. b - 1
      /\ p = b * (p \div b) + (p % b)
  BY <1>1, DivMod
<1>3. p = (p \div b) * b + (p % b)
  BY <1>2, SMT
<1>4. p \in Nat /\ p = q * b + r
  BY <1>1
<1> HIDE DEF p
<1>5. (p \div b) * b \in Int /\ q * b \in Int
  BY <1>2, SMT
<1>6. ~(p \div b < q)
  BY <1>2, <1>3, <1>4, <1>5, LessTimes
<1>7. ~(q < p \div b)
  BY <1>2, <1>3, <1>4, <1>5, LessTimes
<1> QED BY <1>2, <1>3, <1>4, <1>5, <1>6, <1>7 DEF p

LEMMA DivBelow ==
  ASSUME NEW b \in Nat \ {0}, NEW p \in Nat, NEW n \in Nat, p < n * b
  PROVE  p \div b < n
<1>1. p \div b \in Nat /\ p % b \in 0 .. b - 1 /\ p = (p \div b) * b + (p % b)
  BY DivMod
<1>2. (p \div b) * b \in Int /\ n * b \in Int
  BY <1>1, SMT
<1>3. n <= p \div b => n * b <= (p \div b) * b
  <2>1. n = p \div b => n * b = (p \div b) * b
    OBVIOUS
  <2>2. n < p \div b => n * b + b <= (p \div b) * b
    BY <1>1, LessTimes
  <2> QED BY <1>1, <1>2, <2>1, <2>2
<1> QED BY <1>1, <1>2, <1>3

LEMMA DivMono ==
  ASSUME NEW b \in Nat \ {0}, NEW p \in Nat, NEW q \in Nat, p <= q
  PROVE  p \div b <= q \div b
<1>1. q \div b \in Nat /\ q % b \in 0 .. b - 1 /\ q = (q \div b) * b + (q % b)
  BY DivMod
<1>2. q < (q \div b + 1) * b
  <2>1. (q \div b + 1) * b = (q \div b) * b + b
    BY <1>1, SMT
  <2> QED BY <1>1, <2>1, SMT
<1>3. p \div b < q \div b + 1
  <2>1. q \div b + 1 \in Nat /\ p < (q \div b + 1) * b
    BY <1>1, <1>2, SMT
  <2> QED BY <2>1, DivBelow
<1> QED BY <1>1, <1>3, DivMod

LEMMA DivAdd ==
  ASSUME NEW b \in Nat \ {0}, NEW p \in Nat, NEW k \in Nat
  PROVE  (p + k * b) \div b = p \div b + k /\ (p + k * b) % b = p % b
<1>1. p \div b \in Nat /\ p % b \in 0 .. b - 1 /\ p = (p \div b) * b + (p % b)
  BY DivMod
<1>2. p + k * b = (p \div b + k) * b + (p % b)
  <2>1. PICK q \in Nat : q = p \div b
    BY <1>1
  <2>2. (q + k) * b = q * b + k * b
    BY SMT
  <2>3. q * b \in Nat /\ k * b \in Nat
    BY SMT
  <2> QED BY <1>1, <2>1, <2>2, <2>3
<1>3. PICK m \in Nat, r \in 0 .. b - 1 : m = p \div b + k /\ r = p % b
  BY <1>1
<1>4. (m * b + r) \div b = m /\ (m * b + r) % b = r
  BY DivOf
<1> QED BY <1>2, <1>3, <1>4

---------------------------------------------------------------------------
(* Sets of numbers: induction, from the pigeonhole principle, and a least number. *)

LEMMA NatSet ==
  ASSUME NEW S, 0 \in S, \A n \in Nat : n \in S => n + 1 \in S
  PROVE  Nat \subseteq S
<1> SUFFICES ASSUME NEW m \in Nat, m \notin S PROVE FALSE
  OBVIOUS
<1> DEFINE T == {k \in 0 .. m : k \in S}
           U == T \ {0}
           f == [k \in T |-> k + 1]
<1>1. IsFiniteSet(T)
  <2>1. IsFiniteSet(0 .. m)
    BY FS_Interval
  <2>2. T \subseteq 0 .. m
    OBVIOUS
  <2> QED BY <2>1, <2>2, FS_Subset
<1>2. 0 \in T
  OBVIOUS
<1>3. IsFiniteSet(U) /\ Cardinality(U) = Cardinality(T) - 1
  BY <1>1, <1>2, FS_RemoveElement
<1>4. Cardinality(U) < Cardinality(T)
  BY <1>1, <1>3, FS_CardinalityType
<1>5. f \in [T -> U]
  <2> SUFFICES ASSUME NEW k \in T PROVE k + 1 \in U
    OBVIOUS
  <2>1. k \in Nat /\ k <= m /\ k \in S
    OBVIOUS
  <2>2. k + 1 \in S
    BY <2>1
  <2>3. k # m
    BY <2>1
  <2> QED BY <2>1, <2>2, <2>3
<1>6. \E x, y \in T : x # y /\ f[x] = f[y]
  <2>1. IsFiniteSet(U)
    BY <1>3
  <2> HIDE DEF T, U, f
  <2> QED BY <1>1, <2>1, <1>4, <1>5, FS_PigeonHole
<1>7. \A x, y \in T : f[x] = f[y] => x = y
  OBVIOUS
<1> QED BY <1>6, <1>7

LEMMA LeastOf ==
  ASSUME NEW S \in SUBSET Nat, S # {}
  PROVE  \E i \in S : \A j \in S : i <= j
<1> SUFFICES ASSUME \A i \in S : \E j \in S : ~(i <= j)
             PROVE  FALSE
  OBVIOUS
<1> DEFINE U == {n \in Nat : \A m \in 0..n : m \notin S}
<1>1. 0 \in U
  OBVIOUS
<1>2. ASSUME NEW n \in Nat, n \in U
      PROVE  n + 1 \in U
  <2>1. ASSUME n + 1 \in S PROVE FALSE
    <3>1. PICK j \in S : ~(n + 1 <= j)
      BY <2>1
    <3>2. j \in 0..n
      BY <3>1
    <3> QED BY <1>2, <3>1, <3>2
  <2>2. \A m \in 0..n + 1 : m \in 0..n \/ m = n + 1
    OBVIOUS
  <2> QED BY <1>2, <2>1, <2>2
<1>3. Nat \subseteq U
  <2> HIDE DEF U
  <2> QED BY <1>1, <1>2, NatSet
<1>4. PICK n \in S : TRUE
  OBVIOUS
<1>5. n \in U /\ n \in 0..n
  BY <1>3
<1> QED BY <1>5

---------------------------------------------------------------------------
(* What grub_open, grub_read and their callers do themselves. *)

\* An invariant of a format says nothing of a call that has not begun to look
\* for its file; cache, volume and format are as they were, but for the
\* history of a fat.
LEMMA BeginsKeeps ==
  ASSUME Inv, Call', At', UNCHANGED <<volume, fsys_type, errnum>>,
         IF fsys_type = "fat" THEN FatForm' ELSE UNCHANGED cache,
         call.op \in {"idle", "failed", "opened", "read"},
         call'.op = "idle" \/ (call'.op = "inode" /\ call'.ino = Root /\ errnum = None)
  PROVE  Inv'
<1>1. fsys_type = "fat" => FatInv'
  BY DEF FatInv, CursorTrue, FileOpen
<1>2. fsys_type \in {"ext2", "minix"} => MapsInv'
  BY DEF Inv, MapsInv, TablesTrue, FileOpen
<1>3. fsys_type = "list" => ListInv'
  BY DEF Inv, ListInv, CursorTrue, FileOpen
<1>4. fsys_type \in {"jfs", "xfs"} => ExtentsInv'
  BY DEF Inv, ExtentsInv, Nodes
<1>5. fsys_type = "ntfs" => NtfsInv'
  BY DEF Inv, NtfsInv, FileOpen
<1>6. fsys_type = "pxe" => PxeInv'
  BY DEF Inv, PxeInv, PxeForm, PxeOpen, FileOpen
<1>7. fsys_type = "reiserfs" => ReiserInv'
  BY DEF Inv, ReiserInv, ReiserForm, SlotsTrue, Translated
<1>8. fsys_type = "iso9660" => IsoInv'
  BY DEF IsoInv
<1> QED BY <1>1, <1>2, <1>3, <1>4, <1>5, <1>6, <1>7, <1>8 DEF Inv

LEMMA OpenKeeps ==
  ASSUME Inv, NEW path \in Paths, Open(path)
  PROVE  Inv'
<1>1. Call'
  <2>1. fsys_type \in Formats /\ volume \in Volumes
    BY VolumesAssumption DEF Inv, Call, Open, NoVolume, None
  <2>2. CallTyped'
    BY <2>1 DEF Inv, Call, CallTyped, Open, Idle, OpsOf
  <2>3. AtNode'
    BY <2>1, VolumesAssumption DEF Inv, Call, Open, Idle, AtNode, Nodes, Node, NodesTyped, Root
  <2>4. call'.op \in OpsOf(fsys_type)
    BY Always DEF Open, Idle
  <2> QED BY <2>1, <2>2, <2>3, <2>4 DEF Inv, Call, Open
<1>2. At'
  BY DEF Inv, At, Open, Idle
<1>3. call.op \in {"idle", "opened", "read", "failed"} /\ call'.op = "inode" /\ call'.ino = Root
  BY DEF Open, Busy, Idle
<1>4. IF fsys_type = "fat" THEN FatForm' ELSE UNCHANGED cache
  BY DEF Inv, FatInv, FatForm, Open
<1> QED BY <1>1, <1>2, <1>3, <1>4, BeginsKeeps DEF Open

LEMMA CloseKeeps ==
  ASSUME Inv, Close, fsys_type # "pxe"
  PROVE  Inv'
<1>1. Call'
  BY DEF Inv, Call, CallTyped, Close, Idle, OpsOf
<1>2. At'
  BY DEF Inv, At, Close, Idle, Looking, Call, CallTyped
<1>3. call.op \in {"opened", "read", "failed"} /\ call'.op = "idle"
  BY DEF Close, Idle
<1>4. IF fsys_type = "fat" THEN FatForm' ELSE UNCHANGED cache
  BY DEF Inv, FatInv, FatForm, Close
<1> QED BY <1>1, <1>2, <1>3, <1>4, BeginsKeeps DEF Close

LEMMA PxeCloseKeeps ==
  ASSUME Inv, Close, fsys_type = "pxe"
  PROVE  Inv'
<1>1. Call'
  BY DEF Inv, Call, CallTyped, Close, Idle, OpsOf
<1>2. At'
  BY DEF Inv, At, Close, Idle, Looking, Call, CallTyped
<1>3. PxeInv'
  BY DEF Inv, PxeInv, PxeForm, PxeOpen, FileOpen, Close, Idle
<1> QED BY <1>1, <1>2, <1>3 DEF Inv, Close

\* A file that is open: nothing of what is kept depends on the position.
LEMMA OpenFileKeeps ==
  ASSUME Inv, Call', At', UNCHANGED <<cache, volume, fsys_type, errnum, filemax>>,
         call'.ino = call.ino, call'.name = call.name, call.op \in {"opened", "read"},
         \/ call'.op = "opened"
         \/ call'.op = "reading" /\ call'.buf = <<>>
  PROVE  Inv'
<1>1. fsys_type = "fat" => FatInv'
  BY DEF Inv, FatInv, FatForm, CursorTrue, FileOpen, Node, Nodes
<1>2. fsys_type \in {"ext2", "minix"} => MapsInv'
  BY DEF Inv, MapsInv, TablesTrue, FileOpen, Top, Node, Nodes
<1>3. fsys_type = "list" => ListInv'
  BY DEF Inv, ListInv, CursorTrue, FileOpen, Runs, Node, Nodes
<1>4. fsys_type \in {"jfs", "xfs"} => ExtentsInv'
  BY DEF Inv, ExtentsInv, Nodes
<1>5. fsys_type = "ntfs" => NtfsInv'
  BY DEF Inv, NtfsInv, FileOpen, BufferTrue, Node, Nodes
<1>6. fsys_type = "pxe" => PxeInv'
  BY DEF Inv, PxeInv, PxeForm, PxeOpen, FileOpen, BufStart, There, Node, Nodes
<1>7. fsys_type = "reiserfs" => ReiserInv'
  BY DEF Inv, ReiserInv, ReiserForm, SlotsTrue, Translated
<1>8. fsys_type = "iso9660" => IsoInv'
  BY DEF IsoInv
<1> QED BY <1>1, <1>2, <1>3, <1>4, <1>5, <1>6, <1>7, <1>8 DEF Inv

LEMMA SeekKeeps ==
  ASSUME Inv, NEW p \in 0..filemax, SeekTo(p)
  PROVE  Inv'
<1>1. Call'
  BY DEF Inv, Call, CallTyped, SeekTo, Returned, OpsOf, AtNode, Nodes, Node
<1>2. At'
  BY DEF Inv, At, SeekTo, Returned, Looking, Call, CallTyped
<1> QED BY <1>1, <1>2, OpenFileKeeps DEF SeekTo, Returned, Inv, Call, CallTyped

LEMMA ReadKeeps ==
  ASSUME Inv, NEW n \in Lens, Read(n)
  PROVE  Inv'
<1>1. Lesser(n, filemax - filepos) \in Nat
  BY LensAssumption DEF Inv, At, Call, CallTyped, Lesser
<1>2. Call'
  BY <1>1 DEF Inv, Call, CallTyped, Read, OpsOf, AtNode, Nodes, Node
<1>3. At'
  BY LensAssumption DEF Inv, At, Read, Looking, Call, CallTyped, Lesser
<1> QED BY <1>2, <1>3, OpenFileKeeps DEF Read, Inv, Call, CallTyped

LEMMA MountKeeps ==
  ASSUME Inv, NEW v \in Volumes, Mount(v)
  PROVE  Inv'
<1>1. Call' /\ At'
  BY DEF Inv, Call, CallTyped, Mount, Idle, OpsOf, At, Looking
<1>2. cache' = Mounted(fsys_type') /\ call'.op = "idle"
  BY DEF Mount, Idle
<1>3. fsys_type' = "fat" => FatInv'
  BY <1>2 DEF FatInv, FatForm, CursorTrue, FileOpen, Mounted, FatMounted
<1>4. fsys_type' \in {"ext2", "minix"} => MapsInv'
  BY <1>2 DEF MapsInv, TablesTrue, FileOpen, Mounted, MapsUnset
<1>5. fsys_type' = "list" => ListInv'
  BY <1>2 DEF ListInv, CursorTrue, FileOpen, Mounted, ListStart
<1>6. fsys_type' \in {"jfs", "xfs"} => ExtentsInv'
  BY <1>2 DEF ExtentsInv, Mounted, ExtentsUnset
<1>7. fsys_type' = "ntfs" => NtfsInv'
  BY <1>2 DEF NtfsInv, FileOpen, Mounted, NtfsMounted, Bytes
<1>8. fsys_type' = "pxe" => PxeInv'
  BY <1>2, PxeAssumption DEF PxeInv, PxeForm, PxeOpen, FileOpen, Mounted, PxeMounted
<1>9. fsys_type' = "reiserfs" => ReiserInv'
  BY <1>2, ReiserAssumption DEF ReiserInv, ReiserForm, SlotsTrue, Mounted, ReiserMounted, MaxHeight
<1>10. fsys_type' = "iso9660" => IsoInv'
  BY <1>2 DEF IsoInv
<1> QED BY <1>1, <1>3, <1>4, <1>5, <1>6, <1>7, <1>8, <1>9, <1>10 DEF Inv

LEMMA UnmountedInv ==
  ASSUME fsys_type = None, volume = NoVolume, call = Idle, filepos = 0, filemax = 0
  PROVE  Inv
  BY DEF Inv, Call, CallTyped, At, Idle, OpsOf, Looking, None, NoVolume

LEMMA MountFailsKeeps == ASSUME MountFails PROVE Inv'
  BY DEF MountFails, Inv, Call, CallTyped, At, Idle, OpsOf, Looking, None, NoVolume

---------------------------------------------------------------------------
(* What the operations that the formats share leave behind. *)

LEMMA CallStays ==
  ASSUME Call, call.op # "idle", UNCHANGED <<volume, fsys_type>>,
         CallTyped', call'.op \in OpsOf(fsys_type), call'.name = call.name,
         call'.ino \in DOMAIN Nodes, call'.updir \in DOMAIN Nodes,
         call'.op \in {"search", "entry"} => Node(call'.ino).type = "dir"
  PROVE  Call'
  BY DEF Call, AtNode, Nodes, Node

\* The call returns, or goes on with more in its buffer.
LEMMA CallGoesOn ==
  ASSUME Call, call.op # "idle", UNCHANGED <<volume, fsys_type>>, NEW op \in OpsOf(fsys_type),
         op \notin {"search", "entry"}, NEW buf, NEW left \in Nat, NEW lost \in BOOLEAN,
         call' = [call EXCEPT !.op = op, !.buf = buf, !.left = left, !.lost = lost]
  PROVE  Call' /\ call'.op = op /\ call'.left = left /\ call'.buf = buf /\ call'.ino = call.ino
<1>1. CallTyped' /\ call'.op = op /\ call'.left = left /\ call'.buf = buf
      /\ call'.ino = call.ino /\ call'.name = call.name /\ call'.updir = call.updir
  BY DEF Call, CallTyped
<1> QED BY <1>1, CallStays DEF Call, AtNode

LEMMA DirFailsKeeps ==
  ASSUME Call, At, call.op # "idle", NEW e, NEW ok \in BOOLEAN, DirFails(e, ok)
  PROVE  /\ Call' /\ At' /\ UNCHANGED <<volume, fsys_type>>
         /\ call'.op = "failed" /\ errnum' = e
<1>1. call' = [call EXCEPT !.op = "failed", !.buf = <<>>, !.left = 0, !.lost = call.lost \/ ~ok]
  BY DEF DirFails, Returned, Call, CallTyped
<1>2. "failed" \in OpsOf(fsys_type) /\ (call.lost \/ ~ok) \in BOOLEAN
      /\ UNCHANGED <<volume, fsys_type>>
  BY Always DEF DirFails, Call, CallTyped
<1>3. Call' /\ call'.op = "failed" /\ call'.left = 0
  BY <1>1, <1>2, CallGoesOn
<1> QED BY <1>3 DEF DirFails, At, Looking, Call, CallTyped

LEMMA ReadFailsKeeps ==
  ASSUME Call, At, call.op # "idle", NEW e, NEW ok \in BOOLEAN, ReadFails(e, ok)
  PROVE  /\ Call' /\ At' /\ UNCHANGED <<volume, fsys_type>>
         /\ call'.op = "failed" /\ errnum' = e
  BY DirFailsKeeps DEF ReadFails, DirFails

LEMMA DirFindsKeeps ==
  ASSUME Call, At, call.op # "idle", call.left = 0, NEW ino \in DOMAIN Nodes, DirFinds(ino)
  PROVE  /\ Call' /\ At' /\ UNCHANGED <<volume, fsys_type>>
         /\ call'.op = "opened" /\ call'.ino = ino /\ filemax' = Node(ino).size
<1>1. Node(ino).size \in Nat
  BY Running DEF NodesTyped, Node, Nodes
<1>2. CallTyped' /\ call'.op = "opened" /\ call'.left = 0
      /\ call'.ino = ino /\ call'.name = call.name /\ call'.updir = call.updir
  BY DEF DirFinds, Call, CallTyped
<1>3. Call'
  BY <1>2, CallStays, Always DEF Call, AtNode, DirFinds
<1> QED BY <1>1, <1>2, <1>3 DEF DirFinds, At, Looking

LEMMA AdvanceKeeps ==
  ASSUME Call, At, call.op # "idle", NEW op \in OpsOf(fsys_type), NEW b, NEW offset,
         NEW n \in 0..call.left, AdvanceTo(op, b, offset, n),
         op \in {"reading", "chain", "extents", "items", "done"}
  PROVE  /\ Call' /\ At' /\ UNCHANGED <<volume, fsys_type, filemax>>
         /\ call'.op = op /\ call'.ino = call.ino /\ filepos' = filepos + n
         /\ call'.left = call.left - n
<1>1. PICK ok \in BOOLEAN :
        call' = [call EXCEPT !.buf = @ \o IF ok THEN DiskBytes(b, offset, n) ELSE Junk(n),
                             !.left = @ - n, !.lost = @ \/ ~ok, !.op = op]
  BY DEF AdvanceTo
<1> DEFINE buf == call.buf \o IF ok THEN DiskBytes(b, offset, n) ELSE Junk(n)
<1>2. call' = [call EXCEPT !.op = op, !.buf = buf, !.left = call.left - n, !.lost = call.lost \/ ~ok]
  BY <1>1 DEF Call, CallTyped
<1>3. call.left - n \in Nat
  BY DEF Call, CallTyped
<1>4. Call' /\ call'.op = op /\ call'.ino = call.ino /\ call'.left = call.left - n
  <2> HIDE DEF buf
  <2> QED BY <1>2, <1>3, CallGoesOn DEF AdvanceTo, Call, CallTyped
<1>5. At'
  BY <1>4 DEF AdvanceTo, At, Call, CallTyped, Looking
<1> QED BY <1>4, <1>5 DEF AdvanceTo

LEMMA ReturnKeeps ==
  ASSUME Call, At, call.op # "idle", NEW op \in {"read", "failed"}, NEW bytes, call' = Returned(op, bytes),
         UNCHANGED <<volume, fsys_type, filepos, filemax>>
  PROVE  Call' /\ At' /\ call'.op = op /\ call'.ino = call.ino
<1>1. CallTyped' /\ call'.op = op /\ call'.left = 0 /\ call'.ino = call.ino
      /\ call'.name = call.name /\ call'.updir = call.updir
  BY DEF Returned, Call, CallTyped
<1>2. op \in OpsOf(fsys_type)
  BY Always
<1>3. Call'
  BY <1>1, <1>2, CallStays DEF Call, AtNode
<1> QED BY <1>1, <1>3 DEF At, Looking, Call, CallTyped

LEMMA ReadReturnsKeeps ==
  ASSUME Call, At, call.op # "idle", ReadReturns
  PROVE  /\ Call' /\ At' /\ UNCHANGED <<volume, fsys_type, cache, filemax, errnum>>
         /\ \/ call'.op = "read" /\ call'.ino = call.ino /\ errnum = None
            \/ call'.op = "failed" /\ errnum # None
  BY ReturnKeeps DEF ReadReturns

LEMMA ShortReadKeeps ==
  ASSUME Call, At, call.op # "idle", NEW bytes, ShortRead(bytes)
  PROVE  /\ Call' /\ At' /\ UNCHANGED <<volume, fsys_type, filemax, errnum>>
         /\ call'.op = "read" /\ call'.ino = call.ino
  BY ReturnKeeps DEF ShortRead

LEMMA ReadDoneKeeps ==
  ASSUME Inv, ReadDone
  PROVE  Inv'
<1>1. /\ call.op = "reading" \/ (fsys_type = "fat" /\ call.op = "chain")
      /\ ReadReturns /\ fsys_type \notin {"ntfs", "pxe", "reiserfs"}
  BY DEF ReadDone, Inv, Call, CallTyped, OpsOf
<1>2. /\ Call' /\ At' /\ UNCHANGED <<volume, fsys_type, cache, filemax>>
      /\ \/ call'.op = "read" /\ call'.ino = call.ino
         \/ call'.op = "failed"
  BY <1>1, ReadReturnsKeeps DEF Inv
<1>3. fsys_type = "fat" => FatInv'
  BY <1>1, <1>2 DEF Inv, FatInv, FatForm, CursorTrue, FileOpen, Node, Nodes
<1>4. fsys_type \in {"ext2", "minix"} => MapsInv'
  BY <1>1, <1>2 DEF Inv, MapsInv, TablesTrue, FileOpen, Top, Node, Nodes
<1>5. fsys_type = "list" => ListInv'
  BY <1>1, <1>2 DEF Inv, ListInv, CursorTrue, FileOpen, Runs, Node, Nodes
<1>6. fsys_type \in {"jfs", "xfs"} => ExtentsInv'
  BY <1>1, <1>2 DEF Inv, ExtentsInv, Nodes
<1>7. fsys_type = "iso9660" => IsoInv'
  BY <1>2 DEF IsoInv
<1> QED BY <1>1, <1>2, <1>3, <1>4, <1>5, <1>6, <1>7 DEF Inv

\* An address of a directory's byte is that of one of its entries.
LEMMA EntryIsOne ==
  ASSUME NEW dir, NEW a, EntryAt(dir, a) # 0
  PROVE  EntryAt(dir, a) \in 1..dir.size
<1> DEFINE at == {i \in 1..dir.size : ByteOf(dir, i - 1) = a}
<1>1. at # {} /\ EntryAt(dir, a) = CHOOSE i \in at : TRUE
  BY DEF EntryAt
<1>2. (CHOOSE i \in at : TRUE) \in at
  BY <1>1
<1> QED BY <1>1, <1>2

\* An entry that is one of a directory leads to a node, if to any.
LEMMA EntryLeads ==
  ASSUME Call, call.op \in {"search", "entry"}, NEW a,
         EntryAt(Node(call.ino), a) # 0, Node(call.ino).inos[EntryAt(Node(call.ino), a)] # 0
  PROVE  Node(call.ino).inos[EntryAt(Node(call.ino), a)] \in DOMAIN Nodes
<1>1. NodesTyped(volume) /\ call.ino \in DOMAIN volume.nodes
      /\ volume.nodes[call.ino].type = "dir"
  BY Running DEF Call, AtNode, Nodes, Node
<1>2. EntryAt(Node(call.ino), a) \in 1..Node(call.ino).size
  BY EntryIsOne
<1>3. /\ DOMAIN volume.nodes = 1..Len(volume.nodes) /\ Len(volume.nodes) \in Nat
      /\ Node(call.ino).inos[EntryAt(Node(call.ino), a)] \in 0..Len(volume.nodes)
  BY <1>1, <1>2 DEF NodesTyped, Nodes, Node
<1> QED BY <1>3 DEF Nodes

---------------------------------------------------------------------------
(* The walk along a path. *)

LEMMA ChaseLinkKeeps ==
  ASSUME Call, At, call.op # "idle", call.left = 0, ChaseLink
  PROVE  /\ Call' /\ At' /\ UNCHANGED <<volume, fsys_type>>
         /\ call'.op = "inode" /\ errnum' = None
<1>1. Root \in DOMAIN Nodes /\ Node(call.ino).size \in Nat
  BY Running DEF NodesTyped, Call, AtNode, Nodes, Node, Root
<1>2. PICK from, path, links : from \in DOMAIN Nodes /\
        call' = [call EXCEPT !.op = "inode", !.links = links, !.path = path,
                             !.ino = from, !.updir = from]
  BY <1>1 DEF ChaseLink, Call, CallTyped, AtNode
<1>3. CallTyped' /\ call'.op = "inode" /\ call'.left = 0 /\ call'.ino \in DOMAIN Nodes
      /\ call'.name = call.name /\ call'.updir \in DOMAIN Nodes
  BY <1>2 DEF Call, CallTyped
<1>4. Call'
  BY <1>3, CallStays, Always DEF ChaseLink
<1> QED BY <1>1, <1>3, <1>4 DEF At, ChaseLink

LEMMA LoadedKeeps ==
  ASSUME Call, At, NEW loaded, call.op = "inode", InodeLoaded(loaded), "search" \in OpsOf(fsys_type)
  PROVE  /\ Call' /\ At' /\ UNCHANGED <<volume, fsys_type>>
         /\ call'.op \in {"failed", "inode", "search", "opened"} /\ cache' = loaded
<1>1. call.op = "inode" /\ call.left = 0 /\ call.ino \in DOMAIN Nodes
  BY DEF At, Looking, Call, AtNode
<1>2. CASE cache' = loaded /\ (LinkLoop \/ DirFails("filetype", TRUE))
  BY <1>1, <1>2, DirFailsKeeps DEF LinkLoop
<1>3. CASE cache' = loaded /\ ChaseLink
  BY <1>1, <1>3, ChaseLinkKeeps
<1>4. CASE cache' = loaded /\ DirFinds(call.ino)
  BY <1>1, <1>4, DirFindsKeeps
<1>5. CASE /\ cache' = loaded /\ Node(call.ino).type = "dir"
           /\ call' = [call EXCEPT !.op = "search", !.loc = 0, !.updir = call.ino]
           /\ UNCHANGED <<fsys_type, volume, filepos, filemax>>
  <2>1. CallTyped' /\ call'.op = "search" /\ call'.left = 0 /\ call'.ino = call.ino
        /\ call'.name = call.name /\ call'.updir = call.ino
    BY <1>1, <1>5 DEF Call, CallTyped
  <2>2. Call'
    BY <1>1, <1>5, <2>1, CallStays
  <2> QED BY <1>1, <1>5, <2>1, <2>2 DEF At, Looking
<1> QED BY <1>2, <1>3, <1>4, <1>5 DEF InodeLoaded

LEMMA WalkKeeps ==
  ASSUME Call, At, NEW loaded, WalkInode(loaded), "search" \in OpsOf(fsys_type)
  PROVE  /\ Call' /\ At' /\ UNCHANGED <<volume, fsys_type>>
         /\ \/ call'.op = "failed" /\ (cache' = loaded \/ cache' = cache)
            \/ call'.op \in {"inode", "search", "opened"} /\ cache' = loaded
<1>1. CASE InodeUnread \/ LinkUnread(loaded)
  BY <1>1, DirFailsKeeps DEF InodeUnread, LinkUnread, WalkInode
<1>2. CASE InodeLoaded(loaded)
  BY <1>2, LoadedKeeps DEF WalkInode
<1> QED BY <1>1, <1>2 DEF WalkInode

LEMMA SearchEndsKeeps ==
  ASSUME Call, At, SearchEnds
  PROVE  /\ Call' /\ At' /\ UNCHANGED <<volume, fsys_type, cache>>
         /\ call'.op = "failed"
  BY DirFailsKeeps DEF SearchEnds

LEMMA SeeEntryKeeps ==
  ASSUME Call, At, call.op = "search", NEW a, SeeEntry(a)
  PROVE  /\ Call' /\ At' /\ UNCHANGED <<volume, fsys_type>>
         /\ call'.op = "inode" \/ (call'.op = "search" /\ call'.ino = call.ino)
<1> DEFINE i == EntryAt(Node(call.ino), a)
<1>1. /\ "search" \in OpsOf(fsys_type) /\ call.left = 0
      /\ UNCHANGED <<volume, fsys_type, filepos, filemax>>
  BY DEF Call, At, Looking, SeeEntry
<1>2. CASE i # 0 /\ Node(call.ino).inos[i] # 0
           /\ call' = [call EXCEPT !.op = "inode", !.ino = Node(call.ino).inos[i],
                                   !.path = Tail(@)]
  <2>1. PICK ino, path : ino \in DOMAIN Nodes /\
          call' = [call EXCEPT !.op = "inode", !.ino = ino, !.path = path]
    BY <1>2, EntryLeads
  <2> HIDE DEF i
  <2>2. CallTyped' /\ call'.op = "inode" /\ call'.left = 0 /\ call'.ino = ino
        /\ call'.name = call.name /\ call'.updir = call.updir
    BY <1>1, <2>1 DEF Call, CallTyped
  <2>3. Call'
    BY <1>1, <2>1, <2>2, CallStays, Always DEF Call, AtNode
  <2> QED BY <1>1, <2>2, <2>3 DEF At, Looking
<1>3. CASE call' = [call EXCEPT !.loc = @ + 1]
  <2>2. CallTyped' /\ call'.op = "search" /\ call'.left = 0 /\ call'.ino = call.ino
        /\ call'.name = call.name /\ call'.updir = call.updir
    BY <1>1, <1>3 DEF Call, CallTyped
  <2>3. Call'
    BY <1>1, <2>2, CallStays DEF Call, AtNode
  <2> QED BY <1>1, <2>2, <2>3 DEF At, Looking
<1> HIDE DEF i
<1> QED BY <1>2, <1>3 DEF SeeEntry, i

\* A read that goes on where it is, with n bytes more.
LEMMA GoesOnReading ==
  ASSUME Call, At, call.op \notin {"idle", "inode", "search", "entry", "item", "tree", "next", "descend"},
         NEW n \in 0..call.left, NEW buf, NEW lost \in BOOLEAN,
         call' = [call EXCEPT !.buf = buf, !.left = call.left - n, !.lost = lost],
         filepos' = filepos + n, UNCHANGED <<fsys_type, volume, filemax>>
  PROVE  Call' /\ At' /\ call'.op = call.op /\ call'.ino = call.ino
<1>1. PICK left \in Nat : left = call.left - n
  BY DEF Call, CallTyped
<1>2. CallTyped' /\ call'.op = call.op /\ call'.left = left /\ call'.ino = call.ino
      /\ call'.name = call.name /\ call'.updir = call.updir
  BY <1>1 DEF Call, CallTyped
<1>3. Call'
  BY <1>2, CallStays DEF Call, AtNode
<1>4. filepos' \in Nat /\ filepos' + call'.left <= filemax'
  BY <1>1, <1>2 DEF At, Call, CallTyped
<1> QED BY <1>2, <1>3, <1>4 DEF At, Looking

LEMMA AdvanceHoleKeeps ==
  ASSUME Call, At, call.op = "reading", NEW n \in 0..call.left, AdvanceHole(n)
  PROVE  /\ Call' /\ At' /\ UNCHANGED <<volume, fsys_type>>
         /\ call'.op = "reading" /\ call'.ino = call.ino
<1> DEFINE buf == call.buf \o Zeroes(n)
<1>1. /\ call' = [call EXCEPT !.buf = buf, !.left = call.left - n, !.lost = call.lost]
      /\ call.lost \in BOOLEAN
  BY DEF AdvanceHole, Call, CallTyped
<1> HIDE DEF buf
<1> QED BY <1>1, GoesOnReading DEF AdvanceHole, Looking

---------------------------------------------------------------------------
(* fat. *)

\* The window is moved: all that is known of the chain stays, but where it
\* leads if the entry is not in the buffer.
LEMMA WindowMoved ==
  ASSUME FatForm, NEW w, NEW out \in BOOLEAN,
         cache' = [cache EXCEPT !.cached_fat = w, !.astray = @ \/ out]
  PROVE  /\ FatForm' /\ (cache'.astray <=> cache.astray \/ out)
         /\ cache'.current_cluster = cache.current_cluster
         /\ cache'.current_cluster_num = cache.current_cluster_num
<1>1. PICK gone \in BOOLEAN : (gone <=> cache.astray \/ out) /\ gone = (cache.astray \/ out)
  BY DEF FatForm
<1>2. cache' = [cache EXCEPT !.cached_fat = w, !.astray = gone]
  BY <1>1
<1> QED BY <1>1, <1>2 DEF FatForm

LEMMA FatLinkKeeps ==
  ASSUME Inv, fsys_type = "fat", NEW pos, FatLink(pos),
         \/ call.op = "chain" /\ call.left > 0 /\ pos = filepos
         \/ call.op = "search"
  PROVE  Call' /\ At' /\ FatInv' /\ fsys_type' = "fat"
<1> DEFINE entry  == cache.current_cluster
           hit    == InWindow(entry, cache.cached_fat)
           window == IF hit THEN cache.cached_fat ELSE entry - (entry % FatSector)
           moved  == [cache EXCEPT !.cached_fat = window,
                                   !.astray = @ \/ ~InBuffer(entry, window)]
<1>1. FatForm /\ InBuffer(entry, window) \in BOOLEAN
  BY DEF Inv, FatInv, InBuffer
<1>2. ASSUME cache' = moved
      PROVE  /\ FatForm' /\ (cache'.astray <=> cache.astray \/ ~InBuffer(entry, window))
             /\ cache'.current_cluster = cache.current_cluster
             /\ cache'.current_cluster_num = cache.current_cluster_num
  <2> DEFINE out == ~InBuffer(entry, window)
  <2>1. cache' = [cache EXCEPT !.cached_fat = window, !.astray = @ \/ out]
    BY <1>2
  <2>2. out \in BOOLEAN
    BY <1>1
  <2> HIDE DEF entry, window, moved, out
  <2>3. FatForm' /\ (cache'.astray <=> cache.astray \/ out)
        /\ cache'.current_cluster = cache.current_cluster
        /\ cache'.current_cluster_num = cache.current_cluster_num
    BY <1>1, <2>1, <2>2, WindowMoved
  <2> QED BY <2>3 DEF out
<1>3. CASE cache' = moved /\ (ReadFails("read", FALSE) \/ ReadFails("corrupt", TRUE))
  <2> HIDE DEF moved
  <2> QED BY <1>2, <1>3, ReadFailsKeeps DEF Inv, FatInv, CursorTrue, FileOpen
<1>4. CASE cache' = moved /\ DirFails("not found", TRUE)
  <2> HIDE DEF moved
  <2> QED BY <1>2, <1>4, DirFailsKeeps DEF Inv, FatInv, CursorTrue, FileOpen
<1>5. CASE cache' = moved /\ call.op # "search" /\ ShortRead(call.buf)
  <2>1. /\ Call' /\ At' /\ UNCHANGED <<volume, fsys_type, filemax>>
        /\ call'.op = "read" /\ call'.ino = call.ino
    BY <1>5, ShortReadKeeps DEF Inv
  <2> HIDE DEF moved
  <2> QED BY <1>2, <2>1, <1>5 DEF Inv, FatInv, CursorTrue, FileOpen, Node, Nodes
<1>6. ASSUME NEW next \in WindowEntries(entry, window), next \in 2..NumClust - 1,
             cache' = [moved EXCEPT !.current_cluster = next, !.current_cluster_num = @ + 1],
             UNCHANGED <<fsys_type, volume, filepos, filemax, errnum, call>>
      PROVE  Call' /\ At' /\ FatInv' /\ fsys_type' = "fat"
  <2>1. Call' /\ At'
    BY <1>6 DEF Inv, Call, CallTyped, AtNode, Nodes, Node, At, Looking
  <2>2. /\ FatForm'
        /\ cache'.current_cluster = next
        /\ cache'.current_cluster_num = cache.current_cluster_num + 1
        /\ cache'.astray <=> cache.astray \/ ~InBuffer(entry, window)
    <3>1. PICK gone \in BOOLEAN : /\ gone <=> cache.astray \/ ~InBuffer(entry, window)
                                  /\ gone = (cache.astray \/ ~InBuffer(entry, window))
      BY <1>1 DEF FatForm
    <3>2. PICK w : cache' = [[cache EXCEPT !.cached_fat = w, !.astray = gone]
                              EXCEPT !.current_cluster = next,
                                     !.current_cluster_num = cache.current_cluster_num + 1]
      BY <1>1, <1>6, <3>1 DEF FatForm
    <3>3. cache' = [cached_fat |-> w, current_cluster |-> next, astray |-> gone,
                    current_cluster_num |-> cache.current_cluster_num + 1]
      BY <1>1, <3>2 DEF FatForm
    <3> HIDE DEF entry, window
    <3> QED BY <1>1, <3>1, <3>3 DEF FatForm
  <2>3. CASE call.op = "search"
    BY <1>6, <2>1, <2>2, <2>3 DEF FatInv, CursorTrue, FileOpen
  <2>4. CASE call.op = "chain" /\ call.left > 0 /\ pos = filepos
    <3> DEFINE num == cache.current_cluster_num
               blocks == Node(call.ino).blocks
    <3>1. /\ filepos \in Nat /\ filepos < filemax /\ filemax = Node(call.ino).size
          /\ Node(call.ino).type = "file" /\ num \in Nat
      BY <2>4 DEF Inv, At, Call, CallTyped, FatInv, FatForm
    <3>2. filemax <= Len(blocks) * BlockBytes /\ Len(blocks) \in Nat /\ filemax \in Nat
      BY <3>1, <2>4, Running DEF Inv, Call, AtNode, NodesTyped, Node, Nodes
    <3>3. filepos \div BlockBytes < Len(blocks) /\ filepos \div BlockBytes <= filepos
          /\ filepos \div BlockBytes \in Nat
      <4>1. filepos < Len(blocks) * BlockBytes
        BY <3>1, <3>2, BlockBytesAssumption, SMT
      <4> QED BY <3>1, <3>2, <4>1, BlockBytesAssumption, DivBelow, DivMod
    <3>4. num + 1 <= filepos \div BlockBytes
      <4>1. pos \div BlockBytes > cache.current_cluster_num
        BY Zenon DEF FatLink
      <4> QED BY <2>4, <3>1, <3>3, <4>1
    <3>5. ASSUME ~volume.excused, ~cache'.astray
          PROVE  next = blocks[num + 2]
      <4>0. /\ call.ino \in DOMAIN volume.nodes /\ FatTyped(volume)
            /\ call.ino # Root
        BY <2>4, <3>1, Running DEF Inv, Call, AtNode, Nodes, Node, NodesTyped
      <4>1. num # MaxInt
        <5>1. filemax < MaxInt
          BY <3>1, <4>0 DEF FatTyped, Node, Nodes
        <5> QED BY <5>1, <3>1, <3>2, <3>3, <3>4 DEF MaxInt
      <4>2. cache.current_cluster = blocks[num + 1]
        BY <2>2, <2>4, <4>1, <3>5 DEF Inv, FatInv, CursorTrue
      <4>3. next = volume.fat[cache.current_cluster]
        <5> HIDE DEF window
        <5> QED BY <1>6, <2>2, <3>5 DEF WindowEntries, FatEntry
      <4>4. num + 1 \in 1..Len(blocks) - 1 /\ num + 1 + 1 = num + 2
        BY <3>1, <3>2, <3>3, <3>4
      <4>5. \A i \in 1..Len(blocks) - 1 : volume.fat[blocks[i]] = blocks[i + 1]
        BY <4>0, <3>5 DEF FatTyped, Node, Nodes
      <4>6. volume.fat[blocks[num + 1]] = blocks[num + 1 + 1]
        <5> HIDE DEF blocks, num
        <5> QED BY <4>4, <4>5
      <4> QED BY <4>2, <4>3, <4>4, <4>6
    <3>6. ~volume'.excused /\ ~cache'.astray => CursorTrue'
      BY <1>6, <2>2, <2>4, <3>1, <3>5 DEF CursorTrue, Node, Nodes
    <3>7. call' = call /\ filepos' = filepos /\ filemax' = filemax /\ volume' = volume
      BY <1>6
    <3> QED BY <1>6, <2>1, <2>2, <2>4, <3>1, <3>3, <3>4, <3>6, <3>7 DEF FatInv, Node, Nodes
  <2> QED BY <2>3, <2>4
<1>7. \/ cache' = moved /\ (ReadFails("read", FALSE) \/ ReadFails("corrupt", TRUE))
      \/ cache' = moved /\ DirFails("not found", TRUE)
      \/ cache' = moved /\ call.op # "search" /\ ShortRead(call.buf)
      \/ \E next \in WindowEntries(entry, window) :
           /\ next \in 2..NumClust - 1
           /\ cache' = [moved EXCEPT !.current_cluster = next, !.current_cluster_num = @ + 1]
           /\ UNCHANGED <<fsys_type, volume, filepos, filemax, errnum, call>>
  BY Zenon DEF FatLink, EndOfChain
<1> HIDE DEF moved, window, entry
<1> QED BY <1>3, <1>4, <1>5, <1>6, <1>7

LEMMA FatBeginKeeps ==
  ASSUME Inv, fsys_type = "fat", FatBegin
  PROVE  Call' /\ At' /\ FatInv' /\ fsys_type' = "fat"
<1>1. Call' /\ At' /\ call'.op = "chain" /\ call'.ino = call.ino
  BY DEF Inv, Call, CallTyped, OpsOf, AtNode, Nodes, Node, FatBegin, At, Looking
<1>2. filepos \div BlockBytes \in Nat
  BY BlockBytesAssumption, DivMod DEF Inv, At
<1>3. CASE filepos \div BlockBytes < cache.current_cluster_num
  <2>1. cache' = [cache EXCEPT !.current_cluster_num = 0,
                               !.current_cluster = Node(call.ino).blocks[1]]
    BY <1>3 DEF FatBegin, FatStart
  <2>2. /\ cache'.current_cluster_num = 0 /\ cache'.current_cluster = Node(call.ino).blocks[1]
        /\ FatForm'
    BY <2>1 DEF Inv, FatInv, FatForm
  <2>3. CursorTrue'
    BY <1>1, <2>2 DEF CursorTrue, Node, Nodes, FatBegin
  <2> QED BY <1>1, <1>2, <2>2, <2>3 DEF Inv, FatInv, FatBegin, FileOpen, Node, Nodes
<1>4. CASE ~(filepos \div BlockBytes < cache.current_cluster_num)
  <2>1. cache' = cache /\ cache.current_cluster_num <= filepos \div BlockBytes
    BY <1>2, <1>4 DEF FatBegin, FatStart, Inv, FatInv, FatForm
  <2> QED BY <1>1, <2>1 DEF Inv, FatInv, FatForm, FatBegin, FileOpen, CursorTrue, Node, Nodes
<1> QED BY <1>3, <1>4

LEMMA FatClusterKeeps ==
  ASSUME Inv, fsys_type = "fat", call.op = "chain", call.left > 0, FatCluster
  PROVE  Call' /\ At' /\ FatInv' /\ fsys_type' = "fat"
<1>1. filepos \in Nat /\ call.left \in Nat /\ filepos % BlockBytes \in 0 .. BlockBytes - 1
  BY BlockBytesAssumption, DivMod DEF Inv, At, Call, CallTyped
<1>2. Lesser(BlockBytes - (filepos % BlockBytes), call.left) \in 0..call.left
  BY <1>1, BlockBytesAssumption DEF Lesser
<1>3. PICK n \in 0..call.left :
        AdvanceTo("chain", cache.current_cluster, filepos % BlockBytes, n)
  BY <1>2 DEF FatCluster, Advance
<1>4. /\ Call' /\ At' /\ UNCHANGED <<volume, fsys_type, filemax, cache>>
      /\ call'.op = "chain" /\ call'.ino = call.ino /\ filepos' = filepos + n
  BY <1>3, AdvanceKeeps DEF FatCluster, OpsOf, Inv
<1>5. filepos + n \in Nat /\ filepos <= filepos + n
  BY <1>1
<1>6. /\ filepos \div BlockBytes <= (filepos + n) \div BlockBytes
      /\ filepos \div BlockBytes \in Nat /\ (filepos + n) \div BlockBytes \in Nat
  BY <1>1, <1>5, DivMono, DivMod, BlockBytesAssumption
<1> QED BY <1>4, <1>5, <1>6 DEF Inv, FatInv, FatForm, FileOpen, CursorTrue, Node, Nodes

LEMMA FatComponentKeeps ==
  ASSUME Inv, fsys_type = "fat", FatComponent
  PROVE  Call' /\ At' /\ FatInv' /\ fsys_type' = "fat"
<1>1. FatForm' /\ cache'.current_cluster_num = MaxInt
  BY DEF FatComponent, FatRestart, Inv, FatInv, FatForm, MaxInt
<1>2. Call /\ At /\ call.op # "idle" /\ call.left = 0 /\ call.ino \in DOMAIN Nodes
  BY DEF Inv, At, Looking, Call, AtNode, FatComponent
<1>3. CASE Node(call.ino).type = "file" /\ DirFinds(call.ino)
  BY <1>1, <1>2, <1>3, DirFindsKeeps DEF FatInv, CursorTrue, Node, Nodes
<1>4. CASE DirFails("filetype", TRUE)
  BY <1>1, <1>2, <1>4, DirFailsKeeps DEF FatInv, CursorTrue, FileOpen
<1>5. CASE /\ Node(call.ino).type = "dir" /\ call' = [call EXCEPT !.op = "entry", !.loc = 0]
           /\ filemax' = MaxInt /\ filepos' = 0 /\ UNCHANGED <<fsys_type, volume, errnum>>
  <2>1. CallTyped' /\ call'.op = "entry" /\ call'.left = 0 /\ call'.ino = call.ino
        /\ call'.name = call.name /\ call'.updir = call.updir
    BY <1>2, <1>5 DEF Call, CallTyped
  <2>2. Call'
    BY <1>2, <1>5, <2>1, CallStays DEF Call, OpsOf, AtNode
  <2>3. At'
    BY <1>2, <1>5, <2>1 DEF At, MaxInt
  <2> QED BY <1>1, <1>5, <2>1, <2>2, <2>3 DEF FatInv, CursorTrue, FileOpen
<1> QED BY <1>3, <1>4, <1>5 DEF FatComponent

LEMMA FatEntryBeginKeeps ==
  ASSUME Inv, fsys_type = "fat", FatEntryBegin
  PROVE  Call' /\ At' /\ FatInv' /\ fsys_type' = "fat"
<1>1. Call' /\ At' /\ call'.op = "search"
  BY DEF Inv, Call, CallTyped, OpsOf, AtNode, Nodes, Node, FatEntryBegin, At, Looking
<1>2. FatForm'
  BY DEF FatEntryBegin, FatStart, Inv, FatInv, FatForm
<1> QED BY <1>1, <1>2 DEF FatInv, CursorTrue, FileOpen, FatEntryBegin

LEMMA FatEntrySeenKeeps ==
  ASSUME Inv, fsys_type = "fat", call.op \in {"entry", "search"}, NEW a, FatEntrySeen(a),
         UNCHANGED cache
  PROVE  Call' /\ At' /\ FatInv' /\ fsys_type' = "fat"
<1> DEFINE i == EntryAt(Node(call.ino), a)
<1>1. FatForm'
  BY DEF Inv, FatInv, FatForm
<1>2. CASE DirFails("read", FALSE) \/ DirFails("not found", TRUE)
  BY <1>1, <1>2, DirFailsKeeps DEF Inv, FatInv, CursorTrue, FileOpen
<1>3. CASE /\ UNCHANGED <<fsys_type, volume, filepos, filemax, errnum>> /\ i # 0
           /\ call' = IF /\ Node(call.ino).inos[i] # 0
                         /\ Node(call.ino).names[i] = Head(call.path)
                      THEN [call EXCEPT !.op = "inode", !.path = Tail(@),
                                        !.ino = Node(call.ino).inos[i]]
                      ELSE [call EXCEPT !.op = "entry", !.loc = @ + 1]
  <2>1. Node(call.ino).inos[i] # 0 => Node(call.ino).inos[i] \in DOMAIN Nodes
    BY <1>3, EntryLeads DEF Inv
  <2>2. CASE call'.op = "inode" /\ Node(call.ino).inos[i] # 0
    <3>1. PICK ino, path : ino \in DOMAIN Nodes /\
            call' = [call EXCEPT !.op = "inode", !.path = path, !.ino = ino]
      BY <1>3, <2>1, <2>2 DEF Inv, Call, CallTyped
    <3> HIDE DEF i
    <3>2. CallTyped' /\ call'.op = "inode" /\ call'.left = call.left /\ call'.ino = ino
          /\ call'.name = call.name /\ call'.updir = call.updir
      BY <3>1 DEF Inv, Call, CallTyped
    <3>3. Call' /\ At'
      BY <1>3, <3>1, <3>2, CallStays, Always DEF Inv, Call, AtNode, At, Looking
    <3> QED BY <1>1, <1>3, <3>2, <3>3 DEF FatInv, CursorTrue, FileOpen
  <2>3. CASE call' = [call EXCEPT !.op = "entry", !.loc = @ + 1]
    <3>1. CallTyped' /\ call'.op = "entry" /\ call'.left = call.left /\ call'.ino = call.ino
          /\ call'.name = call.name /\ call'.updir = call.updir
      BY <2>3 DEF Inv, Call, CallTyped
    <3>2. Call' /\ At'
      BY <1>3, <3>1, CallStays DEF Inv, Call, OpsOf, AtNode, At, Looking
    <3> QED BY <1>1, <1>3, <3>1, <3>2 DEF FatInv, CursorTrue, FileOpen
  <2> HIDE DEF i
  <2> QED BY <1>3, <2>2, <2>3 DEF Inv, Call, CallTyped
<1> QED BY <1>2, <1>3 DEF FatEntrySeen

LEMMA FatSearchKeeps ==
  ASSUME Inv, fsys_type = "fat", FatSearch
  PROVE  Call' /\ At' /\ FatInv' /\ fsys_type' = "fat"
<1>1. CASE FatLink(call.loc)
  BY <1>1, FatLinkKeeps DEF FatSearch
<1>2. CASE FatEntrySeen(<<cache.current_cluster, call.loc % BlockBytes>>) /\ UNCHANGED cache
  BY <1>2, FatEntrySeenKeeps DEF FatSearch
<1> QED BY <1>1, <1>2 DEF FatSearch

LEMMA FatRootEntryKeeps ==
  ASSUME Inv, fsys_type = "fat", FatRootEntry
  PROVE  Call' /\ At' /\ FatInv' /\ fsys_type' = "fat"
<1>1. CASE \E a : FatEntrySeen(a)
  BY <1>1, FatEntrySeenKeeps DEF FatRootEntry
<1>2. CASE DirFails("not found", TRUE)
  BY <1>2, DirFailsKeeps DEF Inv, FatInv, FatForm, CursorTrue, FileOpen, FatRootEntry
<1> QED BY <1>1, <1>2 DEF FatRootEntry

LEMMA FatKeeps ==
  ASSUME Inv, fsys_type = "fat", FatTurn
  PROVE  Call' /\ At' /\ FatInv' /\ fsys_type' = "fat"
  BY FatBeginKeeps, FatLinkKeeps, FatClusterKeeps, FatComponentKeeps, FatEntryBeginKeeps,
     FatRootEntryKeeps, FatSearchKeeps DEF FatTurn, FatRead

---------------------------------------------------------------------------
(* ext2, minix. *)

\* The part of a block that a turn reads.
LEMMA PartOfBlock ==
  ASSUME Call, At
  PROVE  /\ Lesser(BlockBytes - (filepos % BlockBytes), call.left) \in 0..call.left
         /\ filepos \div BlockBytes \in Nat /\ filepos % BlockBytes \in 0 .. BlockBytes - 1
<1>1. filepos \in Nat /\ call.left \in Nat
  BY DEF At, Call, CallTyped
<1>2. filepos \div BlockBytes \in Nat /\ filepos % BlockBytes \in 0 .. BlockBytes - 1
  BY <1>1, BlockBytesAssumption, DivMod
<1> QED BY <1>1, <1>2, BlockBytesAssumption DEF Lesser

MapsGoOn == Call' /\ At' /\ MapsInv' /\ fsys_type' = fsys_type

\* What the invariant says of the tables when the call goes on at the same node.
LEMMA SameTables ==
  ASSUME Inv, fsys_type \in {"ext2", "minix"}, Call', At',
         UNCHANGED <<volume, fsys_type, cache>>,
         \/ call'.op \in {"inode", "failed"}
         \/ call.op = call'.op /\ call'.ino = call.ino
  PROVE  MapsGoOn
  BY DEF Inv, MapsInv, TablesTrue, FileOpen, Top, Node, Nodes, MapsGoOn

LEMMA MapFailsKeeps ==
  ASSUME Inv, fsys_type \in {"ext2", "minix"}, call.op \in {"search", "reading"},
         NEW ok \in BOOLEAN, MapFails(ok)
  PROVE  MapsGoOn
<1>1. CASE fsys_type = "minix" /\ call.op = "reading"
  <2> DEFINE n    == Lesser(BlockBytes - (filepos % BlockBytes), call.left)
             buf  == call.buf \o Junk(n)
             lost == call.lost \/ ~ok
  <2>1. n \in 0..call.left /\ lost \in BOOLEAN
    BY PartOfBlock DEF Inv, Call, CallTyped
  <2>2. /\ call' = [call EXCEPT !.buf = buf, !.left = call.left - n, !.lost = lost]
        /\ filepos' = filepos + n /\ UNCHANGED <<fsys_type, volume, filemax, cache>>
    BY <1>1 DEF MapFails, MinixSkip, Inv, Call, CallTyped
  <2> HIDE DEF n, buf, lost
  <2>3. Call' /\ At' /\ call'.op = call.op /\ call'.ino = call.ino
    BY <1>1, <2>1, <2>2, GoesOnReading DEF Inv
  <2> QED BY <2>2, <2>3, SameTables
<1>2. CASE UNCHANGED cache /\ (DirFails("corrupt", ok) \/ ReadFails("corrupt", ok))
  BY <1>2, DirFailsKeeps, ReadFailsKeeps, SameTables DEF Inv
<1> QED BY <1>1, <1>2 DEF MapFails

LEMMA LoadTablesKeeps ==
  ASSUME Inv, fsys_type \in {"ext2", "minix"}, call.op \in {"search", "reading"}, NEW l,
         LoadTable1(l) \/ LoadTable2(l)
  PROVE  MapsGoOn
<1>1. CASE MapFails(TRUE) \/ MapFails(FALSE)
  BY <1>1, MapFailsKeeps
<1>2. CASE TableLoaded([cache EXCEPT !.mapblock1 = Level(l), !.db1 = Table1(l)])
  <2>1. /\ cache' \in [mapblock1 : {cache'.mapblock1}, mapblock2 : {cache'.mapblock2},
                       db1 : {cache'.db1}, db2 : {cache'.db2}]
        /\ cache'.mapblock1 = Level(l) /\ cache'.db1 = Top(call.ino, Level(l))
        /\ cache'.mapblock2 = cache.mapblock2 /\ cache'.db2 = cache.db2
    BY <1>2 DEF TableLoaded, Table1, Inv, MapsInv
  <2>2. Call' /\ At' /\ UNCHANGED <<volume, fsys_type, call>>
    BY <1>2 DEF TableLoaded, Inv, Call, CallTyped, AtNode, Node, Nodes, At, Looking
  <2> QED BY <2>1, <2>2 DEF MapsGoOn, Inv, MapsInv, TablesTrue, FileOpen, Top, Node, Nodes
<1>3. CASE TableLoaded([cache EXCEPT !.mapblock2 = Table2(l), !.db2 = Table2(l)])
  <2>1. /\ cache' \in [mapblock1 : {cache'.mapblock1}, mapblock2 : {cache'.mapblock2},
                       db1 : {cache'.db1}, db2 : {cache'.db2}]
        /\ cache'.mapblock2 = cache'.db2
        /\ cache'.mapblock1 = cache.mapblock1 /\ cache'.db1 = cache.db1
    BY <1>3 DEF TableLoaded, Inv, MapsInv
  <2>2. Call' /\ At' /\ UNCHANGED <<volume, fsys_type, call>>
    BY <1>3 DEF TableLoaded, Inv, Call, CallTyped, AtNode, Node, Nodes, At, Looking
  <2> QED BY <2>1, <2>2 DEF MapsGoOn, Inv, MapsInv, TablesTrue, FileOpen, Top, Node, Nodes
<1> QED BY <1>1, <1>2, <1>3 DEF LoadTable1, LoadTable2

\* DATABLOCK2 gets what is no table.
LEMMA NoTable ==
  ASSUME Inv, fsys_type \in {"ext2", "minix"}, Call', At', UNCHANGED <<volume, fsys_type>>,
         NEW b, cache' = [cache EXCEPT !.mapblock2 = 0 - 1, !.db2 = b],
         \/ call'.op \in {"inode", "failed"}
         \/ call.op \in {"search", "reading"} /\ call.op = call'.op /\ call'.ino = call.ino
  PROVE  MapsGoOn
<1>1. /\ cache' \in [mapblock1 : {cache'.mapblock1}, mapblock2 : {cache'.mapblock2},
                     db1 : {cache'.db1}, db2 : {cache'.db2}]
      /\ cache'.mapblock2 = 0 - 1
      /\ cache'.mapblock1 = cache.mapblock1 /\ cache'.db1 = cache.db1
  BY DEF Inv, MapsInv
<1> QED BY <1>1 DEF MapsGoOn, Inv, MapsInv, TablesTrue, FileOpen, Top, Node, Nodes

LEMMA MapsReadKeeps ==
  ASSUME Inv, fsys_type \in {"ext2", "minix"}, Ext2Read \/ MinixRead
  PROVE  MapsGoOn
<1> DEFINE l      == filepos \div BlockBytes
           offset == filepos % BlockBytes
           size   == Lesser(BlockBytes - offset, call.left)
<1>1. /\ call.op = "reading" /\ size \in 0..call.left /\ Call /\ At
      /\ "reading" \in OpsOf(fsys_type)
  BY PartOfBlock, Always DEF Inv, Ext2Read, MinixRead
<1>2. CASE LoadTable1(l) \/ LoadTable2(l) \/ MapFails(FALSE)
  BY <1>1, <1>2, LoadTablesKeeps, MapFailsKeeps
<1>3. CASE /\ AdvanceHole(size) \/ Advance(BlockOf(l), offset, size)
           /\ cache' = AfterMap(l) \/ cache' = cache
  <2>1. Call' /\ At' /\ UNCHANGED <<volume, fsys_type>> /\ call'.op = "reading" /\ call'.ino = call.ino
    <3> HIDE DEF size
    <3>1. CASE AdvanceHole(size)
      BY <1>1, <3>1, AdvanceHoleKeeps
    <3>2. CASE AdvanceTo("reading", BlockOf(l), offset, size)
      BY <1>1, <3>2, AdvanceKeeps
    <3> QED BY <1>1, <1>3, <3>1, <3>2 DEF Advance
  <2>2. CASE cache' = cache
    BY <1>1, <2>1, <2>2, SameTables
  <2>3. CASE cache' = [cache EXCEPT !.mapblock2 = 0 - 1, !.db2 = Table3(l)]
    BY <1>1, <2>1, <2>3, NoTable
  <2> QED BY <1>3, <2>2, <2>3 DEF AfterMap
<1> QED BY <1>1, <1>2, <1>3 DEF Ext2Read, MinixRead

LEMMA MappedSearchKeeps ==
  ASSUME Inv, fsys_type \in {"ext2", "minix"}, MappedSearch
  PROVE  MapsGoOn
<1> DEFINE l == call.loc \div BlockBytes
<1>1. CASE LoadTable1(l) \/ LoadTable2(l) \/ MapFails(FALSE)
  BY <1>1, LoadTablesKeeps, MapFailsKeeps DEF MappedSearch
<1>2. CASE /\ cache' = [cache EXCEPT !.mapblock2 = 0 - 1, !.db2 = BlockOf(l)]
           /\ SeeEntry(<<BlockOf(l), call.loc % BlockBytes>>)
  BY <1>2, SeeEntryKeeps, NoTable DEF MappedSearch, Inv
<1> QED BY <1>1, <1>2 DEF MappedSearch

LEMMA MappedKeeps ==
  ASSUME Inv, fsys_type \in {"ext2", "minix"}, MappedTurn
  PROVE  MapsGoOn
<1>1. CASE WalkInode(MapsReset)
  <2>1. /\ Call' /\ At' /\ UNCHANGED <<volume, fsys_type>>
        /\ \/ call'.op = "failed" /\ (cache' = MapsReset \/ cache' = cache)
           \/ call'.op \in {"inode", "search", "opened"} /\ cache' = MapsReset
    BY <1>1, WalkKeeps DEF Inv, OpsOf
  <2>2. CASE call'.op = "failed" /\ cache' = cache
    BY <2>1, <2>2, SameTables
  <2>3. CASE cache' = MapsReset
    <3>1. /\ cache' \in [mapblock1 : {cache'.mapblock1}, mapblock2 : {cache'.mapblock2},
                         db1 : {cache'.db1}, db2 : {cache'.db2}]
          /\ cache'.mapblock1 = 0 - 1 /\ cache'.mapblock2 = 0 - 1
      BY <2>3 DEF MapsReset, Inv, MapsInv
    <3> QED BY <2>1, <3>1 DEF MapsGoOn, MapsInv, TablesTrue
  <2> QED BY <2>1, <2>2, <2>3
<1>2. CASE SearchEnds
  BY <1>2, SearchEndsKeeps, SameTables DEF Inv
<1> QED BY <1>1, <1>2, MapsReadKeeps, MappedSearchKeeps DEF MappedTurn

---------------------------------------------------------------------------
(* iso9660. *)

IsoGoesOn == Call' /\ At' /\ IsoInv' /\ fsys_type' = fsys_type

LEMMA IsoSearchKeeps ==
  ASSUME Inv, fsys_type = "iso9660", IsoSearch
  PROVE  IsoGoesOn
<1> DEFINE dir   == Node(call.ino)
           at    == {EntryAt(dir, <<dir.blocks[1] + call.loc, i>>) :
                       i \in 0..BlockBytes - 1} \ {0}
           match == {i \in at : dir.names[i] = Head(call.path)}
           first == CHOOSE i \in match : \A j \in match : i <= j
<1>1. Call /\ At /\ call.op = "search" /\ call.left = 0 /\ call.ino \in DOMAIN Nodes
      /\ dir.type = "dir"
  BY DEF Inv, At, Looking, Call, AtNode, IsoSearch
<1>2. CASE DirFails("corrupt", FALSE)
  BY <1>1, <1>2, DirFailsKeeps DEF IsoGoesOn, IsoInv
<1>3. CASE match = {} /\ call' = [call EXCEPT !.loc = @ + 1]
           /\ UNCHANGED <<fsys_type, volume, cache, filepos, filemax, errnum>>
  <2>1. CallTyped' /\ call'.op = "search" /\ call'.left = 0 /\ call'.ino = call.ino
        /\ call'.name = call.name /\ call'.updir = call.updir
    BY <1>1, <1>3 DEF Call, CallTyped
  <2>2. Call'
    BY <1>1, <1>3, <2>1, CallStays DEF Call, AtNode
  <2> QED BY <1>1, <1>3, <2>1, <2>2 DEF IsoGoesOn, At, Looking, IsoInv
<1>4. CASE match # {} /\ IsoFound(dir.inos[first])
  <2>1. ASSUME NEW a, EntryAt(dir, a) # 0
        PROVE  EntryAt(dir, a) \in Nat /\ dir.inos[EntryAt(dir, a)] \in DOMAIN Nodes
    <3>1. EntryAt(dir, a) \in 1..dir.size
      BY <2>1, EntryIsOne
    <3>2. dir.inos[EntryAt(dir, a)] # 0
      BY <1>1, <3>1, Running DEF IsoTyped, Inv, Nodes, Node
    <3>3. dir.inos[EntryAt(dir, a)] \in DOMAIN Nodes
      BY <1>1, <2>1, <3>2, EntryLeads
    <3>4. dir.size \in Nat
      BY <1>1, Running DEF NodesTyped, Node, Nodes
    <3> QED BY <3>1, <3>3, <3>4
  <2>2. \A i \in match : i \in Nat /\ dir.inos[i] \in DOMAIN Nodes
    <3> SUFFICES ASSUME NEW i \in match
                 PROVE  i \in Nat /\ dir.inos[i] \in DOMAIN Nodes
      OBVIOUS
    <3>1. PICK a : i = EntryAt(dir, a) /\ i # 0
      OBVIOUS
    <3> QED BY <2>1, <3>1
  <2>3. first \in match
    <3> HIDE DEF match
    <3>1. \E i \in match : \A j \in match : i <= j
      BY <1>4, <2>2, LeastOf
    <3> QED BY <3>1
  <2>4. PICK ino \in DOMAIN Nodes : IsoFound(ino)
    BY <1>4, <2>2, <2>3
  <2>5. CASE DirFails("filetype", TRUE)
    BY <1>1, <2>5, DirFailsKeeps DEF IsoGoesOn, IsoInv
  <2>6. CASE DirFinds(ino)
    BY <1>1, <2>6, DirFindsKeeps DEF IsoGoesOn, IsoInv
  <2>7. CASE /\ Node(ino).type = "dir"
             /\ call' = [call EXCEPT !.ino = ino, !.path = Tail(@), !.loc = 0]
             /\ UNCHANGED <<fsys_type, volume, cache, filepos, filemax, errnum>>
    <3>1. CallTyped' /\ call'.op = "search" /\ call'.left = 0 /\ call'.ino = ino
          /\ call'.name = call.name /\ call'.updir = call.updir
      BY <1>1, <2>7 DEF Call, CallTyped
    <3>2. Call'
      BY <1>1, <2>7, <3>1, CallStays DEF Call, AtNode
    <3> QED BY <1>1, <2>7, <3>1, <3>2 DEF IsoGoesOn, At, Looking, IsoInv
  <2> QED BY <2>4, <2>5, <2>6, <2>7 DEF IsoFound
<1> QED BY <1>2, <1>3, <1>4 DEF IsoSearch

LEMMA IsoKeeps ==
  ASSUME Inv, fsys_type = "iso9660", IsoTurn
  PROVE  IsoGoesOn
<1>1. CASE IsoStart
  <2>1. Root \in DOMAIN Nodes /\ Node(Root).type = "dir" /\ call.ino = Root
    BY <1>1, Running DEF NodesTyped, Inv, Call, AtNode, Nodes, Node, IsoInv, IsoStart
  <2>2. CallTyped' /\ call'.op = "search" /\ call'.left = call.left /\ call'.ino = call.ino
        /\ call'.name = call.name /\ call'.updir = call.updir
    BY <1>1 DEF IsoStart, Inv, Call, CallTyped
  <2>3. Call'
    BY <1>1, <2>1, <2>2, CallStays DEF IsoStart, Inv, Call, AtNode, OpsOf
  <2> QED BY <1>1, <2>2, <2>3 DEF IsoGoesOn, At, Looking, IsoInv, Inv, IsoStart
<1>2. CASE IsoNotFound
  BY <1>2, DirFailsKeeps DEF IsoGoesOn, IsoInv, IsoNotFound, Inv
<1>3. CASE IsoRead
  <2> DEFINE size == Lesser(BlockBytes - (filepos % BlockBytes), call.left)
             more == DiskBytes(cache.file_start + filepos \div BlockBytes,
                               filepos % BlockBytes, size)
  <2>1. CASE ReadFails("read", FALSE)
    BY <1>3, <2>1, ReadFailsKeeps DEF IsoGoesOn, IsoInv, IsoRead, Inv
  <2>2. CASE /\ call' = [call EXCEPT !.left = @ - size, !.buf = @ \o more]
             /\ filepos' = filepos + size /\ UNCHANGED <<fsys_type, volume, filemax>>
    <3>1. size \in 0..call.left /\ call.lost \in BOOLEAN /\ Call /\ At /\ call.op = "reading"
      BY <1>3, PartOfBlock DEF Inv, Call, CallTyped, IsoRead
    <3> DEFINE buf == call.buf \o more
    <3>2. call' = [call EXCEPT !.buf = buf, !.left = call.left - size, !.lost = call.lost]
      BY <2>2, <3>1 DEF Call, CallTyped
    <3> HIDE DEF size, buf
    <3> QED BY <2>2, <3>1, <3>2, GoesOnReading DEF IsoGoesOn, IsoInv
  <2> QED BY <1>3, <2>1, <2>2 DEF IsoRead
<1> QED BY <1>1, <1>2, <1>3, IsoSearchKeeps DEF IsoTurn

---------------------------------------------------------------------------
(* Block lists. *)

ListGoesOn == Call' /\ At' /\ ListInv' /\ fsys_type' = fsys_type

\* What the runs of a node are.
LEMMA RunsOfNode ==
  ASSUME RunsTyped(volume), NEW ino \in DOMAIN Nodes
  PROVE  /\ Runs(ino) \in Seq([off : Nat, len : Nat \ {0}, addr : Nat])
         /\ DOMAIN Runs(ino) = 1..Len(Runs(ino)) /\ Len(Runs(ino)) \in Nat
         /\ Runs(ino) # <<>> => 1 \in DOMAIN Runs(ino) /\ Runs(ino)[1].off = 0
         /\ \A k \in DOMAIN Runs(ino) :
              /\ Runs(ino)[k] \in [off : Nat, len : Nat \ {0}, addr : Nat]
              /\ k + 1 \in DOMAIN Runs(ino) => Runs(ino)[k + 1].off = Runs(ino)[k].off + Runs(ino)[k].len
              /\ k + 1 \notin DOMAIN Runs(ino) =>
                   Runs(ino)[k].off + Runs(ino)[k].len = Len(Node(ino).blocks)
              /\ \A j \in 0..Runs(ino)[k].len - 1 :
                   Node(ino).blocks[Runs(ino)[k].off + j + 1] =
                     IF Runs(ino)[k].addr = Hole THEN Hole ELSE Runs(ino)[k].addr + j
         /\ \A l \in 0..Len(Node(ino).blocks) - 1 : \E k \in DOMAIN Runs(ino) :
              Runs(ino)[k].off <= l /\ l < Runs(ino)[k].off + Runs(ino)[k].len
<1> DEFINE runs == Runs(ino)
           blocks == Node(ino).blocks
<1>1. /\ runs \in Seq([off : Nat, len : Nat \ {0}, addr : Nat])
      /\ runs # <<>> => runs[1].off = 0
      /\ \A k \in DOMAIN runs :
           /\ k + 1 \in DOMAIN runs => runs[k + 1].off = runs[k].off + runs[k].len
           /\ k + 1 \notin DOMAIN runs => runs[k].off + runs[k].len = Len(blocks)
           /\ \A j \in 0..runs[k].len - 1 :
                blocks[runs[k].off + j + 1] = IF runs[k].addr = Hole THEN Hole
                                              ELSE runs[k].addr + j
      /\ \A l \in 0..Len(blocks) - 1 : \E k \in DOMAIN runs :
           runs[k].off <= l /\ l < runs[k].off + runs[k].len
  BY Zenon DEF RunsTyped, Runs, Node, Nodes
<1> HIDE DEF runs, blocks
<1>2. /\ DOMAIN runs = 1..Len(runs) /\ Len(runs) \in Nat
      /\ \A k \in DOMAIN runs : runs[k] \in [off : Nat, len : Nat \ {0}, addr : Nat]
      /\ runs # <<>> => 1 \in DOMAIN runs
  <2>1. PICK R : R = [off : Nat, len : Nat \ {0}, addr : Nat]
    OBVIOUS
  <2>2. runs \in Seq(R)
    BY <1>1, <2>1
  <2>3. DOMAIN runs = 1..Len(runs) /\ Len(runs) \in Nat /\ \A k \in DOMAIN runs : runs[k] \in R
    BY <2>2
  <2>4. runs # <<>> => Len(runs) # 0
    BY <2>2
  <2> QED BY <2>1, <2>3, <2>4
<1> QED BY <1>1, <1>2 DEF runs, blocks

\* Numbers that lie in the same block.
LEMMA SameBlock ==
  ASSUME NEW b \in Nat \ {0}, NEW p \in Nat, NEW q \in Nat, p <= q, q - (p - (p % b)) < b
  PROVE  q \div b = p \div b
<1>1. /\ p \div b \in Nat /\ p % b \in 0 .. b - 1 /\ p = (p \div b) * b + (p % b)
  BY DivMod
<1>2. PICK m \in Nat : m = p \div b
  BY <1>1
<1>3. PICK t \in 0 .. b - 1 : t = p % b
  BY <1>1
<1>4. q - (p - t) \in 0 .. b - 1
  BY <1>3
<1>5. PICK r \in 0 .. b - 1 : r = q - (p - t)
  BY <1>4
<1>6. m * b \in Nat
  BY SMT
<1>7. q = m * b + r
  BY <1>1, <1>2, <1>3, <1>5, <1>6
<1> QED BY <1>2, <1>7, DivOf

LEMMA ListOpenKeeps ==
  ASSUME Inv, fsys_type = "list", ListOpen
  PROVE  ListGoesOn
<1> DEFINE ino == volume.find[call.name]
<1>1. Call /\ At /\ call.op = "inode" /\ call.left = 0 /\ cache' = ListStart
  BY DEF Inv, ListOpen, At, Looking
<1>2. cache' \in [filepos : Nat, list : {cache'.list}, num : Nat]
      /\ cache'.filepos = 0 /\ cache'.list = 1 /\ cache'.num = 0
  BY <1>1 DEF ListStart
<1>3. CASE DirFails("filename", TRUE)
  BY <1>1, <1>2, <1>3, DirFailsKeeps DEF ListGoesOn, ListInv, CursorTrue, FileOpen
<1>4. CASE ino # 0 /\ DirFinds(ino)
  <2>1. ino \in DOMAIN Nodes /\ Node(ino).type = "file" /\ FindsFiles(volume)
    BY <1>1, <1>4, Running DEF FindsFiles, Call, AtNode, Inv, Node, Nodes
  <2>2. /\ Call' /\ At' /\ UNCHANGED <<volume, fsys_type>>
        /\ call'.op = "opened" /\ call'.ino = ino /\ filemax' = Node(ino).size
    BY <1>1, <1>4, <2>1, DirFindsKeeps
  <2>3. 1 \in DOMAIN Runs(ino) /\ Runs(ino)[1].len \in Nat \ {0} /\ Runs(ino)[1].off = 0
    <3>1. RunsTyped(volume) /\ Runs(ino) # <<>>
      BY <1>1, <2>1, Running DEF ListTyped, Runs, Node, Nodes
    <3> HIDE DEF ino
    <3> QED BY <2>1, <3>1, RunsOfNode
  <2>4. 0 \div BlockBytes = 0
    BY BlockBytesAssumption
  <2> HIDE DEF ino
  <2>5. CursorTrue'
    BY <1>2, <2>2, <2>3, <2>4 DEF CursorTrue, Runs, Node, Nodes
  <2> QED BY <1>2, <2>1, <2>2, <2>3, <2>5 DEF ListGoesOn, ListInv, Runs, Node, Nodes
<1> QED BY <1>3, <1>4 DEF ListOpen

LEMMA ListAimKeeps ==
  ASSUME Inv, fsys_type = "list", ListAim
  PROVE  ListGoesOn
<1>1. Call /\ At /\ call.op = "reading" /\ call.left > 0 /\ call' = [call EXCEPT !.op = "list"]
      /\ UNCHANGED <<fsys_type, volume, filepos, filemax>>
  BY DEF Inv, ListAim
<1>2. CallTyped' /\ call'.op = "list" /\ call'.left = call.left /\ call'.ino = call.ino
      /\ call'.name = call.name /\ call'.updir = call.updir
  BY <1>1 DEF Call, CallTyped
<1>3. Call' /\ At'
  BY <1>1, <1>2, CallStays DEF Call, AtNode, OpsOf, At, Looking
<1>4. CASE cache' = cache
  BY <1>1, <1>2, <1>3, <1>4 DEF ListGoesOn, Inv, ListInv, CursorTrue, FileOpen, Runs, Node, Nodes
<1>5. CASE cache' = ListStart
  <2>1. cache' \in [filepos : Nat, list : {cache'.list}, num : Nat]
        /\ cache'.filepos = 0 /\ cache'.list = 1 /\ cache'.num = 0
    BY <1>5 DEF ListStart
  <2>2. Node(call.ino).type = "file" /\ filemax = Node(call.ino).size /\ call.ino \in DOMAIN Nodes
    BY <1>1 DEF Inv, ListInv, FileOpen, Call, AtNode
  <2>3. 1 \in DOMAIN Runs(call.ino) /\ Runs(call.ino)[1].len \in Nat \ {0} /\ Runs(call.ino)[1].off = 0
    <3>1. RunsTyped(volume) /\ Runs(call.ino) # <<>>
      BY <1>1, <2>2, Running DEF ListTyped, Runs, Node, Nodes
    <3> QED BY <2>2, <3>1, RunsOfNode
  <2>4. 0 \div BlockBytes = 0
    BY BlockBytesAssumption
  <2>5. CursorTrue'
    BY <1>1, <1>2, <2>1, <2>3, <2>4 DEF CursorTrue, Runs, Node, Nodes
  <2> QED BY <1>1, <1>2, <1>3, <2>1, <2>2, <2>3, <2>5 DEF ListGoesOn, ListInv, Runs, Node, Nodes
<1> QED BY <1>4, <1>5 DEF ListAim

\* What the place in the list is of.
LEMMA ListPlace ==
  ASSUME Inv, fsys_type = "list", call.op = "list"
  PROVE  /\ cache \in [filepos : Nat, list : {cache.list}, num : Nat]
         /\ call.left \in Nat /\ call.left > 0
         /\ filepos \in Nat /\ filemax \in Nat /\ filepos + call.left <= filemax
         /\ filemax <= Len(Node(call.ino).blocks) * BlockBytes /\ Len(Node(call.ino).blocks) \in Nat
         /\ cache.list \in DOMAIN Runs(call.ino) /\ cache.list \in Nat /\ cache.num \in Nat
         /\ \A k \in DOMAIN Runs(call.ino) :
              Runs(call.ino)[k] \in [off : Nat, len : Nat \ {0}, addr : Nat]
         /\ cache.num < Runs(call.ino)[cache.list].len
         /\ cache.filepos \div BlockBytes = Runs(call.ino)[cache.list].off + cache.num
         /\ \/ cache.list + 1 \in DOMAIN Runs(call.ino) /\
                 Runs(call.ino)[cache.list + 1].off = Runs(call.ino)[cache.list].off + Runs(call.ino)[cache.list].len
            \/ Runs(call.ino)[cache.list].off + Runs(call.ino)[cache.list].len = Len(Node(call.ino).blocks)
<1>1. /\ Call /\ At /\ ListInv /\ call.ino \in DOMAIN volume.nodes
      /\ NodesTyped(volume) /\ RunsTyped(volume)
  BY Running DEF Inv, Call, AtNode, Nodes
<1>2. /\ Node(call.ino).type = "file" /\ filemax = Node(call.ino).size
      /\ cache.list \in DOMAIN Runs(call.ino)
  BY <1>1 DEF ListInv
<1>3. /\ filemax <= Len(Node(call.ino).blocks) * BlockBytes /\ Len(Node(call.ino).blocks) \in Nat
  BY <1>1, <1>2 DEF NodesTyped, Node, Nodes
<1>4. /\ cache.list \in Nat /\ cache.num \in Nat
      /\ \A k \in DOMAIN Runs(call.ino) :
           Runs(call.ino)[k] \in [off : Nat, len : Nat \ {0}, addr : Nat]
      /\ \/ cache.list + 1 \in DOMAIN Runs(call.ino) /\
              Runs(call.ino)[cache.list + 1].off = Runs(call.ino)[cache.list].off + Runs(call.ino)[cache.list].len
         \/ Runs(call.ino)[cache.list].off + Runs(call.ino)[cache.list].len = Len(Node(call.ino).blocks)
  <2>1. cache.num \in Nat /\ call.ino \in DOMAIN Nodes /\ RunsTyped(volume)
    BY <1>1 DEF ListInv, Nodes
  <2>2. cache.list \in Nat
    BY <1>2, <2>1, RunsOfNode
  <2>3. \A k \in DOMAIN Runs(call.ino) :
           Runs(call.ino)[k] \in [off : Nat, len : Nat \ {0}, addr : Nat]
    BY <2>1, RunsOfNode
  <2>4. \/ cache.list + 1 \in DOMAIN Runs(call.ino) /\
           Runs(call.ino)[cache.list + 1].off = Runs(call.ino)[cache.list].off + Runs(call.ino)[cache.list].len
        \/ Runs(call.ino)[cache.list].off + Runs(call.ino)[cache.list].len = Len(Node(call.ino).blocks)
    BY <1>2, <2>1, RunsOfNode
  <2> QED BY <2>1, <2>2, <2>3, <2>4
<1> QED BY <1>1, <1>3, <1>4 DEF ListInv, CursorTrue, At, Call, CallTyped

LEMMA ListForwardKeeps ==
  ASSUME Inv, fsys_type = "list", ListForward
  PROVE  ListGoesOn
<1> DEFINE runs == Runs(call.ino)
           run == runs[cache.list]
           p == cache.filepos
           sector == p - (p % BlockBytes)
           blocks == Len(Node(call.ino).blocks)
<1>1. /\ call.op = "list" /\ filepos > p /\ UNCHANGED <<fsys_type, volume, filepos, filemax, call>>
      /\ cache \in [filepos : Nat, list : {cache.list}, num : Nat] /\ p \in Nat /\ cache.num \in Nat
      /\ filepos \in Nat /\ filepos < filemax /\ filemax \in Nat
      /\ filemax <= blocks * BlockBytes /\ blocks \in Nat
      /\ cache.list \in DOMAIN runs /\ cache.list \in Nat
      /\ run.len \in Nat /\ run.off \in Nat /\ cache.num < run.len
      /\ p \div BlockBytes = run.off + cache.num
  <2>1. call.op = "list" /\ filepos > p /\ UNCHANGED <<fsys_type, volume, filepos, filemax, call>>
    BY DEF ListForward
  <2> HIDE DEF runs
  <2>2. run \in [off : Nat, len : Nat \ {0}, addr : Nat]
    BY <2>1, ListPlace DEF runs
  <2>3. /\ filepos \in Nat /\ filemax \in Nat /\ call.left \in Nat /\ call.left > 0
        /\ filepos + call.left <= filemax
        /\ filemax <= blocks * BlockBytes /\ blocks \in Nat
        /\ cache.num < run.len /\ p \div BlockBytes = run.off + cache.num
        /\ cache.list \in DOMAIN runs /\ cache.list \in Nat /\ cache.num \in Nat
        /\ cache \in [filepos : Nat, list : {cache.list}, num : Nat]
    BY <2>1, ListPlace DEF runs
  <2> QED BY <2>1, <2>2, <2>3
<1>2. Call' /\ At'
  BY <1>1 DEF Inv, Call, CallTyped, AtNode, Node, Nodes, At, Looking
<1>3. /\ Node(call.ino).type = "file" /\ filemax = Node(call.ino).size /\ call.left > 0
  BY <1>1 DEF Inv, ListInv
<1>4. ASSUME cache' \in [filepos : Nat, list : {cache'.list}, num : Nat],
             cache'.list \in DOMAIN runs, cache'.num < runs[cache'.list].len,
             cache'.filepos \div BlockBytes = runs[cache'.list].off + cache'.num
      PROVE  ListGoesOn
  <2>1. CursorTrue'
    BY <1>1, <1>4 DEF CursorTrue, Runs, Node, Nodes
  <2> QED BY <1>1, <1>2, <1>3, <1>4, <2>1 DEF ListGoesOn, ListInv, Runs, Node, Nodes
<1>5. CASE filepos - sector < BlockBytes /\ cache' = [cache EXCEPT !.filepos = filepos]
  <2>1. /\ cache' \in [filepos : Nat, list : {cache'.list}, num : Nat]
        /\ cache'.list = cache.list /\ cache'.num = cache.num /\ cache'.filepos = filepos
    BY <1>1, <1>5
  <2>2. filepos \div BlockBytes = p \div BlockBytes
    BY <1>1, <1>5, SameBlock, BlockBytesAssumption
  <2> HIDE DEF run, runs
  <2>3. filepos \div BlockBytes = runs[cache.list].off + cache.num /\ cache.num < runs[cache.list].len
    BY <1>1, <2>2 DEF run
  <2> QED BY <1>1, <1>4, <2>1, <2>3
<1>6. CASE ~(filepos - sector < BlockBytes)
  <2>1. (p + BlockBytes) \div BlockBytes = p \div BlockBytes + 1
    <3>1. 1 * BlockBytes = BlockBytes
      BY BlockBytesAssumption
    <3>2. (p + 1 * BlockBytes) \div BlockBytes = p \div BlockBytes + 1
      BY <1>1, DivAdd, BlockBytesAssumption
    <3> QED BY <3>1, <3>2
  <2>2. CASE cache.num + 1 >= run.len /\
             cache' = [filepos |-> p + BlockBytes, list |-> cache.list + 1, num |-> 0]
    <3>1. cache.num + 1 = run.len
      BY <1>1, <2>2
    <3>2. run.off + run.len # blocks
      <4>1. PICK q \in Nat, r \in 0 .. BlockBytes - 1 :
               q = p \div BlockBytes /\ r = p % BlockBytes /\ p = q * BlockBytes + r
        BY <1>1, DivMod, BlockBytesAssumption
      <4>2. q * BlockBytes \in Nat /\ (q + 1) * BlockBytes = q * BlockBytes + BlockBytes
        BY BlockBytesAssumption, SMT
      <4>3. filepos >= (q + 1) * BlockBytes
        <5>1. sector = q * BlockBytes
          BY <1>1, <4>1, <4>2, BlockBytesAssumption
        <5>2. filepos - sector >= BlockBytes
          BY <1>1, <1>6, <4>2, <5>1, BlockBytesAssumption, SMTT(40)
        <5> HIDE DEF sector
        <5> QED BY <1>1, <4>2, <5>1, <5>2, BlockBytesAssumption, SMTT(40)
      <4>4. q + 1 = blocks => FALSE
        BY <1>1, <4>2, <4>3, BlockBytesAssumption, SMTT(40)
      <4> QED BY <1>1, <3>1, <4>1, <4>4, SMTT(40)
    <3>3. cache.list + 1 \in DOMAIN runs /\ runs[cache.list + 1].off = run.off + run.len
          /\ runs[cache.list + 1].len \in Nat \ {0}
      <4>1. cache.list + 1 \in DOMAIN runs /\ runs[cache.list + 1].off = run.off + run.len
        BY <1>1, <3>2, ListPlace
      <4>2. \A k \in DOMAIN runs : runs[k] \in [off : Nat, len : Nat \ {0}, addr : Nat]
        BY <1>1, ListPlace
      <4> HIDE DEF runs
      <4> QED BY <4>1, <4>2
    <3>4. /\ cache' \in [filepos : Nat, list : {cache'.list}, num : Nat]
          /\ cache'.list = cache.list + 1 /\ cache'.num = 0 /\ cache'.filepos = p + BlockBytes
      BY <1>1, <2>2, BlockBytesAssumption
    <3>5. (p + BlockBytes) \div BlockBytes = runs[cache.list + 1].off + 0
      BY <1>1, <2>1, <3>1, <3>3, SMTT(40)
    <3> HIDE DEF runs
    <3> QED BY <1>4, <3>3, <3>4, <3>5
  <2>3. CASE ~(cache.num + 1 >= run.len) /\
             cache' = [cache EXCEPT !.filepos = @ + BlockBytes, !.num = @ + 1]
    <3>1. PICK n \in Nat, m \in Nat : n = p + BlockBytes /\ m = cache.num + 1
      BY <1>1, BlockBytesAssumption
    <3>2. /\ cache' \in [filepos : Nat, list : {cache'.list}, num : Nat]
          /\ cache'.list = cache.list /\ cache'.num = m /\ cache'.filepos = n
      BY <1>1, <2>3, <3>1
    <3>3. n \div BlockBytes = run.off + m /\ m < run.len
      BY <1>1, <2>1, <2>3, <3>1, SMTT(40)
    <3> HIDE DEF runs
    <3>4. n \div BlockBytes = runs[cache.list].off + m /\ m < runs[cache.list].len
      BY <3>3, SMTT(40) DEF run
    <3> QED BY <1>1, <1>4, <3>2, <3>4
  <2> QED BY <1>6, <2>2, <2>3 DEF ListForward
<1> QED BY <1>5, <1>6 DEF ListForward

LEMMA ListReadKeeps ==
  ASSUME Inv, fsys_type = "list", ListRead
  PROVE  ListGoesOn
<1> DEFINE run == Runs(call.ino)[cache.list]
           offset == filepos % BlockBytes
           n == Lesser((run.len - cache.num) * BlockBytes - offset, call.left)
<1>1. /\ call.op = "list" /\ Call /\ At /\ cache.num \in Nat /\ run.len \in Nat
      /\ cache.num < run.len /\ call.left \in Nat /\ filepos \in Nat
  <2>1. call.op = "list" /\ Call /\ At
    BY DEF ListRead, Inv
  <2>2. run \in [off : Nat, len : Nat \ {0}, addr : Nat]
    BY <2>1, ListPlace
  <2>3. cache.num \in Nat /\ cache.num < run.len /\ call.left \in Nat /\ filepos \in Nat
    BY <2>1, ListPlace
  <2> QED BY <2>1, <2>2, <2>3
<1>2. n \in 0..call.left
  <2>1. PICK k \in Nat : run.len - cache.num = k + 1
    <3>1. run.len - cache.num - 1 \in Nat
      BY <1>1
    <3> QED BY <1>1, <3>1
  <2>2. (k + 1) * BlockBytes = k * BlockBytes + BlockBytes /\ k * BlockBytes \in Nat
    BY BlockBytesAssumption, SMT
  <2>3. offset \in 0 .. BlockBytes - 1
    BY <1>1, DivMod, BlockBytesAssumption
  <2>4. (k + 1) * BlockBytes - offset \in Nat
    BY <2>2, <2>3, BlockBytesAssumption
  <2>5. (run.len - cache.num) * BlockBytes - offset = (k + 1) * BlockBytes - offset
    BY <2>1
  <2> HIDE DEF run, offset
  <2> QED BY <1>1, <2>4, <2>5 DEF Lesser
<1>3. PICK b : AdvanceTo("reading", b, offset, n) /\ UNCHANGED cache
  BY DEF ListRead
<1>4. /\ Call' /\ At' /\ UNCHANGED <<volume, fsys_type, filemax>>
      /\ call'.op = "reading" /\ call'.ino = call.ino
  <2> HIDE DEF n, offset
  <2> QED BY <1>1, <1>2, <1>3, AdvanceKeeps, Always
<1> QED BY <1>1, <1>3, <1>4 DEF ListGoesOn, Inv, ListInv, CursorTrue, FileOpen, Runs, Node, Nodes

LEMMA ListKeeps ==
  ASSUME Inv, fsys_type = "list", ListTurn
  PROVE  ListGoesOn
  BY ListOpenKeeps, ListAimKeeps, ListForwardKeeps, ListReadKeeps DEF ListTurn

---------------------------------------------------------------------------
(* jfs, xfs. *)

ExtentsGoOn == Call' /\ At' /\ ExtentsInv' /\ fsys_type' = fsys_type

\* What is on a page are extents.
LEMMA PageOfRuns ==
  ASSUME RunsTyped(volume), NEW ino \in DOMAIN Nodes, NEW p \in Nat
  PROVE  /\ Len(PageRuns(ino, p)) \in Nat
         /\ \A k \in 1..Len(PageRuns(ino, p)) :
              PageRuns(ino, p)[k] \in [off : Nat, len : Nat \ {0}, addr : Nat]
<1>1. PICK R : R = [off : Nat, len : Nat \ {0}, addr : Nat]
  OBVIOUS
<1>2. Runs(ino) \in Seq(R)
  BY <1>1, RunsOfNode
<1>3. CASE p = 0
  <2>1. PageRuns(ino, p) = Runs(ino)
    BY <1>3 DEF PageRuns
  <2>2. Len(Runs(ino)) \in Nat /\ \A k \in 1..Len(Runs(ino)) : Runs(ino)[k] \in R
    BY <1>2
  <2> QED BY <1>1, <2>1, <2>2
<1>4. CASE p # 0
  <2>1. PICK a \in Nat : a = (p - 1) * ExtentsPerPage
    <3>1. PICK q \in Nat : q = p - 1
      BY <1>4
    <3>2. q * ExtentsPerPage \in Nat
      BY ExtentsAssumption, SMT
    <3> QED BY <3>1, <3>2
  <2>2. p * ExtentsPerPage \in Nat
    BY ExtentsAssumption, SMT
  <2>3. PICK n \in Nat : n = Lesser(p * ExtentsPerPage, Len(Runs(ino))) /\ n <= Len(Runs(ino))
    BY <1>2, <2>2 DEF Lesser
  <2>4. PageRuns(ino, p) = SubSeq(Runs(ino), a + 1, n)
    BY <1>4, <2>1, <2>3 DEF PageRuns
  <2>5. /\ Len(SubSeq(Runs(ino), a + 1, n)) \in Nat
        /\ \A k \in 1..Len(SubSeq(Runs(ino), a + 1, n)) : SubSeq(Runs(ino), a + 1, n)[k] \in R
    BY <1>2, <2>3
  <2> QED BY <1>1, <2>4, <2>5
<1> QED BY <1>3, <1>4

LEMMA ReadExtentKeeps ==
  ASSUME Inv, fsys_type \in {"jfs", "xfs"}, ReadExtent
  PROVE  ExtentsGoOn
<1>1. /\ Call /\ At /\ call.op = "extents" /\ call.left > 0 /\ call.left \in Nat /\ filepos \in Nat
      /\ cache \in [ino : {0} \cup DOMAIN Nodes, page : Nat, xad : Nat, xindex : Nat]
      /\ cache.ino \in DOMAIN Nodes /\ cache.ino # 0 /\ cache.xad # 0
      /\ cache.xad <= Len(PageRuns(cache.ino, cache.page)) /\ RunsTyped(volume)
  BY Running DEF Inv, ExtentsInv, ReadExtent, AtAnExtent, Call, CallTyped, At
<1>2. Xad \in [off : Nat, len : Nat \ {0}, addr : Nat]
  <2>1. /\ Len(PageRuns(cache.ino, cache.page)) \in Nat
        /\ \A k \in 1..Len(PageRuns(cache.ino, cache.page)) :
             PageRuns(cache.ino, cache.page)[k] \in [off : Nat, len : Nat \ {0}, addr : Nat]
    BY <1>1, PageOfRuns
  <2>2. cache.xad \in 1..Len(PageRuns(cache.ino, cache.page))
    BY <1>1, <2>1
  <2> QED BY <2>1, <2>2 DEF Xad
<1>3. cache' \in [ino : {0} \cup DOMAIN Nodes, page : Nat, xad : Nat, xindex : Nat]
      /\ (cache'.ino # 0 => cache'.xad # 0)
  <2>1. NextPage(cache.ino, cache.page) \in Nat
    BY <1>1 DEF NextPage
  <2>2. cache' \in {ExtentsUnset, AtExtent(cache.ino, NextPage(cache.ino, cache.page), 1),
                   AtExtent(cache.ino, NextPage(cache.ino, cache.page), 2),
                   [cache EXCEPT !.xad = @ + 1], [cache EXCEPT !.xindex = @ + 1, !.xad = @ + 1]}
    BY DEF ReadExtent, NextExtent, JfsNext, XfsNext
  <2>3. CASE cache' \in {ExtentsUnset, AtExtent(cache.ino, NextPage(cache.ino, cache.page), 1),
                        AtExtent(cache.ino, NextPage(cache.ino, cache.page), 2)}
    BY <1>1, <2>1, <2>3 DEF ExtentsUnset, AtExtent
  <2>4. CASE cache' \in {[cache EXCEPT !.xad = @ + 1], [cache EXCEPT !.xindex = @ + 1, !.xad = @ + 1]}
    <3>1. PICK xad \in Nat \ {0}, xindex \in Nat : xad = cache.xad + 1 /\ xindex = cache.xindex + 1
      BY <1>1
    <3>2. cache' = [cache EXCEPT !.xad = xad] \/ cache' = [cache EXCEPT !.xindex = xindex, !.xad = xad]
      BY <1>1, <2>4, <3>1
    <3> QED BY <1>1, <3>1, <3>2
  <2> QED BY <2>2, <2>3, <2>4
<1>4. CASE InExtent
  <2> DEFINE n == Lesser((Xad.off + Xad.len) * BlockBytes - filepos, call.left)
             offset == filepos - Xad.off * BlockBytes
  <2>1. n \in 0..call.left
    <3>1. PICK l \in Nat, r \in 0 .. BlockBytes - 1 :
             l = filepos \div BlockBytes /\ r = filepos % BlockBytes /\ filepos = l * BlockBytes + r
      <4>1. filepos \in Nat
        BY <1>1
      <4> QED BY <4>1, DivMod, BlockBytesAssumption
    <3>2. PICK m \in Nat : m = Xad.off + Xad.len /\ l < m
      BY <1>2, <1>4, <3>1 DEF InExtent
    <3>3. l * BlockBytes + BlockBytes <= m * BlockBytes
      BY <3>2, LessTimes, BlockBytesAssumption
    <3>4. l * BlockBytes \in Nat /\ m * BlockBytes \in Nat
      BY BlockBytesAssumption, SMT
    <3>5. m * BlockBytes - filepos \in Nat
      BY <3>1, <3>3, <3>4, BlockBytesAssumption
    <3> QED BY <1>1, <3>2, <3>5 DEF Lesser
  <2>2. AdvanceTo("extents", Xad.addr, offset, n)
    BY <1>1, <1>4 DEF ReadExtent, Advance
  <2>3. Call' /\ At' /\ UNCHANGED <<volume, fsys_type>>
    <3> HIDE DEF n, offset
    <3> QED BY <1>1, <2>1, <2>2, AdvanceKeeps DEF OpsOf
  <2> QED BY <1>3, <2>3 DEF ExtentsGoOn, ExtentsInv, Nodes
<1>5. CASE UNCHANGED <<fsys_type, volume, filepos, filemax, errnum, call>>
  <2>1. Call' /\ At'
    BY <1>1, <1>5 DEF Call, CallTyped, AtNode, Node, Nodes, At, Looking
  <2> QED BY <1>3, <1>5, <2>1 DEF ExtentsGoOn, ExtentsInv, Nodes
<1> QED BY <1>4, <1>5 DEF ReadExtent

LEMMA FirstExtentKeeps ==
  ASSUME Inv, fsys_type \in {"jfs", "xfs"}, FirstExtent
  PROVE  ExtentsGoOn
<1>1. /\ Call /\ At /\ call.op = "reading" /\ UNCHANGED <<fsys_type, volume, filepos, filemax>>
      /\ call.ino \in DOMAIN Nodes /\ ExtentsInv
  BY DEF Inv, FirstExtent, Call, AtNode
<1>2. cache' \in {cache, AtExtent(call.ino, 0, 1), AtExtent(call.ino, 1, 1)}
  BY DEF FirstExtent
<1>3. ExtentsInv'
  <2>1. CASE cache' = cache
    BY <1>1, <2>1 DEF ExtentsInv, Nodes
  <2>2. CASE cache' \in {AtExtent(call.ino, 0, 1), AtExtent(call.ino, 1, 1)}
    BY <1>1, <2>2 DEF ExtentsInv, AtExtent, Nodes
  <2> QED BY <1>2, <2>1, <2>2
<1>4. CallTyped' /\ call'.op \in {"extents", "reading"} /\ call'.left = call.left
      /\ call'.ino = call.ino /\ call'.name = call.name /\ call'.updir = call.updir
  <2>1. CASE call' = [call EXCEPT !.op = "extents"]
    BY <1>1, <2>1 DEF Call, CallTyped
  <2>2. CASE call' = [call EXCEPT !.lost = TRUE]
    BY <1>1, <2>2 DEF Call, CallTyped
  <2> QED BY <2>1, <2>2 DEF FirstExtent
<1>5. Call' /\ At'
  BY <1>1, <1>4, CallStays DEF Call, AtNode, OpsOf, At, Looking
<1> QED BY <1>1, <1>3, <1>5 DEF ExtentsGoOn

LEMMA ExtentsKeep ==
  ASSUME Inv, fsys_type \in {"jfs", "xfs"}, ExtentTurn
  PROVE  ExtentsGoOn
<1>1. Call /\ At /\ ExtentsInv /\ "search" \in OpsOf(fsys_type)
  BY DEF Inv, OpsOf
<1>2. CASE call.op = "inode" /\ InodeLoaded(ExtentsUnset)
  <2>1. /\ Call' /\ At' /\ UNCHANGED <<volume, fsys_type>>
        /\ cache' = ExtentsUnset
    BY <1>1, <1>2, LoadedKeeps
  <2> QED BY <1>1, <2>1 DEF ExtentsGoOn, ExtentsInv, Nodes, ExtentsUnset
<1>7. CASE StaleInode
  <2>1. CallTyped' /\ call'.op = "inode" /\ call'.left = call.left
        /\ call'.ino \in DOMAIN Nodes /\ call'.name = call.name /\ call'.updir = call.updir
    BY <1>1, <1>7 DEF StaleInode, Call, CallTyped
  <2>2. Call'
    BY <1>1, <1>7, <2>1, CallStays DEF StaleInode, Call, AtNode
  <2> QED BY <1>1, <1>7, <2>1, <2>2 DEF StaleInode, At, Looking, ExtentsGoOn, ExtentsInv, Nodes
<1>8. CASE StaleLink
  <2>0. PICK text \in Paths, from \in {Root, call.updir} :
          call' = [call EXCEPT !.links = @ + 1, !.path = text \o @, !.ino = from,
                               !.updir = from, !.lost = TRUE, !.stale = TRUE]
    BY <1>8 DEF StaleLink
  <2>1. PICK links, path :
          call' = [call EXCEPT !.links = links, !.path = path, !.ino = from,
                               !.updir = from, !.lost = TRUE, !.stale = TRUE]
    BY <2>0
  <2>2. from \in DOMAIN Nodes
    BY <1>1, <1>8, <2>1, Running DEF StaleLink, NodesTyped, Call, AtNode, Nodes, Root
  <2>3. CallTyped' /\ call'.op = "inode" /\ call'.left = call.left
        /\ call'.ino = from /\ call'.name = call.name /\ call'.updir = from
    BY <1>1, <1>8, <2>1 DEF StaleLink, Call, CallTyped
  <2>4. Call'
    BY <1>1, <1>8, <2>2, <2>3, CallStays DEF StaleLink, Call
  <2> QED BY <1>1, <1>8, <2>3, <2>4
          DEF StaleLink, At, Looking, ExtentsGoOn, ExtentsInv, Nodes, ExtentsUnset
<1>3. CASE SearchEnds
  BY <1>1, <1>3, SearchEndsKeeps DEF ExtentsGoOn, ExtentsInv, Nodes
<1>4. CASE EntryLost
  <2>1. CallTyped' /\ call'.op = "search" /\ call'.left = call.left
        /\ call'.ino = call.ino /\ call'.name = call.name /\ call'.updir = call.updir
    BY <1>1, <1>4 DEF EntryLost, Call, CallTyped
  <2>2. Call'
    BY <1>1, <1>4, <2>1, CallStays DEF EntryLost, Call, AtNode
  <2> QED BY <1>1, <1>4, <2>1, <2>2 DEF EntryLost, At, Looking, ExtentsGoOn, ExtentsInv, Nodes
<1>5. CASE ExtentSearch
  <2>1. PICK a : SeeEntry(a) /\ UNCHANGED cache /\ call.op = "search"
    BY <1>5 DEF ExtentSearch
  <2> QED BY <1>1, <2>1, SeeEntryKeeps DEF ExtentsGoOn, ExtentsInv, Nodes
<1>6. CASE ExtentsEnd
  BY <1>1, <1>6, ShortReadKeeps DEF ExtentsEnd, ExtentsGoOn, ExtentsInv, Nodes
<1> QED BY <1>2, <1>3, <1>4, <1>5, <1>6, <1>7, <1>8, FirstExtentKeeps, ReadExtentKeeps
        DEF ExtentTurn

---------------------------------------------------------------------------
(* ntfs. *)

NtfsGoesOn == Call' /\ At' /\ NtfsInv' /\ fsys_type' = fsys_type

\* What the invariant says while a file is open does not depend on the position.
LEMMA SameBuffer ==
  ASSUME Inv, fsys_type = "ntfs", FileOpen \/ call.op = "blocks", Call', At',
         UNCHANGED <<volume, fsys_type, cache, filemax>>, call'.ino = call.ino, call'.op = "read"
  PROVE  NtfsGoesOn
  BY DEF Inv, NtfsInv, FileOpen, BufferTrue, Node, Nodes, NtfsGoesOn

LEMMA NtfsFailsKeeps ==
  ASSUME Inv, fsys_type = "ntfs", call.op = "blocks", NEW ok \in BOOLEAN, NtfsFails(ok),
         UNCHANGED cache
  PROVE  NtfsGoesOn
<1>1. /\ Call /\ At /\ call.buf \in Bytes /\ Len(call.buf) <= filepos /\ NtfsInv
      /\ UNCHANGED <<fsys_type, volume, filemax>> /\ filepos' = filepos - Len(call.buf)
  BY DEF Inv, NtfsInv, NtfsFails
<1>2. CallTyped' /\ call'.op = "failed" /\ call'.left = 0
      /\ call'.ino = call.ino /\ call'.name = call.name /\ call'.updir = call.updir
  BY <1>1 DEF NtfsFails, Returned, Call, CallTyped
<1>3. Call'
  BY <1>1, <1>2, CallStays, Always DEF Call, AtNode
<1>4. filepos' \in Nat /\ filepos' <= filemax
  <2>1. Len(call.buf) \in Nat
    BY <1>1 DEF Bytes
  <2> QED BY <1>1, <2>1 DEF At, Call, CallTyped
<1> QED BY <1>1, <1>2, <1>3, <1>4 DEF NtfsGoesOn, NtfsInv, FileOpen, At, Looking

LEMMA NtfsComponentKeeps ==
  ASSUME Inv, fsys_type = "ntfs", NtfsComponent
  PROVE  NtfsGoesOn
<1>1. /\ Call /\ At /\ call.op = "inode" /\ call.left = 0 /\ filepos = 0 /\ NtfsInv
      /\ call.ino \in DOMAIN Nodes
  BY DEF Inv, At, Looking, NtfsComponent, Call, AtNode
<1>2. CASE DirFails("corrupt", FALSE) /\ UNCHANGED cache
  BY <1>1, <1>2, DirFailsKeeps DEF NtfsGoesOn, NtfsInv, FileOpen
<1>3. cache' = NtfsMounted => /\ cache' \in [save_pos : {NoPos}, sbuf : {<<>>}, run : Nat, target : Nat]
  BY DEF NtfsMounted
<1>4. CASE DirFails("not found", TRUE) /\ cache' = NtfsMounted
  BY <1>1, <1>3, <1>4, DirFailsKeeps DEF NtfsGoesOn, NtfsInv, FileOpen
<1>5. CASE /\ cache' = NtfsMounted /\ Node(call.ino).type = "dir"
           /\ call' = [call EXCEPT !.op = "search", !.loc = 0]
           /\ UNCHANGED <<fsys_type, volume, filepos, filemax, errnum>>
  <2>1. CallTyped' /\ call'.op = "search" /\ call'.left = 0 /\ call'.ino = call.ino
        /\ call'.name = call.name /\ call'.updir = call.updir
    BY <1>1, <1>5 DEF Call, CallTyped
  <2>2. Call'
    BY <1>1, <1>5, <2>1, CallStays DEF Call, AtNode, OpsOf
  <2> QED BY <1>1, <1>3, <1>5, <2>1, <2>2 DEF At, Looking, NtfsGoesOn, NtfsInv, FileOpen
<1>6. CASE /\ cache' = NtfsMounted /\ call' = [call EXCEPT !.op = "opened"]
           /\ filemax' = IF Node(call.ino).type = "dir" THEN 0 ELSE Node(call.ino).size
           /\ filepos' = 0 /\ UNCHANGED <<fsys_type, volume, errnum>>
  <2>1. CallTyped' /\ call'.op = "opened" /\ call'.left = 0 /\ call'.ino = call.ino
        /\ call'.name = call.name /\ call'.updir = call.updir
    BY <1>1, <1>6 DEF Call, CallTyped
  <2>2. Call'
    BY <1>1, <1>6, <2>1, CallStays, Always DEF Call, AtNode
  <2>3. filemax' \in Nat
    BY <1>1, <1>6, Running DEF NodesTyped, Node, Nodes
  <2>4. <<>> \in Bytes
    BY DEF Bytes
  <2>5. BufferTrue'
    BY <1>3, <1>6 DEF BufferTrue
  <2> QED BY <1>1, <1>3, <1>6, <2>1, <2>2, <2>3, <2>4, <2>5 DEF At, Looking, NtfsGoesOn, NtfsInv,
             FileOpen, Node, Nodes
<1> QED BY <1>2, <1>4, <1>5, <1>6 DEF NtfsComponent

LEMMA NtfsSearchKeeps ==
  ASSUME Inv, fsys_type = "ntfs", NtfsSearch
  PROVE  NtfsGoesOn
<1>1. Call /\ At /\ call.op = "search" /\ NtfsInv
  BY DEF Inv, NtfsSearch
<1>2. CASE DirFails("corrupt", FALSE) /\ UNCHANGED cache
  BY <1>1, <1>2, DirFailsKeeps DEF NtfsGoesOn, NtfsInv, FileOpen
<1>3. CASE ~(DirFails("corrupt", FALSE) /\ UNCHANGED cache)
  <2>1. PICK a, b : SeeEntry(a) /\ cache' = [cache EXCEPT !.sbuf = b]
    BY <1>3 DEF NtfsSearch
  <2>2. /\ Call' /\ At' /\ UNCHANGED <<volume, fsys_type>> /\ call'.op \in {"inode", "search"}
    BY <1>1, <2>1, SeeEntryKeeps
  <2> QED BY <1>1, <2>1, <2>2 DEF NtfsGoesOn, NtfsInv, FileOpen
<1> QED BY <1>2, <1>3

\* The run that a call of read_block is in, while bytes are left.
LEMMA NtfsPlace ==
  ASSUME Inv, fsys_type = "ntfs", call.op = "blocks", call.left > 0
  PROVE  /\ Call /\ At /\ NtfsInv /\ call.ino \in DOMAIN Nodes /\ RunsTyped(volume)
         /\ Node(call.ino).type = "file" /\ filemax = Node(call.ino).size
         /\ Len(Node(call.ino).blocks) \in Nat /\ filemax <= Len(Node(call.ino).blocks) * BlockBytes
         /\ filepos \in Nat /\ filemax \in Nat /\ call.left \in Nat /\ filepos + call.left <= filemax
         /\ cache.run \in DOMAIN Runs(call.ino) /\ cache.run \in Nat /\ cache.target \in Nat
         /\ NtfsRun \in [off : Nat, len : Nat \ {0}, addr : Nat]
         /\ NtfsRun.off <= cache.target /\ cache.target <= NtfsRun.off + NtfsRun.len
         /\ cache.target = filepos \div BlockBytes
<1>1. /\ Call /\ At /\ NtfsInv /\ call.ino \in DOMAIN Nodes /\ RunsTyped(volume) /\ NodesTyped(volume)
      /\ NtfsTyped(volume)
  BY Running DEF Inv, Call, AtNode
<1>2. /\ filepos \in Nat /\ filemax \in Nat /\ call.left \in Nat /\ filepos + call.left <= filemax
  BY <1>1 DEF At, Call, CallTyped
<1>3. Node(call.ino).type = "file" /\ filemax = Node(call.ino).size
  <2>1. filemax # 0
    BY <1>2
  <2> QED BY <1>1, <2>1 DEF NtfsInv, NodesTyped, NtfsTyped, Node, Nodes
<1>4. Len(Node(call.ino).blocks) \in Nat /\ filemax <= Len(Node(call.ino).blocks) * BlockBytes
  BY <1>1, <1>3 DEF NodesTyped, Node, Nodes
<1>5. /\ cache.run \in DOMAIN Runs(call.ino) /\ cache.run \in Nat /\ cache.target \in Nat
      /\ NtfsRun.off <= cache.target /\ cache.target <= NtfsRun.off + NtfsRun.len
      /\ cache.target = filepos \div BlockBytes
  BY <1>1 DEF NtfsInv
<1>6. NtfsRun \in [off : Nat, len : Nat \ {0}, addr : Nat]
  BY <1>1, <1>5, RunsOfNode DEF NtfsRun
<1> QED BY <1>1, <1>2, <1>3, <1>4, <1>5, <1>6

\* The run after the one that a place in the file is at the end of.
LEMMA RunAfter ==
  ASSUME RunsTyped(volume), NEW ino \in DOMAIN Nodes, NEW r \in DOMAIN Runs(ino), NEW p \in Nat,
         p < Len(Node(ino).blocks) * BlockBytes, Len(Node(ino).blocks) \in Nat,
         p \div BlockBytes = Runs(ino)[r].off + Runs(ino)[r].len
  PROVE  /\ r + 1 \in DOMAIN Runs(ino)
         /\ Runs(ino)[r + 1].off = p \div BlockBytes
         /\ Runs(ino)[r + 1] \in [off : Nat, len : Nat \ {0}, addr : Nat]
<1>1. p \div BlockBytes < Len(Node(ino).blocks) /\ p \div BlockBytes \in Nat
  BY BlockBytesAssumption, DivBelow, DivMod
<1>2. r + 1 \in DOMAIN Runs(ino)
  BY <1>1, RunsOfNode
<1> QED BY <1>2, RunsOfNode

\* The bytes of a run are bytes.
LEMMA RunBytesTyped ==
  ASSUME NtfsRun \in [off : Nat, len : Nat \ {0}, addr : Nat], cache.target \in Nat, NEW n \in Nat
  PROVE  RunBytes(n) \in Bytes /\ Len(RunBytes(n)) = n
<1>1. Zeroes(n) \in Bytes /\ Len(Zeroes(n)) = n
  BY DEF Zeroes, Zero, Bytes
<1>2. \A b \in Int : DiskBytes(b, 0, n) \in Bytes /\ Len(DiskBytes(b, 0, n)) = n
  <2> SUFFICES ASSUME NEW b \in Int PROVE DiskBytes(b, 0, n) \in Bytes /\ Len(DiskBytes(b, 0, n)) = n
    OBVIOUS
  <2>1. \A i \in 1..n : <<b + (0 + i - 1) \div BlockBytes, (0 + i - 1) % BlockBytes>> \in Int \X Int
    <3> SUFFICES ASSUME NEW i \in 1..n
                 PROVE  <<b + (0 + i - 1) \div BlockBytes, (0 + i - 1) % BlockBytes>> \in Int \X Int
      OBVIOUS
    <3>1. PICK m \in Nat : m = 0 + i - 1
      OBVIOUS
    <3>2. m \div BlockBytes \in Nat /\ m % BlockBytes \in 0 .. BlockBytes - 1
      BY DivMod, BlockBytesAssumption
    <3>3. m % BlockBytes \in Int
      BY <3>2, BlockBytesAssumption
    <3> QED BY <3>1, <3>2, <3>3
  <2> QED BY <2>1 DEF DiskBytes, Bytes
<1>3. NtfsRun.addr + cache.target - NtfsRun.off \in Int
  OBVIOUS
<1> QED BY <1>1, <1>2, <1>3 DEF RunBytes

\* Bytes put together, and a part of them.
LEMMA BytesJoined ==
  ASSUME NEW s \in Bytes, NEW t \in Bytes
  PROVE  s \o t \in Bytes /\ Len(s \o t) = Len(s) + Len(t) /\ Len(s) \in Nat /\ Len(t) \in Nat
  BY DEF Bytes
LEMMA BytesPart ==
  ASSUME NEW s \in Bytes, NEW o \in Nat, NEW n \in Nat, n = 0 \/ o + n <= Len(s)
  PROVE  SubSeq(s, o + 1, o + n) \in Bytes /\ Len(SubSeq(s, o + 1, o + n)) = n
<1>1. PICK S : S = Int \X Int
  OBVIOUS
<1>2. s \in Seq(S)
  BY <1>1 DEF Bytes
<1>3. CASE n = 0
  <2>1. SubSeq(s, o + 1, o + n) = <<>>
    BY <1>2, <1>3
  <2> QED BY <1>1, <1>3, <2>1 DEF Bytes
<1>4. CASE n # 0
  <2>1. SubSeq(s, o + 1, o + n) \in Seq(S) /\ Len(SubSeq(s, o + 1, o + n)) = n
    BY <1>2, <1>4
  <2> QED BY <1>1, <2>1 DEF Bytes
<1> QED BY <1>3, <1>4

\* A call of read_block goes on: what it has to keep.
LEMMA NtfsStays ==
  ASSUME Inv, fsys_type = "ntfs", call.op \in {"reading", "blocks"}, NEW n \in 0..call.left,
         NEW buf \in Bytes, Len(buf) <= filepos + n, UNCHANGED <<fsys_type, volume, filemax>>,
         call' = [call EXCEPT !.op = "blocks", !.left = call.left - n, !.buf = buf],
         filepos' = filepos + n,
         cache' \in [save_pos : Nat \cup {NoPos}, sbuf : {cache'.sbuf}, run : Nat, target : Nat],
         cache'.sbuf \in Bytes, cache'.save_pos # NoPos => Len(cache'.sbuf) = BlockBytes,
         ~volume.excused => BufferTrue',
         call.left - n > 0 =>
           /\ cache'.run \in DOMAIN Runs(call.ino)
           /\ Runs(call.ino)[cache'.run].off <= cache'.target
           /\ cache'.target <= Runs(call.ino)[cache'.run].off + Runs(call.ino)[cache'.run].len
           /\ cache'.target = (filepos + n) \div BlockBytes
  PROVE  NtfsGoesOn
<1>1. /\ Call /\ At /\ call.left \in Nat /\ NtfsInv /\ (FileOpen \/ call.op = "blocks")
  BY DEF Inv, Call, CallTyped, FileOpen
<1>2. PICK left \in Nat : left = call.left - n
  BY <1>1
<1>3. CallTyped' /\ call'.op = "blocks" /\ call'.left = left /\ call'.buf = buf
      /\ call'.ino = call.ino /\ call'.name = call.name /\ call'.updir = call.updir
  BY <1>1, <1>2 DEF Call, CallTyped
<1>4. Call'
  BY <1>1, <1>3, CallStays DEF Call, AtNode, OpsOf
<1>5. At'
  <2>1. filepos + n \in Nat /\ filepos + n + left <= filemax
    BY <1>1, <1>2 DEF At
  <2>2. filemax \in Nat
    BY <1>1 DEF At
  <2>3. filepos' \in Nat /\ filepos' + call'.left <= filemax' /\ filemax' \in Nat
    BY <1>3, <2>1, <2>2
  <2> QED BY <1>3, <2>3 DEF At, Looking
<1>6. Runs(call.ino)' = Runs(call.ino) /\ Node(call.ino)' = Node(call.ino)
      /\ Runs(call.ino') = Runs(call.ino)
  BY <1>3 DEF Runs, Node, Nodes
<1>7. filemax' = IF Node(call.ino)'.type = "dir" THEN 0 ELSE Node(call.ino)'.size
  BY <1>1, <1>6 DEF NtfsInv
<1>8. call'.op = "blocks" /\ call'.left > 0 =>
        /\ cache'.run \in DOMAIN Runs(call.ino)'
        /\ NtfsRun.off' <= cache'.target /\ cache'.target <= NtfsRun.off' + NtfsRun.len'
        /\ cache'.target = filepos' \div BlockBytes
  BY <1>2, <1>3, <1>6 DEF NtfsRun
<1> QED BY <1>3, <1>4, <1>5, <1>7, <1>8 DEF NtfsGoesOn, NtfsInv, FileOpen

LEMMA NtfsBeginKeeps ==
  ASSUME Inv, fsys_type = "ntfs", NtfsBegin
  PROVE  NtfsGoesOn
<1> DEFINE offset == filepos % BlockBytes
           n      == IF filepos - offset = cache.save_pos
                     THEN Lesser(BlockBytes - offset, call.left) ELSE 0
           block  == (filepos + n) \div BlockBytes
           buf    == SubSeq(cache.sbuf, offset + 1, offset + n)
<1>1. /\ Call /\ At /\ call.op = "reading" /\ call.left > 0 /\ call.left \in Nat /\ NtfsInv
      /\ filepos \in Nat /\ filemax \in Nat /\ filepos + call.left <= filemax
      /\ UNCHANGED <<fsys_type, volume, filemax>> /\ call.ino \in DOMAIN Nodes
      /\ cache \in [save_pos : Nat \cup {NoPos}, sbuf : {cache.sbuf}, run : Nat, target : Nat]
      /\ cache.sbuf \in Bytes /\ (cache.save_pos # NoPos => Len(cache.sbuf) = BlockBytes)
      /\ (~volume.excused => BufferTrue)
      /\ filemax = IF Node(call.ino).type = "dir" THEN 0 ELSE Node(call.ino).size
  BY DEF Inv, NtfsInv, NtfsBegin, Call, CallTyped, AtNode, At, FileOpen
<1>2. offset \in 0 .. BlockBytes - 1 /\ offset <= filepos
  <2>1. PICK o, q : o = offset /\ q = filepos \div BlockBytes
    OBVIOUS
  <2>2. q \in Nat /\ o \in 0 .. BlockBytes - 1 /\ filepos = q * BlockBytes + o
    BY <1>1, <2>1, DivMod, BlockBytesAssumption
  <2>3. q * BlockBytes \in Nat
    BY <2>2, BlockBytesAssumption, SMT
  <2> QED BY <2>1, <2>2, <2>3, BlockBytesAssumption
<1>3. n \in 0..call.left /\ (n = 0 \/ offset + n <= Len(cache.sbuf))
  <2> DEFINE o == offset
  <2>1. o \in 0 .. BlockBytes - 1 /\ o <= filepos
    BY <1>2
  <2>2. n = IF filepos - o = cache.save_pos THEN Lesser(BlockBytes - o, call.left) ELSE 0
    OBVIOUS
  <2> HIDE DEF o, n
  <2>3. CASE filepos - o = cache.save_pos
    <3>1. cache.save_pos # NoPos
      BY <1>1, <2>1, <2>3 DEF NoPos
    <3>2. Len(cache.sbuf) = BlockBytes
      BY <1>1, <3>1
    <3>3. n \in 0..call.left /\ o + n <= BlockBytes
      BY <1>1, <2>1, <2>2, <2>3, BlockBytesAssumption, SMTT(40) DEF Lesser
    <3> QED BY <3>2, <3>3 DEF o
  <2>4. CASE filepos - o # cache.save_pos
    BY <1>1, <2>2, <2>4
  <2> QED BY <2>3, <2>4
<1>4. buf \in Bytes /\ Len(buf) = n
  <2> HIDE DEF n
  <2>1. offset \in Nat /\ n \in Nat
    BY <1>1, <1>2, <1>3, BlockBytesAssumption
  <2> HIDE DEF offset
  <2> QED BY <1>1, <1>3, <2>1, BytesPart
<1>5. call.left # n => /\ RunWith(block) \in DOMAIN Runs(call.ino) /\ RunWith(block) \in Nat
                       /\ Runs(call.ino)[RunWith(block)].off <= block
                       /\ block < Runs(call.ino)[RunWith(block)].off + Runs(call.ino)[RunWith(block)].len
                       /\ block \in Nat
  <2> SUFFICES ASSUME call.left # n PROVE
                       /\ RunWith(block) \in DOMAIN Runs(call.ino) /\ RunWith(block) \in Nat
                       /\ Runs(call.ino)[RunWith(block)].off <= block
                       /\ block < Runs(call.ino)[RunWith(block)].off + Runs(call.ino)[RunWith(block)].len
                       /\ block \in Nat
    OBVIOUS
  <2>1. PICK p \in Nat : p = filepos + n /\ p < filemax
    <3> HIDE DEF n
    <3> QED BY <1>1, <1>3
  <2>2. /\ Node(call.ino).type = "file" /\ filemax = Node(call.ino).size
        /\ Len(Node(call.ino).blocks) \in Nat /\ filemax <= Len(Node(call.ino).blocks) * BlockBytes
        /\ RunsTyped(volume)
    <3>1. NodesTyped(volume) /\ NtfsTyped(volume) /\ RunsTyped(volume)
      BY <1>1, Running
    <3>2. Node(call.ino).type = "file"
      BY <1>1, <2>1, <3>1 DEF NodesTyped, NtfsTyped, Node, Nodes
    <3> QED BY <1>1, <3>1, <3>2 DEF NodesTyped, Node, Nodes
  <2>3. PICK k \in Nat : k = block /\ k < Len(Node(call.ino).blocks)
    <3>1. p \div BlockBytes \in Nat
      BY DivMod, BlockBytesAssumption
    <3>2. Len(Node(call.ino).blocks) * BlockBytes \in Nat
      BY <2>2, BlockBytesAssumption, SMT
    <3>3. p < Len(Node(call.ino).blocks) * BlockBytes
      BY <1>1, <2>1, <2>2, <3>2
    <3>4. p \div BlockBytes < Len(Node(call.ino).blocks)
      BY <2>2, <3>3, DivBelow, BlockBytesAssumption
    <3> QED BY <2>1, <3>1, <3>4
  <2> HIDE DEF block
  <2>4. \E r \in DOMAIN Runs(call.ino) :
          Runs(call.ino)[r].off <= k /\ k < Runs(call.ino)[r].off + Runs(call.ino)[r].len
    BY <1>1, <2>2, <2>3, RunsOfNode
  <2>5. DOMAIN Runs(call.ino) = 1..Len(Runs(call.ino)) /\ Len(Runs(call.ino)) \in Nat
    BY <1>1, <2>2, RunsOfNode
  <2>6. /\ RunWith(k) \in 1..Len(Runs(call.ino))
        /\ Runs(call.ino)[RunWith(k)].off <= k
        /\ k < Runs(call.ino)[RunWith(k)].off + Runs(call.ino)[RunWith(k)].len
    BY <2>4, <2>5 DEF RunWith
  <2> QED BY <2>3, <2>5, <2>6
<1>6. /\ call' = [call EXCEPT !.op = "blocks", !.left = call.left - n, !.buf = buf]
      /\ filepos' = filepos + n
      /\ cache' = IF call.left = n THEN cache
                  ELSE [cache EXCEPT !.target = block, !.run = RunWith(block)]
  BY <1>1 DEF NtfsBegin, Call, CallTyped
<1>7. /\ cache' \in [save_pos : Nat \cup {NoPos}, sbuf : {cache.sbuf}, run : Nat, target : Nat]
      /\ cache'.sbuf = cache.sbuf /\ cache'.save_pos = cache.save_pos
      /\ (call.left # n => cache'.run = RunWith(block) /\ cache'.target = block)
  <2> HIDE DEF n, block
  <2> QED BY <1>1, <1>5, <1>6
<1>8. ~volume.excused => BufferTrue'
  <2>1. call'.ino = call.ino
    BY <1>1, <1>6 DEF Call, CallTyped
  <2> QED BY <1>1, <1>7, <2>1 DEF BufferTrue, FileOpen, Node, Nodes
<1>9. call.left - n > 0 =>
           /\ cache'.run \in DOMAIN Runs(call.ino)
           /\ Runs(call.ino)[cache'.run].off <= cache'.target
           /\ cache'.target <= Runs(call.ino)[cache'.run].off + Runs(call.ino)[cache'.run].len
           /\ cache'.target = (filepos + n) \div BlockBytes
  <2> SUFFICES ASSUME call.left - n > 0 PROVE
           /\ cache'.run \in DOMAIN Runs(call.ino)
           /\ Runs(call.ino)[cache'.run].off <= cache'.target
           /\ cache'.target <= Runs(call.ino)[cache'.run].off + Runs(call.ino)[cache'.run].len
           /\ cache'.target = (filepos + n) \div BlockBytes
    OBVIOUS
  <2>1. call.left # n /\ block = (filepos + n) \div BlockBytes
    BY <1>1, <1>3
  <2> HIDE DEF n, block
  <2>2. PICK r \in DOMAIN Runs(call.ino) : r = RunWith(block)
    BY <1>5, <2>1
  <2>3. Runs(call.ino)[r] \in [off : Nat, len : Nat \ {0}, addr : Nat]
    BY <1>1, Running, RunsOfNode
  <2>4. block <= Runs(call.ino)[r].off + Runs(call.ino)[r].len
    BY <1>5, <2>1, <2>2, <2>3
  <2> QED BY <1>5, <1>7, <2>1, <2>2, <2>4
<1>10. Len(buf) <= filepos + n /\ cache'.sbuf \in Bytes
       /\ cache' \in [save_pos : Nat \cup {NoPos}, sbuf : {cache'.sbuf}, run : Nat, target : Nat]
       /\ (cache'.save_pos # NoPos => Len(cache'.sbuf) = BlockBytes)
  <2> HIDE DEF n, buf
  <2> QED BY <1>1, <1>3, <1>4, <1>7
<1> HIDE DEF n, buf
<1> QED BY <1>1, <1>3, <1>4, <1>6, <1>8, <1>9, <1>10, NtfsStays

\* What is in the buffer of a call, and in sbuf, while it runs.
LEMMA NtfsHas ==
  ASSUME Inv, fsys_type = "ntfs", call.op = "blocks"
  PROVE  /\ call.buf \in Bytes /\ Len(call.buf) <= filepos /\ Len(call.buf) \in Nat
         /\ cache \in [save_pos : Nat \cup {NoPos}, sbuf : {cache.sbuf}, run : Nat, target : Nat]
         /\ cache.sbuf \in Bytes /\ (cache.save_pos # NoPos => Len(cache.sbuf) = BlockBytes)
         /\ (~volume.excused => BufferTrue)
<1>1. call.buf \in Bytes
  BY DEF Inv, NtfsInv
<1>2. Len(call.buf) \in Nat
  BY <1>1 DEF Bytes
<1> QED BY <1>1, <1>2 DEF Inv, NtfsInv

LEMMA NextRunKeeps ==
  ASSUME Inv, fsys_type = "ntfs", NextRun
  PROVE  NtfsGoesOn
<1>1. call.op = "blocks" /\ call.left > 0 /\ InRun = 0 /\ call.left \in Nat
  BY DEF NextRun, Inv, Call, CallTyped
<1>2. CASE NtfsFails(TRUE) /\ UNCHANGED cache
  BY <1>1, <1>2, NtfsFailsKeeps
<1>3. CASE /\ cache' = [cache EXCEPT !.run = @ + 1]
           /\ UNCHANGED <<fsys_type, volume, filepos, filemax, call>>
  <2>1. cache.target = Runs(call.ino)[cache.run].off + Runs(call.ino)[cache.run].len
        /\ cache.run \in DOMAIN Runs(call.ino) /\ cache.run \in Nat
    <3>1. NtfsRun \in [off : Nat, len : Nat \ {0}, addr : Nat] /\ cache.target \in Nat
          /\ cache.run \in DOMAIN Runs(call.ino) /\ cache.run \in Nat
      BY <1>1, NtfsPlace
    <3>2. cache.target = NtfsRun.off + NtfsRun.len
      BY <1>1, <3>1 DEF InRun
    <3> QED BY <3>1, <3>2 DEF NtfsRun
  <2>2. filepos < Len(Node(call.ino).blocks) * BlockBytes
        /\ filepos \in Nat /\ Len(Node(call.ino).blocks) \in Nat
        /\ cache.target = filepos \div BlockBytes /\ RunsTyped(volume) /\ call.ino \in DOMAIN Nodes
    <3>1. /\ filepos \in Nat /\ filemax \in Nat /\ filepos + call.left <= filemax
          /\ filemax <= Len(Node(call.ino).blocks) * BlockBytes /\ Len(Node(call.ino).blocks) \in Nat
          /\ cache.target = filepos \div BlockBytes /\ RunsTyped(volume) /\ call.ino \in DOMAIN Nodes
      BY <1>1, NtfsPlace
    <3>2. Len(Node(call.ino).blocks) * BlockBytes \in Nat
      BY <3>1, BlockBytesAssumption, SMT
    <3> QED BY <1>1, <3>1, <3>2
  <2>3. PICK r \in DOMAIN Runs(call.ino) : r = cache.run + 1 /\ r \in Nat
                      /\ Runs(call.ino)[r].off = cache.target
                      /\ Runs(call.ino)[r] \in [off : Nat, len : Nat \ {0}, addr : Nat]
    BY <2>1, <2>2, RunAfter
  <2>4. cache' \in [save_pos : Nat \cup {NoPos}, sbuf : {cache.sbuf}, run : Nat, target : Nat]
        /\ cache'.run = r /\ cache'.target = cache.target
        /\ cache'.sbuf = cache.sbuf /\ cache'.save_pos = cache.save_pos
    <3>1. cache' = [cache EXCEPT !.run = r]
      BY <1>3, <2>3
    <3> QED BY <1>1, <2>3, <3>1, NtfsHas
  <2>5. ~volume.excused => BufferTrue'
    BY <1>1, <1>3, <2>4, NtfsHas DEF BufferTrue, FileOpen, Node, Nodes
  <2>6. /\ 0 \in 0..call.left /\ filepos' = filepos + 0
        /\ call' = [call EXCEPT !.op = "blocks", !.left = call.left - 0, !.buf = call.buf]
    <3>1. 0 \in 0..call.left /\ filepos' = filepos + 0 /\ call.left - 0 = call.left
      BY <1>1, <1>3, <2>2
    <3>2. call = [call EXCEPT !.op = "blocks", !.left = call.left, !.buf = call.buf]
      BY <1>1 DEF Inv, Call, CallTyped
    <3>3. call = [call EXCEPT !.op = "blocks", !.left = call.left - 0, !.buf = call.buf]
      BY <3>1, <3>2, Zenon
    <3> QED BY <1>3, <3>1, <3>3
  <2>7. call.buf \in Bytes /\ Len(call.buf) <= filepos + 0
        /\ cache' \in [save_pos : Nat \cup {NoPos}, sbuf : {cache'.sbuf}, run : Nat, target : Nat]
        /\ cache'.sbuf \in Bytes /\ (cache'.save_pos # NoPos => Len(cache'.sbuf) = BlockBytes)
    BY <1>1, <2>2, <2>4, NtfsHas
  <2>8. /\ cache'.run \in DOMAIN Runs(call.ino)
        /\ Runs(call.ino)[cache'.run].off <= cache'.target
        /\ cache'.target <= Runs(call.ino)[cache'.run].off + Runs(call.ino)[cache'.run].len
        /\ cache'.target = (filepos + 0) \div BlockBytes
    BY <2>2, <2>3, <2>4
  <2> QED BY <1>1, <1>3, <2>5, <2>6, <2>7, <2>8, NtfsStays
<1> QED BY <1>2, <1>3 DEF NextRun

LEMMA NtfsBlocksKeeps ==
  ASSUME Inv, fsys_type = "ntfs", NtfsBlocks
  PROVE  NtfsGoesOn
<1> DEFINE n == Lesser(InRun, NtfsWhole)
           more == RunBytes(n * BlockBytes)
<1>1. call.op = "blocks" /\ NtfsWhole > 0 /\ InRun > 0
  BY DEF NtfsBlocks
<1>2. call.left \in Nat /\ filepos \in Nat /\ filemax \in Nat /\ Call /\ At
  BY DEF Inv, Call, CallTyped, At
<1>3. PICK W \in Nat, r \in 0 .. BlockBytes - 1 :
         W = NtfsWhole /\ W > 0 /\ call.left = W * BlockBytes + r
  <2>1. NtfsWhole = call.left \div BlockBytes
    BY <1>1 DEF NtfsWhole
  <2> QED BY <1>1, <1>2, <2>1, DivMod, BlockBytesAssumption
<1>4. W * BlockBytes \in Nat /\ call.left > 0
  <2>1. W * BlockBytes \in Nat
    BY BlockBytesAssumption, SMT
  <2>2. 0 * BlockBytes + BlockBytes <= W * BlockBytes
    BY <1>3, LessTimes, BlockBytesAssumption
  <2>3. 0 * BlockBytes = 0
    BY BlockBytesAssumption
  <2> QED BY <1>2, <1>3, <2>1, <2>2, <2>3, BlockBytesAssumption
<1>5. /\ NtfsRun \in [off : Nat, len : Nat \ {0}, addr : Nat] /\ cache.target \in Nat
      /\ cache.run \in DOMAIN Runs(call.ino) /\ cache.run \in Nat
      /\ NtfsRun.off <= cache.target /\ cache.target <= NtfsRun.off + NtfsRun.len
      /\ cache.target = filepos \div BlockBytes
      /\ RunsTyped(volume) /\ call.ino \in DOMAIN Nodes
      /\ filemax <= Len(Node(call.ino).blocks) * BlockBytes /\ Len(Node(call.ino).blocks) \in Nat
      /\ filepos + call.left <= filemax
  BY <1>1, <1>4, NtfsPlace
<1>6. PICK m \in Nat : m = n /\ m <= W /\ m <= InRun /\ m > 0 /\ (m < W => m = InRun)
                      /\ cache.target + m <= NtfsRun.off + NtfsRun.len
  BY <1>1, <1>3, <1>5 DEF Lesser, InRun
<1>7. PICK k \in Nat : k = m * BlockBytes /\ k <= W * BlockBytes
  <2>1. m * BlockBytes \in Nat
    BY BlockBytesAssumption, SMT
  <2>2. m < W => m * BlockBytes + BlockBytes <= W * BlockBytes
    BY LessTimes, BlockBytesAssumption
  <2>3. m = W => m * BlockBytes = W * BlockBytes
    OBVIOUS
  <2> QED BY <1>4, <1>6, <2>1, <2>2, <2>3, BlockBytesAssumption
<1>8. CASE \E ok \in BOOLEAN : NtfsFails(ok) /\ UNCHANGED cache
  BY <1>1, <1>8, NtfsFailsKeeps
<1>9. CASE /\ call' = [call EXCEPT !.buf = @ \o RunBytes(n * BlockBytes), !.left = @ - n * BlockBytes]
           /\ filepos' = filepos + n * BlockBytes
           /\ cache' = [cache EXCEPT !.target = @ + n, !.run = IF n < NtfsWhole THEN @ + 1 ELSE @]
           /\ UNCHANGED <<fsys_type, volume, filemax>>
  <2> DEFINE buf == call.buf \o RunBytes(k)
  <2>1. buf \in Bytes /\ Len(buf) = Len(call.buf) + k /\ Len(buf) <= filepos + k
    <3>1. RunBytes(k) \in Bytes /\ Len(RunBytes(k)) = k
      BY <1>5, RunBytesTyped
    <3>2. call.buf \in Bytes /\ Len(call.buf) \in Nat /\ Len(call.buf) <= filepos
      BY <1>1, NtfsHas
    <3>3. buf \in Bytes /\ Len(buf) = Len(call.buf) + Len(RunBytes(k))
      BY <3>1, <3>2, BytesJoined
    <3> QED BY <1>2, <3>1, <3>2, <3>3
  <2>2. k \in 0..call.left /\ filepos' = filepos + k
        /\ call' = [call EXCEPT !.op = "blocks", !.left = call.left - k, !.buf = buf]
    <3>1. k \in 0..call.left
      BY <1>2, <1>3, <1>4, <1>7, BlockBytesAssumption
    <3>2. n * BlockBytes = k
      BY <1>6, <1>7
    <3> HIDE DEF n
    <3> QED BY <1>1, <1>2, <1>9, <3>1, <3>2 DEF Call, CallTyped
  <2>3. PICK t \in Nat, run \in Nat :
          t = cache.target + m /\ run = IF m < W THEN cache.run + 1 ELSE cache.run
    <3>1. cache.target + m \in Nat /\ (IF m < W THEN cache.run + 1 ELSE cache.run) \in Nat
      BY <1>5
    <3> QED BY <3>1
  <2>10. cache' = [cache EXCEPT !.target = t, !.run = run]
    <3> HIDE DEF n
    <3> QED BY <1>3, <1>6, <1>9, <2>3
  <2>4. cache' \in [save_pos : Nat \cup {NoPos}, sbuf : {cache.sbuf}, run : Nat, target : Nat]
        /\ cache'.run = run /\ cache'.target = t
        /\ cache'.sbuf = cache.sbuf /\ cache'.save_pos = cache.save_pos
    BY <1>1, <2>10, NtfsHas
  <2>5. ~volume.excused => BufferTrue'
    <3>1. call'.ino = call.ino
      BY <1>2, <2>2 DEF Call, CallTyped
    <3> QED BY <1>1, <1>9, <2>4, <3>1, NtfsHas DEF BufferTrue, FileOpen, Node, Nodes
  <2>6. cache'.sbuf \in Bytes /\ (cache'.save_pos # NoPos => Len(cache'.sbuf) = BlockBytes)
        /\ cache' \in [save_pos : Nat \cup {NoPos}, sbuf : {cache'.sbuf}, run : Nat, target : Nat]
    BY <1>1, <2>4, NtfsHas
  <2>7. t = (filepos + k) \div BlockBytes
    <3>1. (filepos + m * BlockBytes) \div BlockBytes = filepos \div BlockBytes + m
      BY <1>2, DivAdd, BlockBytesAssumption
    <3> QED BY <1>5, <1>7, <2>3, <3>1
  <2>8. ASSUME call.left - k > 0
        PROVE  /\ run \in DOMAIN Runs(call.ino) /\ Runs(call.ino)[run].off <= t
               /\ t <= Runs(call.ino)[run].off + Runs(call.ino)[run].len
    <3>1. CASE m < W
      <4>1. t = Runs(call.ino)[cache.run].off + Runs(call.ino)[cache.run].len
        <5>1. t = NtfsRun.off + NtfsRun.len
          BY <1>5, <1>6, <2>3, <3>1 DEF InRun
        <5> QED BY <5>1 DEF NtfsRun
      <4>2. PICK q \in Nat : q = filepos + k /\ q < filemax
        BY <1>2, <1>5, <2>8, SMTT(40)
      <4>3. q < Len(Node(call.ino).blocks) * BlockBytes
        <5>1. Len(Node(call.ino).blocks) * BlockBytes \in Nat
          BY <1>5, BlockBytesAssumption, SMT
        <5> QED BY <1>2, <1>5, <4>2, <5>1
      <4>4. q \div BlockBytes = Runs(call.ino)[cache.run].off + Runs(call.ino)[cache.run].len
        BY <2>7, <4>1, <4>2
      <4>5. /\ cache.run + 1 \in DOMAIN Runs(call.ino)
            /\ Runs(call.ino)[cache.run + 1].off = q \div BlockBytes
            /\ Runs(call.ino)[cache.run + 1] \in [off : Nat, len : Nat \ {0}, addr : Nat]
        BY <1>5, <4>3, <4>4, RunAfter
      <4>6. run = cache.run + 1 /\ t = q \div BlockBytes
        BY <2>3, <2>7, <3>1, <4>2
      <4> QED BY <4>5, <4>6
    <3>2. CASE ~(m < W)
      <4>1. run = cache.run
        BY <2>3, <3>2
      <4>2. NtfsRun.off <= t /\ t <= NtfsRun.off + NtfsRun.len
        BY <1>5, <1>6, <2>3
      <4> QED BY <1>5, <4>1, <4>2 DEF NtfsRun
    <3> QED BY <3>1, <3>2
  <2> HIDE DEF buf
  <2> QED BY <1>1, <1>9, <2>1, <2>2, <2>4, <2>5, <2>6, <2>7, <2>8, NtfsStays
<1> QED BY <1>8, <1>9 DEF NtfsBlocks
\* A block of a run is the block of the file that is there.
LEMMA RunBlock ==
  ASSUME RunsTyped(volume), call.ino \in DOMAIN Nodes, cache.run \in DOMAIN Runs(call.ino),
         cache.target \in Nat, NtfsRun.off <= cache.target,
         cache.target < NtfsRun.off + NtfsRun.len,
         NtfsRun \in [off : Nat, len : Nat \ {0}, addr : Nat]
  PROVE  RunBytes(BlockBytes) =
           [i \in 1..BlockBytes |-> ByteOf(Node(call.ino), cache.target * BlockBytes + i - 1)]
<1>1. PICK j \in Nat : cache.target = NtfsRun.off + j /\ j \in 0 .. NtfsRun.len - 1
  <2>1. cache.target - NtfsRun.off \in Nat
    OBVIOUS
  <2> QED BY <2>1
<1>2. Node(call.ino).blocks[cache.target + 1] =
        IF NtfsRun.addr = Hole THEN Hole ELSE NtfsRun.addr + j
  <2>1. Node(call.ino).blocks[NtfsRun.off + j + 1] =
          IF NtfsRun.addr = Hole THEN Hole ELSE NtfsRun.addr + j
    BY <1>1 DEF RunsTyped, NtfsRun, Runs, Node, Nodes
  <2> QED BY <1>1, <2>1, SMTT(40)
<1>3. ASSUME NEW i \in 1..BlockBytes
      PROVE  /\ ByteOf(Node(call.ino), cache.target * BlockBytes + i - 1) =
                  IF NtfsRun.addr = Hole THEN Zero ELSE <<NtfsRun.addr + j, i - 1>>
             /\ (0 + i - 1) \div BlockBytes = 0 /\ (0 + i - 1) % BlockBytes = i - 1
  <2>1. PICK r \in 0 .. BlockBytes - 1, q \in Nat : r = i - 1 /\ q = cache.target
    BY BlockBytesAssumption
  <2>2. (q * BlockBytes + r) \div BlockBytes = q /\ (q * BlockBytes + r) % BlockBytes = r
    BY BlockBytesAssumption, DivOf
  <2>3. (0 * BlockBytes + r) \div BlockBytes = 0 /\ (0 * BlockBytes + r) % BlockBytes = r
    BY BlockBytesAssumption, DivOf
  <2>4. 0 * BlockBytes + r = r /\ 0 + i - 1 = r
    BY <2>1, BlockBytesAssumption
  <2>5. cache.target * BlockBytes + i - 1 = q * BlockBytes + r
    <3>1. q * BlockBytes \in Nat
      BY BlockBytesAssumption, SMT
    <3> QED BY <2>1, <3>1
  <2>6. NtfsRun.addr # Hole => NtfsRun.addr + j # Hole
    BY <1>1 DEF Hole
  <2>7. ByteOf(Node(call.ino), q * BlockBytes + r) =
          IF Node(call.ino).blocks[q + 1] = Hole THEN Zero
          ELSE <<Node(call.ino).blocks[q + 1], r>>
    BY <2>2 DEF ByteOf
  <2>8. Node(call.ino).blocks[q + 1] = IF NtfsRun.addr = Hole THEN Hole ELSE NtfsRun.addr + j
    BY <1>2, <2>1
  <2> QED BY <2>1, <2>3, <2>4, <2>5, <2>6, <2>7, <2>8
<1>4. CASE NtfsRun.addr = Hole
  BY <1>3, <1>4 DEF RunBytes, Zeroes
<1>5. CASE NtfsRun.addr # Hole
  <2>1. PICK b \in Nat : b = NtfsRun.addr + j /\ b = NtfsRun.addr + cache.target - NtfsRun.off
    BY <1>1
  <2>2. RunBytes(BlockBytes) = DiskBytes(b, 0, BlockBytes)
    BY <1>5, <2>1 DEF RunBytes
  <2>3. \A i \in 1..BlockBytes :
           /\ <<b + (0 + i - 1) \div BlockBytes, (0 + i - 1) % BlockBytes>> = <<b, i - 1>>
           /\ ByteOf(Node(call.ino), cache.target * BlockBytes + i - 1) = <<b, i - 1>>
    BY <1>3, <1>5, <2>1
  <2> QED BY <2>2, <2>3 DEF DiskBytes
<1> QED BY <1>4, <1>5

LEMMA NtfsPartKeeps ==
  ASSUME Inv, fsys_type = "ntfs", NtfsPart
  PROVE  NtfsGoesOn
<1> DEFINE offset == filepos % BlockBytes
           n      == Lesser(BlockBytes - offset, call.left)
           block  == RunBytes(BlockBytes)
           buf    == call.buf \o SubSeq(block, offset + 1, offset + n)
<1>1. call.op = "blocks" /\ call.left > 0 /\ InRun > 0
  BY DEF NtfsPart
<1>2. call.left \in Nat /\ filepos \in Nat /\ filemax \in Nat /\ Call /\ At
  BY DEF Inv, Call, CallTyped, At
<1>3. /\ NtfsRun \in [off : Nat, len : Nat \ {0}, addr : Nat] /\ cache.target \in Nat
      /\ cache.run \in DOMAIN Runs(call.ino) /\ cache.run \in Nat
      /\ NtfsRun.off <= cache.target /\ cache.target < NtfsRun.off + NtfsRun.len
      /\ cache.target = filepos \div BlockBytes
      /\ RunsTyped(volume) /\ call.ino \in DOMAIN Nodes
  <2>1. /\ NtfsRun \in [off : Nat, len : Nat \ {0}, addr : Nat] /\ cache.target \in Nat
        /\ cache.run \in DOMAIN Runs(call.ino) /\ cache.run \in Nat
        /\ NtfsRun.off <= cache.target
        /\ cache.target = filepos \div BlockBytes
        /\ RunsTyped(volume) /\ call.ino \in DOMAIN Nodes
    BY <1>1, NtfsPlace
  <2>2. cache.target < NtfsRun.off + NtfsRun.len
    BY <1>1, <2>1 DEF InRun
  <2> QED BY <2>1, <2>2
<1>4. PICK q \in Nat, r \in 0 .. BlockBytes - 1 :
         q = cache.target /\ r = offset /\ filepos = q * BlockBytes + r /\ q * BlockBytes \in Nat
  <2>1. filepos % BlockBytes \in 0 .. BlockBytes - 1 /\ filepos = (filepos \div BlockBytes) * BlockBytes + (filepos % BlockBytes)
    BY <1>2, DivMod, BlockBytesAssumption
  <2>2. cache.target * BlockBytes \in Nat
    BY <1>3, BlockBytesAssumption, SMT
  <2> QED BY <1>3, <2>1, <2>2
<1>5. PICK k \in Nat : k = n /\ k <= call.left /\ k <= BlockBytes - r /\ (k = call.left \/ k = BlockBytes - r)
  BY <1>2, <1>4, BlockBytesAssumption DEF Lesser
<1>6. CASE \E ok \in BOOLEAN : NtfsFails(ok) /\ UNCHANGED cache
  BY <1>1, <1>6, NtfsFailsKeeps
<1>7. CASE /\ call' = [call EXCEPT !.left = @ - n, !.buf = @ \o SubSeq(block, offset + 1, offset + n)]
           /\ filepos' = filepos + n
           /\ cache' = [cache EXCEPT !.sbuf = block, !.target = @ + 1,
                           !.save_pos = (cache.target - (cache.target % Spc)) * BlockBytes]
           /\ UNCHANGED <<fsys_type, volume, filemax>>
  <2>1. block \in Bytes /\ Len(block) = BlockBytes
    BY <1>3, RunBytesTyped, BlockBytesAssumption
  <2>2. buf \in Bytes /\ Len(buf) <= filepos + k
    <3>1. SubSeq(block, r + 1, r + k) \in Bytes /\ Len(SubSeq(block, r + 1, r + k)) = k
      <4> HIDE DEF block
      <4>1. r \in Nat /\ r + k <= BlockBytes
        BY <1>4, <1>5, BlockBytesAssumption
      <4> QED BY <2>1, <4>1, BytesPart
    <3>2. call.buf \in Bytes /\ Len(call.buf) \in Nat /\ Len(call.buf) <= filepos
      BY <1>1, NtfsHas
    <3>3. buf = call.buf \o SubSeq(block, r + 1, r + k)
      BY <1>4, <1>5
    <3> HIDE DEF buf, block
    <3>4. buf \in Bytes /\ Len(buf) = Len(call.buf) + k
      BY <3>1, <3>2, <3>3, BytesJoined
    <3> QED BY <1>2, <3>2, <3>4
  <2>3. k \in 0..call.left /\ filepos' = filepos + k
        /\ call' = [call EXCEPT !.op = "blocks", !.left = call.left - k, !.buf = buf]
    <3>1. k \in 0..call.left
      BY <1>2, <1>5
    <3>2. call' = [call EXCEPT !.left = call.left - k, !.buf = buf] /\ filepos' = filepos + k
      BY <1>5, <1>7
    <3> HIDE DEF buf, n
    <3>3. call' = [call EXCEPT !.op = "blocks", !.left = call.left - k, !.buf = buf]
      BY <1>1, <1>2, <3>2 DEF Call, CallTyped
    <3> QED BY <3>1, <3>2, <3>3
  <2>4. PICK save \in Nat, t \in Nat :
          /\ save = (cache.target - (cache.target % Spc)) * BlockBytes /\ t = cache.target + 1
          /\ (~volume.excused => save = q * BlockBytes)
    <3>1. Spc \in Nat \ {0} /\ (~volume.excused => Spc = 1)
      BY <1>1, <1>2, Running DEF NtfsTyped, Spc
    <3>2. PICK m \in Nat : m = cache.target - (cache.target % Spc) /\ (~volume.excused => m = q)
      <4>1. PICK d \in Nat, z \in Nat : d = cache.target \div Spc /\ z = cache.target % Spc
                /\ z <= q /\ (Spc = 1 => z = 0)
        <5>1. /\ q \div Spc \in Nat /\ q % Spc \in 0 .. Spc - 1
              /\ q = Spc * (q \div Spc) + (q % Spc)
          BY <3>1, DivMod
        <5>2. Spc * (q \div Spc) \in Nat
          BY <3>1, <5>1, SMT
        <5>3. (q % Spc) \in Nat /\ (q % Spc) <= q /\ (Spc = 1 => q % Spc = 0)
          BY <3>1, <5>1, <5>2
        <5> QED BY <1>4, <5>1, <5>3
      <4>2. q - z \in Nat
        BY <4>1
      <4> QED BY <1>4, <3>1, <4>1, <4>2
    <3>3. m * BlockBytes \in Nat
      BY BlockBytesAssumption, SMT
    <3> QED BY <1>3, <3>2, <3>3
  <2>5. cache' \in [save_pos : Nat \cup {NoPos}, sbuf : {cache'.sbuf}, run : Nat, target : Nat]
        /\ cache'.run = cache.run /\ cache'.target = t /\ cache'.sbuf = block /\ cache'.save_pos = save
    <3>1. cache' = [cache EXCEPT !.sbuf = block, !.target = t, !.save_pos = save]
      <4> HIDE DEF block
      <4> QED BY <1>7, <2>4
    <3> HIDE DEF block
    <3> QED BY <1>1, <3>1, NtfsHas
  <2>6. ~volume.excused => BufferTrue'
    <3>1. call'.ino = call.ino
      BY <1>2, <2>3 DEF Call, CallTyped
    <3>2. SUFFICES ASSUME ~volume.excused PROVE BufferTrue'
      OBVIOUS
    <3>3. cache'.sbuf = [i \in 1..BlockBytes |-> ByteOf(Node(call.ino), q * BlockBytes + i - 1)]
      <4>1. RunBytes(BlockBytes) =
              [i \in 1..BlockBytes |-> ByteOf(Node(call.ino), cache.target * BlockBytes + i - 1)]
        BY <1>3, RunBlock
      <4> QED BY <1>4, <2>5, <4>1
    <3>4. cache'.save_pos = q * BlockBytes
      BY <2>4, <2>5, <3>2
    <3>5. fsys_type' = "ntfs" /\ volume' = volume
      BY <1>7
    <3> HIDE DEF block, buf, n
    <3>6. ByteOf(Node(call.ino), 0)' = ByteOf(Node(call.ino), 0) /\ Node(call.ino)' = Node(call.ino)
      BY <3>1, <3>5 DEF Node, Nodes, ByteOf
    <3> QED BY <3>3, <3>4, <3>5, <3>6 DEF BufferTrue, ByteOf
  <2>7. ASSUME call.left - k > 0
        PROVE  /\ cache'.run \in DOMAIN Runs(call.ino) /\ Runs(call.ino)[cache'.run].off <= cache'.target
               /\ cache'.target <= Runs(call.ino)[cache'.run].off + Runs(call.ino)[cache'.run].len
               /\ cache'.target = (filepos + k) \div BlockBytes
    <3>1. k = BlockBytes - r
      BY <1>2, <1>5, <2>7
    <3>2. filepos + k = (q + 1) * BlockBytes + 0
      <4>1. (q + 1) * BlockBytes = q * BlockBytes + BlockBytes
        BY BlockBytesAssumption, SMT
      <4> QED BY <1>4, <3>1, <4>1, BlockBytesAssumption
    <3>3. ((q + 1) * BlockBytes + 0) \div BlockBytes = q + 1
      <4>1. q + 1 \in Nat /\ 0 \in 0 .. BlockBytes - 1
        BY BlockBytesAssumption
      <4> QED BY <4>1, DivOf, BlockBytesAssumption
    <3>4. t = (filepos + k) \div BlockBytes
      BY <1>4, <2>4, <3>2, <3>3
    <3>5. NtfsRun.off <= t /\ t <= NtfsRun.off + NtfsRun.len
      BY <1>3, <2>4
    <3> QED BY <1>3, <2>5, <3>4, <3>5 DEF NtfsRun
  <2>8. cache'.sbuf \in Bytes /\ (cache'.save_pos # NoPos => Len(cache'.sbuf) = BlockBytes)
    BY <2>1, <2>5
  <2> HIDE DEF buf, block, n, offset
  <2>9. UNCHANGED <<fsys_type, volume, filemax>>
    BY <1>7
  <2> QED BY <1>1, <2>2, <2>3, <2>5, <2>6, <2>7, <2>8, <2>9, NtfsStays
<1> QED BY <1>6, <1>7 DEF NtfsPart

LEMMA NtfsDoneKeeps ==
  ASSUME Inv, fsys_type = "ntfs", NtfsDone
  PROVE  NtfsGoesOn
<1>1. Call /\ At /\ call.op \in {"reading", "blocks"} /\ ShortRead(call.buf) /\ UNCHANGED cache
  BY DEF Inv, NtfsDone
<1>2. /\ Call' /\ At' /\ UNCHANGED <<volume, fsys_type, filemax>>
      /\ call'.op = "read" /\ call'.ino = call.ino
  BY <1>1, ShortReadKeeps
<1> QED BY <1>1, <1>2, SameBuffer DEF FileOpen

LEMMA NtfsKeeps ==
  ASSUME Inv, fsys_type = "ntfs", NtfsTurn
  PROVE  NtfsGoesOn
<1>1. CASE SearchEnds
  BY <1>1, SearchEndsKeeps DEF Inv, NtfsInv, FileOpen, NtfsGoesOn
<1> QED BY <1>1, NtfsComponentKeeps, NtfsSearchKeeps, NtfsBeginKeeps, NextRunKeeps, NtfsBlocksKeeps,
           NtfsPartKeeps, NtfsDoneKeeps DEF NtfsTurn
---------------------------------------------------------------------------
(* pxe. *)

PxeGoesOn == Call' /\ At' /\ PxeInv' /\ fsys_type' = fsys_type

\* While a file is read.
LEMMA PxeHas ==
  ASSUME Inv, fsys_type = "pxe", call.op \in {"reading", "pxe", "packets"}
  PROVE  /\ Call /\ At /\ call.ino \in DOMAIN Nodes
         /\ Blk \in Nat \ {0} /\ Blk <= PxeBufLen /\ PxeBufLen \in Nat
         /\ filepos \in Nat /\ filemax \in Nat /\ call.left \in Nat /\ filepos + call.left <= filemax
         /\ PxeForm
         /\ cache.read_ofs \in Nat /\ cache.read_ofs <= PxeBufLen
         /\ cache.server \in Nat /\ cache.cur_ofs \in Nat /\ cache.nb \in Nat /\ cache.len \in Nat
         /\ cache.saved_pos \in Nat /\ cache.skip \in BOOLEAN
         /\ cache.read_ofs <= cache.server /\ cache.server <= filemax
         /\ \A i \in 0..cache.read_ofs - 1 :
              cache.data[i] = ByteOf(Node(call.ino), cache.server - cache.read_ofs + i)
<1>1. Call /\ At /\ call.ino \in DOMAIN Nodes /\ PxeInv /\ PxeOpen
  BY DEF Inv, Call, AtNode, PxeOpen, FileOpen
<1>2. Blk \in Nat \ {0} /\ Blk <= PxeBufLen /\ PxeBufLen \in Nat
  BY <1>1, Running, PxeAssumption DEF PxeTyped, Blk
<1>3. filepos \in Nat /\ filemax \in Nat /\ call.left \in Nat /\ filepos + call.left <= filemax
  BY <1>1 DEF At, Call, CallTyped
<1>4. PxeForm
  BY <1>1 DEF PxeInv
<1> QED BY <1>1, <1>2, <1>3, <1>4 DEF PxeInv, BufStart, PxeForm

\* A call of pxe_read_len begins or goes on: what it has to keep.
LEMMA PxeStays ==
  ASSUME Inv, fsys_type = "pxe", call.op \in {"reading", "pxe", "packets"},
         NEW op \in {"pxe", "packets"}, NEW buf, call' = [call EXCEPT !.op = op, !.buf = buf], Same,
         PxeForm',
         cache'.read_ofs <= cache'.server, cache'.server <= filemax,
         \A i \in 0..cache'.read_ofs - 1 :
           cache'.data[i] = ByteOf(Node(call.ino), cache'.server - cache'.read_ofs + i),
         IF cache'.skip THEN buf = <<>> ELSE buf \in PxeBytes,
         op = "pxe" =>
           /\ cache'.cur_ofs <= cache'.read_ofs
           /\ IF cache'.skip THEN There' + cache'.len = filepos
              ELSE There' = filepos + Len(buf) /\ There' + cache'.len = filepos + call.left,
         op = "packets" =>
           /\ cache'.cur_ofs < Blk
           /\ cache'.nb > 0 => cache'.read_ofs + Blk <= PxeBufLen
           /\ IF cache'.skip THEN Coming' = filepos
              ELSE cache'.server = filepos + Len(buf) /\ Coming' = filepos + call.left
  PROVE  PxeGoesOn
<1>1. Call /\ At /\ call.op # "idle"
  BY DEF Inv
<1>2. CallTyped' /\ call'.op = op /\ call'.left = call.left /\ call'.buf = buf
      /\ call'.ino = call.ino /\ call'.name = call.name /\ call'.updir = call.updir
  BY <1>1 DEF Call, CallTyped
<1>3. Call'
  BY <1>1, <1>2, CallStays DEF Call, AtNode, OpsOf, Same
<1>4. At'
  BY <1>1, <1>2 DEF At, Looking, Same
<1>5. Node(call.ino)' = Node(call.ino) /\ filemax' = filemax /\ filepos' = filepos
      /\ Blk' = Blk /\ fsys_type' = fsys_type
  BY <1>2 DEF Node, Nodes, Same, Blk
<1>6. PxeBytes' = PxeBytes
  <2>1. \A p : ByteOf(Node(call.ino), p)' = ByteOf(Node(call.ino), p)
    BY <1>5 DEF ByteOf
  <2>2. {ByteOf(Node(call.ino), p) : p \in 0 .. filemax - 1}' =
          {ByteOf(Node(call.ino), p) : p \in 0 .. filemax - 1}
    BY <1>5, <2>1
  <2> QED BY <2>2 DEF PxeBytes
<1>7. \A i \in 0..cache'.read_ofs - 1 :
        cache'.data[i] = ByteOf(Node(call.ino), BufStart + i)'
  BY <1>5 DEF ByteOf, BufStart
<1>8. ~FileOpen'
  BY <1>2 DEF FileOpen
<1> QED BY <1>2, <1>3, <1>4, <1>5, <1>6, <1>7, <1>8 DEF PxeGoesOn, PxeInv

LEMMA PxeErrorKeeps ==
  ASSUME Inv, fsys_type = "pxe", call.op \in {"reading", "pxe", "packets"}, NEW after,
         PxeError(after), PxeForm'
  PROVE  PxeGoesOn
<1>1. Call /\ At /\ call.op # "idle"
  BY PxeHas
<1>2. CallTyped' /\ call'.op = "failed" /\ call'.left = 0
      /\ call'.ino = call.ino /\ call'.name = call.name /\ call'.updir = call.updir
  BY <1>1 DEF PxeError, Returned, Call, CallTyped
<1>3. Call'
  BY <1>1, <1>2, CallStays, Always DEF Call, AtNode, PxeError, Same
<1>4. At'
  BY <1>1, <1>2 DEF At, Looking, PxeError, Same, Call, CallTyped
<1> QED BY <1>1, <1>2, <1>3, <1>4 DEF PxeGoesOn, PxeInv, PxeOpen, FileOpen, PxeError, Same

\* The buffer of a file that was opened again, and of one that is read up to a place.
LEMMA ReopenedHas ==
  ASSUME PxeForm, NEW len \in Nat
  PROVE  /\ Reopened \in [opened : BOOLEAN, saved_pos : Nat, cur_ofs : Nat, read_ofs : 0..PxeBufLen,
                          data : {cache.data}, server : Nat, skip : BOOLEAN, len : Nat, nb : Nat]
         /\ Reopened.saved_pos = 0 /\ Reopened.cur_ofs = 0 /\ Reopened.read_ofs = 0
         /\ Reopened.server = 0 /\ Reopened.data = cache.data
         /\ LET c == Aimed(Reopened, len)
            IN  /\ c \in [opened : BOOLEAN, saved_pos : Nat, cur_ofs : Nat, read_ofs : 0..PxeBufLen,
                          data : {cache.data}, server : Nat, skip : BOOLEAN, len : Nat, nb : Nat]
                /\ c.cur_ofs = 0 /\ c.read_ofs = 0 /\ c.server = 0 /\ c.data = cache.data
                /\ c.skip = TRUE /\ c.len = len
<1>1. 0 \in 0..PxeBufLen
  BY PxeAssumption
<1>2. Reopened \in [opened : BOOLEAN, saved_pos : Nat, cur_ofs : Nat, read_ofs : 0..PxeBufLen,
                    data : {cache.data}, server : Nat, skip : BOOLEAN, len : Nat, nb : Nat]
  BY <1>1 DEF PxeForm, Reopened
<1>3. /\ Reopened.saved_pos = 0 /\ Reopened.cur_ofs = 0 /\ Reopened.read_ofs = 0
      /\ Reopened.server = 0 /\ Reopened.data = cache.data
  BY DEF PxeForm, Reopened
<1>4. LET c == Aimed(Reopened, len)
      IN  /\ c \in [opened : BOOLEAN, saved_pos : Nat, cur_ofs : Nat, read_ofs : 0..PxeBufLen,
                    data : {cache.data}, server : Nat, skip : BOOLEAN, len : Nat, nb : Nat]
          /\ c.cur_ofs = 0 /\ c.read_ofs = 0 /\ c.server = 0 /\ c.data = cache.data
          /\ c.skip = TRUE /\ c.len = len
  BY <1>2, <1>3 DEF Aimed
<1> QED BY <1>2, <1>3, <1>4

LEMMA PxeDirKeeps ==
  ASSUME Inv, fsys_type = "pxe", PxeDir
  PROVE  PxeGoesOn
<1>1. /\ Call /\ At /\ call.op = "inode" /\ call.left = 0 /\ PxeInv /\ call.name \in Paths
      /\ FindsFiles(volume)
  BY Running DEF Inv, At, Looking, PxeDir, Call, AtNode
<1>2. CASE (\E ok \in BOOLEAN : DirFails("not found", ok)) /\ cache' = [cache EXCEPT !.opened = FALSE]
  <2>1. PxeForm'
    BY <1>1, <1>2 DEF PxeInv, PxeForm
  <2>2. Call' /\ At' /\ fsys_type' = fsys_type /\ call'.op = "failed"
    BY <1>1, <1>2, DirFailsKeeps
  <2> QED BY <1>1, <2>1, <2>2 DEF PxeGoesOn, PxeInv, PxeOpen, FileOpen
<1>3. CASE volume.find[call.name] # 0 /\ DirFinds(volume.find[call.name]) /\ cache' = Reopened
  <2>1. PICK ino \in DOMAIN Nodes : DirFinds(ino)
    BY <1>1, <1>3 DEF FindsFiles, Nodes
  <2>2. Call' /\ At' /\ fsys_type' = fsys_type /\ call'.op = "opened"
    BY <1>1, <2>1, DirFindsKeeps
  <2>3. /\ PxeForm' /\ cache'.data = cache.data /\ cache'.saved_pos = 0 /\ cache'.cur_ofs = 0
        /\ cache'.read_ofs = 0 /\ cache'.server = 0
    <3>1. PxeForm
      BY <1>1 DEF PxeInv
    <3>2. 0 \in Nat
      OBVIOUS
    <3> QED BY <1>3, <3>1, <3>2, ReopenedHas DEF PxeForm
  <2>4. BufStart' = 0 /\ There' = 0 /\ filemax' \in Nat
    BY <2>2, <2>3 DEF BufStart, There, At
  <2> QED BY <1>1, <2>2, <2>3, <2>4 DEF PxeGoesOn, PxeInv, PxeOpen, FileOpen
<1> QED BY <1>2, <1>3 DEF PxeDir

LEMMA PxeBeginKeeps ==
  ASSUME Inv, fsys_type = "pxe", PxeBegin
  PROVE  PxeGoesOn
<1> DEFINE back == cache.saved_pos - filepos
<1>1. /\ call.op = "reading" /\ call.buf = <<>> /\ Call
      /\ cache.saved_pos = cache.server - cache.read_ofs + cache.cur_ofs
      /\ cache.cur_ofs <= cache.read_ofs
  BY DEF PxeBegin, Inv, PxeInv, There, BufStart, FileOpen
<1>2. /\ filepos \in Nat /\ filemax \in Nat /\ call.left \in Nat /\ filepos + call.left <= filemax
      /\ PxeForm
      /\ cache.read_ofs \in Nat /\ cache.server \in Nat /\ cache.cur_ofs \in Nat /\ PxeBufLen \in Nat
      /\ cache.saved_pos \in Nat /\ cache.read_ofs <= cache.server /\ cache.server <= filemax
      /\ \A i \in 0..cache.read_ofs - 1 :
           cache.data[i] = ByteOf(Node(call.ino), cache.server - cache.read_ofs + i)
  BY <1>1, PxeHas
<1>3. CASE PxeError([cache EXCEPT !.opened = FALSE])
  <2>1. PxeForm'
    BY <1>2, <1>3 DEF PxeForm, PxeError
  <2> QED BY <1>1, <1>3, <2>1, PxeErrorKeeps
<1>4. CASE call' = [call EXCEPT !.op = "pxe"] /\ Same
  <2>1. call' = [call EXCEPT !.op = "pxe", !.buf = <<>>]
    BY <1>1, <1>4 DEF Call, CallTyped
  <2>2. <<>> \in PxeBytes /\ Len(<<>>) = 0
    BY DEF PxeBytes
  <2>3. CASE cache' = Wanted(cache) /\ back = 0
    <3>1. /\ PxeForm' /\ cache'.data = cache.data /\ cache'.skip = FALSE /\ cache'.len = call.left
          /\ cache'.server = cache.server /\ cache'.read_ofs = cache.read_ofs /\ cache'.cur_ofs = cache.cur_ofs
      BY <1>2, <2>3 DEF PxeForm, Wanted
    <3>2. There' = filepos + Len(<<>>) /\ There' + cache'.len = filepos + call.left
      <4>1. There' = cache.server - cache.read_ofs + cache.cur_ofs
        BY <3>1 DEF There, BufStart
      <4>2. cache.server - cache.read_ofs + cache.cur_ofs = filepos
        <5>1. cache.saved_pos - filepos = 0
          BY <2>3
        <5> HIDE DEF back
        <5> QED BY <1>1, <1>2, <5>1
      <4> QED BY <1>2, <2>2, <3>1, <4>1, <4>2
    <3> QED BY <1>1, <1>2, <1>4, <2>1, <2>2, <3>1, <3>2, PxeStays
  <2>4. CASE cache' = [Wanted(cache) EXCEPT !.cur_ofs = @ - back] /\ back > 0 /\ filepos + cache.cur_ofs >= cache.saved_pos
    <3>1. PICK co \in Nat : co = cache.cur_ofs - back /\ co <= cache.cur_ofs
      <4>1. cache.cur_ofs - back \in Nat
        BY <1>2, <2>4
      <4> QED BY <1>2, <2>4, <4>1
    <3>2. cache' = [Wanted(cache) EXCEPT !.cur_ofs = co]
      BY <1>2, <2>4, <3>1 DEF Wanted, PxeForm
    <3>3. /\ PxeForm' /\ cache'.data = cache.data /\ cache'.skip = FALSE /\ cache'.len = call.left
          /\ cache'.server = cache.server /\ cache'.read_ofs = cache.read_ofs /\ cache'.cur_ofs = co
      BY <1>2, <3>2 DEF PxeForm, Wanted
    <3>4. There' = filepos + Len(<<>>) /\ There' + cache'.len = filepos + call.left
      <4>1. There' = cache.server - cache.read_ofs + (cache.cur_ofs - back)
        BY <3>1, <3>3 DEF There, BufStart
      <4>2. cache.server - cache.read_ofs + (cache.cur_ofs - back) = filepos
        BY <1>1, <1>2
      <4> QED BY <1>2, <2>2, <3>3, <4>1, <4>2
    <3>5. co <= cache.read_ofs
      BY <1>1, <1>2, <3>1
    <3> QED BY <1>1, <1>2, <1>4, <2>1, <2>2, <3>3, <3>4, <3>5, PxeStays
  <2>5. CASE cache' = Aimed(cache, 0 - back) /\ back < 0
    <3>1. PICK len \in Nat : len = 0 - back
      <4>1. 0 - back \in Nat
        BY <1>2, <2>5
      <4> QED BY <4>1
    <3>2. /\ PxeForm' /\ cache'.data = cache.data /\ cache'.skip = TRUE /\ cache'.len = len
          /\ cache'.server = cache.server /\ cache'.read_ofs = cache.read_ofs /\ cache'.cur_ofs = cache.cur_ofs
      BY <1>2, <2>5, <3>1 DEF PxeForm, Aimed
    <3>3. There' + cache'.len = filepos
      BY <1>1, <1>2, <3>1, <3>2 DEF There, BufStart
    <3> QED BY <1>1, <1>2, <1>4, <2>1, <3>2, <3>3, PxeStays, ZenonT(40)
  <2>6. CASE cache' = Aimed(Reopened, filepos)
    <3>1. /\ PxeForm' /\ cache'.data = cache.data /\ cache'.skip = TRUE /\ cache'.len = filepos
          /\ cache'.server = 0 /\ cache'.read_ofs = 0 /\ cache'.cur_ofs = 0
      BY <1>2, <2>6, ReopenedHas DEF PxeForm
    <3>2. There' + cache'.len = filepos
      BY <1>2, <3>1 DEF There, BufStart
    <3>3. \A i \in 0..cache'.read_ofs - 1 :
            cache'.data[i] = ByteOf(Node(call.ino), cache'.server - cache'.read_ofs + i)
      BY <3>1
    <3>4. /\ cache'.read_ofs <= cache'.server /\ cache'.server <= filemax
          /\ cache'.cur_ofs <= cache'.read_ofs
      BY <1>2, <3>1
    <3>5. PxeForm' /\ cache'.skip = TRUE
      BY <3>1
    <3> QED BY <1>1, <1>4, <2>1, <3>2, <3>3, <3>4, <3>5, PxeStays
  <2> QED BY <1>2, <1>4, <2>3, <2>4, <2>5, <2>6, <1>3 DEF PxeBegin
<1> QED BY <1>3, <1>4 DEF PxeBegin
\* The bytes that a call of pxe_read_len has, and those that it adds.
LEMMA PxeAdded ==
  ASSUME NEW buf \in PxeBytes, NEW bytes \in PxeBytes
  PROVE  buf \o bytes \in PxeBytes /\ Len(buf \o bytes) = Len(buf) + Len(bytes)
         /\ Len(buf) \in Nat /\ Len(bytes) \in Nat
<1>1. PICK S : S = {ByteOf(Node(call.ino), p) : p \in 0 .. filemax - 1}
  OBVIOUS
<1>2. PxeBytes = Seq(S)
  BY <1>1 DEF PxeBytes
<1>3. buf \in Seq(S) /\ bytes \in Seq(S)
  BY <1>2
<1>4. buf \o bytes \in Seq(S) /\ Len(buf \o bytes) = Len(buf) + Len(bytes)
      /\ Len(buf) \in Nat /\ Len(bytes) \in Nat
  BY <1>3
<1> QED BY <1>2, <1>4

\* Bytes of the file from a place on.
LEMMA PxePiece ==
  ASSUME NEW at \in Nat, NEW n \in Nat, filemax \in Nat, at + n <= filemax
  PROVE  /\ [i \in 1..n |-> ByteOf(Node(call.ino), at + i - 1)] \in PxeBytes
         /\ Len([i \in 1..n |-> ByteOf(Node(call.ino), at + i - 1)]) = n
<1>1. PICK S : S = {ByteOf(Node(call.ino), p) : p \in 0 .. filemax - 1}
  OBVIOUS
<1>2. \A i \in 1..n : ByteOf(Node(call.ino), at + i - 1) \in S
  <2> SUFFICES ASSUME NEW i \in 1..n PROVE ByteOf(Node(call.ino), at + i - 1) \in S
    OBVIOUS
  <2>1. PICK p \in 0 .. filemax - 1 : p = at + i - 1
    <3>1. at + i - 1 \in 0 .. filemax - 1
      OBVIOUS
    <3> QED BY <3>1
  <2> QED BY <1>1, <2>1
<1>3. [i \in 1..n |-> ByteOf(Node(call.ino), at + i - 1)] \in Seq(S)
  BY <1>2
<1>4. Len([i \in 1..n |-> ByteOf(Node(call.ino), at + i - 1)]) = n
  OBVIOUS
<1> QED BY <1>1, <1>3, <1>4 DEF PxeBytes

LEMMA PxeBufferedKeeps ==
  ASSUME Inv, fsys_type = "pxe", PxeBuffered
  PROVE  PxeGoesOn
<1> DEFINE have == cache.read_ofs - cache.cur_ofs
           more == cache.len - have
           bytes(n) == [i \in 1..n |-> cache.data[cache.cur_ofs + i - 1]]
<1>1. /\ call.op = "pxe" /\ Call /\ cache.len > 0 /\ cache.cur_ofs <= cache.read_ofs
      /\ IF cache.skip THEN call.buf = <<>> ELSE call.buf \in PxeBytes
      /\ IF cache.skip THEN There + cache.len = filepos
         ELSE There = filepos + Len(call.buf) /\ There + cache.len = filepos + call.left
  BY DEF PxeBuffered, Inv, PxeInv
<1>2. /\ filepos \in Nat /\ filemax \in Nat /\ call.left \in Nat /\ filepos + call.left <= filemax
      /\ Blk \in Nat \ {0} /\ Blk <= PxeBufLen
      /\ PxeForm /\ PxeBufLen \in Nat /\ cache.read_ofs <= PxeBufLen
      /\ cache.read_ofs \in Nat /\ cache.server \in Nat /\ cache.cur_ofs \in Nat /\ cache.len \in Nat
      /\ cache.skip \in BOOLEAN /\ cache.read_ofs <= cache.server /\ cache.server <= filemax
      /\ \A i \in 0..cache.read_ofs - 1 :
           cache.data[i] = ByteOf(Node(call.ino), cache.server - cache.read_ofs + i)
  BY <1>1, PxeHas
<1>3. There = cache.server - cache.read_ofs + cache.cur_ofs
  BY DEF There, BufStart
<1>4. ASSUME NEW n \in Nat, cache.cur_ofs + n <= cache.read_ofs
      PROVE  bytes(n) \in PxeBytes /\ Len(bytes(n)) = n
  <2>1. PICK at \in Nat : at = cache.server - cache.read_ofs + cache.cur_ofs
    <3>1. cache.server - cache.read_ofs + cache.cur_ofs \in Nat
      BY <1>2
    <3> QED BY <3>1
  <2>2. bytes(n) = [i \in 1..n |-> ByteOf(Node(call.ino), at + i - 1)]
    <3>1. ASSUME NEW i \in 1..n
          PROVE  cache.data[cache.cur_ofs + i - 1] = ByteOf(Node(call.ino), at + i - 1)
      <4>1. PICK k \in 0..cache.read_ofs - 1 : k = cache.cur_ofs + i - 1
        <5>1. cache.cur_ofs + i - 1 \in 0..cache.read_ofs - 1
          BY <1>2, <1>4
        <5> QED BY <5>1
      <4>2. cache.server - cache.read_ofs + k = at + i - 1
        BY <1>2, <2>1, <4>1
      <4>3. cache.data[k] = ByteOf(Node(call.ino), cache.server - cache.read_ofs + k)
        BY <1>2
      <4> QED BY <4>1, <4>2, <4>3
    <3> QED BY <3>1
  <2>3. at + n <= filemax
    BY <1>2, <1>4, <2>1
  <2> QED BY <1>2, <2>1, <2>2, <2>3, PxePiece
<1>5. CASE more <= 0 /\ Brought(bytes(cache.len), [cache EXCEPT !.cur_ofs = @ + cache.len, !.len = 0])
  <2> DEFINE buf == IF cache.skip THEN <<>> ELSE call.buf \o bytes(cache.len)
  <2>1. PICK co \in Nat : co = cache.cur_ofs + cache.len /\ co <= cache.read_ofs
    <3>1. cache.cur_ofs + cache.len \in Nat /\ cache.cur_ofs + cache.len <= cache.read_ofs
      BY <1>2, <1>5
    <3> QED BY <3>1
  <2>2. cache' = [cache EXCEPT !.cur_ofs = co, !.len = 0]
    BY <1>5, <2>1 DEF Brought
  <2>3. /\ PxeForm' /\ cache'.data = cache.data /\ cache'.skip = cache.skip /\ cache'.len = 0
        /\ cache'.server = cache.server /\ cache'.read_ofs = cache.read_ofs /\ cache'.cur_ofs = co
    BY <1>2, <2>2 DEF PxeForm
  <2>4. Same /\ call' = [call EXCEPT !.op = "pxe", !.buf = buf]
    <3>1. CASE cache.skip
      <4>1. call' = call /\ call.buf = <<>> /\ Same
        BY <1>1, <1>2, <1>5, <3>1 DEF Brought, PxeForm
      <4>2. call = [call EXCEPT !.op = "pxe", !.buf = <<>>]
        BY <1>1, <4>1 DEF Call, CallTyped
      <4> QED BY <3>1, <4>1, <4>2
    <3>2. CASE ~cache.skip
      <4>1. call' = [call EXCEPT !.buf = call.buf \o bytes(cache.len)] /\ Same
        BY <1>2, <1>5, <3>2 DEF Brought, PxeForm
      <4> HIDE DEF bytes
      <4>2. call' = [call EXCEPT !.op = "pxe", !.buf = call.buf \o bytes(cache.len)]
        BY <1>1, <4>1 DEF Call, CallTyped
      <4> QED BY <3>2, <4>1, <4>2
    <3> QED BY <3>1, <3>2
  <2>5. bytes(cache.len) \in PxeBytes /\ Len(bytes(cache.len)) = cache.len
    BY <1>2, <1>4, <2>1
  <2>6. IF cache.skip THEN buf = <<>> ELSE buf \in PxeBytes /\ Len(buf) = Len(call.buf) + cache.len
                                           /\ Len(call.buf) \in Nat
    <3> HIDE DEF bytes
    <3> QED BY <1>1, <2>5, PxeAdded
  <2>7. There' = There + cache.len /\ There \in Int
    BY <1>2, <1>3, <2>1, <2>3 DEF There, BufStart
  <2> HIDE DEF buf, bytes
  <2>8. /\ cache'.cur_ofs <= cache'.read_ofs
        /\ IF cache'.skip THEN There' + cache'.len = filepos
           ELSE There' = filepos + Len(buf) /\ There' + cache'.len = filepos + call.left
    <3>1. CASE cache.skip
      BY <1>1, <2>1, <2>3, <2>7, <3>1
    <3>2. CASE ~cache.skip
      <4>1. PICK k \in Nat, l \in Nat, t \in Int : k = Len(call.buf) /\ l = cache.len /\ t = There
        BY <1>2, <2>6, <2>7, <3>2
      <4>2. t = filepos + k /\ t + l = filepos + call.left
        BY <1>1, <3>2, <4>1
      <4>3. There' = t + l /\ Len(buf) = k + l
        BY <2>6, <2>7, <3>2, <4>1
      <4>4. There' = filepos + Len(buf) /\ There' + 0 = filepos + call.left
        BY <1>2, <4>2, <4>3
      <4> QED BY <1>2, <2>1, <2>3, <3>2, <4>4
    <3> QED BY <3>1, <3>2
  <2>9. IF cache'.skip THEN buf = <<>> ELSE buf \in PxeBytes
    BY <2>3, <2>6
  <2>10. /\ cache'.read_ofs <= cache'.server /\ cache'.server <= filemax
         /\ \A i \in 0..cache'.read_ofs - 1 :
              cache'.data[i] = ByteOf(Node(call.ino), cache'.server - cache'.read_ofs + i)
    BY <1>2, <2>3
  <2> QED BY <1>1, <2>3, <2>4, <2>8, <2>9, <2>10, PxeStays
<1>6. CASE /\ more > 0 /\ Same
           /\ cache' = [cache EXCEPT !.cur_ofs = more % Blk, !.nb = more \div Blk,
                                     !.read_ofs = IF @ + Blk > PxeBufLen THEN 0 ELSE @]
           /\ call' = [call EXCEPT !.op = "packets", !.buf = IF cache.skip THEN @ ELSE @ \o bytes(have)]
  <2> DEFINE buf == IF cache.skip THEN call.buf ELSE call.buf \o bytes(have)
  <2>1. PICK m \in Nat, h \in Nat : m = more /\ h = have
    <3>1. more \in Nat /\ have \in Nat
      BY <1>1, <1>2, <1>6, SMTT(40)
    <3> QED BY <3>1
  <2>2. PICK q \in Nat, r \in 0 .. Blk - 1 : q = m \div Blk /\ r = m % Blk /\ m = q * Blk + r
                                             /\ q * Blk \in Nat
    <3>1. m \div Blk \in Nat /\ m % Blk \in 0 .. Blk - 1 /\ m = (m \div Blk) * Blk + (m % Blk)
      BY <1>2, DivMod
    <3>2. PICK b \in Nat, k \in Nat : b = Blk /\ k = m \div Blk
      BY <1>2, <3>1
    <3>3. k * b \in Nat
      BY SMT
    <3> QED BY <3>1, <3>2, <3>3
  <2>3. PICK ro \in 0..PxeBufLen : ro = (IF cache.read_ofs + Blk > PxeBufLen THEN 0 ELSE cache.read_ofs)
    <3>1. (IF cache.read_ofs + Blk > PxeBufLen THEN 0 ELSE cache.read_ofs) \in 0..PxeBufLen
      BY <1>2
    <3> QED BY <3>1
  <2>4. cache' = [cache EXCEPT !.cur_ofs = r, !.nb = q, !.read_ofs = ro]
    BY <1>6, <2>1, <2>2, <2>3
  <2>5. /\ PxeForm' /\ cache'.data = cache.data /\ cache'.skip = cache.skip /\ cache'.nb = q
        /\ cache'.server = cache.server /\ cache'.read_ofs = ro /\ cache'.cur_ofs = r
    <3>1. r \in Nat
      BY <1>2
    <3> QED BY <1>2, <2>4, <3>1 DEF PxeForm
  <2>6. call' = [call EXCEPT !.op = "packets", !.buf = buf]
    BY <1>6
  <2>7. bytes(have) \in PxeBytes /\ Len(bytes(have)) = h
    <3>1. cache.cur_ofs + h <= cache.read_ofs
      BY <1>2, <2>1
    <3>2. bytes(h) \in PxeBytes /\ Len(bytes(h)) = h
      BY <1>4, <3>1
    <3> QED BY <2>1, <3>2
  <2>8. IF cache.skip THEN buf = <<>> ELSE buf \in PxeBytes /\ Len(buf) = Len(call.buf) + h
                                           /\ Len(call.buf) \in Nat
    <3> HIDE DEF bytes, have
    <3> QED BY <1>1, <2>7, PxeAdded
  <2> HIDE DEF buf, bytes
  <2>9. Coming' = There + cache.len /\ There \in Int
    <3>1. Blk' = Blk
      BY <1>6 DEF Blk, Same
    <3>2. Coming' = cache.server + q * Blk + r
      BY <2>5, <3>1 DEF Coming
    <3>3. PICK x \in Nat : x = q * Blk /\ m = x + r
      BY <2>2
    <3>4. m = cache.len - (cache.read_ofs - cache.cur_ofs) /\ r \in Nat
      BY <1>2, <2>1
    <3>5. Coming' = cache.server + x + r
      BY <3>2, <3>3
    <3> QED BY <1>2, <1>3, <3>3, <3>4, <3>5
  <2>10. /\ cache'.cur_ofs < Blk
         /\ cache'.nb > 0 => cache'.read_ofs + Blk <= PxeBufLen
         /\ IF cache'.skip THEN Coming' = filepos
            ELSE cache'.server = filepos + Len(buf) /\ Coming' = filepos + call.left
    <3>1. r < Blk /\ ro + Blk <= PxeBufLen
      BY <1>2, <2>3
    <3>2. ~cache.skip => cache.server = filepos + Len(buf)
      <4> SUFFICES ASSUME ~cache.skip PROVE cache.server = filepos + Len(buf)
        OBVIOUS
      <4>1. PICK k \in Nat : k = Len(call.buf) /\ Len(buf) = k + h
        BY <2>8
      <4>2. There = filepos + k
        BY <1>1, <4>1
      <4>3. h = cache.read_ofs - cache.cur_ofs
        BY <2>1
      <4>4. cache.server = filepos + (k + h)
        BY <1>2, <1>3, <4>2, <4>3
      <4> QED BY <4>1, <4>4, Zenon
    <3> QED BY <1>1, <2>5, <2>9, <3>1, <3>2
  <2>11. IF cache'.skip THEN buf = <<>> ELSE buf \in PxeBytes
    BY <2>5, <2>8
  <2>12. /\ cache'.read_ofs <= cache'.server /\ cache'.server <= filemax
         /\ \A i \in 0..cache'.read_ofs - 1 :
              cache'.data[i] = ByteOf(Node(call.ino), cache'.server - cache'.read_ofs + i)
    BY <1>2, <2>3, <2>5
  <2>13. PxeForm' /\ Same
    BY <1>6, <2>5
  <2> QED BY <1>1, <2>6, <2>10, <2>11, <2>12, <2>13, PxeStays
<1>7. more \in Int
  BY <1>2
<1> QED BY <1>5, <1>6, <1>7 DEF PxeBuffered
\* What pxe_read_blk puts behind what the buffer has.
LEMMA PxeFilled ==
  ASSUME NEW c, NEW n \in Nat, c.read_ofs \in Nat, c.server \in Nat, c.read_ofs <= c.server,
         c.read_ofs + n <= PxeBufLen, PxeBufLen \in Nat,
         c \in [opened : BOOLEAN, saved_pos : Nat, cur_ofs : Nat, read_ofs : 0..PxeBufLen,
                data : {c.data}, server : Nat, skip : BOOLEAN, len : Nat, nb : Nat],
         DOMAIN c.data = 0..PxeBufLen - 1,
         \A i \in 0..c.read_ofs - 1 :
           c.data[i] = ByteOf(Node(call.ino), c.server - c.read_ofs + i)
  PROVE  LET f == Filled(c, n)
         IN  /\ f \in [opened : BOOLEAN, saved_pos : Nat, cur_ofs : Nat, read_ofs : 0..PxeBufLen,
                       data : {f.data}, server : Nat, skip : BOOLEAN, len : Nat, nb : Nat]
             /\ DOMAIN f.data = 0..PxeBufLen - 1
             /\ f.server = c.server + n /\ f.read_ofs = c.read_ofs /\ f.cur_ofs = c.cur_ofs
             /\ f.skip = c.skip /\ f.len = c.len /\ f.nb = c.nb
             /\ \A i \in 0..c.read_ofs + n - 1 :
                  f.data[i] = ByteOf(Node(call.ino), c.server - c.read_ofs + i)
<1> DEFINE d == [i \in DOMAIN c.data |->
                        IF i >= c.read_ofs /\ i < c.read_ofs + n
                        THEN ByteOf(Node(call.ino), c.server + i - c.read_ofs)
                        ELSE c.data[i]]
<1>1. PICK v \in Nat : v = c.server + n
  OBVIOUS
<1>2. Filled(c, n) = [c EXCEPT !.server = v, !.data = d]
  BY <1>1 DEF Filled
<1>3. DOMAIN d = 0..PxeBufLen - 1
  OBVIOUS
<1>4. ASSUME NEW i \in 0..c.read_ofs + n - 1
      PROVE  d[i] = ByteOf(Node(call.ino), c.server - c.read_ofs + i)
  <2>1. i \in DOMAIN c.data
    OBVIOUS
  <2>2. CASE i >= c.read_ofs
    <3>1. c.server + i - c.read_ofs = c.server - c.read_ofs + i
      OBVIOUS
    <3>2. d[i] = ByteOf(Node(call.ino), c.server + i - c.read_ofs)
      BY <2>1, <2>2
    <3> QED BY <3>1, <3>2
  <2>3. CASE i < c.read_ofs
    BY <2>1, <2>3
  <2> QED BY <2>2, <2>3
<1> HIDE DEF d
<1>5. LET f == Filled(c, n)
      IN  /\ f \in [opened : BOOLEAN, saved_pos : Nat, cur_ofs : Nat, read_ofs : 0..PxeBufLen,
                    data : {f.data}, server : Nat, skip : BOOLEAN, len : Nat, nb : Nat]
          /\ f.server = v /\ f.read_ofs = c.read_ofs /\ f.cur_ofs = c.cur_ofs /\ f.data = d
          /\ f.skip = c.skip /\ f.len = c.len /\ f.nb = c.nb
  BY <1>2
<1> QED BY <1>1, <1>3, <1>4, <1>5

LEMMA PxePacketsKeeps ==
  ASSUME Inv, fsys_type = "pxe", PxePackets
  PROVE  PxeGoesOn
<1> DEFINE n == Lesser((PxeBufLen - cache.read_ofs) \div Blk, cache.nb)
           nr == Arrives(n)
<1>1. /\ call.op = "packets" /\ Call /\ cache.nb > 0 /\ cache.cur_ofs < Blk
      /\ cache.read_ofs + Blk <= PxeBufLen
      /\ IF cache.skip THEN call.buf = <<>> ELSE call.buf \in PxeBytes
      /\ IF cache.skip THEN Coming = filepos
         ELSE cache.server = filepos + Len(call.buf) /\ Coming = filepos + call.left
  BY DEF PxePackets, Inv, PxeInv
<1>2. /\ filepos \in Nat /\ filemax \in Nat /\ call.left \in Nat /\ filepos + call.left <= filemax
      /\ Blk \in Nat \ {0} /\ Blk <= PxeBufLen
      /\ PxeForm /\ PxeBufLen \in Nat /\ cache.read_ofs <= PxeBufLen
      /\ cache.read_ofs \in Nat /\ cache.server \in Nat /\ cache.cur_ofs \in Nat /\ cache.len \in Nat
      /\ cache.nb \in Nat
      /\ cache.skip \in BOOLEAN /\ cache.read_ofs <= cache.server /\ cache.server <= filemax
      /\ \A i \in 0..cache.read_ofs - 1 :
           cache.data[i] = ByteOf(Node(call.ino), cache.server - cache.read_ofs + i)
  BY <1>1, PxeHas
<1>3. PICK b \in Nat \ {0} : b = Blk
  BY <1>2
<1>4. PICK s \in Nat, q \in Nat : s = PxeBufLen - cache.read_ofs /\ q = s \div b /\ q * b <= s
  <2>1. PICK s \in Nat : s = PxeBufLen - cache.read_ofs
    <3>1. PxeBufLen - cache.read_ofs \in Nat
      BY <1>2
    <3> QED BY <3>1
  <2>2. s \div b \in Nat /\ s % b \in 0 .. b - 1 /\ s = (s \div b) * b + (s % b)
    BY DivMod
  <2>3. PICK q \in Nat, r \in Nat : q = s \div b /\ r = s % b /\ s = q * b + r
    BY <2>2
  <2>4. q * b \in Nat
    BY SMT
  <2> QED BY <2>1, <2>3, <2>4
<1>5. PICK m \in Nat, k \in Nat : m = n /\ m <= q /\ cache.nb = m + k /\ (m < cache.nb => m = q)
                                 /\ (m < cache.nb <=> k > 0)
  <2>1. n \in Nat /\ n <= q /\ n <= cache.nb /\ (n < cache.nb => n = q)
    BY <1>2, <1>3, <1>4 DEF Lesser
  <2> HIDE DEF n
  <2>2. PICK m \in Nat : m = n
    BY <2>1
  <2>3. PICK k \in Nat : k = cache.nb - m
    <3>1. cache.nb - m \in Nat
      BY <1>2, <2>1, <2>2
    <3> QED BY <3>1
  <2>4. m <= q /\ cache.nb = m + k /\ (m < cache.nb => m = q) /\ (m < cache.nb <=> k > 0)
    BY <1>2, <2>1, <2>2, <2>3
  <2> QED BY <2>2, <2>4
<1>6. PICK x \in Nat, y \in Nat, z \in Nat :
         x = m * b /\ y = k * b /\ z = cache.nb * b /\ z = x + y /\ x <= s
  <2>1. m * b \in Nat /\ k * b \in Nat /\ (m + k) * b = m * b + k * b /\ q * b \in Nat
    BY SMT
  <2>2. m < q => m * b + b <= q * b
    BY LessTimes
  <2>3. m * b <= q * b
    <3>1. m = q => m * b = q * b
      OBVIOUS
    <3> QED BY <1>5, <2>1, <2>2, <3>1
  <2> QED BY <1>4, <1>5, <2>1, <2>3
<1>7. Coming = cache.server + z + cache.cur_ofs
  BY <1>3, <1>6 DEF Coming
<1>8. cache.server + z + cache.cur_ofs <= filemax
  BY <1>1, <1>2, <1>7
<1>9. nr = x
  <2>1. n * Blk = x
    BY <1>3, <1>5, <1>6
  <2>2. x <= filemax - cache.server
    BY <1>2, <1>6, <1>8
  <2> HIDE DEF n
  <2> QED BY <1>2, <2>1, <2>2 DEF Arrives, Lesser
<1>10. CASE PxeError(cache)
  <2>1. PxeForm'
    BY <1>2, <1>10 DEF PxeError, PxeForm
  <2> QED BY <1>1, <1>10, <2>1, PxeErrorKeeps
<1>11. CASE Brought(FilePart(nr), [Filled(cache, nr) EXCEPT !.nb = @ - n,
                                       !.read_ofs = IF n < cache.nb THEN 0 ELSE @ + nr])
  <2> DEFINE f == Filled(cache, x)
             buf == IF cache.skip THEN <<>> ELSE call.buf \o FilePart(x)
  <2>1. cache.read_ofs + x <= PxeBufLen
    BY <1>2, <1>4, <1>6
  <2>2. /\ f \in [opened : BOOLEAN, saved_pos : Nat, cur_ofs : Nat, read_ofs : 0..PxeBufLen,
                  data : {f.data}, server : Nat, skip : BOOLEAN, len : Nat, nb : Nat]
        /\ DOMAIN f.data = 0..PxeBufLen - 1
        /\ f.server = cache.server + x /\ f.read_ofs = cache.read_ofs /\ f.cur_ofs = cache.cur_ofs
        /\ f.skip = cache.skip /\ f.len = cache.len /\ f.nb = cache.nb
        /\ \A i \in 0..cache.read_ofs + x - 1 :
             f.data[i] = ByteOf(Node(call.ino), cache.server - cache.read_ofs + i)
    <3>1. cache \in [opened : BOOLEAN, saved_pos : Nat, cur_ofs : Nat, read_ofs : 0..PxeBufLen,
                data : {cache.data}, server : Nat, skip : BOOLEAN, len : Nat, nb : Nat]
          /\ DOMAIN cache.data = 0..PxeBufLen - 1
      BY <1>2 DEF PxeForm
    <3> QED BY <1>2, <2>1, <3>1, PxeFilled, ZenonT(40)
  <2> HIDE DEF f
  <2>3. PICK ro \in 0..PxeBufLen : ro = IF n < cache.nb THEN 0 ELSE cache.read_ofs + x
    <3>1. (IF n < cache.nb THEN 0 ELSE cache.read_ofs + x) \in 0..PxeBufLen
      BY <1>2, <2>1
    <3> QED BY <3>1
  <2>4. cache' = [f EXCEPT !.nb = k, !.read_ofs = ro]
    <3>1. cache' = [f EXCEPT !.nb = @ - n, !.read_ofs = IF n < cache.nb THEN 0 ELSE @ + nr]
      BY <1>9, <1>11 DEF Brought, f
    <3>2. f.nb - n = k
      BY <1>2, <1>5, <2>2, SMTT(40)
    <3> HIDE DEF n, nr
    <3> QED BY <1>9, <2>2, <2>3, <3>1, <3>2
  <2>5. /\ PxeForm' /\ cache'.data = f.data /\ cache'.skip = cache.skip /\ cache'.nb = k
        /\ cache'.server = cache.server + x /\ cache'.read_ofs = ro /\ cache'.cur_ofs = cache.cur_ofs
    BY <2>2, <2>4 DEF PxeForm
  <2>6. FilePart(x) \in PxeBytes /\ Len(FilePart(x)) = x
    <3>1. cache.server + x <= filemax
      BY <1>2, <1>6, <1>8
    <3> QED BY <1>2, <3>1, PxePiece DEF FilePart
  <2>7. Same /\ call' = [call EXCEPT !.op = "packets", !.buf = buf]
    <3>0. Same /\ call' = IF f.skip THEN call ELSE [call EXCEPT !.buf = call.buf \o FilePart(x)]
      <4>1. [Filled(cache, nr) EXCEPT !.nb = @ - n, !.read_ofs = IF n < cache.nb THEN 0 ELSE @ + nr].skip = f.skip
        BY <1>9, <2>2 DEF f
      <4> HIDE DEF n, nr
      <4> QED BY <1>9, <1>11, <4>1 DEF Brought
    <3>1. CASE cache.skip
      <4>1. call' = call /\ call.buf = <<>>
        BY <1>1, <2>2, <3>0, <3>1
      <4>2. call = [call EXCEPT !.op = "packets", !.buf = <<>>]
        BY <1>1, <4>1 DEF Call, CallTyped
      <4> QED BY <3>0, <3>1, <4>1, <4>2
    <3>2. CASE ~cache.skip
      <4>1. call' = [call EXCEPT !.buf = call.buf \o FilePart(x)]
        BY <2>2, <3>0, <3>2
      <4>2. call' = [call EXCEPT !.op = "packets", !.buf = call.buf \o FilePart(x)]
        BY <1>1, <4>1 DEF Call, CallTyped
      <4> QED BY <3>0, <3>2, <4>2
    <3> QED BY <3>1, <3>2
  <2>8. IF cache.skip THEN buf = <<>> ELSE buf \in PxeBytes /\ Len(buf) = Len(call.buf) + x
                                           /\ Len(call.buf) \in Nat
    BY <1>1, <2>6, PxeAdded
  <2> HIDE DEF buf, n, nr
  <2>9. Coming' = Coming
    <3>1. Blk' = b
      BY <1>3, <2>7 DEF Blk, Same
    <3>2. Coming' = cache.server + x + y + cache.cur_ofs
      BY <1>6, <2>5, <3>1 DEF Coming
    <3> QED BY <1>2, <1>6, <1>7, <3>2
  <2>10. /\ cache'.cur_ofs < Blk
         /\ cache'.nb > 0 => cache'.read_ofs + Blk <= PxeBufLen
         /\ IF cache'.skip THEN Coming' = filepos
            ELSE cache'.server = filepos + Len(buf) /\ Coming' = filepos + call.left
    <3>1. k > 0 => ro + Blk <= PxeBufLen
      BY <1>2, <1>5, <2>3
    <3>2. ~cache.skip => cache.server + x = filepos + Len(buf)
      <4> SUFFICES ASSUME ~cache.skip PROVE cache.server + x = filepos + Len(buf)
        OBVIOUS
      <4>1. PICK l \in Nat : l = Len(call.buf) /\ Len(buf) = l + x
        BY <2>8
      <4>2. cache.server + x = filepos + (l + x)
        BY <1>1, <1>2, <4>1
      <4> QED BY <4>1, <4>2, Zenon
    <3> QED BY <1>1, <2>5, <2>9, <3>1, <3>2
  <2>11. IF cache'.skip THEN buf = <<>> ELSE buf \in PxeBytes
    BY <2>5, <2>8
  <2>12. /\ cache'.read_ofs <= cache'.server /\ cache'.server <= filemax
         /\ \A i \in 0..cache'.read_ofs - 1 :
              cache'.data[i] = ByteOf(Node(call.ino), cache'.server - cache'.read_ofs + i)
    <3>1. cache.server + x <= filemax
      BY <1>2, <1>6, <1>8
    <3>2. CASE ro = 0
      BY <1>2, <2>5, <3>1, <3>2
    <3>3. CASE ro = cache.read_ofs + x
      <4>1. \A i \in 0..ro - 1 : cache.server + x - ro + i = cache.server - cache.read_ofs + i
        BY <1>2, <3>3
      <4>2. \A i \in 0..ro - 1 : f.data[i] = ByteOf(Node(call.ino), cache.server + x - ro + i)
        BY <2>2, <3>3, <4>1, SMTT(40)
      <4> QED BY <1>2, <2>5, <3>1, <3>3, <4>2
    <3> QED BY <2>3, <3>2, <3>3
  <2>13. PxeForm' /\ Same
    BY <2>5, <2>7
  <2>14. call' = [call EXCEPT !.op = "packets", !.buf = buf]
    BY <2>7
  <2> QED BY <1>1, <2>10, <2>11, <2>12, <2>13, <2>14, PxeStays
<1> QED BY <1>10, <1>11 DEF PxePackets
LEMMA PxePartKeeps ==
  ASSUME Inv, fsys_type = "pxe", PxePart
  PROVE  PxeGoesOn
<1> DEFINE start == [cache EXCEPT !.read_ofs = IF @ + Blk > PxeBufLen THEN 0 ELSE @]
           nr == Arrives(1)
           n == Lesser(cache.cur_ofs, nr)
<1>1. /\ call.op = "packets" /\ Call /\ cache.nb = 0 /\ cache.cur_ofs < Blk
      /\ IF cache.skip THEN call.buf = <<>> ELSE call.buf \in PxeBytes
      /\ IF cache.skip THEN Coming = filepos
         ELSE cache.server = filepos + Len(call.buf) /\ Coming = filepos + call.left
  BY DEF PxePart, Inv, PxeInv
<1>2. /\ filepos \in Nat /\ filemax \in Nat /\ call.left \in Nat /\ filepos + call.left <= filemax
      /\ Blk \in Nat \ {0} /\ Blk <= PxeBufLen
      /\ PxeForm /\ PxeBufLen \in Nat /\ cache.read_ofs <= PxeBufLen
      /\ cache.read_ofs \in Nat /\ cache.server \in Nat /\ cache.cur_ofs \in Nat /\ cache.len \in Nat
      /\ cache.skip \in BOOLEAN /\ cache.read_ofs <= cache.server /\ cache.server <= filemax
      /\ \A i \in 0..cache.read_ofs - 1 :
           cache.data[i] = ByteOf(Node(call.ino), cache.server - cache.read_ofs + i)
  BY <1>1, PxeHas
<1>3. Coming = cache.server + cache.cur_ofs
  <2>1. 0 * Blk = 0
    BY <1>2
  <2> QED BY <1>1, <1>2, <2>1 DEF Coming
<1>4. cache.server + cache.cur_ofs <= filemax
  BY <1>1, <1>2, <1>3
<1>5. PICK x \in Nat : x = nr /\ cache.cur_ofs <= x /\ x <= Blk /\ cache.server + x <= filemax
                       /\ n = cache.cur_ofs
  <2>1. 1 * Blk = Blk
    BY <1>2
  <2>2. nr = Lesser(Blk, filemax - cache.server)
    BY <2>1 DEF Arrives
  <2>3. /\ nr \in Nat /\ cache.cur_ofs <= nr /\ nr <= Blk /\ cache.server + nr <= filemax
    BY <1>1, <1>2, <1>4, <2>2, SMTT(40) DEF Lesser
  <2> HIDE DEF nr
  <2>4. n = cache.cur_ofs
    BY <1>2, <2>3 DEF Lesser
  <2> QED BY <2>3, <2>4
<1>6. PICK ro \in 0..PxeBufLen : /\ ro = IF cache.read_ofs + Blk > PxeBufLen THEN 0 ELSE cache.read_ofs
                                 /\ ro + Blk <= PxeBufLen /\ ro <= cache.server
                                 /\ (ro = 0 \/ ro = cache.read_ofs)
  <2>1. LET r == IF cache.read_ofs + Blk > PxeBufLen THEN 0 ELSE cache.read_ofs
        IN  r \in 0..PxeBufLen /\ r + Blk <= PxeBufLen /\ r <= cache.server /\ (r = 0 \/ r = cache.read_ofs)
    BY <1>2
  <2> QED BY <2>1
<1>7. /\ start \in [opened : BOOLEAN, saved_pos : Nat, cur_ofs : Nat, read_ofs : 0..PxeBufLen,
                    data : {start.data}, server : Nat, skip : BOOLEAN, len : Nat, nb : Nat]
      /\ start.data = cache.data /\ start.server = cache.server /\ start.read_ofs = ro
      /\ start.cur_ofs = cache.cur_ofs /\ start.skip = cache.skip /\ DOMAIN start.data = 0..PxeBufLen - 1
  <2>1. start = [cache EXCEPT !.read_ofs = ro]
    BY <1>6
  <2> HIDE DEF start
  <2> QED BY <1>2, <2>1 DEF PxeForm
<1>8. CASE PxeError(start)
  <2>1. PxeForm'
    <3> HIDE DEF start
    <3> QED BY <1>7, <1>8 DEF PxeForm, PxeError
  <2> HIDE DEF start
  <2> QED BY <1>1, <1>8, <2>1, PxeErrorKeeps
<1>9. CASE /\ cache' = IF cache.cur_ofs = 0
                        THEN [cache EXCEPT !.cur_ofs = cache.read_ofs, !.len = 0]
                        ELSE [Filled(start, nr) EXCEPT !.cur_ofs = n + start.read_ofs,
                                                       !.read_ofs = @ + nr, !.len = 0]
           /\ call' = [call EXCEPT !.op = "pxe", !.buf = IF cache.skip THEN @ ELSE @ \o FilePart(n)]
           /\ Same
  <2> DEFINE co == cache.cur_ofs
             buf == IF cache.skip THEN <<>> ELSE call.buf \o FilePart(co)
  <2>1. FilePart(co) \in PxeBytes /\ Len(FilePart(co)) = co
    BY <1>2, <1>4, PxePiece DEF FilePart
  <2>2. IF cache.skip THEN buf = <<>> ELSE buf \in PxeBytes /\ Len(buf) = Len(call.buf) + co
                                           /\ Len(call.buf) \in Nat
    BY <1>1, <2>1, PxeAdded
  <2>3. call' = [call EXCEPT !.op = "pxe", !.buf = buf]
    BY <1>1, <1>5, <1>9
  <2>4. /\ PxeForm' /\ cache'.skip = cache.skip /\ cache'.len = 0
        /\ cache'.read_ofs <= cache'.server /\ cache'.server <= filemax
        /\ \A i \in 0..cache'.read_ofs - 1 :
             cache'.data[i] = ByteOf(Node(call.ino), cache'.server - cache'.read_ofs + i)
        /\ cache'.cur_ofs <= cache'.read_ofs
        /\ There' = cache.server + co
    <3>1. CASE co = 0
      <4>1. cache' = [cache EXCEPT !.cur_ofs = cache.read_ofs, !.len = 0]
        BY <1>9, <3>1
      <4>2. /\ PxeForm' /\ cache'.skip = cache.skip /\ cache'.len = 0 /\ cache'.server = cache.server
            /\ cache'.read_ofs = cache.read_ofs /\ cache'.data = cache.data
            /\ cache'.cur_ofs = cache.read_ofs
        BY <1>2, <4>1 DEF PxeForm
      <4>3. There' = cache.server + co
        BY <1>2, <3>1, <4>2 DEF There, BufStart
      <4> QED BY <1>2, <4>2, <4>3
    <3>2. CASE co # 0
      <4> DEFINE f == Filled(start, x)
      <4>1. ro + x <= PxeBufLen
        BY <1>2, <1>5, <1>6
      <4>2. \A i \in 0..ro - 1 : start.data[i] = ByteOf(Node(call.ino), start.server - ro + i)
        <5> HIDE DEF start
        <5>1. CASE ro = 0
          BY <5>1
        <5>2. CASE ro = cache.read_ofs
          BY <1>2, <1>7, <5>2
        <5> QED BY <1>6, <5>1, <5>2
      <4>3. /\ f \in [opened : BOOLEAN, saved_pos : Nat, cur_ofs : Nat, read_ofs : 0..PxeBufLen,
                      data : {f.data}, server : Nat, skip : BOOLEAN, len : Nat, nb : Nat]
            /\ DOMAIN f.data = 0..PxeBufLen - 1
            /\ f.server = cache.server + x /\ f.read_ofs = ro /\ f.cur_ofs = co
            /\ f.skip = cache.skip
            /\ \A i \in 0..ro + x - 1 :
                 f.data[i] = ByteOf(Node(call.ino), cache.server - ro + i)
        <5>1. /\ start.read_ofs \in Nat /\ start.server \in Nat /\ start.read_ofs <= start.server
              /\ start.read_ofs + x <= PxeBufLen
              /\ \A i \in 0..start.read_ofs - 1 :
                   start.data[i] = ByteOf(Node(call.ino), start.server - start.read_ofs + i)
          <6> HIDE DEF start
          <6> QED BY <1>2, <1>6, <1>7, <4>1, <4>2
        <5> HIDE DEF start
        <5>2. start \in [opened : BOOLEAN, saved_pos : Nat, cur_ofs : Nat, read_ofs : 0..PxeBufLen,
                         data : {start.data}, server : Nat, skip : BOOLEAN, len : Nat, nb : Nat]
              /\ DOMAIN start.data = 0..PxeBufLen - 1 /\ PxeBufLen \in Nat
          BY <1>2, <1>7
        <5>3. /\ f \in [opened : BOOLEAN, saved_pos : Nat, cur_ofs : Nat, read_ofs : 0..PxeBufLen,
                         data : {f.data}, server : Nat, skip : BOOLEAN, len : Nat, nb : Nat]
              /\ DOMAIN f.data = 0..PxeBufLen - 1
              /\ f.server = start.server + x /\ f.read_ofs = start.read_ofs /\ f.cur_ofs = start.cur_ofs
              /\ f.skip = start.skip
              /\ \A i \in 0..start.read_ofs + x - 1 :
                   f.data[i] = ByteOf(Node(call.ino), start.server - start.read_ofs + i)
          <6>1. x \in Nat
            OBVIOUS
          <6> QED BY <5>1, <5>2, <6>1, PxeFilled, ZenonT(60)
        <5> HIDE DEF f, co
        <5>4. start.read_ofs = ro /\ start.server = cache.server /\ start.skip = cache.skip
              /\ start.cur_ofs = co
          BY <1>7 DEF co
        <5> QED BY <5>3, <5>4
      <4> HIDE DEF f
      <4>4. PICK c \in Nat, e \in 0..PxeBufLen : c = co + ro /\ e = ro + x
        <5>1. co + ro \in Nat /\ ro + x \in 0..PxeBufLen
          BY <1>2, <4>1
        <5> QED BY <5>1
      <4>5. cache' = [f EXCEPT !.cur_ofs = c, !.read_ofs = e, !.len = 0]
        <5>1. cache' = [f EXCEPT !.cur_ofs = n + start.read_ofs, !.read_ofs = @ + nr, !.len = 0]
          BY <1>5, <1>9, <3>2 DEF f
        <5> HIDE DEF start, n, nr
        <5> QED BY <1>5, <1>7, <4>3, <4>4, <5>1
      <4>6. /\ PxeForm' /\ cache'.skip = cache.skip /\ cache'.len = 0
            /\ cache'.server = cache.server + x /\ cache'.data = f.data
            /\ cache'.read_ofs = e /\ cache'.cur_ofs = c
        BY <4>3, <4>5 DEF PxeForm
      <4>7. There' = cache.server + co
        BY <1>2, <4>4, <4>6 DEF There, BufStart
      <4>8. /\ cache'.read_ofs <= cache'.server /\ cache'.server <= filemax /\ c <= e
        BY <1>2, <1>5, <1>6, <4>4, <4>6
      <4>9. \A i \in 0..e - 1 : f.data[i] = ByteOf(Node(call.ino), (cache.server + x) - e + i)
        <5>1. \A i \in 0..e - 1 : (cache.server + x) - e + i = cache.server - ro + i
          BY <1>2, <4>4
        <5> QED BY <4>3, <4>4, <5>1
      <4>10. \A i \in 0..cache'.read_ofs - 1 :
               cache'.data[i] = ByteOf(Node(call.ino), cache'.server - cache'.read_ofs + i)
        <5> HIDE DEF co, start
        <5>1. /\ cache'.read_ofs = e /\ cache'.server = cache.server + x /\ cache'.data = f.data
          BY <4>6
        <5>2. \A i \in 0..e - 1 : cache'.data[i] = ByteOf(Node(call.ino), cache'.server - e + i)
          BY <4>9, <5>1, Zenon
        <5> QED BY <5>1, <5>2, Zenon
      <4> HIDE DEF co, start
      <4> QED BY <4>6, <4>7, <4>8, <4>10
    <3> QED BY <3>1, <3>2
  <2> HIDE DEF buf, n, nr, start
  <2>5. IF cache'.skip THEN There' + cache'.len = filepos
        ELSE There' = filepos + Len(buf) /\ There' + cache'.len = filepos + call.left
    <3>1. CASE cache.skip
      BY <1>1, <1>2, <1>3, <2>4, <3>1
    <3>2. CASE ~cache.skip
      <4>1. PICK l \in Nat : l = Len(call.buf) /\ Len(buf) = l + co
        BY <2>2, <3>2
      <4>2. cache.server + co = filepos + (l + co)
        <5>1. cache.server = filepos + l
          BY <1>1, <3>2, <4>1
        <5> QED BY <1>2, <5>1
      <4>3. There' = filepos + Len(buf)
        BY <2>4, <4>1, <4>2, Zenon
      <4>4. There' + 0 = filepos + call.left
        BY <1>1, <1>2, <1>3, <2>4, <3>2
      <4> QED BY <2>4, <3>2, <4>3, <4>4
    <3> QED BY <3>1, <3>2
  <2>6. IF cache'.skip THEN buf = <<>> ELSE buf \in PxeBytes
    BY <2>2, <2>4
  <2> QED BY <1>1, <1>9, <2>3, <2>4, <2>5, <2>6, PxeStays
<1> QED BY <1>8, <1>9 DEF PxePart

LEMMA PxeReachedKeeps ==
  ASSUME Inv, fsys_type = "pxe", PxeReached
  PROVE  PxeGoesOn
<1>1. /\ call.op = "pxe" /\ Call /\ At /\ cache.len = 0 /\ PxeInv
      /\ cache.cur_ofs <= cache.read_ofs
      /\ IF cache.skip THEN call.buf = <<>> ELSE call.buf \in PxeBytes
      /\ IF cache.skip THEN There + cache.len = filepos
         ELSE There = filepos + Len(call.buf) /\ There + cache.len = filepos + call.left
  BY DEF PxeReached, Inv, PxeInv
<1>2. /\ filepos \in Nat /\ filemax \in Nat /\ call.left \in Nat /\ filepos + call.left <= filemax
      /\ PxeForm /\ cache.read_ofs \in Nat /\ cache.server \in Nat /\ cache.cur_ofs \in Nat
      /\ cache.read_ofs <= cache.server /\ cache.server <= filemax
      /\ \A i \in 0..cache.read_ofs - 1 :
           cache.data[i] = ByteOf(Node(call.ino), cache.server - cache.read_ofs + i)
  BY <1>1, PxeHas
<1>3. There = cache.server - cache.read_ofs + cache.cur_ofs /\ There \in Int
  BY <1>2 DEF There, BufStart
<1>4. CASE cache.skip
  <2>1. cache' = Wanted(cache) /\ Same /\ call' = call /\ call.buf = <<>>
    BY <1>1, <1>4 DEF PxeReached
  <2>2. /\ PxeForm' /\ cache'.skip = FALSE /\ cache'.len = call.left /\ cache'.data = cache.data
        /\ cache'.server = cache.server /\ cache'.read_ofs = cache.read_ofs /\ cache'.cur_ofs = cache.cur_ofs
    BY <1>2, <2>1 DEF PxeForm, Wanted
  <2>3. call' = [call EXCEPT !.op = "pxe", !.buf = <<>>]
    BY <1>1, <2>1 DEF Call, CallTyped
  <2>4. <<>> \in PxeBytes /\ Len(<<>>) = 0
    BY DEF PxeBytes
  <2>5. There' = filepos + Len(<<>>) /\ There' + cache'.len = filepos + call.left
    BY <1>1, <1>2, <1>3, <1>4, <2>2, <2>4 DEF There, BufStart
  <2> QED BY <1>1, <1>2, <2>1, <2>2, <2>3, <2>4, <2>5, PxeStays
<1>5. CASE ~cache.skip
  <2>1. PICK p \in Nat : p = filepos + Len(call.buf) /\ p <= filemax /\ p = There
    <3>1. There + 0 = filepos + call.left
      BY <1>1, <1>5
    <3>2. There \in Nat /\ There <= filemax
      BY <1>2, <1>3, <3>1
    <3> QED BY <1>1, <1>5, <3>2
  <2>2. /\ call' = Returned("read", call.buf) /\ filepos' = p
        /\ cache' = [cache EXCEPT !.saved_pos = p]
        /\ UNCHANGED <<fsys_type, volume, filemax, errnum>>
    BY <1>5, <2>1 DEF PxeReached
  <2>3. CallTyped' /\ call'.op = "read" /\ call'.left = 0
        /\ call'.ino = call.ino /\ call'.name = call.name /\ call'.updir = call.updir
    BY <1>1, <2>2 DEF Returned, Call, CallTyped
  <2>4. Call'
    BY <1>1, <2>2, <2>3, CallStays, Always DEF Call, AtNode
  <2>5. At'
    BY <1>2, <2>1, <2>2, <2>3, SMTT(40) DEF At, Looking
  <2>6. /\ PxeForm' /\ cache'.data = cache.data /\ cache'.saved_pos = p
        /\ cache'.server = cache.server /\ cache'.read_ofs = cache.read_ofs /\ cache'.cur_ofs = cache.cur_ofs
    BY <1>2, <2>2 DEF PxeForm
  <2>7. There' = There /\ BufStart' = BufStart
    BY <2>6 DEF There, BufStart
  <2>8. Node(call.ino)' = Node(call.ino)
    BY <2>2, <2>3 DEF Node, Nodes
  <2>9. \A i : ByteOf(Node(call.ino), BufStart + i)' = ByteOf(Node(call.ino), BufStart + i)
    BY <2>7, <2>8 DEF ByteOf
  <2> QED BY <1>1, <1>2, <2>1, <2>2, <2>3, <2>4, <2>5, <2>6, <2>7, <2>9
          DEF PxeGoesOn, PxeInv, PxeOpen, FileOpen
<1> QED BY <1>4, <1>5

LEMMA PxeKeeps ==
  ASSUME Inv, fsys_type = "pxe", PxeTurn
  PROVE  PxeGoesOn
  BY PxeDirKeeps, PxeBeginKeeps, PxeBufferedKeeps, PxePacketsKeeps, PxePartKeeps, PxeReachedKeeps
     DEF PxeTurn
---------------------------------------------------------------------------
(* reiserfs. *)

ReiserGoesOn == Call' /\ At' /\ ReiserInv' /\ fsys_type' = fsys_type

\* The slots are true of the same blocks.
LEMMA SameSlots ==
  ASSUME SlotsTrue, volume' = volume, cache'.slot = cache.slot, cache'.blocks = cache.blocks
  PROVE  SlotsTrue'
  BY DEF SlotsTrue, Translated

\* What is known of a call that runs.
LEMMA ReiserHas ==
  ASSUME Inv, fsys_type = "reiserfs", call.op # "idle"
  PROVE  /\ Call /\ At /\ ReiserInv /\ ReiserForm /\ call.ino \in DOMAIN Nodes
         /\ call.left \in Nat /\ filepos \in Nat /\ filemax \in Nat /\ filepos + call.left <= filemax
         /\ TreeTyped(volume) /\ Height \in 1 .. 6 /\ CachedSlots \in Nat \ {0}
         /\ (~volume.excused => TreeSound(volume))
         /\ (~volume.excused /\ call.op # "failed" => SlotsTrue)
<1>1. Call /\ At /\ ReiserInv /\ call.ino \in DOMAIN Nodes
  BY DEF Inv, Call, AtNode
<1>2. TreeTyped(volume) /\ (~volume.excused => TreeSound(volume))
  BY <1>1, Running
<1>3. Height \in 1 .. 6
  BY <1>2 DEF TreeTyped, Height, MaxHeight
<1> QED BY <1>1, <1>2, <1>3, ReiserAssumption DEF ReiserInv, At, Call, CallTyped

\* A search goes on to another step.
LEMMA ReiserMoves ==
  ASSUME Call, At, call.op # "idle", fsys_type = "reiserfs", NEW lost \in BOOLEAN,
         NEW op \in {"tree", "next", "descend", "item", "items"},
         call' = [call EXCEPT !.op = op, !.lost = lost], Keeps,
         op = "item" \/ (op \in {"tree", "next", "descend"} /\ cache'.goal # "read") => Looking
  PROVE  Call' /\ At' /\ call'.op = op /\ call'.ino = call.ino /\ fsys_type' = fsys_type /\ volume' = volume
<1>1. CallTyped' /\ call'.op = op /\ call'.left = call.left
      /\ call'.ino = call.ino /\ call'.name = call.name /\ call'.updir = call.updir
  BY DEF Call, CallTyped
<1>2. Call'
  BY <1>1, CallStays DEF Call, AtNode, Keeps, OpsOf
<1>3. At'
  BY <1>1 DEF At, Looking, Keeps
<1> QED BY <1>1, <1>2, <1>3 DEF Keeps

LEMMA SearchFailsKeeps ==
  ASSUME Inv, fsys_type = "reiserfs", call.op \in {"tree", "next", "descend"}, NEW e, e # None,
         NEW ok \in BOOLEAN, SearchFails(e, ok), ReiserForm', cache'.goal = cache.goal,
         ~volume.excused /\ call.op = "tree" => SlotsTrue'
  PROVE  ReiserGoesOn
<1>1. Call /\ At
  BY DEF Inv
<1>2. CASE DirFails(e, ok) \/ ReadFails(e, ok)
  <2>1. /\ Call' /\ At' /\ UNCHANGED <<volume, fsys_type>> /\ call'.op = "failed" /\ errnum' = e
    BY <1>1, <1>2, DirFailsKeeps, ReadFailsKeeps
  <2> QED BY <2>1 DEF ReiserGoesOn, ReiserInv
<1>3. CASE /\ cache.goal = "read" /\ call.op = "tree"
           /\ call' = [call EXCEPT !.op = "next", !.lost = @ \/ ~ok]
           /\ errnum' = e /\ Keeps
  <2>1. PICK lost \in BOOLEAN : call' = [call EXCEPT !.op = "next", !.lost = lost]
    BY <1>1, <1>3 DEF Call, CallTyped
  <2>2. Call' /\ At' /\ call'.op = "next" /\ fsys_type' = fsys_type /\ volume' = volume
    BY <1>1, <1>3, <2>1, ReiserMoves
  <2> QED BY <1>3, <2>2 DEF ReiserGoesOn, ReiserInv
<1> QED BY <1>2, <1>3 DEF SearchFails

\* The search for an inode starts at the root.
LEMMA SearchStatKeeps ==
  ASSUME Inv, fsys_type = "reiserfs", NEW ino, NEW goal \in {"stat", "read"}, SearchStat(ino, goal),
         call.op = "inode" \/ (call.op = "reading" /\ goal = "read")
  PROVE  ReiserGoesOn
<1>1. Call /\ At /\ ReiserForm /\ Height \in 1 .. 6 /\ (~volume.excused => TreeSound(volume))
      /\ (~volume.excused => SlotsTrue)
  BY ReiserHas
<1>2. /\ ReiserForm' /\ cache'.slot = cache.slot /\ cache'.blocks = cache.blocks
      /\ cache'.goal = goal /\ cache'.depth = Height
  <2>1. PICK h \in Nat : h = Height
    BY <1>1
  <2>2. cache' = [cache EXCEPT !.depth = h, !.goal = goal, !.file = ino]
    BY <2>1 DEF SearchStat
  <2> QED BY <1>1, <2>1, <2>2 DEF ReiserForm
<1>3. Call' /\ At' /\ call'.op = "tree" /\ fsys_type' = fsys_type /\ volume' = volume
  <2>1. call' = [call EXCEPT !.op = "tree", !.lost = call.lost] /\ call.lost \in BOOLEAN
    BY <1>1 DEF SearchStat, Call, CallTyped
  <2>2. cache'.goal # "read" => Looking
    BY <1>2 DEF Looking
  <2> QED BY <1>1, <2>1, <2>2, ReiserMoves DEF SearchStat
<1>4. Height' = Height /\ (~volume.excused => NodeAt(cache.depth)'.level = Height)
  BY <1>1, <1>2, <1>3 DEF Height, NodeAt, Block, Tree, TreeSound
<1>5. ~volume.excused => SlotsTrue'
  BY <1>1, <1>2, <1>3, SameSlots
<1> QED BY <1>1, <1>2, <1>3, <1>4, <1>5 DEF ReiserGoesOn, ReiserInv

\* The node below is read, or known.
LEMMA DescendKeeps ==
  ASSUME Inv, fsys_type = "reiserfs", NEW d \in Nat, d > 1, NEW i, NEW nr,
         NEW op \in {"tree", "descend"}, Descend(d, i, nr, op),
         IF op = "tree" THEN call.op = "tree" ELSE call.op \in {"next", "descend"},
         op = "tree" => /\ d <= Height
                        /\ ~volume.excused =>
                             LET b == Child(NodeAt(d), i + 1)
                             IN  b # 0 /\ Block(Translated(b)).level = d - 1
  PROVE  ReiserGoesOn
<1> DEFINE b     == Child(NodeAt(d), i + 1)
           noted == [cache EXCEPT !.next_key_nr[d] = nr, !.depth = d - 1]
           read  == [noted EXCEPT !.slot[Slot(d - 1)] = Translated(b)]
           known == d - 1 < CachedSlots /\ cache.blocks[d - 1] = b
           level == Block(Translated(b)).level
<1>1. /\ Call /\ At /\ ReiserInv /\ ReiserForm /\ Height \in 1 .. 6 /\ CachedSlots \in Nat \ {0}
      /\ (~volume.excused => SlotsTrue)
  BY ReiserHas
<1>2. PICK e \in Nat \ {0} : e = d - 1
  <2>1. d - 1 \in Nat \ {0}
    OBVIOUS
  <2> QED BY <2>1
<1>3. PICK s \in 1..CachedSlots : s = Slot(e) /\ (e < CachedSlots => s = e) /\ (e >= CachedSlots => s = CachedSlots)
  BY <1>1, <1>2 DEF Slot, Lesser
<1>4. PICK n, r : n = [cache.next_key_nr EXCEPT ![d] = nr] /\ r = [cache.slot EXCEPT ![s] = Translated(b)]
  OBVIOUS
<1>5. noted = [cache EXCEPT !.next_key_nr = n, !.depth = e]
  <2> HIDE DEF b
  <2> QED BY <1>1, <1>2, <1>4 DEF ReiserForm
<1>6. read = [cache EXCEPT !.next_key_nr = n, !.depth = e, !.slot = r]
  <2> HIDE DEF b, noted
  <2> QED BY <1>1, <1>2, <1>3, <1>4, <1>5 DEF ReiserForm
<1>7. DOMAIN r = 1..CachedSlots /\ r[s] = Translated(b) /\ \A x \in 1..CachedSlots : x # s => r[x] = cache.slot[x]
  <2> HIDE DEF b
  <2> QED BY <1>1, <1>4 DEF ReiserForm
<1> HIDE DEF b, noted, read, known, level
<1>8. ReiserForm' /\ cache'.goal = cache.goal /\ cache'.depth = e
  <2>1. CASE cache' = noted
    BY <1>1, <1>2, <1>5, <2>1 DEF ReiserForm
  <2>2. CASE cache' = read
    BY <1>1, <1>2, <1>6, <1>7, <2>2 DEF ReiserForm
  <2>3. CASE cache' = [read EXCEPT !.blocks[d - 1] = b]
    <3>1. PICK bl : bl = [cache.blocks EXCEPT ![e] = b]
      OBVIOUS
    <3>2. DOMAIN bl = DOMAIN cache.blocks
      BY <3>1
    <3>3. cache' = [cache EXCEPT !.next_key_nr = n, !.depth = e, !.slot = r, !.blocks = bl]
      BY <1>1, <1>2, <1>6, <2>3, <3>1 DEF ReiserForm
    <3> QED BY <1>1, <1>2, <1>7, <3>2, <3>3 DEF ReiserForm
  <2> QED BY <2>1, <2>2, <2>3 DEF Descend, noted, read, known, b
<1>9. CASE ~known /\ cache' = noted /\ SearchFails("read", FALSE)
  <2>1. volume' = volume
    BY <1>9 DEF SearchFails, DirFails, ReadFails, Keeps
  <2>2. cache'.slot = cache.slot /\ cache'.blocks = cache.blocks
    BY <1>1, <1>5, <1>9 DEF ReiserForm
  <2>3. ~volume.excused => SlotsTrue'
    BY <1>1, <2>1, <2>2, SameSlots
  <2> QED BY <1>8, <1>9, <2>3, SearchFailsKeeps DEF None
<1>10. CASE ~known /\ level # d - 1 /\ cache' = read /\ SearchFails("corrupt", TRUE)
  <2>1. ~(~volume.excused /\ call.op = "tree")
    BY <1>10 DEF level, b
  <2> QED BY <1>8, <1>10, <2>1, SearchFailsKeeps DEF None
<1>11. CASE /\ known \/ level = d - 1
            /\ cache' = IF known THEN noted ELSE [read EXCEPT !.blocks[d - 1] = b]
            /\ call' = [call EXCEPT !.op = op] /\ Keeps
  <2>1. call' = [call EXCEPT !.op = op, !.lost = call.lost] /\ call.lost \in BOOLEAN
    BY <1>1, <1>11 DEF Call, CallTyped
  <2>2. cache'.goal # "read" => Looking
    BY <1>8 DEF Looking
  <2>3. Call' /\ At' /\ call'.op = op /\ call'.ino = call.ino /\ fsys_type' = fsys_type /\ volume' = volume
    BY <1>1, <1>11, <2>1, <2>2, ReiserMoves
  <2>4. /\ ~volume.excused => SlotsTrue'
        /\ ~volume.excused /\ op = "tree" => cache'.slot[s] = Translated(b)
    <3>1. CASE known
      <4>1. cache'.slot = cache.slot /\ cache'.blocks = cache.blocks
        BY <1>1, <1>5, <1>11, <3>1 DEF ReiserForm
      <4>2. ASSUME ~volume.excused, op = "tree"
            PROVE  cache'.slot[s] = Translated(b)
        <5>1. e < CachedSlots /\ s = e /\ cache.blocks[e] = b /\ b # 0
          BY <1>1, <1>2, <1>3, <3>1, <4>2 DEF known, b
        <5>2. e \in DOMAIN cache.blocks
          BY <1>1, <1>2, <4>2 DEF ReiserForm, MaxHeight
        <5> QED BY <1>1, <4>1, <4>2, <5>1, <5>2 DEF SlotsTrue
      <4> QED BY <1>1, <2>3, <4>1, <4>2, SameSlots
    <3>2. CASE ~known
      <4>1. PICK bl : bl = [cache.blocks EXCEPT ![e] = b]
        OBVIOUS
      <4>2. /\ DOMAIN bl = DOMAIN cache.blocks /\ (e \in DOMAIN bl => bl[e] = b)
            /\ \A x \in DOMAIN bl : x # e => bl[x] = cache.blocks[x]
        BY <4>1
      <4>3. cache' = [cache EXCEPT !.next_key_nr = n, !.depth = e, !.slot = r, !.blocks = bl]
        BY <1>1, <1>2, <1>6, <1>11, <3>2, <4>1 DEF ReiserForm
      <4>4. cache'.slot = r /\ cache'.blocks = bl
        BY <1>1, <4>3 DEF ReiserForm
      <4>5. ASSUME ~volume.excused, NEW x \in DOMAIN bl, x < CachedSlots, bl[x] # 0
            PROVE  r[x] = Translated(bl[x])
        <5>1. x \in 1..MaxHeight - 1 /\ x \in Nat \ {0} /\ x \in 1..CachedSlots /\ x \in DOMAIN cache.blocks
          BY <1>1, <4>2, <4>5 DEF ReiserForm, MaxHeight
        <5>2. CASE x = e
          BY <1>3, <1>7, <4>2, <4>5, <5>1, <5>2
        <5>3. CASE x # e
          <6>1. x # s
            BY <1>1, <1>2, <1>3, <4>5, <5>1, <5>3
          <6>2. cache.slot[x] = Translated(cache.blocks[x])
            BY <1>1, <4>2, <4>5, <5>1, <5>3 DEF SlotsTrue
          <6> QED BY <1>7, <4>2, <5>1, <5>3, <6>1, <6>2
        <5> QED BY <5>2, <5>3
      <4>6. \A x : Translated(x)' = Translated(x)
        BY <2>3 DEF Translated
      <4> QED BY <1>7, <4>4, <4>5, <4>6 DEF SlotsTrue
    <3> QED BY <3>1, <3>2
  <2>5. op = "tree" => e \in 1..Height /\ e # Height
    BY <1>1, <1>2
  <2>6. Height' = Height
    BY <2>3 DEF Height
  <2>7. ASSUME op = "tree", ~volume.excused
        PROVE  NodeAt(cache.depth)'.level = e
    <3>1. NodeAt(cache.depth)' = Block(cache'.slot[s])
      <4>1. Slot(e)' = s
        BY <1>3 DEF Slot
      <4> QED BY <1>8, <2>3, <2>5, <2>7, <4>1 DEF NodeAt, Block, Tree, Height
    <3>2. Block(Translated(b)).level = e
      BY <1>2, <2>7 DEF b
    <3> QED BY <2>4, <2>7, <3>1, <3>2
  <2>8. op = "descend" => cache.goal # "stat" /\ (cache.goal = "entries" => Node(call.ino)'.type = "dir")
    BY <1>1, <2>3 DEF ReiserInv, Node, Nodes
  <2> QED BY <1>8, <2>3, <2>4, <2>5, <2>6, <2>7, <2>8 DEF ReiserGoesOn, ReiserInv
<1> QED BY <1>9, <1>10, <1>11 DEF Descend, noted, read, known, b, level

LEMMA TreeStepKeeps ==
  ASSUME Inv, fsys_type = "reiserfs", TreeStep
  PROVE  ReiserGoesOn
<1> DEFINE d    == cache.depth
           kids == NodeAt(d).kids
           low  == {j \in 2..Len(kids) : ~Above(KeyOf(kids[j]), Stat(cache.file))}
           i    == Cardinality(low)
           nr   == IF i = Len(kids) - 1 THEN 0 ELSE i + 1
<1>1. /\ ReiserInv /\ Height \in 1 .. 6 /\ TreeTyped(volume)
      /\ (~volume.excused => TreeSound(volume))
      /\ call.op = "tree" /\ d > 1 /\ Descend(d, i, nr, "tree")
  BY ReiserHas DEF TreeStep
<1>2. d \in Nat /\ d \in 1 .. Height /\ d <= Height
  BY <1>1 DEF ReiserInv
<1>3. ASSUME ~volume.excused
      PROVE  Child(NodeAt(d), i + 1) # 0 /\ Block(Translated(Child(NodeAt(d), i + 1))).level = d - 1
  <2>1. PICK n : n = (IF d = Height THEN volume.root ELSE cache.slot[Slot(d)]) /\ NodeAt(d) = Block(n)
    BY DEF NodeAt
  <2>2. NodeAt(d).level = d
    BY <1>1, <1>3 DEF ReiserInv
  <2>3. n \in DOMAIN volume.tree /\ NodeAt(d) = volume.tree[n]
    <3>1. Block(n).level = d /\ d # 0 /\ NoNode.level = 0
      BY <1>1, <1>2, <2>1, <2>2 DEF NoNode
    <3>2. Block(n) = IF n \in DOMAIN volume.tree THEN volume.tree[n] ELSE NoNode
      BY SMTT(40) DEF Block, NodeIn, Tree
    <3> QED BY <2>1, <3>1, <3>2
  <2>4. /\ kids \in Seq(Int) /\ kids # <<>>
        /\ \A j \in DOMAIN kids : /\ kids[j] # 0
                                  /\ NodeIn(volume.tree, PlaceIn(volume.journal, kids[j])).level = d - 1
    BY <1>1, <1>2, <1>3, <2>2, <2>3 DEF TreeTyped, TreeSound
  <2>5. i \in 0 .. Len(kids) - 1
    <3> HIDE DEF kids
    <3>1. PICK l \in Nat \ {0} : l = Len(kids)
      BY <2>4
    <3>2. IsFiniteSet(2..l) /\ Cardinality(2..l) = l - 1
      <4>1. 2 \in Int /\ l \in Int /\ (IF 2 > l THEN 0 ELSE l - 2 + 1) = l - 1
        BY <3>1
      <4>2. IsFiniteSet(2..l) /\ Cardinality(2..l) = IF 2 > l THEN 0 ELSE l - 2 + 1
        BY <4>1, FS_Interval, Zenon
      <4> QED BY <4>1, <4>2
    <3>3. low \subseteq 2..l
      BY <3>1
    <3>4. i \in Nat /\ i <= l - 1
      <4> HIDE DEF low
      <4> QED BY <3>2, <3>3, FS_Subset, FS_CardinalityType
    <3> QED BY <3>1, <3>4
  <2>6. i + 1 \in DOMAIN kids
    <3> HIDE DEF kids, i
    <3> QED BY <2>4, <2>5
  <2>7. Child(NodeAt(d), i + 1) = kids[i + 1]
    BY <2>6 DEF Child
  <2> HIDE DEF kids, i
  <2> QED BY <2>4, <2>6, <2>7 DEF Block, Tree, Translated
<1> HIDE DEF i, nr, d
<1> QED BY <1>1, <1>2, <1>3, DescendKeeps

\* What is next of a stat item is looked for: only the item that is current changes.
LEMMA NextForKeeps ==
  ASSUME Inv, fsys_type = "reiserfs", call.op = "tree",
         NEW goal \in {"link", "file", "entries", "read"}, NEW at, NEW max \in Nat,
         NextFor(goal, at, max), goal = "read" => max = filemax /\ cache.goal = "read",
         goal # "read" => Looking,
         goal = "entries" => Node(call.ino).type = "dir"
  PROVE  ReiserGoesOn
<1>1. /\ Call /\ At /\ ReiserForm /\ (~volume.excused => SlotsTrue)
      /\ UNCHANGED <<volume, fsys_type, filepos>> /\ filemax' = max
  BY ReiserHas DEF NextFor
<1>2. ReiserForm' /\ cache'.goal = goal /\ cache'.slot = cache.slot /\ cache'.blocks = cache.blocks
  BY <1>1 DEF ReiserForm, NextFor
<1>3. CallTyped' /\ call'.op = "next" /\ call'.left = call.left
      /\ call'.ino = call.ino /\ call'.name = call.name /\ call'.updir = call.updir
  BY <1>1 DEF Call, CallTyped, NextFor
<1>4. Call'
  BY <1>1, <1>3, CallStays DEF Call, AtNode, OpsOf
<1>5. At'
  BY <1>1, <1>2, <1>3 DEF At, Looking
<1>6. ~volume.excused => SlotsTrue'
  BY <1>1, <1>2, SameSlots
<1>7. Node(call.ino)' = Node(call.ino)
  BY <1>1, <1>3 DEF Node, Nodes
<1> QED BY <1>1, <1>2, <1>3, <1>4, <1>5, <1>6, <1>7 DEF ReiserGoesOn, ReiserInv

LEMMA LeafStepKeeps ==
  ASSUME Inv, fsys_type = "reiserfs", LeafStep
  PROVE  ReiserGoesOn
<1>1. /\ call.op = "tree" /\ Call /\ At /\ ReiserInv /\ ReiserForm /\ filemax \in Nat
      /\ (~volume.excused => SlotsTrue) /\ call.ino \in DOMAIN Nodes
  BY ReiserHas DEF LeafStep
<1>2. Node(call.ino).size \in Nat
  BY <1>1, Running DEF NodesTyped, Node, Nodes
<1>3. CASE SearchFails("corrupt", TRUE) /\ UNCHANGED cache
  <2>1. volume' = volume
    BY <1>3 DEF SearchFails, DirFails, ReadFails, Keeps
  <2>2. ReiserForm' /\ (~volume.excused => SlotsTrue')
    BY <1>1, <1>3, <2>1 DEF ReiserForm, SlotsTrue, Translated
  <2> QED BY <1>1, <1>3, <2>2, SearchFailsKeeps DEF None
<1>4. ASSUME cache.goal = "read", NEW at, NextFor("read", at, filemax)
      PROVE  ReiserGoesOn
  BY <1>1, <1>4, NextForKeeps
<1>5. ASSUME cache.goal # "read", NEW at, StatFound(at)
      PROVE  ReiserGoesOn
  <2>1. Looking
    BY <1>1, <1>5 DEF Looking
  <2>2. ASSUME NEW e, DirFails(e, TRUE), cache' = [cache EXCEPT !.cur = at]
        PROVE  ReiserGoesOn
    <3>1. /\ Call' /\ At' /\ UNCHANGED <<volume, fsys_type>> /\ call'.op = "failed" /\ errnum' = e
      BY <1>1, <2>2, DirFailsKeeps
    <3>2. ReiserForm' /\ cache'.slot = cache.slot /\ cache'.blocks = cache.blocks
      BY <1>1, <2>2 DEF ReiserForm
    <3>3. ~volume.excused => SlotsTrue'
      BY <1>1, <3>1, <3>2, SameSlots
    <3> QED BY <3>1, <3>2, <3>3 DEF ReiserGoesOn, ReiserInv
  <2>3. CASE LinkLoop /\ cache' = [cache EXCEPT !.cur = at]
    BY <2>2, <2>3 DEF LinkLoop
  <2>4. CASE NextFor("link", at, Node(call.ino).size)
    BY <1>1, <1>2, <2>1, <2>4, NextForKeeps
  <2>5. CASE NextFor("file", at, Node(call.ino).size)
    BY <1>1, <1>2, <2>1, <2>5, NextForKeeps
  <2>6. CASE Node(call.ino).type = "dir" /\ NextFor("entries", at, filemax)
    BY <1>1, <2>1, <2>6, NextForKeeps
  <2>7. CASE DirFails("filetype", TRUE) /\ cache' = [cache EXCEPT !.cur = at]
    BY <2>2, <2>7
  <2> QED BY <1>5, <2>3, <2>4, <2>5, <2>6, <2>7 DEF StatFound
<1> QED BY <1>3, <1>4, <1>5 DEF LeafStep

---------------------------------------------------------------------------
(* reiserfs: the next key. *)

LEMMA ToItemKeeps ==
  ASSUME Inv, fsys_type = "reiserfs", call.op \in {"next", "descend"}, NEW at, ToItem(at)
  PROVE  ReiserGoesOn
<1>1. /\ Call /\ At /\ ReiserInv /\ ReiserForm /\ (~volume.excused => SlotsTrue)
  BY ReiserHas
<1>2. ReiserForm' /\ cache'.goal = cache.goal /\ cache'.slot = cache.slot /\ cache'.blocks = cache.blocks
  BY <1>1 DEF ReiserForm, ToItem
<1>3. PICK op \in {"item", "items"} :
        op = (IF cache.goal = "read" THEN "items" ELSE "item") /\ call' = [call EXCEPT !.op = op]
  BY DEF ToItem
<1>4. call' = [call EXCEPT !.op = op, !.lost = call.lost] /\ call.lost \in BOOLEAN
  BY <1>1, <1>3 DEF Call, CallTyped
<1>5. op = "item" => Looking
  BY <1>3 DEF Looking
<1>6. Call' /\ At' /\ call'.op = op /\ call'.ino = call.ino /\ fsys_type' = fsys_type /\ volume' = volume
  BY <1>1, <1>3, <1>4, <1>5, ReiserMoves DEF ToItem
<1>7. ~volume.excused => SlotsTrue'
  BY <1>1, <1>2, <1>6, SameSlots
<1>8. Node(call.ino)' = Node(call.ino)
  BY <1>6 DEF Node, Nodes
<1> QED BY <1>1, <1>2, <1>3, <1>6, <1>7, <1>8 DEF ReiserGoesOn, ReiserInv

LEMMA RereadKeeps ==
  ASSUME Inv, fsys_type = "reiserfs", call.op = "next", NEW d \in Nat, Reread(d)
  PROVE  ReiserGoesOn
<1> DEFINE b    == Translated(cache.blocks[d])
           read == [cache EXCEPT !.depth = d, !.slot[CachedSlots] = b]
<1>1. /\ Call /\ At /\ ReiserInv /\ ReiserForm /\ (~volume.excused => SlotsTrue)
      /\ CachedSlots \in Nat \ {0}
  BY ReiserHas
<1>2. PICK r : r = [cache.slot EXCEPT ![CachedSlots] = b]
  OBVIOUS
<1>3. DOMAIN r = DOMAIN cache.slot /\ \A x \in DOMAIN r : x # CachedSlots => r[x] = cache.slot[x]
  BY <1>2
<1> HIDE DEF b
<1>4. read = [cache EXCEPT !.depth = d, !.slot = r]
  BY <1>1, <1>2 DEF ReiserForm
<1> HIDE DEF read
<1>5. ASSUME cache' = read
      PROVE  ReiserForm' /\ cache'.goal = cache.goal /\ cache'.slot = r /\ cache'.blocks = cache.blocks
  BY <1>1, <1>3, <1>4, <1>5 DEF ReiserForm
<1>6. CASE SearchFails("read", FALSE) /\ UNCHANGED cache
  BY <1>1, <1>6, SearchFailsKeeps DEF ReiserForm, None
<1>7. CASE cache' = read /\ SearchFails("corrupt", TRUE)
  BY <1>1, <1>5, <1>7, SearchFailsKeeps DEF None
<1>8. CASE cache' = read /\ call' = [call EXCEPT !.op = "descend"] /\ Keeps
  <2>1. call' = [call EXCEPT !.op = "descend", !.lost = call.lost] /\ call.lost \in BOOLEAN
    BY <1>1, <1>8 DEF Call, CallTyped
  <2>2. cache'.goal # "read" => Looking
    BY <1>5, <1>8 DEF Looking
  <2>3. Call' /\ At' /\ call'.op = "descend" /\ call'.ino = call.ino
        /\ fsys_type' = fsys_type /\ volume' = volume
    BY <1>1, <1>8, <2>1, <2>2, ReiserMoves
  <2>4. ~volume.excused => SlotsTrue'
    <3>1. ASSUME NEW x \in DOMAIN cache.blocks, x < CachedSlots
          PROVE  r[x] = cache.slot[x]
      BY <1>1, <1>3, <3>1 DEF ReiserForm, MaxHeight
    <3>2. \A x : Translated(x)' = Translated(x)
      BY <2>3 DEF Translated
    <3> QED BY <1>1, <1>5, <1>8, <3>1, <3>2 DEF SlotsTrue
  <2>5. Node(call.ino)' = Node(call.ino)
    BY <2>3 DEF Node, Nodes
  <2> QED BY <1>1, <1>5, <1>8, <2>3, <2>4, <2>5 DEF ReiserGoesOn, ReiserInv
<1> QED BY <1>6, <1>7, <1>8 DEF Reread, read, b

LEMMA TurnDownKeeps ==
  ASSUME Inv, fsys_type = "reiserfs", call.op \in {"next", "descend"}, NEW d \in Nat, d > 1, TurnDown(d)
  PROVE  ReiserGoesOn
  BY DescendKeeps DEF TurnDown

LEMMA MinOf ==
  ASSUME NEW S \in SUBSET Nat, S # {}
  PROVE  Min(S) \in S
  BY LeastOf DEF Min

LEMMA NextKeyKeeps ==
  ASSUME Inv, fsys_type = "reiserfs", NextKey
  PROVE  ReiserGoesOn
<1> DEFINE turning == {d \in 2..Height : cache.next_key_nr[d] # 0}
<1>1. call.op = "next" /\ Height \in 1 .. 6
  BY ReiserHas DEF NextKey
<1>2. turning \in SUBSET Nat /\ \A d \in turning : d > 1
  BY <1>1
<1>3. turning # {} => Min(turning) \in Nat /\ Min(turning) > 1
  <2> HIDE DEF turning
  <2> QED BY <1>2, MinOf
<1>4. \/ \E at : ToItem(at)
      \/ turning # {} /\ (Reread(Min(turning)) \/ TurnDown(Min(turning)))
  BY DEF NextKey
<1> HIDE DEF turning
<1> QED BY <1>1, <1>3, <1>4, ToItemKeeps, RereadKeeps, TurnDownKeeps

LEMMA DescendOnKeeps ==
  ASSUME Inv, fsys_type = "reiserfs", DescendOn
  PROVE  ReiserGoesOn
<1>1. call.op = "descend" /\ cache.depth \in Nat
  BY ReiserHas DEF DescendOn, ReiserForm
<1> QED BY <1>1, ToItemKeeps, TurnDownKeeps DEF DescendOn


---------------------------------------------------------------------------
(* reiserfs: the items. *)

\* The item that is current is one of a node, or none.
LEMMA ItemHas ==
  ASSUME Inv, fsys_type = "reiserfs", call.op # "idle"
  PROVE  \/ Item = NoItem
         \/ /\ Item.off \in Nat /\ Item.len \in Nat
            /\ Item.ino \in DOMAIN Nodes /\ Node(Item.ino).type = "dir" =>
                 Item.list \in Seq(1 .. Node(Item.ino).size)
<1>1. TreeTyped(volume)
  BY ReiserHas
<1>2. PICK n : NodeAt(1) = NodeIn(volume.tree, n)
  BY DEF NodeAt, Block, Tree
<1>3. CASE cache.cur \notin DOMAIN Items
  BY <1>3 DEF Item
<1>4. CASE cache.cur \in DOMAIN Items
  <2>1. Items = NodeIn(volume.tree, n).items /\ Item = Items[cache.cur]
    BY <1>2, <1>4 DEF Items, Item
  <2>2. n \in DOMAIN volume.tree
    BY <1>4, <2>1 DEF NodeIn, NoNode
  <2>3. Items = volume.tree[n].items
    BY <2>1, <2>2, SMTT(40) DEF NodeIn
  <2>4. LET item == Items[cache.cur]
        IN  /\ item.off \in Nat /\ item.len \in Nat
            /\ item.ino \in DOMAIN volume.nodes /\ volume.nodes[item.ino].type = "dir" =>
                 item.list \in Seq(1..volume.nodes[item.ino].size)
    BY <1>1, <1>4, <2>2, <2>3 DEF TreeTyped
  <2> QED BY <2>1, <2>4 DEF Node, Nodes
<1> QED BY <1>3, <1>4

\* A name that matches leads to a node.
LEMMA MatchLeads ==
  ASSUME Inv, fsys_type = "reiserfs", call.op = "item", cache.goal = "entries", Item.ino = call.ino,
         NEW match \in SUBSET (DOMAIN Item.list), match # {},
         \A i \in match : Node(call.ino).inos[Item.list[i]] # 0
  PROVE  Node(call.ino).inos[Item.list[Min(match)]] \in DOMAIN Nodes
<1>1. /\ Call /\ call.ino \in DOMAIN Nodes /\ Node(call.ino).type = "dir"
  BY ReiserHas DEF ReiserInv
<1>2. NodesTyped(volume)
  BY <1>1, Running
<1>3. PICK l \in Nat \ {0} : DOMAIN volume.nodes = 1..l /\ l = Len(volume.nodes)
  BY <1>2 DEF NodesTyped
<1>4. Item # NoItem
  BY <1>1, <1>3 DEF NoItem, Nodes
<1>5. Item.list \in Seq(1 .. Node(call.ino).size)
  BY <1>1, <1>4, ItemHas
<1>6. match \in SUBSET Nat /\ \A i \in DOMAIN Item.list : Item.list[i] \in 1 .. Node(call.ino).size
  <2> DEFINE T == 1 .. Node(call.ino).size
  <2>1. Item.list \in Seq(T)
    BY <1>5
  <2> HIDE DEF T
  <2>2. DOMAIN Item.list = 1 .. Len(Item.list) /\ \A i \in DOMAIN Item.list : Item.list[i] \in T
    BY <2>1
  <2> QED BY <2>2 DEF T
<1>7. Min(match) \in match
  BY <1>6, MinOf
<1>8. PICK i : i = Item.list[Min(match)] /\ i \in 1 .. Node(call.ino).size /\ Node(call.ino).inos[i] # 0
  BY <1>6, <1>7
<1>9. Node(call.ino).inos[i] \in 0 .. l
  BY <1>1, <1>2, <1>3, <1>8 DEF NodesTyped, Node, Nodes
<1> QED BY <1>3, <1>8, <1>9 DEF Nodes

\* What leaves the cache as it is, and has no search run, keeps what is known.
LEMMA ReiserStays ==
  ASSUME Inv, fsys_type = "reiserfs", call.op # "idle", call.op # "failed", Call', At',
         UNCHANGED <<volume, fsys_type, cache>>,
         \/ call'.op \in {"inode", "opened", "read", "failed"}
         \/ call'.op \in {"items", "done"} /\ cache.goal = "read"
         \/ /\ call'.op = "next" /\ cache.goal # "stat"
            /\ cache.goal = "entries" => Node(call'.ino).type = "dir"
  PROVE  ReiserGoesOn
<1>1. ReiserForm /\ (~volume.excused => SlotsTrue)
  BY ReiserHas
<1>2. ReiserForm' /\ (~volume.excused => SlotsTrue')
  BY <1>1, SameSlots DEF ReiserForm
<1>3. \A n : Node(n)' = volume.nodes[n] /\ Node(n) = volume.nodes[n]
  BY DEF Node, Nodes
<1> QED BY <1>2, <1>3 DEF ReiserGoesOn, ReiserInv

LEMMA ReiserItemKeeps ==
  ASSUME Inv, fsys_type = "reiserfs", ReiserItem
  PROVE  ReiserGoesOn
<1> DEFINE match == {i \in DOMAIN Item.list : Node(call.ino).inos[Item.list[i]] # 0 /\
                       Node(call.ino).names[Item.list[i]] = Head(call.path)}
           entry == Node(call.ino).inos[Item.list[Min(match)]]
<1>1. /\ call.op = "item" /\ Call /\ At /\ ReiserInv /\ cache' = cache /\ call.left = 0
      /\ call.ino \in DOMAIN Nodes
  BY ReiserHas, ZenonT(40) DEF ReiserItem, At, Looking
<1>2. CASE DirFinds(call.ino)
  BY <1>1, <1>2, DirFindsKeeps, ReiserStays
<1>3. CASE ChaseLink
  BY <1>1, <1>3, ChaseLinkKeeps, ReiserStays
<1>4. ASSUME NEW e, DirFails(e, TRUE)
      PROVE  ReiserGoesOn
  BY <1>1, <1>4, DirFailsKeeps, ReiserStays, ZenonT(40)
<1>5. ASSUME cache.goal = "entries", Item.ino = call.ino, Keeps,
             call' = IF match = {} THEN [call EXCEPT !.op = "next"]
                     ELSE [call EXCEPT !.op = "inode", !.ino = entry,
                                       !.updir = call.ino, !.path = Tail(@)]
      PROVE  ReiserGoesOn
  <2>1. CASE match = {}
    <3>1. call' = [call EXCEPT !.op = "next", !.lost = call.lost] /\ call.lost \in BOOLEAN
      BY <1>1, <1>5, <2>1, ZenonT(40) DEF Call, CallTyped
    <3>2. cache'.goal # "read" => Looking
      BY <1>1, SMTT(40) DEF Looking
    <3>3. Call' /\ At' /\ call'.op = "next" /\ call'.ino = call.ino
          /\ fsys_type' = fsys_type /\ volume' = volume
      BY <1>1, <1>5, <3>1, <3>2, ReiserMoves, ZenonT(40)
    <3> QED BY <1>1, <1>5, <3>3, ReiserStays, ZenonT(40) DEF ReiserInv
  <2>2. CASE match # {}
    <3>1. entry \in DOMAIN Nodes
      <4>1. /\ match \in SUBSET (DOMAIN Item.list)
            /\ \A i \in match : Node(call.ino).inos[Item.list[i]] # 0
        OBVIOUS
      <4> HIDE DEF match
      <4> QED BY <1>1, <1>5, <2>2, <4>1, MatchLeads
    <3>2. PICK ino, path : ino = entry /\ path = Tail(call.path)
      OBVIOUS
    <3>3. call' = [call EXCEPT !.op = "inode", !.ino = ino, !.updir = call.ino, !.path = path]
      <4> HIDE DEF match, entry
      <4> QED BY <1>5, <2>2, <3>2
    <3> HIDE DEF match, entry
    <3>4. CallTyped' /\ call'.op = "inode" /\ call'.left = 0 /\ call'.ino = ino
          /\ call'.name = call.name /\ call'.updir = call.ino
      BY <1>1, <3>3 DEF Call, CallTyped
    <3>5. Call'
      BY <1>1, <1>5, <3>1, <3>2, <3>4, CallStays, Always DEF Keeps
    <3>6. At'
      BY <1>1, <1>5, <3>4 DEF At, Looking, Keeps
    <3> QED BY <1>1, <1>5, <3>4, <3>5, <3>6, ReiserStays DEF Keeps
  <2> HIDE DEF match
  <2> QED BY <2>1, <2>2, SMTT(40)
<1>6. cache.goal \in {"link", "file", "entries"}
  BY <1>1 DEF ReiserInv, ReiserForm
<1> QED BY <1>1, <1>2, <1>3, <1>4, <1>5, <1>6, ZenonT(40) DEF ReiserItem

LEMMA ReiserBeginKeeps ==
  ASSUME Inv, fsys_type = "reiserfs", ReiserBegin
  PROVE  ReiserGoesOn
<1>1. /\ call.op = "reading" /\ Call /\ At /\ ReiserForm /\ (~volume.excused => SlotsTrue)
  BY ReiserHas DEF ReiserBegin
<1>2. CASE SearchStat(cache.file, "read")
  BY <1>1, <1>2, SearchStatKeeps
<1>3. CASE /\ cache' = [cache EXCEPT !.goal = "read"] /\ call' = [call EXCEPT !.op = "items"] /\ Keeps
  <2>1. call' = [call EXCEPT !.op = "items", !.lost = call.lost] /\ call.lost \in BOOLEAN
    BY <1>1, <1>3 DEF Call, CallTyped
  <2>2. Call' /\ At' /\ call'.op = "items" /\ fsys_type' = fsys_type /\ volume' = volume
    BY <1>1, <1>3, <2>1, ReiserMoves
  <2>3. ReiserForm' /\ cache'.goal = "read" /\ cache'.slot = cache.slot /\ cache'.blocks = cache.blocks
    BY <1>1, <1>3 DEF ReiserForm
  <2>4. ~volume.excused => SlotsTrue'
    BY <1>1, <2>2, <2>3, SameSlots
  <2> QED BY <2>2, <2>3, <2>4 DEF ReiserGoesOn, ReiserInv
<1> QED BY <1>2, <1>3 DEF ReiserBegin

LEMMA ReiserDoneKeeps ==
  ASSUME Inv, fsys_type = "reiserfs", ReiserDone
  PROVE  ReiserGoesOn
<1>1. Call /\ At /\ call.op \in {"items", "done"} /\ ReadReturns
  BY DEF Inv, ReiserDone
<1> QED BY <1>1, ReadReturnsKeeps, ReiserStays

LEMMA ReiserReadKeeps ==
  ASSUME Inv, fsys_type = "reiserfs", ReiserRead
  PROVE  ReiserGoesOn
<1> DEFINE offset == filepos - Item.off + 1
           n      == Lesser(IF Item.kind = "direct" THEN Item.len - offset
                            ELSE BlockBytes - (offset % BlockBytes), call.left)
           op     == IF call.left = n THEN "done" ELSE "items"
<1>1. /\ call.op = "items" /\ Call /\ At /\ ReiserInv /\ cache.goal = "read" /\ cache' = cache
      /\ call.left \in Nat /\ filepos \in Nat /\ filemax \in Nat /\ filepos + call.left <= filemax
  BY ReiserHas DEF ReiserRead, ReiserInv
<1>2. CASE call' = [call EXCEPT !.op = "next"] /\ Keeps
  <2>1. call' = [call EXCEPT !.op = "next", !.lost = call.lost] /\ call.lost \in BOOLEAN
    BY <1>1, <1>2 DEF Call, CallTyped
  <2>2. Call' /\ At' /\ call'.op = "next" /\ fsys_type' = fsys_type /\ volume' = volume
    BY <1>1, <1>2, <2>1, ReiserMoves
  <2> QED BY <1>1, <2>2, ReiserStays
<1>3. ASSUME Item.kind \in {"direct", "indirect"}, offset \in 0..Item.len - 1,
             IF Item.kind = "indirect"
             THEN AdvanceTo(op, Item.list[offset \div BlockBytes + 1], offset % BlockBytes, n)
             ELSE /\ call' = [call EXCEPT !.op = op, !.left = @ - n,
                                !.buf = @ \o [i \in 1..n |-> Item.list[offset + i]]]
                  /\ filepos' = filepos + n
                  /\ UNCHANGED <<fsys_type, volume, filemax, errnum>>
      PROVE  ReiserGoesOn
  <2>1. Item.off \in Nat /\ Item.len \in Nat
    BY <1>1, <1>3, ItemHas DEF NoItem
  <2>2. offset \in Nat /\ offset < Item.len
    BY <1>3, <2>1
  <2>3. n \in 0 .. call.left
    <3> HIDE DEF offset
    <3>1. BlockBytes - (offset % BlockBytes) \in Nat
      BY <2>2, BlockBytesAssumption, DivMod
    <3>2. Item.len - offset \in Nat
      BY <2>1, <2>2
    <3> QED BY <1>1, <3>1, <3>2 DEF Lesser
  <2>4. op \in {"items", "done"} /\ {"items", "done"} \subseteq OpsOf(fsys_type)
    BY DEF OpsOf
  <2> HIDE DEF n, op, offset
  <2>5. CASE Item.kind = "indirect"
    <3>1. AdvanceTo(op, Item.list[offset \div BlockBytes + 1], offset % BlockBytes, n)
      BY <1>3, <2>5
    <3>2. /\ Call' /\ At' /\ UNCHANGED <<volume, fsys_type, filemax>> /\ call'.op = op
      BY <1>1, <2>3, <2>4, <3>1, AdvanceKeeps
    <3> QED BY <1>1, <2>4, <3>2, ReiserStays
  <2>6. CASE Item.kind # "indirect"
    <3>1. PICK buf : buf = call.buf \o [i \in 1..n |-> Item.list[offset + i]]
      OBVIOUS
    <3>2. call.left - n \in Nat /\ call.lost \in BOOLEAN
      BY <1>1, <2>3 DEF Call, CallTyped
    <3>3. call' = [call EXCEPT !.op = op, !.buf = buf, !.left = call.left - n, !.lost = call.lost]
      BY <1>1, <1>3, <2>6, <3>1 DEF Call, CallTyped
    <3>4. UNCHANGED <<volume, fsys_type, filemax>> /\ filepos' = filepos + n
      BY <1>3, <2>6
    <3>5. Call' /\ call'.op = op /\ call'.left = call.left - n
      BY <1>1, <2>4, <3>2, <3>3, <3>4, CallGoesOn, ZenonT(40)
    <3>6. At'
      BY <1>1, <2>3, <2>4, <3>4, <3>5 DEF At, Looking
    <3> QED BY <1>1, <2>4, <3>4, <3>5, <3>6, ReiserStays
  <2> QED BY <2>5, <2>6
<1> HIDE DEF n, op, offset
<1> QED BY <1>1, <1>2, <1>3 DEF ReiserRead, n, op, offset

LEMMA ReiserKeeps ==
  ASSUME Inv, fsys_type = "reiserfs", ReiserTurn
  PROVE  ReiserGoesOn
<1>1. CASE ReiserInode
  BY <1>1, SearchStatKeeps DEF ReiserInode
<1> QED BY <1>1, TreeStepKeeps, LeafStepKeeps, NextKeyKeeps, DescendOnKeeps, ReiserItemKeeps,
           ReiserBeginKeeps, ReiserDoneKeeps, ReiserReadKeeps DEF ReiserTurn

---------------------------------------------------------------------------
(* Every step keeps the invariant. *)

LEMMA TurnKeeps ==
  ASSUME Inv, Turn
  PROVE  Inv'
<1>1. CASE fsys_type = "fat" /\ FatTurn
  BY <1>1, FatKeeps DEF Inv
<1>2. CASE fsys_type \in {"ext2", "minix"} /\ MappedTurn
  BY <1>2, MappedKeeps DEF Inv, MapsGoOn
<1>3. CASE fsys_type = "iso9660" /\ IsoTurn
  BY <1>3, IsoKeeps DEF Inv, IsoGoesOn
<1>4. CASE fsys_type = "list" /\ ListTurn
  BY <1>4, ListKeeps DEF Inv, ListGoesOn
<1>5. CASE fsys_type \in {"jfs", "xfs"} /\ ExtentTurn
  BY <1>5, ExtentsKeep DEF Inv, ExtentsGoOn
<1>6. CASE fsys_type = "ntfs" /\ NtfsTurn
  BY <1>6, NtfsKeeps DEF Inv, NtfsGoesOn
<1>7. CASE fsys_type = "pxe" /\ PxeTurn
  BY <1>7, PxeKeeps DEF Inv, PxeGoesOn
<1>8. CASE fsys_type = "reiserfs" /\ ReiserTurn
  BY <1>8, ReiserKeeps DEF Inv, ReiserGoesOn
<1> QED BY <1>1, <1>2, <1>3, <1>4, <1>5, <1>6, <1>7, <1>8, ReadDoneKeeps DEF Turn

LEMMA NothingKeeps ==
  ASSUME Inv, UNCHANGED ioVars
  PROVE  Inv'
<1>1. Call' /\ At'
  BY DEF ioVars, Inv, Call, CallTyped, AtNode, At, Looking, Node, Nodes
<1>2. fsys_type = "fat" => FatInv'
  BY DEF ioVars, Inv, FatInv, FatForm, CursorTrue, FileOpen, Node, Nodes, Runs
<1>3. fsys_type \in {"ext2", "minix"} => MapsInv'
  BY DEF ioVars, Inv, MapsInv, TablesTrue, FileOpen, Top, Node, Nodes
<1>4. fsys_type = "list" => ListInv'
  BY DEF ioVars, Inv, ListInv, CursorTrue, FileOpen, Runs, Node, Nodes
<1>5. fsys_type \in {"jfs", "xfs"} => ExtentsInv'
  BY DEF ioVars, Inv, ExtentsInv, Nodes
<1>6. fsys_type = "ntfs" => NtfsInv'
  BY DEF ioVars, Inv, NtfsInv, FileOpen, BufferTrue, NtfsRun, Runs, Node, Nodes
<1>7. fsys_type = "pxe" => PxeInv'
  <2> SUFFICES ASSUME fsys_type = "pxe" PROVE PxeInv'
    BY DEF Inv, ioVars
  <2>1. /\ call' = call /\ cache' = cache /\ filepos' = filepos /\ filemax' = filemax
        /\ volume' = volume /\ fsys_type' = fsys_type
    BY DEF ioVars
  <2>2. Node(call.ino)' = Node(call.ino)
    BY <2>1 DEF Node, Nodes
  <2>3. BufStart' = BufStart
    BY <2>1 DEF BufStart
  <2>4. There' = There
    BY <2>1, <2>3 DEF There
  <2>5. Coming' = Coming
    <3>1. /\ cache'.server = cache.server /\ cache'.nb = cache.nb
          /\ cache'.cur_ofs = cache.cur_ofs
      BY <2>1
    <3>2. Blk' = Blk
      BY <2>1 DEF Blk
    <3> QED BY <3>1, <3>2 DEF Coming
  <2>6. PxeBytes' = PxeBytes
    BY <2>1, <2>2 DEF PxeBytes
  <2>7. (PxeForm' <=> PxeForm) /\ (FileOpen' <=> FileOpen) /\ (PxeOpen' <=> PxeOpen)
    BY <2>1 DEF PxeForm, PxeOpen, FileOpen
  <2> DEFINE filled == \A i \in 0..cache.read_ofs - 1 :
                         cache.data[i] = ByteOf(Node(call.ino), BufStart + i)
  <2>8. filled' <=> filled
    BY <2>1, <2>2, <2>3
  <2>9. PxeInv
    BY DEF Inv
  <2>10. /\ PxeForm'
         /\ PxeOpen' => /\ cache'.read_ofs <= cache'.server /\ cache'.server <= filemax' /\ filled'
         /\ FileOpen' => cache'.saved_pos = There'
         /\ FileOpen' \/ call'.op = "pxe" => cache'.cur_ofs <= cache'.read_ofs
         /\ call'.op = "reading" => call'.buf = <<>>
    <3> HIDE DEF filled
    <3>1. PxeOpen => filled
      BY <2>9 DEF PxeInv, filled
    <3> QED BY <2>1, <2>4, <2>7, <2>8, <2>9, <3>1 DEF PxeInv
  <2>11. /\ call'.op \in {"pxe", "packets"} =>
              IF cache'.skip THEN call'.buf = <<>> ELSE call'.buf \in PxeBytes'
         /\ call'.op = "pxe" =>
              IF cache'.skip THEN There' + cache'.len = filepos'
              ELSE There' = filepos' + Len(call'.buf) /\ There' + cache'.len = filepos' + call'.left
         /\ call'.op = "packets" =>
              /\ cache'.cur_ofs < Blk'
              /\ cache'.nb > 0 => cache'.read_ofs + Blk' <= PxeBufLen
              /\ IF cache'.skip THEN Coming' = filepos'
                 ELSE cache'.server = filepos' + Len(call'.buf) /\ Coming' = filepos' + call'.left
    BY <2>1, <2>4, <2>5, <2>6, <2>9 DEF PxeInv, Blk
  <2> QED BY <2>10, <2>11 DEF PxeInv
<1>8. fsys_type = "reiserfs" => ReiserInv'
  BY DEF ioVars, Inv, ReiserInv, ReiserForm, SlotsTrue, Translated, NodeAt, Block, Tree, Height,
         Slot, Node, Nodes
<1>9. fsys_type = "iso9660" => IsoInv'
  BY DEF ioVars, Inv, IsoInv
<1> QED BY <1>1, <1>2, <1>3, <1>4, <1>5, <1>6, <1>7, <1>8, <1>9 DEF Inv, ioVars

LEMMA StepKeeps ==
  ASSUME Inv, [Next]_ioVars
  PROVE  Inv'
<1>1. CASE Close
  BY <1>1, CloseKeeps, PxeCloseKeeps
<1>2. CASE UNCHANGED ioVars
  BY <1>2, NothingKeeps
<1> QED BY <1>1, <1>2, MountKeeps, MountFailsKeeps, OpenKeeps, SeekKeeps, ReadKeeps, TurnKeeps
    DEF Next

LEMMA InitInv ==
  ASSUME Init
  PROVE  Inv
  BY UnmountedInv DEF Init

---------------------------------------------------------------------------
(* The bytes that a read brings. *)

\* Bytes of a node, from a position on.
Stretch(node, from, n) == [i \in 1..n |-> ByteOf(node, from + i - 1)]
FilePiece(from, n) == Stretch(Node(call.ino), from, n)

\* A call of which something is promised, and the middle of a read.
Sure == ~call.lost /\ ~volume.excused
InRead == \/ call.op \in {"reading", "chain", "list", "extents", "blocks", "items", "done"}
          \/ fsys_type = "reiserfs" /\ call.op \in {"tree", "next", "descend"} /\ cache.goal = "read"

\* n bytes from where the read began are there, and, unless the file is read
\* item by item, the rest of what was promised is left.
Got(n) ==
  /\ n \in 0..filepos /\ call.buf = FilePiece(filepos - n, n)
  /\ fsys_type # "reiserfs" => n + call.left = Lesser(call.want, filemax - (filepos - n))
Brings == \E n \in Nat : Got(n)

\* ext2, minix, iso9660, jfs and xfs: the file that is open.
FilesOpen == fsys_type \in {"ext2", "minix", "iso9660", "jfs", "xfs"} /\
             (FileOpen \/ call.op = "extents") =>
  Node(call.ino).type = "file" /\ filemax = Node(call.ino).size
IsoAt == fsys_type = "iso9660" /\ FileOpen =>
  cache.file_start = IF Node(call.ino).size = 0 THEN 0 ELSE Node(call.ino).blocks[1]

\* A block list: the place in it is not behind the one to be read.
ListAt == fsys_type = "list" /\ call.op = "list" =>
  cache.filepos \div BlockBytes <= filepos \div BlockBytes

\* jfs, xfs: the extent looked at is the i-th of the file, and does not begin
\* behind the place.
OnPage(ino, p) == IF PageCount(ino) = 0 THEN p = 0 ELSE p \in 1..PageCount(ino)
Before(p) == IF p = 0 THEN 0 ELSE (p - 1) * ExtentsPerPage
LooksAt(c, i) ==
  /\ c.ino = call.ino /\ i \in DOMAIN Runs(call.ino) /\ i = Before(c.page) + c.xad
  /\ OnPage(call.ino, c.page) /\ c.xad \in 1..Len(PageRuns(call.ino, c.page))
  /\ fsys_type = "jfs" => c.xindex = c.xad
ExtentsAt == fsys_type \in {"jfs", "xfs"} /\ call.op = "extents" /\ call.left > 0 /\ ~volume.excused =>
  \E i \in Nat : LooksAt(cache, i) /\ Runs(call.ino)[i].off * BlockBytes <= filepos

ReiserAt == fsys_type = "reiserfs" /\ call.op \notin {"idle", "failed", "inode"} => cache.file = call.ino

\* pxe: the bytes wanted begin at the position.
PxeAt == fsys_type = "pxe" /\ call.op \in {"pxe", "packets"} /\ Sure =>
  /\ call.left = Lesser(call.want, filemax - filepos)
  /\ ~cache.skip => call.buf = FilePiece(filepos, Len(call.buf))

Reads == /\ call.op = "read" => call.left = 0
         /\ (InRead \/ call.op = "read") /\ Sure /\ ~Astray => Brings
ReadInv == Reads /\ FilesOpen /\ IsoAt /\ ListAt /\ ExtentsAt /\ ReiserAt /\ PxeAt
---------------------------------------------------------------------------
(* Bytes of a node. *)

LEMMA Joining ==
  ASSUME NEW node, NEW from \in Nat, NEW n \in Nat, NEW k \in Nat
  PROVE  Stretch(node, from, n) \o Stretch(node, from + n, k) = Stretch(node, from, n + k)
<1>1. PICK S : S = {ByteOf(node, p) : p \in Nat}
  OBVIOUS
<1>2. ASSUME NEW at \in Nat, NEW m \in Nat
      PROVE  Stretch(node, at, m) \in Seq(S) /\ Len(Stretch(node, at, m)) = m
  <2>1. \A i \in 1..m : ByteOf(node, at + i - 1) \in S
    <3> SUFFICES ASSUME NEW i \in 1..m PROVE ByteOf(node, at + i - 1) \in S
      OBVIOUS
    <3>1. PICK p \in Nat : p = at + i - 1
      <4>1. at + i - 1 \in Nat
        OBVIOUS
      <4> QED BY <4>1
    <3> QED BY <1>1, <3>1
  <2> QED BY <2>1 DEF Stretch
<1>3. PICK s, t, u : s = Stretch(node, from, n) /\ t = Stretch(node, from + n, k)
                     /\ u = Stretch(node, from, n + k)
  OBVIOUS
<1>4. s \in Seq(S) /\ t \in Seq(S) /\ u \in Seq(S) /\ Len(s) = n /\ Len(t) = k /\ Len(u) = n + k
  BY <1>2, <1>3
<1>5. ASSUME NEW i \in 1..n + k
      PROVE  (s \o t)[i] = u[i]
  <2>1. u[i] = ByteOf(node, from + i - 1)
    BY <1>3 DEF Stretch
  <2>2. CASE i <= n
    <3>1. s[i] = ByteOf(node, from + i - 1)
      BY <1>3, <2>2 DEF Stretch
    <3> QED BY <1>4, <2>1, <2>2, <3>1
  <2>3. CASE i > n
    <3>1. PICK j \in 1..k : j = i - n
      BY <2>3
    <3>2. t[j] = ByteOf(node, from + n + j - 1)
      BY <1>3 DEF Stretch
    <3>3. from + n + j - 1 = from + i - 1
      BY <3>1
    <3>4. (s \o t)[i] = t[j]
      <4>1. (s \o t)[i] = t[i - Len(s)]
        BY <1>4, <2>3
      <4> QED BY <1>4, <3>1, <4>1
    <3> QED BY <2>1, <3>2, <3>3, <3>4
  <2>4. i <= n \/ i > n
    OBVIOUS
  <2> QED BY <2>2, <2>3, <2>4
<1>6. s \o t \in Seq(S) /\ Len(s \o t) = n + k
  BY <1>4
<1>7. s \o t = u
  <2>1. PICK w : w = s \o t
    OBVIOUS
  <2>2. DOMAIN w = 1..n + k /\ DOMAIN u = 1..n + k /\ w \in Seq(S)
    BY <1>4, <1>6, <2>1
  <2>3. w = [i \in 1..n + k |-> w[i]] /\ u = [i \in 1..n + k |-> u[i]]
    BY <1>4, <2>2
  <2>4. \A i \in 1..n + k : w[i] = u[i]
    BY <1>5, <2>1
  <2> QED BY <2>1, <2>3, <2>4
<1> QED BY <1>3, <1>7

Then(s, t) == s \o t
LEMMA Extended ==
  ASSUME NEW node, NEW from \in Nat, NEW n \in Nat, NEW k \in Nat
  PROVE  Then(Stretch(node, from, n), Stretch(node, from + n, k)) = Stretch(node, from, n + k)
BY Joining, Zenon DEF Then

LEMMA Nothing ==
  ASSUME NEW node, NEW from
  PROVE  Stretch(node, from, 0) = <<>>
BY DEF Stretch

LEMMA StretchLen ==
  ASSUME NEW node, NEW from, NEW n \in Nat
  PROVE  Len(Stretch(node, from, n)) = n
<1>1. PICK S : S = {ByteOf(node, from + i - 1) : i \in 1..n}
  OBVIOUS
<1>2. \A i \in 1..n : ByteOf(node, from + i - 1) \in S
  BY <1>1
<1> QED BY <1>2 DEF Stretch

\* A number by the size of a block.
LEMMA Quotient ==
  ASSUME NEW p \in Nat
  PROVE  \E q \in Nat, r \in 0 .. BlockBytes - 1 :
           q = p \div BlockBytes /\ r = p % BlockBytes /\ p = q * BlockBytes + r
<1>1. PICK q \in Nat, r \in 0 .. BlockBytes - 1 : q = p \div BlockBytes /\ r = p % BlockBytes
  BY DivMod, BlockBytesAssumption
<1>2. p = q * BlockBytes + r
  BY <1>1, DivMod, BlockBytesAssumption
<1> QED BY <1>1, <1>2

\* The blocks of a node from one on, as far as they have the n bytes at an
\* offset, follow each other on the disk.
InLine(node, base, b, offset, n) == \A j \in Nat : j * BlockBytes < offset + n =>
  node.blocks[base + j + 1] = b + j /\ b + j # Hole

\* What a devread brings of them.
LEMMA DiskStretch ==
  ASSUME NEW node, NEW b \in Nat, NEW base \in Nat, NEW offset \in Nat, NEW n \in Nat,
         InLine(node, base, b, offset, n), NEW from, from = base * BlockBytes + offset
  PROVE  DiskBytes(b, offset, n) = Stretch(node, from, n)
<1> SUFFICES ASSUME NEW i \in 1..n
             PROVE  ByteOf(node, from + i - 1) =
                      <<b + (offset + i - 1) \div BlockBytes, (offset + i - 1) % BlockBytes>>
  BY DEF DiskBytes, Stretch
<1>1. PICK p \in Nat : p = offset + i - 1 /\ p < offset + n
  <2>1. offset + i - 1 \in Nat /\ offset + i - 1 < offset + n
    OBVIOUS
  <2> QED BY <2>1
<1>2. PICK j \in Nat : j = p \div BlockBytes /\ j * BlockBytes <= p
  <2>1. PICK j \in Nat, r \in 0 .. BlockBytes - 1 :
          j = p \div BlockBytes /\ r = p % BlockBytes /\ p = j * BlockBytes + r
    BY Quotient
  <2>2. j * BlockBytes \in Nat
    BY BlockBytesAssumption
  <2> QED BY <2>1, <2>2
<1>3. node.blocks[base + j + 1] = b + j /\ b + j # Hole
  <2>1. j * BlockBytes \in Nat
    BY BlockBytesAssumption
  <2> QED BY <1>1, <1>2, <2>1 DEF InLine
<1>4. (p + base * BlockBytes) \div BlockBytes = j + base /\ (p + base * BlockBytes) % BlockBytes = p % BlockBytes
  BY <1>2, DivAdd, BlockBytesAssumption
<1>5. from + i - 1 = p + base * BlockBytes
  <2>1. base * BlockBytes \in Nat
    BY BlockBytesAssumption
  <2> QED BY <1>1, <2>1
<1>6. j + base + 1 = base + j + 1
  OBVIOUS
<1> QED BY <1>1, <1>2, <1>3, <1>4, <1>5, <1>6 DEF ByteOf
---------------------------------------------------------------------------
(* What the operations that the formats share do to a read. *)

LEMMA GotMore ==
  ASSUME At, call.left \in Nat, NEW n \in Nat, Got(n), NEW k \in 0..call.left,
         call'.buf = Then(call.buf, FilePiece(filepos, k)), call'.left = call.left - k,
         call'.want = call.want, call'.ino = call.ino, filepos' = filepos + k,
         UNCHANGED <<volume, fsys_type, filemax>>
  PROVE  Brings'
<1>1. PICK from \in Nat : from = filepos - n /\ filepos = from + n /\ filepos \in Nat
  <2>1. filepos - n \in Nat /\ filepos \in Nat
    BY DEF Got, At
  <2> QED BY <2>1
<1>2. PICK node : node = Node(call.ino) /\ node = Node(call.ino)'
  BY DEF Node, Nodes
<1>3. call'.buf = Stretch(node, from, n + k)
  <2>1. call.buf = Stretch(node, from, n)
    BY <1>1, <1>2 DEF Got, FilePiece
  <2>2. FilePiece(filepos, k) = Stretch(node, from + n, k)
    BY <1>1, <1>2 DEF FilePiece
  <2>3. k \in Nat
    OBVIOUS
  <2>4. Then(Stretch(node, from, n), Stretch(node, from + n, k)) = Stretch(node, from, n + k)
    BY <2>3, Extended
  <2> QED BY <2>1, <2>2, <2>4
<1>4. n + k \in Nat /\ n + k \in 0..filepos' /\ filepos' - (n + k) = from
  BY <1>1
<1>5. fsys_type # "reiserfs" => n + k + call'.left = Lesser(call'.want, filemax' - (filepos' - (n + k)))
  <2>1. n + k + (call.left - k) = n + call.left
    OBVIOUS
  <2> QED BY <1>1, <1>4, <2>1 DEF Got
<1>6. FilePiece(from, n + k)' = Stretch(node, from, n + k)
  BY <1>2 DEF FilePiece
<1>7. Got(n + k)'
  BY <1>3, <1>4, <1>5, <1>6 DEF Got
<1> QED BY <1>4, <1>7 DEF Brings

LEMMA SameGot ==
  ASSUME UNCHANGED <<volume, fsys_type, filepos, filemax>>, Brings,
         call'.buf = call.buf, call'.left = call.left, call'.want = call.want, call'.ino = call.ino
  PROVE  Brings'
BY DEF Brings, Got, FilePiece, Node, Nodes

\* A read goes on with k bytes more.
LEMMA GoesReads ==
  ASSUME At, call.left \in Nat, Reads, InRead, NEW k \in 0..call.left, NEW bytes,
         call'.op # "read", call'.buf = Then(call.buf, bytes), call'.left = call.left - k,
         call'.want = call.want, call'.ino = call.ino, filepos' = filepos + k,
         UNCHANGED <<volume, fsys_type, filemax>>,
         fsys_type = "fat" => (cache.astray => cache'.astray),
         call'.lost \/ (~call.lost /\ (~volume.excused /\ ~Astray => bytes = FilePiece(filepos, k)))
  PROVE  Reads'
<1> SUFFICES ASSUME Sure', ~Astray' PROVE Brings'
  BY DEF Reads
<1>1. Sure /\ ~Astray /\ bytes = FilePiece(filepos, k)
  BY DEF Sure, Astray
<1>2. PICK n \in Nat : Got(n)
  BY <1>1 DEF Reads, Brings
<1> QED BY <1>1, <1>2, GotMore

\* A read goes on with what it has.
LEMMA StillReads ==
  ASSUME Reads, InRead, UNCHANGED <<volume, fsys_type, filepos, filemax>>, call'.op # "read",
         call'.buf = call.buf, call'.left = call.left, call'.want = call.want, call'.ino = call.ino,
         call'.lost \/ ~call.lost, fsys_type = "fat" => (cache.astray => cache'.astray)
  PROVE  Reads'
BY SameGot DEF Reads, Sure, Astray

\* No file is read.
LEMMA NoRead ==
  ASSUME call'.op \in {"idle", "failed", "inode", "opened", "search", "entry", "item"}
  PROVE  Reads'
BY DEF Reads, InRead

LEMMA AdvanceReads ==
  ASSUME Call, At, Reads, InRead, NEW op, op # "read", NEW b, NEW offset, NEW n \in 0..call.left,
         AdvanceTo(op, b, offset, n),
         fsys_type = "fat" => (cache.astray => cache'.astray),
         Sure /\ ~Astray => DiskBytes(b, offset, n) = FilePiece(filepos, n)
  PROVE  Reads'
<1>1. PICK ok \in BOOLEAN :
        call' = [call EXCEPT !.buf = @ \o IF ok THEN DiskBytes(b, offset, n) ELSE Junk(n),
                             !.left = @ - n, !.lost = @ \/ ~ok, !.op = op]
  BY DEF AdvanceTo
<1>2. PICK bytes : bytes = IF ok THEN DiskBytes(b, offset, n) ELSE Junk(n)
  OBVIOUS
<1>3. /\ call'.op = op /\ call'.buf = Then(call.buf, bytes) /\ call'.left = call.left - n
      /\ call'.want = call.want /\ call'.ino = call.ino /\ call'.lost = (call.lost \/ ~ok)
      /\ call.left \in Nat
  BY <1>1, <1>2 DEF Call, CallTyped, Then
<1>4. call'.lost \/ (~call.lost /\ (~volume.excused /\ ~Astray => bytes = FilePiece(filepos, n)))
  BY <1>2, <1>3 DEF Sure
<1> QED BY <1>3, <1>4, GoesReads DEF AdvanceTo

\* A read returns what it has.
LEMMA ReturnReads ==
  ASSUME Call, Reads, InRead, UNCHANGED <<volume, fsys_type, filepos, filemax>>,
         call' = Returned("read", call.buf),
         fsys_type = "fat" => (cache.astray => cache'.astray),
         fsys_type = "reiserfs" \/ call.left = 0 \/ volume.excused \/ Astray'
  PROVE  Reads'
<1>1. /\ call'.op = "read" /\ call'.buf = call.buf /\ call'.left = 0 /\ call'.want = call.want
      /\ call'.ino = call.ino /\ call'.lost = call.lost
  BY DEF Returned, Call, CallTyped
<1>2. CASE fsys_type = "reiserfs"
  BY <1>1, <1>2 DEF Reads, Sure, Astray, Brings, Got, FilePiece, Node, Nodes
<1>3. CASE call.left = 0
  BY <1>1, <1>3, SameGot DEF Reads, Sure, Astray
<1>4. CASE volume.excused \/ Astray'
  BY <1>1, <1>4 DEF Reads, Sure
<1> QED BY <1>2, <1>3, <1>4

LEMMA ReadReturnsReads ==
  ASSUME Call, Reads, InRead, ReadReturns,
         fsys_type = "reiserfs" \/ call.left = 0 \/ errnum # None \/ volume.excused
  PROVE  Reads'
<1>1. CASE errnum = None
  BY <1>1, ReturnReads DEF ReadReturns
<1>2. CASE errnum # None
  BY <1>2, NoRead DEF ReadReturns, Returned, Call, CallTyped
<1> QED BY <1>1, <1>2

LEMMA ReadBegins ==
  ASSUME Inv, NEW n \in Lens, Read(n)
  PROVE  Reads'
<1>1. /\ call'.op = "reading" /\ call'.buf = <<>> /\ call'.want = n
      /\ call'.left = Lesser(n, filemax - filepos) /\ call'.ino = call.ino
      /\ UNCHANGED <<volume, fsys_type, filepos, filemax>> /\ filepos \in Nat /\ filemax \in Nat
  BY DEF Read, Inv, Call, CallTyped, At
<1>2. filepos <= filemax /\ n \in Nat
  BY LensAssumption DEF Inv, At, Call, CallTyped
<1>3. FilePiece(filepos, 0)' = <<>>
  BY Nothing DEF FilePiece
<1>4. Got(0)'
  <2>1. Lesser(n, filemax - filepos) \in Nat
    BY <1>1, <1>2 DEF Lesser
  <2> QED BY <1>1, <1>3, <2>1 DEF Got
<1> QED BY <1>1, <1>4 DEF Reads, Brings

---------------------------------------------------------------------------
(* No read: a path is looked up, a file opened, a call fails. *)

NotReading ==
  /\ call'.op \in {"idle", "failed", "inode", "opened", "search", "entry", "item"}
  /\ UNCHANGED <<volume, fsys_type>>
  /\ call'.op = "opened" => Node(call'.ino).type = "file" /\ filemax' = Node(call'.ino).size

LEMMA NotReadingReads ==
  ASSUME NotReading
  PROVE  Reads' /\ FilesOpen'
BY NoRead DEF NotReading, FilesOpen, FileOpen, Node, Nodes

LEMMA FailsNotReading ==
  ASSUME Call, NEW e, NEW ok, DirFails(e, ok) \/ ReadFails(e, ok)
  PROVE  NotReading
BY DEF NotReading, DirFails, ReadFails, Returned, Call, CallTyped

LEMMA FindsNotReading ==
  ASSUME Call, NEW ino, DirFinds(ino), Node(ino).type = "file"
  PROVE  NotReading /\ call'.ino = ino
BY DEF NotReading, DirFinds, Call, CallTyped

LEMMA LoadedNotReading ==
  ASSUME Call, NEW loaded, InodeLoaded(loaded)
  PROVE  NotReading
<1>1. CASE LinkLoop \/ DirFails("filetype", TRUE)
  BY <1>1, FailsNotReading DEF LinkLoop
<1>2. CASE ChaseLink
  BY <1>2 DEF NotReading, ChaseLink, Call, CallTyped
<1>3. CASE DirFinds(call.ino) /\ Node(call.ino).type = "file"
  BY <1>3, FindsNotReading
<1>4. CASE /\ call' = [call EXCEPT !.op = "search", !.loc = 0, !.updir = call.ino]
           /\ UNCHANGED <<fsys_type, volume, filepos, filemax>>
  BY <1>4 DEF NotReading, Call, CallTyped
<1> QED BY <1>1, <1>2, <1>3, <1>4 DEF InodeLoaded

LEMMA WalkNotReading ==
  ASSUME Call, NEW loaded, WalkInode(loaded)
  PROVE  NotReading
<1>1. CASE InodeUnread \/ LinkUnread(loaded)
  BY <1>1, FailsNotReading DEF InodeUnread, LinkUnread
<1> QED BY <1>1, LoadedNotReading DEF WalkInode

LEMMA SeeNotReading ==
  ASSUME Call, call.op = "search", NEW a, SeeEntry(a)
  PROVE  NotReading
BY DEF SeeEntry, NotReading, Call, CallTyped

LEMMA EndsNotReading ==
  ASSUME Call, SearchEnds
  PROVE  NotReading
BY FailsNotReading DEF SearchEnds

\* The file stays open.
LEMMA StaysOpen ==
  ASSUME FilesOpen, FileOpen \/ call.op = "extents", UNCHANGED <<volume, fsys_type, filemax>>,
         call'.ino = call.ino
  PROVE  FilesOpen'
BY DEF FilesOpen, Node, Nodes

---------------------------------------------------------------------------
(* Blocks of the file that is open. *)

\* The part of a block that lies in one block of the node.
LEMMA BlockStretch ==
  ASSUME NEW node, NEW p \in Nat, NEW b \in Nat, b # Hole, node.blocks[p \div BlockBytes + 1] = b,
         NEW n \in Nat, (p % BlockBytes) + n <= BlockBytes
  PROVE  DiskBytes(b, p % BlockBytes, n) = Stretch(node, p, n)
<1>1. PICK q \in Nat, r \in 0 .. BlockBytes - 1 :
        q = p \div BlockBytes /\ r = p % BlockBytes /\ p = q * BlockBytes + r
  BY Quotient
<1>2. ASSUME NEW j \in Nat, j * BlockBytes < r + n
      PROVE  node.blocks[q + j + 1] = b + j /\ b + j # Hole
  <2>1. j = 0
    <3>1. CASE j > 0
      <4>1. 0 * BlockBytes + BlockBytes <= j * BlockBytes /\ j * BlockBytes \in Nat
        BY <3>1, LessTimes, BlockBytesAssumption
      <4>2. 0 * BlockBytes = 0
        BY BlockBytesAssumption
      <4> QED BY <1>1, <1>2, <4>1, <4>2, BlockBytesAssumption
    <3> QED BY <3>1
  <2> QED BY <1>1, <2>1
<1>3. DiskBytes(b, r, n) = Stretch(node, p, n)
  <2>1. r \in Nat /\ q \in Nat
    BY <1>1, BlockBytesAssumption
  <2>2. InLine(node, q, b, r, n)
    BY <1>2 DEF InLine
  <2> QED BY <1>1, <2>1, <2>2, DiskStretch
<1> QED BY <1>1, <1>3

\* The place to be read is in a block of the file.
LEMMA InFile ==
  ASSUME Call, At, call.op # "idle", call.left > 0, Node(call.ino).type = "file",
         filemax = Node(call.ino).size
  PROVE  /\ filepos \in Nat /\ filepos < filemax /\ filemax \in Nat /\ call.left \in Nat
         /\ Node(call.ino).blocks \in Seq(Nat) /\ Len(Node(call.ino).blocks) \in Nat
         /\ filemax <= Len(Node(call.ino).blocks) * BlockBytes
         /\ filepos \div BlockBytes \in Nat /\ filepos \div BlockBytes < Len(Node(call.ino).blocks)
         /\ filepos \div BlockBytes <= filepos
         /\ filepos \div BlockBytes + 1 \in DOMAIN Node(call.ino).blocks
         /\ Node(call.ino).blocks[filepos \div BlockBytes + 1] \in Nat
<1>1. filepos \in Nat /\ filepos < filemax /\ filemax \in Nat /\ call.left \in Nat
  BY DEF At, Call, CallTyped
<1>2. NodesTyped(volume) /\ call.ino \in DOMAIN volume.nodes
  BY Running DEF Call, AtNode, Nodes
<1>3. PICK node : node = volume.nodes[call.ino] /\ node = Node(call.ino)
  BY DEF Node, Nodes
<1>4. node.blocks \in Seq(Nat) /\ node.size <= Len(node.blocks) * BlockBytes /\ node.size = filemax
  BY <1>2, <1>3 DEF NodesTyped
<1>5. Len(node.blocks) \in Nat /\ DOMAIN node.blocks = 1..Len(node.blocks)
  BY <1>4
<1>6. filepos \div BlockBytes \in Nat /\ filepos \div BlockBytes <= filepos
  BY <1>1, DivMod, BlockBytesAssumption
<1>7. filepos \div BlockBytes < Len(node.blocks)
  <2>1. Len(node.blocks) * BlockBytes \in Nat
    BY <1>5, BlockBytesAssumption
  <2>2. filepos < Len(node.blocks) * BlockBytes
    BY <1>1, <1>4, <2>1
  <2> QED BY <1>1, <1>5, <2>2, DivBelow, BlockBytesAssumption
<1>8. PICK l \in Nat : l = filepos \div BlockBytes
  BY <1>6
<1>9. l + 1 \in DOMAIN node.blocks /\ node.blocks[l + 1] \in Nat
  BY <1>4, <1>5, <1>7, <1>8
<1> QED BY <1>1, <1>3, <1>4, <1>5, <1>6, <1>7, <1>8, <1>9

\* What a turn reads of a block.
LEMMA Part ==
  ASSUME Call, At
  PROVE  LET n == Lesser(BlockBytes - (filepos % BlockBytes), call.left)
         IN  n \in 0..call.left /\ n \in Nat /\ (filepos % BlockBytes) + n <= BlockBytes
<1>1. filepos % BlockBytes \in 0 .. BlockBytes - 1 /\ call.left \in Nat
  BY DivMod, BlockBytesAssumption DEF At, Call, CallTyped
<1> QED BY <1>1, BlockBytesAssumption DEF Lesser

---------------------------------------------------------------------------
(* fat. *)

LEMMA FatClusterReads ==
  ASSUME Inv, Reads, fsys_type = "fat", call.op = "chain", call.left > 0, FatCluster
  PROVE  Reads'
<1>1. /\ Call /\ At /\ FatInv /\ InRead
  BY DEF Inv, InRead
<1>2. /\ Node(call.ino).type = "file" /\ filemax = Node(call.ino).size
      /\ cache.current_cluster_num \in Nat /\ cache.current_cluster_num <= filepos \div BlockBytes
  BY <1>1 DEF FatInv, FatForm
<1> DEFINE n == Lesser(BlockBytes - (filepos % BlockBytes), call.left)
<1>3. n \in 0..call.left /\ n \in Nat /\ (filepos % BlockBytes) + n <= BlockBytes
  BY <1>1, Part
<1>4. AdvanceTo("chain", cache.current_cluster, filepos % BlockBytes, n)
      /\ filepos \div BlockBytes <= cache.current_cluster_num
  BY DEF FatCluster, Advance
<1>5. ASSUME Sure, ~Astray
      PROVE  DiskBytes(cache.current_cluster, filepos % BlockBytes, n) = FilePiece(filepos, n)
  <2>1. PICK l \in Nat : l = filepos \div BlockBytes /\ l + 1 \in DOMAIN Node(call.ino).blocks
                         /\ l <= filepos /\ filepos < filemax /\ filepos \in Nat /\ filemax \in Nat
    BY <1>1, <1>2, InFile
  <2>2. FatTyped(volume) /\ call.ino \in DOMAIN volume.nodes /\ call.ino # Root
    BY <1>1, <1>2, Running DEF Call, AtNode, Nodes, Node, NodesTyped
  <2>3. filemax < MaxInt
    BY <1>2, <2>2 DEF FatTyped, Node, Nodes
  <2>4. Node(call.ino).blocks[l + 1] \in 2..FatEof - 1
    BY <1>5, <2>1, <2>2 DEF FatTyped, Node, Nodes, Sure
  <2>5. cache.current_cluster_num = l
    BY <1>2, <1>4, <2>1
  <2>6. cache.current_cluster = Node(call.ino).blocks[l + 1]
    BY <1>1, <1>5, <2>1, <2>3, <2>5 DEF FatInv, CursorTrue, Sure, Astray, MaxInt
  <2>7. PICK b \in Nat : b = cache.current_cluster /\ b # Hole
    <3>1. PICK b, e : b = Node(call.ino).blocks[l + 1] /\ e = FatEof - 1
      OBVIOUS
    <3>2. e \in Int
      BY <3>1 DEF FatEof
    <3>3. b \in Nat /\ b # Hole
      BY <2>4, <3>1, <3>2 DEF Hole
    <3> QED BY <2>6, <3>1, <3>3
  <2> HIDE DEF n
  <2> QED BY <1>3, <2>1, <2>6, <2>7, BlockStretch DEF FilePiece
<1> HIDE DEF n
<1> QED BY <1>1, <1>3, <1>4, <1>5, AdvanceReads DEF FatCluster

\* The chain of a sound volume does not end before the file.
LEMMA ChainGoesOn ==
  ASSUME Inv, fsys_type = "fat", call.op = "chain", call.left > 0, ~volume.excused, ~cache.astray,
         filepos \div BlockBytes > cache.current_cluster_num
  PROVE  FatEntry(cache.current_cluster) \in 2..FatEof - 1
<1> DEFINE blocks == Node(call.ino).blocks
<1>1. Call /\ At /\ FatInv
  BY DEF Inv
<1>2. PICK num \in Nat : num = cache.current_cluster_num /\ filepos \div BlockBytes > num
  BY <1>1 DEF FatInv, FatForm
<1>3. PICK l \in Nat : l = filepos \div BlockBytes /\ l < Len(blocks) /\ l <= filepos
                       /\ filepos < filemax /\ filepos \in Nat /\ filemax \in Nat
                       /\ filemax = Node(call.ino).size
                       /\ Len(blocks) \in Nat /\ DOMAIN blocks = 1..Len(blocks)
  BY <1>1, InFile DEF FatInv
<1>4. FatTyped(volume) /\ call.ino \in DOMAIN volume.nodes /\ call.ino # Root
  BY <1>1, Running DEF Call, AtNode, Nodes, Node, NodesTyped, FatInv
<1>5. num # MaxInt
  BY <1>2, <1>3, <1>4 DEF FatTyped, Node, Nodes, MaxInt
<1>6. cache.current_cluster = blocks[num + 1]
  BY <1>1, <1>2, <1>5 DEF FatInv, CursorTrue
<1>7. num + 1 \in 1..Len(blocks) - 1 /\ num + 2 \in DOMAIN blocks /\ num + 1 + 1 = num + 2
  BY <1>2, <1>3
<1>8. FatEntry(cache.current_cluster) = blocks[num + 1 + 1]
  BY <1>4, <1>6, <1>7 DEF FatTyped, Node, Nodes, FatEntry
<1>9. blocks[num + 2] \in 2..FatEof - 1
  BY <1>4, <1>7 DEF FatTyped, Node, Nodes
<1> QED BY <1>7, <1>8, <1>9

LEMMA FatLinkReads ==
  ASSUME Inv, Reads, fsys_type = "fat", call.op = "chain", call.left > 0, FatLink(filepos)
  PROVE  Reads'
<1> DEFINE entry  == cache.current_cluster
           hit    == InWindow(entry, cache.cached_fat)
           window == IF hit THEN cache.cached_fat ELSE entry - (entry % FatSector)
           moved  == [cache EXCEPT !.cached_fat = window,
                                   !.astray = @ \/ ~InBuffer(entry, window)]
<1>1. /\ Call /\ At /\ FatInv /\ FatForm /\ InRead
      /\ InBuffer(entry, window) \in BOOLEAN
  BY DEF Inv, InRead, FatInv, InBuffer
<1>2. CASE ReadFails("read", FALSE) \/ ReadFails("corrupt", TRUE)
  BY <1>1, <1>2, NoRead DEF ReadFails, Returned, Call, CallTyped
<1>3. ASSUME NEW next \in WindowEntries(entry, window), next >= FatEof, cache' = moved,
             ShortRead(call.buf)
      PROVE  Reads'
  <2>1. cache'.astray <=> cache.astray \/ ~InBuffer(entry, window)
    <3> DEFINE out == ~InBuffer(entry, window)
    <3>1. cache' = [cache EXCEPT !.cached_fat = window, !.astray = @ \/ out]
      BY <1>3
    <3>2. out \in BOOLEAN
      BY <1>1
    <3> HIDE DEF entry, window, moved, out
    <3>3. cache'.astray <=> cache.astray \/ out
      BY <1>1, <3>1, <3>2, WindowMoved
    <3> QED BY <3>3 DEF out
  <2>2. ASSUME ~volume.excused, ~cache'.astray
        PROVE  FALSE
    <3>1. ~cache.astray /\ InBuffer(entry, window)
      BY <2>1, <2>2
    <3>2. next = FatEntry(entry)
      <4> HIDE DEF window
      <4> QED BY <1>3, <3>1 DEF WindowEntries
    <3>3. FatEntry(entry) \in 2..FatEof - 1
      BY <2>2, <3>1, ChainGoesOn DEF FatLink
    <3>4. PICK v \in 2..FatEof - 1 : v = next
      BY <3>2, <3>3
    <3> HIDE DEF window
    <3> QED BY <1>3, <3>4 DEF FatEof
  <2>3. /\ call' = Returned("read", call.buf) /\ UNCHANGED <<volume, fsys_type, filepos, filemax>>
    BY <1>3 DEF ShortRead
  <2>4. volume.excused \/ Astray'
    BY <2>2, <2>3 DEF Astray
  <2> HIDE DEF window, moved
  <2> QED BY <1>1, <2>1, <2>3, <2>4, ReturnReads
<1>4. ASSUME NEW next,
             cache' = [moved EXCEPT !.current_cluster = next, !.current_cluster_num = @ + 1],
             UNCHANGED <<fsys_type, volume, filepos, filemax, errnum, call>>
      PROVE  Reads'
  <2>1. cache.astray => cache'.astray
    <3>1. PICK gone \in BOOLEAN : /\ cache.astray => gone
                                  /\ gone = (cache.astray \/ ~InBuffer(entry, window))
      BY <1>1 DEF FatForm
    <3>2. PICK w, num : cache' = [[cache EXCEPT !.cached_fat = w, !.astray = gone]
                                   EXCEPT !.current_cluster = next, !.current_cluster_num = num]
      BY <1>4, <3>1
    <3> QED BY <1>1, <3>1, <3>2 DEF FatForm
  <2> HIDE DEF window, moved
  <2> QED BY <1>1, <1>4, <2>1, StillReads DEF Call, CallTyped
<1>5. \/ ReadFails("read", FALSE) \/ ReadFails("corrupt", TRUE)
      \/ \E next \in WindowEntries(entry, window) :
           next >= FatEof /\ cache' = moved /\ ShortRead(call.buf)
      \/ \E next :
           /\ cache' = [moved EXCEPT !.current_cluster = next, !.current_cluster_num = @ + 1]
           /\ UNCHANGED <<fsys_type, volume, filepos, filemax, errnum, call>>
  <2>1. call.op # "search"
    OBVIOUS
  <2> QED BY <2>1, Zenon DEF FatLink, EndOfChain
<1> HIDE DEF moved, window, entry
<1> QED BY <1>2, <1>3, <1>4, <1>5

LEMMA FatReads ==
  ASSUME Inv, Reads, fsys_type = "fat", FatTurn
  PROVE  Reads'
<1>1. Call
  BY DEF Inv
<1>2. CASE FatBegin
  <2>1. cache.astray => cache'.astray
    BY <1>2 DEF FatBegin, FatStart, Inv, FatInv, FatForm
  <2> QED BY <1>1, <1>2, <2>1, StillReads DEF FatBegin, InRead, Call, CallTyped
<1>3. CASE call.op = "chain" /\ call.left > 0 /\ (FatLink(filepos) \/ FatCluster)
  BY <1>3, FatLinkReads, FatClusterReads
<1>4. CASE FatComponent \/ FatRootEntry \/ FatEntryBegin \/ FatSearch
  <2>1. call'.op \in {"failed", "opened", "entry", "search", "inode"}
    BY <1>1, <1>4 DEF FatComponent, FatRootEntry, FatEntrySeen, FatEntryBegin, FatSearch, FatLink,
       EndOfChain, DirFinds, DirFails, ReadFails, Returned, Call, CallTyped
  <2> QED BY <2>1, NoRead
<1> QED BY <1>2, <1>3, <1>4 DEF FatTurn, FatRead

---------------------------------------------------------------------------
(* ext2, minix. *)

LEMMA Firsts ==
  First(1) \in Nat /\ First(2) \in Nat /\ First(3) \in Nat /\ First(1) <= First(2)
<1>1. AddrPerBlock \in Nat /\ NDirect \in Nat
  BY BlockMapAssumption
<1>2. AddrPerBlock * AddrPerBlock \in Nat
  BY <1>1
<1> QED BY <1>1, <1>2 DEF First, Span

\* The tables lead to the block of the file.
LEMMA MapsBlock ==
  ASSUME Inv, FilesOpen, fsys_type \in {"ext2", "minix"}, call.op = "reading", call.left > 0,
         ~volume.excused, TablesReady(filepos \div BlockBytes)
  PROVE  /\ BlockOf(filepos \div BlockBytes) = Node(call.ino).blocks[filepos \div BlockBytes + 1]
         /\ fsys_type = "minix" => BlockOf(filepos \div BlockBytes) # Hole
<1>1. Call /\ At /\ Node(call.ino).type = "file" /\ filemax = Node(call.ino).size /\ TablesTrue
  BY DEF Inv, MapsInv, FilesOpen, FileOpen
<1>2. PICK l \in Nat : l = filepos \div BlockBytes /\ l < Len(Node(call.ino).blocks)
                       /\ Len(Node(call.ino).blocks) \in Nat
  BY <1>1, InFile
<1>3. PICK node : node = Node(call.ino) /\ node = volume.nodes[call.ino]
  BY DEF Node, Nodes
<1>4. /\ volume.format = fsys_type /\ volume \in Volumes /\ MapsTyped(volume) /\ call.ino \in DOMAIN volume.nodes
  BY <1>1, VolumesAssumption DEF Call, AtNode, Nodes
<1>5. PICK block, tops : block = node.blocks[l + 1] /\ tops = node.tops
  OBVIOUS
<1> DEFINE at(k) == l - First(k)
           second == InTable(volume.table, tops[2], at(2) \div AddrPerBlock)
           third  == InTable(volume.table, InTable(volume.table, tops[3], at(3) \div Span(2)),
                             (at(3) \div AddrPerBlock) % AddrPerBlock)
<1>6. /\ fsys_type = "minix" => block # Hole
      /\ l >= First(1) /\ l < First(2) => block = InTable(volume.table, tops[1], at(1))
      /\ l >= First(2) /\ (l < First(3) \/ fsys_type = "minix") =>
           second > 0 /\ block = InTable(volume.table, second, at(2) % AddrPerBlock)
      /\ l >= First(3) /\ fsys_type # "minix" =>
           block = InTable(volume.table, third, at(3) % AddrPerBlock)
  <2>1. l \in 0..Len(node.blocks) - 1
    BY <1>2, <1>3
  <2>2. node.type = "file"
    BY <1>1, <1>3
  <2> QED BY <1>3, <1>4, <1>5, <2>1, <2>2 DEF MapsTyped
<1>7. First(1) \in Nat /\ First(2) \in Nat /\ First(3) \in Nat /\ First(1) <= First(2)
  BY Firsts
<1>8. \A b, j : Pointer(b, j) = InTable(volume.table, b, j)
  BY DEF Pointer, InTable
<1>9. \A k : Top(call.ino, k) = tops[k]
  BY <1>3, <1>5 DEF Top
<1>10. TablesReady(l)
  BY <1>2
<1>11. \A k : Level(l) = k => Place(l) = at(k)
  BY DEF Place
<1>12. BlockOf(l) = block
  <2>1. CASE l < First(1)
    <3>1. Level(l) = 0
      BY <1>7, <2>1 DEF Level
    <3> QED BY <1>2, <1>3, <1>5, <3>1 DEF BlockOf, Logical
  <2>2. CASE l >= First(1) /\ l < First(2)
    <3>1. Level(l) = 1
      BY <1>7, <2>2 DEF Level
    <3>2. cache.mapblock1 = 1
      BY <1>10, <3>1 DEF TablesReady
    <3>3. cache.db1 = tops[1]
      BY <1>1, <1>9, <3>2 DEF TablesTrue, FileOpen
    <3>4. BlockOf(l) = InTable(volume.table, tops[1], at(1))
      BY <1>8, <1>11, <3>1, <3>3 DEF BlockOf
    <3> QED BY <1>6, <2>2, <3>4
  <2>3. CASE ~(l < First(1)) /\ ~(l >= First(1) /\ l < First(2)) /\ l >= First(2) /\ (l < First(3) \/ fsys_type = "minix")
    <3>1. Level(l) = 2
      BY <1>7, <2>3 DEF Level
    <3>2. cache.mapblock1 = 2 /\ cache.mapblock2 = Table2(l)
      BY <1>10, <3>1 DEF TablesReady
    <3>3. cache.db1 = tops[2]
      BY <1>1, <1>9, <3>2 DEF TablesTrue, FileOpen
    <3>4. Table2(l) = second
      BY <1>8, <1>11, <3>1, <3>3 DEF Table2
    <3>5. second > 0
      BY <1>6, <2>3
    <3> HIDE DEF second
    <3>6. cache.db2 = second
      BY <1>1, <3>2, <3>4, <3>5 DEF TablesTrue, FileOpen
    <3>7. BlockOf(l) = InTable(volume.table, second, at(2) % AddrPerBlock)
      BY <1>8, <1>11, <3>1, <3>6 DEF BlockOf
    <3> QED BY <1>6, <2>3, <3>7
  <2>4. CASE ~(l < First(1)) /\ ~(l >= First(1) /\ l < First(2))
             /\ ~(l >= First(2) /\ (l < First(3) \/ fsys_type = "minix"))
    <3>1. Level(l) = 3 /\ fsys_type # "minix"
      BY <1>7, <2>4 DEF Level
    <3>2. l >= First(3)
      BY <1>7, <2>4, <3>1
    <3>3. cache.mapblock1 = 3
      BY <1>10, <3>1 DEF TablesReady
    <3>4. cache.db1 = tops[3]
      BY <1>1, <1>9, <3>3 DEF TablesTrue, FileOpen
    <3>5. Table3(l) = third
      BY <1>8, <1>11, <3>1, <3>4 DEF Table3
    <3> HIDE DEF third
    <3>6. BlockOf(l) = InTable(volume.table, third, at(3) % AddrPerBlock)
      BY <1>8, <1>11, <3>1, <3>5 DEF BlockOf
    <3> QED BY <1>6, <3>1, <3>2, <3>6
  <2> QED BY <2>1, <2>2, <2>3, <2>4
<1> QED BY <1>2, <1>3, <1>5, <1>6, <1>12

\* A hole is read as zeroes.
LEMMA HoleStretch ==
  ASSUME NEW node, NEW p \in Nat, node.blocks[p \div BlockBytes + 1] = Hole,
         NEW n \in Nat, (p % BlockBytes) + n <= BlockBytes
  PROVE  Zeroes(n) = Stretch(node, p, n)
<1> SUFFICES ASSUME NEW i \in 1..n PROVE ByteOf(node, p + i - 1) = Zero
  BY DEF Zeroes, Stretch
<1>1. PICK q \in Nat, r \in 0 .. BlockBytes - 1 :
        q = p \div BlockBytes /\ r = p % BlockBytes /\ p = q * BlockBytes + r
  BY Quotient
<1>2. PICK s \in 0 .. BlockBytes - 1 : s = r + i - 1
  <2>1. r + i - 1 \in 0 .. BlockBytes - 1
    BY <1>1, BlockBytesAssumption
  <2> QED BY <2>1
<1>3. p + i - 1 = q * BlockBytes + s
  <2>1. PICK k \in Nat : k = q * BlockBytes
    BY BlockBytesAssumption
  <2>2. p = k + r /\ r \in Nat /\ s = r + i - 1
    BY <1>1, <1>2, <2>1, BlockBytesAssumption
  <2> QED BY <2>1, <2>2
<1>4. (p + i - 1) \div BlockBytes = q
  BY <1>1, <1>2, <1>3, DivOf, BlockBytesAssumption
<1> QED BY <1>1, <1>4 DEF ByteOf

\* minix_read goes on behind a block that it has not read.
LEMMA MapFailsReads ==
  ASSUME Call, At, Reads, fsys_type \in {"ext2", "minix"}, call.op = "reading", NEW ok \in BOOLEAN,
         MapFails(ok), ok => volume.excused
  PROVE  Reads'
<1>1. CASE ReadFails("corrupt", ok)
  BY <1>1, NoRead DEF ReadFails, Returned, Call, CallTyped
<1>2. CASE MinixSkip(ok)
  <2> DEFINE n == Lesser(BlockBytes - (filepos % BlockBytes), call.left)
  <2>1. n \in 0..call.left
    BY Part
  <2>2. /\ call' = [call EXCEPT !.buf = @ \o Junk(n), !.left = @ - n, !.lost = @ \/ ~ok]
        /\ filepos' = filepos + n /\ UNCHANGED <<fsys_type, volume, filemax>>
    BY <1>2 DEF MinixSkip
  <2> HIDE DEF n
  <2>3. PICK bytes : bytes = Junk(n)
    OBVIOUS
  <2>4. /\ call'.op = "reading" /\ call'.buf = Then(call.buf, bytes) /\ call'.left = call.left - n
        /\ call'.want = call.want /\ call'.ino = call.ino /\ call'.lost = (call.lost \/ ~ok)
        /\ call.left \in Nat
    BY <2>2, <2>3 DEF Call, CallTyped, Then
  <2>5. call'.lost \/ (~call.lost /\ (~volume.excused => bytes = FilePiece(filepos, n)))
    BY <2>4
  <2> QED BY <2>1, <2>2, <2>4, <2>5, GoesReads DEF InRead
<1> QED BY <1>1, <1>2 DEF MapFails

\* In a sound volume the tables are there.
LEMMA TablesThere ==
  ASSUME Inv, FilesOpen, fsys_type = "minix", call.op = "reading", call.left > 0,
         \/ Level(filepos \div BlockBytes) > 0 /\ Table1(filepos \div BlockBytes) = Hole
         \/ /\ Level(filepos \div BlockBytes) = 2 /\ cache.mapblock1 = 2
            /\ Table2(filepos \div BlockBytes) = Hole
  PROVE  volume.excused
<1> SUFFICES ASSUME ~volume.excused PROVE FALSE
  OBVIOUS
<1>1. Call /\ At /\ Node(call.ino).type = "file" /\ filemax = Node(call.ino).size /\ TablesTrue
  BY DEF Inv, MapsInv, FilesOpen, FileOpen
<1>2. PICK l \in Nat : l = filepos \div BlockBytes /\ l < Len(Node(call.ino).blocks)
                       /\ Len(Node(call.ino).blocks) \in Nat
  BY <1>1, InFile
<1>3. PICK node : node = Node(call.ino) /\ node = volume.nodes[call.ino]
  BY DEF Node, Nodes
<1>4. /\ volume.format = fsys_type /\ volume \in Volumes /\ MapsTyped(volume) /\ call.ino \in DOMAIN volume.nodes
  BY <1>1, VolumesAssumption DEF Call, AtNode, Nodes
<1>5. PICK tops : tops = node.tops
  OBVIOUS
<1> DEFINE at(k) == l - First(k)
           second == InTable(volume.table, tops[2], at(2) \div AddrPerBlock)
<1>6. /\ l >= First(1) /\ l < First(2) => tops[1] > 0
      /\ l >= First(2) => tops[2] > 0 /\ second > 0
  <2>1. l \in 0..Len(node.blocks) - 1
    BY <1>2, <1>3
  <2>2. node.type = "file"
    BY <1>1, <1>3
  <2> QED BY <1>3, <1>4, <1>5, <2>1, <2>2 DEF MapsTyped
<1>7. First(1) \in Nat /\ First(2) \in Nat /\ First(3) \in Nat /\ First(1) <= First(2)
  BY Firsts
<1>8. \/ Level(l) = 0
      \/ Level(l) = 1 /\ l >= First(1) /\ l < First(2)
      \/ Level(l) = 2 /\ l >= First(2)
  BY <1>7 DEF Level
<1>9. \A k : Top(call.ino, k) = tops[k]
  BY <1>3, <1>5 DEF Top
<1>10. CASE Level(l) > 0 /\ Table1(l) = Hole
  <2>1. tops[Level(l)] = 0
    BY <1>9, <1>10 DEF Table1, Hole
  <2> HIDE DEF second
  <2> QED BY <1>6, <1>8, <1>10, <2>1
<1>11. CASE Level(l) = 2 /\ cache.mapblock1 = 2 /\ Table2(l) = Hole
  <2>1. cache.db1 = tops[2]
    BY <1>1, <1>9, <1>11 DEF TablesTrue, FileOpen
  <2>2. Place(l) = at(2)
    BY <1>11 DEF Place
  <2>3. Table2(l) = second
    BY <2>1, <2>2 DEF Table2, Pointer, InTable
  <2> HIDE DEF second
  <2> QED BY <1>6, <1>8, <1>11, <2>3 DEF Hole
<1> QED BY <1>2, <1>10, <1>11

LEMMA MapsReadReads ==
  ASSUME Inv, Reads, FilesOpen,
         (fsys_type = "ext2" /\ Ext2Read) \/ (fsys_type = "minix" /\ MinixRead)
  PROVE  Reads'
<1> DEFINE l      == filepos \div BlockBytes
           offset == filepos % BlockBytes
           size   == Lesser(BlockBytes - offset, call.left)
<1>1. call.op = "reading" /\ call.left > 0 /\ Call /\ At /\ InRead
  BY DEF Inv, Ext2Read, MinixRead, InRead
<1>2. CASE MapFails(FALSE)
  BY <1>1, <1>2, MapFailsReads
<1>3. CASE MapFails(TRUE) /\ volume.excused
  BY <1>1, <1>3, MapFailsReads
<1>4. CASE UNCHANGED <<fsys_type, volume, filepos, filemax, call>>
  BY <1>1, <1>4, StillReads DEF Call, CallTyped
<1>5. CASE LoadTable1(l) \/ LoadTable2(l)
  <2>1. \A tables : TableLoaded(tables) => UNCHANGED <<fsys_type, volume, filepos, filemax, call>>
    BY DEF TableLoaded
  <2>2. ASSUME fsys_type = "minix",
               \/ Level(l) > 0 /\ Table1(l) = Hole
               \/ Level(l) = 2 /\ cache.mapblock1 = 2 /\ Table2(l) = Hole
        PROVE  volume.excused
    BY <1>1, <2>2, TablesThere
  <2> QED BY <1>2, <1>3, <1>4, <1>5, <2>1, <2>2 DEF LoadTable1, LoadTable2
<1>6. size \in 0..call.left /\ size \in Nat /\ offset + size <= BlockBytes /\ filepos \in Nat
  BY <1>1, Part DEF At
<1>7. ASSUME ~volume.excused, TablesReady(l)
      PROVE  /\ BlockOf(l) = Node(call.ino).blocks[l + 1] /\ BlockOf(l) \in Nat
             /\ fsys_type = "minix" => BlockOf(l) # Hole
  BY <1>1, <1>7, MapsBlock, InFile DEF FilesOpen, FileOpen
<1>8. CASE TablesReady(l) /\ BlockOf(l) = Hole /\ AdvanceHole(size) /\ fsys_type = "ext2"
  <2>1. /\ call' = [call EXCEPT !.buf = @ \o Zeroes(size), !.left = @ - size]
        /\ filepos' = filepos + size /\ UNCHANGED <<fsys_type, volume, filemax>>
    BY <1>8 DEF AdvanceHole
  <2>2. ~volume.excused => Zeroes(size) = FilePiece(filepos, size)
    <3> HIDE DEF size
    <3> QED BY <1>6, <1>7, <1>8, HoleStretch DEF FilePiece
  <2> HIDE DEF size
  <2>3. PICK bytes : bytes = Zeroes(size)
    OBVIOUS
  <2>4. /\ call'.op = "reading" /\ call'.buf = Then(call.buf, bytes) /\ call'.left = call.left - size
        /\ call'.want = call.want /\ call'.ino = call.ino /\ call'.lost = call.lost
        /\ call.left \in Nat
    BY <1>1, <2>1, <2>3 DEF Call, CallTyped, Then
  <2>5. call'.lost \/ (~call.lost /\ (~volume.excused => bytes = FilePiece(filepos, size)))
    BY <2>2, <2>3, <2>4 DEF Call, CallTyped
  <2> QED BY <1>1, <1>6, <2>1, <2>4, <2>5, GoesReads
<1>9. CASE TablesReady(l) /\ (fsys_type = "ext2" => BlockOf(l) # Hole) /\ Advance(BlockOf(l), offset, size)
  <2>1. ASSUME Sure
        PROVE  DiskBytes(BlockOf(l), offset, size) = FilePiece(filepos, size)
    <3>1. PICK b \in Nat : b = BlockOf(l) /\ b # Hole /\ b = Node(call.ino).blocks[l + 1]
      BY <1>7, <1>9, <2>1 DEF Sure
    <3> HIDE DEF size
    <3> QED BY <1>6, <3>1, BlockStretch DEF FilePiece
  <2>2. AdvanceTo("reading", BlockOf(l), offset, size)
    BY <1>1, <1>9 DEF Advance
  <2> HIDE DEF size
  <2> QED BY <1>1, <1>6, <2>1, <2>2, AdvanceReads
<1> HIDE DEF size, l, offset
<1>10. CASE fsys_type = "ext2" /\ Ext2Read
  BY <1>2, <1>5, <1>8, <1>9, <1>10 DEF Ext2Read, size, l, offset
<1>11. CASE fsys_type = "minix" /\ MinixRead
  BY <1>5, <1>9, <1>11 DEF MinixRead, size, l, offset
<1> QED BY <1>10, <1>11

LEMMA MapsReads ==
  ASSUME Inv, Reads, FilesOpen, fsys_type \in {"ext2", "minix"}, MappedTurn
  PROVE  Reads' /\ FilesOpen'
<1>1. CASE MappedSearch
  <2>1. call.op = "search" /\ Call
    BY <1>1 DEF MappedSearch, Inv
  <2> DEFINE l == call.loc \div BlockBytes
  <2>2. CASE \E a : SeeEntry(a)
    BY <2>1, <2>2, SeeNotReading, NotReadingReads
  <2>3. CASE MapFails(FALSE) \/ MapFails(TRUE)
    <3>1. DirFails("corrupt", FALSE) \/ DirFails("corrupt", TRUE)
      BY <2>1, <2>3 DEF MapFails
    <3> QED BY <2>1, <3>1, FailsNotReading, NotReadingReads
  <2>4. CASE \E tables : TableLoaded(tables)
    <3>1. UNCHANGED <<volume, fsys_type, call>>
      BY <2>4 DEF TableLoaded
    <3>2. NotReading
      BY <2>1, <3>1 DEF NotReading
    <3> QED BY <3>2, NotReadingReads
  <2> QED BY <1>1, <2>2, <2>3, <2>4 DEF MappedSearch, LoadTable1, LoadTable2
<1>2. CASE WalkInode(MapsReset) \/ SearchEnds
  BY <1>2, WalkNotReading, EndsNotReading, NotReadingReads DEF Inv
<1>3. CASE (fsys_type = "ext2" /\ Ext2Read) \/ (fsys_type = "minix" /\ MinixRead)
  <2>1. Reads'
    BY <1>3, MapsReadReads
  <2>2. call.op = "reading" /\ Call
    BY <1>3 DEF Ext2Read, MinixRead, Inv
  <2>3. FilesOpen' \/ NotReading
    <3>1. ASSUME NEW ok, MapFails(ok)
          PROVE  FilesOpen' \/ NotReading
      <4>1. CASE ReadFails("corrupt", ok) 
        BY <2>2, <4>1, FailsNotReading
      <4>2. CASE MinixSkip(ok)
        BY <2>2, <4>2, StaysOpen DEF MinixSkip, FileOpen, Call, CallTyped
      <4> QED BY <2>2, <3>1, <4>1, <4>2 DEF MapFails
    <3>2. ASSUME NEW b, NEW offset, NEW n, Advance(b, offset, n) \/ AdvanceHole(n)
          PROVE  FilesOpen'
      BY <2>2, <3>2, StaysOpen DEF Advance, AdvanceTo, AdvanceHole, FileOpen, Call, CallTyped
    <3>3. ASSUME NEW tables, TableLoaded(tables)
          PROVE  FilesOpen'
      BY <2>2, <3>3, StaysOpen DEF TableLoaded, FileOpen, Call, CallTyped
    <3> QED BY <1>3, <3>1, <3>2, <3>3 DEF Ext2Read, MinixRead, LoadTable1, LoadTable2
  <2> QED BY <2>1, <2>3, NotReadingReads
<1> QED BY <1>1, <1>2, <1>3 DEF MappedTurn

---------------------------------------------------------------------------
(* iso9660. *)

\* The blocks of the file follow its first one.
LEMMA IsoBlock ==
  ASSUME Inv, FilesOpen, IsoAt, fsys_type = "iso9660", call.op = "reading", call.left > 0
  PROVE  /\ cache.file_start + filepos \div BlockBytes = Node(call.ino).blocks[filepos \div BlockBytes + 1]
         /\ cache.file_start + filepos \div BlockBytes \in Nat \ {0}
<1>1. Call /\ At /\ Node(call.ino).type = "file" /\ filemax = Node(call.ino).size
  BY DEF Inv, FilesOpen, FileOpen
<1>2. PICK l \in Nat : l = filepos \div BlockBytes /\ l + 1 \in DOMAIN Node(call.ino).blocks
  BY <1>1, InFile
<1>3. /\ filepos < filemax /\ filepos \in Nat /\ filemax \in Nat
      /\ Node(call.ino).blocks \in Seq(Nat) /\ l < Len(Node(call.ino).blocks)
      /\ Len(Node(call.ino).blocks) \in Nat
  BY <1>1, <1>2, InFile
<1>4. IsoTyped(volume) /\ call.ino \in DOMAIN volume.nodes
  BY <1>1, Running DEF Call, AtNode, Nodes
<1>5. PICK blocks : blocks = Node(call.ino).blocks /\ blocks = volume.nodes[call.ino].blocks
  BY DEF Node, Nodes
<1>6. blocks[1] # Hole /\ blocks[l + 1] = blocks[1] + (l + 1) - 1
  BY <1>2, <1>4, <1>5 DEF IsoTyped
<1>7. cache.file_start = blocks[1]
  BY <1>1, <1>3, <1>5 DEF IsoAt, FileOpen
<1>8. blocks[1] \in Nat
  <2>1. 1 \in DOMAIN blocks
    BY <1>3, <1>5
  <2> QED BY <1>3, <1>5, <2>1
<1> QED BY <1>2, <1>5, <1>6, <1>7, <1>8 DEF Hole

LEMMA IsoReadReads ==
  ASSUME Inv, Reads, FilesOpen, IsoAt, fsys_type = "iso9660", IsoRead
  PROVE  Reads' /\ FilesOpen' /\ IsoAt'
<1> DEFINE l      == filepos \div BlockBytes
           offset == filepos % BlockBytes
           size   == Lesser(BlockBytes - offset, call.left)
<1>1. call.op = "reading" /\ call.left > 0 /\ Call /\ At /\ InRead /\ UNCHANGED cache
  BY DEF Inv, IsoRead, InRead
<1>2. CASE ReadFails("read", FALSE)
  BY <1>1, <1>2, FailsNotReading, NotReadingReads DEF ReadFails, Returned, Call, CallTyped, IsoAt, FileOpen
<1>3. CASE /\ call' = [call EXCEPT !.left = @ - size, !.buf = @ \o DiskBytes(cache.file_start + l, offset, size)]
           /\ filepos' = filepos + size /\ UNCHANGED <<fsys_type, volume, filemax>>
  <2>1. size \in 0..call.left /\ size \in Nat /\ offset + size <= BlockBytes /\ filepos \in Nat
    BY <1>1, Part DEF At
  <2>2. PICK b \in Nat : b = cache.file_start + l /\ b # Hole /\ b = Node(call.ino).blocks[l + 1]
    BY <1>1, IsoBlock DEF Hole
  <2> HIDE DEF size
  <2>3. DiskBytes(b, offset, size) = FilePiece(filepos, size)
    BY <2>1, <2>2, BlockStretch DEF FilePiece
  <2>4. PICK bytes : bytes = DiskBytes(b, offset, size)
    OBVIOUS
  <2>5. /\ call'.op = "reading" /\ call'.buf = Then(call.buf, bytes) /\ call'.left = call.left - size
        /\ call'.want = call.want /\ call'.ino = call.ino /\ call'.lost = call.lost
        /\ call.left \in Nat /\ call.lost \in BOOLEAN
    BY <1>1, <1>3, <2>2, <2>4 DEF Call, CallTyped, Then
  <2>6. Reads'
    BY <1>1, <1>3, <2>1, <2>3, <2>4, <2>5, GoesReads
  <2>7. FilesOpen'
    BY <1>1, <1>3, <2>5, StaysOpen DEF FileOpen
  <2> QED BY <1>1, <1>3, <2>5, <2>6, <2>7 DEF IsoAt, FileOpen, Node, Nodes
<1> QED BY <1>2, <1>3 DEF IsoRead

LEMMA IsoReads ==
  ASSUME Inv, Reads, FilesOpen, IsoAt, fsys_type = "iso9660", IsoTurn
  PROVE  Reads' /\ FilesOpen' /\ IsoAt'
<1>1. Call
  BY DEF Inv
<1>2. CASE IsoRead
  BY <1>2, IsoReadReads
<1>3. CASE IsoStart \/ IsoNotFound \/ IsoSearch
  <2>1. CASE IsoStart
    <3>1. NotReading /\ call'.op = "search"
      BY <1>1, <2>1 DEF IsoStart, NotReading, Call, CallTyped
    <3> QED BY <3>1, NotReadingReads DEF IsoAt, FileOpen
  <2>2. ASSUME NEW e, NEW ok, DirFails(e, ok)
        PROVE  Reads' /\ FilesOpen' /\ IsoAt'
    <3>1. call'.op = "failed"
      BY <1>1, <2>2 DEF DirFails, Returned, Call, CallTyped
    <3> QED BY <1>1, <2>2, <3>1, FailsNotReading, NotReadingReads DEF IsoAt, FileOpen
  <2>3. CASE call.op = "search" /\ call'.op = "search" /\ UNCHANGED <<volume, fsys_type>>
    <3>1. NotReading
      BY <2>3 DEF NotReading
    <3> QED BY <2>3, <3>1, NotReadingReads DEF IsoAt, FileOpen
  <2>4. ASSUME NEW ino, IsoFound(ino), call.op = "search"
        PROVE  Reads' /\ FilesOpen' /\ IsoAt'
    <3>1. CASE DirFinds(ino) /\ Node(ino).type = "file"
               /\ cache' = [file_start |-> IF Node(ino).size = 0 THEN 0 ELSE Node(ino).blocks[1]]
      <4>1. NotReading /\ call'.ino = ino /\ UNCHANGED volume
        BY <1>1, <3>1, FindsNotReading DEF DirFinds
      <4> QED BY <3>1, <4>1, NotReadingReads DEF IsoAt, Node, Nodes
    <3>2. CASE call' = [call EXCEPT !.ino = ino, !.path = Tail(@), !.loc = 0]
               /\ UNCHANGED <<fsys_type, volume, cache, filepos, filemax, errnum>>
      BY <1>1, <2>3, <2>4, <3>2 DEF Call, CallTyped
    <3> QED BY <2>2, <2>4, <3>1, <3>2 DEF IsoFound
  <2>5. CASE IsoSearch
    <3>1. CASE call' = [call EXCEPT !.loc = @ + 1]
               /\ UNCHANGED <<fsys_type, volume, cache, filepos, filemax, errnum>>
      BY <1>1, <2>3, <2>5, <3>1 DEF Call, CallTyped, IsoSearch
    <3> QED BY <2>2, <2>4, <2>5, <3>1 DEF IsoSearch
  <2> QED BY <1>3, <2>1, <2>2, <2>5 DEF IsoNotFound
<1> QED BY <1>2, <1>3 DEF IsoTurn

---------------------------------------------------------------------------
(* Block lists. *)

\* The rest of the run is the next of the file.
LEMMA ListBlocks ==
  ASSUME Inv, ListAt, fsys_type = "list", ListRead
  PROVE  LET run    == Runs(call.ino)[cache.list]
             offset == filepos % BlockBytes
             n      == Lesser((run.len - cache.num) * BlockBytes - offset, call.left)
         IN  /\ n \in 0..call.left
             /\ DiskBytes(run.addr + cache.num, offset, n) = FilePiece(filepos, n)
<1> DEFINE run == Runs(call.ino)[cache.list]
           offset == filepos % BlockBytes
           n == Lesser((run.len - cache.num) * BlockBytes - offset, call.left)
<1>1. /\ call.op = "list" /\ Call /\ At /\ ListInv /\ cache.filepos \in Nat /\ filepos <= cache.filepos
  BY DEF ListRead, Inv, ListInv
<1>2. /\ cache.list \in DOMAIN Runs(call.ino) /\ run \in [off : Nat, len : Nat \ {0}, addr : Nat]
      /\ cache.num \in Nat /\ cache.num < run.len /\ call.left \in Nat /\ filepos \in Nat
      /\ cache.filepos \div BlockBytes = run.off + cache.num
  BY <1>1, ListPlace
<1>3. PICK len \in Nat, off \in Nat, addr \in Nat, num \in Nat :
        run.len = len /\ run.off = off /\ run.addr = addr /\ cache.num = num /\ num < len
  BY <1>2
<1>4. /\ addr # Hole
      /\ \A j \in 0..len - 1 : Node(call.ino).blocks[off + j + 1] = addr + j
  <2>1. call.ino \in DOMAIN Nodes /\ RunsTyped(volume) /\ ListTyped(volume) /\ Node(call.ino).type = "file"
    BY <1>1, Running DEF Call, AtNode, ListInv
  <2>2. addr # Hole
    BY <1>2, <1>3, <2>1 DEF ListTyped, Runs, Node, Nodes
  <2>3. \A j \in 0..run.len - 1 :
          Node(call.ino).blocks[run.off + j + 1] = IF run.addr = Hole THEN Hole ELSE run.addr + j
    BY <1>2, <2>1, RunsOfNode
  <2> HIDE DEF run
  <2> QED BY <1>3, <2>2, <2>3
<1>5. PICK q \in Nat, r \in 0 .. BlockBytes - 1 :
        q = filepos \div BlockBytes /\ r = offset /\ filepos = q * BlockBytes + r
  <2>1. filepos \in Nat
    BY <1>2
  <2> QED BY <2>1, DivMod, BlockBytesAssumption
<1>6. q = off + num
  <2>1. cache.filepos \div BlockBytes <= filepos \div BlockBytes
    BY <1>1 DEF ListAt
  <2>2. filepos \div BlockBytes <= cache.filepos \div BlockBytes
    BY <1>1, <1>2, DivMono, BlockBytesAssumption
  <2>3. cache.filepos \div BlockBytes = off + num
    BY <1>2, <1>3
  <2> HIDE DEF run
  <2> QED BY <1>3, <1>5, <2>1, <2>2, <2>3
<1>7. n = Lesser((len - num) * BlockBytes - r, call.left)
  BY <1>3, <1>5
<1>8. PICK k \in Nat : len - num = k + 1
  <2>1. len - num - 1 \in Nat
    BY <1>3
  <2> QED BY <1>3, <2>1
<1>9. PICK rest \in Nat : rest = (k + 1) * BlockBytes - r
  <2>1. (k + 1) * BlockBytes = k * BlockBytes + BlockBytes /\ k * BlockBytes \in Nat
    BY BlockBytesAssumption, SMT
  <2>2. PICK m \in Nat : m = k * BlockBytes
    BY <2>1
  <2>3. m + BlockBytes - r \in Nat
    BY BlockBytesAssumption
  <2>4. PICK t \in Int : t = (k + 1) * BlockBytes /\ t = m + BlockBytes
    BY <2>1, <2>2, BlockBytesAssumption
  <2>5. t - r \in Nat
    BY <2>3, <2>4, BlockBytesAssumption
  <2> QED BY <2>4, <2>5, Zenon
<1> HIDE DEF run, offset, n
<1>10. n = Lesser(rest, call.left) /\ n \in 0..call.left /\ n \in Nat /\ n <= rest
  <2>1. n = Lesser(rest, call.left)
    BY <1>7, <1>8, <1>9
  <2> QED BY <1>2, <2>1 DEF Lesser
<1>11. InLine(Node(call.ino), off + num, addr + num, r, n)
  <2> SUFFICES ASSUME NEW j \in Nat, j * BlockBytes < r + n
               PROVE  /\ Node(call.ino).blocks[off + num + j + 1] = addr + num + j
                      /\ addr + num + j # Hole
    BY DEF InLine
  <2>1. j < k + 1
    <3>1. PICK m \in Nat : m = j * BlockBytes
      BY BlockBytesAssumption
    <3>2. m < (k + 1) * BlockBytes
      <4>1. (k + 1) * BlockBytes = rest + r
        <5>1. PICK t \in Int : t = (k + 1) * BlockBytes
          BY BlockBytesAssumption
        <5> QED BY <1>9, <5>1, BlockBytesAssumption
      <4>2. m < rest + r
        BY <1>10, <3>1, BlockBytesAssumption
      <4> QED BY <4>1, <4>2
    <3>3. ASSUME k + 1 <= j PROVE FALSE
      <4>1. CASE k + 1 = j
        BY <3>1, <3>2, <4>1, BlockBytesAssumption
      <4>2. CASE k + 1 < j
        <5>1. PICK t \in Int : t = (k + 1) * BlockBytes
          BY BlockBytesAssumption
        <5>2. t + BlockBytes <= m
          BY <3>1, <4>2, <5>1, LessTimes, BlockBytesAssumption
        <5> QED BY <3>2, <5>1, <5>2, BlockBytesAssumption
      <4> QED BY <3>3, <4>1, <4>2
    <3> QED BY <3>3
  <2>2. PICK i \in 0..len - 1 : i = num + j
    <3>1. num + j \in 0..len - 1
      BY <1>8, <2>1
    <3> QED BY <3>1
  <2>3. Node(call.ino).blocks[off + i + 1] = addr + i
    BY <1>4
  <2>4. off + num + j + 1 = off + i + 1 /\ addr + num + j = addr + i
    BY <2>2
  <2> QED BY <1>4, <2>3, <2>4 DEF Hole
<1>12. DiskBytes(addr + num, r, n) = Stretch(Node(call.ino), filepos, n)
  <2>1. PICK base \in Nat, b \in Nat : base = off + num /\ b = addr + num
    OBVIOUS
  <2>2. r \in Nat /\ filepos = base * BlockBytes + r
    BY <1>5, <1>6, <2>1, BlockBytesAssumption
  <2>3. InLine(Node(call.ino), base, b, r, n)
    BY <1>11, <2>1
  <2>4. DiskBytes(b, r, n) = Stretch(Node(call.ino), filepos, n)
    BY <1>10, <2>2, <2>3, DiskStretch
  <2> QED BY <2>1, <2>4
<1> QED BY <1>3, <1>5, <1>10, <1>12 DEF FilePiece, run, offset, n

LEMMA ListReadReads ==
  ASSUME Inv, Reads, ListAt, fsys_type = "list", ListRead
  PROVE  Reads' /\ ListAt'
<1> DEFINE run    == Runs(call.ino)[cache.list]
           offset == filepos % BlockBytes
           n      == Lesser((run.len - cache.num) * BlockBytes - offset, call.left)
           b      == run.addr + cache.num
<1>1. Call /\ At /\ InRead /\ AdvanceTo("reading", b, offset, n)
  BY DEF Inv, ListRead, InRead
<1>2. n \in 0..call.left /\ DiskBytes(b, offset, n) = FilePiece(filepos, n)
  BY ListBlocks
<1> HIDE DEF run, offset, n, b
<1>3. Reads'
  BY <1>1, <1>2, AdvanceReads
<1>4. call'.op = "reading"
  BY <1>1 DEF AdvanceTo, Call, CallTyped
<1> QED BY <1>3, <1>4 DEF ListAt

LEMMA ListAhead ==
  ASSUME Inv, ListAt, fsys_type = "list", ListForward
  PROVE  ListAt'
<1>1. /\ call.op = "list" /\ filepos > cache.filepos /\ UNCHANGED filepos
      /\ cache \in [filepos : Nat, list : {cache.list}, num : Nat] /\ filepos \in Nat /\ cache.filepos \in Nat
  BY DEF ListForward, Inv, ListInv, At
<1>2. PICK p \in Nat : p = cache.filepos
  BY <1>1
<1>3. CASE cache'.filepos = filepos
  <2>1. filepos \div BlockBytes \in Nat
    BY <1>1, DivMod, BlockBytesAssumption
  <2> QED BY <1>1, <1>3, <2>1 DEF ListAt
<1>4. CASE cache'.filepos = p + BlockBytes /\ ~(filepos - (p - (p % BlockBytes)) < BlockBytes)
  <2>1. PICK q \in Nat, r \in 0 .. BlockBytes - 1 :
          q = p \div BlockBytes /\ r = p % BlockBytes /\ p = q * BlockBytes + r
    BY Quotient
  <2>2. PICK m \in Nat : m = q * BlockBytes + BlockBytes /\ m = (q + 1) * BlockBytes
    BY BlockBytesAssumption, SMT
  <2>3. m <= filepos
    <3>1. PICK k \in Nat : k = q * BlockBytes
      BY BlockBytesAssumption
    <3>2. p = k + r /\ m = k + BlockBytes
      BY <2>1, <2>2, <3>1
    <3>3. ~(filepos - (p - r) < BlockBytes)
      BY <1>4, <2>1
    <3> QED BY <1>1, <3>2, <3>3, BlockBytesAssumption
  <2>4. m \div BlockBytes <= filepos \div BlockBytes
    BY <1>1, <2>3, DivMono, BlockBytesAssumption
  <2>5. m \div BlockBytes = q + 1
    <3>1. PICK c \in Nat, d \in 0 .. BlockBytes - 1 : c = q + 1 /\ d = 0
      BY BlockBytesAssumption
    <3>2. (c * BlockBytes + d) \div BlockBytes = c
      BY DivOf, BlockBytesAssumption
    <3>3. c * BlockBytes + d = m
      BY <2>2, <3>1, BlockBytesAssumption
    <3> QED BY <3>1, <3>2, <3>3
  <2>6. (p + BlockBytes) \div BlockBytes = p \div BlockBytes + 1
    <3>1. 1 * BlockBytes = BlockBytes
      BY BlockBytesAssumption
    <3>2. (p + 1 * BlockBytes) \div BlockBytes = p \div BlockBytes + 1
      BY DivAdd, BlockBytesAssumption
    <3> QED BY <3>1, <3>2
  <2>7. cache'.filepos \div BlockBytes = q + 1
    BY <1>4, <2>1, <2>6
  <2> QED BY <1>1, <2>4, <2>5, <2>7 DEF ListAt
<1>5. \/ cache' = [cache EXCEPT !.filepos = filepos]
      \/ /\ ~(filepos - (p - (p % BlockBytes)) < BlockBytes)
         /\ \/ cache' = [filepos |-> cache.filepos + BlockBytes, list |-> cache.list + 1, num |-> 0]
            \/ cache' = [cache EXCEPT !.filepos = @ + BlockBytes, !.num = @ + 1]
  BY <1>2 DEF ListForward
<1>6. \/ cache'.filepos = filepos
      \/ ~(filepos - (p - (p % BlockBytes)) < BlockBytes) /\ cache'.filepos = p + BlockBytes
  <2>1. CASE cache' = [cache EXCEPT !.filepos = filepos]
    BY <1>1, <2>1
  <2>2. CASE cache' = [filepos |-> cache.filepos + BlockBytes, list |-> cache.list + 1, num |-> 0]
    BY <1>2, <1>5, <2>1, <2>2
  <2>3. CASE cache' = [cache EXCEPT !.filepos = @ + BlockBytes, !.num = @ + 1]
    <3>1. cache'.filepos = cache.filepos + BlockBytes
      BY <1>1, <2>3
    <3> QED BY <1>2, <1>5, <2>1, <3>1
  <2> QED BY <1>5, <2>1, <2>2, <2>3
<1> QED BY <1>3, <1>4, <1>6

LEMMA ListReads ==
  ASSUME Inv, Reads, ListAt, fsys_type = "list", ListTurn
  PROVE  Reads' /\ ListAt'
<1>1. Call /\ At /\ ListInv
  BY DEF Inv
<1>2. CASE ListOpen
  <2>1. call'.op \in {"failed", "opened"}
    BY <1>1, <1>2 DEF ListOpen, DirFinds, DirFails, Returned, Call, CallTyped
  <2> QED BY <2>1, NoRead DEF ListAt
<1>3. CASE ListAim
  <2>1. /\ InRead /\ call' = [call EXCEPT !.op = "list"]
        /\ UNCHANGED <<volume, fsys_type, filepos, filemax>>
        /\ cache' = ListStart \/ (cache' = cache /\ cache.filepos <= filepos)
        /\ filepos \in Nat /\ cache.filepos \in Nat
    BY <1>1, <1>3 DEF ListAim, InRead, ListInv, At
  <2>2. Reads'
    BY <1>1, <2>1, StillReads DEF Call, CallTyped
  <2>3. filepos' = filepos /\ cache'.filepos \in Nat /\ cache'.filepos <= filepos
    BY <2>1 DEF ListStart
  <2>4. cache'.filepos \div BlockBytes <= filepos \div BlockBytes
    BY <2>1, <2>3, DivMono, BlockBytesAssumption
  <2> QED BY <2>2, <2>3, <2>4 DEF ListAt
<1>4. CASE ListForward
  <2>1. InRead /\ UNCHANGED <<volume, fsys_type, filepos, filemax, call>> /\ call.op = "list"
    BY <1>4 DEF ListForward, InRead
  <2> QED BY <1>1, <1>4, <2>1, StillReads, ListAhead DEF Call, CallTyped
<1> QED BY <1>2, <1>3, <1>4, ListReadReads DEF ListTurn

---------------------------------------------------------------------------
(* jfs, xfs. *)

LEMMA CeilOf ==
  ASSUME NEW b \in Nat \ {0}, NEW n \in Nat, n > 0
  PROVE  LET p == CeilDiv(n, b)
         IN  p \in Nat \ {0} /\ n <= p * b /\ (p - 1) * b < n
<1>1. PICK m \in Nat : m = n + b - 1
  <2>1. n + b - 1 \in Nat
    OBVIOUS
  <2> QED BY <2>1
<1>2. PICK q \in Nat, r \in 0 .. b - 1 : q = m \div b /\ m = q * b + r
  BY DivMod
<1>3. PICK k \in Int, l \in Int : k = q * b /\ l = (q - 1) * b /\ l = k - b
  BY SMT
<1>4. n <= k /\ l < n
  BY <1>1, <1>2, <1>3
<1>5. q # 0
  <2>1. q = 0 => k = 0
    BY <1>3
  <2> QED BY <1>4, <2>1
<1>6. CeilDiv(n, b) = q
  BY <1>1, <1>2 DEF CeilDiv
<1> QED BY <1>3, <1>4, <1>5, <1>6

\* A page has its part of the extents, and is followed by the next part.
LEMMA PageParts ==
  ASSUME RunsTyped(volume), NEW ino \in DOMAIN Nodes, NEW p, OnPage(ino, p),
         Len(Runs(ino)) > 0
  PROVE  LET page == PageRuns(ino, p)
         IN  /\ p \in Nat /\ Before(p) \in Nat /\ Len(page) \in Nat /\ Before(p) + Len(page) <= Len(Runs(ino))
             /\ Len(page) > 0
             /\ \A k \in 1..Len(page) : page[k] = Runs(ino)[Before(p) + k]
             /\ NextPage(ino, p) = 0 => Before(p) + Len(page) = Len(Runs(ino))
             /\ NextPage(ino, p) # 0 =>
                  /\ NextPage(ino, p) = p + 1 /\ OnPage(ino, p + 1) /\ Before(p + 1) = Before(p) + Len(page)
                  /\ Before(p + 1) < Len(Runs(ino))
<1>1. PICK R : R = [off : Nat, len : Nat \ {0}, addr : Nat]
  OBVIOUS
<1>2. PICK n \in Nat \ {0}, runs \in Seq(R) : runs = Runs(ino) /\ n = Len(runs)
  <2>1. Runs(ino) \in Seq(R) /\ Len(Runs(ino)) \in Nat
    BY <1>1, RunsOfNode
  <2>2. Len(Runs(ino)) \in Nat \ {0}
    BY <2>1
  <2> QED BY <2>1, <2>2
<1>3. PICK b \in Nat \ {0} : b = ExtentsPerPage
  BY ExtentsAssumption
<1>4. CASE PageCount(ino) = 0
  <2>1. p = 0 /\ Before(p) = 0 /\ PageRuns(ino, p) = runs /\ NextPage(ino, p) = 0
    BY <1>2, <1>4 DEF OnPage, Before, PageRuns, NextPage
  <2>2. \A k \in 1..n : 0 + k = k
    OBVIOUS
  <2> QED BY <1>2, <2>1, <2>2
<1>5. CASE PageCount(ino) # 0
  <2>1. PICK last \in Nat \ {0} : last = PageCount(ino) /\ n <= last * b /\ (last - 1) * b < n
    BY <1>2, <1>3, <1>5, CeilOf DEF PageCount
  <2>2. p \in 1..last
    BY <1>5, <2>1 DEF OnPage
  <2>3. PICK k \in Nat : p = k + 1
    <3>1. p - 1 \in Nat
      BY <2>2
    <3> QED BY <2>2, <3>1
  <2>4. PICK m \in Nat, t \in Nat : m = k * b /\ t = p * b /\ t = m + b
    <3>1. (k + 1) * b = k * b + b /\ k * b \in Nat
      BY SMT
    <3>2. PICK m \in Nat : m = k * b
      BY <3>1
    <3> QED BY <2>3, <3>1, <3>2
  <2>5. PICK x \in Int : x = (last - 1) * b
    BY <2>1
  <2>6. m < n
    <3>1. CASE k = last - 1
      BY <2>1, <2>4, <3>1
    <3>2. CASE k # last - 1
      <4>1. k < last - 1 /\ last - 1 \in Int
        BY <2>2, <2>3, <3>2
      <4>2. m + b <= x
        BY <2>4, <2>5, <4>1, LessTimes
      <4> QED BY <2>1, <2>4, <2>5, <4>2
    <3> QED BY <3>1, <3>2
  <2>7. p < last => t < n
    <3>1. CASE p = last - 1
      BY <2>1, <2>4, <3>1
    <3>2. CASE p < last - 1
      <4>1. p < last - 1 /\ last - 1 \in Int /\ p \in Int
        BY <2>1, <2>2, <3>2
      <4>2. t + b <= x
        BY <2>4, <2>5, <4>1, LessTimes
      <4> QED BY <2>1, <2>4, <2>5, <4>2
    <3> QED BY <2>1, <2>2, <3>1, <3>2
  <2>8. p = last => n <= t
    BY <2>1, <2>4
  <2>9. PICK e \in Nat : e = Lesser(t, n)
    BY DEF Lesser
  <2>10. e <= n /\ m < e /\ (p < last => e = t) /\ (p = last => e = n)
    BY <2>4, <2>6, <2>7, <2>8, <2>9 DEF Lesser
  <2>11. Before(p) = m /\ PageRuns(ino, p) = SubSeq(runs, m + 1, e)
    <3>1. p # 0 /\ p - 1 = k
      BY <2>2, <2>3
    <3> QED BY <1>2, <1>3, <2>4, <2>9, <3>1 DEF Before, PageRuns
  <2>12. PICK len \in Nat : len = e - m
    <3>1. e - m \in Nat
      BY <2>10
    <3> QED BY <3>1
  <2>13. Len(SubSeq(runs, m + 1, e)) = len /\ \A i \in 1..len : SubSeq(runs, m + 1, e)[i] = runs[m + i]
    <3>1. m + 1 \in 1..n + 1 /\ e \in 0..n
      BY <2>10
    <3>2. SubSeq(runs, m + 1, e) = [i \in 1..len |-> runs[m + i]]
      <4>1. SubSeq(runs, m + 1, e) = [i \in 1..(1 + e - (m + 1)) |-> runs[i + (m + 1) - 1]]
        BY <1>2, <3>1
      <4>2. 1 + e - (m + 1) = len /\ \A i \in 1..len : i + (m + 1) - 1 = m + i
        BY <2>12
      <4> QED BY <4>1, <4>2
    <3>3. SubSeq(runs, m + 1, e) \in Seq(R)
      BY <1>2, <3>1
    <3> QED BY <3>2, <3>3
  <2>14. NextPage(ino, p) = IF p < last THEN p + 1 ELSE 0
    BY <2>1, <2>2 DEF NextPage
  <2>15. p < last => OnPage(ino, p + 1) /\ Before(p + 1) = t
    <3> SUFFICES ASSUME p < last PROVE OnPage(ino, p + 1) /\ Before(p + 1) = t
      OBVIOUS
    <3>1. p + 1 \in 1..last /\ p + 1 - 1 = p /\ p + 1 # 0
      BY <2>2
    <3> QED BY <1>3, <1>5, <2>1, <2>4, <3>1 DEF OnPage, Before
  <2> QED BY <1>2, <2>2, <2>7, <2>10, <2>11, <2>12, <2>13, <2>14, <2>15
<1> QED BY <1>4, <1>5

\* The extent after the one looked at.
LEMMA NextLooks ==
  ASSUME Inv, fsys_type \in {"jfs", "xfs"}, call.op = "extents", ~volume.excused,
         NEW i \in Nat, LooksAt(cache, i)
  PROVE  /\ Xad = Runs(call.ino)[i] /\ AtAnExtent
         /\ i + 1 \in DOMAIN Runs(call.ino) => LooksAt(NextExtent, i + 1)
<1>1. /\ call.ino \in DOMAIN Nodes /\ RunsTyped(volume) /\ ExtentsInv /\ XadsTyped(volume)
      /\ volume.format = fsys_type
  BY Running, VolumesAssumption DEF Inv, Call, AtNode
<1>2. PICK c : c = cache /\ c \in [ino : {0} \cup DOMAIN Nodes, page : Nat, xad : Nat, xindex : Nat]
  BY <1>1 DEF ExtentsInv
<1>3. PICK ino \in DOMAIN Nodes : ino = call.ino /\ ino = c.ino
  BY <1>1, <1>2 DEF LooksAt
<1>4. PICK n \in Nat : n = Len(Runs(ino)) /\ DOMAIN Runs(ino) = 1..n /\ n > 0
  <2>1. DOMAIN Runs(ino) = 1..Len(Runs(ino)) /\ Len(Runs(ino)) \in Nat
    BY <1>1, RunsOfNode
  <2> QED BY <1>3, <2>1 DEF LooksAt
<1>5. PICK p \in Nat, first \in Nat, len \in Nat :
        /\ p = c.page /\ first = Before(p) /\ len = Len(PageRuns(ino, p)) /\ OnPage(ino, p)
        /\ first + len <= n /\ len > 0 /\ \A k \in 1..len : PageRuns(ino, p)[k] = Runs(ino)[first + k]
        /\ NextPage(ino, p) = 0 => first + len = n
        /\ NextPage(ino, p) # 0 =>
             /\ NextPage(ino, p) = p + 1 /\ OnPage(ino, p + 1) /\ Before(p + 1) = first + len
             /\ Before(p + 1) < n
  <2>1. PICK p : p = c.page
    OBVIOUS
  <2>2. OnPage(ino, p) /\ Len(Runs(ino)) > 0
    BY <1>2, <1>3, <1>4, <2>1 DEF LooksAt
  <2>3. PICK page : page = PageRuns(ino, p)
    OBVIOUS
  <2>4. /\ p \in Nat /\ Before(p) \in Nat /\ Len(page) \in Nat /\ Before(p) + Len(page) <= n
        /\ Len(page) > 0
        /\ \A k \in 1..Len(page) : page[k] = Runs(ino)[Before(p) + k]
        /\ NextPage(ino, p) = 0 => Before(p) + Len(page) = n
        /\ NextPage(ino, p) # 0 =>
             /\ NextPage(ino, p) = p + 1 /\ OnPage(ino, p + 1) /\ Before(p + 1) = Before(p) + Len(page)
             /\ Before(p + 1) < n
    BY <1>1, <1>4, <2>2, <2>3, PageParts
  <2> QED BY <2>1, <2>2, <2>3, <2>4
<1>6. PICK xad \in 1..len : xad = c.xad /\ i = first + xad /\ (fsys_type = "jfs" => c.xindex = xad)
  BY <1>2, <1>3, <1>5 DEF LooksAt
<1>7. Xad = Runs(call.ino)[i]
  BY <1>2, <1>3, <1>5, <1>6 DEF Xad
<1>8. AtAnExtent
  <2>1. ino # 0
    <3>1. NodesTyped(volume) /\ ino \in DOMAIN volume.nodes
      BY <1>3, Running DEF Inv, Nodes
    <3> QED BY <3>1 DEF NodesTyped
  <2> QED BY <1>2, <1>3, <1>5, <1>6, <2>1 DEF AtAnExtent
<1>9. ASSUME i + 1 \in DOMAIN Runs(call.ino), NEW d \in [ino : {ino}, page : Nat, xad : Nat, xindex : Nat],
             d.page = p /\ d.xad = xad + 1 /\ xad < len /\ (fsys_type = "jfs" => d.xindex = d.xad)
      PROVE  LooksAt(d, i + 1)
  <2>1. i + 1 = first + (xad + 1) /\ xad + 1 \in 1..len
    BY <1>6, <1>9
  <2> QED BY <1>3, <1>5, <1>9, <2>1 DEF LooksAt
<1>10. CASE fsys_type = "xfs"
  <2> SUFFICES ASSUME i + 1 \in DOMAIN Runs(call.ino) PROVE LooksAt(XfsNext(c), i + 1)
    BY <1>2, <1>7, <1>8, <1>10 DEF NextExtent
  <2>1. CASE xad < len
    <3>1. PICK x \in Nat : x = xad + 1
      OBVIOUS
    <3>2. XfsNext(c) = [c EXCEPT !.xad = x]
      BY <1>3, <1>5, <1>6, <2>1, <3>1 DEF XfsNext
    <3>3. PICK d : d = XfsNext(c)
      OBVIOUS
    <3>4. d \in [ino : {ino}, page : Nat, xad : Nat, xindex : Nat] /\ d.page = p /\ d.xad = xad + 1
      BY <1>2, <1>3, <1>5, <3>1, <3>2, <3>3
    <3> QED BY <1>9, <1>10, <2>1, <3>3, <3>4
  <2>2. CASE ~(xad < len)
    <3>1. xad = len /\ i = first + len /\ i + 1 <= n
      BY <1>3, <1>4, <1>6, <2>2
    <3>2. NextPage(ino, p) # 0
      BY <1>5, <3>1
    <3>3. XfsNext(c) = AtExtent(ino, p + 1, 1)
      BY <1>3, <1>5, <1>6, <2>2, <3>2 DEF XfsNext
    <3>4. Len(PageRuns(ino, p + 1)) \in Nat /\ Len(PageRuns(ino, p + 1)) > 0
      BY <1>1, <1>4, <1>5, <3>2, PageParts
    <3>5. i + 1 = Before(p + 1) + 1 /\ 1 \in 1..Len(PageRuns(ino, p + 1))
      BY <1>5, <3>1, <3>2, <3>4
    <3> QED BY <1>3, <1>5, <1>10, <3>2, <3>3, <3>5 DEF LooksAt, AtExtent
  <2> QED BY <2>1, <2>2
<1>11. CASE fsys_type = "jfs"
  <2> SUFFICES ASSUME i + 1 \in DOMAIN Runs(call.ino) PROVE LooksAt(JfsNext(c), i + 1)
    BY <1>2, <1>7, <1>8, <1>11 DEF NextExtent
  <2>1. n <= ExtentsPerPage
    <3>1. ino \in DOMAIN volume.nodes /\ Runs(ino) = volume.nodes[ino].runs
      BY <1>3 DEF Nodes, Runs, Node
    <3> QED BY <1>1, <1>4, <1>11, <3>1 DEF XadsTyped
  <2>2. PageCount(ino) = 0
    BY <1>4, <2>1 DEF PageCount
  <2>3. NextPage(ino, p) = 0
    BY <1>5, <2>2 DEF NextPage, OnPage
  <2>4. xad < len
    BY <1>3, <1>4, <1>5, <1>6, <2>3
  <2>5. PICK x \in Nat : x = xad + 1
    OBVIOUS
  <2>6. JfsNext(c) = [c EXCEPT !.xindex = x, !.xad = x]
    <3>1. c.xindex < Len(PageRuns(c.ino, c.page)) /\ c.xindex + 1 = x /\ c.xad + 1 = x
      BY <1>3, <1>5, <1>6, <1>11, <2>4, <2>5
    <3> QED BY <3>1 DEF JfsNext
  <2>7. PICK d : d = JfsNext(c)
    OBVIOUS
  <2>8. d \in [ino : {ino}, page : Nat, xad : Nat, xindex : Nat] /\ d.page = p /\ d.xad = xad + 1
        /\ d.xindex = d.xad
    BY <1>2, <1>3, <1>5, <2>5, <2>6, <2>7
  <2> QED BY <1>9, <2>4, <2>7, <2>8
<1> QED BY <1>10, <1>11

\* What the extent holds of the file, and where that ends.
LEMMA ExtentBytes ==
  ASSUME Inv, FilesOpen, fsys_type \in {"jfs", "xfs"}, call.op = "extents", call.left > 0, ~volume.excused,
         NEW i \in DOMAIN Runs(call.ino), Xad = Runs(call.ino)[i], Xad.off * BlockBytes <= filepos
  PROVE  LET n == Lesser((Xad.off + Xad.len) * BlockBytes - filepos, call.left)
         IN  /\ InExtent => /\ n \in 0..call.left
                            /\ DiskBytes(Xad.addr, filepos - Xad.off * BlockBytes, n) = FilePiece(filepos, n)
                            /\ n < call.left => (Xad.off + Xad.len) * BlockBytes <= filepos + n
             /\ ~InExtent => (Xad.off + Xad.len) * BlockBytes <= filepos
             /\ i + 1 \in DOMAIN Runs(call.ino) => Runs(call.ino)[i + 1].off = Xad.off + Xad.len
             /\ i + 1 \notin DOMAIN Runs(call.ino) => filemax <= (Xad.off + Xad.len) * BlockBytes
<1>1. /\ call.ino \in DOMAIN Nodes /\ RunsTyped(volume) /\ XadsTyped(volume) /\ Call /\ At
      /\ volume.format = fsys_type
  BY Running, VolumesAssumption DEF Inv, Call, AtNode
<1>2. PICK node : node = Node(call.ino)
  OBVIOUS
<1>3. /\ Xad \in [off : Nat, len : Nat \ {0}, addr : Nat]
      /\ i + 1 \in DOMAIN Runs(call.ino) => Runs(call.ino)[i + 1].off = Xad.off + Xad.len
      /\ i + 1 \notin DOMAIN Runs(call.ino) => Xad.off + Xad.len = Len(node.blocks)
      /\ \A j \in 0..Xad.len - 1 :
           node.blocks[Xad.off + j + 1] = IF Xad.addr = Hole THEN Hole ELSE Xad.addr + j
  BY <1>1, <1>2, RunsOfNode
<1>4. PICK off \in Nat, len \in Nat \ {0}, addr \in Nat : off = Xad.off /\ len = Xad.len /\ addr = Xad.addr
  BY <1>3
<1>5. addr # 0 /\ \A j \in 0..len - 1 : node.blocks[off + j + 1] = addr + j
  <2>1. addr # 0
    <3>1. call.ino \in DOMAIN volume.nodes /\ Runs(call.ino) = volume.nodes[call.ino].runs
      BY <1>1 DEF Nodes, Runs, Node
    <3>2. Runs(call.ino)[i].addr # Hole
      BY <1>1, <3>1 DEF XadsTyped
    <3> QED BY <1>4, <3>2 DEF Hole
  <2> QED BY <1>3, <1>4, <2>1 DEF Hole
<1>6. /\ filepos \in Nat /\ filemax \in Nat /\ call.left \in Nat /\ filepos + call.left <= filemax
      /\ filemax <= Len(node.blocks) * BlockBytes
  <2>1. Node(call.ino).type = "file" /\ filemax = Node(call.ino).size
    BY DEF FilesOpen
  <2>2. filemax <= Len(node.blocks) * BlockBytes
    BY <1>1, <1>2, <2>1, InFile
  <2> QED BY <1>1, <2>2 DEF At, Call, CallTyped
<1>7. PICK a \in Nat, c \in Nat, z \in Nat :
        a = off * BlockBytes /\ c = len * BlockBytes /\ z = (off + len) * BlockBytes /\ z = a + c
  <2>1. (off + len) * BlockBytes = off * BlockBytes + len * BlockBytes
    BY BlockBytesAssumption, SMT
  <2>2. PICK a \in Nat, c \in Nat : a = off * BlockBytes /\ c = len * BlockBytes
    BY BlockBytesAssumption
  <2>3. PICK z \in Nat : z = a + c
    OBVIOUS
  <2> QED BY <2>1, <2>2, <2>3
<1>8. a <= filepos
  BY <1>4, <1>7
<1>9. PICK l \in Nat, r \in 0 .. BlockBytes - 1, t \in Nat :
        l = filepos \div BlockBytes /\ filepos = t + r /\ t = l * BlockBytes
  <2>1. PICK l \in Nat, r \in 0 .. BlockBytes - 1 :
          l = filepos \div BlockBytes /\ filepos = l * BlockBytes + r
    BY <1>6, Quotient
  <2>2. PICK t \in Nat : t = l * BlockBytes
    BY BlockBytesAssumption
  <2> QED BY <2>1, <2>2
<1>10. InExtent => filepos < z
  <2> SUFFICES ASSUME l < off + len PROVE filepos < z
    BY <1>4, <1>9 DEF InExtent
  <2>1. t + BlockBytes <= z
    <3>1. PICK m \in Nat : m = off + len
      OBVIOUS
    <3>2. l * BlockBytes + BlockBytes <= m * BlockBytes
      BY <3>1, LessTimes, BlockBytesAssumption
    <3> QED BY <1>7, <1>9, <3>1, <3>2
  <2> QED BY <1>9, <2>1, BlockBytesAssumption
<1>11. ~InExtent => z <= filepos
  <2>1. off <= l
    <3>1. (off * BlockBytes) \div BlockBytes = off
      <4>1. (off * BlockBytes + 0) \div BlockBytes = off
        BY DivOf, BlockBytesAssumption
      <4>2. off * BlockBytes + 0 = off * BlockBytes
        BY <1>7
      <4> QED BY <4>1, <4>2
    <3>2. a \div BlockBytes <= filepos \div BlockBytes
      BY <1>6, <1>8, DivMono, BlockBytesAssumption
    <3> QED BY <1>7, <1>9, <3>1, <3>2
  <2> SUFFICES ASSUME ~(l < off + len) PROVE z <= filepos
    BY <1>4, <1>9, <2>1 DEF InExtent
  <2>2. PICK m \in Nat : m = off + len /\ m <= l
    OBVIOUS
  <2>3. z <= t
    <3>1. CASE m = l
      BY <1>7, <1>9, <2>2, <3>1
    <3>2. CASE m < l
      <4>1. z + BlockBytes <= t
        BY <1>7, <1>9, <2>2, <3>2, LessTimes, BlockBytesAssumption
      <4> QED BY <4>1, <1>7, <1>9, BlockBytesAssumption
    <3> QED BY <2>2, <3>1, <3>2
  <2> QED BY <1>9, <2>3, BlockBytesAssumption
<1>12. ASSUME InExtent
       PROVE  LET n == Lesser(z - filepos, call.left)
              IN  /\ n \in 0..call.left
                  /\ DiskBytes(addr, filepos - a, n) = FilePiece(filepos, n)
                  /\ n < call.left => z <= filepos + n
  <2>1. PICK n \in Nat : n = Lesser(z - filepos, call.left) /\ n <= call.left /\ n <= z - filepos
                         /\ (n < call.left => n = z - filepos)
    <3>1. PICK m \in Nat : m = z - filepos
      <4>1. z - filepos \in Nat
        BY <1>6, <1>10, <1>12
      <4> QED BY <4>1
    <3>2. Lesser(m, call.left) \in Nat
      BY <1>6, <3>1 DEF Lesser
    <3> QED BY <1>6, <3>1, <3>2 DEF Lesser
  <2>2. PICK offset \in Nat : offset = filepos - a /\ filepos = a + offset
    <3>1. filepos - a \in Nat
      BY <1>6, <1>8
    <3> QED BY <1>6, <3>1
  <2>3. InLine(node, off, addr, offset, n)
    <3> SUFFICES ASSUME NEW j \in Nat, j * BlockBytes < offset + n
                 PROVE  node.blocks[off + j + 1] = addr + j /\ addr + j # Hole
      BY DEF InLine
    <3>1. offset + n <= c
      <4>1. z = a + c /\ filepos = a + offset /\ n <= z - filepos
        BY <1>7, <2>1, <2>2
      <4> QED BY <4>1
    <3>2. j < len
      <4>1. PICK m \in Nat : m = j * BlockBytes /\ m < c
        <5>1. PICK m \in Nat : m = j * BlockBytes
          BY BlockBytesAssumption
        <5> QED BY <2>1, <2>2, <3>1, <5>1
      <4>2. ASSUME len <= j PROVE FALSE
        <5>1. CASE len = j
          BY <1>7, <4>1, <5>1
        <5>2. CASE len < j
          <6>1. c + BlockBytes <= m
            BY <1>7, <4>1, <5>2, LessTimes, BlockBytesAssumption
          <6> QED BY <4>1, <6>1, BlockBytesAssumption
        <5> QED BY <4>2, <5>1, <5>2
      <4> QED BY <4>2
    <3>3. j \in 0..len - 1 /\ addr + j # 0
      BY <1>5, <3>2
    <3> QED BY <1>5, <3>3 DEF Hole
  <2>4. DiskBytes(addr, offset, n) = Stretch(node, filepos, n)
    <3>1. filepos = off * BlockBytes + offset
      BY <1>7, <2>2
    <3> QED BY <2>3, <3>1, DiskStretch
  <2>5. DiskBytes(addr, filepos - a, n) = FilePiece(filepos, n)
    BY <1>2, <2>2, <2>4 DEF FilePiece
  <2> QED BY <1>6, <2>1, <2>5
<1>13. i + 1 \notin DOMAIN Runs(call.ino) => filemax <= z
  BY <1>3, <1>4, <1>6, <1>7
<1> QED BY <1>3, <1>4, <1>7, <1>10, <1>11, <1>12, <1>13

LEMMA ReadExtentReads ==
  ASSUME Inv, Reads, FilesOpen, ExtentsAt, fsys_type \in {"jfs", "xfs"}, ReadExtent
  PROVE  Reads' /\ FilesOpen' /\ ExtentsAt'
<1>1. /\ Call /\ At /\ InRead /\ call.op = "extents" /\ call.left > 0 /\ cache' = NextExtent /\ call.left \in Nat
      /\ filepos \in Nat /\ filemax \in Nat /\ filepos + call.left <= filemax
  BY DEF Inv, ReadExtent, InRead, Call, CallTyped, At
<1>2. /\ call'.op = "extents" /\ call'.ino = call.ino /\ UNCHANGED <<volume, fsys_type, filemax>>
  <2>1. CASE InExtent
    BY <1>1, <2>1 DEF ReadExtent, Advance, AdvanceTo, Call, CallTyped
  <2>2. CASE ~InExtent
    BY <1>1, <2>2 DEF ReadExtent
  <2> QED BY <2>1, <2>2
<1>3. FilesOpen'
  BY <1>1, <1>2, StaysOpen
<1>4. CASE volume.excused
  BY <1>2, <1>3, <1>4 DEF Reads, Sure, ExtentsAt
<1>5. CASE ~volume.excused
  <2>1. PICK i \in Nat : LooksAt(cache, i) /\ Runs(call.ino)[i].off * BlockBytes <= filepos
    BY <1>1, <1>5 DEF ExtentsAt
  <2>2. /\ Xad = Runs(call.ino)[i] /\ i \in DOMAIN Runs(call.ino)
        /\ i + 1 \in DOMAIN Runs(call.ino) => LooksAt(NextExtent, i + 1)
    BY <1>1, <1>5, <2>1, NextLooks DEF LooksAt
  <2>3. PICK n, z, offset :
          /\ n = Lesser((Xad.off + Xad.len) * BlockBytes - filepos, call.left)
          /\ z = (Xad.off + Xad.len) * BlockBytes /\ offset = filepos - Xad.off * BlockBytes
    OBVIOUS
  <2>4. /\ InExtent => /\ n \in 0..call.left /\ DiskBytes(Xad.addr, offset, n) = FilePiece(filepos, n)
                       /\ n < call.left => z <= filepos + n
        /\ ~InExtent => z <= filepos
        /\ i + 1 \in DOMAIN Runs(call.ino) => Runs(call.ino)[i + 1].off * BlockBytes = z
        /\ i + 1 \notin DOMAIN Runs(call.ino) => filemax <= z
    BY <1>1, <1>5, <2>1, <2>2, <2>3, ExtentBytes
  <2>5. z \in Nat
    <3>1. PICK runs : runs = Runs(call.ino) /\ runs[i] \in [off : Nat, len : Nat \ {0}, addr : Nat]
      <4>1. call.ino \in DOMAIN Nodes /\ RunsTyped(volume)
        BY <1>1, Running DEF Call, AtNode
      <4> QED BY <2>2, <4>1, RunsOfNode
    <3>2. PICK m \in Nat : m = Xad.off + Xad.len
      BY <2>2, <3>1
    <3> QED BY <2>3, <3>2, BlockBytesAssumption
  <2>6. ASSUME call'.left > 0, z <= filepos', filepos' + call'.left <= filemax, filepos' \in Nat, call'.left \in Nat
        PROVE  ExtentsAt'
    <3>1. i + 1 \in DOMAIN Runs(call.ino)
      BY <1>1, <2>4, <2>5, <2>6
    <3>2. LooksAt(cache', i + 1) /\ Runs(call.ino)[i + 1].off * BlockBytes <= filepos'
      BY <1>1, <2>2, <2>4, <2>6, <3>1
    <3>3. LooksAt(cache, i + 1)' /\ (Runs(call.ino)[i + 1].off * BlockBytes <= filepos)'
      BY <1>2, <3>2 DEF LooksAt, Runs, Node, Nodes, OnPage, PageCount, PageRuns
    <3>4. i + 1 \in Nat
      OBVIOUS
    <3> QED BY <3>3, <3>4 DEF ExtentsAt
  <2>7. CASE InExtent
    <3>1. AdvanceTo("extents", Xad.addr, offset, n)
      BY <1>1, <2>3, <2>7 DEF ReadExtent, Advance
    <3>2. Reads'
      BY <1>1, <2>4, <2>7, <3>1, AdvanceReads
    <3>3. call'.left = call.left - n /\ filepos' = filepos + n
      BY <1>1, <3>1 DEF AdvanceTo, Call, CallTyped
    <3>4. CASE n < call.left
      BY <1>1, <1>3, <2>4, <2>6, <2>7, <3>2, <3>3, <3>4
    <3>5. CASE n = call.left
      <4>1. call'.left = 0
        BY <1>1, <3>3, <3>5
      <4> QED BY <1>3, <3>2, <4>1 DEF ExtentsAt
    <3> QED BY <1>1, <2>4, <2>7, <3>4, <3>5
  <2>8. CASE ~InExtent
    <3>1. UNCHANGED <<fsys_type, volume, filepos, filemax, errnum, call>>
      BY <2>8 DEF ReadExtent
    <3>2. Reads'
      BY <1>1, <3>1, StillReads DEF Call, CallTyped
    <3> QED BY <1>1, <1>3, <2>4, <2>6, <2>8, <3>1, <3>2
  <2> QED BY <2>7, <2>8
<1> QED BY <1>4, <1>5

\* A read begins with the first extent.
LEMMA FirstExtentReads ==
  ASSUME Inv, Reads, FilesOpen, fsys_type \in {"jfs", "xfs"}, FirstExtent
  PROVE  Reads' /\ FilesOpen' /\ ExtentsAt'
<1>1. /\ Call /\ At /\ InRead /\ call.op = "reading" /\ UNCHANGED <<fsys_type, volume, filepos, filemax>>
      /\ call.ino \in DOMAIN Nodes /\ FileOpen
  BY DEF Inv, FirstExtent, Call, AtNode, InRead, FileOpen
<1>2. /\ call'.op \in {"extents", "reading"} /\ call'.left = call.left /\ call'.buf = call.buf
      /\ call'.want = call.want /\ call'.ino = call.ino /\ (call'.lost \/ ~call.lost)
      /\ call'.op = "extents" => cache' = AtExtent(call.ino, IF PageCount(call.ino) = 0 THEN 0 ELSE 1, 1)
  <2>1. CASE call' = [call EXCEPT !.op = "extents"]
    <3>1. cache' = AtExtent(call.ino, IF PageCount(call.ino) = 0 THEN 0 ELSE 1, 1)
      BY <1>1, <2>1 DEF FirstExtent, MayLose, Call, CallTyped
    <3> QED BY <1>1, <2>1, <3>1 DEF Call, CallTyped
  <2>2. CASE call' = [call EXCEPT !.lost = TRUE]
    BY <1>1, <2>2 DEF Call, CallTyped
  <2> QED BY <2>1, <2>2 DEF FirstExtent
<1>3. Reads'
  BY <1>1, <1>2, StillReads
<1>4. FilesOpen'
  BY <1>1, <1>2, StaysOpen
<1>5. ASSUME call'.op = "extents", call'.left > 0, ~volume.excused
      PROVE  ExtentsAt'
  <2>1. PICK p \in {0, 1} : p = IF PageCount(call.ino) = 0 THEN 0 ELSE 1
    OBVIOUS
  <2>2. RunsTyped(volume)
    BY <1>1, Running
  <2>3. /\ DOMAIN Runs(call.ino) = 1..Len(Runs(call.ino)) /\ Len(Runs(call.ino)) \in Nat
        /\ Runs(call.ino) # <<>> => 1 \in DOMAIN Runs(call.ino) /\ Runs(call.ino)[1].off = 0
        /\ \A l \in 0..Len(Node(call.ino).blocks) - 1 : \E k \in DOMAIN Runs(call.ino) :
             Runs(call.ino)[k].off <= l /\ l < Runs(call.ino)[k].off + Runs(call.ino)[k].len
    BY <1>1, <2>2, RunsOfNode
  <2>4. Runs(call.ino) # <<>>
    <3>1. Node(call.ino).type = "file" /\ filemax = Node(call.ino).size
      BY <1>1 DEF FilesOpen
    <3>2. /\ filepos \div BlockBytes \in Nat /\ filepos \div BlockBytes < Len(Node(call.ino).blocks)
          /\ Len(Node(call.ino).blocks) \in Nat
      BY <1>1, <1>2, <1>5, <3>1, InFile
    <3>3. filepos \div BlockBytes \in 0..Len(Node(call.ino).blocks) - 1
      BY <3>2
    <3> QED BY <2>3, <3>3
  <2>5. 1 \in DOMAIN Runs(call.ino) /\ Runs(call.ino)[1].off = 0 /\ Len(Runs(call.ino)) > 0
    BY <2>3, <2>4
  <2>6. OnPage(call.ino, p)
    <3>1. CASE PageCount(call.ino) = 0
      BY <2>1, <3>1 DEF OnPage
    <3>2. CASE PageCount(call.ino) # 0
      <4>1. Len(Runs(call.ino)) \in Nat /\ CeilDiv(Len(Runs(call.ino)), ExtentsPerPage) \in Nat \ {0}
        BY <2>3, <2>5, CeilOf, ExtentsAssumption
      <4>2. PageCount(call.ino) \in Nat \ {0}
        BY <3>2, <4>1 DEF PageCount
      <4> QED BY <2>1, <3>2, <4>2 DEF OnPage
    <3> QED BY <3>1, <3>2
  <2>7. Len(PageRuns(call.ino, p)) \in Nat /\ Len(PageRuns(call.ino, p)) > 0
    BY <1>1, <2>2, <2>5, <2>6, PageParts
  <2>8. Before(p) = 0
    BY <2>1, ExtentsAssumption DEF Before
  <2>9. cache' = AtExtent(call.ino, p, 1)
    BY <1>2, <1>5, <2>1
  <2>10. LooksAt(cache', 1)
    BY <2>5, <2>6, <2>7, <2>8, <2>9 DEF LooksAt, AtExtent
  <2>11. Runs(call.ino)[1].off * BlockBytes <= filepos
    BY <1>1, <2>5, BlockBytesAssumption DEF At
  <2>12. LooksAt(cache, 1)' /\ (Runs(call.ino)[1].off * BlockBytes <= filepos)'
    BY <1>1, <1>2, <2>10, <2>11 DEF LooksAt, Runs, Node, Nodes, OnPage, PageCount, PageRuns
  <2> QED BY <2>12 DEF ExtentsAt
<1> QED BY <1>1, <1>3, <1>4, <1>5 DEF ExtentsAt

LEMMA ExtentsRead ==
  ASSUME Inv, Reads, FilesOpen, ExtentsAt, fsys_type \in {"jfs", "xfs"}, ExtentTurn
  PROVE  Reads' /\ FilesOpen' /\ ExtentsAt'
<1>1. Call
  BY DEF Inv
<1>2. ASSUME NotReading PROVE Reads' /\ FilesOpen' /\ ExtentsAt'
  BY <1>2, NotReadingReads DEF NotReading, ExtentsAt
<1>3. CASE InodeLoaded(ExtentsUnset)
  BY <1>1, <1>2, <1>3, LoadedNotReading
<1>8. CASE StaleInode \/ StaleLink
  BY <1>1, <1>2, <1>8 DEF StaleInode, StaleLink, NotReading, Call, CallTyped
<1>4. CASE SearchEnds
  BY <1>1, <1>2, <1>4, EndsNotReading
<1>5. CASE EntryLost
  BY <1>1, <1>2, <1>5 DEF EntryLost, NotReading, Call, CallTyped
<1>6. CASE ExtentSearch
  BY <1>1, <1>2, <1>6, SeeNotReading DEF ExtentSearch
<1>7. CASE ExtentsEnd
  <2>1. InRead /\ UNCHANGED <<volume, fsys_type, filepos, filemax>> /\ call' = Returned("read", call.buf)
        /\ call.op = "extents" /\ ~(call.left > 0 /\ AtAnExtent) /\ call.left \in Nat
    BY <1>1, <1>7 DEF ExtentsEnd, ShortRead, InRead, Call, CallTyped
  <2>2. call.left = 0 \/ volume.excused
    <3> SUFFICES ASSUME call.left > 0, ~volume.excused PROVE AtAnExtent
      BY <2>1
    <3> QED BY <2>1, NextLooks DEF ExtentsAt
  <2>3. Reads'
    BY <1>1, <2>1, <2>2, ReturnReads
  <2>4. call'.op = "read" /\ call'.ino = call.ino
    BY <1>1, <2>1 DEF Returned, Call, CallTyped
  <2> QED BY <2>1, <2>3, <2>4, StaysOpen DEF ExtentsAt
<1> QED BY <1>3, <1>4, <1>5, <1>6, <1>7, <1>8, FirstExtentReads, ReadExtentReads DEF ExtentTurn

---------------------------------------------------------------------------
(* ntfs. *)

LEMMA ProductBelow ==
  ASSUME NEW b \in Nat \ {0}, NEW j \in Nat, NEW m \in Nat, j * b < m * b
  PROVE  j < m
<1>1. PICK k \in Nat, l \in Nat : k = j * b /\ l = m * b
  <2>1. j * b \in Nat /\ m * b \in Nat
    BY SMT
  <2> QED BY <2>1
<1>2. ASSUME m < j PROVE FALSE
  <2>1. l + b <= k
    BY <1>1, <1>2, LessTimes
  <2> QED BY <1>1, <2>1
<1>3. m # j
  BY <1>1
<1> QED BY <1>2, <1>3

\* A part of the bytes of a node.
PartOf(s, o, n) == SubSeq(s, o + 1, o + n)
LEMMA StretchPart ==
  ASSUME NEW node, NEW from \in Nat, NEW len \in Nat, NEW o \in Nat, NEW n \in Nat, o + n <= len,
         NEW at, at = from + o
  PROVE  PartOf(Stretch(node, from, len), o, n) = Stretch(node, at, n)
<1>1. PICK S : S = {ByteOf(node, p) : p \in Nat}
  OBVIOUS
<1>2. PICK s : s = Stretch(node, from, len)
  OBVIOUS
<1>3. s \in Seq(S) /\ Len(s) = len /\ \A i \in 1..len : s[i] = ByteOf(node, from + i - 1)
  <2>1. \A i \in 1..len : ByteOf(node, from + i - 1) \in S
    <3> SUFFICES ASSUME NEW i \in 1..len PROVE ByteOf(node, from + i - 1) \in S
      OBVIOUS
    <3>1. PICK p \in Nat : p = from + i - 1
      <4>1. from + i - 1 \in Nat
        OBVIOUS
      <4> QED BY <4>1
    <3> QED BY <1>1, <3>1
  <2>2. Stretch(node, from, len) \in Seq(S) /\ Len(Stretch(node, from, len)) = len
    BY <2>1 DEF Stretch
  <2> QED BY <1>2, <2>2 DEF Stretch
<1>4. SubSeq(s, o + 1, o + n) = [i \in 1..n |-> s[o + i]]
  <2>1. SubSeq(s, o + 1, o + n) = [i \in 1..(1 + (o + n) - (o + 1)) |-> s[i + (o + 1) - 1]]
    BY <1>3
  <2>2. 1 + (o + n) - (o + 1) = n /\ \A i \in 1..n : i + (o + 1) - 1 = o + i
    OBVIOUS
  <2> QED BY <2>1, <2>2
<1>5. \A i \in 1..n : s[o + i] = ByteOf(node, from + o + i - 1)
  <2> SUFFICES ASSUME NEW i \in 1..n PROVE s[o + i] = ByteOf(node, from + o + i - 1)
    OBVIOUS
  <2>1. PICK j \in 1..len : j = o + i
    OBVIOUS
  <2>2. from + o + i - 1 = from + j - 1
    BY <2>1
  <2> QED BY <1>3, <2>1, <2>2
<1>6. SubSeq(s, o + 1, o + n) = [i \in 1..n |-> ByteOf(node, from + o + i - 1)]
  BY <1>4, <1>5
<1> QED BY <1>2, <1>6 DEF Stretch, PartOf

\* What read_block reads of a run are the blocks of the file there.
LEMMA RunStretch ==
  ASSUME RunsTyped(volume), call.ino \in DOMAIN Nodes, cache.run \in DOMAIN Runs(call.ino),
         cache.target \in Nat, NtfsRun.off <= cache.target, NEW m \in Nat,
         cache.target + m <= NtfsRun.off + NtfsRun.len,
         NtfsRun \in [off : Nat, len : Nat \ {0}, addr : Nat]
  PROVE  RunBytes(m * BlockBytes) = FilePiece(cache.target * BlockBytes, m * BlockBytes)
<1>1. PICK off \in Nat, len \in Nat, addr \in Nat, t \in Nat, d \in Nat :
        /\ off = NtfsRun.off /\ len = NtfsRun.len /\ addr = NtfsRun.addr /\ t = cache.target
        /\ t = off + d /\ d + m <= len
  <2>1. PICK off \in Nat, len \in Nat, addr \in Nat, t \in Nat :
          off = NtfsRun.off /\ len = NtfsRun.len /\ addr = NtfsRun.addr /\ t = cache.target
    OBVIOUS
  <2>2. t - off \in Nat /\ t = off + (t - off) /\ (t - off) + m <= len
    BY <2>1
  <2> QED BY <2>1, <2>2
<1>2. PICK node : node = Node(call.ino)
  OBVIOUS
<1>3. \A j \in 0..len - 1 : node.blocks[off + j + 1] = IF addr = Hole THEN Hole ELSE addr + j
  <2>1. \A j \in 0..NtfsRun.len - 1 :
          Node(call.ino).blocks[NtfsRun.off + j + 1] =
            IF NtfsRun.addr = Hole THEN Hole ELSE NtfsRun.addr + j
    BY RunsOfNode DEF NtfsRun
  <2> QED BY <1>1, <1>2, <2>1
<1>4. PICK n \in Nat, p \in Nat : n = m * BlockBytes /\ p = t * BlockBytes
  <2>1. m * BlockBytes \in Nat /\ t * BlockBytes \in Nat
    BY BlockBytesAssumption, SMT
  <2> QED BY <2>1
<1>5. ASSUME NEW j \in Nat, j * BlockBytes < n
      PROVE  node.blocks[t + j + 1] = IF addr = Hole THEN Hole ELSE addr + (d + j)
  <2>1. j < m
    BY <1>4, <1>5, ProductBelow, BlockBytesAssumption
  <2>2. PICK i \in 0..len - 1 : i = d + j
    <3>1. d + j \in 0..len - 1
      BY <1>1, <2>1
    <3> QED BY <3>1
  <2>3. t + j + 1 = off + i + 1
    BY <1>1, <2>2
  <2> QED BY <1>3, <2>2, <2>3
<1>6. CASE addr = Hole
  <2>1. ASSUME NEW i \in 1..n
        PROVE  ByteOf(node, p + i - 1) = Zero
    <3>1. PICK e \in Nat : e = i - 1 /\ e < n
      <4>1. i - 1 \in Nat /\ i - 1 < n
        OBVIOUS
      <4> QED BY <4>1
    <3>2. PICK j \in Nat, r \in 0 .. BlockBytes - 1 : j = e \div BlockBytes /\ e = j * BlockBytes + r
      BY <3>1, Quotient
    <3>3. j * BlockBytes < n
      <4>1. PICK k \in Nat : k = j * BlockBytes
        BY BlockBytesAssumption
      <4> QED BY <3>1, <3>2, <4>1, BlockBytesAssumption
    <3>4. (e + t * BlockBytes) \div BlockBytes = j + t
      BY <3>2, DivAdd, BlockBytesAssumption
    <3>5. p + i - 1 = e + t * BlockBytes /\ j + t + 1 = t + j + 1
      BY <1>4, <3>1
    <3> QED BY <1>5, <1>6, <3>3, <3>4, <3>5 DEF ByteOf
  <2>2. Zeroes(n) = Stretch(node, p, n)
    BY <2>1 DEF Zeroes, Stretch
  <2>3. RunBytes(n) = Zeroes(n)
    BY <1>1, <1>6 DEF RunBytes
  <2> QED BY <1>1, <1>2, <1>4, <2>2, <2>3 DEF FilePiece
<1>7. CASE addr # Hole
  <2>1. PICK b \in Nat : b = addr + d /\ b = NtfsRun.addr + cache.target - NtfsRun.off
    <3>1. addr + t - off = addr + d
      BY <1>1
    <3> QED BY <1>1, <3>1
  <2>2. InLine(node, t, b, 0, n)
    <3> SUFFICES ASSUME NEW j \in Nat, j * BlockBytes < 0 + n
                 PROVE  node.blocks[t + j + 1] = b + j /\ b + j # Hole
      BY DEF InLine
    <3>1. 0 + n = n
      OBVIOUS
    <3>2. node.blocks[t + j + 1] = addr + (d + j)
      BY <1>5, <1>7, <3>1
    <3>3. addr + (d + j) = b + j /\ b + j # 0
      BY <1>7, <2>1 DEF Hole
    <3> QED BY <3>2, <3>3 DEF Hole
  <2>3. p = t * BlockBytes + 0
    BY <1>4
  <2>4. DiskBytes(b, 0, n) = Stretch(node, p, n)
    BY <2>2, <2>3, DiskStretch
  <2>5. RunBytes(n) = DiskBytes(b, 0, n)
    BY <1>1, <1>7, <2>1 DEF RunBytes
  <2> QED BY <1>1, <1>2, <1>4, <2>4, <2>5 DEF FilePiece
<1> QED BY <1>6, <1>7

\* A turn of ntfs_read that fails.
LEMMA NtfsFailsReads ==
  ASSUME Call, NEW ok, NtfsFails(ok)
  PROVE  Reads'
BY NoRead DEF NtfsFails, Returned, Call, CallTyped

\* The bytes that sbuf has of the file.
LEMMA NtfsBeginReads ==
  ASSUME Inv, Reads, fsys_type = "ntfs", NtfsBegin
  PROVE  Reads'
<1> DEFINE offset == filepos % BlockBytes
           n      == IF filepos - offset = cache.save_pos
                     THEN Lesser(BlockBytes - offset, call.left) ELSE 0
           bytes  == SubSeq(cache.sbuf, offset + 1, offset + n)
<1>1. /\ Call /\ At /\ InRead /\ call.op = "reading" /\ call.left > 0 /\ call.left \in Nat
      /\ filepos \in Nat /\ UNCHANGED <<fsys_type, volume, filemax>>
      /\ cache.save_pos \in Nat \cup {NoPos} /\ cache.sbuf \in Bytes
      /\ (cache.save_pos # NoPos => Len(cache.sbuf) = BlockBytes)
      /\ (~volume.excused => BufferTrue) /\ call.buf = <<>>
      /\ call' = [call EXCEPT !.op = "blocks", !.left = @ - n, !.buf = bytes]
      /\ filepos' = filepos + n
  BY DEF Inv, NtfsInv, NtfsBegin, Call, CallTyped, At, FileOpen, InRead
<1>2. PICK q \in Nat, r \in 0 .. BlockBytes - 1, from \in Nat :
        q = filepos \div BlockBytes /\ r = offset /\ filepos = from + r /\ from = filepos - offset
  <2>1. PICK q \in Nat, r \in 0 .. BlockBytes - 1 :
          q = filepos \div BlockBytes /\ r = offset /\ filepos = q * BlockBytes + r
    BY <1>1, Quotient
  <2>2. PICK k \in Nat : k = q * BlockBytes
    BY BlockBytesAssumption
  <2> HIDE DEF offset
  <2> QED BY <1>1, <2>1, <2>2, BlockBytesAssumption
<1>3. PICK m \in Nat :
        /\ m = n /\ m \in 0..call.left
        /\ m = 0 \/ (from = cache.save_pos /\ r + m <= BlockBytes)
  <2>1. CASE from = cache.save_pos
    <3>1. n = Lesser(BlockBytes - r, call.left)
      BY <1>2, <2>1
    <3>2. BlockBytes - r \in Nat
      BY BlockBytesAssumption
    <3>3. PICK m \in Nat : m = Lesser(BlockBytes - r, call.left) /\ m <= call.left /\ m <= BlockBytes - r
      BY <1>1, <3>2 DEF Lesser
    <3>4. r + m <= BlockBytes
      BY <3>3, BlockBytesAssumption
    <3>5. m = n
      BY <3>1, <3>3
    <3> HIDE DEF n
    <3> QED BY <1>1, <2>1, <3>3, <3>4, <3>5
  <2>2. CASE from # cache.save_pos
    <3>1. n = 0
      BY <1>2, <2>2
    <3> HIDE DEF n
    <3> QED BY <1>1, <3>1
  <2> QED BY <2>1, <2>2
<1>4. PICK more : more = bytes /\ more = SubSeq(cache.sbuf, r + 1, r + m)
  BY <1>2, <1>3
<1>5. /\ call' = [call EXCEPT !.op = "blocks", !.left = @ - m, !.buf = more] /\ filepos' = filepos + m
  BY <1>1, <1>3, <1>4
<1> HIDE DEF offset, n, bytes
<1>6. r \in Nat /\ (m # 0 => Len(cache.sbuf) = BlockBytes)
  <2>1. from # NoPos
    BY DEF NoPos
  <2> QED BY <1>1, <1>3, <2>1, BlockBytesAssumption
<1>7. more \in Bytes
  BY <1>1, <1>3, <1>4, <1>6, BytesPart
<1>8. more = Then(call.buf, more)
  BY <1>1, <1>7 DEF Then, Bytes
<1>9. ASSUME ~volume.excused
      PROVE  more = FilePiece(filepos, m)
  <2>1. CASE m = 0
    <3>1. more = <<>>
      BY <1>1, <1>4, <1>6, <2>1 DEF Bytes
    <3> QED BY <2>1, <3>1, Nothing DEF FilePiece
  <2>2. CASE m # 0
    <3>1. cache.sbuf = Stretch(Node(call.ino), from, BlockBytes)
      <4>1. from # NoPos
        BY DEF NoPos
      <4>2. cache.sbuf = [i \in 1..BlockBytes |-> ByteOf(Node(call.ino), cache.save_pos + i - 1)]
        BY <1>1, <1>3, <1>9, <2>2, <4>1 DEF BufferTrue, FileOpen
      <4> QED BY <1>3, <2>2, <4>2 DEF Stretch
    <3>2. SubSeq(Stretch(Node(call.ino), from, BlockBytes), r + 1, r + m) = Stretch(Node(call.ino), filepos, m)
      <4>1. BlockBytes \in Nat /\ r + m <= BlockBytes
        BY <1>3, <2>2, BlockBytesAssumption
      <4>2. PartOf(Stretch(Node(call.ino), from, BlockBytes), r, m) = Stretch(Node(call.ino), filepos, m)
        BY <1>2, <1>6, <4>1, StretchPart
      <4> QED BY <4>2 DEF PartOf
    <3> QED BY <1>2, <1>4, <3>1, <3>2 DEF FilePiece
  <2> QED BY <2>1, <2>2
<1>10. /\ call'.op = "blocks" /\ call'.left = call.left - m /\ call'.buf = more
       /\ call'.want = call.want /\ call'.ino = call.ino /\ call'.lost = call.lost /\ call.lost \in BOOLEAN
  BY <1>1, <1>5 DEF Call, CallTyped
<1> QED BY <1>1, <1>3, <1>5, <1>8, <1>9, <1>10, GoesReads

LEMMA NextRunReads ==
  ASSUME Inv, Reads, fsys_type = "ntfs", NextRun
  PROVE  Reads'
<1>1. Call /\ InRead /\ call.op = "blocks"
  BY DEF Inv, InRead, NextRun
<1>2. CASE NtfsFails(TRUE)
  BY <1>1, <1>2, NtfsFailsReads
<1>3. CASE UNCHANGED <<fsys_type, volume, filepos, filemax, call>>
  BY <1>1, <1>3, StillReads DEF Call, CallTyped
<1> QED BY <1>2, <1>3 DEF NextRun

LEMMA NtfsBlocksReads ==
  ASSUME Inv, Reads, fsys_type = "ntfs", NtfsBlocks
  PROVE  Reads'
<1> DEFINE n == Lesser(InRun, NtfsWhole)
<1>1. /\ call.op = "blocks" /\ NtfsWhole > 0 /\ InRun > 0 /\ Call /\ At /\ InRead
      /\ call.left \in Nat /\ filepos \in Nat /\ call.lost \in BOOLEAN
  BY DEF NtfsBlocks, Inv, Call, CallTyped, At, InRead
<1>2. PICK W \in Nat, r \in 0 .. BlockBytes - 1 :
         W = NtfsWhole /\ W > 0 /\ call.left = W * BlockBytes + r /\ filepos % BlockBytes = 0
  <2>1. NtfsWhole = call.left \div BlockBytes /\ filepos % BlockBytes = 0
    BY <1>1 DEF NtfsWhole
  <2> QED BY <1>1, <2>1, DivMod, BlockBytesAssumption
<1>3. PICK w \in Nat : w = W * BlockBytes /\ w >= BlockBytes /\ w <= call.left /\ call.left > 0
  <2>1. PICK w \in Nat : w = W * BlockBytes
    BY BlockBytesAssumption
  <2>2. 0 * BlockBytes + BlockBytes <= w
    BY <1>2, <2>1, LessTimes, BlockBytesAssumption
  <2>3. 0 * BlockBytes = 0
    BY BlockBytesAssumption
  <2>4. call.left = w + r
    BY <1>2, <2>1
  <2> QED BY <1>1, <2>1, <2>2, <2>3, <2>4, BlockBytesAssumption
<1>4. /\ NtfsRun \in [off : Nat, len : Nat \ {0}, addr : Nat] /\ cache.target \in Nat
      /\ cache.run \in DOMAIN Runs(call.ino)
      /\ NtfsRun.off <= cache.target /\ cache.target = filepos \div BlockBytes
      /\ RunsTyped(volume) /\ call.ino \in DOMAIN Nodes
  BY <1>1, <1>3, NtfsPlace
<1>5. PICK m \in Nat : m = n /\ m <= W /\ cache.target + m <= NtfsRun.off + NtfsRun.len
  BY <1>1, <1>2, <1>4 DEF Lesser, InRun
<1>6. PICK k \in Nat : k = m * BlockBytes /\ k \in 0..call.left
  <2>1. PICK k \in Nat : k = m * BlockBytes
    BY BlockBytesAssumption
  <2>2. m < W => k + BlockBytes <= w
    BY <1>3, <2>1, LessTimes, BlockBytesAssumption
  <2>3. m = W => k = w
    BY <1>3, <2>1
  <2> QED BY <1>1, <1>3, <1>5, <2>1, <2>2, <2>3, BlockBytesAssumption
<1>7. RunBytes(k) = FilePiece(filepos, k)
  <2>1. filepos = cache.target * BlockBytes
    <3>1. filepos = (filepos \div BlockBytes) * BlockBytes + (filepos % BlockBytes)
      BY <1>1, DivMod, BlockBytesAssumption
    <3>2. PICK p \in Nat : p = cache.target * BlockBytes
      <4>1. PICK t \in Nat : t = cache.target
        BY <1>4
      <4> QED BY <4>1, BlockBytesAssumption
    <3> QED BY <1>2, <1>4, <3>1, <3>2
  <2> QED BY <1>4, <1>5, <1>6, <2>1, RunStretch
<1>8. CASE NtfsFails(FALSE)
  BY <1>1, <1>8, NtfsFailsReads
<1>9. CASE /\ call' = [call EXCEPT !.buf = @ \o RunBytes(n * BlockBytes), !.left = @ - n * BlockBytes]
           /\ filepos' = filepos + n * BlockBytes
           /\ UNCHANGED <<fsys_type, volume, filemax>>
  <2>1. n * BlockBytes = k
    BY <1>5, <1>6
  <2> HIDE DEF n
  <2>2. PICK more : more = RunBytes(k)
    OBVIOUS
  <2>3. /\ call'.op = "blocks" /\ call'.left = call.left - k /\ call'.buf = Then(call.buf, more)
        /\ call'.want = call.want /\ call'.ino = call.ino /\ call'.lost = call.lost
        /\ filepos' = filepos + k
    BY <1>1, <1>9, <2>1, <2>2 DEF Call, CallTyped, Then
  <2> QED BY <1>1, <1>6, <1>7, <1>9, <2>2, <2>3, GoesReads
<1> QED BY <1>8, <1>9 DEF NtfsBlocks

LEMMA NtfsPartReads ==
  ASSUME Inv, Reads, fsys_type = "ntfs", NtfsPart
  PROVE  Reads'
<1> DEFINE offset == filepos % BlockBytes
           n      == Lesser(BlockBytes - offset, call.left)
           block  == RunBytes(BlockBytes)
<1>1. /\ call.op = "blocks" /\ call.left > 0 /\ InRun > 0 /\ Call /\ At /\ InRead
      /\ call.left \in Nat /\ filepos \in Nat /\ call.lost \in BOOLEAN
  BY DEF NtfsPart, Inv, Call, CallTyped, At, InRead
<1>2. /\ NtfsRun \in [off : Nat, len : Nat \ {0}, addr : Nat] /\ cache.target \in Nat
      /\ cache.run \in DOMAIN Runs(call.ino)
      /\ NtfsRun.off <= cache.target /\ cache.target = filepos \div BlockBytes
      /\ RunsTyped(volume) /\ call.ino \in DOMAIN Nodes
  BY <1>1, NtfsPlace
<1>3. cache.target + 1 <= NtfsRun.off + NtfsRun.len
  BY <1>1, <1>2 DEF InRun
<1>4. PICK p \in Nat, r \in 0 .. BlockBytes - 1 :
        r = offset /\ filepos = p + r /\ p = cache.target * BlockBytes
  <2>1. PICK q \in Nat, r \in 0 .. BlockBytes - 1 :
          q = filepos \div BlockBytes /\ r = offset /\ filepos = q * BlockBytes + r
    BY <1>1, Quotient
  <2>2. PICK p \in Nat : p = q * BlockBytes
    BY BlockBytesAssumption
  <2> HIDE DEF offset
  <2> QED BY <1>2, <2>1, <2>2
<1>5. n \in 0..call.left /\ n \in Nat /\ offset + n <= BlockBytes
  BY <1>1, Part
<1>6. PICK k \in Nat : k = n /\ k \in 0..call.left /\ r + k <= BlockBytes
  BY <1>4, <1>5
<1>7. block = Stretch(Node(call.ino), p, BlockBytes)
  <2>1. 1 * BlockBytes = BlockBytes
    BY BlockBytesAssumption
  <2>2. RunBytes(1 * BlockBytes) = FilePiece(cache.target * BlockBytes, 1 * BlockBytes)
    BY <1>2, <1>3, RunStretch
  <2> QED BY <1>4, <2>1, <2>2 DEF FilePiece
<1>8. PICK more : more = SubSeq(block, offset + 1, offset + n)
  OBVIOUS
<1>9. more = FilePiece(filepos, k)
  <2>1. more = SubSeq(Stretch(Node(call.ino), p, BlockBytes), r + 1, r + k)
    BY <1>4, <1>6, <1>7, <1>8
  <2>2. r \in Nat /\ BlockBytes \in Nat /\ r + k <= BlockBytes /\ p \in Nat
    BY <1>4, <1>6, BlockBytesAssumption
  <2>3. PartOf(Stretch(Node(call.ino), p, BlockBytes), r, k) = Stretch(Node(call.ino), filepos, k)
    BY <1>4, <2>2, StretchPart
  <2> QED BY <2>1, <2>3 DEF FilePiece, PartOf
<1>10. CASE NtfsFails(FALSE)
  BY <1>1, <1>10, NtfsFailsReads
<1>11. CASE /\ call' = [call EXCEPT !.left = @ - n, !.buf = @ \o SubSeq(block, offset + 1, offset + n)]
            /\ filepos' = filepos + n
            /\ UNCHANGED <<fsys_type, volume, filemax>>
  <2>1. /\ call' = [call EXCEPT !.left = @ - k, !.buf = @ \o more] /\ filepos' = filepos + k
    BY <1>6, <1>8, <1>11
  <2> HIDE DEF n, block, offset
  <2>2. /\ call'.op = "blocks" /\ call'.left = call.left - k /\ call'.buf = Then(call.buf, more)
        /\ call'.want = call.want /\ call'.ino = call.ino /\ call'.lost = call.lost
    BY <1>1, <2>1 DEF Call, CallTyped, Then
  <2> QED BY <1>1, <1>6, <1>9, <1>11, <2>1, <2>2, GoesReads
<1> QED BY <1>10, <1>11 DEF NtfsPart

LEMMA NtfsReads ==
  ASSUME Inv, Reads, fsys_type = "ntfs", NtfsTurn
  PROVE  Reads'
<1>1. Call
  BY DEF Inv
<1>2. CASE NtfsComponent
  <2>1. call'.op \in {"failed", "opened", "search"}
    BY <1>1, <1>2 DEF NtfsComponent, DirFails, Returned, Call, CallTyped
  <2> QED BY <2>1, NoRead
<1>3. CASE NtfsSearch \/ SearchEnds
  <2>1. ASSUME NEW e, NEW ok, DirFails(e, ok) PROVE Reads'
    BY <1>1, <2>1, NoRead DEF DirFails, Returned, Call, CallTyped
  <2>2. ASSUME NEW a, SeeEntry(a), call.op = "search" PROVE Reads'
    BY <1>1, <2>2, SeeNotReading, NotReadingReads
  <2> QED BY <1>3, <2>1, <2>2 DEF NtfsSearch, SearchEnds
<1>4. CASE NtfsDone
  <2>1. /\ InRead /\ call.left = 0 /\ UNCHANGED <<volume, fsys_type, filepos, filemax>>
        /\ call' = Returned("read", call.buf)
    BY <1>4 DEF NtfsDone, ShortRead, InRead
  <2> QED BY <1>1, <2>1, ReturnReads
<1> QED BY <1>2, <1>3, <1>4, NtfsBeginReads, NextRunReads, NtfsBlocksReads, NtfsPartReads DEF NtfsTurn

---------------------------------------------------------------------------
(* pxe. *)

\* A call of pxe_read_len begins or goes on.
LEMMA PxeGoes ==
  ASSUME Call, NEW op \in {"pxe", "packets"}, NEW buf, call' = [call EXCEPT !.op = op, !.buf = buf], Same,
         Sure => /\ call.left = Lesser(call.want, filemax - filepos)
                 /\ ~cache'.skip => buf = FilePiece(filepos, Len(buf))
  PROVE  Reads' /\ PxeAt'
<1>1. /\ call'.op = op /\ call'.buf = buf /\ call'.left = call.left /\ call'.want = call.want
      /\ call'.ino = call.ino /\ call'.lost = call.lost
      /\ UNCHANGED <<fsys_type, volume, filepos, filemax>>
  BY DEF Call, CallTyped, Same
<1>2. Sure' <=> Sure
  BY <1>1 DEF Sure
<1>3. Reads'
  <2>1. fsys_type # "reiserfs" \/ call'.op \notin {"tree", "next", "descend"}
    BY <1>1
  <2> QED BY <1>1, <2>1 DEF Reads, InRead
<1> QED BY <1>1, <1>2, <1>3 DEF PxeAt, FilePiece, Node, Nodes

LEMMA PxeErrorReads ==
  ASSUME Call, NEW after, PxeError(after)
  PROVE  Reads' /\ PxeAt'
<1>1. call'.op = "failed"
  BY DEF PxeError, Returned, Call, CallTyped
<1> QED BY <1>1, NoRead DEF PxeAt

\* What the call has and the bytes that come next are bytes of the file.
LEMMA PxeMore ==
  ASSUME NEW node, NEW from \in Nat, NEW n \in Nat, NEW buf, Len(buf) \in Nat,
         buf = Stretch(node, from, Len(buf)), NEW at, at = from + Len(buf)
  PROVE  Then(buf, Stretch(node, at, n)) = Stretch(node, from, Len(Then(buf, Stretch(node, at, n))))
<1>1. PICK k \in Nat : k = Len(buf)
  OBVIOUS
<1>2. Then(buf, Stretch(node, at, n)) = Stretch(node, from, k + n)
  <2>1. Then(Stretch(node, from, k), Stretch(node, from + k, n)) = Stretch(node, from, k + n)
    BY Extended
  <2> QED BY <1>1, <2>1
<1>3. k + n \in Nat
  OBVIOUS
<1>4. Len(Stretch(node, from, k + n)) = k + n
  BY <1>3, StretchLen
<1> QED BY <1>2, <1>4

LEMMA PxeBeginReads ==
  ASSUME Inv, Reads, fsys_type = "pxe", PxeBegin
  PROVE  Reads' /\ PxeAt'
<1>1. call.op = "reading" /\ call.buf = <<>> /\ Call /\ InRead /\ filepos \in Nat /\ call.left \in Nat
  BY DEF PxeBegin, Inv, PxeInv, InRead, At, Call, CallTyped
<1>2. CASE PxeError([cache EXCEPT !.opened = FALSE])
  BY <1>1, <1>2, PxeErrorReads
<1>3. CASE call' = [call EXCEPT !.op = "pxe"] /\ Same
  <2>1. call' = [call EXCEPT !.op = "pxe", !.buf = <<>>]
    BY <1>1, <1>3 DEF Call, CallTyped
  <2>2. <<>> = FilePiece(filepos, Len(<<>>))
    <3>1. Len(<<>>) = 0
      OBVIOUS
    <3> QED BY <3>1, Nothing DEF FilePiece
  <2>3. Sure => call.left = Lesser(call.want, filemax - filepos)
    <3> SUFFICES ASSUME Sure PROVE call.left = Lesser(call.want, filemax - filepos)
      OBVIOUS
    <3>1. PICK n \in Nat : Got(n)
      BY <1>1 DEF Reads, Brings, Astray
    <3>2. n = 0
      <4>1. Len(Stretch(Node(call.ino), filepos - n, n)) = n
        BY StretchLen
      <4>2. Len(<<>>) = 0
        OBVIOUS
      <4> QED BY <1>1, <3>1, <4>1, <4>2 DEF Got, FilePiece
    <3> QED BY <1>1, <3>1, <3>2 DEF Got
  <2> QED BY <1>1, <1>3, <2>1, <2>2, <2>3, PxeGoes
<1> QED BY <1>2, <1>3 DEF PxeBegin

\* What is taken out of the buffer.
LEMMA PxeFromBuffer ==
  ASSUME Inv, fsys_type = "pxe", call.op = "pxe", NEW n \in Nat, cache.cur_ofs + n <= cache.read_ofs
  PROVE  [i \in 1..n |-> cache.data[cache.cur_ofs + i - 1]] = Stretch(Node(call.ino), There, n)
<1>1. /\ cache.read_ofs \in Nat /\ cache.server \in Nat /\ cache.cur_ofs \in Nat
      /\ cache.read_ofs <= cache.server
      /\ \A i \in 0..cache.read_ofs - 1 :
           cache.data[i] = ByteOf(Node(call.ino), cache.server - cache.read_ofs + i)
  BY PxeHas
<1>2. There = cache.server - cache.read_ofs + cache.cur_ofs
  BY DEF There, BufStart
<1>3. ASSUME NEW i \in 1..n
      PROVE  cache.data[cache.cur_ofs + i - 1] = ByteOf(Node(call.ino), There + i - 1)
  <2>1. PICK k \in 0..cache.read_ofs - 1 : k = cache.cur_ofs + i - 1
    <3>1. cache.cur_ofs + i - 1 \in 0..cache.read_ofs - 1
      BY <1>1
    <3> QED BY <3>1
  <2>2. cache.server - cache.read_ofs + k = There + i - 1
    BY <1>1, <1>2, <2>1
  <2>3. cache.data[k] = ByteOf(Node(call.ino), cache.server - cache.read_ofs + k)
    BY <1>1
  <2> QED BY <2>1, <2>2, <2>3
<1> QED BY <1>3 DEF Stretch

LEMMA PxeBufferedReads ==
  ASSUME Inv, PxeAt, fsys_type = "pxe", PxeBuffered
  PROVE  Reads' /\ PxeAt'
<1> DEFINE have == cache.read_ofs - cache.cur_ofs
           more == cache.len - have
           bytes(n) == [i \in 1..n |-> cache.data[cache.cur_ofs + i - 1]]
<1>1. /\ call.op = "pxe" /\ Call /\ cache.len > 0 /\ cache.cur_ofs <= cache.read_ofs
      /\ IF cache.skip THEN call.buf = <<>>
         ELSE call.buf \in PxeBytes /\ There = filepos + Len(call.buf)
  BY DEF PxeBuffered, Inv, PxeInv
<1>2. /\ filepos \in Nat /\ PxeForm /\ cache.skip \in BOOLEAN
      /\ cache.read_ofs \in Nat /\ cache.server \in Nat /\ cache.cur_ofs \in Nat /\ cache.len \in Nat
  BY <1>1, PxeHas
<1>3. ~cache.skip => Len(call.buf) \in Nat
  BY <1>1 DEF PxeBytes
<1>4. ASSUME Sure, ~cache.skip, NEW n \in Nat, cache.cur_ofs + n <= cache.read_ofs
      PROVE  Then(call.buf, bytes(n)) = FilePiece(filepos, Len(Then(call.buf, bytes(n))))
  <2>1. bytes(n) = Stretch(Node(call.ino), There, n)
    BY <1>1, <1>4, PxeFromBuffer
  <2>2. call.buf = Stretch(Node(call.ino), filepos, Len(call.buf))
    BY <1>1, <1>4 DEF PxeAt, FilePiece
  <2> HIDE DEF bytes
  <2>3. Then(call.buf, Stretch(Node(call.ino), There, n)) =
          Stretch(Node(call.ino), filepos, Len(Then(call.buf, Stretch(Node(call.ino), There, n))))
    <3>1. PICK node, buf, at, from : node = Node(call.ino) /\ buf = call.buf /\ at = There /\ from = filepos
      OBVIOUS
    <3>2. from \in Nat /\ Len(buf) \in Nat /\ buf = Stretch(node, from, Len(buf)) /\ at = from + Len(buf)
      BY <1>1, <1>2, <1>3, <1>4, <2>2, <3>1
    <3>3. Then(buf, Stretch(node, at, n)) = Stretch(node, from, Len(Then(buf, Stretch(node, at, n))))
      BY <3>2, PxeMore
    <3> QED BY <3>1, <3>3
  <2> QED BY <2>1, <2>3 DEF FilePiece
<1>5. Sure => call.left = Lesser(call.want, filemax - filepos)
  BY <1>1 DEF PxeAt
<1>6. CASE more <= 0 /\ Brought(bytes(cache.len), [cache EXCEPT !.cur_ofs = @ + cache.len, !.len = 0])
  <2>1. cache'.skip = cache.skip /\ Same
        /\ call' = IF cache.skip THEN call ELSE [call EXCEPT !.buf = @ \o bytes(cache.len)]
    BY <1>2, <1>6 DEF Brought, PxeForm
  <2>2. cache.cur_ofs + cache.len <= cache.read_ofs
    BY <1>2, <1>6
  <2>3. PICK some : some = bytes(cache.len)
    OBVIOUS
  <2>4. Sure /\ ~cache.skip => Then(call.buf, some) = FilePiece(filepos, Len(Then(call.buf, some)))
    BY <1>2, <1>4, <2>2, <2>3
  <2> HIDE DEF bytes
  <2>5. PICK buf : buf = IF cache.skip THEN call.buf ELSE Then(call.buf, some)
    OBVIOUS
  <2>6. call' = [call EXCEPT !.op = "pxe", !.buf = buf]
    <3>1. CASE cache.skip
      <4>1. call = [call EXCEPT !.op = "pxe", !.buf = call.buf]
        BY <1>1 DEF Call, CallTyped
      <4> QED BY <2>1, <2>5, <3>1, <4>1
    <3>2. CASE ~cache.skip
      <4>1. call' = [call EXCEPT !.buf = buf]
        BY <2>1, <2>3, <2>5, <3>2 DEF Then
      <4> QED BY <1>1, <4>1 DEF Call, CallTyped
    <3> QED BY <3>1, <3>2
  <2>7. Sure /\ ~cache'.skip => buf = FilePiece(filepos, Len(buf))
    BY <2>1, <2>4, <2>5
  <2> QED BY <1>1, <1>5, <2>1, <2>6, <2>7, PxeGoes
<1>7. CASE /\ Same
           /\ cache' = [cache EXCEPT !.cur_ofs = more % Blk, !.nb = more \div Blk,
                                     !.read_ofs = IF @ + Blk > PxeBufLen THEN 0 ELSE @]
           /\ call' = [call EXCEPT !.op = "packets", !.buf = IF cache.skip THEN @ ELSE @ \o bytes(have)]
  <2>1. cache'.skip = cache.skip
    BY <1>2, <1>7 DEF PxeForm
  <2>2. have \in Nat /\ cache.cur_ofs + have <= cache.read_ofs
    BY <1>1, <1>2
  <2>3. PICK some : some = bytes(have)
    OBVIOUS
  <2>4. Sure /\ ~cache.skip => Then(call.buf, some) = FilePiece(filepos, Len(Then(call.buf, some)))
    <3> HIDE DEF bytes, have
    <3> QED BY <1>4, <2>2, <2>3
  <2> HIDE DEF bytes, have, more
  <2>5. PICK buf : buf = IF cache.skip THEN call.buf ELSE Then(call.buf, some)
    OBVIOUS
  <2>6. call' = [call EXCEPT !.op = "packets", !.buf = buf]
    BY <1>7, <2>3, <2>5 DEF Then
  <2>7. Sure /\ ~cache'.skip => buf = FilePiece(filepos, Len(buf))
    BY <2>1, <2>4, <2>5
  <2> QED BY <1>1, <1>5, <1>7, <2>6, <2>7, PxeGoes
<1> QED BY <1>6, <1>7 DEF PxeBuffered

\* Packets that come from the server.
LEMMA PxeArrive ==
  ASSUME Inv, PxeAt, Sure, fsys_type = "pxe", call.op = "packets", ~cache.skip, NEW n \in Nat
  PROVE  Then(call.buf, FilePart(n)) = FilePiece(filepos, Len(Then(call.buf, FilePart(n))))
<1>1. call.buf \in PxeBytes /\ cache.server = filepos + Len(call.buf) /\ filepos \in Nat
  BY DEF Inv, PxeInv, At
<1>2. Len(call.buf) \in Nat
  BY <1>1 DEF PxeBytes
<1>3. FilePart(n) = Stretch(Node(call.ino), cache.server, n)
  BY DEF FilePart, Stretch
<1>4. call.buf = Stretch(Node(call.ino), filepos, Len(call.buf))
  BY DEF PxeAt, FilePiece
<1>5. Then(call.buf, Stretch(Node(call.ino), cache.server, n)) =
        Stretch(Node(call.ino), filepos, Len(Then(call.buf, Stretch(Node(call.ino), cache.server, n))))
  <2>1. PICK from \in Nat, len \in Nat : from = filepos /\ len = Len(call.buf)
    BY <1>1, <1>2
  <2>2. PICK node, buf, at : node = Node(call.ino) /\ buf = call.buf /\ at = cache.server
    OBVIOUS
  <2>3. Len(buf) \in Nat /\ buf = Stretch(node, from, Len(buf)) /\ at = from + Len(buf)
    BY <1>1, <1>4, <2>1, <2>2
  <2>4. Then(buf, Stretch(node, at, n)) = Stretch(node, from, Len(Then(buf, Stretch(node, at, n))))
    BY <2>3, PxeMore
  <2> QED BY <2>1, <2>2, <2>4
<1> QED BY <1>3, <1>5 DEF FilePiece

LEMMA PxePacketsReads ==
  ASSUME Inv, PxeAt, fsys_type = "pxe", PxePackets
  PROVE  Reads' /\ PxeAt'
<1> DEFINE n == Lesser((PxeBufLen - cache.read_ofs) \div Blk, cache.nb)
           nr == Arrives(n)
<1>1. /\ call.op = "packets" /\ Call /\ PxeForm
      /\ Sure => call.left = Lesser(call.want, filemax - filepos)
  BY DEF PxePackets, Inv, PxeInv, PxeAt
<1>2. CASE PxeError(cache)
  BY <1>1, <1>2, PxeErrorReads
<1>3. CASE Brought(FilePart(nr), [Filled(cache, nr) EXCEPT !.nb = @ - n,
                                       !.read_ofs = IF n < cache.nb THEN 0 ELSE @ + nr])
  <2>1. PICK nb, ro : /\ nb = Filled(cache, nr).nb - n
                      /\ ro = IF n < cache.nb THEN 0 ELSE Filled(cache, nr).read_ofs + nr
    OBVIOUS
  <2>2. cache' = [Filled(cache, nr) EXCEPT !.nb = nb, !.read_ofs = ro]
    BY <1>3, <2>1 DEF Brought
  <2>3. [Filled(cache, nr) EXCEPT !.nb = nb, !.read_ofs = ro].skip = cache.skip
    BY <1>1 DEF Filled, PxeForm
  <2>4. /\ cache'.skip = cache.skip /\ Same
        /\ call' = IF cache.skip THEN call ELSE [call EXCEPT !.buf = @ \o FilePart(nr)]
    BY <1>3, <2>1, <2>2, <2>3 DEF Brought
  <2>5. nr \in Nat
    <3>1. /\ filemax \in Nat /\ Blk \in Nat \ {0} /\ cache.read_ofs \in Nat /\ PxeBufLen \in Nat
          /\ cache.nb \in Nat /\ cache.server \in Nat /\ cache.server <= filemax
          /\ cache.read_ofs <= PxeBufLen
      BY <1>1, PxeHas
    <3>2. PICK b \in Nat \ {0}, s \in Nat : b = Blk /\ s = PxeBufLen - cache.read_ofs
      <4>1. PxeBufLen - cache.read_ofs \in Nat
        BY <3>1
      <4> QED BY <3>1, <4>1
    <3>3. s \div b \in Nat
      BY DivMod
    <3>4. PICK m \in Nat : m = n
      <4>1. n \in Nat
        BY <3>1, <3>2, <3>3 DEF Lesser
      <4> QED BY <4>1
    <3>5. m * b \in Nat
      BY SMT
    <3>6. nr = Lesser(m * b, filemax - cache.server)
      BY <3>2, <3>4 DEF Arrives
    <3> HIDE DEF nr
    <3> QED BY <3>1, <3>5, <3>6 DEF Lesser
  <2> HIDE DEF n, nr
  <2>6. Sure /\ ~cache.skip => Then(call.buf, FilePart(nr)) = FilePiece(filepos, Len(Then(call.buf, FilePart(nr))))
    BY <1>1, <2>5, PxeArrive
  <2>7. PICK buf : buf = IF cache.skip THEN call.buf ELSE Then(call.buf, FilePart(nr))
    OBVIOUS
  <2>8. call' = [call EXCEPT !.op = "packets", !.buf = buf]
    <3>1. CASE cache.skip
      <4>1. call = [call EXCEPT !.op = "packets", !.buf = call.buf]
        BY <1>1 DEF Call, CallTyped
      <4> QED BY <2>4, <2>7, <3>1, <4>1
    <3>2. CASE ~cache.skip
      <4>1. call' = [call EXCEPT !.buf = buf]
        BY <2>4, <2>7, <3>2 DEF Then
      <4> QED BY <1>1, <4>1 DEF Call, CallTyped
    <3> QED BY <3>1, <3>2
  <2>9. Sure /\ ~cache'.skip => buf = FilePiece(filepos, Len(buf))
    BY <2>4, <2>6, <2>7
  <2> QED BY <1>1, <2>4, <2>8, <2>9, PxeGoes
<1> QED BY <1>2, <1>3 DEF PxePackets

LEMMA PxePartReads ==
  ASSUME Inv, PxeAt, fsys_type = "pxe", PxePart
  PROVE  Reads' /\ PxeAt'
<1> DEFINE start == [cache EXCEPT !.read_ofs = IF @ + Blk > PxeBufLen THEN 0 ELSE @]
           nr == Arrives(1)
           n == Lesser(cache.cur_ofs, nr)
<1>1. /\ call.op = "packets" /\ Call /\ PxeForm
      /\ Sure => call.left = Lesser(call.want, filemax - filepos)
  BY DEF PxePart, Inv, PxeInv, PxeAt
<1>2. CASE PxeError(start)
  BY <1>1, <1>2, PxeErrorReads
<1>3. CASE /\ cache' = IF cache.cur_ofs = 0
                        THEN [cache EXCEPT !.cur_ofs = cache.read_ofs, !.len = 0]
                        ELSE [Filled(start, nr) EXCEPT !.cur_ofs = n + start.read_ofs,
                                                       !.read_ofs = @ + nr, !.len = 0]
           /\ call' = [call EXCEPT !.op = "pxe", !.buf = IF cache.skip THEN @ ELSE @ \o FilePart(n)]
           /\ Same
  <2>1. n \in Nat
    <3>1. /\ filemax \in Nat /\ Blk \in Nat /\ cache.cur_ofs \in Nat /\ cache.server \in Nat
          /\ cache.server <= filemax
      BY <1>1, PxeHas
    <3>2. nr \in Nat
      BY <3>1 DEF Arrives, Lesser
    <3> HIDE DEF nr
    <3> QED BY <3>1, <3>2 DEF Lesser
  <2>2. cache'.skip = cache.skip
    <3>1. CASE cache.cur_ofs = 0
      BY <1>1, <1>3, <3>1 DEF PxeForm
    <3>2. CASE cache.cur_ofs # 0
      <4>1. PICK a, b : a = n + start.read_ofs /\ b = Filled(start, nr).read_ofs + nr
        OBVIOUS
      <4>2. cache' = [Filled(start, nr) EXCEPT !.cur_ofs = a, !.read_ofs = b, !.len = 0]
        BY <1>3, <3>2, <4>1
      <4>3. PICK ro : ro = IF cache.read_ofs + Blk > PxeBufLen THEN 0 ELSE cache.read_ofs
        OBVIOUS
      <4>4. start = [cache EXCEPT !.read_ofs = ro]
        BY <4>3
      <4>5. [Filled([cache EXCEPT !.read_ofs = ro], nr) EXCEPT !.cur_ofs = a, !.read_ofs = b, !.len = 0].skip = cache.skip
        BY <1>1 DEF Filled, PxeForm
      <4> QED BY <4>2, <4>4, <4>5
    <3> QED BY <3>1, <3>2
  <2> HIDE DEF n, nr, start
  <2>3. Sure /\ ~cache.skip => Then(call.buf, FilePart(n)) = FilePiece(filepos, Len(Then(call.buf, FilePart(n))))
    BY <1>1, <2>1, PxeArrive
  <2>4. PICK buf : buf = IF cache.skip THEN call.buf ELSE Then(call.buf, FilePart(n))
    OBVIOUS
  <2>5. call' = [call EXCEPT !.op = "pxe", !.buf = buf]
    BY <1>3, <2>4 DEF Then
  <2>6. Sure /\ ~cache'.skip => buf = FilePiece(filepos, Len(buf))
    BY <2>2, <2>3, <2>4
  <2> QED BY <1>1, <1>3, <2>5, <2>6, PxeGoes
<1> QED BY <1>2, <1>3 DEF PxePart

LEMMA PxeReachedReads ==
  ASSUME Inv, PxeAt, fsys_type = "pxe", PxeReached
  PROVE  Reads' /\ PxeAt'
<1>1. /\ call.op = "pxe" /\ Call /\ At /\ cache.len = 0 /\ filepos \in Nat /\ filemax \in Nat
      /\ call.left \in Nat
      /\ Sure => call.left = Lesser(call.want, filemax - filepos)
      /\ IF cache.skip THEN call.buf = <<>>
         ELSE /\ call.buf \in PxeBytes /\ There = filepos + Len(call.buf)
              /\ There + cache.len = filepos + call.left
  BY DEF PxeReached, Inv, PxeInv, PxeAt, At, Call, CallTyped
<1>2. CASE cache.skip
  <2>1. call' = call /\ call.buf = <<>> /\ Same
    BY <1>1, <1>2 DEF PxeReached
  <2>2. call' = [call EXCEPT !.op = "pxe", !.buf = <<>>]
    BY <1>1, <2>1 DEF Call, CallTyped
  <2>3. <<>> = FilePiece(filepos, Len(<<>>))
    <3>1. Len(<<>>) = 0
      OBVIOUS
    <3> QED BY <3>1, Nothing DEF FilePiece
  <2> QED BY <1>1, <2>1, <2>2, <2>3, PxeGoes
<1>3. CASE ~cache.skip
  <2>1. PICK k \in Nat : k = Len(call.buf) /\ k = call.left
    <3>1. Len(call.buf) \in Nat
      BY <1>1, <1>3 DEF PxeBytes
    <3>2. PICK k \in Nat : k = Len(call.buf)
      BY <3>1
    <3>3. filepos + k + 0 = filepos + call.left
      BY <1>1, <1>3, <3>2
    <3> QED BY <1>1, <3>2, <3>3
  <2>2. /\ call'.op = "read" /\ call'.buf = call.buf /\ call'.left = 0 /\ call'.want = call.want
        /\ call'.ino = call.ino /\ call'.lost = call.lost /\ filepos' = filepos + k
        /\ UNCHANGED <<fsys_type, volume, filemax>>
    <3>1. /\ call' = Returned("read", call.buf) /\ filepos' = filepos + Len(call.buf)
          /\ UNCHANGED <<fsys_type, volume, filemax>>
      BY <1>3 DEF PxeReached
    <3>2. Call
      BY <1>1
    <3>3. /\ call'.op = "read" /\ call'.buf = call.buf /\ call'.left = 0 /\ call'.want = call.want
          /\ call'.ino = call.ino /\ call'.lost = call.lost
      BY <3>1, <3>2 DEF Returned, Call, CallTyped
    <3> QED BY <2>1, <3>1, <3>3
  <2>3. ASSUME Sure' PROVE Brings'
    <3>1. Sure
      BY <2>2, <2>3 DEF Sure
    <3>2. call.buf = FilePiece(filepos, k) /\ k = Lesser(call.want, filemax - filepos)
      BY <1>1, <1>3, <2>1, <3>1 DEF PxeAt
    <3>3. k \in 0..filepos' /\ filepos' - k = filepos /\ k + 0 = k
      BY <1>1, <2>2
    <3>4. Got(k)'
      <4>1. FilePiece(filepos - k, k)' = call'.buf
        BY <2>2, <3>2, <3>3 DEF FilePiece, Node, Nodes
      <4> QED BY <2>2, <3>2, <3>3, <4>1 DEF Got
    <3> QED BY <3>4 DEF Brings
  <2> QED BY <2>2, <2>3 DEF Reads, PxeAt
<1> QED BY <1>2, <1>3

LEMMA PxeReads ==
  ASSUME Inv, Reads, PxeAt, fsys_type = "pxe", PxeTurn
  PROVE  Reads' /\ PxeAt'
<1>1. CASE PxeDir
  <2>1. call'.op \in {"failed", "opened"}
    BY <1>1 DEF PxeDir, DirFinds, DirFails, Returned, Inv, Call, CallTyped
  <2> QED BY <2>1, NoRead DEF PxeAt
<1> QED BY <1>1, PxeBeginReads, PxeBufferedReads, PxePacketsReads, PxePartReads, PxeReachedReads DEF PxeTurn

---------------------------------------------------------------------------
(* reiserfs. *)

\* A search goes on, or leads to an item.
LEMMA ReiserSearchReads ==
  ASSUME Call, Reads, ReiserAt, fsys_type = "reiserfs", call.op \in {"tree", "next", "descend"},
         NEW lost \in BOOLEAN, lost \/ ~call.lost, NEW op \in {"tree", "next", "descend", "item", "items"},
         op = "items" => cache.goal = "read", op = "item" => cache.goal # "read",
         call' = [call EXCEPT !.op = op, !.lost = lost], Keeps,
         cache'.goal = cache.goal, cache'.file = cache.file
  PROVE  Reads' /\ ReiserAt'
<1>1. /\ call'.op = op /\ call'.buf = call.buf /\ call'.left = call.left /\ call'.want = call.want
      /\ call'.ino = call.ino /\ call'.lost = lost
      /\ UNCHANGED <<fsys_type, volume, filepos, filemax>>
  BY DEF Call, CallTyped, Keeps
<1>2. ReiserAt'
  BY <1>1 DEF ReiserAt
<1>3. CASE cache.goal = "read"
  BY <1>1, <1>2, <1>3, StillReads DEF InRead
<1>4. CASE cache.goal # "read"
  BY <1>1, <1>2, <1>4 DEF Reads, InRead
<1> QED BY <1>3, <1>4

LEMMA SearchFailsReads ==
  ASSUME Call, Reads, ReiserAt, fsys_type = "reiserfs", call.op \in {"tree", "next", "descend"},
         NEW e, NEW ok \in BOOLEAN, SearchFails(e, ok),
         cache'.goal = cache.goal, cache'.file = cache.file
  PROVE  Reads' /\ ReiserAt'
<1>1. CASE DirFails(e, ok) \/ ReadFails(e, ok)
  BY <1>1, NoRead DEF DirFails, ReadFails, Returned, Call, CallTyped, ReiserAt
<1>2. CASE /\ call' = [call EXCEPT !.op = "next", !.lost = @ \/ ~ok]
           /\ Keeps
  <2>1. PICK lost \in BOOLEAN : lost = (call.lost \/ ~ok)
    BY DEF Call, CallTyped
  <2>2. call' = [call EXCEPT !.op = "next", !.lost = lost] /\ (lost \/ ~call.lost)
    BY <1>2, <2>1 DEF Call, CallTyped
  <2> QED BY <1>2, <2>2, ReiserSearchReads
<1> QED BY <1>1, <1>2 DEF SearchFails

\* A search that goes on loses nothing.
LEMMA ReiserStepReads ==
  ASSUME Call, Reads, ReiserAt, fsys_type = "reiserfs", call.op \in {"tree", "next", "descend"},
         NEW op \in {"tree", "next", "descend", "item", "items"},
         op = "items" => cache.goal = "read", op = "item" => cache.goal # "read",
         call' = [call EXCEPT !.op = op], Keeps, cache'.goal = cache.goal, cache'.file = cache.file
  PROVE  Reads' /\ ReiserAt'
<1>1. call' = [call EXCEPT !.op = op, !.lost = call.lost] /\ call.lost \in BOOLEAN
  BY DEF Call, CallTyped
<1> QED BY <1>1, ReiserSearchReads

LEMMA DescendReads ==
  ASSUME Call, Reads, ReiserAt, ReiserForm, fsys_type = "reiserfs",
         call.op \in {"tree", "next", "descend"},
         NEW d, NEW i, NEW nr, NEW op \in {"tree", "descend"}, Descend(d, i, nr, op)
  PROVE  Reads' /\ ReiserAt'
<1> DEFINE b     == Child(NodeAt(d), i + 1)
           noted == [cache EXCEPT !.next_key_nr[d] = nr, !.depth = d - 1]
           read  == [noted EXCEPT !.slot[Slot(d - 1)] = Translated(b)]
           known == d - 1 < CachedSlots /\ cache.blocks[d - 1] = b
           level == Block(Translated(b)).level
<1>1. noted.goal = cache.goal /\ noted.file = cache.file /\ DOMAIN noted = DOMAIN cache
  BY DEF ReiserForm
<1>2. read.goal = cache.goal /\ read.file = cache.file /\ DOMAIN read = DOMAIN cache
  <2> HIDE DEF noted
  <2> QED BY <1>1 DEF ReiserForm
<1>3. ASSUME NEW c, cache' = [read EXCEPT !.blocks[d - 1] = c]
      PROVE  cache'.goal = cache.goal /\ cache'.file = cache.file
  <2> HIDE DEF read
  <2> QED BY <1>2, <1>3 DEF ReiserForm
<1> HIDE DEF noted, read, known, level, b
<1>4. CASE ~known /\ cache' = noted /\ SearchFails("read", FALSE)
  BY <1>1, <1>4, SearchFailsReads
<1>5. CASE ~known /\ level # d - 1 /\ cache' = read /\ SearchFails("corrupt", TRUE)
  BY <1>2, <1>5, SearchFailsReads
<1>6. CASE /\ known \/ level = d - 1
           /\ cache' = IF known THEN noted ELSE [read EXCEPT !.blocks[d - 1] = b]
           /\ call' = [call EXCEPT !.op = op] /\ Keeps
  BY <1>1, <1>3, <1>6, ReiserStepReads
<1> QED BY <1>4, <1>5, <1>6 DEF Descend, noted, read, known, level, b

LEMMA ToItemReads ==
  ASSUME Call, Reads, ReiserAt, ReiserForm, fsys_type = "reiserfs", call.op \in {"next", "descend"},
         NEW at, ToItem(at)
  PROVE  Reads' /\ ReiserAt'
<1>1. cache'.goal = cache.goal /\ cache'.file = cache.file
  BY DEF ToItem, ReiserForm
<1>2. PICK op \in {"item", "items"} :
        op = (IF cache.goal = "read" THEN "items" ELSE "item") /\ call' = [call EXCEPT !.op = op]
  BY DEF ToItem
<1> QED BY <1>1, <1>2, ReiserStepReads DEF ToItem

LEMMA RereadReads ==
  ASSUME Call, Reads, ReiserAt, ReiserForm, fsys_type = "reiserfs", call.op = "next",
         NEW d, Reread(d)
  PROVE  Reads' /\ ReiserAt'
<1> DEFINE b    == Translated(cache.blocks[d])
           read == [cache EXCEPT !.depth = d, !.slot[CachedSlots] = b]
<1>1. read.goal = cache.goal /\ read.file = cache.file
  BY DEF ReiserForm
<1> HIDE DEF read, b
<1>2. CASE SearchFails("read", FALSE) /\ UNCHANGED cache
  BY <1>2, SearchFailsReads
<1>3. CASE cache' = read /\ SearchFails("corrupt", TRUE)
  BY <1>1, <1>3, SearchFailsReads
<1>4. CASE cache' = read /\ call' = [call EXCEPT !.op = "descend"] /\ Keeps
  BY <1>1, <1>4, ReiserStepReads
<1> QED BY <1>2, <1>3, <1>4 DEF Reread, read, b

LEMMA NextKeyReads ==
  ASSUME Call, Reads, ReiserAt, ReiserForm, fsys_type = "reiserfs", NextKey
  PROVE  Reads' /\ ReiserAt'
<1>1. call.op = "next" /\ \/ \E at : ToItem(at)
                          \/ \E d : Reread(d)
                          \/ \E d : TurnDown(d)
  BY DEF NextKey
<1>2. ASSUME NEW d, TurnDown(d) PROVE Reads' /\ ReiserAt'
  BY <1>1, <1>2, DescendReads DEF TurnDown
<1> QED BY <1>1, <1>2, ToItemReads, RereadReads

LEMMA SearchStatReads ==
  ASSUME Call, Reads, ReiserForm, fsys_type = "reiserfs",
         \/ call.op = "inode" /\ SearchStat(call.ino, "stat")
         \/ call.op = "reading" /\ ReiserAt /\ SearchStat(cache.file, "read")
  PROVE  Reads' /\ ReiserAt'
<1>1. /\ call'.op = "tree" /\ call'.buf = call.buf /\ call'.left = call.left /\ call'.want = call.want
      /\ call'.ino = call.ino /\ call'.lost = call.lost
      /\ UNCHANGED <<fsys_type, volume, filepos, filemax>>
  BY DEF SearchStat, Call, CallTyped, Keeps
<1>2. CASE call.op = "inode" /\ SearchStat(call.ino, "stat")
  <2>1. cache'.goal = "stat" /\ cache'.file = call.ino
    BY <1>2 DEF SearchStat, ReiserForm
  <2> QED BY <1>1, <2>1 DEF Reads, InRead, ReiserAt
<1>3. CASE call.op = "reading" /\ ReiserAt /\ SearchStat(cache.file, "read")
  <2>1. cache'.goal = "read" /\ cache'.file = cache.file
    BY <1>3 DEF SearchStat, ReiserForm
  <2>2. ReiserAt'
    BY <1>1, <1>3, <2>1 DEF ReiserAt
  <2> QED BY <1>1, <1>3, <2>2, StillReads DEF InRead
<1> QED BY <1>2, <1>3

LEMMA LeafStepReads ==
  ASSUME Call, Reads, ReiserAt, ReiserForm, fsys_type = "reiserfs", LeafStep
  PROVE  Reads' /\ ReiserAt'
<1>1. call.op = "tree"
  BY DEF LeafStep
<1>2. CASE SearchFails("corrupt", TRUE) /\ UNCHANGED cache
  BY <1>1, <1>2, SearchFailsReads
<1>3. ASSUME cache.goal = "read", NEW at, NextFor("read", at, filemax)
      PROVE  Reads' /\ ReiserAt'
  <2>1. cache'.goal = cache.goal /\ cache'.file = cache.file
    BY <1>3 DEF NextFor, ReiserForm
  <2> QED BY <1>1, <1>3, <2>1, ReiserStepReads DEF NextFor, Keeps
<1>4. ASSUME NEW goal \in {"link", "file", "entries"}, NEW at, NEW max, NextFor(goal, at, max)
      PROVE  Reads' /\ ReiserAt'
  <2>1. cache'.goal = goal /\ cache'.file = cache.file /\ call'.op = "next" /\ call'.ino = call.ino
        /\ fsys_type' = fsys_type
    BY <1>4 DEF NextFor, ReiserForm, Call, CallTyped
  <2> QED BY <1>1, <2>1 DEF Reads, InRead, ReiserAt
<1>5. ASSUME NEW e, DirFails(e, TRUE)
      PROVE  Reads' /\ ReiserAt'
  BY <1>5, NoRead DEF DirFails, Returned, Call, CallTyped, ReiserAt
<1>6. ASSUME NEW at, StatFound(at)
      PROVE  Reads' /\ ReiserAt'
  BY <1>4, <1>5, <1>6 DEF StatFound, LinkLoop
<1> QED BY <1>2, <1>3, <1>6 DEF LeafStep

LEMMA ReiserItemReads ==
  ASSUME Call, Reads, ReiserAt, ReiserInv, fsys_type = "reiserfs", ReiserItem
  PROVE  Reads' /\ ReiserAt'
<1>1. call.op = "item" /\ cache' = cache /\ cache.goal \in {"link", "file", "entries"}
  BY ZenonT(40) DEF ReiserItem, ReiserInv, ReiserForm
<1>2. CASE DirFinds(call.ino)
  BY <1>1, <1>2, NoRead DEF DirFinds, Call, CallTyped, ReiserAt
<1>3. CASE ChaseLink
  <2>1. call'.op \in {"inode", "failed"}
    BY <1>3 DEF ChaseLink, LinkLoop, DirFails, Returned, Call, CallTyped
  <2> QED BY <2>1, NoRead DEF ReiserAt
<1>4. ASSUME NEW e, DirFails(e, TRUE)
      PROVE  Reads' /\ ReiserAt'
  BY <1>4, NoRead DEF DirFails, Returned, Call, CallTyped, ReiserAt
<1>5. ASSUME NEW ino, NEW path, call' = [call EXCEPT !.op = "inode", !.ino = ino, !.updir = call.ino, !.path = path]
      PROVE  Reads' /\ ReiserAt'
  BY <1>5, NoRead DEF Call, CallTyped, ReiserAt
<1>6. CASE call' = [call EXCEPT !.op = "next"] /\ Keeps
  <2>1. call'.op = "next" /\ call'.ino = call.ino /\ fsys_type' = fsys_type
    BY <1>6 DEF Call, CallTyped, Keeps
  <2> QED BY <1>1, <2>1 DEF Reads, InRead, ReiserAt
<1> QED BY <1>1, <1>2, <1>3, <1>4, <1>5, <1>6, ZenonT(40) DEF ReiserItem

\* The item that is current, if it is one of the file, has bytes of it.
LEMMA ItemBytes ==
  ASSUME Inv, fsys_type = "reiserfs", call.op # "idle", ~volume.excused,
         Item.kind \in {"direct", "indirect"}, Item.ino = call.ino
  PROVE  Item.off \in Nat /\ Item.len \in Nat /\ ItemTrue(Node(call.ino), Item)
<1>1. /\ TreeTyped(volume) /\ ItemsTrue(volume) /\ call.ino \in DOMAIN volume.nodes
  <2>1. TreeTyped(volume) /\ call.ino \in DOMAIN volume.nodes /\ Call
    BY ReiserHas DEF Nodes
  <2>2. volume \in Volumes /\ volume.format = "reiserfs"
    BY <2>1 DEF Call, AtNode
  <2> QED BY <2>1, <2>2, VolumesAssumption
<1>2. PICK n : NodeAt(1) = NodeIn(volume.tree, n)
  BY DEF NodeAt, Block, Tree
<1>3. cache.cur \in DOMAIN Items
  BY DEF Item, NoItem
<1>4. Items = NodeIn(volume.tree, n).items /\ Item = Items[cache.cur]
  BY <1>2, <1>3 DEF Items, Item
<1>5. n \in DOMAIN volume.tree
  <2>1. NodeIn(volume.tree, n) = IF n \in DOMAIN volume.tree THEN volume.tree[n] ELSE NoNode
    BY DEF NodeIn
  <2> QED BY <1>3, <1>4, <2>1 DEF NoNode
<1>6. Items = volume.tree[n].items
  BY <1>4, <1>5, SMTT(40) DEF NodeIn
<1>7. Item.off \in Nat /\ Item.len \in Nat
  BY <1>1, <1>3, <1>4, <1>5, <1>6 DEF TreeTyped
<1>8. ItemTrue(volume.nodes[Item.ino], Item)
  BY <1>1, <1>3, <1>4, <1>5, <1>6 DEF ItemsTrue
<1> QED BY <1>7, <1>8 DEF Node, Nodes

Taken(item, offset, n) == [i \in 1..n |-> item.list[offset + i]]
LEMMA DirectBytes ==
  ASSUME NEW node, NEW item, item.off \in Nat, item.len \in Nat, item.kind = "direct",
         ItemTrue(node, item), NEW offset \in Nat, NEW n \in Nat, offset + n <= item.len,
         NEW p \in Nat, p = item.off - 1 + offset
  PROVE  Taken(item, offset, n) = Stretch(node, p, n)
<1> SUFFICES ASSUME NEW i \in 1..n PROVE item.list[offset + i] = ByteOf(node, p + i - 1)
  BY DEF Stretch, Taken
<1>1. PICK k \in 0..item.len - 1 : k = offset + i - 1
  <2>1. offset + i - 1 \in 0..item.len - 1
    OBVIOUS
  <2> QED BY <2>1
<1>2. item.list[k + 1] = ByteOf(node, item.off - 1 + k)
  BY <1>1 DEF ItemTrue
<1>3. k + 1 = offset + i /\ item.off - 1 + k = p + i - 1
  BY <1>1
<1> QED BY <1>2, <1>3

LEMMA IndirectBytes ==
  ASSUME NEW node, NEW item, item.off \in Nat, item.len \in Nat, item.kind = "indirect",
         ItemTrue(node, item), NEW offset \in 0..item.len - 1, NEW n \in Nat,
         (offset % BlockBytes) + n <= BlockBytes,
         NEW p \in Nat, p = item.off - 1 + offset, NEW b, b = item.list[offset \div BlockBytes + 1]
  PROVE  DiskBytes(b, offset % BlockBytes, n) = Stretch(node, p, n)
<1>1. /\ b \in Nat /\ b # Hole /\ b = node.blocks[(item.off - 1 + offset) \div BlockBytes + 1]
      /\ item.off > 0 /\ (item.off - 1) % BlockBytes = 0
  BY DEF ItemTrue
<1>2. PICK e \in Nat : e = item.off - 1
  BY <1>1
<1>3. PICK q \in Nat : e = q * BlockBytes
  <2>1. PICK q \in Nat, r \in 0 .. BlockBytes - 1 :
          q = e \div BlockBytes /\ r = e % BlockBytes /\ e = q * BlockBytes + r
    BY Quotient
  <2>2. r = 0
    BY <1>1, <1>2, <2>1
  <2>3. PICK z \in Nat : z = q * BlockBytes
    BY BlockBytesAssumption
  <2> QED BY <2>1, <2>2, <2>3
<1>4. (offset + q * BlockBytes) % BlockBytes = offset % BlockBytes
  <2>1. offset \in Nat
    OBVIOUS
  <2> QED BY <2>1, DivAdd, BlockBytesAssumption
<1>5. p = offset + q * BlockBytes
  BY <1>2, <1>3
<1>6. p % BlockBytes = offset % BlockBytes
  BY <1>4, <1>5
<1>7. node.blocks[p \div BlockBytes + 1] = b /\ b \in Nat
  BY <1>1
<1>8. DiskBytes(b, p % BlockBytes, n) = Stretch(node, p, n)
  BY <1>1, <1>6, <1>7, BlockStretch
<1> QED BY <1>6, <1>8

LEMMA ReiserReadReads ==
  ASSUME Inv, Reads, ReiserAt, fsys_type = "reiserfs", ReiserRead
  PROVE  Reads' /\ ReiserAt'
<1> DEFINE offset == filepos - Item.off + 1
           n      == Lesser(IF Item.kind = "direct" THEN Item.len - offset
                            ELSE BlockBytes - (offset % BlockBytes), call.left)
           op     == IF call.left = n THEN "done" ELSE "items"
<1>1. /\ call.op = "items" /\ Call /\ At /\ ReiserInv /\ cache.goal = "read" /\ cache' = cache
      /\ call.left \in Nat /\ filepos \in Nat /\ InRead /\ cache.file = call.ino /\ Item.ino = call.ino
  BY ReiserHas DEF ReiserRead, ReiserInv, InRead, ReiserAt
<1>2. CASE call' = [call EXCEPT !.op = "next"] /\ Keeps
  <2>1. /\ call'.op = "next" /\ call'.buf = call.buf /\ call'.left = call.left /\ call'.want = call.want
        /\ call'.ino = call.ino /\ call'.lost = call.lost
        /\ UNCHANGED <<fsys_type, volume, filepos, filemax>>
    BY <1>1, <1>2 DEF Call, CallTyped, Keeps
  <2> QED BY <1>1, <2>1, StillReads DEF ReiserAt
<1>3. ASSUME Item.kind \in {"direct", "indirect"}, offset \in 0..Item.len - 1,
             IF Item.kind = "indirect"
             THEN AdvanceTo(op, Item.list[offset \div BlockBytes + 1], offset % BlockBytes, n)
             ELSE /\ call' = [call EXCEPT !.op = op, !.left = @ - n,
                                !.buf = @ \o [i \in 1..n |-> Item.list[offset + i]]]
                  /\ filepos' = filepos + n
                  /\ UNCHANGED <<fsys_type, volume, filemax, errnum>>
      PROVE  Reads' /\ ReiserAt'
  <2>1. Item.off \in Nat /\ Item.len \in Nat
    BY <1>1, <1>3, ItemHas DEF NoItem
  <2>2. offset \in Nat /\ offset < Item.len
    BY <1>3, <2>1
  <2>3. BlockBytes - (offset % BlockBytes) \in Nat
    <3> HIDE DEF offset
    <3> QED BY <2>2, BlockBytesAssumption, DivMod
  <2>4. /\ n \in 0..call.left /\ n \in Nat
        /\ Item.kind = "direct" => offset + n <= Item.len
        /\ Item.kind = "indirect" => (offset % BlockBytes) + n <= BlockBytes
    <3> HIDE DEF offset
    <3>1. PICK r \in Nat : r = offset % BlockBytes
      <4>1. offset % BlockBytes \in 0 .. BlockBytes - 1
        BY <2>2, BlockBytesAssumption, DivMod
      <4> QED BY <4>1
    <3>2. Item.len - offset \in Nat
      BY <2>1, <2>2
    <3> QED BY <1>1, <2>1, <2>2, <2>3, <3>1, <3>2, BlockBytesAssumption DEF Lesser
  <2>5. op \in {"items", "done"}
    OBVIOUS
  <2>6. filepos = Item.off - 1 + offset
    BY <1>1, <2>1
  <2> HIDE DEF n, op, offset
  <2>7. CASE Item.kind = "indirect"
    <3>1. PICK b : b = Item.list[offset \div BlockBytes + 1] /\ AdvanceTo(op, b, offset % BlockBytes, n)
      BY <1>3, <2>7
    <3>2. ASSUME Sure
          PROVE  DiskBytes(b, offset % BlockBytes, n) = FilePiece(filepos, n)
      <4>1. ItemTrue(Node(call.ino), Item)
        BY <1>1, <2>7, <3>2, ItemBytes DEF Sure
      <4> QED BY <1>1, <1>3, <2>1, <2>4, <2>6, <2>7, <3>1, <4>1, IndirectBytes DEF FilePiece
    <3>3. op # "read"
      BY <2>5
    <3>4. Reads'
      BY <1>1, <2>4, <3>1, <3>2, <3>3, AdvanceReads
    <3>5. call'.ino = call.ino /\ fsys_type' = fsys_type
      BY <3>1, <1>1 DEF AdvanceTo, Call, CallTyped
    <3> QED BY <1>1, <3>4, <3>5 DEF ReiserAt
  <2>8. CASE Item.kind = "direct"
    <3>1. PICK bytes : bytes = [i \in 1..n |-> Item.list[offset + i]] /\ bytes = Taken(Item, offset, n)
      BY DEF Taken
    <3>2. /\ call' = [call EXCEPT !.op = op, !.left = @ - n, !.buf = @ \o bytes]
          /\ filepos' = filepos + n /\ UNCHANGED <<fsys_type, volume, filemax>>
      BY <1>3, <2>8, <3>1
    <3>3. /\ call'.op = op /\ call'.buf = Then(call.buf, bytes) /\ call'.left = call.left - n
          /\ call'.want = call.want /\ call'.ino = call.ino /\ call'.lost = call.lost
      BY <1>1, <3>2 DEF Call, CallTyped, Then
    <3>4. ASSUME Sure
          PROVE  bytes = FilePiece(filepos, n)
      <4>1. ItemTrue(Node(call.ino), Item)
        BY <1>1, <2>8, <3>4, ItemBytes DEF Sure
      <4>2. PICK node, item : node = Node(call.ino) /\ item = Item
        OBVIOUS
      <4>3. /\ item.off \in Nat /\ item.len \in Nat /\ item.kind = "direct" /\ ItemTrue(node, item)
            /\ offset + n <= item.len /\ filepos = item.off - 1 + offset
        BY <2>1, <2>4, <2>6, <2>8, <4>1, <4>2
      <4>4. Taken(item, offset, n) = Stretch(node, filepos, n)
        BY <1>1, <2>2, <2>4, <4>3, DirectBytes
      <4> QED BY <3>1, <4>2, <4>4 DEF FilePiece
    <3>5. call'.lost \/ (~call.lost /\ (~volume.excused => bytes = FilePiece(filepos, n)))
      BY <1>1, <3>3, <3>4 DEF Sure
    <3>6. Reads'
      BY <1>1, <2>4, <2>5, <3>2, <3>3, <3>5, GoesReads
    <3> QED BY <1>1, <3>2, <3>3, <3>6 DEF ReiserAt
  <2> QED BY <1>3, <2>7, <2>8
<1> HIDE DEF n, op, offset
<1> QED BY <1>1, <1>2, <1>3 DEF ReiserRead, n, op, offset

LEMMA ReiserReads ==
  ASSUME Inv, Reads, ReiserAt, fsys_type = "reiserfs", ReiserTurn
  PROVE  Reads' /\ ReiserAt'
<1>1. /\ Call /\ (call.op # "idle" => ReiserInv /\ ReiserForm)
  BY ReiserHas DEF Inv
<1>2. CASE ReiserInode
  BY <1>1, <1>2, SearchStatReads DEF ReiserInode
<1>3. CASE TreeStep
  <2>1. call.op = "tree" /\ \E d, i, nr : Descend(d, i, nr, "tree")
    BY <1>3 DEF TreeStep
  <2> QED BY <1>1, <2>1, DescendReads
<1>4. CASE LeafStep
  BY <1>1, <1>4, LeafStepReads DEF LeafStep
<1>5. CASE NextKey
  BY <1>1, <1>5, NextKeyReads DEF NextKey
<1>6. CASE DescendOn
  <2>1. ASSUME NEW d, TurnDown(d), call.op = "descend" PROVE Reads' /\ ReiserAt'
    BY <1>1, <2>1, DescendReads, Zenon DEF TurnDown
  <2> QED BY <1>1, <1>6, <2>1, ToItemReads DEF DescendOn
<1>7. CASE ReiserItem
  BY <1>1, <1>7, ReiserItemReads DEF ReiserItem
<1>8. CASE ReiserBegin
  <2>1. CASE SearchStat(cache.file, "read")
    BY <1>1, <1>8, <2>1, SearchStatReads DEF ReiserBegin
  <2>2. CASE /\ cache' = [cache EXCEPT !.goal = "read"] /\ call' = [call EXCEPT !.op = "items"] /\ Keeps
    <3>1. cache'.file = cache.file /\ call.op = "reading"
      BY <1>1, <1>8, <2>2 DEF ReiserBegin, ReiserForm
    <3>2. /\ call'.op = "items" /\ call'.buf = call.buf /\ call'.left = call.left /\ call'.want = call.want
          /\ call'.ino = call.ino /\ call'.lost = call.lost
          /\ UNCHANGED <<fsys_type, volume, filepos, filemax>>
      BY <1>1, <2>2 DEF Call, CallTyped, Keeps
    <3> QED BY <3>1, <3>2, StillReads DEF ReiserAt, InRead
  <2> QED BY <1>8, <2>1, <2>2 DEF ReiserBegin
<1>9. CASE ReiserDone
  <2>1. InRead /\ ReadReturns /\ call.op \in {"items", "done"}
    BY <1>9 DEF ReiserDone, InRead
  <2>2. Reads'
    BY <1>1, <2>1, ReadReturnsReads
  <2>3. call'.ino = call.ino /\ UNCHANGED <<fsys_type, cache>>
    BY <1>1, <2>1 DEF ReadReturns, Returned, Call, CallTyped
  <2> QED BY <2>1, <2>2, <2>3 DEF ReiserAt
<1> QED BY <1>2, <1>3, <1>4, <1>5, <1>6, <1>7, <1>8, <1>9, ReiserReadReads DEF ReiserTurn

---------------------------------------------------------------------------
(* Every step keeps what is known of the bytes. *)

\* What is known of a format is nothing of another.
LEMMA ReadInvOf ==
  ASSUME Reads', fsys_type' = fsys_type,
         fsys_type \in {"ext2", "minix", "iso9660", "jfs", "xfs"} => FilesOpen',
         fsys_type = "iso9660" => IsoAt', fsys_type = "list" => ListAt',
         fsys_type \in {"jfs", "xfs"} => ExtentsAt', fsys_type = "reiserfs" => ReiserAt',
         fsys_type = "pxe" => PxeAt'
  PROVE  ReadInv'
<1>1. FilesOpen' /\ IsoAt' /\ ListAt'
  BY DEF FilesOpen, IsoAt, ListAt
<1>2. ExtentsAt' /\ ReiserAt' /\ PxeAt'
  BY DEF ExtentsAt, ReiserAt, PxeAt
<1> QED BY <1>1, <1>2 DEF ReadInv

LEMMA ReadDoneReads ==
  ASSUME Inv, ReadInv, ReadDone
  PROVE  ReadInv'
<1>1. /\ Call /\ Reads /\ ReadReturns /\ InRead
      /\ call.op = "reading" \/ (fsys_type = "fat" /\ call.op = "chain")
      /\ fsys_type \notin {"jfs", "xfs", "ntfs", "pxe", "reiserfs"}
      /\ call.left = 0 \/ errnum # None
  BY DEF ReadDone, Inv, ReadInv, InRead, Call, CallTyped, OpsOf
<1>2. Reads'
  BY <1>1, ReadReturnsReads
<1>3. UNCHANGED <<volume, fsys_type, cache, filemax>> /\ call'.ino = call.ino
      /\ call'.op \in {"read", "failed"}
  BY <1>1 DEF ReadReturns, Returned, Call, CallTyped
<1>4. fsys_type \in {"ext2", "minix", "iso9660"} => FileOpen
  BY <1>1 DEF FileOpen
<1>5. fsys_type \in {"ext2", "minix", "iso9660"} => FilesOpen'
  BY <1>3, <1>4, StaysOpen DEF ReadInv
<1>6. fsys_type = "iso9660" => IsoAt'
  BY <1>3, <1>4 DEF ReadInv, IsoAt, Node, Nodes
<1>7. ListAt'
  BY <1>3 DEF ListAt
<1> QED BY <1>1, <1>2, <1>3, <1>5, <1>6, <1>7, ReadInvOf

LEMMA TurnReads ==
  ASSUME Inv, ReadInv, Turn
  PROVE  ReadInv'
<1>1. Reads /\ FilesOpen /\ IsoAt /\ ListAt /\ ExtentsAt /\ ReiserAt /\ PxeAt
  BY DEF ReadInv
<1>2. CASE fsys_type = "fat" /\ FatTurn
  <2>1. fsys_type' = fsys_type
    BY <1>2, FatKeeps
  <2> QED BY <1>1, <1>2, <2>1, FatReads, ReadInvOf
<1>3. CASE fsys_type \in {"ext2", "minix"} /\ MappedTurn
  <2>1. fsys_type' = fsys_type
    BY <1>3, MappedKeeps DEF MapsGoOn
  <2> QED BY <1>1, <1>3, <2>1, MapsReads, ReadInvOf
<1>4. CASE fsys_type = "iso9660" /\ IsoTurn
  <2>1. fsys_type' = fsys_type
    BY <1>4, IsoKeeps DEF IsoGoesOn
  <2> QED BY <1>1, <1>4, <2>1, IsoReads, ReadInvOf
<1>5. CASE fsys_type = "list" /\ ListTurn
  <2>1. fsys_type' = fsys_type
    BY <1>5, ListKeeps DEF ListGoesOn
  <2> QED BY <1>1, <1>5, <2>1, ListReads, ReadInvOf
<1>6. CASE fsys_type \in {"jfs", "xfs"} /\ ExtentTurn
  <2>1. fsys_type' = fsys_type
    BY <1>6, ExtentsKeep DEF ExtentsGoOn
  <2> QED BY <1>1, <1>6, <2>1, ExtentsRead, ReadInvOf
<1>7. CASE fsys_type = "ntfs" /\ NtfsTurn
  <2>1. fsys_type' = fsys_type
    BY <1>7, NtfsKeeps DEF NtfsGoesOn
  <2> QED BY <1>1, <1>7, <2>1, NtfsReads, ReadInvOf
<1>8. CASE fsys_type = "pxe" /\ PxeTurn
  <2>1. fsys_type' = fsys_type
    BY <1>8, PxeKeeps DEF PxeGoesOn
  <2> QED BY <1>1, <1>8, <2>1, PxeReads, ReadInvOf
<1>9. CASE fsys_type = "reiserfs" /\ ReiserTurn
  <2>1. fsys_type' = fsys_type
    BY <1>9, ReiserKeeps DEF ReiserGoesOn
  <2> QED BY <1>1, <1>9, <2>1, ReiserReads, ReadInvOf
<1> QED BY <1>2, <1>3, <1>4, <1>5, <1>6, <1>7, <1>8, <1>9, ReadDoneReads DEF Turn

\* No file is open.
LEMMA ShutReads ==
  ASSUME call'.op \in {"idle", "failed", "inode"}
  PROVE  ReadInv'
<1>1. Reads'
  BY NoRead
<1>2. FilesOpen' /\ IsoAt' /\ ListAt'
  BY DEF FilesOpen, IsoAt, ListAt, FileOpen
<1>3. ExtentsAt' /\ ReiserAt' /\ PxeAt'
  BY DEF ExtentsAt, ReiserAt, PxeAt
<1> QED BY <1>1, <1>2, <1>3 DEF ReadInv

\* The file stays open, and nothing is read yet.
LEMMA OpenReads ==
  ASSUME ReadInv, call.op \in {"opened", "read"}, call'.op \in {"opened", "reading"}, Reads',
         call'.ino = call.ino, UNCHANGED <<fsys_type, volume, cache, filemax>>
  PROVE  ReadInv'
<1>1. FileOpen /\ FilesOpen
  BY DEF FileOpen, ReadInv
<1>2. FilesOpen'
  BY <1>1, StaysOpen
<1>3. IsoAt' /\ ListAt'
  BY <1>1 DEF ReadInv, IsoAt, ListAt, Node, Nodes
<1>4. ExtentsAt' /\ ReiserAt' /\ PxeAt'
  BY DEF ReadInv, ExtentsAt, ReiserAt, PxeAt
<1> QED BY <1>2, <1>3, <1>4 DEF ReadInv

LEMMA NothingReads ==
  ASSUME ReadInv, UNCHANGED ioVars
  PROVE  ReadInv'
<1>1. /\ call' = call /\ cache' = cache /\ filepos' = filepos /\ filemax' = filemax
      /\ volume' = volume /\ fsys_type' = fsys_type
  BY DEF ioVars
<1>2. /\ (InRead' <=> InRead) /\ (Sure' <=> Sure) /\ (FileOpen' <=> FileOpen)
      /\ Astray' <=> Astray
  BY <1>1 DEF InRead, Sure, FileOpen, Astray
<1>3. Brings => Brings'
  BY <1>1, SameGot
<1>4. Reads'
  BY <1>1, <1>2, <1>3 DEF ReadInv, Reads
<1>5. FilesOpen' /\ IsoAt'
  BY <1>1, <1>2 DEF ReadInv, FilesOpen, IsoAt, Node, Nodes
<1>6. ListAt' /\ ReiserAt'
  BY <1>1 DEF ReadInv, ListAt, ReiserAt
<1>7. ExtentsAt'
  <2>1. ASSUME NEW i \in Nat, LooksAt(cache, i), Runs(call.ino)[i].off * BlockBytes <= filepos
        PROVE  LooksAt(cache, i)' /\ Runs(call.ino)'[i].off * BlockBytes <= filepos'
    BY <1>1, <2>1 DEF LooksAt, OnPage, Before, PageRuns, PageCount, Runs, Node, Nodes
  <2> QED BY <1>1, <2>1 DEF ReadInv, ExtentsAt
<1>8. PxeAt'
  BY <1>1, <1>2 DEF ReadInv, PxeAt, FilePiece, Node, Nodes
<1> QED BY <1>4, <1>5, <1>6, <1>7, <1>8 DEF ReadInv

LEMMA StepReads ==
  ASSUME Inv, ReadInv, [Next]_ioVars
  PROVE  ReadInv'
<1>1. CASE (\E v \in Volumes : Mount(v)) \/ MountFails \/ (\E path \in Paths : Open(path)) \/ Close
  <2>1. ASSUME NEW path, Open(path) PROVE call'.op = "inode"
    BY <2>1 DEF Open, Idle
  <2>2. ASSUME NEW v, Mount(v) PROVE call'.op = "idle"
    BY <2>2 DEF Mount, Idle
  <2>3. MountFails \/ Close => call'.op = "idle"
    BY DEF MountFails, Close, Idle
  <2> QED BY <1>1, <2>1, <2>2, <2>3, ShutReads
<1>2. ASSUME NEW p \in 0..filemax, SeekTo(p)
      PROVE  ReadInv'
  <2>1. /\ call.op \in {"opened", "read"} /\ call'.op = "opened" /\ call'.ino = call.ino
        /\ UNCHANGED <<fsys_type, volume, cache, filemax>>
    BY <1>2 DEF SeekTo, Returned, Inv, Call, CallTyped
  <2> QED BY <2>1, NoRead, OpenReads
<1>3. ASSUME NEW n \in Lens, Read(n)
      PROVE  ReadInv'
  <2>1. /\ call.op \in {"opened", "read"} /\ call'.op = "reading" /\ call'.ino = call.ino
        /\ UNCHANGED <<fsys_type, volume, cache, filemax>>
    BY <1>3 DEF Read, Inv, Call, CallTyped
  <2> QED BY <1>3, <2>1, ReadBegins, OpenReads
<1>4. CASE UNCHANGED ioVars
  BY <1>4, NothingReads
<1> QED BY <1>1, <1>2, <1>3, <1>4, TurnReads DEF Next

LEMMA InitReads ==
  ASSUME Init
  PROVE  ReadInv
<1>1. call.op = "idle"
  BY DEF Init, Idle
<1> QED BY <1>1 DEF ReadInv, Reads, InRead, FilesOpen, FileOpen, IsoAt, ListAt, ExtentsAt, ReiserAt, PxeAt

LEMMA ReadInvBytesTrue ==
  ASSUME Inv, ReadInv, ~volume.excused, ~Astray
  PROVE  BytesTrue
<1> SUFFICES ASSUME call.op = "read", ~call.lost
             PROVE  LET n     == Len(call.buf)
                        start == filepos - n
                    IN  /\ n <= filepos
                        /\ \A i \in 1..n : call.buf[i] = ByteOf(Node(call.ino), start + i - 1)
                        /\ fsys_type # "reiserfs" => n = Lesser(call.want, filemax - start)
  BY DEF BytesTrue
<1>1. PICK n \in Nat : Got(n)
  BY DEF ReadInv, Reads, Sure, Brings
<1>2. call.buf = Stretch(Node(call.ino), filepos - n, n) /\ call.left = 0 /\ n <= filepos
  BY <1>1 DEF Got, FilePiece, ReadInv, Reads
<1>3. Len(call.buf) = n
  BY <1>2, StretchLen
<1>4. \A i \in 1..n : call.buf[i] = ByteOf(Node(call.ino), filepos - n + i - 1)
  BY <1>2 DEF Stretch
<1>5. fsys_type # "reiserfs" => n = Lesser(call.want, filemax - (filepos - n))
  BY <1>1, <1>2 DEF Got
<1> QED BY <1>2, <1>3, <1>4, <1>5

---------------------------------------------------------------------------
(* What the invariants say. *)

LEMMA InvTypeOK ==
  ASSUME Inv
  PROVE  TypeOK
<1>1. /\ fsys_type = volume.format /\ filemax \in Nat /\ filepos \in Nat
      /\ call.left \in Nat /\ call.lost \in BOOLEAN /\ filepos + call.left <= filemax
      /\ call.op \in OpsOf(fsys_type)
  BY DEF Inv, Call, CallTyped, At
<1>2. filepos <= filemax
  BY <1>1
<1>3. call.op \in {"idle", "opened", "read", "failed", "inode", "entry", "search",
                   "tree", "next", "descend", "item"} \cup Reading
  BY <1>1 DEF OpsOf, Reading
<1> QED BY <1>1, <1>2, <1>3 DEF TypeOK

LEMMA InvKeptTrue ==
  ASSUME Inv, ReadInv
  PROVE  KeptTrue
<1> SUFFICES ASSUME ~volume.excused, ~Astray
             PROVE  CursorTrue /\ TablesTrue /\ BufferTrue /\ BytesTrue
  BY DEF KeptTrue
<1>1. CursorTrue
  BY DEF Inv, FatInv, ListInv, CursorTrue, Astray
<1>2. TablesTrue
  BY DEF Inv, MapsInv, ReiserInv, TablesTrue, SlotsTrue
<1>3. ASSUME fsys_type = "ntfs", FileOpen \/ call.op = "blocks"
      PROVE  BufferTrue
  BY <1>3 DEF Inv, NtfsInv
<1>4. ASSUME fsys_type = "pxe", FileOpen
      PROVE  BufferTrue
  <2>1. /\ PxeForm /\ cache.saved_pos = There
        /\ \A i \in 0..cache.read_ofs - 1 : cache.data[i] = ByteOf(Node(call.ino), BufStart + i)
    BY <1>4 DEF Inv, PxeInv, PxeOpen
  <2>2. cache.saved_pos \in Nat /\ cache.cur_ofs \in Nat /\ cache.read_ofs \in Int /\ cache.server \in Nat
    BY <2>1 DEF PxeForm
  <2>3. cache.saved_pos - cache.cur_ofs = BufStart /\ cache.server = BufStart + cache.read_ofs
    BY <2>1, <2>2 DEF There, BufStart
  <2> DEFINE start == cache.saved_pos - cache.cur_ofs
  <2>4. /\ cache.server = start + cache.read_ofs
        /\ \A i \in 0..cache.read_ofs - 1 : cache.data[i] = ByteOf(Node(call.ino), start + i)
    <3>1. start = BufStart
      BY <2>3
    <3> HIDE DEF start
    <3> QED BY <2>1, <2>3, <3>1
  <2> QED BY <1>4, <2>4 DEF BufferTrue
<1>5. ASSUME ~(fsys_type = "ntfs" /\ (FileOpen \/ call.op = "blocks")), ~(fsys_type = "pxe" /\ FileOpen)
      PROVE  BufferTrue
  BY <1>5 DEF BufferTrue
<1>6. BytesTrue
  BY ReadInvBytesTrue
<1> QED BY <1>1, <1>2, <1>3, <1>4, <1>5, <1>6

---------------------------------------------------------------------------
(* The theorems. *)

THEOREM ReadersInvariant == Spec => []Inv
<1>1. Init => Inv
  BY InitInv
<1>2. Inv /\ [Next]_ioVars => Inv'
  BY StepKeeps
<1> QED BY <1>1, <1>2, PTL DEF Spec

THEOREM ReadersRead == Spec => []ReadInv
<1>1. Init => ReadInv
  BY InitReads
<1>2. Inv /\ ReadInv /\ [Next]_ioVars => ReadInv'
  BY StepReads
<1> QED BY <1>1, <1>2, ReadersInvariant, PTL DEF Spec

\* The position of an open file stays within it, whatever is read and however
\* a read ends.
THEOREM ReadersTypeOK == Spec => []TypeOK
  BY ReadersInvariant, InvTypeOK, PTL

\* What a reader keeps from one call to the next is true of the file that is
\* open: fat's place in its chain, a block list's in its runs, the tables of
\* ext2 and minix, the nodes of a reiserfs tree until an error, the sector
\* that ntfs buffers and the bytes that pxe does.  And what a read of any
\* length brings from any position, in all formats, are the file's bytes; of a
\* fat, until a link of the file is read from below the window.
THEOREM ReadersKeptTrue == Spec => []KeptTrue
  BY ReadersInvariant, ReadersRead, InvKeptTrue, PTL

=============================================================================
