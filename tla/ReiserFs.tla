------------------------------ MODULE ReiserFs ------------------------------
(* fsys_reiserfs.c: a tree of items in key order.  The reader keeps the      *)
(* nodes on the path to the item it is at, and finds the item after it by    *)
(* the number of the next child of each of them.                             *)
EXTENDS FileIO, SequencesExt

CONSTANT CachedSlots     \* INFO->cached_slots
ASSUME ReiserAssumption == CachedSlots \in Nat \ {0}

(* What the format puts on the disk: a node of level 1 has items, with a     *)
(* kind, the inode they are of and their place in it (0 for the stat item,   *)
(* a byte counted from 1 for data); a node above has children, between which *)
(* are the first keys of all but the first of them.                          *)
MaxHeight == 7           \* MAX_HEIGHT
Tree   == volume.tree
Height == volume.height
KeyOf(b) == volume.first[b]
Stat(ino) == <<ino, 0>>
Above(k1, k2) == k1[1] > k2[1] \/ (k1[1] = k2[1] /\ k1[2] > k2[2])
NoItem == [ino |-> 0 - 1, kind |-> "none", off |-> 0, len |-> 0, list |-> <<>>]

(* A block that is no node, and what stands where a node has no child: no    *)
(* block of the tree.                                                        *)
NoNode  == [level |-> 0, kids |-> <<>>, items |-> <<>>]
NoBlock == 0 - 1
NodeIn(tree, b) == IF b \in DOMAIN tree THEN tree[b] ELSE NoNode
Block(b) == NodeIn(Tree, b)
Child(node, i) == IF i \in DOMAIN node.kids THEN node.kids[i] ELSE NoBlock

(* The journal: transactions of blocks that were not yet written to their    *)
(* places, each with a block before (desc) and one behind (commit).          *)
Desc(journal) ==
  LET desc[k \in Nat] ==
        IF k <= 1 THEN journal.first
        ELSE (desc[k - 1] + 2 + Len(journal.trans[k - 1])) % journal.size
  IN  desc

(* block_read: the place of a block in the last transaction that has it.     *)
PlaceIn(journal, b) ==
  LET with == {k \in DOMAIN journal.trans : \E i \in DOMAIN journal.trans[k] :
                                              journal.trans[k][i] = b}
      last == Max(with)
      i    == CHOOSE i \in DOMAIN journal.trans[last] :
                journal.trans[last][i] = b /\
                \A j \in 1..i - 1 : journal.trans[last][j] # b
  IN  IF with = {} THEN b ELSE journal.block + ((Desc(journal)[last] + i) % journal.size)
Translated(b) == PlaceIn(volume.journal, b)

(* The tree is one that mounts; in a sound one a node above the leaves has   *)
(* children of the level below.                                              *)
TreeTyped(v) ==
  /\ v.height \in 1..MaxHeight - 1
  /\ \A b \in DOMAIN v.tree :
       /\ v.tree[b].kids \in Seq(Int) /\ v.tree[b].level \in Nat
       /\ DOMAIN v.tree[b].items = 1..Len(v.tree[b].items) /\ Len(v.tree[b].items) \in Nat
       /\ \A i \in DOMAIN v.tree[b].items :
            LET item == v.tree[b].items[i]
            IN  /\ item.off \in Nat /\ item.len \in Nat
                /\ item.ino \in DOMAIN v.nodes /\ v.nodes[item.ino].type = "dir" =>
                     item.list \in Seq(1..v.nodes[item.ino].size)
TreeSound(v) ==
  /\ NodeIn(v.tree, v.root).level = v.height
  /\ \A b \in DOMAIN v.tree : v.tree[b].level > 1 =>
       /\ v.tree[b].kids # <<>>
       /\ \A i \in DOMAIN v.tree[b].kids :
            LET kid == v.tree[b].kids[i]
            IN  kid # 0 /\ NodeIn(v.tree, PlaceIn(v.journal, kid)).level = v.tree[b].level - 1

(* The bytes of a file are in its items: a direct one has them, an indirect  *)
(* one the blocks they are in.                                               *)
ItemTrue(node, item) ==
  /\ item.kind = "direct" => item.off > 0 /\
       \A k \in 0..item.len - 1 : item.list[k + 1] = ByteOf(node, item.off - 1 + k)
  /\ item.kind = "indirect" => item.off > 0 /\ (item.off - 1) % BlockBytes = 0 /\
       \A k \in 0..item.len - 1 :
         /\ item.list[k \div BlockBytes + 1] \in Nat \ {Hole}
         /\ item.list[k \div BlockBytes + 1] = node.blocks[(item.off - 1 + k) \div BlockBytes + 1]
ItemsTrue(v) ==
  \A b \in DOMAIN v.tree : \A i \in DOMAIN v.tree[b].items :
    LET item == v.tree[b].items[i]
    IN  item.ino \in DOMAIN v.nodes => ItemTrue(v.nodes[item.ino], item)

-----------------------------------------------------------------------------
(* cache: the block in each slot of the node cache, what INFO->blocks says   *)
(* is there, next_key_nr, the place of current_ih in the leaf (0 for the     *)
(* dummy behind the last key), fileinfo, and, of the search that runs, the   *)
(* depth it is at and what it is for (goal).                                 *)
ReiserMounted == [slot |-> [d \in 1..CachedSlots |-> 0],
                  blocks |-> [d \in 1..MaxHeight - 1 |-> 0],
                  next_key_nr |-> [d \in 1..MaxHeight - 1 |-> 0], cur |-> 0, file |-> 0,
                  depth |-> 0, goal |-> "stat"]

Slot(d)   == Lesser(d, CachedSlots)
NodeAt(d) == Block(IF d = Height THEN volume.root ELSE cache.slot[Slot(d)])
Items     == NodeAt(1).items
Item      == IF cache.cur \in DOMAIN Items THEN Items[cache.cur] ELSE NoItem
Keeps     == UNCHANGED <<fsys_type, volume, filepos, filemax>>

(* A search fails: so does the dir function, and the read function if it was *)
(* after the next key; if it was after the file, it only sets errnum and     *)
(* looks for the key next to the one it is at.                               *)
SearchFails(e, ok) ==
  IF cache.goal # "read" THEN DirFails(e, ok)
  ELSE IF call.op # "tree" THEN ReadFails(e, ok)
  ELSE /\ ok \/ MayLose
       /\ call' = [call EXCEPT !.op = "next", !.lost = @ \/ ~ok]
       /\ errnum' = e
       /\ Keeps

(* read_tree_node of child i of the node at depth d, after next_key_nr[d] is *)
(* set.  A failed read is taken to leave the slot as it was.                 *)
Descend(d, i, nr, op) ==
  LET b     == Child(NodeAt(d), i + 1)
      noted == [cache EXCEPT !.next_key_nr[d] = nr, !.depth = d - 1]
      read  == [noted EXCEPT !.slot[Slot(d - 1)] = Translated(b)]
      known == d - 1 < CachedSlots /\ cache.blocks[d - 1] = b
      level == Block(Translated(b)).level
  IN  \/ ~known /\ cache' = noted /\ SearchFails("read", FALSE)
      \/ ~known /\ level # d - 1 /\ cache' = read /\ SearchFails("corrupt", TRUE)
      \/ /\ known \/ level = d - 1
         /\ cache' = IF known THEN noted ELSE [read EXCEPT !.blocks[d - 1] = b]
         /\ errnum' = IF known THEN errnum ELSE None
         /\ call' = [call EXCEPT !.op = op]
         /\ Keeps

(* search_stat: down from the root to the stat item.                         *)
SearchStat(ino, goal) ==
  /\ cache' = [cache EXCEPT !.depth = Height, !.goal = goal, !.file = ino]
  /\ call' = [call EXCEPT !.op = "tree"]
  /\ Keeps /\ UNCHANGED errnum

TreeStep ==
  LET d    == cache.depth
      kids == NodeAt(d).kids
      i    == Cardinality({j \in 2..Len(kids) : ~Above(KeyOf(kids[j]), Stat(cache.file))})
  IN  /\ call.op = "tree" /\ d > 1
      /\ Descend(d, i, IF i = Len(kids) - 1 THEN 0 ELSE i + 1, "tree")

(* What reiserfs_dir does with the stat item at a place: what it needs next  *)
(* of a link, of a file and of a directory is the item after it.             *)
NextFor(goal, at, max) ==
  /\ cache' = [cache EXCEPT !.cur = at, !.goal = goal]
  /\ call' = [call EXCEPT !.op = "next"]
  /\ filemax' = max
  /\ UNCHANGED <<fsys_type, volume, filepos, errnum>>

StatFound(at) ==
  LET node == Node(call.ino)
      here == [cache EXCEPT !.cur = at]
  IN  IF node.type = "link"
      THEN \/ LinkLoop /\ cache' = here
           \/ call.links < MaxLinks /\ NextFor("link", at, node.size)
      ELSE IF call.path = <<>> /\ node.type = "file"
      THEN NextFor("file", at, node.size)
      ELSE IF call.path # <<>> /\ node.type = "dir"
      THEN NextFor("entries", at, filemax)
      ELSE DirFails("filetype", TRUE) /\ cache' = here

LeafStep ==
  LET stats == {i \in DOMAIN Items : Items[i].ino = cache.file /\ Items[i].kind = "stat"}
  IN  /\ call.op = "tree" /\ cache.depth = 1
      /\ IF stats = {} THEN SearchFails("corrupt", TRUE) /\ UNCHANGED cache
         ELSE IF cache.goal = "read" THEN NextFor("read", Max(stats), filemax)
         ELSE StatFound(Max(stats))

-----------------------------------------------------------------------------
(* next_key: the item next in the leaf, or the first of the leaf that the    *)
(* lowest node with a next child leads to.                                   *)
ToItem(at) ==
  /\ cache' = [cache EXCEPT !.cur = at]
  /\ call' = [call EXCEPT !.op = IF cache.goal = "read" THEN "items" ELSE "item"]
  /\ Keeps /\ UNCHANGED errnum

TurnDown(d) ==
  LET nr == cache.next_key_nr[d]
  IN  Descend(d, nr, IF nr = Len(NodeAt(d).kids) - 1 THEN 0 ELSE nr + 1, "descend")

(* A node above the cached ones is read again, over the one in the last slot. *)
Reread(d) ==
  LET b    == Translated(cache.blocks[d])
      read == [cache EXCEPT !.depth = d, !.slot[CachedSlots] = b]
  IN  \/ SearchFails("read", FALSE) /\ UNCHANGED cache
      \/ Block(b).level # d /\ cache' = read /\ SearchFails("corrupt", TRUE)
      \/ /\ Block(b).level = d
         /\ cache' = read
         /\ errnum' = None
         /\ call' = [call EXCEPT !.op = "descend"]
         /\ Keeps

NextKey ==
  LET turning == {d \in 2..Height : cache.next_key_nr[d] # 0}
  IN  /\ call.op = "next"
      /\ IF cache.cur \in 1..Len(Items) - 1 THEN ToItem(cache.cur + 1)
         ELSE IF turning = {} THEN ToItem(0)
         ELSE IF Min(turning) > CachedSlots /\ Min(turning) # Height
         THEN Reread(Min(turning))
         ELSE TurnDown(Min(turning))

DescendOn == /\ call.op = "descend"
             /\ IF cache.depth > 1 THEN TurnDown(cache.depth) ELSE ToItem(1)

-----------------------------------------------------------------------------
(* reiserfs_dir.                                                             *)
ReiserInode == /\ call.op = "inode"
               /\ SearchStat(call.ino, "stat")

(* The item after the stat item: a link's path, a file's first bytes, or     *)
(* entries, which are compared, and the item after those if none matches.    *)
ReiserItem ==
  LET mine  == Item.ino = call.ino
      match == {i \in DOMAIN Item.list : Node(call.ino).inos[Item.list[i]] # 0 /\
                   Node(call.ino).names[Item.list[i]] = Head(call.path)}
      entry == Node(call.ino).inos[Item.list[Min(match)]]
  IN  /\ call.op = "item"
      /\ CASE cache.goal = "file" -> DirFinds(call.ino)
           [] cache.goal = "link" /\ mine -> ChaseLink
           [] cache.goal = "link" /\ ~mine -> DirFails("corrupt", TRUE)
           [] cache.goal = "entries" /\ ~mine -> DirFails("not found", TRUE)
           [] cache.goal = "entries" /\ mine ->
                /\ call' = IF match = {} THEN [call EXCEPT !.op = "next"]
                           ELSE [call EXCEPT !.op = "inode", !.ino = entry,
                                             !.updir = call.ino, !.path = Tail(@)]
                /\ Keeps /\ UNCHANGED errnum
      /\ UNCHANGED cache

(* reiserfs_read: if the item is of another file or behind the place, the    *)
(* search starts again.                                                      *)
ReiserBegin ==
  /\ call.op = "reading"
  /\ IF Item.ino # cache.file \/ Item.off > filepos + 1
     THEN SearchStat(cache.file, "read")
     ELSE /\ cache' = [cache EXCEPT !.goal = "read"]
          /\ call' = [call EXCEPT !.op = "items"]
          /\ Keeps /\ UNCHANGED errnum

(* One turn: bytes of a direct item, a block of an indirect one, or the next *)
(* item, until all bytes are there or the item is of another file.           *)
ReiserDone ==
  /\ \/ call.op = "done"
     \/ call.op = "items" /\ (errnum # None \/ Item.ino # cache.file)
  /\ ReadReturns

ReiserRead ==
  LET offset == filepos - Item.off + 1
      inside == Item.kind \in {"direct", "indirect"} /\ offset \in 0..Item.len - 1
      n      == Lesser(IF Item.kind = "direct" THEN Item.len - offset
                       ELSE BlockBytes - (offset % BlockBytes), call.left)
      op     == IF call.left = n THEN "done" ELSE "items"
  IN  /\ call.op = "items" /\ errnum = None /\ Item.ino = cache.file
      /\ IF ~inside
         THEN /\ call' = [call EXCEPT !.op = "next"]
              /\ Keeps /\ UNCHANGED errnum
         ELSE IF Item.kind = "indirect"
         THEN AdvanceTo(op, Item.list[offset \div BlockBytes + 1],
                        offset % BlockBytes, n)
         ELSE /\ call' = [call EXCEPT !.op = op, !.left = @ - n,
                            !.buf = @ \o [i \in 1..n |-> Item.list[offset + i]]]
              /\ filepos' = filepos + n
              /\ UNCHANGED <<fsys_type, volume, filemax, errnum>>
      /\ UNCHANGED cache

ReiserTurn ==
  \/ ReiserInode \/ TreeStep \/ LeafStep \/ NextKey \/ DescendOn \/ ReiserItem
  \/ ReiserBegin \/ ReiserDone \/ ReiserRead
=============================================================================
