------------------------------- MODULE FatFs --------------------------------
(* fsys_fat.c: the clusters of a file are a chain through the FAT, of which  *)
(* a window of FatWindow entries is kept, and the last cluster reached is    *)
(* remembered so that a read further on need not start the chain again.      *)
EXTENDS FileIO

CONSTANTS FatSector,     \* FAT entries in a sector
          FatWindow,     \* FAT entries in FAT_BUF (2 * FAT_CACHE_SIZE nibbles)
          NumClust       \* num_clust: clusters are 2 .. NumClust - 1

ASSUME FatAssumption == FatSector \in Nat \ {0} /\ FatWindow \in Nat \ {0}

Word    == 65536         \* stands for 2^32, the range of an unsigned long
MaxInt  == 32767         \* MAXINT: a cluster number no file reaches
FatEof  == 1000          \* an entry at or above clust_eof_marker

(* What the FAT of the volume has for cluster c.                             *)
FatEntry(c) == volume.fat[c]

(* A file ends before MaxInt, and the FAT of a sound volume links the blocks *)
(* of every node, which are clusters; but the root directory of a FAT12 or   *)
(* FAT16 volume (fixed) is a run of blocks from root_offset on.              *)
FatTyped(v) ==
  /\ v.fixed \in BOOLEAN
  /\ \A n \in DOMAIN v.nodes :
       LET blocks == v.nodes[n].blocks
       IN  /\ v.nodes[n].size < MaxInt
           /\ ~v.excused /\ ~(v.fixed /\ n = Root) =>
                /\ \A i \in 1..Len(blocks) - 1 : v.fat[blocks[i]] = blocks[i + 1]
                /\ \A i \in DOMAIN blocks : blocks[i] \in 2..FatEof - 1

(* astray is history: since the file was opened a link was read from below   *)
(* the window, which is no part of the FAT.                                  *)
FatMounted == [cached_fat |-> 0 - FatWindow, current_cluster_num |-> 0,
               current_cluster |-> 0, astray |-> FALSE]

(* The place of an entry in the window: an unsigned difference.              *)
CachedPos(entry, cached_fat) == (entry - cached_fat) % Word
InWindow(entry, cached_fat) ==
  (CachedPos(entry, cached_fat) + 1) % Word <= FatWindow

(* What may be read from the window: an entry, or, for the place just before *)
(* it (whose number wraps when its width is added), whatever is in memory    *)
(* 2 GB further on, where the number shifted right leads: no cluster, the    *)
(* end of a chain, or any cluster.                                           *)
InBuffer(entry, cached_fat) == CachedPos(entry, cached_fat) < FatWindow
WindowEntries(entry, cached_fat) ==
  IF InBuffer(entry, cached_fat) THEN {FatEntry(entry)}
  ELSE {0, FatEof} \cup 2..NumClust - 1

\* faulty: the chain starts again with the cluster it was at.
FatStartLate(pos) ==
  IF pos \div BlockBytes < cache.current_cluster_num
  THEN [cache EXCEPT !.current_cluster_num = 0] ELSE cache

(* fat_read starts: a place before the remembered cluster starts the chain   *)
(* again.                                                                    *)
FatStart(pos) ==
  IF pos \div BlockBytes < cache.current_cluster_num
  THEN [cache EXCEPT !.current_cluster_num = 0,
                     !.current_cluster = Node(call.ino).blocks[1]]
  ELSE cache

FatBegin ==
  /\ call.op = "reading" /\ call.buf = <<>>
  /\ cache' = FatStart(filepos)
  /\ call' = [call EXCEPT !.op = "chain"]
  /\ UNCHANGED <<fsys_type, volume, filepos, filemax, errnum>>

(* One link of the chain; at its end a read returns what it has, a search    *)
(* what it did not find.                                                     *)
EndOfChain == IF call.op = "search" THEN DirFails("not found", TRUE)
              ELSE ShortRead(call.buf)
FatLink(pos) ==
  LET entry  == cache.current_cluster
      hit    == InWindow(entry, cache.cached_fat)
      window == IF hit THEN cache.cached_fat ELSE entry - (entry % FatSector)
      moved  == [cache EXCEPT !.cached_fat = window,
                              !.astray = @ \/ ~InBuffer(entry, window)]
  IN  /\ pos \div BlockBytes > cache.current_cluster_num
      /\ \/ ~hit /\ cache' = moved /\ ReadFails("read", FALSE)
         \/ \E next \in WindowEntries(entry, window) :
              \/ next >= FatEof /\ cache' = moved /\ EndOfChain
              \/ /\ next < FatEof /\ (next < 2 \/ next >= NumClust)
                 /\ cache' = moved
                 /\ ReadFails("corrupt", TRUE)
              \/ /\ next \in 2..NumClust - 1
                 /\ cache' = [moved EXCEPT !.current_cluster = next,
                                           !.current_cluster_num = @ + 1]
                 /\ UNCHANGED <<fsys_type, volume, filepos, filemax, errnum, call>>

\* faulty: the cluster is read to its end whatever is left to read.
FatClusterWhole ==
  LET offset == filepos % BlockBytes
  IN  /\ filepos \div BlockBytes <= cache.current_cluster_num
      /\ Advance(cache.current_cluster, offset, BlockBytes - offset)
      /\ UNCHANGED cache

FatCluster ==
  LET offset == filepos % BlockBytes
  IN  /\ filepos \div BlockBytes <= cache.current_cluster_num
      /\ Advance(cache.current_cluster, offset,
                 Lesser(BlockBytes - offset, call.left))
      /\ UNCHANGED cache

FatRead ==
  \/ FatBegin
  \/ /\ call.op = "chain" /\ call.left > 0
     /\ FatLink(filepos) \/ FatCluster

-----------------------------------------------------------------------------
(* fat_dir: each component starts the chain of its cluster again, by a       *)
(* current_cluster_num that every place is before.  An entry of a directory  *)
(* is read by a call of fat_read of its own.                                 *)
FatRestart == [cache EXCEPT !.current_cluster_num = MaxInt]

FatComponent ==
  LET node == Node(call.ino)
  IN  /\ call.op = "inode"
      /\ cache' = FatRestart
      /\ \/ /\ call.path = <<>> /\ node.type = "file"
            /\ DirFinds(call.ino)
         \/ /\ (call.path = <<>>) # (node.type = "file")
            /\ DirFails("filetype", TRUE)
         \/ /\ call.path # <<>> /\ node.type = "dir"
            /\ call' = [call EXCEPT !.op = "entry", !.loc = 0]
            /\ filemax' = MaxInt
            /\ filepos' = 0
            /\ UNCHANGED <<fsys_type, volume, errnum>>

(* The entry at address a of the disk, which the end of the directory is too.*)
FatEntrySeen(a) ==
  LET dir == Node(call.ino)
      i   == EntryAt(dir, a)
  IN  \/ DirFails("read", FALSE)
      \/ i = 0 /\ DirFails("not found", TRUE)
      \/ /\ i # 0
         /\ call' = IF dir.inos[i] # 0 /\ dir.names[i] = Head(call.path)
                    THEN [call EXCEPT !.op = "inode", !.path = Tail(@),
                                      !.ino = dir.inos[i]]
                    ELSE [call EXCEPT !.op = "entry", !.loc = @ + 1]
         /\ UNCHANGED <<fsys_type, volume, filepos, filemax, errnum>>

(* A root directory without a cluster is read from root_offset on, up to     *)
(* root_max; the remembered cluster is left alone.                           *)
AtFixedRoot == volume.fixed /\ call.ino = Root
FatRootEntry ==
  /\ call.op = "entry" /\ AtFixedRoot
  /\ UNCHANGED cache
  /\ LET blocks == Node(Root).blocks
     IN  IF call.loc < Len(blocks) * BlockBytes
         THEN FatEntrySeen(DiskBytes(blocks[1], call.loc, 1)[1])
         ELSE DirFails("not found", TRUE)

FatEntryBegin ==
  /\ call.op = "entry" /\ ~AtFixedRoot
  /\ cache' = FatStart(call.loc)
  /\ call' = [call EXCEPT !.op = "search"]
  /\ UNCHANGED <<fsys_type, volume, filepos, filemax, errnum>>

FatSearch ==
  /\ call.op = "search"
  /\ \/ FatLink(call.loc)
     \/ /\ call.loc \div BlockBytes <= cache.current_cluster_num
        /\ UNCHANGED cache
        /\ FatEntrySeen(<<cache.current_cluster, call.loc % BlockBytes>>)

FatTurn == FatRead \/ FatComponent \/ FatRootEntry \/ FatEntryBegin \/ FatSearch
=============================================================================
