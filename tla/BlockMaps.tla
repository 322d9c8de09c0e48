----------------------------- MODULE BlockMaps ------------------------------
(* fsys_ext2fs.c and fsys_minix.c: block maps with indirect blocks, of which *)
(* two buffers, DATABLOCK1 and DATABLOCK2, hold the last ones read.          *)
EXTENDS FileIO

CONSTANTS NDirect,        \* EXT2_NDIR_BLOCKS; 7 for minix
          AddrPerBlock    \* EXT2_ADDR_PER_BLOCK; 512 for minix

ASSUME BlockMapAssumption == NDirect \in Nat /\ AddrPerBlock \in Nat \ {0}

(* What the format puts on the disk: the blocks that are tables, with their  *)
(* pointers, and for each inode the table at the top of each level, 0 where  *)
(* it maps only holes.  Another block read as a table gives JunkBlock.       *)
JunkBlock == 9999
Logical(n, l) == LET blocks == Node(n).blocks
                 IN  IF l < Len(blocks) THEN blocks[l + 1] ELSE Hole
Top(n, k)     == Node(n).tops[k]
Pointer(b, j) == IF b \in DOMAIN volume.table
                 THEN volume.table[b][j + 1] ELSE JunkBlock

(* Logical block l is reached through Level(l) tables; the tables of level k *)
(* map AddrPerBlock^k blocks from First(k) on.                               *)
Span(k)  == CASE k = 1 -> AddrPerBlock
              [] k = 2 -> AddrPerBlock * AddrPerBlock
              [] k = 3 -> AddrPerBlock * AddrPerBlock * AddrPerBlock
First(k) == NDirect + (IF k > 1 THEN Span(1) ELSE 0) + IF k > 2 THEN Span(2) ELSE 0
Level(l) == CASE l < First(1) -> 0 [] l >= First(1) /\ l < First(2) -> 1
              [] l >= First(2) /\ (l < First(3) \/ fsys_type = "minix") -> 2
              [] OTHER -> 3
Place(l) == l - First(Level(l))

(* In a sound volume the tables of a file lead to its blocks, which in a     *)
(* minix file system are no holes.                                           *)
InTable(table, b, j) == IF b \in DOMAIN table THEN table[b][j + 1] ELSE JunkBlock
MapsTyped(v) == ~v.excused => \A n \in DOMAIN v.nodes : v.nodes[n].type = "file" =>
  \A l \in 0..Len(v.nodes[n].blocks) - 1 :
    LET block == v.nodes[n].blocks[l + 1]
        tops  == v.nodes[n].tops
        at(k) == l - First(k)
        second == InTable(v.table, tops[2], at(2) \div AddrPerBlock)
        third  == InTable(v.table, InTable(v.table, tops[3], at(3) \div Span(2)),
                          (at(3) \div AddrPerBlock) % AddrPerBlock)
    IN  /\ v.format = "minix" => block # Hole
        /\ l >= First(1) /\ l < First(2) =>
             tops[1] > 0 /\ block = InTable(v.table, tops[1], at(1))
        /\ l >= First(2) /\ (l < First(3) \/ v.format = "minix") =>
             tops[2] > 0 /\ second > 0 /\ block = InTable(v.table, second, at(2) % AddrPerBlock)
        /\ l >= First(3) /\ v.format # "minix" =>
             block = InTable(v.table, third, at(3) % AddrPerBlock)

(* mapblock1 tells the level whose top table DATABLOCK1 (db1) holds,         *)
(* mapblock2 the number of the table in DATABLOCK2 (db2).                    *)
MapsUnset == [mapblock1 |-> 0 - 1, mapblock2 |-> 0 - 1,
              db1 |-> Hole, db2 |-> Hole]
\* faulty: the tables of the inode before are taken for this one's.
MapsKept == cache
MapsReset == [cache EXCEPT !.mapblock1 = 0 - 1, !.mapblock2 = 0 - 1]

Table1(l) == Top(call.ino, Level(l))
Table2(l) == Pointer(cache.db1, Place(l) \div AddrPerBlock)
Table3(l) == Pointer(Pointer(cache.db1, Place(l) \div Span(2)),
                     (Place(l) \div AddrPerBlock) % AddrPerBlock)

(* In minix_read map is unsigned, so that the -1 of an error is not below 0, *)
(* and the devread of that block fails: the loop goes on behind it.          *)
MinixSkip(ok) ==
  LET n == Lesser(BlockBytes - (filepos % BlockBytes), call.left)
  IN  /\ ok \/ MayLose
      /\ call' = [call EXCEPT !.buf = @ \o Junk(n), !.left = @ - n,
                              !.lost = @ \/ ~ok]
      /\ filepos' = filepos + n
      /\ errnum' = "outside"
      /\ UNCHANGED <<fsys_type, volume, filemax, cache>>

(* The block map ends with -1: a table could not be read, or, in a minix     *)
(* file system, is not there.                                                *)
MapFails(ok) ==
  IF fsys_type = "minix" /\ call.op = "reading" THEN MinixSkip(ok)
  ELSE /\ UNCHANGED cache
       /\ IF call.op = "search" THEN DirFails("corrupt", ok)
                                ELSE ReadFails("corrupt", ok)

TableLoaded(tables) ==
  /\ cache' = tables
  /\ errnum' = None
  /\ UNCHANGED <<fsys_type, volume, filepos, filemax, call>>

(* ext2fs_block_map, minix_block_map: DATABLOCK1 gets the top table of the   *)
(* level unless it has it,                                                   *)
LoadTable1(l) ==
  /\ Level(l) > 0
  /\ \/ fsys_type = "minix" /\ Table1(l) = Hole /\ MapFails(TRUE)
     \/ /\ cache.mapblock1 # Level(l)
        /\ \/ MapFails(FALSE)
           \/ /\ fsys_type = "minix" => Table1(l) # Hole
              /\ TableLoaded([cache EXCEPT !.mapblock1 = Level(l),
                                           !.db1 = Table1(l)])

(* and DATABLOCK2 the table below it, unless mapblock2 says so.              *)
LoadTable2(l) ==
  /\ Level(l) = 2 /\ cache.mapblock1 = 2
  /\ \/ fsys_type = "minix" /\ Table2(l) = Hole /\ MapFails(TRUE)
     \/ /\ cache.mapblock2 # Table2(l)
        /\ \/ MapFails(FALSE)
           \/ /\ fsys_type = "minix" => Table2(l) # Hole
              /\ TableLoaded([cache EXCEPT !.mapblock2 = Table2(l),
                                           !.db2 = Table2(l)])

TablesReady(l) == \/ Level(l) = 0
                  \/ /\ cache.mapblock1 = Level(l)
                     /\ Level(l) = 2 => cache.mapblock2 = Table2(l)

(* The physical block.  For a triple map DATABLOCK2 is read twice, always.   *)
BlockOf(l) ==
  CASE Level(l) = 0 -> Logical(call.ino, l)
    [] Level(l) = 1 -> Pointer(cache.db1, Place(l))
    [] Level(l) = 2 -> Pointer(cache.db2, Place(l) % AddrPerBlock)
    [] Level(l) = 3 -> Pointer(Table3(l), Place(l) % AddrPerBlock)
AfterMap(l) == IF Level(l) = 3
               THEN [cache EXCEPT !.mapblock2 = 0 - 1, !.db2 = Table3(l)]
               ELSE cache

(* One turn of ext2fs_read.                                                  *)
Ext2Read ==
  LET l      == filepos \div BlockBytes
      offset == filepos % BlockBytes
      size   == Lesser(BlockBytes - offset, call.left)
  IN  /\ call.op = "reading" /\ call.left > 0
      /\ \/ LoadTable1(l)
         \/ LoadTable2(l)
         \/ /\ TablesReady(l)
            /\ \/ Level(l) = 3 /\ MapFails(FALSE)
               \/ /\ cache' = AfterMap(l)
                  /\ IF BlockOf(l) = Hole THEN AdvanceHole(size)
                     ELSE Advance(BlockOf(l), offset, size)

(* One turn of minix_read.                                                   *)
MinixRead ==
  LET l      == filepos \div BlockBytes
      offset == filepos % BlockBytes
  IN  /\ call.op = "reading" /\ call.left > 0
      /\ \/ LoadTable1(l)
         \/ LoadTable2(l)
         \/ /\ TablesReady(l)
            /\ Advance(BlockOf(l), offset,
                       Lesser(BlockBytes - offset, call.left))
            /\ UNCHANGED cache

(* The search of a directory: the block with the place is read into          *)
(* DATABLOCK2, which no longer holds a table.                                *)
MappedSearch ==
  LET l == call.loc \div BlockBytes
  IN  /\ call.op = "search"
      /\ call.loc < Node(call.ino).size
      /\ \/ LoadTable1(l)
         \/ LoadTable2(l)
         \/ /\ TablesReady(l)
            /\ \/ MapFails(FALSE)
               \/ /\ cache' = [cache EXCEPT !.mapblock2 = 0 - 1,
                                            !.db2 = BlockOf(l)]
                  /\ SeeEntry(<<BlockOf(l), call.loc % BlockBytes>>)

MappedTurn ==
  \/ WalkInode(MapsReset)
  \/ MappedSearch
  \/ SearchEnds
  \/ fsys_type = "ext2" /\ Ext2Read
  \/ fsys_type = "minix" /\ MinixRead
=============================================================================
