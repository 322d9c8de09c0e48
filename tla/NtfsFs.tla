------------------------------- MODULE NtfsFs -------------------------------
(* fsys_ntfs.c: a file is a list of runs of clusters, some of them holes; a  *)
(* read of part of a block goes through the buffer sbuf, which is kept with  *)
(* its place in the file (save_pos) for the next read.                       *)
EXTENDS Extents

Spc == volume.spc       \* blocks of a cluster

(* What is promised of reads is promised for clusters of one block.          *)
NtfsTyped(v) ==
  /\ v.spc \in Nat \ {0} /\ (~v.excused => v.spc = 1)
  /\ \A n \in DOMAIN v.nodes : v.nodes[n].type # "link"

(* save_pos of a file just looked up: no block begins there.                 *)
NoPos == 0 - 1

(* cache: sbuf and save_pos, and, while read_block runs, the run it is in    *)
(* and the block it is at (target_vcn and vcn_offset).                       *)
NtfsMounted == [save_pos |-> NoPos, sbuf |-> <<>>, run |-> 0, target |-> 0]

NtfsFails(ok) ==
  /\ ok \/ MayLose
  /\ call' = [Returned("failed", <<>>) EXCEPT !.lost = @ \/ ~ok]
  /\ errnum' = "corrupt"
  /\ filepos' = filepos - Len(call.buf)
  /\ UNCHANGED <<fsys_type, volume, filemax>>

-----------------------------------------------------------------------------
(* ntfs_dir: init_file reads the record of a component; a directory opens as *)
(* a file of no bytes.                                                       *)
NtfsComponent ==
  /\ call.op = "inode"
  /\ \/ DirFails("corrupt", FALSE) /\ UNCHANGED cache
     \/ /\ cache' = NtfsMounted
        /\ IF call.path = <<>>
           THEN /\ call' = [call EXCEPT !.op = "opened"]
                /\ filemax' = IF Node(call.ino).type = "dir" THEN 0
                              ELSE Node(call.ino).size
                /\ filepos' = 0
                /\ UNCHANGED <<fsys_type, volume, errnum>>
           ELSE IF Node(call.ino).type = "dir"
           THEN /\ call' = [call EXCEPT !.op = "search", !.loc = 0]
                /\ UNCHANGED <<fsys_type, volume, filepos, filemax, errnum>>
           ELSE DirFails("not found", TRUE)

(* scan_dir: the index blocks that the bitmap marks go through sbuf.         *)
NtfsSearch ==
  LET l == call.loc \div BlockBytes
      b == Node(call.ino).blocks[l + 1]
  IN  /\ call.op = "search" /\ call.loc < Node(call.ino).size
      /\ \/ DirFails("corrupt", FALSE) /\ UNCHANGED cache
         \/ /\ SeeEntry(<<b, call.loc % BlockBytes>>)
            /\ cache' = [cache EXCEPT !.sbuf = DiskBytes(b, 0, BlockBytes)]

-----------------------------------------------------------------------------
(* read_data: what sbuf has of the wanted bytes is taken from it; the rest   *)
(* is looked up in the run list.                                             *)
RunWith(block) == CHOOSE r \in 1..Len(Runs(call.ino)) :
                    /\ Runs(call.ino)[r].off <= block
                    /\ block < Runs(call.ino)[r].off + Runs(call.ino)[r].len

NtfsBegin ==
  LET offset == filepos % BlockBytes
      n      == IF filepos - offset = cache.save_pos
                THEN Lesser(BlockBytes - offset, call.left) ELSE 0
      block  == (filepos + n) \div BlockBytes
  IN  /\ call.op = "reading" /\ call.left > 0
      /\ call' = [call EXCEPT !.op = "blocks", !.left = @ - n,
                              !.buf = SubSeq(cache.sbuf, offset + 1, offset + n)]
      /\ filepos' = filepos + n
      /\ cache' = IF call.left = n THEN cache
                  ELSE [cache EXCEPT !.target = block, !.run = RunWith(block)]
      /\ UNCHANGED <<fsys_type, volume, filemax, errnum>>

(* read_block: one call reads the whole blocks, another the part of a block  *)
(* before or after them.  It goes on to the next run only while it has       *)
(* blocks left to read; a call that starts at the end of a run asks for no   *)
(* byte of it first, which devread refuses in a partition below 4 GB.        *)
NtfsWhole == IF filepos % BlockBytes = 0 THEN call.left \div BlockBytes ELSE 0
NtfsRun   == Runs(call.ino)[cache.run]
InRun     == NtfsRun.off + NtfsRun.len - cache.target
RunBytes(n) ==
  IF NtfsRun.addr = Hole THEN Zeroes(n)
  ELSE DiskBytes(NtfsRun.addr + cache.target - NtfsRun.off, 0, n)

NextRun ==
  /\ call.op = "blocks" /\ call.left > 0 /\ InRun = 0
  /\ IF NtfsRun.addr # Hole /\ volume.small
     THEN NtfsFails(TRUE) /\ UNCHANGED cache
     ELSE /\ cache' = [cache EXCEPT !.run = @ + 1]
          /\ errnum' = IF NtfsRun.addr = Hole THEN errnum ELSE None
          /\ UNCHANGED <<fsys_type, volume, filepos, filemax, call>>

NtfsBlocks ==
  LET n == Lesser(InRun, NtfsWhole)
  IN  /\ call.op = "blocks" /\ NtfsWhole > 0 /\ InRun > 0
      /\ \/ NtfsRun.addr # Hole /\ NtfsFails(FALSE) /\ UNCHANGED cache
         \/ /\ call' = [call EXCEPT !.buf = @ \o RunBytes(n * BlockBytes),
                                    !.left = @ - n * BlockBytes]
            /\ filepos' = filepos + n * BlockBytes
            /\ errnum' = IF NtfsRun.addr = Hole THEN errnum ELSE None
            /\ cache' = [cache EXCEPT !.target = @ + n,
                                      !.run = IF n < NtfsWhole THEN @ + 1 ELSE @]
            /\ UNCHANGED <<fsys_type, volume, filemax>>

(* The part of a block: save_pos is the start of the cluster it is in.       *)
NtfsPart ==
  LET offset == filepos % BlockBytes
      n      == Lesser(BlockBytes - offset, call.left)
      block  == RunBytes(BlockBytes)
  IN  /\ call.op = "blocks" /\ NtfsWhole = 0 /\ call.left > 0 /\ InRun > 0
      /\ \/ NtfsRun.addr # Hole /\ NtfsFails(FALSE) /\ UNCHANGED cache
         \/ /\ call' = [call EXCEPT !.left = @ - n,
                          !.buf = @ \o SubSeq(block, offset + 1, offset + n)]
            /\ filepos' = filepos + n
            /\ errnum' = IF NtfsRun.addr = Hole THEN errnum ELSE None
            /\ cache' = [cache EXCEPT !.sbuf = block, !.target = @ + 1,
                           !.save_pos = (cache.target - (cache.target % Spc))
                                        * BlockBytes]
            /\ UNCHANGED <<fsys_type, volume, filemax>>

NtfsDone ==
  /\ call.op \in {"reading", "blocks"} /\ call.left = 0
  /\ ShortRead(call.buf)
  /\ UNCHANGED cache

NtfsTurn ==
  \/ NtfsComponent \/ NtfsSearch \/ SearchEnds
  \/ NtfsBegin \/ NextRun \/ NtfsBlocks \/ NtfsPart \/ NtfsDone
=============================================================================
