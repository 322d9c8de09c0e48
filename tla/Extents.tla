------------------------------ MODULE Extents -------------------------------
(* Readers of files that lie in extents: iso9660, where a file is one run of *)
(* blocks, block lists of grub_open, and the extent lists of jfs and xfs.    *)
EXTENDS FileIO, Functions

CONSTANT ExtentsPerPage   \* extents in an inode, xtpage_t or B-tree leaf
ASSUME ExtentsAssumption == ExtentsPerPage \in Nat \ {0}

(* What those formats put on the disk: the runs of consecutive blocks, or of *)
(* holes, that make up a node, each with its place in the file (off).        *)
Runs(ino) == Node(ino).runs

(* The runs of a node follow each other and make up the whole of it.         *)
RunsTyped(v) ==
  \A n \in DOMAIN v.nodes :
    LET runs   == v.nodes[n].runs
        blocks == v.nodes[n].blocks
    IN  /\ runs \in Seq([off : Nat, len : Nat \ {0}, addr : Nat])
        /\ runs # <<>> => runs[1].off = 0
        /\ \A k \in DOMAIN runs :
             /\ k + 1 \in DOMAIN runs => runs[k + 1].off = runs[k].off + runs[k].len
             /\ k + 1 \notin DOMAIN runs => runs[k].off + runs[k].len = Len(blocks)
             /\ \A j \in 0..runs[k].len - 1 :
                  blocks[runs[k].off + j + 1] = IF runs[k].addr = Hole THEN Hole
                                                ELSE runs[k].addr + j
        /\ \A l \in 0..Len(blocks) - 1 : \E k \in DOMAIN runs :
             runs[k].off <= l /\ l < runs[k].off + runs[k].len

-----------------------------------------------------------------------------
(* fsys_iso9660.c: file_start is the first block of the file, 0 for none.    *)
(* Every record of a directory is of a file.                                 *)
IsoTyped(v) ==
  \A n \in DOMAIN v.nodes :
    /\ v.nodes[n].type = "dir" => \A i \in 1..v.nodes[n].size : v.nodes[n].inos[i] # 0
    /\ \A i \in DOMAIN v.nodes[n].blocks :
         v.nodes[n].blocks[1] # Hole /\ v.nodes[n].blocks[i] = v.nodes[n].blocks[1] + i - 1

IsoMounted == [file_start |-> 0]

(* A path is looked up from the root directory.                              *)
IsoStart ==
  /\ call.op = "inode"
  /\ cache' = IsoMounted
  /\ call' = [call EXCEPT !.op = "search", !.loc = 0]
  /\ UNCHANGED <<fsys_type, volume, filepos, filemax, errnum>>

(* The next block of the directory; its records are compared one by one.     *)
IsoFound(ino) ==
  LET last == Len(call.path) = 1
  IN  IF Node(ino).type # IF last THEN "file" ELSE "dir"
      THEN DirFails("filetype", TRUE) /\ UNCHANGED cache
      ELSE IF last
      THEN /\ DirFinds(ino)
           /\ cache' = [file_start |-> IF Node(ino).size = 0 THEN 0
                                       ELSE Node(ino).blocks[1]]
      ELSE /\ call' = [call EXCEPT !.ino = ino, !.path = Tail(@), !.loc = 0]
           /\ UNCHANGED <<fsys_type, volume, cache, filepos, filemax, errnum>>

IsoSearch ==
  LET dir == Node(call.ino)
      at  == {EntryAt(dir, <<dir.blocks[1] + call.loc, i>>) :
                i \in 0..BlockBytes - 1} \ {0}
      match == {i \in at : dir.names[i] = Head(call.path)}
  IN  /\ call.op = "search"
      /\ call.loc * BlockBytes < dir.size
      /\ \/ DirFails("corrupt", FALSE) /\ UNCHANGED cache
         \/ match # {} /\ IsoFound(dir.inos[CHOOSE i \in match :
                                              \A j \in match : i <= j])
         \/ /\ match = {}
            /\ call' = [call EXCEPT !.loc = @ + 1]
            /\ UNCHANGED <<fsys_type, volume, cache, filepos, filemax, errnum>>

IsoNotFound ==
  /\ call.op = "search"
  /\ call.loc * BlockBytes >= Node(call.ino).size
  /\ DirFails("not found", TRUE)
  /\ UNCHANGED cache

(* One turn of iso9660_read: a devread that fails ends it.                   *)
IsoRead ==
  LET offset == filepos % BlockBytes
      size   == Lesser(BlockBytes - offset, call.left)
  IN  /\ call.op = "reading" /\ call.left > 0
      /\ \/ ReadFails("read", FALSE)
         \/ /\ errnum' = None
            /\ call' = [call EXCEPT !.left = @ - size,
                 !.buf = @ \o DiskBytes(cache.file_start + filepos \div BlockBytes,
                                        offset, size)]
            /\ filepos' = filepos + size
            /\ UNCHANGED <<fsys_type, volume, filemax>>
      /\ UNCHANGED cache

IsoTurn == IsoStart \/ IsoSearch \/ IsoNotFound \/ IsoRead

-----------------------------------------------------------------------------
(* Block lists of grub_open and grub_read: the list is the runs of the       *)
(* node; BLK_CUR_FILEPOS, BLK_CUR_BLKLIST and BLK_CUR_BLKNUM say where in it *)
(* the file was last read.                                                   *)
ListStart == [filepos |-> 0, list |-> 1, num |-> 0]

(* A list that is taken for a file has a run, and its runs are of blocks.    *)
ListTyped(v) == \A n \in DOMAIN v.nodes : v.nodes[n].type = "file" =>
  v.nodes[n].runs # <<>> /\ \A k \in DOMAIN v.nodes[n].runs : v.nodes[n].runs[k].addr # Hole

(* "+": filemax adds up, the list takes the place of the mounted file system *)
(* in FSYS_BUF, and the file is open at once.                                *)
ListOpen ==
  /\ call.op = "inode"
  /\ cache' = ListStart
  /\ IF volume.find[call.name] = 0
     THEN DirFails("filename", TRUE)
     ELSE DirFinds(volume.find[call.name])

(* A turn of grub_read looks for the place of filepos, from the start of the *)
(* list if it lies behind,                                                   *)
ListAim ==
  /\ call.op = "reading" /\ call.left > 0 /\ errnum = None
  /\ cache' = IF filepos < cache.filepos THEN ListStart ELSE cache
  /\ call' = [call EXCEPT !.op = "list"]
  /\ UNCHANGED <<fsys_type, volume, filepos, filemax, errnum>>

(* sector by sector,                                                         *)
ListForward ==
  LET sector == cache.filepos - (cache.filepos % BlockBytes)
      run    == Runs(call.ino)[cache.list]
  IN  /\ call.op = "list" /\ filepos > cache.filepos
      /\ cache' = IF filepos - sector < BlockBytes
                  THEN [cache EXCEPT !.filepos = filepos]
                  ELSE IF cache.num + 1 >= run.len
                  THEN [filepos |-> cache.filepos + BlockBytes,
                        list |-> cache.list + 1, num |-> 0]
                  ELSE [cache EXCEPT !.filepos = @ + BlockBytes, !.num = @ + 1]
      /\ UNCHANGED <<fsys_type, volume, filepos, filemax, errnum, call>>

(* and reads the rest of the run in one piece.                               *)
ListRead ==
  LET run    == Runs(call.ino)[cache.list]
      offset == filepos % BlockBytes
  IN  /\ call.op = "list" /\ filepos <= cache.filepos
      /\ AdvanceTo("reading", run.addr + cache.num, offset,
                   Lesser((run.len - cache.num) * BlockBytes - offset, call.left))
      /\ UNCHANGED cache

ListTurn == ListOpen \/ ListAim \/ ListForward \/ ListRead

-----------------------------------------------------------------------------
(* fsys_jfs.c and fsys_xfs.c: a read looks at the extents of the file from   *)
(* the first on.  A file with more than ExtentsPerPage of them has its list  *)
(* on pages (xtpage_t, B-tree leaves) chained by their headers; page 0 is    *)
(* the one in the inode.  cache: the page whose header the reader holds, the *)
(* extent it looks at, and, for jfs, xindex, which counts them.              *)
PageCount(ino) == LET n == Len(Runs(ino))
                  IN  IF n <= ExtentsPerPage THEN 0 ELSE CeilDiv(n, ExtentsPerPage)
PageRuns(ino, p) ==
  LET runs == Runs(ino)
  IN  IF p = 0 THEN runs
      ELSE SubSeq(runs, (p - 1) * ExtentsPerPage + 1,
                  Lesser(p * ExtentsPerPage, Len(runs)))
NextPage(ino, p) == IF p # 0 /\ p < PageCount(ino) THEN p + 1 ELSE 0

(* What is promised of reads is promised for files without holes, and, of    *)
(* jfs, for those whose list is in the inode.                                *)
XadsTyped(v) == ~v.excused => \A n \in DOMAIN v.nodes :
  /\ \A k \in DOMAIN v.nodes[n].runs : v.nodes[n].runs[k].addr # Hole
  /\ v.format = "jfs" => Len(v.nodes[n].runs) <= ExtentsPerPage

ExtentsUnset == [ino |-> 0, page |-> 0, xad |-> 0, xindex |-> 0]
AtExtent(ino, p, xad) == [ino |-> ino, page |-> p, xad |-> xad, xindex |-> 1]

(* first_extent, init_extents: the list in the inode, or the first page of   *)
(* it; a read that fails is not noticed, but then no page is there.          *)
FirstExtent ==
  /\ call.op = "reading"
  /\ IF PageCount(call.ino) = 0
     THEN /\ cache' = AtExtent(call.ino, 0, 1)
          /\ call' = [call EXCEPT !.op = "extents"]
          /\ UNCHANGED errnum
     ELSE \/ /\ cache' = AtExtent(call.ino, 1, 1)
             /\ call' = [call EXCEPT !.op = "extents"]
             /\ errnum' = None
          \/ /\ MayLose
             /\ call' = [call EXCEPT !.lost = TRUE]
             /\ errnum' = "read"
             /\ UNCHANGED cache
  /\ UNCHANGED <<fsys_type, volume, filepos, filemax>>

AtAnExtent == /\ cache.ino # 0
              /\ cache.xad <= Len(PageRuns(cache.ino, cache.page))
Xad == PageRuns(cache.ino, cache.page)[cache.xad]
InExtent == LET l == filepos \div BlockBytes
            IN  l >= Xad.off /\ l < Xad.off + Xad.len

(* next_extent.  jfs counts with xindex; on a new page it points at the      *)
(* first extent and then adds one.                                           *)
JfsNext(c) ==
  IF c.xindex < Len(PageRuns(c.ino, c.page))
  THEN [c EXCEPT !.xindex = @ + 1, !.xad = @ + 1]
  ELSE IF NextPage(c.ino, c.page) = 0 THEN ExtentsUnset
  ELSE AtExtent(c.ino, NextPage(c.ino, c.page), 2)
XfsNext(c) ==
  IF c.xad < Len(PageRuns(c.ino, c.page)) THEN [c EXCEPT !.xad = @ + 1]
  ELSE IF NextPage(c.ino, c.page) = 0 THEN ExtentsUnset
  ELSE AtExtent(c.ino, NextPage(c.ino, c.page), 1)
NextExtent == IF fsys_type = "jfs" THEN JfsNext(cache) ELSE XfsNext(cache)

(* One turn of jfs_read and xfs_read: what the extent holds of the file is   *)
(* read, and the next extent is looked at.                                   *)
ReadExtent ==
  /\ call.op = "extents" /\ call.left > 0
  /\ AtAnExtent
  /\ cache' = NextExtent
  /\ IF InExtent
     THEN Advance(Xad.addr, filepos - Xad.off * BlockBytes,
                  Lesser((Xad.off + Xad.len) * BlockBytes - filepos, call.left))
     ELSE UNCHANGED <<fsys_type, volume, filepos, filemax, errnum, call>>

(* No extent is left, or what is taken for one is behind the last of a page. *)
ExtentsEnd ==
  /\ call.op = "extents"
  /\ ~(call.left > 0 /\ AtAnExtent)
  /\ ShortRead(call.buf)
  /\ UNCHANGED cache

(* jfs_dir and xfs_dir read the entries of a directory one by one, and do    *)
(* not notice a read that fails: the entry is not the one looked for.        *)
EntryLost ==
  /\ call.op = "search" /\ call.loc < Node(call.ino).size
  /\ MayLose
  /\ call' = [call EXCEPT !.loc = @ + 1, !.lost = TRUE]
  /\ errnum' = "read"
  /\ UNCHANGED <<fsys_type, volume, cache, filepos, filemax>>

ExtentSearch ==
  LET l   == call.loc \div BlockBytes
      run == CHOOSE r \in Range(Runs(call.ino)) :
               l >= r.off /\ l < r.off + r.len
  IN  /\ call.op = "search" /\ call.loc < Node(call.ino).size
      /\ SeeEntry(<<run.addr + l - run.off, call.loc % BlockBytes>>)
      /\ UNCHANGED cache

(* Nor do they notice that an inode or the text of a link was not read: the  *)
(* walk goes on with what is in its place, the inode or the text that was    *)
(* read before or one from a wrong place of the disk.                        *)
StaleInode ==
  /\ call.op = "inode" /\ MayLose
  /\ \E ino \in DOMAIN Nodes :
       call' = [call EXCEPT !.ino = ino, !.lost = TRUE, !.stale = TRUE]
  /\ errnum' = "read"
  /\ UNCHANGED <<fsys_type, volume, cache, filepos, filemax>>

StaleLink ==
  /\ call.op = "inode" /\ MayLose
  /\ Node(call.ino).type = "link" /\ call.links < MaxLinks
  /\ \E text \in Paths, from \in {Root, call.updir} :
       call' = [call EXCEPT !.links = @ + 1, !.path = text \o @, !.ino = from,
                            !.updir = from, !.lost = TRUE, !.stale = TRUE]
  /\ cache' = ExtentsUnset
  /\ errnum' = "read"
  /\ UNCHANGED <<fsys_type, volume, filepos, filemax>>

ExtentTurn ==
  \/ call.op = "inode" /\ InodeLoaded(ExtentsUnset)
  \/ StaleInode \/ StaleLink
  \/ SearchEnds \/ EntryLost \/ ExtentSearch
  \/ FirstExtent \/ ReadExtent \/ ExtentsEnd
=============================================================================
