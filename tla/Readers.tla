------------------------------ MODULE Readers -------------------------------
(* disk_io.c: grub_open and grub_read over the file systems they dispatch    *)
(* to, used as the commands use them: a file is opened, and read from any    *)
(* position in pieces of any length, until an error ends the command.        *)
EXTENDS FatFs, BlockMaps, NtfsFs, PxeFs, ReiserFs

(* The formats that mount, and the volumes they mount.                       *)
Formats == {"fat", "ext2", "minix", "iso9660", "list", "jfs", "xfs", "ntfs", "pxe", "reiserfs"}
ASSUME VolumesAssumption == \A v \in Volumes :
  /\ v.format \in Formats /\ v.excused \in BOOLEAN /\ NodesTyped(v)
  /\ v.format \in {"list", "pxe"} => FindsFiles(v)
  /\ v.format \in {"list", "jfs", "xfs", "ntfs"} => RunsTyped(v)
  /\ v.format = "fat" => FatTyped(v)
  /\ v.format \in {"ext2", "minix"} => MapsTyped(v)
  /\ v.format \in {"jfs", "xfs"} => XadsTyped(v)
  /\ v.format = "iso9660" => IsoTyped(v)
  /\ v.format = "list" => ListTyped(v)
  /\ v.format = "ntfs" => NtfsTyped(v)
  /\ v.format = "pxe" => PxeTyped(v)
  /\ v.format = "reiserfs" => TreeTyped(v) /\ (~v.excused => TreeSound(v) /\ ItemsTrue(v))

Init == /\ fsys_type = None /\ volume = NoVolume /\ cache = MapsUnset
        /\ filepos = 0 /\ filemax = 0 /\ errnum = None
        /\ call = Idle

Busy == call.op \notin {"idle", "opened", "read", "failed"}

(* A command starts, or a path names a device: open_device finds the format  *)
(* that mounts, and the file system's part of FSYS_BUF is set up.            *)
Mounted(f) == CASE f = "fat" -> FatMounted
                [] f = "iso9660" -> IsoMounted
                [] f = "list" -> ListStart
                [] f \in {"jfs", "xfs"} -> ExtentsUnset
                [] f = "ntfs" -> NtfsMounted
                [] f = "pxe" -> PxeMounted
                [] f = "reiserfs" -> ReiserMounted
                [] OTHER -> MapsUnset
Mount(v) ==
  /\ call.op = "idle"
  /\ volume' = v /\ fsys_type' = v.format
  /\ cache' = Mounted(v.format)
  /\ filepos' = 0 /\ filemax' = 0 /\ errnum' = None
  /\ call' = Idle

(* No format mounts.                                                         *)
MountFails ==
  /\ call.op = "idle"
  /\ fsys_type' = None /\ volume' = NoVolume /\ cache' = MapsUnset
  /\ filepos' = 0 /\ filemax' = 0 /\ errnum' = "mount"
  /\ call' = Idle

(* grub_open up to the dir function (astray is history of the file that is   *)
(* open).                                                                    *)
Open(path) ==
  /\ ~Busy /\ errnum = None /\ fsys_type # None
  /\ call' = [Idle EXCEPT !.op = "inode", !.name = path, !.path = path,
                          !.ino = Root]
  /\ cache' = IF fsys_type = "fat" THEN [cache EXCEPT !.astray = FALSE] ELSE cache
  /\ filepos' = 0
  /\ UNCHANGED <<fsys_type, volume, filemax, errnum>>

(* The caller sets filepos (bound: once between two reads).                  *)
SeekTo(p) ==
  /\ call.op = "read" \/ (call.op = "opened" /\ filepos = 0)
  /\ filepos' = p
  /\ call' = [Returned("opened", <<>>) EXCEPT !.lost = FALSE, !.want = 0]
  /\ UNCHANGED <<fsys_type, volume, cache, filemax, errnum>>

(* grub_read up to the read function: a length beyond the end is cut.        *)
Read(n) ==
  /\ call.op \in {"opened", "read"}
  /\ call' = [call EXCEPT !.op = "reading", !.buf = <<>>, !.lost = FALSE,
                          !.want = n, !.left = Lesser(n, filemax - filepos)]
  /\ UNCHANGED <<fsys_type, volume, cache, filepos, filemax, errnum>>

(* The command ends: with an error, or after grub_close, which only closes   *)
(* a boot server's file in earnest.                                          *)
Close ==
  /\ call.op \in {"opened", "read", "failed"}
  /\ cache' = IF fsys_type = "pxe" /\ call.op # "failed" THEN [cache EXCEPT !.opened = FALSE] ELSE cache
  /\ call' = Idle
  /\ UNCHANGED <<fsys_type, volume, filepos, filemax, errnum>>

(* grub_read after the last turn of a loop: 0 if errnum is set.              *)
ReadDone ==
  /\ \/ call.op = "chain"
     \/ call.op = "reading" /\ fsys_type \in {"ext2", "minix", "iso9660", "list"}
  /\ call.left = 0 \/ (fsys_type = "list" /\ errnum # None)
  /\ ReadReturns

Turn == \/ fsys_type = "fat" /\ FatTurn
        \/ fsys_type \in {"ext2", "minix"} /\ MappedTurn
        \/ fsys_type = "iso9660" /\ IsoTurn
        \/ fsys_type = "list" /\ ListTurn
        \/ fsys_type \in {"jfs", "xfs"} /\ ExtentTurn
        \/ fsys_type = "ntfs" /\ NtfsTurn
        \/ fsys_type = "pxe" /\ PxeTurn
        \/ fsys_type = "reiserfs" /\ ReiserTurn
        \/ ReadDone

Next == \/ \E v \in Volumes : Mount(v)
        \/ MountFails
        \/ \E path \in Paths : Open(path)
        \/ \E p \in 0..filemax : SeekTo(p)
        \/ \E n \in Lens : Read(n)
        \/ Close
        \/ Turn

Spec == Init /\ [][Next]_ioVars /\ WF_ioVars(Turn)
-----------------------------------------------------------------------------
NoFile == <<Zero, Zero>>
Contents(name) == IF volume = NoVolume THEN NoFile ELSE volume.contents[name]

Reading == {"reading", "chain", "list", "extents", "blocks", "pxe", "packets",
            "items", "done"} \cup
           IF fsys_type = "reiserfs" /\ cache.goal = "read" /\ call.op # "inode"
           THEN {"tree", "next", "descend"} ELSE {}

(* The chain of the file that is open was followed by a word that is not of  *)
(* the FAT: fat_read takes the entry just below its window for one in it.    *)
Astray == fsys_type = "fat" /\ cache.astray

FR == INSTANCE FileReader WITH
        Byte   <- Int \X Int,
        NoFile <- NoFile,
        st     <- CASE call.op = "idle" -> "shut"
                    [] call.op \in {"opened", "read"} -> "open"
                    [] call.op = "failed" -> "failed"
                    [] call.op \in Reading -> "reading"
                    [] OTHER -> "opening",
        file   <- IF call.name = <<>> THEN NoFile ELSE Contents(call.name),
        pos    <- IF call.op = "idle" THEN 0
                  ELSE IF call.op \in Reading /\ fsys_type # "pxe"
                  THEN filepos - Len(call.buf) ELSE filepos,
        want   <- call.want,
        got    <- IF call.op = "read" THEN call.buf ELSE <<>>,
        lost   <- call.lost \/ call.stale \/ Astray \/ (volume # NoVolume /\ volume.excused)

(* Whatever the format does to find them, the bytes delivered are those of   *)
(* the file that the path names, at the position, and as many as promised.   *)
ImplementsReader == FR!Spec

(* Every call of grub_open and grub_read returns: no link is chased for ever *)
(* and every turn of a read loop makes way.                                  *)
EveryCallReturns == Busy ~> ~Busy
-----------------------------------------------------------------------------
TypeOK ==
  /\ fsys_type = volume.format
  /\ filemax \in Nat /\ filepos \in Nat
  /\ call.op \in {"idle", "opened", "read", "failed", "inode", "entry", "search",
                  "tree", "next", "descend", "item"} \cup Reading
  /\ call.left \in Nat /\ call.lost \in BOOLEAN
  /\ call.op \in {"opened", "read"} => filepos <= filemax

(* What a reader keeps from one call to the next is true of the file that is *)
(* open, whatever was read before, and whichever of those reads failed.      *)
FileOpen == call.op \in {"opened", "read", "reading"}

(* fat_read remembers which cluster of the file it is at; the place in a     *)
(* block list is that of its file position.                                  *)
CursorTrue ==
  /\ fsys_type = "fat" /\ (FileOpen \/ call.op = "chain") =>
       \/ cache.current_cluster_num = MaxInt
       \/ cache.current_cluster = Node(call.ino).blocks[cache.current_cluster_num + 1]
  /\ fsys_type = "list" /\ (FileOpen \/ call.op = "list") =>
       cache.filepos \div BlockBytes = Runs(call.ino)[cache.list].off + cache.num

(* The tables and nodes that are kept are those that their numbers say; of a *)
(* tree only until an error, after which the file system is mounted again.   *)
TablesTrue ==
  /\ fsys_type \in {"ext2", "minix"} /\ (FileOpen \/ call.op = "search") =>
       /\ cache.mapblock1 > 0 =>
            cache.db1 = Top(call.ino, cache.mapblock1)
       /\ cache.mapblock2 > 0 => cache.db2 = cache.mapblock2
  /\ fsys_type = "reiserfs" /\ errnum = None =>
       \A d \in DOMAIN cache.blocks :
         d < CachedSlots /\ cache.blocks[d] # 0 => cache.slot[d] = Translated(cache.blocks[d])

(* The buffered bytes are the file's: sbuf's from save_pos on, PXE_BUF's up  *)
(* to where the firmware is.                                                 *)
BufferTrue ==
  /\ fsys_type = "ntfs" /\ (FileOpen \/ call.op = "blocks") /\ cache.save_pos # NoPos =>
       cache.sbuf = [i \in 1..BlockBytes |->
                       ByteOf(Node(call.ino), cache.save_pos + i - 1)]
  /\ fsys_type = "pxe" /\ FileOpen =>
       LET start == cache.saved_pos - cache.cur_ofs
       IN  /\ cache.server = start + cache.read_ofs
           /\ \A i \in 0..cache.read_ofs - 1 :
                cache.data[i] = ByteOf(Node(call.ino), start + i)

(* What a read brought, unless the disk failed under it, are the bytes of    *)
(* the file that come before the position, and of all but a reiserfs, which  *)
(* is read item by item, as many as there are and were wanted.               *)
BytesTrue == call.op = "read" /\ ~call.lost =>
  LET n     == Len(call.buf)
      start == filepos - n
  IN  /\ n <= filepos
      /\ \A i \in 1..n : call.buf[i] = ByteOf(Node(call.ino), start + i - 1)
      /\ fsys_type # "reiserfs" => n = Lesser(call.want, filemax - start)

KeptTrue == volume # NoVolume /\ ~volume.excused /\ ~Astray =>
              CursorTrue /\ TablesTrue /\ BufferTrue /\ BytesTrue

(* "This error is returned if there is a disk read error" (docs/grub.texi):  *)
(* errnum tells of a read during which the disk failed.  It may not: rawread *)
(* begins by setting errnum to 0, so that the next block which reads well    *)
(* hides the failure from a loop that looks at errnum only in the end.       *)
ErrorReported == call.op = "read" /\ call.lost => errnum # None
=============================================================================
