------------------------------- MODULE FileIO -------------------------------
(* The state that grub_open and grub_read share with every file system       *)
(* reader of stage 2, and the volumes the readers are used on.               *)
(*                                                                           *)
(* The unit of data is a byte of a block of BlockBytes bytes; what a byte of *)
(* the disk holds is its own address, <<block, offset>>.  A volume is a tree *)
(* of nodes: a node lists the blocks that hold its data in order, 0 for a    *)
(* hole.  Byte i of a directory is its entry i.  How a format finds the      *)
(* blocks of a node is the business of its own module.                       *)
EXTENDS Integers, Sequences, FiniteSets

CONSTANTS BlockBytes,    \* bytes of a block, cluster or zone
          Volumes,       \* what partitions hold: each with its format
          Paths,         \* the paths that are opened
          Lens,          \* the lengths that are read
          MaxLinks       \* MAX_LINK_COUNT

ASSUME BlockBytesAssumption == BlockBytes \in Nat \ {0}
ASSUME LensAssumption == Lens \subseteq Nat

VARIABLES
  fsys_type,   \* the format mounted, "none" for NUM_FSYS
  volume,      \* what is in the current partition
  cache,       \* FSYS_BUF: what the mounted file system keeps between calls
  filepos, filemax, errnum,
  call         \* the call of grub_open or grub_read that is running

ioVars == <<fsys_type, volume, cache, filepos, filemax, errnum, call>>

None  == "none"
Hole  == 0
Zero  == <<0 - 1, 0>>      \* the byte that memset writes for a hole
Root  == 1                 \* the root directory

CeilDiv(m, n) == (m + n - 1) \div n
Lesser(m, n)  == IF m < n THEN m ELSE n

(* The byte at position p of a node, and all of its bytes.                   *)
ByteOf(node, p) ==
  LET b == node.blocks[p \div BlockBytes + 1]
  IN  IF b = Hole THEN Zero ELSE <<b, p % BlockBytes>>
BytesOf(node) == [i \in 1..node.size |-> ByteOf(node, i - 1)]

(* The bytes a devread of n bytes at an offset from a block on brings.       *)
DiskBytes(b, offset, n) ==
  [i \in 1..n |-> <<b + (offset + i - 1) \div BlockBytes,
                    (offset + i - 1) % BlockBytes>>]
Zeroes(n) == [i \in 1..n |-> Zero]
Junk(n)   == [i \in 1..n |-> <<0 - 2, 0>>]     \* the buffer as it was

(* The entry a directory's byte at address a is; 0 when a is none of it.     *)
EntryAt(dir, a) ==
  LET at == {i \in 1..dir.size : ByteOf(dir, i - 1) = a}
  IN  IF at = {} THEN 0 ELSE CHOOSE i \in at : TRUE

(* The nodes of a volume, the first of which is the root directory; and, for *)
(* what is no tree of directories, the files that paths lead to.             *)
NodesTyped(v) ==
  /\ DOMAIN v.nodes = 1..Len(v.nodes) /\ Len(v.nodes) \in Nat \ {0}
  /\ v.nodes[Root].type = "dir"
  /\ \A n \in DOMAIN v.nodes :
       LET node == v.nodes[n]
       IN  /\ node.type \in {"file", "dir", "link"}
           /\ node.size \in Nat /\ node.blocks \in Seq(Nat)
           /\ node.type = "dir" => \A i \in 1..node.size : node.inos[i] \in 0..Len(v.nodes)
           /\ node.type = "file" => node.size <= Len(node.blocks) * BlockBytes
FindsFiles(v) == \A p \in Paths :
  v.find[p] # 0 => v.find[p] \in DOMAIN v.nodes /\ v.nodes[v.find[p]].type = "file"

NoVolume  == [format |-> None]
Nodes     == volume.nodes
Node(ino) == Nodes[ino]

-----------------------------------------------------------------------------
(* A call: what it does (op), the name or length it was given, the rest of   *)
(* the path, the inode it looks at, the directory above it, the links it chased, the place in    *)
(* the directory, what is left to read, what is in the caller's buffer,      *)
(* whether a devread failed, and, until a file is opened again, whether the  *)
(* walk went on with an inode or a link that had not been read (stale).      *)
Idle == [op |-> "idle", name |-> <<>>, want |-> 0, path |-> <<>>, ino |-> 0, updir |-> Root, links |-> 0,
         loc |-> 0, left |-> 0, buf |-> <<>>, lost |-> FALSE, stale |-> FALSE]

(* A call returns r bytes: all of the buffer, or nothing for an error.       *)
Returned(op, bytes) == [call EXCEPT !.op = op, !.buf = bytes, !.left = 0]

(* Bound: the disk fails at most once in a call.                             *)
MayLose == ~call.lost

(* devread of n bytes at offset of block b into the buffer, in a loop that   *)
(* does not look at its result: rawread sets errnum for good or bad.         *)
AdvanceTo(op, b, offset, n) ==
  /\ \E ok \in BOOLEAN :
       /\ ok \/ MayLose
       /\ call' = [call EXCEPT !.buf = @ \o IF ok THEN DiskBytes(b, offset, n)
                                                 ELSE Junk(n),
                               !.left = @ - n, !.lost = @ \/ ~ok, !.op = op]
       /\ errnum' = IF ok THEN None ELSE "read"
  /\ filepos' = filepos + n
  /\ UNCHANGED <<fsys_type, volume, filemax>>
Advance(b, offset, n) == AdvanceTo(call.op, b, offset, n)

(* memset of n bytes of a hole: errnum stays as it is.                       *)
AdvanceHole(n) ==
  /\ call' = [call EXCEPT !.buf = @ \o Zeroes(n), !.left = @ - n]
  /\ filepos' = filepos + n
  /\ UNCHANGED <<fsys_type, volume, filemax, errnum>>

(* The read function returns 0 at once with an error in errnum.              *)
ReadFails(e, ok) ==
  /\ ok \/ MayLose
  /\ call' = [Returned("failed", <<>>) EXCEPT !.lost = @ \/ ~ok]
  /\ errnum' = e
  /\ UNCHANGED <<fsys_type, volume, filepos, filemax>>

(* The end of a read loop: return errnum ? 0 : ret.                          *)
ReadReturns ==
  /\ call' = IF errnum = None THEN Returned("read", call.buf)
                              ELSE Returned("failed", <<>>)
  /\ UNCHANGED <<fsys_type, volume, cache, filepos, filemax, errnum>>

(* The read function returns what it has, whatever errnum says.              *)
ShortRead(bytes) ==
  /\ call' = Returned("read", bytes)
  /\ UNCHANGED <<fsys_type, volume, filepos, filemax, errnum>>

(* A dir function finds the file or gives up.                                *)
DirFinds(ino) ==
  /\ call' = [call EXCEPT !.op = "opened", !.ino = ino, !.path = <<>>]
  /\ filemax' = Node(ino).size
  /\ filepos' = 0
  /\ errnum' = None
  /\ UNCHANGED <<fsys_type, volume>>
DirFails(e, ok) ==
  /\ ok \/ MayLose
  /\ call' = [Returned("failed", <<>>) EXCEPT !.lost = @ \/ ~ok]
  /\ errnum' = e
  /\ UNCHANGED <<fsys_type, volume, filepos, filemax>>
---------------------------------------------------------------------------
(* The walk along a path that ext2fs_dir, minix_dir, jfs_dir, xfs_dir and    *)
(* reiserfs_dir have in common: load an inode, chase it if it is a symbolic  *)
(* link, and look the next component up in it if it is a directory.  (jfs    *)
(* and xfs do not notice that one was not read: see Extents.)                *)

(* The inode, or the text of a link, cannot be read: the function returns 0. *)
InodeUnread ==
  /\ DirFails("read", FALSE)
  /\ UNCHANGED cache
LinkUnread(loaded) ==
  /\ Node(call.ino).type = "link" /\ call.links < MaxLinks
  /\ DirFails("read", FALSE)
  /\ cache' = loaded

\* faulty: the links are not counted.
ChaseUncounted ==
  LET link == Node(call.ino)
      from == IF link.abs THEN Root ELSE call.updir
  IN  /\ call' = [call EXCEPT !.op = "inode", !.path = link.path \o @,
                              !.ino = from, !.updir = from]
      /\ filemax' = link.size /\ filepos' = 0 /\ errnum' = None
      /\ UNCHANGED <<fsys_type, volume>>

(* A link: its path goes before the rest of the path, and the walk goes on   *)
(* from the root or from the directory that holds the link.                  *)
ChaseLink ==
  LET link == Node(call.ino)
      from == IF link.abs THEN Root ELSE call.updir
  IN  /\ call.links < MaxLinks
      /\ call' = [call EXCEPT !.op = "inode", !.links = @ + 1, !.path = link.path \o @,
                              !.ino = from, !.updir = from]
      /\ filemax' = link.size
      /\ filepos' = 0
      /\ errnum' = None
      /\ UNCHANGED <<fsys_type, volume>>

LinkLoop ==
  /\ call.links >= MaxLinks
  /\ DirFails("symlink loop", TRUE)

(* The inode is loaded; loaded is what FSYS_BUF holds then.                  *)
InodeLoaded(loaded) ==
  LET node == Node(call.ino)
  IN  /\ cache' = loaded
      /\ \/ /\ node.type = "link"
            /\ LinkLoop \/ ChaseLink
         \/ /\ node.type # "link" /\ call.path = <<>>
            /\ IF node.type = "file" THEN DirFinds(call.ino)
                                     ELSE DirFails("filetype", TRUE)
         \/ /\ node.type # "link" /\ call.path # <<>>
            /\ IF node.type = "dir" /\ node.size > 0
               THEN /\ call' = [call EXCEPT !.op = "search", !.loc = 0,
                                            !.updir = call.ino]
                    /\ errnum' = None
                    /\ UNCHANGED <<fsys_type, volume, filepos, filemax>>
               ELSE DirFails("filetype", TRUE)

(* An inode is looked up in the inode table.                                 *)
WalkInode(loaded) ==
  /\ call.op = "inode"
  /\ InodeUnread \/ LinkUnread(loaded) \/ InodeLoaded(loaded)

(* The directory ends without the component.                                 *)
SearchEnds ==
  /\ call.op = "search"
  /\ call.loc >= Node(call.ino).size
  /\ DirFails("not found", TRUE)
  /\ UNCHANGED cache

(* The entry at address a of the disk: take it or go on to the next.         *)
SeeEntry(a) ==
  LET dir == Node(call.ino)
      i   == EntryAt(dir, a)
  IN  /\ call' = IF i # 0 /\ dir.inos[i] # 0 /\ dir.names[i] = Head(call.path)
                 THEN [call EXCEPT !.op = "inode", !.ino = dir.inos[i],
                                   !.path = Tail(@)]
                 ELSE [call EXCEPT !.loc = @ + 1]
      /\ errnum' = None
      /\ UNCHANGED <<fsys_type, volume, filepos, filemax>>
=============================================================================
