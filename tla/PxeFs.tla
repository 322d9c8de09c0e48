------------------------------- MODULE PxeFs --------------------------------
(* fsys_pxe.c: files of a boot server, read packet by packet through the     *)
(* firmware.  The firmware only goes on from where it is; a place behind it  *)
(* is in PXE_BUF still, or the file is opened again.                         *)
EXTENDS FileIO

CONSTANT PxeBufLen       \* PXE_BUFLEN
ASSUME PxeAssumption == PxeBufLen \in Nat

Blk == volume.blk       \* the packet size the server grants
PxeTyped(v) == v.blk \in 1..PxeBufLen

(* cache: pxe_tftp_opened, pxe_saved_pos, pxe_cur_ofs, pxe_read_ofs, PXE_BUF *)
(* and the place the firmware is at; and, of the pxe_read_len that runs,     *)
(* whether its bytes go nowhere (buf is NULL), how many it is to bring (len) *)
(* and the whole packets left (nb).                                          *)
PxeMounted == [opened |-> FALSE, saved_pos |-> 0, cur_ofs |-> 0, read_ofs |-> 0,
               data |-> [i \in 0..PxeBufLen - 1 |-> Zero], server |-> 0,
               skip |-> FALSE, len |-> 0, nb |-> 0]
Reopened == [cache EXCEPT !.opened = TRUE, !.saved_pos = 0, !.cur_ofs = 0,
                          !.read_ofs = 0, !.server = 0]

Same == UNCHANGED <<fsys_type, volume, filepos, filemax, errnum>>

(* PXE_ERR_LEN, with errnum as it was.                                       *)
PxeError(after) ==
  /\ MayLose
  /\ call' = [Returned("failed", <<>>) EXCEPT !.lost = TRUE]
  /\ cache' = after
  /\ Same

(* pxe_dir: the size is asked for, and the file opened.                      *)
PxeDir ==
  LET ino  == volume.find[call.name]
      shut == [cache EXCEPT !.opened = FALSE]
  IN  /\ call.op = "inode"
      /\ \/ ino # 0 /\ DirFinds(ino) /\ cache' = Reopened
         \/ ino = 0 /\ DirFails("not found", TRUE) /\ cache' = shut
         \/ ino # 0 /\ DirFails("not found", FALSE) /\ cache' = shut

(* pxe_read: a place behind is looked for in the buffer, or read up to.      *)
Aimed(from, len) == [from EXCEPT !.skip = TRUE, !.len = len]
Wanted(from) == [from EXCEPT !.skip = FALSE, !.len = call.left,
                             !.saved_pos = filepos]
PxeBegin ==
  LET back == cache.saved_pos - filepos
      near == back > 0 /\ filepos + cache.cur_ofs >= cache.saved_pos
      to(c) == cache' = c /\ call' = [call EXCEPT !.op = "pxe"] /\ Same
  IN  /\ call.op = "reading"
      /\ IF back = 0 THEN to(Wanted(cache))
         ELSE IF near THEN to([Wanted(cache) EXCEPT !.cur_ofs = @ - back])
         ELSE IF back < 0 THEN to(Aimed(cache, 0 - back))
         ELSE \/ to(Aimed(Reopened, filepos))
              \/ PxeError([cache EXCEPT !.opened = FALSE])

(* pxe_read_len has brought bytes: they end its work or not.                 *)
Brought(bytes, after) ==
  /\ cache' = after
  /\ call' = IF after.skip THEN call ELSE [call EXCEPT !.buf = @ \o bytes]
  /\ Same

(* It takes what the buffer has, and sees how many packets it needs.         *)
PxeBuffered ==
  LET have  == cache.read_ofs - cache.cur_ofs
      more  == cache.len - have
      bytes(n) == [i \in 1..n |-> cache.data[cache.cur_ofs + i - 1]]
  IN  /\ call.op = "pxe" /\ cache.len > 0
      /\ IF more <= 0
         THEN /\ Brought(bytes(cache.len), [cache EXCEPT !.cur_ofs = @ + cache.len,
                                                         !.len = 0])
         ELSE /\ cache' = [cache EXCEPT !.cur_ofs = more % Blk, !.nb = more \div Blk,
                                      !.read_ofs = IF @ + Blk > PxeBufLen THEN 0 ELSE @]
              /\ call' = [call EXCEPT !.op = "packets",
                                      !.buf = IF cache.skip THEN @ ELSE @ \o bytes(have)]
              /\ Same

(* pxe_read_blk of n packets into the buffer at read_ofs.                    *)
Arrives(n)  == Lesser(n * Blk, filemax - cache.server)
FilePart(n) == [i \in 1..n |-> ByteOf(Node(call.ino), cache.server + i - 1)]
Filled(c, n) ==
  [c EXCEPT !.server = @ + n,
            !.data = [i \in DOMAIN @ |->
                        IF i >= c.read_ofs /\ i < c.read_ofs + n
                        THEN ByteOf(Node(call.ino), c.server + i - c.read_ofs)
                        ELSE @[i]]]

PxePackets ==
  LET n    == Lesser((PxeBufLen - cache.read_ofs) \div Blk, cache.nb)
      nr   == Arrives(n)
      full == Filled(cache, nr)
  IN  /\ call.op = "packets" /\ cache.nb > 0
      /\ \/ PxeError(cache)
         \/ Brought(FilePart(nr),
                    [full EXCEPT !.nb = @ - n,
                       !.read_ofs = IF n < cache.nb THEN 0 ELSE @ + nr])

(* The last part of a packet.                                                *)
PxePart ==
  LET start == [cache EXCEPT !.read_ofs = IF @ + Blk > PxeBufLen THEN 0 ELSE @]
      nr    == Arrives(1)
      n     == Lesser(cache.cur_ofs, nr)
  IN  /\ call.op = "packets" /\ cache.nb = 0
      /\ \/ cache.cur_ofs > 0 /\ PxeError(start)
         \/ /\ cache' = IF cache.cur_ofs = 0
                        THEN [cache EXCEPT !.cur_ofs = cache.read_ofs, !.len = 0]
                        ELSE [Filled(start, nr) EXCEPT !.cur_ofs = n + start.read_ofs,
                                                       !.read_ofs = @ + nr, !.len = 0]
            /\ call' = [call EXCEPT !.op = "pxe",
                          !.buf = IF cache.skip THEN @ ELSE @ \o FilePart(n)]
            /\ Same

(* The place is reached and the bytes are wanted, or they are there.         *)
PxeReached ==
  /\ call.op = "pxe" /\ cache.len = 0
  /\ IF cache.skip
     THEN cache' = Wanted(cache) /\ Same /\ UNCHANGED call
     ELSE /\ call' = Returned("read", call.buf)
          /\ filepos' = filepos + Len(call.buf)
          /\ cache' = [cache EXCEPT !.saved_pos = filepos + Len(call.buf)]
          /\ UNCHANGED <<fsys_type, volume, filemax, errnum>>

PxeTurn == PxeDir \/ PxeBegin \/ PxeBuffered \/ PxePackets \/ PxePart \/ PxeReached
=============================================================================
