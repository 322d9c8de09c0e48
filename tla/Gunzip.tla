------------------------------- MODULE Gunzip -------------------------------
(* gunzip.c: a compressed file is read as if it were what it was made from.  *)
(* The reader keeps one window of the decompressed data; a place before it   *)
(* starts the decompression again.                                           *)
(*                                                                           *)
(* A compressed file is head cells of header, the cells of its blocks and a  *)
(* trailer.  A cell of a block begins it, is a literal, copies bytes from a  *)
(* distance, or ends the block: how many bits a cell has is left out.  The   *)
(* file system below delivers what grub_read asks it for, or fails.          *)
EXTENDS Integers, Sequences, SequencesExt

CONSTANTS GzFiles,     \* the files, by number: plain, or compressed
          GzLens,      \* the lengths that are read
          WSIZE,       \* bytes of the window
          INBUFSIZ     \* cells of the input buffer

ASSUME GunzipAssumption == WSIZE \in Nat \ {0} /\ INBUFSIZ \in Nat \ {0}

VARIABLES
  zfile,       \* the file that is open, 0 for none
  zpos,        \* compressed_file, filepos and filemax
  gz,          \* gzip_filepos, gzip_filemax, gzip_data_offset, saved_filepos
  inf,         \* the inflater: block, copy under way, window, input buffer
  zerr,        \* errnum is set
  zcall        \* the call of grub_open or grub_read that is running

zvars == <<zfile, zpos, gz, inf, zerr, zcall>>

Kib(m, n) == IF m < n THEN m ELSE n
Cells   == GzFiles[zfile].cells
Head0   == GzFiles[zfile].head
Sized(f) == IF GzFiles[f].plain THEN Len(GzFiles[f].cells)
            ELSE GzFiles[f].head + Len(GzFiles[f].cells) + 1

(* What gzip made the file from.                                             *)
Expand(out, c) ==
  CASE c.t = "lit"  -> Append(out, c.v)
    [] c.t = "copy" -> FoldLeft(LAMBDA o, i : Append(o, o[Len(o) + 1 - c.d]), out,
                                [i \in 1..c.n |-> i])
    [] OTHER -> out
Unzipped == [f \in DOMAIN GzFiles |->
               IF GzFiles[f].plain THEN GzFiles[f].cells
               ELSE FoldLeft(Expand, <<>>, GzFiles[f].cells)]

Nothing == [block_len |-> 0, last |-> FALSE, type |-> "codes", code |-> 0,
            n |-> 0, d |-> 0, wp |-> 0, slide |-> [i \in 1..WSIZE |-> 0],
            bufloc |-> 0, inbuf |-> <<>>, spoilt |-> FALSE]
Quiet   == [op |-> "shut", left |-> 0, want |-> 0, buf |-> <<>>, lost |-> FALSE]

GunzipInit ==
  /\ zfile = 0 /\ zerr = FALSE /\ zcall = Quiet /\ inf = Nothing
  /\ zpos = [compressed |-> FALSE, filepos |-> 0, filemax |-> 0]
  /\ gz = [filepos |-> 0, filemax |-> 0, offset |-> 0, saved |-> 0]

ZBusy == zcall.op \notin {"shut", "open", "failed"}
ZFails == /\ zcall' = [zcall EXCEPT !.op = "failed", !.lost = TRUE, !.buf = <<>>]
          /\ zerr' = TRUE

(* gunzip_swap_values.                                                       *)
Swapped(c) ==
  /\ zpos' = [compressed |-> c, filepos |-> gz.filepos, filemax |-> gz.filemax]
  /\ gz' = [gz EXCEPT !.filepos = zpos.filepos, !.filemax = zpos.filemax]

\* faulty: the last block stays the last.
StartedLast(i) == [i EXCEPT !.block_len = 0, !.bufloc = 0, !.spoilt = FALSE]
(* initialize_tables.                                                        *)
Started(i) == [i EXCEPT !.last = FALSE, !.block_len = 0, !.bufloc = 0, !.spoilt = FALSE]

-----------------------------------------------------------------------------
(* grub_open below has found the file; gunzip_test_header looks at it.  (The *)
(* inflater is of no file until it is started.)                              *)
ZOpen(f) ==
  /\ ~ZBusy
  /\ zfile' = f /\ zerr' = FALSE
  /\ zpos' = [compressed |-> FALSE, filepos |-> 0, filemax |-> Sized(f)]
  /\ zcall' = [Quiet EXCEPT !.op = "header"]
  /\ inf' = [inf EXCEPT !.spoilt = FALSE]
  /\ UNCHANGED gz

ZHeader ==
  /\ zcall.op = "header"
  /\ UNCHANGED <<zfile, gz, inf>>
  /\ \/ ZFails /\ UNCHANGED zpos
     \/ /\ GzFiles[zfile].plain
        /\ zcall' = [zcall EXCEPT !.op = "open"]
        /\ UNCHANGED <<zpos, zerr>>
     \/ /\ ~GzFiles[zfile].plain /\ GzFiles[zfile].bad
        /\ zcall' = [zcall EXCEPT !.op = "failed"]
        /\ zerr' = TRUE
        /\ zpos' = [zpos EXCEPT !.filepos = Head0]
     \/ /\ ~GzFiles[zfile].plain /\ ~GzFiles[zfile].bad
        /\ zpos' = [zpos EXCEPT !.filepos = Head0]
        /\ zcall' = [zcall EXCEPT !.op = "trailer"]
        /\ UNCHANGED zerr

ZTrailer ==
  /\ zcall.op = "trailer"
  /\ UNCHANGED zfile
  /\ \/ ZFails /\ UNCHANGED <<zpos, gz, inf>>
     \/ /\ zpos' = [compressed |-> TRUE, filepos |-> 0, filemax |-> Len(Unzipped[zfile])]
        /\ gz' = [filepos |-> zpos.filepos, filemax |-> zpos.filemax,
                  offset |-> zpos.filepos, saved |-> 0]
        /\ inf' = Started(inf)
        /\ zcall' = [zcall EXCEPT !.op = "open"]
        /\ UNCHANGED zerr

(* The caller sets filepos, reads, or closes the file.                       *)
ZSeek(p) ==
  /\ zcall.op = "open"
  /\ zpos' = [zpos EXCEPT !.filepos = p]
  /\ zcall' = [Quiet EXCEPT !.op = "open"]
  /\ UNCHANGED <<zfile, gz, inf, zerr>>

ZClose ==
  /\ zcall.op \in {"open", "failed"}
  /\ zcall' = Quiet
  /\ UNCHANGED <<zfile, zpos, gz, inf, zerr>>

(* The condition of gunzip_read's loop.                                      *)
Looped(left) == IF left > 0 /\ ~zerr THEN "loop" ELSE "return"

(* grub_read, and for a compressed file gunzip_read up to its loop.          *)
ZRead(n) ==
  LET left == Kib(n, zpos.filemax - zpos.filepos)
      call == [Quiet EXCEPT !.left = left, !.want = n]
      again == gz.saved > zpos.filepos + WSIZE
  IN  /\ zcall.op = "open"
      /\ UNCHANGED <<zfile, zerr>>
      /\ IF ~zpos.compressed
         THEN /\ zcall' = [call EXCEPT !.op = "plain"]
              /\ UNCHANGED <<zpos, gz, inf>>
         ELSE /\ zcall' = [call EXCEPT !.op = Looped(left)]
              /\ zpos' = [compressed |-> FALSE, filemax |-> gz.filemax,
                          filepos |-> IF again THEN gz.offset ELSE gz.filepos]
              /\ gz' = [gz EXCEPT !.filepos = zpos.filepos, !.filemax = zpos.filemax,
                                  !.saved = IF again THEN 0 ELSE @]
              /\ inf' = IF again THEN Started(inf) ELSE inf

ZPlain ==
  /\ zcall.op = "plain"
  /\ UNCHANGED <<zfile, gz, inf>>
  /\ \/ ZFails /\ UNCHANGED zpos
     \/ /\ zcall' = [zcall EXCEPT !.op = "open", !.left = 0,
                       !.buf = SubSeq(Cells, zpos.filepos + 1, zpos.filepos + zcall.left)]
        /\ zpos' = [zpos EXCEPT !.filepos = @ + zcall.left]
        /\ UNCHANGED zerr

-----------------------------------------------------------------------------
(* One turn of gunzip_read's loop: the window is moved on until it holds the *)
(* position, errors or not, and copied from.                                 *)
MoveWindow ==
  /\ zcall.op = "loop" /\ gz.filepos >= gz.saved
  /\ inf' = [inf EXCEPT !.wp = 0]
  /\ zcall' = [zcall EXCEPT !.op = "window"]
  /\ UNCHANGED <<zfile, zpos, gz, zerr>>

CopyWindow ==
  LET n  == Kib(gz.saved - gz.filepos, zcall.left)
      at == gz.filepos % WSIZE
  IN  /\ zcall.op = "loop" /\ gz.filepos < gz.saved
      /\ zcall' = [zcall EXCEPT !.op = Looped(zcall.left - n), !.left = @ - n,
                                !.buf = @ \o SubSeq(inf.slide, at + 1, at + n)]
      /\ gz' = [gz EXCEPT !.filepos = @ + n]
      /\ UNCHANGED <<zfile, zpos, inf, zerr>>

(* The values are swapped back; 0 is returned if errnum is set.              *)
ZReturn ==
  /\ zcall.op = "return"
  /\ Swapped(TRUE)
  /\ zcall' = IF zerr THEN [zcall EXCEPT !.op = "failed", !.buf = <<>>]
              ELSE [zcall EXCEPT !.op = "open"]
  /\ UNCHANGED <<zfile, inf, zerr>>

\* faulty: saved_filepos is only moved for a window without errors.
WindowUnmoved ==
  /\ zcall.op = "window"
  /\ inf.wp = WSIZE \/ zerr \/ (inf.block_len = 0 /\ inf.last)
  /\ gz' = IF zerr THEN gz ELSE [gz EXCEPT !.saved = @ + WSIZE]
  /\ zcall' = [zcall EXCEPT !.op = "loop"]
  /\ UNCHANGED <<zfile, zpos, inf, zerr>>

(* inflate_window ends: the window is full, the last block is over, or an    *)
(* error was met.  (An error in a block's header leaves saved_filepos alone, *)
(* but the loop comes back, finds errnum set and moves it all the same.)     *)
WindowDone ==
  /\ zcall.op = "window"
  /\ \/ inf.wp = WSIZE \/ zerr
     \/ inf.block_len = 0 /\ inf.last
  /\ gz' = [gz EXCEPT !.saved = @ + WSIZE]
  /\ zcall' = [zcall EXCEPT !.op = "loop"]
  /\ UNCHANGED <<zfile, zpos, inf, zerr>>

Inflating == zcall.op = "window" /\ inf.wp < WSIZE /\ ~zerr
             /\ ~(inf.block_len = 0 /\ inf.last)

(* get_byte: the input buffer is read anew where it ends, and where the data *)
(* begin.                                                                    *)
InStored == inf.block_len # 0 /\ inf.type = "stored"
Copying  == inf.block_len # 0 /\ inf.type = "codes" /\ inf.code = 1
Refills  == ~inf.spoilt /\ ~Copying
            /\ (zpos.filepos = gz.offset \/ inf.bufloc = INBUFSIZ)
Refill ==
  LET n == Kib(INBUFSIZ, zpos.filemax - zpos.filepos)
      at == zpos.filepos - Head0
  IN  /\ Inflating /\ Refills
      /\ inf' = [inf EXCEPT !.bufloc = 0,
           !.inbuf = SubSeq(Append(Cells, [t |-> "trailer"]), at + 1, at + n)]
      /\ zpos' = [zpos EXCEPT !.filepos = @ + n]
      /\ UNCHANGED <<zfile, gz, zcall, zerr>>

(* get_byte does not look at what grub_read returns.  After one that failed  *)
(* the bits are those of an old buffer (spoilt): to the end of the window    *)
(* they are decoded to anything, and the data may seem to end there.  Where  *)
(* the input then stands is left out, as nothing comes of it that is true.   *)
Rubbish == 0 - 1
Garbled ==
  \E last \in BOOLEAN :
    inf' = [Nothing EXCEPT !.spoilt = TRUE, !.wp = WSIZE, !.last = last,
                           !.slide = [k \in 1..WSIZE |-> Rubbish]]

(* A stored block ends with the error.  The header of a block and the codes  *)
(* are decoded on; the error is still there in the end, or is no longer,     *)
(* since the next grub_read that gets to the disk sets errnum to 0.          *)
RefillFails ==
  /\ Inflating /\ Refills
  /\ zcall' = [zcall EXCEPT !.lost = TRUE]
  /\ zerr' \in (IF InStored THEN {TRUE} ELSE BOOLEAN)
  /\ Garbled
  /\ UNCHANGED <<zfile, zpos, gz>>

(* The windows after that one, until the decompression starts again; they    *)
(* may show bad data.                                                        *)
GarbledWindow ==
  /\ Inflating /\ inf.spoilt
  /\ zerr' \in BOOLEAN
  /\ Garbled
  /\ UNCHANGED <<zfile, zpos, gz, zcall>>

Cell == inf.inbuf[inf.bufloc + 1]
Took == [inf EXCEPT !.bufloc = @ + 1]
BadData ==
  /\ zerr' = TRUE
  /\ zcall' = [zcall EXCEPT !.lost = TRUE]
Takes == Inflating /\ ~inf.spoilt /\ ~Refills
Inflated(i) == inf' = i /\ UNCHANGED <<zerr, zcall>>
Out(i, v) == [i EXCEPT !.slide[i.wp + 1] = v, !.wp = @ + 1]

(* huft_build: 2 for code lengths that ask for more codes than there are, 1  *)
(* for some that leave codes over, unless it is the one other code of a bit. *)
HuftBuild(lens) ==
  LET coded == {i \in DOMAIN lens : lens[i] # 0}
      g     == Max({lens[i] : i \in coded})
      y     == FoldLeft(LAMBDA n, len : IF len = 0 THEN n ELSE n - 2^(g - len), 2^g, lens)
  IN  IF coded = {} THEN 0 ELSE IF y < 0 THEN 2 ELSE IF y # 0 /\ g # 1 THEN 1 ELSE 0

(* init_fixed_block, whose distances leave two codes over.                   *)
FixedLens == <<[i \in 1..288 |-> CASE i <= 144 -> 8 [] i \in 145..256 -> 9
                                   [] i \in 257..280 -> 7 [] OTHER -> 8],
               [i \in 1..30 |-> 5]>>
FixedTables == HuftBuild(FixedLens[1]) = 0 /\ HuftBuild(FixedLens[2]) <= 1

(* init_dynamic_block: the header has so many lengths as it says (fits), and *)
(* those of the code they are written in, of the literals and of the         *)
(* distances each make a code.                                               *)
DynamicTables(c) == c.fits /\ \A k \in DOMAIN c.lens : HuftBuild(c.lens[k]) = 0

(* get_new_block.                                                            *)
Starts(c) == /\ c.t = "block"
             /\ \/ c.type = "stored"
                \/ c.type = "fixed" /\ FixedTables
                \/ c.type = "dynamic" /\ DynamicTables(c)
NewBlock ==
  LET stored == Cell.type = "stored"
  IN  /\ Takes /\ inf.block_len = 0
      /\ IF Starts(Cell)
         THEN Inflated([Took EXCEPT !.last = Cell.last,
                           !.type = IF stored THEN "stored" ELSE "codes",
                           !.block_len = IF stored THEN Cell.len ELSE 1,
                           !.code = IF stored THEN @ ELSE 0])
         ELSE BadData /\ inf' = Took
      /\ UNCHANGED <<zfile, zpos, gz>>

(* A byte of a stored block.                                                 *)
StoredByte ==
  /\ Takes /\ InStored
  /\ Inflated([Out(Took, Cell.v) EXCEPT !.block_len = @ - 1])
  /\ UNCHANGED <<zfile, zpos, gz>>

(* inflate_codes_in_window: a code is decoded; a copy is then begun, and     *)
(* goes on in the next window if this one is full.                           *)
Decode ==
  /\ Takes /\ inf.block_len > 0 /\ inf.type = "codes" /\ inf.code = 0
  /\ CASE Cell.t = "lit"  -> Inflated(Out(Took, Cell.v))
       [] Cell.t = "end"  -> Inflated([Took EXCEPT !.block_len = 0])
       [] Cell.t = "copy" -> Inflated([Took EXCEPT !.code = 1, !.n = Cell.n,
                                                   !.d = inf.wp - Cell.d])
       [] OTHER -> BadData /\ inf' = Took
  /\ UNCHANGED <<zfile, zpos, gz>>

CopyByte ==
  LET from == inf.d % WSIZE
  IN  /\ Takes /\ Copying
      /\ Inflated([Out(inf, inf.slide[from + 1]) EXCEPT
                     !.d = from + 1, !.n = @ - 1, !.code = IF inf.n = 1 THEN 0 ELSE 1])
      /\ UNCHANGED <<zfile, zpos, gz>>

ZTurn == \/ ZHeader \/ ZTrailer \/ ZPlain
         \/ MoveWindow \/ CopyWindow \/ ZReturn \/ WindowDone
         \/ Refill \/ RefillFails \/ GarbledWindow
         \/ NewBlock \/ StoredByte \/ Decode \/ CopyByte

GunzipNext == \/ \E f \in DOMAIN GzFiles : ZOpen(f)
              \/ \E p \in 0..zpos.filemax : ZSeek(p)
              \/ \E n \in GzLens : ZRead(n)
              \/ ZClose
              \/ ZTurn
-----------------------------------------------------------------------------
NoText == <<-1, -1>>
ZReading == {"plain", "loop", "window", "return"}

GR == INSTANCE FileReader WITH
        Byte   <- Int,
        NoFile <- NoText,
        st     <- CASE zcall.op \in {"shut", "open", "failed"} -> zcall.op
                    [] zcall.op \in ZReading -> "reading"
                    [] OTHER -> "opening",
        file   <- IF zcall.op = "shut" \/ GzFiles[zfile].bad THEN NoText ELSE Unzipped[zfile],
        pos    <- CASE zcall.op \in {"shut", "header", "trailer", "failed"} -> 0
                    [] zcall.op \in {"loop", "window", "return"} ->
                         gz.filepos - Len(zcall.buf)
                    [] OTHER -> zpos.filepos,
        want   <- zcall.want,
        got    <- IF zcall.op = "open" THEN zcall.buf ELSE <<>>,
        lost   <- zcall.lost \/ inf.spoilt

(* A compressed file is read as what it was made from, wherever the window   *)
(* stood and whatever was read before: the same promise that grub_read makes *)
(* for a plain file.  A read of the input that failed excuses its call, and, *)
(* since that call may hide it, those after it until the decompression       *)
(* starts again.                                                             *)
ImplementsZipped == GR!Spec

(* gunzip_read returns, with its data or with an error.                      *)
EveryUnzipReturns == ZBusy ~> ~ZBusy
=============================================================================
