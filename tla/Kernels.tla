------------------------------ MODULE Kernels ------------------------------
(* Loading a kernel: load_image of boot.c, as a function of the file and of  *)
(* the memory it finds.  Addresses and sizes are in units of 256 bytes.      *)
EXTENDS Integers, Sequences
LOCAL INSTANCE SequencesExt

CONSTANTS
  MemLower,    \* mbi.mem_lower
  MemUpper     \* mbi.mem_upper

MB == 4096
Page == 16
Wrap == 16777216                        \* 2^32 bytes
LINUX_BZIMAGE_ADDR == MB
LINUX_ZIMAGE_ADDR == 256
LINUX_SETUP_MOVE_SIZE == 145
LINUX_OLD_REAL_MODE_ADDR == 2304
MULTIBOOT_SEARCH == 32

\* faulty: rounds down, into the page where the kernel ends.
AlignDownwards(at) == (at \div Page) * Page
AlignUp(at) == ((at + Page - 1) \div Page) * Page

(* A kernel file.  format: "elf", "kludge" (Multiboot with addresses of its  *)
(* own), "aout", "linux", or "other".  fault: what load_image finds wrong    *)
(* with the headers.  short: the part the file is cut short in (0: none).    *)
(* tables: its symbol tables, [size, has] units, of which the file has has.  *)

---------------------------------------------------------------------------
(* Memory is what was written last where: a region that is written over, if  *)
(* only in part, is gone.                                                    *)
Region(at, n, what) == [at |-> at, end |-> at + n, what |-> what]
Over(memory, at, n) == {r \in memory : r.end <= at \/ r.at >= at + n}
Put(memory, at, n, what) ==
  IF n = 0 THEN memory ELSE Over(memory, at, n) \cup {Region(at, n, what)}
Holds(memory, at, end) ==
  IF \E r \in memory : r.at = at /\ r.end = end
  THEN (CHOOSE r \in memory : r.at = at /\ r.end = end).what ELSE <<"lost">>

memcheck(at, n) ==
  /\ at % Wrap # 0
  /\ at % Wrap >= MB => ((at % Wrap) - MB + n) % Wrap <= MemUpper

\* The load so far: errnum, and the read at which the drive fails (0: none).
Start(memory, bad) == [memory |-> memory, err |-> "none", bad |-> bad, got |-> 0,
                       cur |-> 0, cut |-> FALSE]

\* grub_read: n is what the file has.  Where it fails some of it was read.
Read(ld, at, n, what) ==
  LET next == [ld EXCEPT !.bad = @ - 1]
      failed(e) == [next EXCEPT !.err = e, !.got = 0,
                                !.memory = IF at = 0 THEN @ ELSE Over(@, at, n)]
  IN  IF n = 0 THEN [ld EXCEPT !.got = 0]
      ELSE IF ld.bad = 1 THEN failed("read")
      ELSE IF ~memcheck(at, n) THEN failed("wont_fit")
      ELSE [next EXCEPT !.err = "none", !.got = n, !.memory = Put(@, at, n, what)]

\* memset
Zero(ld, at, n) ==
  IF n = 0 THEN ld
  ELSE IF memcheck(at, n) THEN [ld EXCEPT !.memory = Put(@, at, n, <<"zero">>)]
  ELSE [ld EXCEPT !.err = "wont_fit"]

---------------------------------------------------------------------------
(* The parts of a kernel, in the order they are read: of size units, file    *)
(* are in the file and the rest is zero.                                     *)
Part(at, file, size) == [at |-> at, file |-> file, size |-> size]
Parts(f) ==
  CASE f.format = "elf" -> f.segments
    [] f.format = "kludge" -> <<Part(f.at, f.text, f.text + f.bss)>>
    [] f.format = "aout" ->
         <<Part(f.at, f.text, f.text),
           Part(IF f.align THEN AlignUp(f.at + f.text) ELSE f.at + f.text, f.data, f.data + f.bss)>>
    [] OTHER -> <<>>
Has(f, i) == Parts(f)[i].file - IF f.short = i THEN 1 ELSE 0

(* a.out: a part that is not whole is an error.                              *)
AoutSegment(f, ld, i) ==
  LET s == Parts(f)[i]
      r == Read(ld, s.at, Has(f, i), <<f.name, i>>)
  IN  IF ld.err # "none" THEN ld
      ELSE IF r.got # s.file THEN [r EXCEPT !.err = IF @ = "none" THEN "format" ELSE @]
      ELSE [Zero(r, s.at + s.file, s.size - s.file) EXCEPT !.cur = s.at + s.size]

(* ELF: cur_addr ends up above all segments.  One below 1 MB is an error     *)
(* that memcheck forgets; one that is cut short ends the loading, and is     *)
(* none.                                                                     *)
ElfSegment(f, ld, i) ==
  LET s  == Parts(f)[i]
      up == [ld EXCEPT !.cur = IF @ < s.at + s.size THEN s.at + s.size ELSE @]
      r  == Read(up, s.at, Has(f, i), <<f.name, i>>)
  IN  IF ld.cut THEN ld
      ELSE IF ~memcheck(s.at, s.size) THEN [up EXCEPT !.err = "wont_fit", !.cut = TRUE]
      ELSE IF r.got # s.file THEN [r EXCEPT !.cut = TRUE]
      ELSE Zero(r, s.at + s.file, s.size - s.file)

LoadSegments(f, ld) ==
  FoldLeft(LAMBDA l, i : IF f.format = "elf" THEN ElfSegment(f, l, i) ELSE AoutSegment(f, l, i),
           ld, [i \in DOMAIN Parts(f) |-> i])

(* Symbols go behind the kernel.  A table that cannot be read is an error;   *)
(* one that is cut short leaves the kernel without symbols, and cur_addr of  *)
(* an ELF file 0.                                                            *)
Table(f, ld, i) ==
  LET t == f.tables[i]
      r == Read(ld, ld.cur, t.has, <<f.name, "table", i>>)
  IN  IF ld.err # "none" \/ ld.cut THEN ld
      ELSE IF r.got # t.size THEN [r EXCEPT !.cut = TRUE]
      ELSE [r EXCEPT !.cur = @ + t.size]
LoadSymbols(f, ld) ==
  LET from == [ld EXCEPT !.cut = FALSE, !.cur = AlignUp(@)]
      all  == FoldLeft(LAMBDA l, i : Table(f, l, i), from, [i \in DOMAIN f.tables |-> i])
  IN  IF ld.err # "none" THEN ld
      ELSE IF all.cut THEN [all EXCEPT !.cur = IF f.format = "elf" THEN 0 ELSE ld.cur]
      ELSE IF f.tables = <<>> /\ f.format # "elf" THEN ld
      ELSE all

(* Linux.  The real-mode part and the command line go behind the text, which *)
(* is read last.  Where they do not fit, or the rest of a long real-mode     *)
(* part cannot be read, the error is forgotten when the text is read; but    *)
(* nothing is read of a list of blocks while there is an error.              *)
RealAddr(f) == IF f.old \/ MemLower - LINUX_SETUP_MOVE_SIZE > LINUX_OLD_REAL_MODE_ADDR
               THEN LINUX_OLD_REAL_MODE_ADDR ELSE MemLower - LINUX_SETUP_MOVE_SIZE
LinuxFits(f) == /\ f.big \/ f.text <= RealAddr(f) - LINUX_ZIMAGE_ADDR
                /\ RealAddr(f) + LINUX_SETUP_MOVE_SIZE <= MemLower
TmpAddr(f) == LINUX_BZIMAGE_ADDR + f.text
LoadSetup(f, args, ld) ==
  LET rest == IF f.setup > MULTIBOOT_SEARCH
              THEN Read(ld, TmpAddr(f) + MULTIBOOT_SEARCH, f.setup - MULTIBOOT_SEARCH, <<"rest">>)
              ELSE ld
      fits == memcheck(TmpAddr(f), LINUX_SETUP_MOVE_SIZE)
  IN  IF ~memcheck(TmpAddr(f), f.setup) THEN [rest EXCEPT !.err = "wont_fit"]
      ELSE IF rest.err = "none" /\ fits
      THEN [rest EXCEPT !.memory = Put(@, TmpAddr(f), LINUX_SETUP_MOVE_SIZE, <<f.name, args>>)]
      ELSE [rest EXCEPT !.memory = Over(@, TmpAddr(f), LINUX_SETUP_MOVE_SIZE)]
LoadLinux(f, args, ld) ==
  LET setup == LoadSetup(f, args, ld)
      text  == IF f.blocks /\ setup.err # "none" THEN setup
               ELSE Read(setup, LINUX_BZIMAGE_ADDR, f.text, <<f.name, "text">>)
  IN  [text EXCEPT !.cur = TmpAddr(f) + LINUX_SETUP_MOVE_SIZE]

---------------------------------------------------------------------------
TypeOf(f) == IF f.format = "linux" THEN IF f.big THEN "biglinux" ELSE "linux" ELSE f.type

(* load_image: the load, and the type, "none" where it fails; refused: before *)
(* anything is loaded.                                                       *)
load_image(f, args, suggested, memory, cur, bad) ==
  LET start == [Start(memory, bad) EXCEPT !.cur = cur]
      ld == IF f.format = "linux" THEN LoadLinux(f, args, start)
            ELSE LoadSymbols(f, LoadSegments(f, [start EXCEPT !.cur = IF f.format = "elf" THEN 0 ELSE cur]))
      refused == f.fault # "none" \/ f.format = "other" \/ (f.format = "linux" /\ ~LinuxFits(f))
  IN  IF refused THEN [refused |-> TRUE, load |-> [start EXCEPT !.err = "format"], type |-> "none"]
      ELSE [refused |-> FALSE, load |-> ld,
            type |-> IF ld.err # "none" \/ suggested \notin {"none", TypeOf(f)} THEN "none" ELSE TypeOf(f)]

\* Where the parts of a kernel are; of a Linux kernel, with the text and the
\* real-mode part at these addresses.
ImageOf(f, args, text, setup) ==
  IF f.format = "linux"
  THEN {Region(text, f.text, <<f.name, "text">>),
        Region(setup, LINUX_SETUP_MOVE_SIZE, <<f.name, args>>)}
  ELSE UNION {LET p == Parts(f)[i]
              IN  {Region(p.at, p.file, <<f.name, i>>),
                   Region(p.at + p.file, p.size - p.file, <<"zero">>)} : i \in DOMAIN Parts(f)}
InMemory(regions, memory) == \A r \in regions : r.at = r.end \/ r \in memory
============================================================================
