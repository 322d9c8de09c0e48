------------------------------ MODULE Loading ------------------------------
(* kernel, module, initrd, chainloader and boot of builtins.c, and the       *)
(* loading in boot.c: what is read where in memory, what is remembered of    *)
(* it, and what the machine is handed over to.                               *)
(*                                                                           *)
(* Left out: --sdi, --ebx, --disable-a20, --load-length, --skip-length, the  *)
(* expansion of IO.SYS, vga=, the video options, the boot information that   *)
(* is asked of the BIOS; memory that map --mem took.                         *)
EXTENDS Kernels

CONSTANTS
  KernelCommands,    \* [file, args, len, mem, type], type: of --type, or "bad"
  ModuleCommands,    \* [file, args, len]; file: [name, size]
  ChainCommands,     \* [file, at, drive, raw, force, bad]
  Drives,            \* drive numbers that root is set to
  CmdlineBuf,        \* MB_CMDLINE_BUFLEN (a bound)
  MaxCommands,       \* how many commands that load (a bound)
  MaxRoots           \* how often root is set (a bound)

(* A chainloaded file: sort is what its first sectors show, or for a CD-ROM  *)
(* how it boots; long: more than a sector; volume0: without a parameter      *)
(* block, and with a partition table that has a partition at sector 0.       *)

ASSUME LoadingAssumption ==
  /\ \A c \in KernelCommands : c.len <= CmdlineBuf
  /\ \A c \in KernelCommands : \A i \in DOMAIN Parts(c.file) : Parts(c.file)[i].at > 0

VARIABLES
  memory,            \* what was written into memory, by region
  kernel_type, kernel, \* kernel: the file that entry_addr and linux_* are of
  cur_addr, mb_cmdline,
  mbi,               \* mbi.cmdline, and mll, as places in memory
  ramdisk,           \* ramdisk_image and ramdisk_size in the setup header
  linux_mem_size,
  chain,             \* chainloader_file and the chainloader_ options
  is_raw, saved_drive,
  commands, roots,
  command

loadVars == <<memory, kernel_type, kernel, cur_addr, mb_cmdline, mbi, ramdisk,
              linux_mem_size, chain, is_raw, saved_drive, commands, roots, command>>
kernelVars == <<memory, kernel, cur_addr, mb_cmdline, mbi, ramdisk, linux_mem_size>>
chainVars == <<chain, is_raw>>

MB_CMDLINE_BUF == 32
Default == -1
Far(segment, offset) == segment * 65536 + offset
NoKernel == [name |-> "none"]
NoPlace == <<0, 0>>
Linux == {"linux", "biglinux"}

LoadInit ==
  /\ memory = {} /\ kernel_type = "none" /\ kernel = NoKernel
  /\ cur_addr = 0 /\ mb_cmdline = MB_CMDLINE_BUF
  /\ mbi = [args |-> NoPlace, mods |-> <<>>]
  /\ ramdisk = NoPlace /\ linux_mem_size = 0
  /\ chain = [file |-> NoKernel, at |-> Default, drive |-> Default]
  /\ is_raw = FALSE /\ saved_drive \in Drives
  /\ commands = 0 /\ roots = 0 /\ command = [op |-> "none"]

Prompt == ~(command.op = "boot" /\ command.done) /\ UNCHANGED saved_drive
\* The other way of booting is only tried by the last command (a bound).
Loads(other) ==
  /\ Prompt /\ UNCHANGED roots
  /\ commands < MaxCommands
  /\ commands' = IF other = NoKernel THEN commands + 1 ELSE MaxCommands

\* How the drive behaves: which read fails, 0: none, -1: the file is not opened.
Faults == -1..4

---------------------------------------------------------------------------
\* kernel_func.
kernel_func(c) ==
  /\ Loads(chain.file) /\ UNCHANGED chainVars
  /\ IF c.type = "bad"
     THEN /\ command' = [op |-> "kernel", done |-> FALSE]
          /\ UNCHANGED <<kernel_type, kernelVars>>
     ELSE \E bad \in Faults :
       LET written == Put(memory, MB_CMDLINE_BUF, c.len, <<c.args>>)
           l == load_image(c.file, c.args, c.type, written, cur_addr, bad)
           ok == l.type # "none"
       IN  IF bad = -1
           THEN /\ kernel_type' = "none" /\ memory' = written /\ mb_cmdline' = MB_CMDLINE_BUF
                /\ command' = [op |-> "kernel", done |-> FALSE]
                /\ UNCHANGED <<kernel, cur_addr, mbi, ramdisk, linux_mem_size>>
           ELSE /\ l.load.bad <= 0          \* there was such a read
                /\ memory' = l.load.memory /\ cur_addr' = l.load.cur
                /\ kernel_type' = l.type /\ kernel' = c.file
                /\ mb_cmdline' = MB_CMDLINE_BUF + IF ok THEN c.len ELSE 0
                /\ mbi' = IF l.refused \/ c.file.format = "linux" THEN mbi
                          ELSE [args |-> <<MB_CMDLINE_BUF, MB_CMDLINE_BUF + c.len>>, mods |-> <<>>]
                /\ ramdisk' = NoPlace
                /\ linux_mem_size' = IF c.file.format = "linux" THEN c.mem ELSE linux_mem_size
                /\ command' = IF ok THEN [op |-> "kernel", done |-> TRUE, file |-> c.file.name,
                                          args |-> c.args]
                              ELSE [op |-> "kernel", done |-> FALSE]

---------------------------------------------------------------------------
\* load_module and module_func.
ModuleFails(disk, f) ==
  command' = [op |-> "module", done |-> FALSE, disk |-> disk, file |-> f.name,
              mem |-> linux_mem_size]

load_module(c, bad) ==
  LET at      == AlignUp(cur_addr)
      written == Put(memory, mb_cmdline, c.len, <<c.args>>)
      r       == Read(Start(written, bad), at, c.file.size, <<c.file.name>>)
  IN  IF bad = -1 \/ r.got = 0
      THEN /\ memory' = IF bad = -1 THEN written ELSE r.memory
           /\ cur_addr' = at
           /\ ModuleFails(FALSE, c.file) /\ UNCHANGED <<mb_cmdline, mbi>>
      ELSE /\ memory' = r.memory
           /\ cur_addr' = at + c.file.size
           /\ mbi' = [mbi EXCEPT !.mods = Append(@, [args |-> <<mb_cmdline, mb_cmdline + c.len>>,
                                                     at |-> at, end |-> at + c.file.size])]
           /\ mb_cmdline' = mb_cmdline + c.len
           /\ command' = [op |-> "module", done |-> TRUE, disk |-> FALSE,
                          file |-> c.file.name, args |-> c.args]

\* load_initrd: at the top of memory, or of what mem= leaves, but for 64 KB.
AlignDown(at) == at - (at % Page)
InitrdAt(len) ==
  LET top == IF linux_mem_size # 0 THEN linux_mem_size ELSE MB + MemUpper
      moveto == AlignDown(top - len)
  IN  (IF moveto + len >= kernel.max THEN AlignDown(kernel.max - len) ELSE moveto) - 256

load_initrd(f, bad) ==
  LET r == Read(Start(memory, bad), InitrdAt(f.size), f.size, <<f.name>>)
  IN  /\ IF bad = -1 \/ r.got = 0
         THEN /\ ModuleFails(TRUE, f) /\ UNCHANGED ramdisk
              /\ memory' = IF bad = -1 THEN memory ELSE r.memory
         ELSE /\ memory' = r.memory
              /\ ramdisk' = <<InitrdAt(f.size), InitrdAt(f.size) + f.size>>
              /\ command' = [op |-> "module", done |-> TRUE, disk |-> TRUE, file |-> f.name,
                             mem |-> linux_mem_size]
      /\ UNCHANGED <<cur_addr, mb_cmdline, mbi>>

module_func(c) ==
  /\ Loads(chain.file) /\ UNCHANGED <<kernel_type, kernel, linux_mem_size, chainVars>>
  /\ IF kernel_type = "multiboot" /\ mb_cmdline + c.len <= MB_CMDLINE_BUF + CmdlineBuf
     THEN UNCHANGED ramdisk /\ \E bad \in {-1, 0, 1} : load_module(c, bad)
     ELSE IF kernel_type \in Linux THEN \E bad \in {-1, 0, 1} : load_initrd(c.file, bad)
     ELSE /\ ModuleFails(FALSE, c.file)
          /\ UNCHANGED <<memory, cur_addr, mb_cmdline, mbi, ramdisk>>

initrd_func(c) ==
  /\ Loads(chain.file) /\ UNCHANGED <<kernel_type, kernel, linux_mem_size, chainVars>>
  /\ IF kernel_type \in Linux THEN \E bad \in {-1, 0, 1} : load_initrd(c.file, bad)
     ELSE /\ ModuleFails(FALSE, c.file)
          /\ UNCHANGED <<memory, cur_addr, mb_cmdline, mbi, ramdisk>>

---------------------------------------------------------------------------
\* chainloader_func.
\* The options, and where a file asks to be started where they do not say.
Asked(c) == [file |-> c.file, at |-> c.at, drive |-> c.drive]
Or(option, otherwise) == IF option = Default THEN otherwise ELSE option
FreeDos(asked) == [asked EXCEPT !.at = Or(@, Far(96, 0))]
MsDos(asked, d) == [asked EXCEPT !.at = Or(@, Far(112, 0)), !.drive = Or(@, d)]
NtLoader(asked, d) == [asked EXCEPT !.at = Or(@, Far(8192, 0)), !.drive = Or(@, d)]
IsoLinux(asked, d) == [asked EXCEPT !.at = Far(0, 31744), !.drive = d]
NoEmulation(asked, d) == [asked EXCEPT !.at = Far(1984, 0), !.drive = d]

Recognised(c) ==
  LET f == c.file
      a == Asked(c)
  IN  IF is_raw \/ c.raw THEN a
      ELSE CASE f.sort = "freedos" -> FreeDos(a)
             [] f.sort = "msdos" -> MsDos(a, f.drive)
             [] f.sort = "ntldr" -> NtLoader(a, f.drive)
             [] f.sort = "isolinux" -> IsoLinux(a, f.drive)
             [] f.sort = "cd" -> NoEmulation(a, f.drive)
             [] OTHER -> a
Refuses(c) == ~(is_raw \/ c.raw) /\ (c.file.sort = "other" \/ (c.file.sort = "unsigned" /\ ~c.force))
\* CD-ROMs that the BIOS emulates a disk for are of a type of their own; one
\* whose partition table gives no geometry ends without type and error.
Emulated == {"cdfloppy", "cdhard"}
TypeOfChain(c) ==
  IF is_raw \/ c.raw \/ c.file.sort \notin Emulated \cup {"cdflat"} THEN "chainloader"
  ELSE IF c.file.sort \in Emulated THEN "cdrom"
  ELSE "none"

Chains(done, c) ==
  command' = IF done THEN [op |-> "chainloader", done |-> TRUE, file |-> c.file.name, at |-> c.at,
                           drive |-> c.drive, raw |-> is_raw', flat |-> c.file.sort = "cdflat"]
             ELSE [op |-> "chainloader", done |-> FALSE, at |-> c.at, drive |-> c.drive]

chainloader_func(c) ==
  /\ Loads(kernel) /\ UNCHANGED kernelVars
  /\ is_raw' = (is_raw \/ c.raw)
  /\ \/ /\ c.bad                       \* an option is, or the name is too long
        /\ chain' = [chain EXCEPT !.at = c.at, !.drive = c.drive]
        /\ UNCHANGED kernel_type /\ Chains(FALSE, c)
     \/ /\ ~c.bad /\ ~Refuses(c)
        /\ chain' = Recognised(c)
        /\ kernel_type' = TypeOfChain(c) /\ Chains(TRUE, c)
     \/ /\ ~c.bad /\ ~is_raw'          \* refused, or the drive fails
        /\ chain' = Asked(c)
        /\ kernel_type' = "none" /\ Chains(FALSE, c)

---------------------------------------------------------------------------
\* boot_func.
Held(mem, place) == Holds(mem, place[1], place[2])

\* What there is of the kernel in memory, with all that was loaded for it.
KernelIn(mem, text, setup) ==
  LET linux == kernel.format = "linux"
      args  == IF linux THEN LET held == Holds(mem, setup, setup + LINUX_SETUP_MOVE_SIZE)
                             IN  IF held[1] = kernel.name THEN held[2] ELSE "lost"
               ELSE Held(mem, mbi.args)[1]
  IN  [kind |-> "kernel", file |-> kernel.name, args |-> args,
       whole |-> InMemory(ImageOf(kernel, args, text, setup), mem),
       modules |-> IF linux THEN <<>>
                   ELSE [i \in DOMAIN mbi.mods |->
                          [file |-> Held(mem, <<mbi.mods[i].at, mbi.mods[i].end>>)[1],
                           args |-> Held(mem, mbi.mods[i].args)[1]]],
       initrd |-> IF ~linux \/ ramdisk = NoPlace THEN "none" ELSE Held(mem, ramdisk)[1]]

\* linux_boot: the text of a zImage and the real-mode part are moved down.
LinuxGiven ==
  LET bz   == LINUX_BZIMAGE_ADDR
      low  == IF kernel_type = "biglinux" THEN memory
              ELSE Put(memory, LINUX_ZIMAGE_ADDR, kernel.text, Holds(memory, bz, bz + kernel.text))
      tmp  == TmpAddr(kernel)
      real == RealAddr(kernel)
  IN  KernelIn(Put(low, real, LINUX_SETUP_MOVE_SIZE, Holds(low, tmp, tmp + LINUX_SETUP_MOVE_SIZE)),
               IF kernel_type = "biglinux" THEN bz ELSE LINUX_ZIMAGE_ADDR, real)

NoImage == [kind |-> "nothing"]
HandsOver(given) == command' = [op |-> "boot", done |-> TRUE, given |-> given]
                /\ UNCHANGED <<kernel_type, chain>>
BootFails == command' = [op |-> "boot", done |-> FALSE, given |-> NoImage]

\* The file is started where it is, in its first sector; or it is read again.
Extended == \/ chain.at \notin {Default, Far(0, 31744)} \/ chain.drive # Default
            \/ is_raw \/ chain.file.long
At == IF chain.at = Default THEN Far(0, 31744) ELSE chain.at
BootDrive == IF chain.drive = Default THEN saved_drive ELSE chain.drive
HardDisk(d) == d >= 128
Isolinux == chain.file.sort = "isolinux" /\ ~is_raw
ChainGiven == [kind |-> "chain", file |-> chain.file.name, at |-> At, drive |-> BootDrive]

boot_chainloader ==
  \/ /\ Extended /\ BootFails           \* not opened, or not read
     /\ kernel_type' = "none" /\ chain' = [chain EXCEPT !.at = At]
  \/ /\ chain.file.volume0 /\ HardDisk(BootDrive) /\ BootFails
     /\ UNCHANGED kernel_type
     /\ chain' = IF Extended THEN [chain EXCEPT !.at = At, !.drive = BootDrive] ELSE chain
  \/ /\ Isolinux /\ BootFails           \* not in one piece
     /\ UNCHANGED kernel_type /\ chain' = [chain EXCEPT !.at = At]
  \/ /\ ~(chain.file.volume0 /\ HardDisk(BootDrive))
     /\ HandsOver(ChainGiven)

boot_func ==
  /\ Prompt /\ UNCHANGED <<kernelVars, is_raw, commands, roots>>
  /\ CASE kernel_type = "none" -> BootFails /\ UNCHANGED <<kernel_type, chain>>
       [] kernel_type \in Linux -> HandsOver(LinuxGiven)
       [] kernel_type = "chainloader" -> boot_chainloader
       [] kernel_type = "cdrom" ->
            \/ HandsOver([ChainGiven EXCEPT !.at = 0, !.drive = chain.file.drive])
            \/ BootFails /\ UNCHANGED <<kernel_type, chain>>
       [] OTHER -> HandsOver(KernelIn(memory, 0, 0))

\* rootnoverify, where it makes a difference.
root_func(d) ==
  /\ kernel_type = "chainloader"
  /\ roots < MaxRoots /\ roots' = roots + 1 /\ ~(command.op = "boot" /\ command.done)
  /\ saved_drive' = d /\ command' = [op |-> "root", drive |-> d]
  /\ UNCHANGED <<kernel_type, kernelVars, chainVars, commands>>

LoadNext ==
  \/ \E c \in KernelCommands : kernel_func(c)
  \/ \E c \in ModuleCommands : module_func(c) \/ initrd_func(c)
  \/ \E c \in ChainCommands : chainloader_func(c)
  \/ boot_func
  \/ \E d \in Drives : root_func(d)

---------------------------------------------------------------------------
(* What is loaded is what memory holds where the loader remembers it.        *)
Loaded ==
  CASE kernel_type = "none" -> NoImage
    [] kernel_type = "chainloader" -> [ChainGiven EXCEPT !.drive = chain.drive]
    [] kernel_type = "cdrom" -> [ChainGiven EXCEPT !.at = 0, !.drive = chain.file.drive]
    [] OTHER -> KernelIn(memory, LINUX_BZIMAGE_ADDR,
                         IF kernel.format = "linux" THEN TmpAddr(kernel) ELSE 0)

KernelFiles == {c.file : c \in KernelCommands}
LinuxFiles == {f \in KernelFiles : f.format = "linux"}
Mems == {c.mem : c \in KernelCommands}
DiskFiles == {c.file : c \in ModuleCommands}
ChainFiles == {c.file : c \in ChainCommands}
SoundKernels ==
  {f.name : f \in {k \in KernelFiles :
     IF k.format = "linux"
     THEN TmpAddr(k) + LINUX_SETUP_MOVE_SIZE <= MB + MemUpper /\ k.setup <= MULTIBOOT_SEARCH
     ELSE k.short = 0}}
\* A kernel, the memory it is told to use, and an initial disk: behind the
\* kernel there is room for the disk, the 64 KB above it, and a page.
FittingDisks ==
  {<<k.name, mem, d.name>> :
     <<k, mem, d>> \in {<<f, m, e>> \in LinuxFiles \X Mems \X DiskFiles :
       LET top == IF m # 0 THEN m ELSE MB + MemUpper
       IN  TmpAddr(f) + LINUX_SETUP_MOVE_SIZE + e.size + 256 + Page
             <= IF top < f.max THEN top ELSE f.max}}
HomeOf(f) ==
  LET at(a, d, fixed) == [at |-> a, drive |-> d, fixed |-> fixed]
  IN  CASE f.sort = "freedos" -> at(Far(96, 0), Default, FALSE)
        [] f.sort = "msdos" -> at(Far(112, 0), f.drive, FALSE)
        [] f.sort = "ntldr" -> at(Far(8192, 0), f.drive, FALSE)
        [] f.sort = "isolinux" -> at(Far(0, 31744), f.drive, TRUE)
        [] f.sort = "cd" -> at(Far(1984, 0), f.drive, TRUE)
        [] f.sort \in Emulated -> at(0, f.drive, TRUE)
        [] OTHER -> at(Far(0, 31744), Default, FALSE)

Promised == INSTANCE BootImage WITH
  Sound <- SoundKernels, Fitting <- FittingDisks,
  Home <- [n \in {f.name : f \in ChainFiles} |-> HomeOf(CHOOSE f \in ChainFiles : f.name = n)],
  image <- Loaded, root <- saved_drive

\* ImplementsBootImage.  What boot hands over is what the last commands loaded
\* that were done; what is not promised is named in BootImage.tla.
ImplementsBootImage == Promised!ImageSpec
============================================================================
