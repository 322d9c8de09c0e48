----------------------------- MODULE BootImage -----------------------------
(* What kernel, module, initrd, chainloader and boot promise: boot hands the *)
(* machine over to what the last commands that were done have loaded, all of *)
(* it and nothing else.  A command that fails leaves what was loaded, or     *)
(* nothing to boot.  What is not promised is named where it would be.        *)
EXTENDS Integers, Sequences

CONSTANTS
  Sound,     \* the kernels that are complete, that memory has room for, and
             \* whose real-mode part is found in their first 8 KB
  Fitting,   \* <<kernel, mem, disk>>: the initial disks with room above the kernel
  Home       \* Home[file]: where a chainloaded file asks to be started

VARIABLES
  image,     \* what is loaded
  root,      \* the root drive
  command    \* the last command, and whether it was done

imageVars == <<image, root, command>>

Nothing == [kind |-> "nothing"]
Default == -1                           \* an option that is not given
Far(segment, offset) == segment * 65536 + offset

(* A new kernel has no modules and no initial disk.                          *)
FreshKernel(c) ==
  /\ image'.kind = "kernel" /\ image'.file = c.file
  /\ image'.modules = <<>> /\ image'.initrd = "none"
  /\ c.file \in Sound => image'.whole /\ image'.args = c.args

Kernel(c) == IF c.done THEN FreshKernel(c) ELSE image' \in {image, Nothing}

AddModule(c) ==
  /\ image.kind = "kernel"
  /\ image' = [image EXCEPT !.modules = Append(@, [file |-> c.file, args |-> c.args])]

(* The initial disk goes to the top of memory without a look at what is      *)
(* there: one that leaves no room for the kernel destroys it, and one that   *)
(* cannot be read destroys the one before it.                                *)
Destroyed == [image EXCEPT !.whole = FALSE, !.args = image'.args, !.initrd = image'.initrd]
SetInitrd(c) ==
  /\ image.kind = "kernel"
  /\ \/ image' = [image EXCEPT !.initrd = c.file]
     \/ <<image.file, c.mem, c.file>> \notin Fitting /\ image' = Destroyed
NoInitrd(c) ==
  \/ UNCHANGED image
  \/ image.kind = "kernel" /\ image.initrd # "none"
       /\ image' = [image EXCEPT !.initrd = "lost"]
  \/ image.kind = "kernel" /\ <<image.file, c.mem, c.file>> \notin Fitting
       /\ image' = Destroyed

Module(c) ==
  CASE c.done  -> IF c.disk THEN SetInitrd(c) ELSE AddModule(c)
    [] OTHER -> IF c.disk THEN NoInitrd(c) ELSE UNCHANGED image

(* A chainloaded file is started where the options say, or else where it     *)
(* asks to be; the drive is the root at the time of boot unless one is       *)
(* asked for.  Once --raw was given, the file is not looked at again, and    *)
(* starts like a boot sector.                                                *)
Or(option, otherwise) == IF option = Default THEN otherwise ELSE option
BootSector == [at |-> Far(0, 31744), drive |-> Default, fixed |-> FALSE]
Chained(c) ==
  /\ image'.kind = "chain" /\ image'.file = c.file
  /\ \E home \in {Home[c.file]} \cup IF c.raw THEN {BootSector} ELSE {} :
       /\ image'.at = IF home.fixed THEN home.at ELSE Or(c.at, home.at)
       /\ image'.drive = IF home.fixed THEN home.drive ELSE Or(c.drive, home.drive)

(* A chainloader that fails on an option leaves the file before it, with the *)
(* options that were read so far.                                            *)
Mixed(c) ==
  /\ image.kind = "chain"
  /\ image' = [image EXCEPT !.at = Or(c.at, Far(0, 31744)), !.drive = c.drive]

Chainloader(c) ==
  IF c.done THEN Chained(c) \/ (c.flat /\ image' = Nothing)
  ELSE image' \in {image, Nothing} \/ Mixed(c)

(* boot hands over all that is loaded, or fails and says so; what it fails   *)
(* with can be booted again, but a chainloaded file then keeps the drive.    *)
Given == IF image.kind = "chain" THEN [image EXCEPT !.drive = Or(@, root)] ELSE image
Boot(c) ==
  IF c.done THEN /\ image.kind # "nothing" /\ UNCHANGED image
                 /\ c.given = Given \/ (image.kind = "kernel" /\ ~image.whole)
  ELSE /\ c.given = Nothing
       /\ image' \in {image, Nothing, Given}

Command ==
  LET c == command'
  IN  /\ root' = IF c.op = "root" THEN c.drive ELSE root
      /\ CASE c.op = "kernel" -> Kernel(c)
           [] c.op = "module" -> Module(c)
           [] c.op = "chainloader" -> Chainloader(c)
           [] c.op = "boot" -> Boot(c)
           [] c.op = "root" -> UNCHANGED image
           [] OTHER -> FALSE

ImageInit == image = Nothing /\ command = [op |-> "none"]
ImageSpec == ImageInit /\ [][Command]_imageVars
=============================================================================
