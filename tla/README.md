# A specification of instlux and grub4dos

instlux installs a boot loader (a version of grub4dos) from within Windows, so
that the next restart offers to install a GNU/Linux distribution. The
repository holds the Windows installer (`src/instlux`, an NSIS template and the
Python script that builds one installer for each distribution) and the boot
loader (`src/grub4dos`, GRUB legacy with the grub4dos extensions and Etherboot's
network code).

This directory specifies, in TLA+, the parts of both whose correctness depends
on the order in which things happen. TLC checks small instances; TLAPS proves
the most important results for every value of the constants.

- [The system](#the-system): its parts and what makes them hard
- [The modules](#the-modules): how state and actions correspond to the code
- [The runs](#the-runs): what is checked, the bounds, the fairness
- [The proofs](#the-proofs): what is proved, from what, along which argument
- [What disagrees with the code's own words](#findings)
- [What is not modelled](#what-is-not-modelled)
- [Plan](#plan)

To check a run: `tlc -config MCNetwork.cfg MCNetwork.tla`. To check the proofs of a
module: `tlapm InstallerProofs.tla`.

## The system

| Component | State it keeps | Operations | Talks to |
|---|---|---|---|
| Windows installer and uninstaller (`instlux_template_en.nsi`) | files on C:, registry key, boot.ini, boot manager entries, deletions due at restart | the statements of sections Install and Uninstall | Windows (logon starts the uninstaller), the web or the CD, other distributions' installers through shared files |
| Installer build script (`make_instlux.py`) | none between runs | substitutes code and texts in the template | the template, the translations |
| Architecture detection, advanced page (`cpuid/`, the page function) | the choice | one query, one dialog | installer |
| Menu, fallback, saved default (`stage2.c`, some of `builtins.c`) | cursor, timeout, fallback list, current entry; on disk the default file | keys, clock, running an entry, falling back, saving the default | scripts, terminal, disk |
| Configuration loading (`stage2.c`) | the lists of menu and entry commands | read a line, collect, preset menus | menu, disk |
| Command line and scripts (`cmdline.c`, `builtins.c`) | `errnum`, `fallback`, last result | `run_script`, `&&`, `\|\|`, 90 commands | everything |
| Disk access and track cache (`disk_io.c`, `bios.c`) | `buf_drive`, `buf_track`, `buf_geom`, the buffer | `rawread`, `rawwrite`, `devread`, invalidation | BIOS, file systems |
| Partition traversal (`disk_io.c`) | `current_partition`, ... | `next_partition`, `real_open_partition` | track cache |
| File system readers (`fsys_*.c`, `disk_io.c`) | `filepos`, `filemax`, `errnum`; per file system a cached block, cluster or path | open, dir, read, seek | track cache, commands |
| Decompression (`gunzip.c`) | window, bit buffer, saved position | header test, read, seek | any reader below |
| TFTP client (`netboot/fsys_tftp.c`) | transfer, buffer, positions | dir, read, close | UDP, server, readers above |
| BOOTP, DHCP, RARP, ARP (`netboot/main.c`) | addresses, `arptable` | configuration, `await_reply` | network card |
| PXE file access (`fsys_pxe.c`) | block buffer, position | dir, read, close | firmware |
| Network card drivers (`netboot/*.c`) | card registers, rings | poll, transmit | hardware |
| Drive mapping, int13 handler (`builtins.c`, `grldrstart.S`) | map tables, hooked or not | map, hook, unhook | BIOS, track cache |
| Kernel loading (`boot.c`) | `kernel_type`, module list | kernel, module, initrd, boot | readers, memory |
| Passwords (`md5.c`) | `auth`, `password` | check | menu |
| Terminals (`console.c`, `serial.c`, ... `char_io.c`) | cursor, history | input, output, line editor | user |
| Multiprocessor start (`smp-imps.c`), Stage 1, start code | none that survives | load, jump | BIOS |
| GRUB shell and utilities (`grub/`, `lib/`, `util/`) | emulated BIOS | – | Unix |

The behaviours that are hard, and the property each part owes:

- **The installer is never one step.** It is some twenty statements that each
  change the machine for good. Any of them may fail, the power may go between
  any two, the user may run it again, or a second distribution's beside it, and
  all installers share `C:\grldr`, `C:\menu.lst` and the entry in `boot.ini`.
  Every uninstaller in the Startup folder is run at logon. *Whatever was left
  on the machine must be removable; a finished installation must boot; the
  user's own files must survive.*
- **What is run next is kept twice.** `run_menu` has its place in the list of
  fallbacks; `savedefault` looks the number of the running entry up in that list,
  to save what a machine that is reset shall try. Keys, the clock, edits, errors,
  fallbacks, duplicates and a default that names no entry move the one and not
  the other. *The two agree; the cursor is on an entry; the chain of fallbacks
  ends; with the manual's configuration an entry that works is reached.*
- **The track cache outlives its truth.** A floppy is changed, drive numbers
  are exchanged by `map`, a read fails half way, a read crosses tracks, a
  sector is written below the cache. *Reads give what is on the disk.*
- **TFTP runs over a network that loses and reorders**, with a block number of
  16 bits, a buffer that holds a whole number of packets, reads of any size,
  and seeks that reopen the file. *What is delivered is the file.*
- **An address is negotiated in two nested loops** with servers that answer late,
  twice, or no longer; every reply replaces the whole configuration, whatever it
  says; an extension file is fetched in the middle of the wait; and hardware
  addresses are remembered beside addresses that change. *The address in use is
  one that a server gave, and what is sent to an address goes to its owner.*
- **A card is found by asking for it**: one PCI function, then every driver that is
  linked in, each moving the lines of a serial EEPROM in its own way. *What
  eth_probe settles on is there and has its own address.*
- **Readers keep places between calls.** A FAT reader keeps its cluster, ext2
  two indirect blocks, NTFS a sector, reiserfs the nodes down to an item, PXE a
  buffer and the position of the firmware, gunzip a window. Calls go back and
  forth, other files are opened, disk reads fail in the middle, links lead to
  links. *What is delivered is the file that the path names, and every call
  returns.*

## The modules

A name in a module is the name in the source where TLA+ allows it; the map from
definitions to source lines is in `PROJECT.json`. An operator whose comment
starts with *faulty* is a plausible mistake in the code, kept so that the
properties can be seen to fail with it; no specification uses one.

### Installer, UndoLog

`Installer.tla` is the pair of sections of `instlux_template_en.nsi`, with what
`make_instlux.py` puts in place of `CREATE_CONTAINER` for each of the three media. One action
is one statement: `WriteUninstaller` puts the uninstaller in the Startup folder,
`ExtractMbr` … `Finish` follow the script along `pc[d]`, on the branch of the Windows family.
`file[f]` is the distribution that wrote the shared file `f` last (or the user,
or nobody); directories, marker file, registry key and uninstaller are each
distribution's own. Every deletion of the uninstaller, also that of the directory,
of the marker and of itself, may be put off to the next restart (`/REBOOTOK`):
`pending` has the shared files this happens to, `late[d]` those of d's own, and the
restart deletes what has the name then. `Rename` fails when the target exists.
Downloads, copies and every call of bcdedit may fail; the results of
`bcdedit /set` and `/displayorder` the script does not look at (`BcdCall`), and an
entry of the boot manager has what the calls that succeeded gave it. `Restart` stops
every program wherever it is, carries out the deletions, and Windows then starts the
uninstallers again.

`mishaps[d]` is history: what has happened to d that the script does not see to. No
action looks at it; the properties name the mishaps they do not hold after. `Trace`
is what an uninstaller owes the removal of: the loader's files, the entries in
boot.ini and in the boot manager, the registry key, directory and marker. An entry of
the boot manager whose identifier was lost is no trace (mishap *entry*: the power
failed before it was written down, or `bcdedit /delete` failed, after which the script
deletes the key with the identifier all the same), nor is the timeout of boot.ini,
which the script sets and never puts back, although line 18 of the template has
"the boot.ini will be restored".

`UndoLog.tla` is what it implements: an agent is *armed*, may then leave
traces, and is disarmed when there are none left.

### Menu

`Menu.tla` is `run_menu` and the part of `cmain` after the configuration was
read, with `default`, `timeout`, `hiddenmenu`, `fallback` and `savedefault`
from `builtins.c`. `DefaultEntry` is the entry the configuration asks for.
`RunMenuCommands`, `ParseFallback`, `ValidateFallback` and
`ChooseDefault` prepare the menu; `CountDown` and `EscapeHidden` are the clock;
the keys are one action each (`Up`, `PageDown`, `Digit`, `End`, `OpenLine`,
`DeleteLine`, …), in the main menu and on the lines of an edited entry (`level`,
with `outer` the cursor to come back to); `StartSystem`, `FallBack`,
`ReportError` and `BackToMenu` are the outcomes of `run_script`; `Reset` is the
machine starting over. An entry of the configuration is abstracted to what it
does (`health`: fails before `savedefault`, starts a system that works,
crashes, or returns) and how it saves (`Saves`).

Assumed: a user who may do everything (no password is set); a default file that
can be written; no digit is typed into an edited entry of which every line was
deleted.

### Disk, TrackCache

`TrackCache.tla` is `rawread` and `rawwrite` over the BIOS, the refresh of the
geometry in `real_open_partition` and every place that sets `buf_drive = -1`
(`run_script` before a command, the command line, `map --hook`). A sector is
the unit of data. One turn of `rawread`'s loop is one action: `ReadHit` finds
the track in the buffer, `ReadTrack` reads a whole one, `ReadPart` reads what
crosses its end, `ReadError` and `ReadDone` return. `Exchange` changes the
medium of a removable drive while the user is at the prompt.

`Disk.tla` is the same layer without a cache: a read gives what is on the disk
now or fails, a write changes one sector or fails. A failed write is assumed to
have changed nothing.

### DriveTable, DriveMap

`DriveMap.tla` is `map_func` (`builtins.c`) with the handlers it installs (the
int 13 and int 15 code of `asm.S`). `MapDirect`, `MapMemory` and `MapDelete` are
the ways of a `map` command to `bios_drive_map`: `Resolved` works out what an
image on a drive that is mapped already is on the BIOS's disks, `Base` finds
room for a copy in the memory E820 reports, beside the copies there are.
`HookMap` and `UnhookMap` switch the handler. `Int13(r)` is what becomes of a request: another drive's number,
a piece's bounds, the accesses refused.

`DriveTable.tla` is what a user of `map` is promised: a number shows a disk (a
sequence of sectors and the accesses refused), `map` gives a number the disk
that another shows, a piece of it or a copy in memory, and the numbers show
what they were given from the next `map --hook` on. What differs from that in
the code is named there, so that it can be seen: an empty slot of the map is
taken for one of the first floppy drive, which loses CHS access; an odd sector
count is taken for the mark of `--fake-write`; a whole-drive map of a drive that
is itself a piece loses its end; `--read-only` without `--unsafe-boot` lets
writes succeed that do nothing; the memory of a disk that was deleted but is
still hooked is used again.

### PartitionTable, Partitions

`Partitions.tla` is `next_partition` with its two users: `real_open_partition`
and the commands with a walk of their own (`find`, `root`'s `endpart`,
`partnew`, `hide`, `unhide`, `parttype`, `makeactive`). The two walks
(`it.outer`, `it.inner`) share the buffer `mbr`: a command's body runs between
two steps of its own walk, opens each partition in turn with the other, and so
overwrites the table the first goes on with. One `rawread` is one action and may
fail once in a command.

`PartitionTable.tla` is the numbering: the four entries of the first table, then
the logical ones along the chain, the letters of a BSD slice; what `find`, `list`
and the others answer, and which sector a change is written to. Excused, being
what the code does: the name of an empty fourth primary partition may open the
first link of the chain; a file is taken for contiguous when its first and last
sector are in place; a BSD label is searched on in whatever the buffer holds.

### Tftp

`Tftp.tla` is `netboot/fsys_tftp.c`. A turn of `buf_fill`'s loop is one action:
`Receive` (by the kind of datagram `ReceiveOack`, `ReceiveData`,
`ReceiveError`), and for `await_reply`'s timeout `AskAgain`, `AckAgain`,
`GiveUp`, `Interrupt`. `Open`, `Read`, `Seek` and `Close` are the callers'
calls, and `Count`, `Reopen`, `Rewound`, `CopyOut`, `SkipBuffer` the turns of
the loops in `tftp_dir` and `tftp_read`. A byte of a file is its file and its
place, so that a byte from elsewhere shows. Server and network are not part of
the repository: they are what the client takes them to be, with datagrams lost,
delayed, reordered and sent again.

`send_rrq` takes a new port for every request and `await_reply` looks at that
port only; what this file's server sends to older ports is therefore forgotten in
the step that takes a new one. But the port is new to `fsys_tftp.c` only: `main.c:303`
fetches extension files with a counter of its own, from 2000 as well, and a machine
that is reset starts again. What a server still sends for such a transfer are
`strays`. They wait for their port to come up and may then be taken at any moment
(`ReceiveStray`) like the file's own packets, since `buf_fill` does not ask who
sends; the answer goes to who sent (`oport`). `mixed` remembers, until the file is
opened anew, that the length, the packet size or a block of another transfer was
taken: the code does not notice, and what it then delivers is not the file. A stray
that is ignored, or that ends the transfer, excuses nothing. Not modelled: the client's refusal (`NOAK`) of options it
did not ask for or of a packet size over the one it asked for.

### NetConfig

`NetConfig.tla` is the rest of `netboot/main.c`. `bootp` numbers a transaction;
`SendFirst` is the head of the outer loop (discoveries), `SendAgain` that of the
inner one (requests), `await` the wait, `TakeReply` what `await_reply` and
`decode_rfc1533` make of a packet with this number, `Decide` what `bootp` makes of
it. A reply with an extension file leads through `Transmit`, `ArpAnswered` and
`TftpTakes` back to `Decide`. `ifconfig(a)` is also `tftpserver`; its options are
stored one by one, and those before one that is refused stay. `Transmit` for the
file system is where a configuration is used. An address is network, subnet and
host.

What bootp and the servers have sent stays in `wire`, where anything can be
taken again, or never: the network loses, repeats, delays and reorders. A DHCP
server keeps one address, offers it, binds it to who asks, may withdraw an offer
but not a binding. `oack`, `cookie` and `fits` are what the client distinguishes
in an extension file. Left out, because no state depends on it: checksums, vendor
tags, the name of the configuration file, the length of waits, and the answers
to ARP requests of others (which stage2 gives for an address as soon as it was
offered).

What the code does here that a reader may not expect, and the model shows:

- When the inner loop is through, the outer loop goes on with the *request* in
  its packet and takes anything but an offer for the reply of a BOOTP server, a
  refusal too: the network is then ready with address 0.0.0.0 (`main.c:613`,
  `RefusalTaken`).
- `dhcp_reply` is not reset before the outer loop: an "offer" of an earlier call
  makes a reply without a type look like one, and a BOOTP server is then asked
  again as if it spoke DHCP.
- The gateway of an extension file is put beside the hardware address of the one
  before it (`main.c:1037`).
- `rarp` leaves the netmask and the gateway of an earlier configuration; a refused
  `ifconfig` leaves a part of it in force and `network_ready` as it was.
- In the transfer of an extension file Ctrl-C counts as a timeout, and a lost
  first block after an OACK is asked for again with an acknowledgement to the port
  for requests, so that the transfer can only run out.

### SerialRoms, PciProbes, IsaProbes, NicProbe

`NicProbe.tla` is `eth_probe` (`config.c`) with its two tables: `eth_pci_init`
finds the first PCI function with ports that a linked driver is listed for, then
the rows are tried, first those of that function, then every driver. `PciProbes`
has `pcibios_init` and `scan_bus` of `pci.c`, and with `IsaProbes` the probe of
each driver, as a function of the card: it takes it, refuses it or waits. Where a
driver reads an EEPROM or a transceiver by moving single lines, `SerialRoms` is
the chip, and the driver is the sequence of levels it puts on them. The chips are
external: they are what the programs of most drivers take them for.

`ProbesCards` names what it excuses: otulip stands before tulip for a 21040 it
cannot read; the drivers of the 3c90x, 3c595 and Rhine wait without limit for a card
whose ports do not answer; the one of the RTL8139 takes port 0 when no PCI card was
found, which hides every ISA card; a counter of the EtherExpress that wraps makes
one call fail. Outside of the property: davicom takes a line that nobody drives for
a link, w89c840 hears the registers of its transceiver one bit late, tulip's test
for an EEPROM of eight address bits never holds and it refuses the DM9009,
`eth_pci_init` keeps the port of an earlier scan, and nepci, without a PCI card,
goes on to look at the ports of ISA cards.

### FileIO, the file systems, Readers

`grub_open` and `grub_read` (`disk_io.c`) with the file systems they dispatch
to. `FileIO` has what all share: a volume, `filepos`, `filemax`, `errnum`, the
call that runs (`call`), and `devread`, which may fail, and what the dir
functions do: components, links, `ERR_SYMLINK_LOOP`. Each format is a module, and
a turn of one of its loops is an action:

| Module | Source | Kept between calls (`cache`) |
|---|---|---|
| `BlockMaps` | `fsys_ext2fs.c`, `fsys_minix.c` | `mapblock1`, `mapblock2` and the tables read |
| `FatFs` | `fsys_fat.c` | `current_cluster(_num)`, `cached_fat` |
| `Extents` | `fsys_iso9660.c`, `fsys_jfs.c`, `fsys_xfs.c`, block lists of `disk_io.c` | the extent walked to, the place in a list |
| `NtfsFs` | `fsys_ntfs.c` | `save_pos`, `sbuf`, the current run |
| `PxeFs` | `fsys_pxe.c` | `saved_pos`, `cur_ofs`, `read_ofs`, `PXE_BUF`, the firmware's position |
| `ReiserFs` | `fsys_reiserfs.c` | node slots, `blocks`, `next_key_nr`, the item |

A volume is a record of what its format puts on the disk: FAT chains, tables of
block numbers, runs, a tree with a journal. A byte is its block and its place in
it, so that a byte of another block shows, and a block that no file has is read
as itself. `contents` is what the volume means: the bytes of the file at each
path.

`FileReader.tla` is what a command is promised, whatever the format: a file that
is there is opened, another refused; a read delivers the bytes from the position
on, as many as asked for and left. Only a disk read that failed during the call
excuses anything else.

Two places of the code go wrong on sound volumes, and are excused when they are met
and not before. `fat_read` takes the entry of the FAT just below its window for one
inside it: the position wraps, is shifted right without sign, and a word 2 GB further on is
read for the link (`fsys_fat.c:265-277`). `WindowEntries` is any value there, and
`cache.astray` remembers it until a file is opened. And the dir functions of jfs and
xfs do not notice that an inode or the text of a link was not read, and go on with
what is in its place (`StaleInode`, `StaleLink`; `call.stale`).
The root directory of FAT12 and FAT16, which has no cluster, is `FatRootEntry`.

Where the code is wrong about a format, its volume is *excused* from the
promise, and has to return from every call all the same: sparse files of ext2
and minix (a zero pointer to a table is read as block 0), further pages of jfs
extents, NTFS clusters of several sectors (`save_pos`) and partitions below 4 GB
with adjacent runs, and damaged volumes (a chain that ends early, a node of the
wrong level).

### Gunzip

`gunzip_test_header`, `gunzip_read` and `inflate_window` of `gunzip.c`, over a
compressed file that is a sequence of *cells*: block headers, literals, copies,
ends of blocks. `inflate_stored`, `inflate_codes` and `inflate_codes_in_window`
take cells until the window is full and remember where they were. `get_byte` ignores
a `grub_read` that failed (`gunzip.c:491-500`). The bits that follow are those of an
old buffer and decode to anything, up to the end of the window, and the next read
that gets to the disk sets `errnum` to 0, so that the call, or a later one, may deliver this
window without an error (`RefillFails`, `GarbledWindow`). It is excused (`inf.spoilt`)
until the decompression starts anew, and must then be right again. It is a second
implementation of `FileReader`.

### Link, NicDrivers, Nic

`NicDrivers.tla` says of 21 drivers of `netboot/` which steps their reset, poll
and transmit take, in the order of the code: copy a frame, give the slot back,
move on, start the receiver; write a buffer, hand over the descriptor, wait. A
step is what the card could see between two others. `Nic`, receiving, runs them for
`eth_poll`, `eth_transmit` and `eth_disable` beside a card that stores frames at
any moment, runs out of room, stops for it where its kind does, and damages
frames; sending, beside one that reads a descriptor, then the head and the
body of a frame, sends it, gives it up or dies. The cards are external: they do
what the drivers, register by register, count on.

`Link.tla` is what `await_reply` and the callers of `eth_transmit` suppose: what
comes out was put in, whole, once and in order; frames may be lost. What a
driver does not promise is *excused* there, by name: four drivers look at no
receive error; eepro100 gives its only buffer back before it copies; epic100
sets up its rings while the card fills them; epic100, otulip and ns8390 do not
stop the card in `eth_disable`, which then writes to memory of the system
booted; via-rhine, otulip, depca, sk_g16 and ns8390 write the next frame without
waiting for the last (although `ns8390.c:312` says its transmit does wait);
3c90x sends again what it did not see go out; sk_g16 and its card disagree about
the descriptor after a reset; epic100, which finds its descriptor still in use,
frees both and sends the card back to the first, also while it reads the second,
so that frames go out in another order (`epic100.c:303`); smc9000 leaves the receiver off after a failed
transmit.

### BootImage, Kernels, Loading

`Kernels.tla` is `load_image` (`boot.c`) as a function of the kernel file, the
memory it finds and the read at which the drive fails: the recognition, the
segments of ELF, a.out and Multiboot files, their symbol tables, and the two
parts of Linux with the command line. Memory is a set of regions; a region that
is written over, in part or whole, is gone. `Loading.tla` is `kernel`, `module`,
`initrd`, `chainloader`, `boot` and `root` with what is remembered between them
(`cur_addr`, `mb_cmdline`, `mbi`, the header inside the kernel, `mem=`, the
`chainloader_` options), and `Loaded` is what memory then really holds at those
places.

`BootImage.tla` is what these commands promise: `boot` hands over what the last
commands that were done have loaded, whole, with its command line, its modules
in order, its initial disk, and starts a chainloaded file where the options or
the file say; a command that fails leaves what was there, or nothing. Not
promised, being what the code does: an ELF file that is cut short is taken for
whole (`boot.c:660`); the errors of memory too tight for the real-mode part, and
of reading a real-mode part over 8 KB, are forgotten when the text is read; an
initial disk is placed without a look at what is there (`boot.c:838`), so that
one without room destroys the kernel, and one that fails destroys the one
before; a `chainloader` that fails on an option leaves the former file with the
new options; `--raw` holds for every later command; a CD-ROM whose partition
table gives no geometry ends without error and without anything to boot; and a
failed `boot` fixes the drive.

### MC modules and proofs

`MCBoot`, `MCInstaller`, `MCMenu`, `MCTrackCache`, `MCTftp`, `MCNetwork` and
`MCReaders` hold the values TLC instantiates the specifications with (those of
loading and of probing are in `MCBoot`). `InstallerProofs`, `MenuProofs`,
`TrackCacheProofs`, `TftpProofs`, `DriveMapProofs`, `NicProofs`, `ReadersProofs`
and `NetConfigProofs` hold the theorems. A run with several questions has a variable that says which part a
behaviour is about. In the code, too, the parts share no state that the properties of
the other depend on; but for the ports of `main.c` and `fsys_tftp.c`, which is what the
strays of `Tftp` are for.

## The runs

| Run | Question | Instance | Result |
|---|---|---|---|
| `installer_shared` | Can everything left be removed, whatever is interrupted or interleaved? | two distributions on CD, all four Windows families, power failure before any statement, deletions of `menu.lst` and of the uninstaller put off, `bcdedit /delete` fails; 2 installations, 2 restarts | holds |
| `installer_alone` | Does a finished installation boot, does the user's config.sys survive, is the machine clean in the end? | one distribution, three media, four Windows families, downloads, copies and bcdedit fail, deletions of `config.sys`, the initrd, the marker and the uninstaller put off, power failure before any statement; 2 installations, 2 restarts | holds |
| `installer_kernel` | Does a finished installation have its kernel? | one installation from the net, a download may fail | violated (finding 1) |
| `installer_vista` | Is Windows' own boot entry left alone? | two installations, nothing fails | violated (finding 2) |
| `menu_cursor` | Is the cursor always on an entry, or a line? | 11 entries, a screen of 3 lines and a dumb terminal of 2, with fallbacks and without, edited entries up to 4 lines | holds |
| `menu_boot` | Does `savedefault` save what is tried next, do fallbacks end, is a working system reached? | 3 entries with every outcome, 48 configurations | holds |
| | Does boot hand over what the last commands loaded? | 16 kernel, 5 module and 15 chainloader commands, three of them in any order, each read failing or not, boot at any time, one change of the root; 640 KB and 3 MB of memory | holds |
| | Do frames come through 21 network card drivers, and does the card keep going? | 2 slots a side, 3 frames come in, 4 are sent (5 by epic100), damaged, failed, overrun; the card acts between any two steps | holds |
| | Is the network card that is settled on there, with its own address? | 30 drivers; each PCI card alone, with odd EEPROMs, transceivers, ports, slots and BIOSes, 29 ISA cards; all drivers linked in, some, or one; two calls | holds |
| `menu_full` | Does the validation of a full fallback list end? | 3 places, the last number names no entry | violated (finding 3) |
| `track_cache` | Does the layer answer as one without a cache? | 2 drives, 2 disks, a buffer of 3 sectors, reads of 1 to 5 sectors | holds |
| | Does every drive number show the disk it was given? | a floppy, a hard disk, a number without one; memory of 11 sectors in two regions; 3 of 21 `map` commands with every request by CHS and LBA | holds |
| `tftp` | Is what is delivered the file, and do calls return? | files of 2 and 5 bytes, a buffer of 4, block numbers modulo 4, two strays beside servers that grant no packet size | holds |
| | Is an address in use one that a server gave, are hardware addresses those of their owners, do all commands end? | nine networks of one or two servers (DHCP, BOOTP, RARP; five extension files), a router and a gateway, up to four commands; 2 retries | holds |
| `tftp_seek` | The same after a seek forwards | a file of 7 bytes, seek to the sixth | violated (finding 4) |
| `readers` | Are the bytes delivered those of the file, for every format, and of an unpacked file? Do all calls return? | 20 volumes of ten formats, 9 of them excused; 6 compressed files; one disk failure in a call | holds |
| | Do the commands on partitions find, tell and change the right one? | 3 disks (a chain of four tables, BSD letters, damaged tables), 2 of 50 commands | holds |
| `readers_lost` | Does `errnum` tell of a failed disk read? | the same volumes | violated (finding 5) |

### What the properties say

- `Traceless`: if there is a trace of a distribution on the machine (a loader
  file it wrote, its entry in boot.ini or in the boot manager, its registry key, its
  directory, its marker), its uninstaller is in the Startup folder and will still be
  after a restart. Excused is who was installed again before the restart that deletes
  its old uninstaller (`Hasty`): that restart takes the new one of the same name.
  `Undoable` is the inductive strengthening of it. `ImplementsUndoLog` says the same
  of whole behaviours.
- `FinishedBoots`: at the last statement of an installation, the chain from the
  boot manager through `grldr` and `menu.lst` to the marker and the initrd is
  complete, and no part of it is due for deletion. Excused are the mishaps the
  section does not notice (`Unnoticed`): another program beside it, deletions put off
  before it began, a "URL Parts Error", a failing `bcdedit /set` or `/displayorder`, a
  power failure that left an incomplete entry to the registry.
  `EventuallyClean`: in the end nothing is left of any installation, the uninstaller
  included, but for those installed in haste.
  `UserConfigKept`: the user's `config.sys` is in place or in its backup, but for what
  `ConfigEndangered` names.
- `CursorInMenu`, `CursorInEdit`: the sum of the two cursor variables names an
  entry, or a line, and the cursor is in the box.
- `SavesWhatComesNext`: while an entry runs with nobody at the keyboard, the number that
  `savedefault fallback` would save is the next one `run_menu` tries. Excused are a
  default that is on the list (`run_menu` starts with the first fallback all the same,
  `savedefault` with the one behind the default) and a list that is full. `FallbacksDistinct`: no
  number is twice in the part of the list in use. `BootingEnds`: a run of
  fallbacks ends in a system or a question. `EnsuresStarted`: with the manual's
  `default saved`, `fallback 1 2`, `savedefault fallback`, an entry that works
  is reached through errors, crashes and resets with nobody at the keyboard.
- `ImplementsBootImage`: what memory holds at the places that the loader
  remembers is what `BootImage` says was loaded, after every command, and is
  what `boot` hands over.
- `ImplementsLink`: what a driver delivers, and what its card sends, are the
  frames put in, whole, undamaged, once and in order. `KeepsReceiving`: the card
  comes back again and again to where a frame can be received, with card and
  driver at the same slot. `TransmitReturns`: `eth_transmit` returns, from a dead
  card too where the driver has a limit.
- `ProbesCards`: above.
- `CacheCoherent`: while a command runs, a cache that names a drive has this
  drive's geometry, and the track it holds is on the disk. `ImplementsDisk`:
  `TrackCache` refines `Disk`. `EveryCallReturns`: `rawread`'s loop ends.
- `ImplementsDriveTable`: every sequence of `map`, `--hook`, `--unhook` and
  writes does to the drives what `DriveTable` promises. `ServesShown`: any
  request to any number, at any time, is served from the disk the number shows.
  `MemoryReserved`: the copies in memory do not overlap, and while the handler is
  installed the E820 map it shows keeps them from any system.
- `ImplementsPartitionTable`: a command on partitions answers, opens and writes
  what the numbering says, or a disk read failed.
- `BufferIsFile`: the buffer is the piece of the file its position names, so no
  packet is lost, repeated or out of turn, and none of an earlier transfer of a file
  gets in; where a stray was taken (`mixed`), nothing is said. `ReadIsFile`: so are the bytes
  delivered. `SizeIsTrue`: an open file has its true length, told or counted.
  `LockStep`: the server is at the client's block or one ahead.
  `EveryCallEnds`: open, read and close come back, and every command on the
  network comes to its end, whoever is silent.
- `AddressIsLeased`: a network that bootp made ready has the address that a DHCP
  server has bound, or a BOOTP server keeps, with the netmask, file server and
  gateway of the same reply or of its extension file. `ArpTrue`: a hardware
  address is that of the owner of the address beside it, or none.
- `ImplementsReader`: the readers refine `FileReader` through `call`, `filepos`
  and `volume.contents`; `ImplementsZipped`: so does `gunzip_read`, against the
  text that the cells mean. `KeptTrue`: whatever is kept from one call to the
  next is true of the open file, also after a failed read (the cluster and its
  number agree, the kept tables and nodes are those their numbers name, the
  buffered bytes are the file's at their position), and what a read brought while
  the disk did not fail are the bytes of the file before the position (`BytesTrue`),
  of all formats but reiserfs as many as there are and were wanted. What is kept is
  wrong many steps before a wrong byte is delivered. `EveryWalkEnds`: no chain of links, no loop
  over a damaged file, no chain of partition tables and no window of gunzip goes on
  forever.

### Bounds, and why they are enough

- *Installer.* Two distributions are the least that share files, and two
  installations and two restarts let one be interrupted, repeated and removed
  while the other is under way at any statement. That this is no limit is
  proved for the safety properties. What fails is split between the two runs: the
  first has the failures that leave something behind (two of the files whose deletion
  may be put off, one shared and the uninstaller; `bcdedit /delete`), the second those
  that an installation has to notice, and deletions put off of what it needs (of the three
  calls of bcdedit whose results are ignored, one fails there; all may in the proofs). Neither
  run leaves out a statement for the power to fail at. On
  the fourth Windows family (any the script does not list) the installer writes
  `grldr.mbr`, reports the version and quits, and the uninstaller does what it does
  on Windows 9x.
- *Menu.* Eleven entries are the least with numbers of two digits, a screen of
  three lines scrolls; a second configuration has fallbacks and a hidden menu. An
  edited entry of four lines is the least in which a dumb terminal of two scrolls
  and then loses lines: its cursor is then past the last line, in
  spite of the comment "invariant for TERM_DUMB: first_entry == 0"
  (`stage2.c:304-305`). `strayed` remembers that this happened, and `CursorInEdit`
  excuses it. The proofs cover every size.
  Three entries are the least with a chain of two fallbacks; every assignment of
  outcomes to them is an initial state. `MaxFallback` is 3 for the code's 8.
- *Network cards.* A ring of two slots fills, wraps and overruns with three frames;
  rings of the drivers have 2 to 32. Four frames to send use each of two
  descriptors twice, so that a descriptor still in use is met; a fifth is for
  epic100 (`FifthFrame`), whose frames only then go out in another order. That they
  may was found by the proof, which covers every number. One repetition
  stands for the 3c90x's retries.
- *Probing.* Every kind of card of the tables is there alone, and once with a
  second card. Two calls of `eth_probe` are what a counter that wraps, or ports that
  a first call enabled, need.
- *Network.* Two servers are the least that can be confused. The first network has
  two DHCP servers, one on another net; the second a BOOTP server beside one;
  the third takes `ifconfig` and `rarp` in any order with use between them; the
  others have an extension file of one or two blocks, with and without an OACK,
  refused, without cookie, too long. Two rounds of each loop are the least with a
  request sent in the outer one. `ArpTrue` and `AddressIsLeased` are proved for
  every network and number.
- *Loading.* Addresses are in units of 256 bytes, the least in which every
  constant of the code can be told apart. Three commands let a module or initial
  disk follow a kernel and another follow that; a command of the other way of
  booting (a chainloader after a kernel) is only tried as the last, since it
  shares nothing but `kernel_type`. Kernel files are one for each way through
  `load_image`; the memory is just too small for some. `MB_CMDLINE_BUFLEN` holds
  two command lines, not three.
- *TrackCache.* The disks have 5 and 4 sectors with tracks of 4 and 2; the
  buffer of 3 sectors cuts the first one's tracks, which then do not divide its
  size. Reads may begin anywhere, cross two tracks and run past the end. The
  proof covers every size.
- *DriveMap.* `DRIVE_MAP_SIZE` is 2 for the code's 8, so that the table fills;
  three commands let a map be made of a map of a map, deleted while hooked, or
  copied. The commands are a list of 21 for the combinations that the code tells
  apart (piece or whole, table or file system, even or odd, each option).
- *Partitions.* Three disks: four primary entries with a chain of four tables
  that has empty entries, filled entries and one link more than it should; BSD
  slices in both places; tables without signature. Two commands show what a
  first leaves for the second. A chain that leads back to itself is left out:
  `next_partition` walks it forever.
- *Tftp.* A buffer of four bytes holds four default or two large packets, and
  the read of five bytes needs it filled twice. File `b` has more blocks than
  there are block numbers modulo 4. Two datagrams each way may pass each other.
  One resending on each side (for `MAX_TFTP_RETRIES`, and for the backoff up to
  `TFTP_TIMEOUT`) lets the first answer race a second request. Two opens or
  seeks let a transfer be given up and its datagrams arrive in the next one. Strays
  are those of an extension file of two blocks (`SomeStrays`): a first or second block, or
  an error, on the first port, or a block on the next one. They come only beside servers
  without large packets, to keep the run small; a foreign OACK is in the model and
  covered by the proofs, but not in the run.
- *Readers.* Blocks of 2 bytes, tables of 2 addresses and one direct block reach
  the triple indirect tables of ext2 with eleven blocks; the FAT window of 4
  bytes is crossed by chains in both directions, in one file through the entry just below
  it (no directory's chain goes there: the word read could close it to a ring, which
  `fat_dir` would follow for ever); pages of two extents, a PXE
  buffer of 5 bytes with packets of 2, a tree of four levels with slots for two
  of them, and a journal that wraps reach each branch of the code. Reads are of 3
  bytes (less than two blocks) or up to the end, from any position, and the
  position is set once between two reads. The disk fails at most once in a call
  (`MayLose`); that this hides the endless retry of jfs's `first_extent` on a dead disk is a limit of the
  bound. `MAX_LINK_COUNT` is 2 for the code's 5.
- *Gunzip.* A window of 4 bytes and an input buffer of 3: copies overlap
  themselves and cross windows, the input is refilled within a block. What is decoded
  after a failed refill fills the window; that garbage may also decode without ever
  producing a byte is left out.

### Fairness

- *Installer*: a program that was started goes on (weak fairness of each
  distribution's statements), and Windows starts the uninstallers that are in
  the Startup folder, as it does at logon. No installation has to be started,
  nothing has to succeed.
- *Menu*: GRUB's own code goes on, seconds pass, and a system that crashed has
  its machine reset. No key is ever assumed to be pressed.
- *Network cards*: a driver's call goes on, `eth_poll` is called again and again
  (as `await_reply` does until its time is over), and a card that is alive goes on
  with a frame it began. The receiver of the NI5010 starts only when a frame was
  sent; what `await_reply` waits for is asked again by its callers, hence strong
  fairness of a transmit there.
- *TrackCache*: a call goes on, being the machine's own work. Commands, calls
  and exchanges need not happen.
- *Readers*, *Gunzip*, *Partitions*: a call or command goes on. No command, seek or read has to be made.
- *Network*: the machine goes on. A wait ends, because `await_reply` looks at its
  clock whenever `eth_poll` has nothing, and frames do not come faster than it takes
  them. No answer is assumed.
- *Tftp*: the client goes on, and `await_reply` comes back at the latest with
  its timeout. Nothing is assumed of the network or the server.

Deadlock is checked in the runs of `Menu`, the network cards, `TrackCache` and `Readers` (where the
commands on partitions allowed are used up, the user may rest). It is not where a
behaviour really stops: when the installations and restarts allowed are used up
and the machine is clean, and when the boot loader has made the TFTP calls
or network commands allowed.

## The proofs

Every theorem is proved for all constants that satisfy the module's named
assumption (`InstallerAssumption`, `MenuAssumption`, `DisksAssumption`,
`TftpAssumption`, `DriveMapAssumption`, `RxAssumption`, `TxAssumption`; `NamesAssumption`,
`ArgumentsAssumption` and `SitesAssumption` of `NetConfig`; `VolumesAssumption` and
those of the formats for `Readers`); TLC
evaluates these in every run. They state types (a medium is one of three, a
screen has at least two lines, a disk at least one sector, the regions of memory
are in order, what a volume holds is a volume of its format), and nothing about sizes.
Three theorems have a condition besides, named in the statement: two `RewindsOnly`, without
which the code does not do what they say, and one that the user had a `config.sys`.

| Theorem | States | Argument |
|---|---|---|
| `InstallerProofs!TypeCorrect` | `Spec => []TypeOK` | one step for each statement |
| `InstallerProofs!StaysUndoable`, `TracesCanBeRemoved` | `[]Undoable`, `[]Traceless` | `Undoable` is inductive |
| `InstallerProofs!UserConfigSurvives` | `Spec => []UserConfigKept`, if `ConfigAtStart = {User}` | `KeptInv` below is inductive beside `Undoable` |
| `InstallerProofs!FinishedInstallationsBoot` | `Spec => FinishedBoots` | `ChainInv` below is inductive beside `Undoable` |
| `InstallerProofs!InstallerImplementsUndoLog` | `Spec => ImplementsUndoLog` | each statement arms, touches, cleans, disarms, or stutters |
| `MenuProofs!TypeCorrect`, `CursorStaysInMenu` | `[]TypeOK`, `[]CursorInMenu` | `Inv` below is inductive |
| `MenuProofs!CursorStaysOnLine` | `[]CursorInEdit` | what each editing key does to cursor, first line and box |
| `MenuProofs!SavedIsTriedNext` | `[]SavesWhatComesNext` | `PlacedInv` below is inductive beside `Inv` |
| `MenuProofs!NoFallbackTwice` | `[]FallbacksDistinct` | each step of the validation leaves the places before its own distinct |
| `TrackCacheProofs!TypeCorrect`, `CacheIsCoherent` | `[]TypeOK`, `[]CacheCoherent` | `Inv` below is inductive |
| `TrackCacheProofs!CacheImplementsDisk` | `Spec => ImplementsDisk` | a call's last action is `Disk`'s answer, every other stutters |
| `TftpProofs!ServerInStep` | `Spec => []LockStep` | `Frame`, and `LinkInv` unless `mixed`, are inductive |
| `TftpProofs!SizeStaysTrue`, `BufferStaysFile` | `[]SizeIsTrue`, `[]BufferIsFile` | and `FileInv` unless `mixed` |
| `TftpProofs!TypeCorrect`, `ReadsAreFile` | `[]TypeOK`, `[]ReadIsFile`, if `RewindsOnly` | and `PlaceInv` |
| `DriveMapProofs!MemoryStaysReserved` | `MapSpec => []MemoryReserved` | `MapInv` below is inductive |
| `DriveMapProofs!HandlerServes` | `MapSpec => []ServesShown`, and for requests of any place and length | `MapInv`, and one lemma for each kind of slot |
| `DriveMapProofs!MapImplementsTable` | `MapSpec => ImplementsDriveTable` | `TableInv` below is inductive; one lemma for each way of a `map` command |
| `NicProofs!ReceiverImplementsLink` | `RxSpec => Rx!LinkSpec`, the receiving half of `ImplementsLink` | `RxInv` below is inductive; one lemma for each call, and for each kind of program |
| `NicProofs!TransmitterImplementsLink` | `TxSpec => Tx!LinkSpec`, the sending half | `TxInv` below is inductive; one lemma for each step of the card, and for each kind of step of a driver |
| `NicProofs!NicImplementsLink` | `RxSpec /\ TxSpec => ImplementsLink` | the two |
| `ReadersProofs!ReadersTypeOK` | `Spec => []TypeOK` | `Inv` below is inductive |
| `ReadersProofs!ReadersRead` | `Spec => []ReadInv` | the bytes brought so far, inductive beside `Inv`; one lemma for each turn of each format's loops |
| `ReadersProofs!ReadersKeptTrue` | `Spec => []KeptTrue` | from `Inv` and `ReadInv` |
| `NetConfigProofs!NcTypesHold`, `ArpStaysTrue`, `AddressStaysLeased` | `NcSpec => []NcTypeOK`, `[]ArpTrue`, `[]AddressIsLeased` | `IInv` below is inductive |

**Installer.** `Traceless` alone is not inductive: that an uninstaller has
nothing left to remove when it deletes itself depends on where it is. `Undoable`
adds that a program past its first statement is armed, and by an uninstaller that no
restart deletes unless it was installed in haste (`Armed`), that it is on the branch
of its Windows family (`OnBranch`), that only that branch leaves loader files
(`FromBranch`, for the uninstaller removes only the files of the branch it is
on), that an entry of the boot manager is named by the registry, or about to be, or
its identifier was lost (`Named`), and what an uninstaller at each position has
removed (`Removed`). A file that waits for its deletion at restart counts as removed;
another distribution's installer may write it in between and is then its owner. For
the refinement the traces of a step are compared with those after it: a statement
changes only its own distribution's traces, or covers another's.

That the user's `config.sys` survives is the invariant
`KeptInv == ~ConfigEndangered => SafeInv`. What endangers it is named one by one:
a Windows the uninstaller takes for 9x; and on 9x a second distribution, whose
uninstaller takes the restored file for its own; a program started before a restart
that is due, since a `config.sys` whose deletion waits is lost when the backup comes
back before; and a power failure `AtRisk`, between `WriteUninstaller` and the backup
or between the restoring and the uninstaller's last statement. `SafeInv` says that
the file is in place, or in the backup with an installer's file before it, and for
each statement which of the two; a mishap once noted stays, so that the steps that
break `SafeInv` make the left side false for good.

That a finished installation boots is `ChainInv`: for every distribution to which
nothing `Unnoticed` has happened, `Chain`. No other program runs beside it (`Alone`)
and nothing it needs is due for deletion (`Clear`); the files are there in the order
they are written (`Extracted`), an entry is whole whenever its identifier is in the
registry, but for the statements that complete it, and there it has what the
calls before gave it (`Listed`), and there is no kernel without an initrd
(`Stocked`), which is what lets the section skip both where one is found. It is
proved for any number of distributions: one that ran by itself may have others'
files before it, and overwrites them.

**Menu.** The cursor is moved to numbers that come from elsewhere: the default
file, the fallback list, a number typed. `Inv` therefore adds that the numbers
of the list that may be used are entries (`FallbacksAreEntries`, which needs
that the place of the list the validation stopped at ends the list), that a
saved number is never negative unless every line of an edited entry was deleted
(`NeverNegative`), that the cursor of the menu is on an entry also while
something runs or an entry is edited (`CursorOnEntry`), and that the cursor is
in the box (`InBox`). For a list without a number twice, the copying of the list
over a bad place is compared with the list before; the proof needs that the
list has a free place, for the full one is never validated (finding 3).
That `savedefault` and `run_menu` agree is `PlacedInv`: as long as the clock runs,
the entry at the cursor is the default with no fallback used, or the number before
`run_menu`'s place in the list; so then is the entry that runs with nobody at the
keyboard. A key that moves the cursor elsewhere has stopped the clock. That looking
this number up in the list leads to that place, and not to an earlier one, is
`FoundInPlace`, from `FallbacksDistinct`.

**TrackCache.** For coherence, `CallUnderway` says what a read has delivered so
far is the first part of what it was asked for, and that its drive is the
cache's from the first sector on. The arithmetic is in three lemmas:
`TrackStart` (`sector - sector % p` is the start of a track), `OneTrack` (every
sector of a track is found to be of that track), `Joined` (pieces of a disk in a row are
a piece of it). For the refinement, `Disk!Idle` and `Disk!asked` are the same
variables: an answer given is `Contents`, which `CallUnderway` yields when
`sector` has passed the end.

**Tftp.** Four layers, each inductive with those before. `Frame` says that whatever
this file's server sends or gets is of the port in use, and holds always; the next two
until a stray is taken (`mixed`), and again from the next opening on, which forgets
all that was on its way. A stray that is taken without `mixed` changed neither length,
packet size nor block count, so it was ignored, or ended the transfer.
`LinkInv` says of every datagram of this transfer, however late, where it comes from: a request names a file,
an acknowledgement from the client's port is for a block that the server of that
port has sent, a packet carries the bytes of its own number's block, and only the
server of the transfer under way may be ahead, by one. A new transfer takes a port
that no datagram of an earlier opening of a file has. `FileInv` follows from it: the length told or counted is
the file's, the buffer is the piece of the file that `saved_filepos` names, and
a packet that is accepted is the next piece, also when the numbers wrap.
`PlaceInv` says that `filepos` is in the buffer or at the beginning. This
is where `RewindsOnly` (no caller sets the position but to the beginning)
is needed; without it bytes from behind the buffer are delivered (finding 4).

**DriveMap.** `MapInv` says that every slot of the table and of the handler's copy
is inside what it is made of: a disk of the BIOS, or one region of memory. A map of a
map stays inside since its piece is cut to the drive seen (`ResolvedFits`), a copy
in memory since its base is rounded down to a page within the region
(`BaseInRegion`), and deletions since they only close up the table (`Shrinks`). What
`hook` reserves then covers every copy. For `ServesShown`, the first slot of a
number answers both in the handler and in the promise; a slot for a whole disk and one for a piece
have a lemma each.
That every step is one of `DriveTable` rests on `TableInv`, which adds that no number
has two slots (`Distinct`): a new slot takes the place of its number's (`GivesSlot`),
a deletion keeps each slot that stays once and loses none (`Closes`), so that every
number that did not go shows the disk it showed. A map of a drive that is mapped is
then compared with what that drive shows: the sectors of the piece (`PieceSectors`,
`WholeSectors`), and the limits joined with the options (`ResolvedLimits`,
`NewObeys`). For a copy, the room that is found is in no disk of the table
(`RoomIsFree`: regions do not meet, and in its own the room ends below every disk),
it is large enough (`NeededIs`), and the copying changes nothing else and is true
unless it overwrites its own source (`Transferred`).

**Network cards, receiving.** The programs of the 21 drivers have few shapes: a reset,
a ring that is drained, a poll that copies, gives back, moves on and takes, a poll
that drops. `RxInv` says for each shape, and what of it is left, what card and driver
agree on. A frame in a slot is newer than all that were delivered, and known to be
damaged if it is (`TrueSlots`); the driver's slot holds the older frame and the card
goes on behind the newer one (`InStep`), but during a reset, whose order (stop, empty
the slots, go back to the first) brings them together again; a frame that is copied is
older than those still stored (`Copied`). A frame may come at any point: `ArrivalKeeps`
says that each part of the invariant survives it. eepro100 and ni5010, which give their only
slot back before they copy from it, have an invariant of their own: the first is
excused when a frame comes then, the second has stopped the receiver.
After `eth_disable` the receiver is off, but for those that never stop it (`WhileClosed`).

**Network cards, sending.** What goes out is one frame, and newer than all before it,
if the buffer the card reads is not changed meanwhile and the card goes from the
older frame to the newer. `TxInv` says of a program what may be left of it (`Fits`):
nothing is written after the hand-over, and whoever waits does so after it. With that,
a descriptor that is the card's has a whole buffer (`TrueBuffers`), and the card has
read of that buffer only (`TrueSending`). That a buffer is not written while it is
read is argued in two ways. With one buffer (`OneBuffer`) nothing is the card's when a
call begins, unless an earlier one gave up waiting: the driver is then excused when it
writes, as are the drivers that never wait. With two (`Ring`), what the card has is the
buffer that was written last, or both, and then it is at the older. 3c90x writes only
the head again, so it matters that the body is of the same frame. The proof is from
any number of attempts but needs one (`TxAssumption`), as the retries of the drivers
are.

**Readers.** The proof is about any volumes: of any size, number of nodes, blocks to a
run, addresses to a table, height of a tree. `VolumesAssumption` says what a volume of a
format is: its nodes are files, directories and links with as many blocks as their size
needs (`NodesTyped`), its runs follow each other and make up the node (`RunsTyped`), a
block list has a run, for `grub_open` refuses one without, and no run that is a hole
(`ListTyped`), and the blocks of an ISO file are consecutive (`IsoTyped`). Of the
volumes that are not excused, a FAT links the blocks of every node and they are
clusters (`FatTyped`); the tables of ext2 and minix lead to the node's blocks, an ext2
pointer that is a hole being followed as block 0, as the code does (`MapsTyped`); jfs
and xfs files have no holes and a jfs file has its extents in the inode (`XadsTyped`);
a tree has children of the level below (`TreeSound`) and its items the bytes of their
file (`ItemsTrue`). `Inv` has a part for every format, since
each uses the same bytes of `FSYS_BUF` for something else, and two that all share: `Call`
(which steps a call of the format takes, and that it is at a node of the volume, a
directory while one is searched) and `At` (position and what is left stay in the file).
`KeptTrue` speaks of files that are open; `Inv` says what holds in the middle of a read,
so that one that fails there leaves it:

- *fat*: while the chain is followed, `current_cluster_num` is not past the block of the
  position. Each link leads to the next block of the file (`FatTyped`), through a window
  that may be read anew, by an unsigned difference (`FatLinkKeeps`); when it was read
  below the window, nothing is claimed of cluster and bytes until a file is opened
  (`astray`).
- *ext2, minix*: a table is noted after it is read, and not if the read failed; so a
  number that is noted is that of the table held, whichever read failed (`LoadTablesKeeps`).
- *lists*: the place is inside one of the runs, and a turn takes at most to the next one
  (`ListForwardKeeps`); the length of a run and the remainder of a position in a block
  are nonlinear, hence the lemmas `DivMod` to `DivAdd`.
- *ntfs*: `read_block` is in the run that has its block or at its end, and the buffered
  sector is the one of `save_pos`: a run's block is compared with the node's
  (`RunBlock`), and the last one read stays in `sbuf` (`NtfsPartKeeps`).
- *pxe*: three positions have to agree, the firmware's, that of the buffer and the
  caller's. While packets come, the firmware is `nb` packets and a part before the
  goal (`Coming`); from the last part on, `There` is the position plus what was
  delivered. Packets that go straight to the caller and those that are buffered are the
  same bytes (`PxeFilled`, `PxePacketsKeeps`, `PxePartKeeps`).
- *reiserfs*: the slots are those that `blocks` says until a node of the wrong level is
  read, which overwrites a slot and keeps its note. In a sound tree that cannot happen on
  the way down to a stat item: the node at `depth` has this level and so a child for every
  key (`TreeStepKeeps`). The invariant does not follow `next_key` down; there it is enough
  that such an error ends the call, and that `errnum` stays set until the next mount
  (`SearchFailsKeeps`).

That the bytes are the file's is a second induction beside `Inv`. `Reads` says it for
all formats at any turn of a read: with n bytes in the buffer, these are the n bytes
behind the place where the read began, and what is left is what was wanted and is
there, less n. `ReadInv` adds what a format's next turn needs to take the right block:

- *ext2, minix, iso9660, jfs, xfs*: the node is a file and `filemax` its size
  (`FilesOpen`); `file_start` is its first block (`IsoAt`). Which table or entry a block
  number is looked up in is arithmetic on the spans of the tables (`Span`).
- *lists, jfs, xfs*: the place or extent looked at does not begin behind the position
  (`ListAt`, `ExtentsAt`: it is the i-th of the file, on page p as entry x), so the run
  that has the position is still to come.
- *reiserfs*: `ReiserAt`: the search is for the file of the call. An item that it stops
  at is an item of that file, and its bytes are the file's wherever in the tree it was
  found, so nothing of the way down is needed. That no item is passed over would need
  it, and for reiserfs the number of bytes is not proved.
- *pxe*: what is left to be brought by `pxe_read_len` starts at the position (`PxeAt`).

Numbers with a least one are found by `LeastOf`, from an induction over sets of numbers
(`NatSet`) that is itself proved by the pigeonhole principle of the library.

**NetConfig.** The proof is about any number of servers, commands, retries and
blocks. An address is leased because an acknowledgement leaves a server only with
the address bound, and a binding is not taken back (`WireTrue`); because the
configuration that is judged is that of a reply on the wire whose type is the
`dhcp_reply` looked at (`ReplyHeld`; while the extension file is fetched, without
its options yet); and because the network is not ready meanwhile (`Placed`). That
the reply is one to this transaction is not needed: a late one is as good. For
`ArpTrue` it matters that a reply and `ifconfig` forget the hardware address with
the address, and that an ARP answer is put to an entry with the address asked for:
`Placed` says that there is one. Its steps are one lemma for each action; those
that leave addresses and leases alone share `WaitingStep` and `FetchingStep`.

Only model-checked:

- liveness (`EventuallyClean`, `BootingEnds`, `EnsuresStarted`, `KeepsReceiving`,
  `TransmitReturns`, `EveryCallReturns`, `EveryWalkEnds`, `EveryCallEnds`), which
  the prover cannot do under fairness;
- `ProbesCards`, which compares the code's loops over bits with a card's,
  `ImplementsPartitionTable`, whose abstract chain of tables is a recursive function
  over the disk, and `ImplementsBootImage`, where segments and symbols are placed by
  folds. What these compute for every input is an induction over data; the induction
  theorems of the library take a predicate as a parameter, which the installed provers
  cannot instantiate, and an induction over a set (`NatSet`) does not reach definitions
  by folds;
- the refinements `ImplementsReader` and `ImplementsZipped`. Of the first the larger half
  is proved: a read brings the bytes of the file that is open (`KeptTrue`), for reiserfs
  but for their number. That the walk over directories and links opens the file the path
  leads to remains;
- `MCNetwork.TypesOK`, which is `Tftp.TypeOK` and `NcTypeOK`: these are
  proved one by one, the first where nothing seeks forwards.

## Findings

Five runs end in a violation of what the code says of itself.

1. `installer_kernel`. `make_instlux.py:117-130` fetches the initrd and takes its
   result from the stack, then fetches the kernel and looks at `$0` without
   taking the new result: it still holds that of the initrd. A failed download
   of the kernel passes, although the message for it is there ("Download Error
   kernel").
2. `installer_vista`. On a second run `lbl_WinVista` finds the identifier in the
   registry and skips the block that sets `$id`; the `bcdedit /set` after it
   then names no entry and changes the one of the running Windows. The comment
   says the identifier is written down "for installer idempotency"
   (`instlux_template_en.nsi:242`).
3. `menu_full`. With all eight places of `fallback_entries` used there is no -1
   at the end. If the last number names no entry, `stage2.c:1395-1401` moves
   zero bytes over it, steps back and finds it again, forever.
4. `tftp_seek`. `tftp_read` compares the signed `amt` with the unsigned `size`
   (`fsys_tftp.c:363`). After a seek past the buffered bytes `amt` is negative,
   counts as large, and memory behind the buffer is delivered instead of the
   buffer being skipped.
5. `readers_lost`. `rawread` begins with `errnum = 0` (`disk_io.c:212`). The loops
   of `fat_read`, `ext2fs_read` and others go on after a `devread` that failed
   and return what `errnum` is in the end, so that a failure is forgotten as soon
   as a later block of the same call reads well, and wrong bytes count as read.
   The manual says a disk read error is returned (`docs/grub.texi:3443`).

## What is not modelled

- *Generated code*: terminfo tables, `autoconf.h`.
- *Within the installer*: the timeout of boot.ini is set in the model as in the script,
  but no property is about it, since nothing puts it back; the message boxes, and
  what the text of `menu.lst` says.
- *Within the network card drivers*: the choice of a medium after probing; what a
  driver makes of the ISA card of another (assumed refused); `tlan` and `fa311`
  (the build does not link them), `cs89x0` (its source is not in the repository);
  the frames of `tiara`, `i82586` and the transmit of `eepro`.
  `i82586.c` and `tiara.c` do not receive as written (the first reads its
  descriptors from the wrong place, the second leaves a long frame in the card's
  queue), and `eepro` transmits by a loop that reads a port whose reading moves
  it on: there is no card for which the model would mean anything.
- *Assembly*: Stage 1 and the start code load sectors and jump; no state
  survives.
- *Within `map`*: `--in-situ` (it writes a partition's type), `--mem` at a fixed
  address (which is not compared with the copies there are), the devices `(md)` and
  `(rd)`, CD-ROM drives, the counts of drives in the BIOS data area, and the
  parameters of a drive that has no CHS access (function 08h divides by its zero
  sectors per track, `asm.S:2349`), and memory beyond a hole above 1 MB, which
  `memcheck` lets nothing be written to.
- *Within the readers*: superblocks and mounting, the listing of directories for
  completion, resident, compressed and attribute-list data of NTFS, the hashed
  directories of jfs and xfs (a directory is searched entry by entry), the bits,
  Huffman tables and CRC of gunzip (the code computes no CRC); and `vstafs`, whose read arithmetic is
  wrong for every file of more than one extent.
- *Within the partition commands*: BSD labels of floppies, network and CD-ROM
  drives, geometry; one drive at a time.
- *Passwords and the line editor*: the menu is modelled with `auth` granted, and
  an edited line is a line.
- *Within kernel loading*: `--sdi`, `--ebx`, `--disable-a20` (`boot` leaves A20 off
  when it then refuses the sector, `builtins.c:995`), lengths to load and to skip,
  the expansion of IO.SYS, `vga=`, `setvbe`, what is asked of the BIOS for the
  multiboot information, the boot information of the BSDs, the number of modules
  (`mll` has 99 places and no check), and that a chainloaded file is copied
  through 1 to 3 MB, where a disk of `map --mem` may be. The terminal stays shut
  down after a `boot` that cannot open its file (`builtins.c:753`).
- *Byte offsets*: `devread`'s conversion of bytes to sectors is below the unit of
  `TrackCache`.
- *The GRUB shell and the utilities*: input and output on a running Unix.

## Plan

Done: `Installer` with `UndoLog`, `Menu`, `TrackCache` with `Disk`, `Tftp`, the
readers and `Gunzip` with `FileReader`, `DriveMap` with `DriveTable`, `Partitions`
with `PartitionTable`, the network card drivers with `Link` and their probing,
loading with `BootImage`, the configuration of the network, and the proofs of the
first four, of the drive map, of the cards with their drivers, of what the readers
keep and of the last, in this order because the first is what the repository is for, the second decides
what boots, and the others are what everything read passes through.

To model next, in this order:

1. `Script` and `Config`: `run_script` with `&&`, `||` and `fallback`, and the
   loop of `cmain` that collects menu and entry commands, composed with `Menu`
   (whose `health` then is a result of the script instead of a constant).
2. `Build`: the substitutions of `make_instlux.py`, as an algorithm against the
   template it means to produce; the page that chooses the architecture.
3. `Editor`: `get_cmdline`, its line and its history, at their limits.

To state: that `Tftp` implements `FileReader` too, where it does (finding 4).

To prove next: that the readers implement `FileReader`, first ntfs and pxe, whose
invariant has the bytes delivered; that `Loading` implements `BootImage`.
