------------------------------ MODULE Installer ------------------------------
(***************************************************************************)
(* The Windows side of instlux: the "Install" and "Uninstall" sections of  *)
(* src/instlux/src/instlux_template_en.nsi, as make_instlux.py builds them *)
(* for every distribution.                                                 *)
(*                                                                         *)
(* A section is a sequence of statements that each change the disk, the    *)
(* registry or the boot manager for good, so each is an action and the     *)
(* power may fail between any two (Restart).  The installers of different  *)
(* distributions share C:\grldr, C:\grldr.mbr, C:\grub.exe, C:\menu.lst,   *)
(* C:\config.sys and C:\boot.ini; the kernel directory, the marker file,   *)
(* the registry key and the uninstaller in the Startup folder are their    *)
(* own.  Every uninstaller in the Startup folder is started at logon, so   *)
(* several may run at once.                                                *)
(***************************************************************************)
EXTENDS Naturals

CONSTANTS
  Distros,       \* distributions an installer was built for (DISTRO)
  MediaKinds,    \* media the installers may be built for (make_instlux.py, media)
  Ids,           \* identifiers "bcdedit /create" may hand out
  None, User,    \* no file; a file of the user's own
  Families,      \* Windows families the machine may run
  ConfigAtStart, \* what C:\config.sys may be before the first installation
  FetchResults,  \* what inetc::get may report
  CopyMayFail,   \* may CopyFiles fail?
  BcdMayFail,    \* calls of bcdedit that may fail
  Lockable,      \* files another program may hold open when they are deleted
  CrashAt,       \* statements the power may fail before
  MaxInstalls,   \* bound: installations started
  MaxRestarts    \* bound: restarts, planned or not

Shared == {"grldr", "grldr.mbr", "grub.exe", "menu.lst", "config.sys", "config-bak.sys"}
Parts  == {"kernel", "initrd"}
Own    == Parts \cup {"hitme", "uninst"}     \* a distribution's own files
FetchReports == {"OK", "URL Parts Error", "failed"}
BcdCalls == {"create", "device", "path", "displayorder", "delete"}
BcdParts == {"device", "path", "listed"}    \* what an entry needs to be started

InstallSteps ==
  {"arm", "mbr", "exe9x", "backup", "config", "grldrNT", "timeout", "entry",
   "bcdCreate", "bcdSave", "bcdDevice", "bcdPath", "bcdList", "grldrVista", "hitme",
   "menu", "getInitrd", "getKernel", "initrd", "kernel", "present", "copyInitrd",
   "copyKernel", "finish"}
UninstallSteps ==
  {"unExe", "unConfig", "unRestore", "unGrldrNT", "unEntry", "unGrldrVista",
   "unBcd", "unReg", "unDir", "unMenu", "unMbr", "unHitme", "unSelf"}

(***************************************************************************)
(* What can happen to a distribution that the script does not see to; the  *)
(* properties name those they do not hold after.  No action looks at them. *)
(***************************************************************************)
Mishaps ==
  {"hasty",    \* installed while the deletion of its uninstaller was put off
   "early",    \* installed while the deletion of a file it needs was put off
   "again",    \* uninstalled once more before the restart that was due
   "crowd",    \* installed beside another distribution
   "beside",   \* its program ran at the same time as that of another
   "power",    \* the power failed while the uninstaller would take the user's
               \* config.sys for the installer's
   "half",     \* the power failed while the registry named an incomplete entry
   "entry",    \* an entry was left in the boot manager without its identifier
   "bcd",      \* bcdedit /set or /displayorder failed
   "url"}      \* "URL Parts Error", and no file

AtRisk == {"mbr", "exe9x", "backup", "unDir", "unMenu", "unMbr", "unHitme", "unSelf"}
Halves == {"bcdDevice", "bcdPath", "bcdList", "unReg"}

ASSUME InstallerAssumption ==
  /\ MediaKinds \subseteq {"NET", "CDROM", "LOCAL"}
  /\ None \notin Distros \cup Ids /\ User \notin Distros /\ User # None
  /\ Families \subseteq {"9x", "NT", "Vista", "other"}
  /\ ConfigAtStart \subseteq {User, None}
  /\ FetchResults \subseteq FetchReports
  /\ CopyMayFail \in BOOLEAN /\ BcdMayFail \subseteq BcdCalls
  /\ Lockable \subseteq Shared \cup Own
  /\ CrashAt \subseteq InstallSteps \cup UninstallSteps
  /\ MaxInstalls \in Nat /\ MaxRestarts \in Nat

VARIABLES
  media,     \* media[d]: the medium d's installer was built for
  family,    \* the Windows family, as GetVersion::WindowsName groups it
  uninst,    \* distributions whose uninstaller is in the Startup folder
  file,      \* file[f]: who wrote the shared file f
  hitme,     \* distributions whose C:\DISTRO_hitme.txt exists
  got,       \* got[d]: files present in C:\DISTRO
  pending,   \* shared files to be deleted at the next restart (/REBOOTOK)
  late,      \* late[d]: those of d's own
  bootini,   \* boot.ini: the timeout and who owns the C:\grldr entry
  bcd,       \* bcd[i]: boot manager entry i, whose it is and what it has
  winEntry,  \* Windows' own boot manager entry
  reg,       \* reg[d]: the identifier in d's registry key
  id,        \* id[d]: the installer's variable $id
  pc,        \* pc[d]: the next statement of d's installer or uninstaller
  installs, restarts, \* how many there have been
  mishaps    \* history: mishaps[d], what has happened to d so far

disk == <<uninst, file, hitme, got, pending, late>>
boot == <<bootini, bcd, winEntry, reg>>
given == <<media, family>>
vars == <<given, disk, boot, id, pc, installs, restarts, mishaps>>

(***************************************************************************)
(* d's program executes the statement at step and goes on to next.         *)
(***************************************************************************)
Advance(d, step, next) ==
  /\ pc[d] = step
  /\ pc' = [pc EXCEPT ![d] = next]
  /\ UNCHANGED <<given, installs, restarts>>

Note(d, m) == mishaps' = [mishaps EXCEPT ![d] = @ \cup {m}]

Step(d, step, next) == Advance(d, step, next) /\ UNCHANGED mishaps

Nothing == UNCHANGED <<disk, boot, id>>

Write(f, d) == file' = [file EXCEPT ![f] = d]

(***************************************************************************)
(* Delete /REBOOTOK: a file that is in use is deleted at the next restart. *)
(***************************************************************************)
Delete(f) ==
  \/ file' = [file EXCEPT ![f] = None] /\ UNCHANGED pending
  \/ /\ f \in Lockable /\ file[f] # None
     /\ pending' = pending \cup {f}
     /\ UNCHANGED file

\* The same of a file of d's own that is, or is not, there.
PutOff(d, f, there) ==
  there /\ f \in Lockable /\ late' = [late EXCEPT ![d] = @ \cup {f}]

(***************************************************************************)
(* Rename fails when the source is missing or the target exists.           *)
(***************************************************************************)
RenameOver(from, to) ==   \* faulty: replaces an existing target
  file' = IF file[from] # None
            THEN [file EXCEPT ![to] = file[from], ![from] = None]
            ELSE file

Rename(from, to) ==
  file' = IF file[from] # None /\ file[to] = None
            THEN [file EXCEPT ![to] = file[from], ![from] = None]
            ELSE file

Init ==
  /\ media \in [Distros -> MediaKinds]
  /\ family \in Families
  /\ \E c \in ConfigAtStart :
       file = [f \in Shared |-> IF f = "config.sys" THEN c ELSE None]
  /\ uninst = {} /\ hitme = {} /\ pending = {}
  /\ got = [d \in Distros |-> {}] /\ late = [d \in Distros |-> {}]
  /\ bootini = [timeout |-> User, entry |-> None]
  /\ bcd = [i \in Ids |-> [state |-> "unused", by |-> None, has |-> {}]]
  /\ winEntry = "intact"
  /\ reg = [d \in Distros |-> None]
  /\ id = [d \in Distros |-> None]
  /\ pc = [d \in Distros |-> "idle"]
  /\ installs = 0 /\ restarts = 0 /\ mishaps = [d \in Distros |-> {}]

------------------------------------------------------------------------------
(***************************************************************************)
(* Section "Install".                                                      *)
(***************************************************************************)

\* Programs of other distributions that are running, and what starting d's beside
\* them, or before a restart that is due, means for either.
Others(d) == {e \in Distros \ {d} : pc[e] # "idle"}

Starting(d, m) ==
  mishaps' = [e \in Distros |->
    mishaps[e] \cup (IF e = d THEN m ELSE {})
               \cup (IF Others(d) # {} /\ e \in Others(d) \cup {d} THEN {"beside"} ELSE {})]

InstallMishaps(d) ==
  {m \in {"hasty", "early", "crowd"} :
     \/ m = "hasty" /\ "uninst" \in late[d]
     \/ m = "early" /\ pending \cup (late[d] \ {"uninst"}) # {}
     \/ m = "crowd" /\ uninst \ {d} # {}}

\* The user starts the installer; its variables are empty.
StartInstall(d) ==
  /\ pc[d] = "idle"
  /\ installs < MaxInstalls
  /\ installs' = installs + 1
  /\ pc' = [pc EXCEPT ![d] = "arm"]
  /\ id' = [id EXCEPT ![d] = None]
  /\ Starting(d, InstallMishaps(d))
  /\ UNCHANGED <<given, disk, boot, restarts>>

SkipUninstaller(d) == Step(d, "arm", "mbr") /\ Nothing   \* faulty

WriteUninstaller(d) ==
  /\ Step(d, "arm", "mbr")
  /\ uninst' = uninst \cup {d}
  /\ UNCHANGED <<file, hitme, got, pending, late, boot, id>>

FamilyStep ==
  [f \in {"9x", "NT", "Vista", "other"} |->
     CASE f = "9x"    -> "exe9x"
       [] f = "NT"    -> "grldrNT"
       [] f = "Vista" -> "bcdCreate"
       [] f = "other" -> "idle"]      \* lbl_Error: the message box, then Quit

ExtractMbr(d) ==
  /\ Step(d, "mbr", FamilyStep[family])
  /\ Write("grldr.mbr", d)
  /\ UNCHANGED <<uninst, hitme, got, pending, late, boot, id>>

ExtractGrubExe(d) ==
  /\ Step(d, "exe9x", "backup")
  /\ Write("grub.exe", d)
  /\ UNCHANGED <<uninst, hitme, got, pending, late, boot, id>>

BackupConfig(d) ==
  /\ Step(d, "backup", "config")
  /\ Rename("config.sys", "config-bak.sys")
  /\ UNCHANGED <<uninst, hitme, got, pending, late, boot, id>>

WriteConfig(d) ==
  /\ Step(d, "config", "hitme")
  /\ Write("config.sys", d)
  /\ UNCHANGED <<uninst, hitme, got, pending, late, boot, id>>

ExtractGrldrNT(d) ==
  /\ Step(d, "grldrNT", "timeout")
  /\ Write("grldr", d)
  /\ UNCHANGED <<uninst, hitme, got, pending, late, boot, id>>

SetBootTimeout(d) ==
  /\ Step(d, "timeout", "entry")
  /\ bootini' = [bootini EXCEPT !.timeout = 30]
  /\ UNCHANGED <<disk, bcd, winEntry, reg, id>>

AddBootEntry(d) ==
  /\ Step(d, "entry", "hitme")
  /\ bootini' = [bootini EXCEPT !.entry = d]
  /\ UNCHANGED <<disk, bcd, winEntry, reg, id>>

\* ReadRegStr; only when no identifier is recorded is an entry created and
\* its identifier put in $id (otherwise $id stays empty).
BcdCreate(d) ==
  \/ /\ reg[d] # None
     /\ Step(d, "bcdCreate", "bcdDevice")
     /\ UNCHANGED <<disk, boot, id>>
  \/ \E i \in Ids :
       /\ reg[d] = None /\ bcd[i].state = "unused"
       /\ Step(d, "bcdCreate", "bcdSave")
       /\ bcd' = [bcd EXCEPT ![i] = [state |-> "there", by |-> d, has |-> {}]]
       /\ id' = [id EXCEPT ![d] = i]
       /\ UNCHANGED <<disk, bootini, winEntry, reg>>
  \/ /\ reg[d] = None /\ "create" \in BcdMayFail
     /\ Step(d, "bcdCreate", "idle")      \* "Cannot exec bcdeit.exe", Quit
     /\ UNCHANGED <<disk, boot, id>>

BcdSave(d) ==
  /\ Step(d, "bcdSave", "bcdDevice")
  /\ reg' = [reg EXCEPT ![d] = id[d]]
  /\ UNCHANGED <<disk, bootini, bcd, winEntry, id>>

\* The entry named by $id gets a part.  Without an identifier "bcdedit /set" changes
\* the entry of the running Windows, "/displayorder" nothing.
BcdGive(d, part) ==
  /\ IF id[d] = None
       THEN winEntry' = (IF part = "listed" THEN winEntry ELSE "changed") /\ UNCHANGED bcd
       ELSE bcd' = [bcd EXCEPT ![id[d]].has = @ \cup {part}] /\ UNCHANGED winEntry
  /\ UNCHANGED <<disk, bootini, reg, id>>

\* No result of these three calls is looked at.
BcdCall(d, call, part, step, next) ==
  \/ Step(d, step, next) /\ BcdGive(d, part)
  \/ call \in BcdMayFail /\ Advance(d, step, next) /\ Note(d, "bcd") /\ Nothing

BcdDevice(d) == BcdCall(d, "device", "device", "bcdDevice", "bcdPath")
BcdPath(d)   == BcdCall(d, "path", "path", "bcdPath", "bcdList")
BcdList(d)   == BcdCall(d, "displayorder", "listed", "bcdList", "grldrVista")

ExtractGrldrVista(d) ==
  /\ Step(d, "grldrVista", "hitme")
  /\ Write("grldr", d)
  /\ UNCHANGED <<uninst, hitme, got, pending, late, boot, id>>

WriteHitme(d) ==
  /\ Step(d, "hitme", "menu")
  /\ hitme' = hitme \cup {d}
  /\ UNCHANGED <<uninst, file, got, pending, late, boot, id>>

MediaStep ==
  [m \in {"NET", "CDROM", "LOCAL"} |->
     CASE m = "NET"   -> "getInitrd"
       [] m = "CDROM" -> "initrd"
       [] m = "LOCAL" -> "present"]

\* FileOpen mode "a": the new text is written over the start of the old one.
WriteMenu(d) ==
  /\ Step(d, "menu", MediaStep[media[d]])
  /\ Write("menu.lst", d)
  /\ UNCHANGED <<uninst, hitme, got, pending, late, boot, id>>

\* got[d] after the statement obtained part p; the rest of the disk is kept.
Obtain(d, p) ==
  /\ got' = [got EXCEPT ![d] = @ \cup {p}]
  /\ UNCHANGED <<uninst, file, hitme, pending, late, boot, id>>

\* inetc::get of part p at step.  "URL Parts Error" is taken for success, whether
\* or not the file arrived.
Fetched(d, p, step, next) ==
  \/ FetchResults \cap {"OK", "URL Parts Error"} # {} /\ Step(d, step, next) /\ Obtain(d, p)
  \/ "URL Parts Error" \in FetchResults /\ Advance(d, step, next) /\ Note(d, "url") /\ Nothing

FetchInitrdUnchecked(d) ==   \* faulty: neither report is looked at
  \/ Fetched(d, "initrd", "getInitrd", "getKernel")
  \/ Step(d, "getInitrd", "getKernel") /\ Nothing

\* Any other report of the initrd aborts the section.
FetchInitrd(d) ==
  \/ Fetched(d, "initrd", "getInitrd", "getKernel")
  \/ "failed" \in FetchResults /\ Step(d, "getInitrd", "idle") /\ Nothing

\* The kernel's report stays on the stack: $0 is still the initrd's, which let
\* the section come this far.
FetchKernel(d) ==
  \/ Fetched(d, "kernel", "getKernel", "present")
  \/ "failed" \in FetchResults /\ Step(d, "getKernel", "present") /\ Nothing

\* CDROM: both files are extracted from the installer unless the initrd exists.
ExtractInitrd(d) ==
  \/ /\ "initrd" \in got[d]
     /\ Step(d, "initrd", "finish") /\ Nothing
  \/ /\ "initrd" \notin got[d]
     /\ Step(d, "initrd", "kernel") /\ Obtain(d, "initrd")

ExtractKernel(d) == Step(d, "kernel", "present") /\ Obtain(d, "kernel")

\* Two IfFileExists, either of which skips both copies.
SkipIfPresent(d) ==
  /\ Step(d, "present", IF got[d] \cap Parts # {} THEN "finish" ELSE "copyInitrd")
  /\ Nothing

\* BOOTDIR is a directory beside the installer for LOCAL media only; a failed
\* copy shows a message and quits.
Copy(d, p, step, next) ==
  \/ media[d] = "LOCAL" /\ Step(d, step, next) /\ Obtain(d, p)
  \/ /\ CopyMayFail \/ media[d] # "LOCAL"
     /\ Step(d, step, "idle") /\ Nothing

CopyInitrd(d) == Copy(d, "initrd", "copyInitrd", "copyKernel")
CopyKernel(d) == Copy(d, "kernel", "copyKernel", "finish")

\* compact /u, SetRebootFlag: the installation is complete.
Finish(d) == Step(d, "finish", "idle") /\ Nothing

Install(d) ==
  \/ WriteUninstaller(d) \/ ExtractMbr(d)
  \/ ExtractGrubExe(d) \/ BackupConfig(d) \/ WriteConfig(d)
  \/ ExtractGrldrNT(d) \/ SetBootTimeout(d) \/ AddBootEntry(d)
  \/ BcdCreate(d) \/ BcdSave(d) \/ BcdDevice(d) \/ BcdPath(d) \/ BcdList(d) \/ ExtractGrldrVista(d)
  \/ WriteHitme(d) \/ WriteMenu(d)
  \/ FetchInitrd(d) \/ FetchKernel(d) \/ ExtractInitrd(d) \/ ExtractKernel(d)
  \/ SkipIfPresent(d) \/ CopyInitrd(d) \/ CopyKernel(d) \/ Finish(d)

------------------------------------------------------------------------------
(***************************************************************************)
(* Section "Uninstall".                                                    *)
(***************************************************************************)

UninstallFirstStrict ==   \* faulty: an unlisted version has no branch
  [f \in {"9x", "NT", "Vista", "other"} |->
     CASE f = "9x" -> "unExe" [] f = "NT" -> "unGrldrNT"
       [] f = "Vista" -> "unGrldrVista" [] f = "other" -> "unError"]

\* An unlisted Windows version falls through to lbl_Win9x.
UninstallFirst ==
  [f \in {"9x", "NT", "Vista", "other"} |->
     CASE f = "NT"    -> "unGrldrNT"
       [] f = "Vista" -> "unGrldrVista"
       [] OTHER       -> "unExe"]

\* Started from the Startup folder and confirmed by the user.
StartUninstall(d) ==
  /\ d \in uninst
  /\ Advance(d, "idle", UninstallFirst[family])
  /\ Starting(d, IF "config.sys" \in pending \/ "uninst" \in late[d] THEN {"again"} ELSE {})
  /\ Nothing

\* A statement that deletes one shared file.
DeleteStep(d, f, step, next) ==
  /\ Step(d, step, next)
  /\ Delete(f)
  /\ UNCHANGED <<uninst, hitme, got, late, boot, id>>

DeleteGrubExe(d)     == DeleteStep(d, "grub.exe", "unExe", "unConfig")
DeleteConfig(d)      == DeleteStep(d, "config.sys", "unConfig", "unRestore")
DeleteGrldrNT(d)     == DeleteStep(d, "grldr", "unGrldrNT", "unEntry")
DeleteGrldrVista(d)  == DeleteStep(d, "grldr", "unGrldrVista", "unBcd")
DeleteMbr(d)         == DeleteStep(d, "grldr.mbr", "unMbr", "unHitme")
DeleteMenu(d)        == DeleteStep(d, "menu.lst", "unMenu", "unMbr")

RestoreConfig(d) ==
  /\ Step(d, "unRestore", "unDir")
  /\ Rename("config-bak.sys", "config.sys")
  /\ UNCHANGED <<uninst, hitme, got, pending, late, boot, id>>

KeepBootEntry(d) == Step(d, "unEntry", "unDir") /\ Nothing   \* faulty

RemoveBootEntry(d) ==
  /\ Step(d, "unEntry", "unDir")
  /\ bootini' = [bootini EXCEPT !.entry = None]
  /\ UNCHANGED <<disk, bcd, winEntry, reg, id>>

\* A failing "bcdedit /delete" is reported and passed over.
BcdDelete(d) ==
  \/ /\ reg[d] = None
     /\ Step(d, "unBcd", "unDir")
     /\ UNCHANGED <<disk, boot, id>>
  \/ /\ reg[d] # None
     /\ Step(d, "unBcd", "unReg")
     /\ bcd' = [bcd EXCEPT ![reg[d]] = [state |-> "deleted", by |-> d, has |-> {}]]
     /\ UNCHANGED <<disk, bootini, winEntry, reg, id>>
  \/ /\ reg[d] # None /\ "delete" \in BcdMayFail
     /\ Advance(d, "unBcd", "unReg") /\ Note(d, "entry")
     /\ Nothing

DeleteRegKey(d) ==
  /\ Step(d, "unReg", "unDir")
  /\ reg' = [reg EXCEPT ![d] = None]
  /\ UNCHANGED <<disk, bootini, bcd, winEntry, id>>

\* RMDir /REBOOTOK /r: what is in use goes at the restart.
RemoveDir(d) ==
  /\ Step(d, "unDir", "unMenu")
  /\ \E kept \in SUBSET (got[d] \cap Lockable) :
       /\ got' = [got EXCEPT ![d] = kept]
       /\ late' = [late EXCEPT ![d] = @ \cup kept]
  /\ UNCHANGED <<uninst, file, hitme, pending, boot, id>>

DeleteHitme(d) ==
  /\ Step(d, "unHitme", "unSelf")
  /\ \/ hitme' = hitme \ {d} /\ UNCHANGED late
     \/ PutOff(d, "hitme", d \in hitme) /\ UNCHANGED hitme
  /\ UNCHANGED <<uninst, file, got, pending, boot, id>>

\* The uninstaller itself, which is running.
DeleteSelf(d) ==
  /\ Step(d, "unSelf", "idle")
  /\ \/ uninst' = uninst \ {d} /\ UNCHANGED late
     \/ PutOff(d, "uninst", d \in uninst) /\ UNCHANGED uninst
  /\ UNCHANGED <<file, hitme, got, pending, boot, id>>

Uninstall(d) ==
  \/ DeleteGrubExe(d) \/ DeleteConfig(d) \/ RestoreConfig(d)
  \/ DeleteGrldrNT(d) \/ RemoveBootEntry(d)
  \/ DeleteGrldrVista(d) \/ BcdDelete(d) \/ DeleteRegKey(d)
  \/ RemoveDir(d) \/ DeleteMenu(d) \/ DeleteMbr(d) \/ DeleteHitme(d) \/ DeleteSelf(d)

------------------------------------------------------------------------------
(***************************************************************************)
(* The machine restarts, between programs or in the middle of a section.   *)
(* Windows first deletes the files whose deletion was put off, be they     *)
(* those that were there then or new ones of the same name.                *)
(***************************************************************************)
CutShort(step) ==
  {m \in {"entry", "half", "power"} :
     \/ m = "entry" /\ step = "bcdSave"
     \/ m = "half" /\ step \in Halves
     \/ m = "power" /\ step \in AtRisk}

Restart ==
  /\ restarts < MaxRestarts
  /\ \A d \in Distros : pc[d] = "idle" \/ pc[d] \in CrashAt
  /\ restarts' = restarts + 1
  /\ pc' = [d \in Distros |-> "idle"]
  /\ mishaps' = [d \in Distros |-> mishaps[d] \cup CutShort(pc[d])]
  /\ file' = [f \in Shared |-> IF f \in pending THEN None ELSE file[f]]
  /\ uninst' = {d \in uninst : "uninst" \notin late[d]}
  /\ hitme' = {d \in hitme : "hitme" \notin late[d]}
  /\ got' = [d \in Distros |-> got[d] \ late[d]]
  /\ pending' = {} /\ late' = [d \in Distros |-> {}]
  /\ UNCHANGED <<given, boot, id, installs>>

Next ==
  \/ \E d \in Distros : StartInstall(d) \/ Install(d) \/ StartUninstall(d) \/ Uninstall(d)
  \/ Restart

Spec == Init /\ [][Next]_vars

(***************************************************************************)
(* Windows starts every uninstaller in the Startup folder at each logon    *)
(* and the user lets it run; a program that is running goes on.            *)
(***************************************************************************)
Fairness ==
  \A d \in Distros :
    WF_vars(Install(d)) /\ WF_vars(StartUninstall(d) \/ Uninstall(d))

FairSpec == Spec /\ Fairness

------------------------------------------------------------------------------
DiskOK ==
  /\ uninst \subseteq Distros /\ hitme \subseteq Distros
  /\ file \in [Shared -> Distros \cup {None, User}]
  /\ got \in [Distros -> SUBSET Parts]
  /\ pending \subseteq Shared /\ late \in [Distros -> SUBSET Own]

BootOK ==
  /\ bootini \in [timeout : {User, 30}, entry : Distros \cup {None}]
  /\ bcd \in [Ids -> [state : {"unused", "there", "deleted"}, by : Distros \cup {None},
                      has : SUBSET BcdParts]]
  /\ winEntry \in {"intact", "changed"}
  /\ reg \in [Distros -> Ids \cup {None}]

ProgramOK ==
  /\ media \in [Distros -> MediaKinds] /\ family \in Families
  /\ id \in [Distros -> Ids \cup {None}]
  /\ pc \in [Distros -> InstallSteps \cup UninstallSteps \cup {"idle"}]
  /\ installs \in Nat /\ restarts \in Nat
  /\ mishaps \in [Distros -> SUBSET Mishaps]

\* Every variable keeps its type through both sections and every restart.
TypeOK == DiskOK /\ BootOK /\ ProgramOK

------------------------------------------------------------------------------
(***************************************************************************)
(* What of d is left.  A file that goes at the next restart is not; an     *)
(* entry whose identifier was lost is excused (the power failed before it  *)
(* was written down, or "bcdedit /delete" failed and the key was deleted). *)
(* Of C:\config.sys see UserConfigKept.  The timeout of boot.ini is left    *)
(* out: SetBootTimeout overwrites it and no statement puts it back, though *)
(* line 18 of the template has it that "the boot.ini will be restored".    *)
(***************************************************************************)
TraceFiles == {"grldr", "grldr.mbr", "grub.exe", "menu.lst"}

Holds(d, f) == file[f] = d /\ f \notin pending

Entered(d) ==
  "entry" \notin mishaps[d] /\ \E i \in Ids : bcd[i].state = "there" /\ bcd[i].by = d

Trace(d) ==
  \/ \E f \in TraceFiles : Holds(d, f)
  \/ bootini.entry = d
  \/ reg[d] # None \/ Entered(d)
  \/ got[d] \ late[d] # {}
  \/ d \in hitme /\ "hitme" \notin late[d]

\* d's uninstaller is in the Startup folder and will be after a restart.
CanUndo(d) == d \in uninst /\ "uninst" \notin late[d]
Hasty(d)   == "hasty" \in mishaps[d]

(***************************************************************************)
(* Whatever is interrupted, failed, put off, repeated or run beside it,    *)
(* what a distribution left on the machine can be removed: its uninstaller *)
(* is in the Startup folder and stays there ("Write uninstaller before     *)
(* doing anything else...", and the uninstaller deletes itself last).      *)
(* Excused is one that was installed again before the restart that deletes *)
(* its old uninstaller, and the new one with it.                           *)
(***************************************************************************)
Traceless == \A d \in Distros : Trace(d) => CanUndo(d) \/ Hasty(d)

(***************************************************************************)
(* Why: a program past its first statement has its uninstaller in place,   *)
(* is on its Windows family's branch, only that branch left loader files   *)
(* behind, the registry names the entry of the boot manager, and an        *)
(* uninstaller has removed what its position says it has.                  *)
(***************************************************************************)
Armed ==
  \A d \in Distros :
    /\ pc[d] \in InstallSteps \ {"arm"} => CanUndo(d) \/ Hasty(d)
    /\ pc[d] \in InstallSteps /\ "uninst" \in late[d] => Hasty(d)

OnBranch ==
  \A d \in Distros :
    /\ pc[d] \in {"exe9x", "backup", "config"} => family = "9x"
    /\ pc[d] \in {"grldrNT", "timeout", "entry", "unGrldrNT", "unEntry"} => family = "NT"
    /\ pc[d] \in {"bcdCreate", "bcdSave", "bcdDevice", "bcdPath", "bcdList", "grldrVista",
                  "unGrldrVista", "unBcd", "unReg"} => family = "Vista"
    /\ pc[d] \in {"unExe", "unConfig", "unRestore"} => family \notin {"NT", "Vista"}

FromBranch ==
  \A d \in Distros :
    /\ file["grub.exe"] = d => family = "9x"
    /\ file["grldr"] = d => family \in {"NT", "Vista"}
    /\ bootini.entry = d => family = "NT"
    /\ reg[d] # None \/ Entered(d) => family = "Vista"

Named ==
  \A d \in Distros, i \in Ids :
    /\ bcd[i].state = "unused" => bcd[i].by = None
    /\ reg[d] = i \/ (pc[d] = "bcdSave" /\ id[d] = i) => bcd[i].by = d
    /\ pc[d] = "bcdSave" => reg[d] = None
    /\ bcd[i].state = "there" /\ bcd[i].by = d /\ "entry" \notin mishaps[d]
         => reg[d] = i \/ (pc[d] = "bcdSave" /\ id[d] = i)

LoaderGone(d) ==
  /\ ~ Holds(d, "grub.exe") /\ ~ Holds(d, "grldr")
  /\ bootini.entry # d /\ reg[d] = None /\ ~ Entered(d)

Removed ==
  \A d \in Distros :
    /\ pc[d] \in {"unConfig", "unRestore"} => ~ Holds(d, "grub.exe")
    /\ pc[d] \in {"unEntry", "unBcd", "unReg"} => ~ Holds(d, "grldr")
    /\ pc[d] = "unReg" => ~ Entered(d)
    /\ pc[d] \in {"unDir", "unMenu", "unMbr", "unHitme", "unSelf"} => LoaderGone(d)
    /\ pc[d] \in {"unMenu", "unMbr", "unHitme", "unSelf"} => got[d] \ late[d] = {}
    /\ pc[d] \in {"unMbr", "unHitme", "unSelf"} => ~ Holds(d, "menu.lst")
    /\ pc[d] \in {"unHitme", "unSelf"} => ~ Holds(d, "grldr.mbr")
    /\ pc[d] = "unSelf" => d \notin hitme \/ "hitme" \in late[d]

Undoable == Traceless /\ Armed /\ OnBranch /\ FromBranch /\ Named /\ Removed

(***************************************************************************)
(* The same as a behaviour: the program is an undo log whose entry is      *)
(* written before the first change and erased after the last.  Who was     *)
(* installed in haste (Hasty) is not in it.                                *)
(***************************************************************************)
Undo == INSTANCE UndoLog WITH
          Agents <- Distros,
          armed <- {d \in Distros : CanUndo(d)},
          dirty <- {d \in Distros : Trace(d) /\ ~ Hasty(d)}

ImplementsUndoLog == Undo!Spec

(***************************************************************************)
(* A user's own C:\config.sys survives: it is in place or in               *)
(* config-bak.sys, however often the installer is run or cut short         *)
(* (Rename to config-bak.sys, WriteConfig, and their undoing).  Excused is *)
(* what the code does not see to: a Windows it does not know, whose        *)
(* uninstaller deletes a file the installer never wrote; on Windows 9x two *)
(* distributions, a program started before the restart that is due, and a  *)
(* power failure AtRisk.                                                   *)
(***************************************************************************)
ConfigEndangered ==
  \/ family = "other"
  \/ family = "9x" /\ \E d \in Distros :
       mishaps[d] \cap {"early", "again", "crowd", "beside", "power"} # {}

UserConfigKept == ~ ConfigEndangered => User \in {file["config.sys"], file["config-bak.sys"]}

(***************************************************************************)
(* When the installation reports success, everything from the boot manager *)
(* to the initrd that the restarted machine will need is in place and will *)
(* be after the restart.  Excused: another program beside it, deletions    *)
(* still put off when it began, a download that reports "URL Parts Error", *)
(* a failing "bcdedit /set" or "/displayorder", a power failure that left  *)
(* an incomplete entry to the registry: the code notices none of them.     *)
(***************************************************************************)
LoaderOf(d) ==
  CASE family = "9x"    -> file["grub.exe"] = d /\ file["config.sys"] = d
    [] family = "NT"    -> file["grldr"] = d /\ bootini.entry = d
    [] family = "Vista" -> /\ file["grldr"] = d
                           /\ reg[d] # None
                           /\ bcd[reg[d]].state = "there" /\ bcd[reg[d]].has = BcdParts

BootChain(d) ==
  /\ LoaderOf(d)
  /\ file["grldr.mbr"] = d /\ file["menu.lst"] = d
  /\ d \in hitme /\ "initrd" \in got[d]
  /\ pending = {} /\ late[d] \subseteq {"uninst"}

Unnoticed(d) == mishaps[d] \cap {"beside", "early", "url", "bcd", "half"} # {}

FinishedBoots == [][\A d \in Distros : Finish(d) => BootChain(d) \/ Unnoticed(d)]_vars

(***************************************************************************)
(* When the installation reports success, the kernel menu.lst names is     *)
(* there ("Download Error kernel ( $0 ), click OK to abort installation"). *)
(***************************************************************************)
FinishedHasKernel == [][\A d \in Distros : Finish(d) => "kernel" \in got[d]]_vars

(***************************************************************************)
(* Windows' own boot manager entry is never changed: the identifier of the *)
(* installer's entry is written down for a second run ("Write it down,     *)
(* both for installer idempotency and for uninstaller.").                  *)
(***************************************************************************)
WindowsEntryKept == winEntry = "intact"

(***************************************************************************)
(* Whatever became of the installations, the machine ends up with nothing  *)
(* of them (Trace: all but boot.ini's timeout, and an entry of the boot    *)
(* manager whose identifier was lost; and see Hasty): the uninstallers     *)
(* that Windows starts at logon get there, and go themselves, at once or   *)
(* with the restart.                                                       *)
(***************************************************************************)
EventuallyClean ==
  <>[](\A d \in Distros : Hasty(d) \/ ~ (Trace(d) \/ CanUndo(d)))
==============================================================================
