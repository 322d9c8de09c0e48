--------------------------- MODULE InstallerProofs ---------------------------
(***************************************************************************)
(* Installer: type correctness, that every trace can be removed, that the  *)
(* program implements UndoLog, that the user's config.sys survives and     *)
(* that a finished installation boots, for any set of distributions,       *)
(* media and Windows families, whatever fails and wherever the power does. *)
(***************************************************************************)
EXTENDS Installer, TLAPS

Steps == InstallSteps \cup UninstallSteps \cup {"idle"}

\* A statement of d's program moves its pc and nothing else of the programs.
LEMMA StepType ==
  ASSUME TypeOK, NEW d \in Distros, NEW step, NEW next \in Steps, Step(d, step, next),
         id' \in [Distros -> Ids \cup {None}]
  PROVE  ProgramOK'
BY DEF TypeOK, ProgramOK, Step, Advance, given, Steps

\* The same of one that goes wrong unnoticed.
LEMMA NoteType ==
  ASSUME TypeOK, NEW d \in Distros, NEW step, NEW next \in Steps, Advance(d, step, next),
         NEW m \in Mishaps, Note(d, m), id' = id
  PROVE  ProgramOK'
BY DEF TypeOK, ProgramOK, Advance, Note, given, Steps

LEMMA StartType ==
  ASSUME TypeOK, NEW d \in Distros, NEW m, m \subseteq Mishaps, Starting(d, m)
  PROVE  mishaps' \in [Distros -> SUBSET Mishaps]
BY DEF TypeOK, ProgramOK, Starting, Mishaps

\* Deleting a shared file keeps the disk's type, at once or at the next restart.
LEMMA DeleteType ==
  ASSUME TypeOK, NEW f \in Shared, Delete(f), UNCHANGED <<uninst, hitme, got, late>>
  PROVE  DiskOK'
BY DEF TypeOK, DiskOK, Delete

LEMMA WriteType ==
  ASSUME TypeOK, NEW f \in Shared, NEW d \in Distros, Write(f, d),
         UNCHANGED <<uninst, hitme, got, pending, late>>
  PROVE  DiskOK'
BY DEF TypeOK, DiskOK, Write

LEMMA RenameType ==
  ASSUME TypeOK, NEW f \in Shared, NEW g \in Shared, Rename(f, g),
         UNCHANGED <<uninst, hitme, got, pending, late>>
  PROVE  DiskOK'
BY DEF TypeOK, DiskOK, Rename

LEMMA ObtainType ==
  ASSUME TypeOK, NEW d \in Distros, NEW p \in Parts, Obtain(d, p)
  PROVE  DiskOK' /\ BootOK' /\ UNCHANGED id
BY DEF TypeOK, DiskOK, BootOK, Obtain, boot

LEMMA NothingType ==
  ASSUME TypeOK, Nothing
  PROVE  DiskOK' /\ BootOK' /\ UNCHANGED id
BY DEF TypeOK, DiskOK, BootOK, Nothing, disk, boot

(***************************************************************************)
(* The steps that fetch or copy the kernel and the initrd, or decide       *)
(* whether to, stay in the section and only add to d's own directory.      *)
(***************************************************************************)
ContainerSteps == {"getInitrd", "getKernel", "initrd", "kernel", "present",
                   "copyInitrd", "copyKernel", "finish"}

Container(d) ==
  \/ FetchInitrd(d) \/ FetchKernel(d) \/ ExtractInitrd(d) \/ ExtractKernel(d)
  \/ SkipIfPresent(d) \/ CopyInitrd(d) \/ CopyKernel(d) \/ Finish(d)

\* A statement goes as it should, or goes wrong unnoticed (m).
Goes(d, step, next, m) == Step(d, step, next) \/ (Advance(d, step, next) /\ Note(d, m))

LEMMA ContainerStep ==
  ASSUME NEW d \in Distros, Container(d)
  PROVE  /\ \E step \in ContainerSteps, next \in ContainerSteps \cup {"idle"} :
               Goes(d, step, next, "url")
         /\ (\E p \in Parts : Obtain(d, p)) \/ Nothing
<1> DEFINE Moves == \E step \in ContainerSteps, next \in ContainerSteps \cup {"idle"} :
                      Goes(d, step, next, "url")
           Gets  == (\E p \in Parts : Obtain(d, p)) \/ Nothing
<1>1. CASE FetchInitrd(d)
  <2>1. Moves
    BY <1>1 DEF FetchInitrd, Fetched, ContainerSteps, Goes
  <2>2. Gets
    BY <1>1 DEF FetchInitrd, Fetched, Parts
  <2> QED
    BY <2>1, <2>2
<1>2. CASE FetchKernel(d)
  <2>1. Moves
    BY <1>2 DEF FetchKernel, Fetched, ContainerSteps, Goes
  <2>2. Gets
    BY <1>2 DEF FetchKernel, Fetched, Parts
  <2> QED
    BY <2>1, <2>2
<1>3. CASE ExtractInitrd(d)
  <2>1. Moves
    BY <1>3 DEF ExtractInitrd, ContainerSteps, Goes
  <2>2. Gets
    BY <1>3 DEF ExtractInitrd, Parts
  <2> QED
    BY <2>1, <2>2
<1>4. CASE ExtractKernel(d)
  <2>1. Moves
    BY <1>4 DEF ExtractKernel, ContainerSteps, Goes
  <2>2. Gets
    BY <1>4 DEF ExtractKernel, Parts
  <2> QED
    BY <2>1, <2>2
<1>5. CASE SkipIfPresent(d)
  <2>1. Moves
    BY <1>5 DEF SkipIfPresent, ContainerSteps, Goes
  <2>2. Gets
    BY <1>5 DEF SkipIfPresent, Parts
  <2> QED
    BY <2>1, <2>2
<1>6. CASE CopyInitrd(d)
  <2>1. Moves
    BY <1>6 DEF CopyInitrd, Copy, ContainerSteps, Goes
  <2>2. Gets
    BY <1>6 DEF CopyInitrd, Copy, Parts
  <2> QED
    BY <2>1, <2>2
<1>7. CASE CopyKernel(d)
  <2>1. Moves
    BY <1>7 DEF CopyKernel, Copy, ContainerSteps, Goes
  <2>2. Gets
    BY <1>7 DEF CopyKernel, Copy, Parts
  <2> QED
    BY <2>1, <2>2
<1>8. CASE Finish(d)
  <2>1. Moves
    BY <1>8 DEF Finish, ContainerSteps, Goes
  <2>2. Gets
    BY <1>8 DEF Finish, Parts
  <2> QED
    BY <2>1, <2>2
<1> QED
  BY <1>1, <1>2, <1>3, <1>4, <1>5, <1>6, <1>7, <1>8 DEF Container

LEMMA ContainerType ==
  ASSUME TypeOK, NEW d \in Distros, Container(d)
  PROVE  TypeOK'
<1>1. DiskOK' /\ BootOK' /\ UNCHANGED id
  BY ContainerStep, ObtainType, NothingType
<1>2. PICK step \in ContainerSteps, next \in ContainerSteps \cup {"idle"} :
        Goes(d, step, next, "url")
  BY ContainerStep
<1>3. next \in Steps /\ "url" \in Mishaps
  BY DEF Steps, ContainerSteps, InstallSteps, Mishaps
<1>4. CASE Step(d, step, next)
  BY <1>1, <1>3, <1>4, StepType DEF TypeOK, ProgramOK
<1>5. CASE Advance(d, step, next) /\ Note(d, "url")
  BY <1>1, <1>3, <1>5, NoteType DEF TypeOK
<1> QED
  BY <1>2, <1>4, <1>5 DEF Goes

\* bcdedit's calls for the entry of $id, or for the one of the running Windows.
LEMMA BcdCallType ==
  ASSUME TypeOK, NEW d \in Distros, NEW call, NEW part \in BcdParts, NEW step, NEW next \in Steps,
         BcdCall(d, call, part, step, next)
  PROVE  TypeOK'
<1>1. CASE Step(d, step, next) /\ BcdGive(d, part)
  <2>1. DiskOK'
    BY <1>1 DEF BcdGive, disk, TypeOK, DiskOK
  <2>2. bcd' \in [Ids -> [state : {"unused", "there", "deleted"}, by : Distros \cup {None},
                          has : SUBSET BcdParts]]
    <3>1. CASE id[d] = None
      BY <1>1, <3>1 DEF BcdGive, TypeOK, BootOK
    <3>2. CASE id[d] # None
      <4>1. PICK i \in Ids : id[d] = i
        BY <3>2 DEF TypeOK, ProgramOK
      <4>2. bcd' = [bcd EXCEPT ![i].has = bcd[i].has \cup {part}]
        BY <1>1, <3>2, <4>1 DEF BcdGive
      <4>3. bcd[i].has \cup {part} \in SUBSET BcdParts
        BY DEF TypeOK, BootOK
      <4> QED
        BY <4>2, <4>3 DEF TypeOK, BootOK
    <3> QED
      BY <3>1, <3>2
  <2>3. BootOK'
    BY <1>1, <2>2 DEF BcdGive, TypeOK, BootOK
  <2>4. ProgramOK'
    BY <1>1, StepType DEF BcdGive, TypeOK, ProgramOK
  <2> QED
    BY <2>1, <2>3, <2>4 DEF TypeOK
<1>2. CASE Advance(d, step, next) /\ Note(d, "bcd") /\ Nothing
  BY <1>2, NothingType, NoteType DEF TypeOK, Mishaps
<1> QED
  BY <1>1, <1>2 DEF BcdCall

(***************************************************************************)
(* The state and everything it needs to be a state: every variable keeps   *)
(* the type the sections give it, whatever is interrupted.                 *)
(***************************************************************************)
THEOREM TypeCorrect == Spec => []TypeOK
<1>1. Init => TypeOK
  BY InstallerAssumption
     DEF Init, TypeOK, DiskOK, BootOK, ProgramOK, InstallSteps, UninstallSteps, Shared, Parts
<1>2. TypeOK /\ [Next]_vars => TypeOK'
  <2> SUFFICES ASSUME TypeOK, [Next]_vars PROVE TypeOK'
    OBVIOUS
  <2>1. ASSUME NEW d \in Distros, StartInstall(d) PROVE TypeOK'
    <3>1. InstallMishaps(d) \subseteq Mishaps
      BY DEF InstallMishaps, Mishaps
    <3>2. mishaps' \in [Distros -> SUBSET Mishaps]
      BY <2>1, <3>1, StartType DEF StartInstall
    <3>3. DiskOK' /\ BootOK'
      BY <2>1 DEF StartInstall, disk, boot, TypeOK, DiskOK, BootOK
    <3>4. ProgramOK'
      <4>1. "arm" \in InstallSteps
        BY DEF InstallSteps
      <4>2. UNCHANGED <<media, family, restarts>>
        BY <2>1 DEF StartInstall, given
      <4>3. /\ id' \in [Distros -> Ids \cup {None}]
            /\ pc' \in [Distros -> InstallSteps \cup UninstallSteps \cup {"idle"}]
            /\ installs' \in Nat
        BY <2>1, <4>1 DEF StartInstall, TypeOK, ProgramOK
      <4> QED
        BY <3>2, <4>2, <4>3 DEF TypeOK, ProgramOK
    <3> QED
      BY <3>3, <3>4 DEF TypeOK
  <2>2. ASSUME NEW d \in Distros, Install(d) PROVE TypeOK'
    <3>1. CASE WriteUninstaller(d)
      <4>1. DiskOK' BY <3>1 DEF WriteUninstaller, TypeOK, DiskOK, disk
      <4>2. BootOK' BY <3>1 DEF WriteUninstaller, TypeOK, BootOK, ProgramOK, boot
      <4>3. ProgramOK' BY <3>1, StepType DEF WriteUninstaller, Steps, InstallSteps, TypeOK, ProgramOK
      <4> QED BY <4>1, <4>2, <4>3 DEF TypeOK
    <3>2. CASE ExtractMbr(d)
      <4>1. DiskOK' BY <3>2, WriteType DEF ExtractMbr, Shared
      <4>2. BootOK' BY <3>2 DEF ExtractMbr, TypeOK, BootOK, ProgramOK, boot
      <4>3. ProgramOK' BY <3>2, StepType, InstallerAssumption DEF ExtractMbr, Steps, InstallSteps, TypeOK, ProgramOK, FamilyStep
      <4> QED BY <4>1, <4>2, <4>3 DEF TypeOK
    <3>3. CASE ExtractGrubExe(d)
      <4>1. DiskOK' BY <3>3, WriteType DEF ExtractGrubExe, Shared
      <4>2. BootOK' BY <3>3 DEF ExtractGrubExe, TypeOK, BootOK, ProgramOK, boot
      <4>3. ProgramOK' BY <3>3, StepType DEF ExtractGrubExe, Steps, InstallSteps, TypeOK, ProgramOK
      <4> QED BY <4>1, <4>2, <4>3 DEF TypeOK
    <3>4. CASE BackupConfig(d)
      <4>1. DiskOK' BY <3>4, RenameType DEF BackupConfig, Shared
      <4>2. BootOK' BY <3>4 DEF BackupConfig, TypeOK, BootOK, ProgramOK, boot
      <4>3. ProgramOK' BY <3>4, StepType DEF BackupConfig, Steps, InstallSteps, TypeOK, ProgramOK
      <4> QED BY <4>1, <4>2, <4>3 DEF TypeOK
    <3>5. CASE WriteConfig(d)
      <4>1. DiskOK' BY <3>5, WriteType DEF WriteConfig, Shared
      <4>2. BootOK' BY <3>5 DEF WriteConfig, TypeOK, BootOK, ProgramOK, boot
      <4>3. ProgramOK' BY <3>5, StepType DEF WriteConfig, Steps, InstallSteps, TypeOK, ProgramOK
      <4> QED BY <4>1, <4>2, <4>3 DEF TypeOK
    <3>6. CASE ExtractGrldrNT(d)
      <4>1. DiskOK' BY <3>6, WriteType DEF ExtractGrldrNT, Shared
      <4>2. BootOK' BY <3>6 DEF ExtractGrldrNT, TypeOK, BootOK, ProgramOK, boot
      <4>3. ProgramOK' BY <3>6, StepType DEF ExtractGrldrNT, Steps, InstallSteps, TypeOK, ProgramOK
      <4> QED BY <4>1, <4>2, <4>3 DEF TypeOK
    <3>7. CASE SetBootTimeout(d)
      <4>1. DiskOK' BY <3>7 DEF SetBootTimeout, TypeOK, DiskOK, disk
      <4>2. BootOK' BY <3>7 DEF SetBootTimeout, TypeOK, BootOK, ProgramOK, boot
      <4>3. ProgramOK' BY <3>7, StepType DEF SetBootTimeout, Steps, InstallSteps, TypeOK, ProgramOK
      <4> QED BY <4>1, <4>2, <4>3 DEF TypeOK
    <3>8. CASE AddBootEntry(d)
      <4>1. DiskOK' BY <3>8 DEF AddBootEntry, TypeOK, DiskOK, disk
      <4>2. BootOK' BY <3>8 DEF AddBootEntry, TypeOK, BootOK, ProgramOK, boot
      <4>3. ProgramOK' BY <3>8, StepType DEF AddBootEntry, Steps, InstallSteps, TypeOK, ProgramOK
      <4> QED BY <4>1, <4>2, <4>3 DEF TypeOK
    <3>9. CASE BcdCreate(d)
      <4>1. DiskOK' BY <3>9 DEF BcdCreate, TypeOK, DiskOK, disk
      <4>2. BootOK' BY <3>9 DEF BcdCreate, TypeOK, BootOK, ProgramOK, boot, BcdParts
      <4>3. ProgramOK' BY <3>9, StepType DEF BcdCreate, Steps, InstallSteps, TypeOK, ProgramOK
      <4> QED BY <4>1, <4>2, <4>3 DEF TypeOK
    <3>10. CASE BcdSave(d)
      <4>1. DiskOK' BY <3>10 DEF BcdSave, TypeOK, DiskOK, disk
      <4>2. BootOK' BY <3>10 DEF BcdSave, TypeOK, BootOK, ProgramOK, boot
      <4>3. ProgramOK' BY <3>10, StepType DEF BcdSave, Steps, InstallSteps, TypeOK, ProgramOK
      <4> QED BY <4>1, <4>2, <4>3 DEF TypeOK
    <3>11. CASE BcdDevice(d)
      BY <3>11, BcdCallType DEF BcdDevice, BcdParts, Steps, InstallSteps
    <3>12. CASE BcdPath(d)
      BY <3>12, BcdCallType DEF BcdPath, BcdParts, Steps, InstallSteps
    <3>13. CASE BcdList(d)
      BY <3>13, BcdCallType DEF BcdList, BcdParts, Steps, InstallSteps
    <3>14. CASE ExtractGrldrVista(d)
      <4>1. DiskOK' BY <3>14, WriteType DEF ExtractGrldrVista, Shared
      <4>2. BootOK' BY <3>14 DEF ExtractGrldrVista, TypeOK, BootOK, ProgramOK, boot
      <4>3. ProgramOK' BY <3>14, StepType DEF ExtractGrldrVista, Steps, InstallSteps, TypeOK, ProgramOK
      <4> QED BY <4>1, <4>2, <4>3 DEF TypeOK
    <3>15. CASE WriteHitme(d)
      <4>1. DiskOK' BY <3>15 DEF WriteHitme, TypeOK, DiskOK, disk
      <4>2. BootOK' BY <3>15 DEF WriteHitme, TypeOK, BootOK, ProgramOK, boot
      <4>3. ProgramOK' BY <3>15, StepType DEF WriteHitme, Steps, InstallSteps, TypeOK, ProgramOK
      <4> QED BY <4>1, <4>2, <4>3 DEF TypeOK
    <3>16. CASE WriteMenu(d)
      <4>1. DiskOK' BY <3>16, WriteType DEF WriteMenu, Shared
      <4>2. BootOK' BY <3>16 DEF WriteMenu, TypeOK, BootOK, ProgramOK, boot
      <4>3. ProgramOK' BY <3>16, StepType, InstallerAssumption DEF WriteMenu, Steps, InstallSteps, TypeOK, ProgramOK, MediaStep
      <4> QED BY <4>1, <4>2, <4>3 DEF TypeOK
    <3>17. CASE Container(d)
      BY <3>17, ContainerType
    <3> QED BY <2>2, <3>1, <3>2, <3>3, <3>4, <3>5, <3>6, <3>7, <3>8, <3>9, <3>10, <3>11, <3>12, <3>13, <3>14, <3>15, <3>16, <3>17 DEF Install, Container
  <2>3. ASSUME NEW d \in Distros, StartUninstall(d) PROVE TypeOK'
    <3>1. DiskOK' /\ BootOK' /\ UNCHANGED id
      BY <2>3, NothingType DEF StartUninstall, Nothing
    <3>2. mishaps' \in [Distros -> SUBSET Mishaps]
      <4>1. (IF "config.sys" \in pending \/ "uninst" \in late[d] THEN {"again"} ELSE {}) \subseteq Mishaps
        BY DEF Mishaps
      <4> QED
        BY <2>3, <4>1, StartType DEF StartUninstall
    <3>3. ProgramOK'
      BY <2>3, <3>1, <3>2, InstallerAssumption
         DEF StartUninstall, Advance, given, UninstallSteps, UninstallFirst, TypeOK, ProgramOK
    <3> QED BY <3>1, <3>3 DEF TypeOK
  <2>4. ASSUME NEW d \in Distros, Uninstall(d) PROVE TypeOK'
    <3>1. CASE DeleteGrubExe(d)
      <4>1. DiskOK' BY <3>1, DeleteType DEF DeleteGrubExe, DeleteStep, Shared
      <4>2. BootOK' BY <3>1 DEF DeleteGrubExe, TypeOK, BootOK, boot, DeleteStep
      <4>3. ProgramOK' BY <3>1, StepType DEF DeleteGrubExe, Steps, UninstallSteps, TypeOK, ProgramOK, DeleteStep
      <4> QED BY <4>1, <4>2, <4>3 DEF TypeOK
    <3>2. CASE DeleteConfig(d)
      <4>1. DiskOK' BY <3>2, DeleteType DEF DeleteConfig, DeleteStep, Shared
      <4>2. BootOK' BY <3>2 DEF DeleteConfig, TypeOK, BootOK, boot, DeleteStep
      <4>3. ProgramOK' BY <3>2, StepType DEF DeleteConfig, Steps, UninstallSteps, TypeOK, ProgramOK, DeleteStep
      <4> QED BY <4>1, <4>2, <4>3 DEF TypeOK
    <3>3. CASE DeleteGrldrNT(d)
      <4>1. DiskOK' BY <3>3, DeleteType DEF DeleteGrldrNT, DeleteStep, Shared
      <4>2. BootOK' BY <3>3 DEF DeleteGrldrNT, TypeOK, BootOK, boot, DeleteStep
      <4>3. ProgramOK' BY <3>3, StepType DEF DeleteGrldrNT, Steps, UninstallSteps, TypeOK, ProgramOK, DeleteStep
      <4> QED BY <4>1, <4>2, <4>3 DEF TypeOK
    <3>4. CASE DeleteGrldrVista(d)
      <4>1. DiskOK' BY <3>4, DeleteType DEF DeleteGrldrVista, DeleteStep, Shared
      <4>2. BootOK' BY <3>4 DEF DeleteGrldrVista, TypeOK, BootOK, boot, DeleteStep
      <4>3. ProgramOK' BY <3>4, StepType DEF DeleteGrldrVista, Steps, UninstallSteps, TypeOK, ProgramOK, DeleteStep
      <4> QED BY <4>1, <4>2, <4>3 DEF TypeOK
    <3>5. CASE DeleteMenu(d)
      <4>1. DiskOK' BY <3>5, DeleteType DEF DeleteMenu, DeleteStep, Shared
      <4>2. BootOK' BY <3>5 DEF DeleteMenu, TypeOK, BootOK, boot, DeleteStep
      <4>3. ProgramOK' BY <3>5, StepType DEF DeleteMenu, Steps, UninstallSteps, TypeOK, ProgramOK, DeleteStep
      <4> QED BY <4>1, <4>2, <4>3 DEF TypeOK
    <3>6. CASE DeleteMbr(d)
      <4>1. DiskOK' BY <3>6, DeleteType DEF DeleteMbr, DeleteStep, Shared
      <4>2. BootOK' BY <3>6 DEF DeleteMbr, TypeOK, BootOK, boot, DeleteStep
      <4>3. ProgramOK' BY <3>6, StepType DEF DeleteMbr, Steps, UninstallSteps, TypeOK, ProgramOK, DeleteStep
      <4> QED BY <4>1, <4>2, <4>3 DEF TypeOK
    <3>7. CASE RestoreConfig(d)
      <4>1. DiskOK' BY <3>7, RenameType DEF RestoreConfig, Shared
      <4>2. BootOK' BY <3>7 DEF RestoreConfig, TypeOK, BootOK, ProgramOK, boot
      <4>3. ProgramOK' BY <3>7, StepType DEF RestoreConfig, Steps, UninstallSteps, TypeOK, ProgramOK
      <4> QED BY <4>1, <4>2, <4>3 DEF TypeOK
    <3>8. CASE RemoveBootEntry(d)
      <4>1. DiskOK' BY <3>8 DEF RemoveBootEntry, TypeOK, DiskOK, disk
      <4>2. BootOK' BY <3>8 DEF RemoveBootEntry, TypeOK, BootOK, ProgramOK, boot
      <4>3. ProgramOK' BY <3>8, StepType DEF RemoveBootEntry, Steps, UninstallSteps, TypeOK, ProgramOK
      <4> QED BY <4>1, <4>2, <4>3 DEF TypeOK
    <3>9. CASE DeleteRegKey(d)
      <4>1. DiskOK' BY <3>9 DEF DeleteRegKey, TypeOK, DiskOK, disk
      <4>2. BootOK' BY <3>9 DEF DeleteRegKey, TypeOK, BootOK, ProgramOK, boot
      <4>3. ProgramOK' BY <3>9, StepType DEF DeleteRegKey, Steps, UninstallSteps, TypeOK, ProgramOK
      <4> QED BY <4>1, <4>2, <4>3 DEF TypeOK
    <3>10. CASE BcdDelete(d)
      <4>1. CASE reg[d] = None /\ Step(d, "unBcd", "unDir") /\ UNCHANGED <<disk, boot, id>>
        BY <4>1, NothingType, StepType DEF Nothing, TypeOK, ProgramOK, Steps, UninstallSteps
      <4>2. CASE /\ reg[d] # None /\ Step(d, "unBcd", "unReg")
                 /\ bcd' = [bcd EXCEPT ![reg[d]] = [state |-> "deleted", by |-> d, has |-> {}]]
                 /\ UNCHANGED <<disk, bootini, winEntry, reg, id>>
        <5>1. DiskOK' BY <4>2 DEF TypeOK, DiskOK, disk
        <5>2. BootOK' BY <4>2 DEF TypeOK, BootOK
        <5>3. ProgramOK' BY <4>2, StepType DEF Steps, UninstallSteps, TypeOK, ProgramOK
        <5> QED BY <5>1, <5>2, <5>3 DEF TypeOK
      <4>3. CASE Advance(d, "unBcd", "unReg") /\ Note(d, "entry") /\ Nothing
        BY <4>3, NothingType, NoteType DEF TypeOK, Mishaps, Steps, UninstallSteps
      <4> QED BY <3>10, <4>1, <4>2, <4>3 DEF BcdDelete
    <3>11. CASE RemoveDir(d)
      <4>1. DiskOK' BY <3>11 DEF RemoveDir, TypeOK, DiskOK, disk, Own
      <4>2. BootOK' BY <3>11 DEF RemoveDir, TypeOK, BootOK, ProgramOK, boot
      <4>3. ProgramOK' BY <3>11, StepType DEF RemoveDir, Steps, UninstallSteps, TypeOK, ProgramOK
      <4> QED BY <4>1, <4>2, <4>3 DEF TypeOK
    <3>12. CASE DeleteHitme(d)
      <4>1. DiskOK' BY <3>12 DEF DeleteHitme, TypeOK, DiskOK, disk, PutOff, Own
      <4>2. BootOK' BY <3>12 DEF DeleteHitme, TypeOK, BootOK, ProgramOK, boot
      <4>3. ProgramOK' BY <3>12, StepType DEF DeleteHitme, Steps, UninstallSteps, TypeOK, ProgramOK
      <4> QED BY <4>1, <4>2, <4>3 DEF TypeOK
    <3>13. CASE DeleteSelf(d)
      <4>1. DiskOK' BY <3>13 DEF DeleteSelf, TypeOK, DiskOK, disk, PutOff, Own
      <4>2. BootOK' BY <3>13 DEF DeleteSelf, TypeOK, BootOK, ProgramOK, boot
      <4>3. ProgramOK' BY <3>13, StepType DEF DeleteSelf, Steps, UninstallSteps, TypeOK, ProgramOK
      <4> QED BY <4>1, <4>2, <4>3 DEF TypeOK
    <3> QED BY <2>4, <3>1, <3>2, <3>3, <3>4, <3>5, <3>6, <3>7, <3>8, <3>9, <3>10, <3>11, <3>12, <3>13 DEF Uninstall
  <2>5. CASE Restart
    <3>1. DiskOK'
      BY <2>5 DEF Restart, TypeOK, DiskOK
    <3>2. mishaps' \in [Distros -> SUBSET Mishaps]
      BY <2>5 DEF Restart, CutShort, Mishaps, TypeOK, ProgramOK
    <3> QED
      BY <2>5, <3>1, <3>2 DEF Restart, given, boot, TypeOK, BootOK, ProgramOK
  <2>6. CASE UNCHANGED vars
    BY <2>6 DEF vars, given, disk, boot, TypeOK, DiskOK, BootOK, ProgramOK
  <2> QED BY <2>1, <2>2, <2>3, <2>4, <2>5, <2>6 DEF Next
<1>3. QED BY <1>1, <1>2, PTL DEF Spec

(***************************************************************************)
(* Undoable is inductive.                                                  *)
(***************************************************************************)
LEMMA UndoableInit == Init => Undoable
BY InstallerAssumption
   DEF Init, Undoable, Traceless, Armed, OnBranch, FromBranch, Named, Removed, LoaderGone,
       Trace, TraceFiles, Holds, Entered, CanUndo, Hasty, InstallSteps, UninstallSteps, Shared

\* bcdedit's calls for an entry change neither whose it is nor whether it is there.
LEMMA BcdKeeps ==
  ASSUME TypeOK, NEW d \in Distros, NEW call, NEW part, NEW step, NEW next,
         BcdCall(d, call, part, step, next)
  PROVE  /\ UNCHANGED <<uninst, file, hitme, got, pending, late, bootini, reg>>
         /\ \A e \in Distros : (Entered(e)' => Entered(e)) /\ Hasty(e)' = Hasty(e)
<1>1. UNCHANGED <<uninst, file, hitme, got, pending, late, bootini, reg>>
  BY DEF BcdCall, BcdGive, Nothing, disk, boot
<1>2. \A e \in Distros : mishaps[e] \subseteq mishaps'[e]
                     /\ ("hasty" \in mishaps'[e] <=> "hasty" \in mishaps[e])
  BY DEF BcdCall, Note, Step, TypeOK, ProgramOK
<1>3. \A i \in Ids : bcd'[i].state = bcd[i].state /\ bcd'[i].by = bcd[i].by
  BY DEF BcdCall, BcdGive, Nothing, boot, TypeOK, BootOK
<1> QED
  BY <1>1, <1>2, <1>3 DEF Entered, Hasty

LEMMA BcdTraceless ==
  ASSUME TypeOK, Traceless, Removed, NEW d \in Distros, NEW call, NEW part, NEW step, NEW next,
         BcdCall(d, call, part, step, next), next \notin UninstallSteps
  PROVE  Traceless' /\ Removed'
<1>1. Traceless'
  BY BcdKeeps DEF Traceless, Trace, Holds, CanUndo
<1>2. \A e \in Distros : pc'[e] = pc[e] \/ pc'[e] \notin UninstallSteps
  BY DEF BcdCall, Step, Advance, TypeOK, ProgramOK
<1>3. Removed'
  BY <1>2, BcdKeeps DEF Removed, LoaderGone, Holds, UninstallSteps
<1> QED
  BY <1>1, <1>3

LEMMA UndoableInstall ==
  ASSUME TypeOK, Undoable, NEW d \in Distros, Install(d)
  PROVE  Undoable'
<1> USE InstallerAssumption
    DEF TypeOK, DiskOK, BootOK, ProgramOK, Undoable, Traceless, Armed, OnBranch, FromBranch, Named,
        Removed, LoaderGone, Trace, TraceFiles, Holds, Entered, CanUndo, Hasty, Step, Advance,
        given, disk, boot, InstallSteps, UninstallSteps, Shared
<1>1. CASE WriteUninstaller(d)
  <2>1. Traceless' BY <1>1 DEF WriteUninstaller
  <2>2. Armed' BY <1>1 DEF WriteUninstaller
  <2>3. OnBranch' BY <1>1 DEF WriteUninstaller
  <2>4. FromBranch' BY <1>1 DEF WriteUninstaller
  <2>5. Named' BY <1>1 DEF WriteUninstaller
  <2>6. Removed' BY <1>1 DEF WriteUninstaller
  <2> QED BY <2>1, <2>2, <2>3, <2>4, <2>5, <2>6
<1>2. CASE ExtractMbr(d)
  <2>1. Traceless' BY <1>2 DEF ExtractMbr, Write, FamilyStep
  <2>2. Armed' BY <1>2 DEF ExtractMbr, Write, FamilyStep
  <2>3. OnBranch' BY <1>2 DEF ExtractMbr, Write, FamilyStep
  <2>4. FromBranch' BY <1>2 DEF ExtractMbr, Write, FamilyStep
  <2>5. Named' BY <1>2 DEF ExtractMbr, Write, FamilyStep
  <2>6. Removed' BY <1>2 DEF ExtractMbr, Write, FamilyStep
  <2> QED BY <2>1, <2>2, <2>3, <2>4, <2>5, <2>6
<1>3. CASE ExtractGrubExe(d)
  <2>1. Traceless' BY <1>3 DEF ExtractGrubExe, Write
  <2>2. Armed' BY <1>3 DEF ExtractGrubExe, Write
  <2>3. OnBranch' BY <1>3 DEF ExtractGrubExe, Write
  <2>4. FromBranch' BY <1>3 DEF ExtractGrubExe, Write
  <2>5. Named' BY <1>3 DEF ExtractGrubExe, Write
  <2>6. Removed' BY <1>3 DEF ExtractGrubExe, Write
  <2> QED BY <2>1, <2>2, <2>3, <2>4, <2>5, <2>6
<1>4. CASE BackupConfig(d)
  <2>1. Traceless' BY <1>4 DEF BackupConfig, Rename
  <2>2. Armed' BY <1>4 DEF BackupConfig, Rename
  <2>3. OnBranch' BY <1>4 DEF BackupConfig, Rename
  <2>4. FromBranch' BY <1>4 DEF BackupConfig, Rename
  <2>5. Named' BY <1>4 DEF BackupConfig, Rename
  <2>6. Removed' BY <1>4 DEF BackupConfig, Rename
  <2> QED BY <2>1, <2>2, <2>3, <2>4, <2>5, <2>6
<1>5. CASE WriteConfig(d)
  <2>1. Traceless' BY <1>5 DEF WriteConfig, Write
  <2>2. Armed' BY <1>5 DEF WriteConfig, Write
  <2>3. OnBranch' BY <1>5 DEF WriteConfig, Write
  <2>4. FromBranch' BY <1>5 DEF WriteConfig, Write
  <2>5. Named' BY <1>5 DEF WriteConfig, Write
  <2>6. Removed' BY <1>5 DEF WriteConfig, Write
  <2> QED BY <2>1, <2>2, <2>3, <2>4, <2>5, <2>6
<1>6. CASE ExtractGrldrNT(d)
  <2>1. Traceless' BY <1>6 DEF ExtractGrldrNT, Write
  <2>2. Armed' BY <1>6 DEF ExtractGrldrNT, Write
  <2>3. OnBranch' BY <1>6 DEF ExtractGrldrNT, Write
  <2>4. FromBranch' BY <1>6 DEF ExtractGrldrNT, Write
  <2>5. Named' BY <1>6 DEF ExtractGrldrNT, Write
  <2>6. Removed' BY <1>6 DEF ExtractGrldrNT, Write
  <2> QED BY <2>1, <2>2, <2>3, <2>4, <2>5, <2>6
<1>7. CASE SetBootTimeout(d)
  <2>1. Traceless' BY <1>7 DEF SetBootTimeout
  <2>2. Armed' BY <1>7 DEF SetBootTimeout
  <2>3. OnBranch' BY <1>7 DEF SetBootTimeout
  <2>4. FromBranch' BY <1>7 DEF SetBootTimeout
  <2>5. Named' BY <1>7 DEF SetBootTimeout
  <2>6. Removed' BY <1>7 DEF SetBootTimeout
  <2> QED BY <2>1, <2>2, <2>3, <2>4, <2>5, <2>6
<1>8. CASE AddBootEntry(d)
  <2>1. Traceless' BY <1>8 DEF AddBootEntry
  <2>2. Armed' BY <1>8 DEF AddBootEntry
  <2>3. OnBranch' BY <1>8 DEF AddBootEntry
  <2>4. FromBranch' BY <1>8 DEF AddBootEntry
  <2>5. Named' BY <1>8 DEF AddBootEntry
  <2>6. Removed' BY <1>8 DEF AddBootEntry
  <2> QED BY <2>1, <2>2, <2>3, <2>4, <2>5, <2>6
<1>9. CASE BcdCreate(d)
  <2>1. Traceless' BY <1>9 DEF BcdCreate
  <2>2. Armed' BY <1>9 DEF BcdCreate
  <2>3. OnBranch' BY <1>9 DEF BcdCreate
  <2>4. FromBranch' BY <1>9 DEF BcdCreate
  <2>5. Named'
    <3>1. CASE reg[d] # None /\ Step(d, "bcdCreate", "bcdDevice") /\ UNCHANGED <<disk, boot, id>>
      BY <3>1
    <3>2. ASSUME NEW i \in Ids, reg[d] = None, bcd[i].state = "unused",
                 Step(d, "bcdCreate", "bcdSave"),
                 bcd' = [bcd EXCEPT ![i] = [state |-> "there", by |-> d, has |-> {}]],
                 id' = [id EXCEPT ![d] = i], UNCHANGED <<disk, bootini, winEntry, reg>>
          PROVE  Named'
      <4>1. \A e \in Distros : reg[e] # i /\ (pc[e] = "bcdSave" => id[e] # i)
        BY <3>2
      <4> QED BY <3>2, <4>1
    <3>3. CASE Step(d, "bcdCreate", "idle") /\ UNCHANGED <<disk, boot, id>>
      BY <3>3
    <3> QED BY <1>9, <3>1, <3>2, <3>3 DEF BcdCreate
  <2>6. Removed' BY <1>9 DEF BcdCreate
  <2> QED BY <2>1, <2>2, <2>3, <2>4, <2>5, <2>6
<1>10. CASE BcdSave(d)
  <2>1. Traceless' BY <1>10 DEF BcdSave
  <2>2. Armed' BY <1>10 DEF BcdSave
  <2>3. OnBranch' BY <1>10 DEF BcdSave
  <2>4. FromBranch' BY <1>10 DEF BcdSave
  <2>5. Named' BY <1>10 DEF BcdSave
  <2>6. Removed' BY <1>10 DEF BcdSave
  <2> QED BY <2>1, <2>2, <2>3, <2>4, <2>5, <2>6
<1>11. CASE BcdDevice(d)
  <2>1. Traceless' BY <1>11, BcdTraceless DEF BcdDevice
  <2>2. Armed' BY <1>11 DEF BcdDevice, BcdCall, BcdGive, Note, Nothing
  <2>3. OnBranch' BY <1>11 DEF BcdDevice, BcdCall, BcdGive, Note, Nothing
  <2>4. FromBranch' BY <1>11 DEF BcdDevice, BcdCall, BcdGive, Note, Nothing
  <2>5. Named' BY <1>11 DEF BcdDevice, BcdCall, BcdGive, Note, Nothing
  <2>6. Removed' BY <1>11, BcdTraceless DEF BcdDevice
  <2> QED BY <2>1, <2>2, <2>3, <2>4, <2>5, <2>6
<1>12. CASE BcdPath(d)
  <2>1. Traceless' BY <1>12, BcdTraceless DEF BcdPath
  <2>2. Armed' BY <1>12 DEF BcdPath, BcdCall, BcdGive, Note, Nothing
  <2>3. OnBranch' BY <1>12 DEF BcdPath, BcdCall, BcdGive, Note, Nothing
  <2>4. FromBranch' BY <1>12 DEF BcdPath, BcdCall, BcdGive, Note, Nothing
  <2>5. Named' BY <1>12 DEF BcdPath, BcdCall, BcdGive, Note, Nothing
  <2>6. Removed' BY <1>12, BcdTraceless DEF BcdPath
  <2> QED BY <2>1, <2>2, <2>3, <2>4, <2>5, <2>6
<1>13. CASE BcdList(d)
  <2>1. Traceless' BY <1>13, BcdTraceless DEF BcdList
  <2>2. Armed' BY <1>13 DEF BcdList, BcdCall, BcdGive, Note, Nothing
  <2>3. OnBranch' BY <1>13 DEF BcdList, BcdCall, BcdGive, Note, Nothing
  <2>4. FromBranch' BY <1>13 DEF BcdList, BcdCall, BcdGive, Note, Nothing
  <2>5. Named' BY <1>13 DEF BcdList, BcdCall, BcdGive, Note, Nothing
  <2>6. Removed' BY <1>13, BcdTraceless DEF BcdList
  <2> QED BY <2>1, <2>2, <2>3, <2>4, <2>5, <2>6
<1>14. CASE ExtractGrldrVista(d)
  <2>1. Traceless' BY <1>14 DEF ExtractGrldrVista, Write
  <2>2. Armed' BY <1>14 DEF ExtractGrldrVista, Write
  <2>3. OnBranch' BY <1>14 DEF ExtractGrldrVista, Write
  <2>4. FromBranch' BY <1>14 DEF ExtractGrldrVista, Write
  <2>5. Named' BY <1>14 DEF ExtractGrldrVista, Write
  <2>6. Removed' BY <1>14 DEF ExtractGrldrVista, Write
  <2> QED BY <2>1, <2>2, <2>3, <2>4, <2>5, <2>6
<1>15. CASE WriteHitme(d)
  <2>1. Traceless' BY <1>15 DEF WriteHitme
  <2>2. Armed' BY <1>15 DEF WriteHitme
  <2>3. OnBranch' BY <1>15 DEF WriteHitme
  <2>4. FromBranch' BY <1>15 DEF WriteHitme
  <2>5. Named' BY <1>15 DEF WriteHitme
  <2>6. Removed' BY <1>15 DEF WriteHitme
  <2> QED BY <2>1, <2>2, <2>3, <2>4, <2>5, <2>6
<1>16. CASE WriteMenu(d)
  <2>1. Traceless' BY <1>16 DEF WriteMenu, Write, MediaStep
  <2>2. Armed' BY <1>16 DEF WriteMenu, Write, MediaStep
  <2>3. OnBranch' BY <1>16 DEF WriteMenu, Write, MediaStep
  <2>4. FromBranch' BY <1>16 DEF WriteMenu, Write, MediaStep
  <2>5. Named' BY <1>16 DEF WriteMenu, Write, MediaStep
  <2>6. Removed' BY <1>16 DEF WriteMenu, Write, MediaStep
  <2> QED BY <2>1, <2>2, <2>3, <2>4, <2>5, <2>6
<1>17. CASE Container(d)
  <2>1. PICK step \in ContainerSteps, next \in ContainerSteps \cup {"idle"} :
          Goes(d, step, next, "url")
    BY <1>17, ContainerStep
  <2>2. CASE \E p \in Parts : Obtain(d, p)
    <3> USE DEF Obtain, ContainerSteps, Goes, Note
    <3>1. Traceless' BY <2>1, <2>2
    <3>2. Armed' BY <2>1, <2>2
    <3>3. OnBranch' BY <2>1, <2>2
    <3>4. FromBranch' BY <2>1, <2>2
    <3>5. Named' BY <2>1, <2>2
    <3>6. Removed' BY <2>1, <2>2
    <3> QED BY <3>1, <3>2, <3>3, <3>4, <3>5, <3>6
  <2>3. CASE Nothing
    BY <2>1, <2>3 DEF Nothing, ContainerSteps, Goes, Note
  <2> QED BY <1>17, <2>2, <2>3, ContainerStep
<1> QED BY <1>1, <1>2, <1>3, <1>4, <1>5, <1>6, <1>7, <1>8, <1>9, <1>10, <1>11, <1>12, <1>13, <1>14, <1>15, <1>16, <1>17 DEF Install, Container

LEMMA UndoableUninstall ==
  ASSUME TypeOK, Undoable, NEW d \in Distros, Uninstall(d)
  PROVE  Undoable'
<1> USE InstallerAssumption
    DEF TypeOK, DiskOK, BootOK, ProgramOK, Undoable, Traceless, Armed, OnBranch, FromBranch, Named,
        Removed, LoaderGone, Trace, TraceFiles, Holds, Entered, CanUndo, Hasty, Step, Advance,
        given, disk, boot, InstallSteps, UninstallSteps, Shared
<1>1. CASE DeleteGrubExe(d)
  <2>1. Traceless' BY <1>1 DEF DeleteGrubExe, DeleteStep, Delete
  <2>2. Armed' BY <1>1 DEF DeleteGrubExe, DeleteStep, Delete
  <2>3. OnBranch' BY <1>1 DEF DeleteGrubExe, DeleteStep, Delete
  <2>4. FromBranch' BY <1>1 DEF DeleteGrubExe, DeleteStep, Delete
  <2>5. Named' BY <1>1 DEF DeleteGrubExe, DeleteStep, Delete
  <2>6. Removed' BY <1>1 DEF DeleteGrubExe, DeleteStep, Delete
  <2> QED BY <2>1, <2>2, <2>3, <2>4, <2>5, <2>6
<1>2. CASE DeleteConfig(d)
  <2>1. Traceless' BY <1>2 DEF DeleteConfig, DeleteStep, Delete
  <2>2. Armed' BY <1>2 DEF DeleteConfig, DeleteStep, Delete
  <2>3. OnBranch' BY <1>2 DEF DeleteConfig, DeleteStep, Delete
  <2>4. FromBranch' BY <1>2 DEF DeleteConfig, DeleteStep, Delete
  <2>5. Named' BY <1>2 DEF DeleteConfig, DeleteStep, Delete
  <2>6. Removed' BY <1>2 DEF DeleteConfig, DeleteStep, Delete
  <2> QED BY <2>1, <2>2, <2>3, <2>4, <2>5, <2>6
<1>3. CASE RestoreConfig(d)
  <2>1. Traceless' BY <1>3 DEF RestoreConfig, Rename
  <2>2. Armed' BY <1>3 DEF RestoreConfig, Rename
  <2>3. OnBranch' BY <1>3 DEF RestoreConfig, Rename
  <2>4. FromBranch' BY <1>3 DEF RestoreConfig, Rename
  <2>5. Named' BY <1>3 DEF RestoreConfig, Rename
  <2>6. Removed' BY <1>3 DEF RestoreConfig, Rename
  <2> QED BY <2>1, <2>2, <2>3, <2>4, <2>5, <2>6
<1>4. CASE DeleteGrldrNT(d)
  <2>1. Traceless' BY <1>4 DEF DeleteGrldrNT, DeleteStep, Delete
  <2>2. Armed' BY <1>4 DEF DeleteGrldrNT, DeleteStep, Delete
  <2>3. OnBranch' BY <1>4 DEF DeleteGrldrNT, DeleteStep, Delete
  <2>4. FromBranch' BY <1>4 DEF DeleteGrldrNT, DeleteStep, Delete
  <2>5. Named' BY <1>4 DEF DeleteGrldrNT, DeleteStep, Delete
  <2>6. Removed' BY <1>4 DEF DeleteGrldrNT, DeleteStep, Delete
  <2> QED BY <2>1, <2>2, <2>3, <2>4, <2>5, <2>6
<1>5. CASE RemoveBootEntry(d)
  <2>1. Traceless' BY <1>5 DEF RemoveBootEntry
  <2>2. Armed' BY <1>5 DEF RemoveBootEntry
  <2>3. OnBranch' BY <1>5 DEF RemoveBootEntry
  <2>4. FromBranch' BY <1>5 DEF RemoveBootEntry
  <2>5. Named' BY <1>5 DEF RemoveBootEntry
  <2>6. Removed' BY <1>5 DEF RemoveBootEntry
  <2> QED BY <2>1, <2>2, <2>3, <2>4, <2>5, <2>6
<1>6. CASE DeleteGrldrVista(d)
  <2>1. Traceless' BY <1>6 DEF DeleteGrldrVista, DeleteStep, Delete
  <2>2. Armed' BY <1>6 DEF DeleteGrldrVista, DeleteStep, Delete
  <2>3. OnBranch' BY <1>6 DEF DeleteGrldrVista, DeleteStep, Delete
  <2>4. FromBranch' BY <1>6 DEF DeleteGrldrVista, DeleteStep, Delete
  <2>5. Named' BY <1>6 DEF DeleteGrldrVista, DeleteStep, Delete
  <2>6. Removed' BY <1>6 DEF DeleteGrldrVista, DeleteStep, Delete
  <2> QED BY <2>1, <2>2, <2>3, <2>4, <2>5, <2>6
<1>7. CASE BcdDelete(d)
  <2>1. Traceless' BY <1>7 DEF BcdDelete, Note, Nothing
  <2>2. Armed' BY <1>7 DEF BcdDelete, Note, Nothing
  <2>3. OnBranch' BY <1>7 DEF BcdDelete, Note, Nothing
  <2>4. FromBranch' BY <1>7 DEF BcdDelete, Note, Nothing
  <2>5. Named' BY <1>7 DEF BcdDelete, Note, Nothing
  <2>6. Removed' BY <1>7 DEF BcdDelete, Note, Nothing
  <2> QED BY <2>1, <2>2, <2>3, <2>4, <2>5, <2>6
<1>8. CASE DeleteRegKey(d)
  <2>1. Traceless' BY <1>8 DEF DeleteRegKey
  <2>2. Armed' BY <1>8 DEF DeleteRegKey
  <2>3. OnBranch' BY <1>8 DEF DeleteRegKey
  <2>4. FromBranch' BY <1>8 DEF DeleteRegKey
  <2>5. Named' BY <1>8 DEF DeleteRegKey
  <2>6. Removed' BY <1>8 DEF DeleteRegKey
  <2> QED BY <2>1, <2>2, <2>3, <2>4, <2>5, <2>6
<1>9. CASE RemoveDir(d)
  <2>1. Traceless'
    <3>1. \A e \in Distros : got'[e] \ late'[e] \subseteq got[e] \ late[e]
      BY <1>9 DEF RemoveDir
    <3>2. \A e \in Distros : ("uninst" \in late'[e] <=> "uninst" \in late[e])
                          /\ ("hitme" \in late'[e] <=> "hitme" \in late[e])
      BY <1>9 DEF RemoveDir, Parts
    <3> QED BY <1>9, <3>1, <3>2 DEF RemoveDir
  <2>2. Armed' BY <1>9 DEF RemoveDir
  <2>3. OnBranch' BY <1>9 DEF RemoveDir
  <2>4. FromBranch' BY <1>9 DEF RemoveDir
  <2>5. Named' BY <1>9 DEF RemoveDir
  <2>6. Removed' BY <1>9 DEF RemoveDir
  <2> QED BY <2>1, <2>2, <2>3, <2>4, <2>5, <2>6
<1>10. CASE DeleteMenu(d)
  <2>1. Traceless' BY <1>10 DEF DeleteMenu, DeleteStep, Delete
  <2>2. Armed' BY <1>10 DEF DeleteMenu, DeleteStep, Delete
  <2>3. OnBranch' BY <1>10 DEF DeleteMenu, DeleteStep, Delete
  <2>4. FromBranch' BY <1>10 DEF DeleteMenu, DeleteStep, Delete
  <2>5. Named' BY <1>10 DEF DeleteMenu, DeleteStep, Delete
  <2>6. Removed' BY <1>10 DEF DeleteMenu, DeleteStep, Delete
  <2> QED BY <2>1, <2>2, <2>3, <2>4, <2>5, <2>6
<1>11. CASE DeleteMbr(d)
  <2>1. Traceless' BY <1>11 DEF DeleteMbr, DeleteStep, Delete
  <2>2. Armed' BY <1>11 DEF DeleteMbr, DeleteStep, Delete
  <2>3. OnBranch' BY <1>11 DEF DeleteMbr, DeleteStep, Delete
  <2>4. FromBranch' BY <1>11 DEF DeleteMbr, DeleteStep, Delete
  <2>5. Named' BY <1>11 DEF DeleteMbr, DeleteStep, Delete
  <2>6. Removed' BY <1>11 DEF DeleteMbr, DeleteStep, Delete
  <2> QED BY <2>1, <2>2, <2>3, <2>4, <2>5, <2>6
<1>12. CASE DeleteHitme(d)
  <2>1. Traceless' BY <1>12 DEF DeleteHitme, PutOff
  <2>2. Armed' BY <1>12 DEF DeleteHitme, PutOff
  <2>3. OnBranch' BY <1>12 DEF DeleteHitme, PutOff
  <2>4. FromBranch' BY <1>12 DEF DeleteHitme, PutOff
  <2>5. Named' BY <1>12 DEF DeleteHitme, PutOff
  <2>6. Removed' BY <1>12 DEF DeleteHitme, PutOff
  <2> QED BY <2>1, <2>2, <2>3, <2>4, <2>5, <2>6
<1>13. CASE DeleteSelf(d)
  <2>1. Traceless' BY <1>13 DEF DeleteSelf, PutOff
  <2>2. Armed' BY <1>13 DEF DeleteSelf, PutOff
  <2>3. OnBranch' BY <1>13 DEF DeleteSelf, PutOff
  <2>4. FromBranch' BY <1>13 DEF DeleteSelf, PutOff
  <2>5. Named' BY <1>13 DEF DeleteSelf, PutOff
  <2>6. Removed' BY <1>13 DEF DeleteSelf, PutOff
  <2> QED BY <2>1, <2>2, <2>3, <2>4, <2>5, <2>6
<1> QED BY <1>1, <1>2, <1>3, <1>4, <1>5, <1>6, <1>7, <1>8, <1>9, <1>10, <1>11, <1>12, <1>13 DEF Uninstall

LEMMA UndoableNext == TypeOK /\ Undoable /\ [Next]_vars => Undoable'
<1> SUFFICES ASSUME TypeOK, Undoable, [Next]_vars PROVE Undoable'
  OBVIOUS
<1> USE InstallerAssumption DEF Undoable
<1>1. ASSUME NEW d \in Distros, StartInstall(d) PROVE Undoable'
  <2>1. /\ pc[d] = "idle" /\ pc' = [pc EXCEPT ![d] = "arm"]
        /\ UNCHANGED <<given, disk, boot>>
        /\ id' = [id EXCEPT ![d] = None]
    BY <1>1 DEF StartInstall
  <2>2. \A e \in Distros : mishaps[e] \subseteq mishaps'[e]
    BY <1>1 DEF StartInstall, Starting, TypeOK, ProgramOK
  <2>3. "uninst" \in late[d] => "hasty" \in mishaps'[d]
    BY <1>1 DEF StartInstall, Starting, InstallMishaps, TypeOK, ProgramOK
  <2> USE DEF given, disk, boot
  <2>4. \A e \in Distros : (Entered(e)' => Entered(e)) /\ (Hasty(e) => Hasty(e)')
                       /\ (Trace(e)' => Trace(e)) /\ (CanUndo(e)' <=> CanUndo(e))
    BY <2>1, <2>2 DEF Entered, Hasty, Trace, Holds, CanUndo
  <2>5. Traceless'
    BY <2>4 DEF Traceless
  <2>6. Armed'
    BY <2>1, <2>3, <2>4 DEF Armed, Hasty, TypeOK, ProgramOK
  <2>7. OnBranch'
    BY <2>1 DEF OnBranch, TypeOK, ProgramOK
  <2>8. FromBranch'
    BY <2>1, <2>4 DEF FromBranch
  <2>9. Named'
    BY <2>1, <2>2 DEF Named, TypeOK, ProgramOK
  <2>10. Removed'
    BY <2>1, <2>4 DEF Removed, LoaderGone, Holds, TypeOK, ProgramOK
  <2> QED BY <2>5, <2>6, <2>7, <2>8, <2>9, <2>10
<1>2. ASSUME NEW d \in Distros, StartUninstall(d) PROVE Undoable'
  <2>1. PICK step \in {"unGrldrNT", "unGrldrVista", "unExe"} :
          /\ pc[d] = "idle" /\ d \in uninst /\ pc' = [pc EXCEPT ![d] = step]
          /\ step = "unGrldrNT" => family = "NT"
          /\ step = "unGrldrVista" => family = "Vista"
          /\ step = "unExe" => family \notin {"NT", "Vista"}
    <3>1. /\ family = "NT" => UninstallFirst[family] = "unGrldrNT"
          /\ family = "Vista" => UninstallFirst[family] = "unGrldrVista"
          /\ family \notin {"NT", "Vista"} => UninstallFirst[family] = "unExe"
      BY DEF UninstallFirst, TypeOK, ProgramOK
    <3> QED BY <1>2, <3>1 DEF StartUninstall, Advance
  <2>2. UNCHANGED <<given, disk, boot, id>>
    BY <1>2 DEF StartUninstall, Advance, Nothing
  <2>3. \A e \in Distros : mishaps[e] \subseteq mishaps'[e]
    BY <1>2 DEF StartUninstall, Starting, TypeOK, ProgramOK
  <2> USE DEF given, disk, boot
  <2>4. \A e \in Distros : (Entered(e)' => Entered(e)) /\ (Hasty(e) => Hasty(e)')
                       /\ (Trace(e)' => Trace(e)) /\ (CanUndo(e)' <=> CanUndo(e))
    BY <2>2, <2>3 DEF Entered, Hasty, Trace, Holds, CanUndo
  <2>5. Traceless'
    BY <2>4 DEF Traceless
  <2>6. Armed'
    BY <2>1, <2>2, <2>4 DEF Armed, InstallSteps, TypeOK, ProgramOK
  <2>7. OnBranch'
    BY <2>1, <2>2 DEF OnBranch, TypeOK, ProgramOK
  <2>8. FromBranch'
    BY <2>2, <2>4 DEF FromBranch
  <2>9. Named'
    BY <2>1, <2>2, <2>3 DEF Named, TypeOK, ProgramOK
  <2>10. Removed'
    BY <2>1, <2>2, <2>4 DEF Removed, LoaderGone, Holds, TypeOK, ProgramOK
  <2> QED BY <2>5, <2>6, <2>7, <2>8, <2>9, <2>10
<1>3. CASE Restart
  <2>1. /\ pc' = [d \in Distros |-> "idle"] /\ UNCHANGED <<given, boot, id>>
        /\ late' = [d \in Distros |-> {}] /\ pending' = {}
        /\ \A f \in Shared, e \in Distros : Holds(e, f)' => Holds(e, f)
        /\ \A f \in Shared, e \in Distros : file'[f] = e => file[f] = e
    BY <1>3 DEF Restart, Holds
  <2>2. \A e \in Distros : mishaps[e] \subseteq mishaps'[e]
                       /\ (pc[e] = "bcdSave" => "entry" \in mishaps'[e])
    BY <1>3 DEF Restart, CutShort, TypeOK, ProgramOK
  <2>3. \A e \in Distros : CanUndo(e)' <=> CanUndo(e)
    BY <1>3 DEF Restart, CanUndo
  <2> USE DEF given, boot
  <2>4. \A e \in Distros : (Entered(e)' => Entered(e)) /\ (Hasty(e) => Hasty(e)')
    BY <2>1, <2>2 DEF Entered, Hasty
  <2>5. \A e \in Distros : Trace(e)' => Trace(e)
    <3>1. \A e \in Distros : (got[e] \ late[e])' = got[e] \ late[e]
                         /\ (e \in hitme /\ "hitme" \notin late[e] <=> e \in hitme')
      BY <1>3 DEF Restart
    <3> QED
      BY <2>1, <2>4, <3>1 DEF Trace, TraceFiles, Shared
  <2>6. Traceless'
    BY <2>3, <2>4, <2>5 DEF Traceless
  <2>7. Armed' /\ OnBranch' /\ Removed'
    BY <2>1 DEF Armed, OnBranch, Removed, InstallSteps
  <2>8. FromBranch'
    BY <2>1, <2>4 DEF FromBranch, Shared
  <2>9. Named'
    BY <2>1, <2>2 DEF Named
  <2> QED BY <2>6, <2>7, <2>8, <2>9
<1>4. CASE UNCHANGED vars
  <2> USE DEF vars, given, disk, boot
  <2>1. \A e \in Distros : (Entered(e)' <=> Entered(e)) /\ (Hasty(e)' <=> Hasty(e))
                       /\ (Trace(e)' <=> Trace(e)) /\ (CanUndo(e)' <=> CanUndo(e))
    BY <1>4 DEF Entered, Hasty, Trace, Holds, CanUndo
  <2>2. Traceless' /\ Armed'
    BY <1>4, <2>1 DEF Traceless, Armed
  <2>3. OnBranch' /\ FromBranch' /\ Named'
    BY <1>4, <2>1 DEF OnBranch, FromBranch, Named
  <2>4. Removed'
    BY <1>4, <2>1 DEF Removed, LoaderGone, Holds
  <2> QED BY <2>2, <2>3, <2>4
<1> QED BY <1>1, <1>2, <1>3, <1>4, UndoableInstall, UndoableUninstall DEF Next

(***************************************************************************)
(* Whatever a distribution left on the disk, in the registry or in the     *)
(* boot manager, its uninstaller is there to remove it: at every moment,   *)
(* for any number of distributions whose installers and uninstallers run,  *)
(* fail, are put off and are cut short side by side.                       *)
(***************************************************************************)
THEOREM StaysUndoable == Spec => []Undoable
  BY UndoableInit, UndoableNext, TypeCorrect, PTL DEF Spec

(***************************************************************************)
(* So nothing of a distribution is left without its uninstaller.           *)
(***************************************************************************)
THEOREM TracesCanBeRemoved == Spec => []Traceless
<1>1. Undoable => Traceless
  BY DEF Undoable
<1> QED
  BY <1>1, StaysUndoable, PTL

(***************************************************************************)
(* A step of d's program leaves the uninstallers alone, and no trace but   *)
(* of d, whose uninstaller is in place.                                    *)
(***************************************************************************)
Armeds == {d \in Distros : CanUndo(d)}
Dirty  == {d \in Distros : Trace(d) /\ ~ Hasty(d)}

OwnTrace(d) ==
  /\ UNCHANGED Armeds
  /\ \A e \in Distros : e \in Dirty' => e \in Dirty \/ (e = d /\ CanUndo(d))

LEMMA OwnTraceLogs ==
  ASSUME NEW d \in Distros, OwnTrace(d)
  PROVE  Undo!Next
<1>1. CASE d \in Dirty' /\ CanUndo(d)
  BY <1>1 DEF OwnTrace, Armeds, Dirty, Undo!Next, Undo!Touch
<1>2. CASE ~ (d \in Dirty' /\ CanUndo(d))
  BY <1>2 DEF OwnTrace, Armeds, Dirty, Undo!Next, Undo!Clean
<1> QED BY <1>1, <1>2

LEMMA InstallLogs ==
  ASSUME TypeOK, Undoable, NEW d \in Distros, Install(d)
  PROVE  Undo!Next \/ UNCHANGED <<Armeds, Dirty>>
<1>1. CASE WriteUninstaller(d)
  <2>1. \A e \in Distros : Trace(e)' = Trace(e) /\ Hasty(e)' = Hasty(e)
    BY <1>1 DEF WriteUninstaller, Step, Advance, boot, Trace, TraceFiles, Holds, Hasty, Entered
  <2>2. Dirty' = Dirty
    BY <2>1 DEF Dirty
  <2>3. Armeds' = Armeds \cup {d} \/ Armeds' = Armeds
    BY <1>1 DEF WriteUninstaller, Armeds, CanUndo, TypeOK, DiskOK
  <2> QED BY <2>2, <2>3 DEF Armeds, Dirty, Undo!Arm, Undo!Next
<1>2. CASE ~ WriteUninstaller(d)
  <2>0. /\ UNCHANGED <<uninst, late>>
        /\ \A e \in Distros : Hasty(e)' = Hasty(e)
        /\ CanUndo(d) \/ Hasty(d)
    <3> USE <1>2 DEF Install, Step, Advance, given, disk, boot, Nothing, Note, Hasty,
          Undoable, Armed, TypeOK, ProgramOK, InstallSteps
    <3>1. CASE ExtractMbr(d) BY <3>1 DEF ExtractMbr, Write, FamilyStep
    <3>2. CASE ExtractGrubExe(d) BY <3>2 DEF ExtractGrubExe, Write
    <3>3. CASE BackupConfig(d) BY <3>3 DEF BackupConfig, Rename
    <3>4. CASE WriteConfig(d) BY <3>4 DEF WriteConfig, Write
    <3>5. CASE ExtractGrldrNT(d) BY <3>5 DEF ExtractGrldrNT, Write
    <3>6. CASE SetBootTimeout(d) BY <3>6 DEF SetBootTimeout
    <3>7. CASE AddBootEntry(d) BY <3>7 DEF AddBootEntry
    <3>8. CASE BcdCreate(d) BY <3>8 DEF BcdCreate
    <3>9. CASE BcdSave(d) BY <3>9 DEF BcdSave
    <3>10. CASE BcdDevice(d) BY <3>10 DEF BcdDevice, BcdCall, BcdGive, Note, Nothing
    <3>11. CASE BcdPath(d) BY <3>11 DEF BcdPath, BcdCall, BcdGive, Note, Nothing
    <3>12. CASE BcdList(d) BY <3>12 DEF BcdList, BcdCall, BcdGive, Note, Nothing
    <3>13. CASE ExtractGrldrVista(d) BY <3>13 DEF ExtractGrldrVista, Write
    <3>14. CASE WriteHitme(d) BY <3>14 DEF WriteHitme
    <3>15. CASE WriteMenu(d) BY <3>15 DEF WriteMenu, Write, MediaStep
    <3>16. CASE Container(d)
      BY <3>16, ContainerStep DEF Obtain, ContainerSteps, Goes
    <3> QED BY <3>1, <3>2, <3>3, <3>4, <3>5, <3>6, <3>7, <3>8, <3>9, <3>10, <3>11, <3>12, <3>13, <3>14, <3>15, <3>16 DEF Container
  <2>00. SUFFICES \A e \in Distros : Trace(e)' => Trace(e) \/ e = d
    <3>1. ASSUME \A e \in Distros : Trace(e)' => Trace(e) \/ e = d
          PROVE  OwnTrace(d)
      BY <2>0, <3>1 DEF OwnTrace, Dirty, Armeds, CanUndo
    <3> QED BY <3>1, OwnTraceLogs
  <2> USE InstallerAssumption
      DEF TypeOK, DiskOK, BootOK, ProgramOK, Trace, TraceFiles, Entered,
          Holds, Step, Advance, given, disk, boot, InstallSteps, UninstallSteps, Shared
  <2>1. CASE ExtractMbr(d)
    BY <2>1 DEF ExtractMbr, Write, FamilyStep
  <2>2. CASE ExtractGrubExe(d)
    BY <2>2 DEF ExtractGrubExe, Write
  <2>3. CASE BackupConfig(d)
    BY <2>3 DEF BackupConfig, Rename
  <2>4. CASE WriteConfig(d)
    BY <2>4 DEF WriteConfig, Write
  <2>5. CASE ExtractGrldrNT(d)
    BY <2>5 DEF ExtractGrldrNT, Write
  <2>6. CASE SetBootTimeout(d)
    BY <2>6 DEF SetBootTimeout
  <2>7. CASE AddBootEntry(d)
    BY <2>7 DEF AddBootEntry
  <2>8. CASE BcdCreate(d)
    BY <2>8 DEF BcdCreate
  <2>9. CASE BcdSave(d)
    BY <2>9 DEF BcdSave
  <2>10. CASE BcdDevice(d)
    BY <2>10, BcdKeeps DEF BcdDevice
  <2>11. CASE BcdPath(d)
    BY <2>11, BcdKeeps DEF BcdPath
  <2>12. CASE BcdList(d)
    BY <2>12, BcdKeeps DEF BcdList
  <2>13. CASE ExtractGrldrVista(d)
    BY <2>13 DEF ExtractGrldrVista, Write
  <2>14. CASE WriteHitme(d)
    BY <2>14 DEF WriteHitme
  <2>15. CASE WriteMenu(d)
    BY <2>15 DEF WriteMenu, Write, MediaStep
  <2>16. CASE Container(d)
    <3>1. PICK step \in ContainerSteps, next \in ContainerSteps \cup {"idle"} :
            Goes(d, step, next, "url")
      BY <2>16, ContainerStep
    <3>2. CASE \E p \in Parts : Obtain(d, p)
      BY <3>1, <3>2 DEF Obtain, ContainerSteps, Goes, Note
    <3>3. CASE Nothing
      BY <3>1, <3>3 DEF Nothing, Goes, Note
    <3> QED BY <2>16, <3>2, <3>3, ContainerStep
  <2> QED BY <1>2, <2>1, <2>2, <2>3, <2>4, <2>5, <2>6, <2>7, <2>8, <2>9, <2>10, <2>11, <2>12, <2>13, <2>14, <2>15, <2>16 DEF Install, Container
<1> QED BY <1>1, <1>2

LEMMA UninstallLogs ==
  ASSUME TypeOK, Undoable, NEW d \in Distros, Uninstall(d)
  PROVE  Undo!Next \/ UNCHANGED <<Armeds, Dirty>>
<1>1. CASE DeleteSelf(d)
  <2>1. ~ Trace(d)
    BY <1>1, InstallerAssumption
       DEF DeleteSelf, Step, Advance, Undoable, Removed, LoaderGone, Trace, TraceFiles, Holds
  <2>2. \A e \in Distros : Trace(e)' = Trace(e) /\ Hasty(e)' = Hasty(e)
    <3>1. /\ UNCHANGED <<file, hitme, got, pending, boot, mishaps>>
          /\ \A e \in Distros, f \in Parts \cup {"hitme"} : f \in late'[e] <=> f \in late[e]
      BY <1>1 DEF DeleteSelf, Step, PutOff, Parts, TypeOK, DiskOK
    <3>2. \A e \in Distros : (got[e] \ late[e] # {})' <=> got[e] \ late[e] # {}
      BY <3>1 DEF TypeOK, DiskOK
    <3> QED BY <3>1, <3>2 DEF boot, Trace, Holds, Hasty, Entered
  <2>3. Dirty' = Dirty
    BY <2>2 DEF Dirty
  <2>4. Armeds' = Armeds \ {d}
    BY <1>1 DEF DeleteSelf, PutOff, Armeds, CanUndo, TypeOK, DiskOK
  <2>5. d \in Armeds => Undo!Disarm(d)
    BY <2>1, <2>3, <2>4 DEF Armeds, Dirty, Undo!Disarm
  <2> QED BY <2>3, <2>4, <2>5 DEF Undo!Next
<1>2. CASE ~ DeleteSelf(d)
  <2>0. /\ Armeds' = Armeds
        /\ \A e \in Distros : Hasty(e)' = Hasty(e)
    <3> USE <1>2 DEF Uninstall, Step, Advance, given, disk, Nothing, Note, Hasty, DeleteStep,
          Armeds, CanUndo, TypeOK, DiskOK, ProgramOK
    <3>1. CASE DeleteGrubExe(d) BY <3>1 DEF DeleteGrubExe
    <3>2. CASE DeleteConfig(d) BY <3>2 DEF DeleteConfig
    <3>3. CASE RestoreConfig(d) BY <3>3 DEF RestoreConfig
    <3>4. CASE DeleteGrldrNT(d) BY <3>4 DEF DeleteGrldrNT
    <3>5. CASE RemoveBootEntry(d) BY <3>5 DEF RemoveBootEntry
    <3>6. CASE DeleteGrldrVista(d) BY <3>6 DEF DeleteGrldrVista
    <3>7. CASE BcdDelete(d) BY <3>7 DEF BcdDelete
    <3>8. CASE DeleteRegKey(d) BY <3>8 DEF DeleteRegKey
    <3>9. CASE RemoveDir(d) BY <3>9 DEF RemoveDir, Parts
    <3>10. CASE DeleteMenu(d) BY <3>10 DEF DeleteMenu
    <3>11. CASE DeleteMbr(d) BY <3>11 DEF DeleteMbr
    <3>12. CASE DeleteHitme(d) BY <3>12 DEF DeleteHitme, PutOff
    <3> QED BY <3>1, <3>2, <3>3, <3>4, <3>5, <3>6, <3>7, <3>8, <3>9, <3>10, <3>11, <3>12
  <2>00. SUFFICES \A e \in Distros : Trace(e)' => Trace(e)
    <3>1. ASSUME \A e \in Distros : Trace(e)' => Trace(e)
          PROVE  OwnTrace(d)
      BY <2>0, <3>1 DEF OwnTrace, Dirty
    <3> QED BY <3>1, OwnTraceLogs
  <2> USE InstallerAssumption
      DEF TypeOK, DiskOK, BootOK, ProgramOK, Trace, TraceFiles, Holds, Step, Advance, Entered,
          given, disk, boot, Shared
  <2>1. CASE DeleteGrubExe(d)
    BY <2>1 DEF DeleteGrubExe, DeleteStep, Delete
  <2>2. CASE DeleteConfig(d)
    BY <2>2 DEF DeleteConfig, DeleteStep, Delete
  <2>3. CASE RestoreConfig(d)
    BY <2>3 DEF RestoreConfig, Rename
  <2>4. CASE DeleteGrldrNT(d)
    BY <2>4 DEF DeleteGrldrNT, DeleteStep, Delete
  <2>5. CASE RemoveBootEntry(d)
    BY <2>5 DEF RemoveBootEntry
  <2>6. CASE DeleteGrldrVista(d)
    BY <2>6 DEF DeleteGrldrVista, DeleteStep, Delete
  <2>7. CASE BcdDelete(d)
    BY <2>7 DEF BcdDelete, Note, Nothing
  <2>8. CASE DeleteRegKey(d)
    BY <2>8 DEF DeleteRegKey
  <2>9. CASE RemoveDir(d)
    BY <2>9 DEF RemoveDir, Parts
  <2>10. CASE DeleteMenu(d)
    BY <2>10 DEF DeleteMenu, DeleteStep, Delete
  <2>11. CASE DeleteMbr(d)
    BY <2>11 DEF DeleteMbr, DeleteStep, Delete
  <2>12. CASE DeleteHitme(d)
    BY <2>12 DEF DeleteHitme, PutOff
  <2> QED BY <1>2, <2>1, <2>2, <2>3, <2>4, <2>5, <2>6, <2>7, <2>8, <2>9, <2>10, <2>11, <2>12 DEF Uninstall
<1> QED BY <1>1, <1>2

(***************************************************************************)
(* The installer and the uninstaller implement the undo log: a step of     *)
(* theirs arms, touches under arms, cleans, or disarms when all is clean,  *)
(* or is none of the log's business.                                       *)
(***************************************************************************)
THEOREM InstallerImplementsUndoLog == Spec => ImplementsUndoLog
<1>1. Init => Undo!Init
  BY InstallerAssumption
     DEF Init, Undo!Init, Trace, TraceFiles, Holds, Entered, CanUndo, Shared
<1>2. TypeOK /\ Undoable /\ [Next]_vars => [Undo!Next]_<<Armeds, Dirty>>
  <2> SUFFICES ASSUME TypeOK, Undoable, [Next]_vars
               PROVE  Undo!Next \/ UNCHANGED <<Armeds, Dirty>>
    OBVIOUS
  <2>0. ASSUME Armeds' = Armeds, Dirty' \subseteq Dirty
        PROVE  Undo!Next \/ UNCHANGED <<Armeds, Dirty>>
    <3>1. CASE Dirty' = Dirty
      BY <2>0, <3>1
    <3>2. CASE Dirty' # Dirty
      <4>1. PICK d \in Distros : d \in Dirty /\ d \notin Dirty'
        BY <2>0, <3>2 DEF Dirty
      <4>2. OwnTrace(d)
        BY <2>0 DEF OwnTrace
      <4> QED BY <4>2, OwnTraceLogs
    <3> QED BY <3>1, <3>2
  <2>1. ASSUME NEW d \in Distros, StartInstall(d) \/ StartUninstall(d)
        PROVE  Armeds' = Armeds /\ Dirty' \subseteq Dirty
    <3>1. UNCHANGED <<disk, boot>>
      BY <2>1 DEF StartInstall, StartUninstall, Nothing
    <3>2. \A e \in Distros : mishaps[e] \subseteq mishaps'[e]
      BY <2>1 DEF StartInstall, StartUninstall, Starting, TypeOK, ProgramOK
    <3>3. \A e \in Distros : (Trace(e)' => Trace(e)) /\ (Hasty(e) => Hasty(e)')
                         /\ (CanUndo(e)' <=> CanUndo(e))
      BY <3>1, <3>2 DEF disk, boot, Trace, Holds, Entered, Hasty, CanUndo
    <3> QED BY <3>3 DEF Armeds, Dirty
  <2>2. CASE Restart
    <3>1. \A e \in Distros : (CanUndo(e)' <=> CanUndo(e)) /\ mishaps[e] \subseteq mishaps'[e]
                         /\ (got[e] \ late[e])' = got[e] \ late[e]
                         /\ (e \in hitme /\ "hitme" \notin late[e] <=> e \in hitme')
      BY <2>2 DEF Restart, CanUndo, TypeOK, ProgramOK
    <3>2. \A e \in Distros, f \in Shared : Holds(e, f)' => Holds(e, f)
      BY <2>2, InstallerAssumption DEF Restart, Holds
    <3>3. \A e \in Distros : (Trace(e)' => Trace(e)) /\ (Hasty(e) => Hasty(e)')
      BY <2>2, <3>1, <3>2 DEF Restart, boot, Trace, TraceFiles, Shared, Entered, Hasty
    <3> QED BY <2>0, <3>1, <3>3 DEF Armeds, Dirty
  <2>3. CASE UNCHANGED vars
    <3>1. \A e \in Distros : (Trace(e)' <=> Trace(e)) /\ (Hasty(e)' <=> Hasty(e))
                         /\ (CanUndo(e)' <=> CanUndo(e))
      BY <2>3 DEF vars, disk, boot, Trace, Holds, Entered, Hasty, CanUndo
    <3> QED BY <3>1 DEF Armeds, Dirty
  <2> QED BY <2>0, <2>1, <2>2, <2>3, InstallLogs, UninstallLogs DEF Next
<1>3. QED BY <1>1, <1>2, StaysUndoable, TypeCorrect, PTL
         DEF Spec, ImplementsUndoLog, Undo!Spec, Armeds, Dirty

------------------------------------------------------------------------------
(***************************************************************************)
(* The user's C:\config.sys, when none of what endangers it has happened:  *)
(* on Windows 9x one distribution at a time then has its uninstaller in    *)
(* place or its program running, and whoever can be uninstalled has a      *)
(* backup to restore; elsewhere nobody touches the file.                   *)
(***************************************************************************)
Untouched == file["config.sys"] = User /\ file["config-bak.sys"] = None
BackedUp  == file["config-bak.sys"] = User

Engaged(d) == d \in uninst \/ pc[d] # "idle"

\* Where the program is between the backup and the restoring, and after it has
\* deleted, or put off deleting, its own config.sys.
WhileBackedUp == {"config", "hitme", "menu", "unExe", "unConfig", "unRestore"}
                 \cup ContainerSteps
ConfigGone == {"idle", "unRestore", "unDir", "unMenu", "unMbr", "unHitme", "unSelf"}

SafeInv ==
  /\ "config-bak.sys" \notin pending
  /\ Untouched \/ BackedUp
  /\ "config.sys" \in pending => BackedUp /\ file["config.sys"] # None
  /\ family # "9x" => Untouched
  /\ family = "9x" =>
       \A d \in Distros :
         /\ \A e \in Distros : Engaged(d) /\ Engaged(e) => d = e
         /\ pc[d] \in {"idle", "arm"} /\ CanUndo(d) => BackedUp
         /\ pc[d] \in WhileBackedUp => BackedUp
         /\ "config.sys" \in pending => pc[d] \in ConfigGone

KeptInv == ~ ConfigEndangered => SafeInv

\* A statement that leaves both files alone and does not enter or leave the
\* stretch between backup and restoring.
LEMMA OtherStepKept ==
  ASSUME TypeOK, SafeInv, NEW d \in Distros, NEW step, NEW next, Advance(d, step, next),
         step # "idle", uninst' = uninst, CanUndo(d)' => CanUndo(d),
         \A e \in Distros \ {d} : late'[e] = late[e],
         pending' \subseteq pending \cup (Shared \ {"config.sys", "config-bak.sys"}),
         file'["config.sys"] = file["config.sys"],
         file'["config-bak.sys"] = file["config-bak.sys"],
         step \in ConfigGone => next \in ConfigGone,
         family = "9x" /\ next \in WhileBackedUp \cup {"idle", "arm"}
           => BackedUp \/ (next = "idle" /\ ~ CanUndo(d)')
  PROVE  SafeInv'
<1>1. /\ pc' = [pc EXCEPT ![d] = next] /\ family' = family /\ pc[d] = step
      /\ pc'[d] = next /\ \A e \in Distros \ {d} : pc'[e] = pc[e]
  BY DEF Advance, given, TypeOK, ProgramOK
<1>2. \A e \in Distros : (Engaged(e)' => Engaged(e)) /\ (CanUndo(e)' => CanUndo(e))
  BY <1>1 DEF Engaged, CanUndo
<1>3. "config.sys" \in pending' => "config.sys" \in pending
  OBVIOUS
<1>4. Untouched' = Untouched /\ BackedUp' = BackedUp
  BY DEF Untouched, BackedUp
<1>5. ASSUME family = "9x", NEW e \in Distros
      PROVE  /\ pc'[e] \in {"idle", "arm"} /\ CanUndo(e)' => BackedUp
             /\ pc'[e] \in WhileBackedUp => BackedUp
             /\ "config.sys" \in pending' => pc'[e] \in ConfigGone
  <2>1. CASE e = d
    <3>1. pc'[e] \in {"idle", "arm"} /\ CanUndo(e)' => BackedUp
      BY <1>1, <1>5, <2>1
    <3>2. pc'[e] \in WhileBackedUp => BackedUp
      BY <1>1, <1>5, <2>1 DEF WhileBackedUp, ContainerSteps
    <3>3. "config.sys" \in pending' => pc'[e] \in ConfigGone
      BY <1>1, <1>3, <1>5, <2>1 DEF SafeInv
    <3> QED
      BY <3>1, <3>2, <3>3
  <2>2. CASE e # d
    BY <1>1, <1>2, <1>3, <1>5, <2>2 DEF SafeInv
  <2> QED
    BY <2>1, <2>2
<1> QED
  BY <1>1, <1>2, <1>3, <1>4, <1>5 DEF SafeInv

LEMMA KeptInstall ==
  ASSUME TypeOK, Undoable, SafeInv, family # "other", NEW d \in Distros, Install(d)
  PROVE  SafeInv'
<1> USE InstallerAssumption DEF TypeOK, DiskOK, ProgramOK
<1>0. /\ family \in {"9x", "NT", "Vista"}
      /\ family = "9x" /\ pc[d] \in WhileBackedUp => BackedUp
  BY DEF SafeInv
<1>1. CASE WriteUninstaller(d)
  <2>1. /\ pc' = [pc EXCEPT ![d] = "mbr"] /\ pc[d] = "arm" /\ uninst' = uninst \cup {d}
        /\ UNCHANGED <<file, pending, late, family>>
    BY <1>1 DEF WriteUninstaller, Step, Advance, given
  <2>2. \A e \in Distros : Engaged(e)' => Engaged(e)
    BY <2>1 DEF Engaged
  <2>3. \A e \in Distros : (e # d /\ CanUndo(e)' => CanUndo(e)) /\ (e # d => pc'[e] = pc[e])
    BY <2>1 DEF CanUndo
  <2>4. Untouched' = Untouched /\ BackedUp' = BackedUp
    BY <2>1 DEF Untouched, BackedUp
  <2>5. "mbr" \notin WhileBackedUp \cup {"idle", "arm"} /\ "arm" \notin ConfigGone
    BY DEF WhileBackedUp, ContainerSteps, ConfigGone
  <2> QED
    BY <2>1, <2>2, <2>3, <2>4, <2>5 DEF SafeInv
<1>2. CASE ExtractMbr(d)
  <2>1. Advance(d, "mbr", FamilyStep[family]) /\ UNCHANGED <<uninst, late, pending>>
        /\ file' = [file EXCEPT !["grldr.mbr"] = d]
    BY <1>2 DEF ExtractMbr, Write, Step
  <2>2. FamilyStep[family] \in {"exe9x", "grldrNT", "bcdCreate"}
    BY <1>0 DEF FamilyStep
  <2>3. FamilyStep[family] \notin WhileBackedUp \cup {"idle", "arm"} /\ "mbr" \notin ConfigGone
    BY <2>2 DEF WhileBackedUp, ContainerSteps, ConfigGone
  <2> QED
    BY <2>1, <2>3, OtherStepKept DEF Shared, CanUndo
<1>3. CASE ExtractGrubExe(d)
  BY <1>3, OtherStepKept
     DEF ExtractGrubExe, Step, Write, Shared, CanUndo, WhileBackedUp, ContainerSteps, ConfigGone
<1>4. CASE BackupConfig(d)
  <2>1. /\ family = "9x" /\ pc' = [pc EXCEPT ![d] = "config"] /\ pc[d] = "backup"
        /\ Rename("config.sys", "config-bak.sys") /\ UNCHANGED <<uninst, pending, late, family>>
    BY <1>4 DEF BackupConfig, Undoable, OnBranch, Step, Advance, given
  <2>2. BackedUp'
    BY <2>1 DEF Rename, SafeInv, Untouched, BackedUp, Shared
  <2>3. \A e \in Distros : Engaged(e)' => Engaged(e)
    BY <2>1 DEF Engaged
  <2>4. "config.sys" \notin pending
    BY <2>1 DEF SafeInv, ConfigGone
  <2> QED
    BY <2>1, <2>2, <2>3, <2>4 DEF SafeInv
<1>5. CASE WriteConfig(d)
  <2>1. /\ family = "9x" /\ pc' = [pc EXCEPT ![d] = "hitme"] /\ pc[d] = "config"
        /\ Write("config.sys", d) /\ UNCHANGED <<uninst, pending, late, family>>
    BY <1>5 DEF WriteConfig, Undoable, OnBranch, Step, Advance, given
  <2>2. BackedUp'
    BY <1>0, <2>1 DEF Write, BackedUp, Shared, WhileBackedUp
  <2>3. \A e \in Distros : Engaged(e)' => Engaged(e)
    BY <2>1 DEF Engaged
  <2>4. "config.sys" \notin pending
    BY <2>1 DEF SafeInv, ConfigGone
  <2> QED
    BY <2>1, <2>2, <2>3, <2>4 DEF SafeInv
<1>6. CASE ExtractGrldrNT(d) \/ SetBootTimeout(d) \/ AddBootEntry(d)
  <2>1. family = "NT"
    BY <1>6 DEF ExtractGrldrNT, SetBootTimeout, AddBootEntry, Undoable, OnBranch, Step, Advance
  <2> QED
    BY <1>6, <2>1, OtherStepKept
       DEF ExtractGrldrNT, SetBootTimeout, AddBootEntry, Step, Write, Shared, disk, CanUndo,
           ConfigGone
<1>7. CASE BcdCreate(d) \/ BcdSave(d) \/ BcdDevice(d) \/ BcdPath(d) \/ BcdList(d)
  <2>1. UNCHANGED disk
    BY <1>7 DEF BcdCreate, BcdSave, BcdDevice, BcdPath, BcdList, BcdCall, BcdGive, Nothing
  <2>2. PICK step \in {"bcdCreate", "bcdSave", "bcdDevice", "bcdPath", "bcdList"},
             next \in {"bcdSave", "bcdDevice", "bcdPath", "bcdList", "grldrVista", "idle"} :
          Advance(d, step, next)
    BY <1>7 DEF BcdCreate, BcdSave, BcdDevice, BcdPath, BcdList, BcdCall, Step
  <2>3. family = "Vista"
    BY <2>2 DEF Undoable, OnBranch, Advance
  <2> QED
    BY <2>1, <2>2, <2>3, OtherStepKept DEF disk, CanUndo, ConfigGone
<1>8. CASE ExtractGrldrVista(d)
  <2>1. family = "Vista"
    BY <1>8 DEF ExtractGrldrVista, Undoable, OnBranch, Step, Advance
  <2> QED
    BY <1>8, <2>1, OtherStepKept DEF ExtractGrldrVista, Step, Write, Shared, CanUndo, ConfigGone
<1>9. CASE WriteHitme(d)
  <2>1. Advance(d, "hitme", "menu") /\ UNCHANGED <<uninst, file, pending, late>>
        /\ pc[d] \in WhileBackedUp
    BY <1>9 DEF WriteHitme, Step, Advance, WhileBackedUp
  <2> QED
    BY <1>0, <2>1, OtherStepKept DEF CanUndo, ConfigGone
<1>10. CASE WriteMenu(d)
  <2>1. Advance(d, "menu", MediaStep[media[d]]) /\ UNCHANGED <<uninst, pending, late>>
        /\ file' = [file EXCEPT !["menu.lst"] = d] /\ pc[d] \in WhileBackedUp
    BY <1>10 DEF WriteMenu, Write, Step, Advance, WhileBackedUp
  <2> QED
    BY <1>0, <2>1, OtherStepKept DEF Shared, CanUndo, ConfigGone
<1>11. CASE Container(d)
  <2>1. PICK step \in ContainerSteps, next \in ContainerSteps \cup {"idle"} :
          Goes(d, step, next, "url")
    BY <1>11, ContainerStep
  <2>2. UNCHANGED <<uninst, file, pending, late>>
    <3>1. (\E p \in Parts : Obtain(d, p)) \/ Nothing
      BY <1>11, ContainerStep
    <3> QED
      BY <3>1 DEF Obtain, Nothing, disk
  <2>3. Advance(d, step, next)
    BY <2>1 DEF Goes, Step
  <2>4. pc[d] \in WhileBackedUp /\ step \notin ConfigGone /\ step # "idle"
    BY <2>3 DEF Advance, WhileBackedUp, ContainerSteps, ConfigGone
  <2> QED
    BY <1>0, <2>2, <2>3, <2>4, OtherStepKept DEF CanUndo
<1> QED
  BY <1>1, <1>2, <1>3, <1>4, <1>5, <1>6, <1>7, <1>8, <1>9, <1>10, <1>11
     DEF Install, Container

LEMMA KeptUninstall ==
  ASSUME TypeOK, Undoable, SafeInv, family # "other", NEW d \in Distros, Uninstall(d)
  PROVE  SafeInv'
<1> USE InstallerAssumption DEF TypeOK, DiskOK, ProgramOK
<1>0. /\ family \in {"9x", "NT", "Vista"}
      /\ family = "9x" /\ pc[d] \in WhileBackedUp => BackedUp
  BY DEF SafeInv
<1>1. CASE DeleteGrubExe(d)
  <2>1. Advance(d, "unExe", "unConfig") /\ Delete("grub.exe") /\ UNCHANGED <<uninst, late>>
        /\ pc[d] \in WhileBackedUp
    BY <1>1 DEF DeleteGrubExe, DeleteStep, Step, Advance, WhileBackedUp
  <2> QED
    BY <1>0, <2>1, OtherStepKept DEF Delete, Shared, CanUndo, ConfigGone
<1>2. CASE DeleteConfig(d)
  <2>1. /\ pc' = [pc EXCEPT ![d] = "unRestore"] /\ pc[d] = "unConfig" /\ family = "9x"
        /\ UNCHANGED <<uninst, late, family>> /\ Delete("config.sys")
    BY <1>0, <1>2 DEF DeleteConfig, DeleteStep, Step, Advance, given, Undoable, OnBranch
  <2>2. BackedUp' /\ "config.sys" \notin pending
    BY <1>0, <2>1 DEF Delete, BackedUp, WhileBackedUp, Shared, SafeInv, ConfigGone
  <2>3. /\ "config-bak.sys" \notin pending'
        /\ "config.sys" \in pending' => file'["config.sys"] # None
    BY <2>1, <2>2 DEF Delete, SafeInv
  <2>4. \A e \in Distros : Engaged(e)' => Engaged(e)
    BY <2>1 DEF Engaged
  <2>5. \A e \in Distros : pc'[e] \in ConfigGone
    <3>1. \A e \in Distros \ {d} : pc'[e] = "idle"
      BY <2>1 DEF SafeInv, Engaged
    <3> QED
      BY <2>1, <3>1 DEF ConfigGone
  <2> QED
    BY <2>1, <2>2, <2>3, <2>4, <2>5 DEF SafeInv
<1>3. CASE RestoreConfig(d)
  <2>1. /\ pc' = [pc EXCEPT ![d] = "unDir"] /\ pc[d] = "unRestore" /\ family = "9x"
        /\ Rename("config-bak.sys", "config.sys") /\ UNCHANGED <<uninst, pending, late, family>>
    BY <1>0, <1>3 DEF RestoreConfig, Step, Advance, given, Undoable, OnBranch
  <2>2. BackedUp
    BY <1>0, <2>1 DEF WhileBackedUp
  <2>3. CASE file["config.sys"] = None
    <3>1. Untouched' /\ "config.sys" \notin pending
      BY <2>1, <2>2, <2>3 DEF Rename, BackedUp, Untouched, Shared, SafeInv
    <3>2. \A e \in Distros : Engaged(e)' => Engaged(e)
      BY <2>1 DEF Engaged
    <3>3. \A e \in Distros \ {d} : pc'[e] = "idle" /\ ~ CanUndo(e)'
      BY <2>1 DEF SafeInv, Engaged, CanUndo
    <3>4. "unDir" \notin WhileBackedUp \cup {"idle", "arm"} /\ "idle" \notin WhileBackedUp
      BY DEF WhileBackedUp, ContainerSteps
    <3>5. \A e \in Distros : pc'[e] \notin WhileBackedUp
                       /\ (pc'[e] \in {"idle", "arm"} => ~ CanUndo(e)')
      BY <2>1, <3>3, <3>4
    <3> QED
      BY <2>1, <3>1, <3>2, <3>5 DEF SafeInv
  <2>4. CASE file["config.sys"] # None
    <3>1. file' = file
      BY <2>1, <2>4 DEF Rename
    <3> QED
      BY <1>3, <2>2, <3>1, OtherStepKept
         DEF RestoreConfig, Step, CanUndo, ConfigGone, WhileBackedUp, ContainerSteps
  <2> QED
    BY <2>3, <2>4
<1>4. CASE DeleteGrldrNT(d) \/ DeleteGrldrVista(d)
  BY <1>4, OtherStepKept
     DEF DeleteGrldrNT, DeleteGrldrVista, DeleteStep, Step, Delete, Shared, WhileBackedUp,
         ContainerSteps, CanUndo, ConfigGone
<1>5. CASE RemoveBootEntry(d) \/ DeleteRegKey(d)
  BY <1>5, OtherStepKept
     DEF RemoveBootEntry, DeleteRegKey, disk, Step, WhileBackedUp, ContainerSteps, CanUndo,
         ConfigGone
<1>6. CASE BcdDelete(d)
  <2>1. UNCHANGED disk /\ \E next \in {"unDir", "unReg"} : Advance(d, "unBcd", next)
    BY <1>6 DEF BcdDelete, disk, Step, Nothing
  <2> QED
    BY <2>1, OtherStepKept DEF disk, WhileBackedUp, ContainerSteps, CanUndo, ConfigGone
<1>7. CASE RemoveDir(d) \/ DeleteHitme(d)
  <2>1. /\ \/ Advance(d, "unDir", "unMenu") \/ Advance(d, "unHitme", "unSelf")
        /\ UNCHANGED <<uninst, file, pending>>
        /\ \A e \in Distros \ {d} : late'[e] = late[e]
        /\ CanUndo(d)' => CanUndo(d)
    BY <1>7 DEF RemoveDir, DeleteHitme, PutOff, Step, CanUndo
  <2> QED
    BY <2>1, OtherStepKept DEF WhileBackedUp, ContainerSteps, ConfigGone
<1>8. CASE DeleteMenu(d) \/ DeleteMbr(d)
  BY <1>8, OtherStepKept
     DEF DeleteMenu, DeleteMbr, DeleteStep, Step, Delete, Shared, WhileBackedUp, ContainerSteps,
         CanUndo, ConfigGone
<1>9. CASE DeleteSelf(d)
  <2>1. /\ pc' = [pc EXCEPT ![d] = "idle"] /\ pc[d] = "unSelf"
        /\ uninst' \subseteq uninst /\ ~ CanUndo(d)'
        /\ \A e \in Distros \ {d} : late'[e] = late[e]
        /\ UNCHANGED <<file, pending, family>>
    BY <1>9 DEF DeleteSelf, Step, Advance, given, PutOff, CanUndo
  <2>2. \A e \in Distros : (Engaged(e)' => Engaged(e)) /\ (e # d /\ CanUndo(e)' => CanUndo(e))
    BY <2>1 DEF Engaged, CanUndo
  <2>3. Untouched' = Untouched /\ BackedUp' = BackedUp
    BY <2>1 DEF Untouched, BackedUp
  <2>4. "idle" \notin WhileBackedUp /\ "idle" \in ConfigGone
    BY DEF WhileBackedUp, ContainerSteps, ConfigGone
  <2> QED
    BY <2>1, <2>2, <2>3, <2>4 DEF SafeInv
<1> QED
  BY <1>1, <1>2, <1>3, <1>4, <1>5, <1>6, <1>7, <1>8, <1>9 DEF Uninstall

LEMMA KeptNext ==
  ASSUME TypeOK, Undoable, KeptInv, [Next]_vars
  PROVE  KeptInv'
<1> USE InstallerAssumption DEF TypeOK, DiskOK, ProgramOK
<1>0. ASSUME \A d \in Distros : mishaps[d] \subseteq mishaps'[d], family' = family,
             ~ ConfigEndangered'
      PROVE  /\ SafeInv /\ family # "other"
             /\ family = "9x" => \A d \in Distros : mishaps'[d] \cap
                                   {"early", "again", "crowd", "beside", "power"} = {}
  BY <1>0 DEF KeptInv, ConfigEndangered
<1>1. ASSUME NEW d \in Distros, StartInstall(d), ~ ConfigEndangered' PROVE SafeInv'
  <2>1. /\ pc[d] = "idle" /\ pc' = [pc EXCEPT ![d] = "arm"]
        /\ UNCHANGED <<family, uninst, file, pending, late>>
    BY <1>1 DEF StartInstall, given, disk
  <2>2. \A e \in Distros : mishaps[e] \subseteq mishaps'[e]
    BY <1>1 DEF StartInstall, Starting
  <2>3. SafeInv /\ (family = "9x" => mishaps'[d] \cap {"early", "crowd", "beside"} = {})
    BY <1>0, <1>1, <2>1, <2>2
  <2>4. ASSUME family = "9x"
        PROVE  /\ uninst \subseteq {d} /\ pending = {}
               /\ \A e \in Distros : e # d => pc[e] = "idle"
    <3>1. InstallMishaps(d) \subseteq mishaps'[d]
          /\ (Others(d) # {} => "beside" \in mishaps'[d])
      BY <1>1 DEF StartInstall, Starting
    <3> QED
      BY <2>3, <2>4, <3>1 DEF InstallMishaps, Others
  <2>5. Untouched' = Untouched /\ BackedUp' = BackedUp
    BY <2>1 DEF Untouched, BackedUp
  <2>6. ASSUME family = "9x", NEW e \in Distros
        PROVE  /\ Engaged(e)' => e = d
               /\ pc'[e] \in {"idle", "arm"} /\ CanUndo(e)' => BackedUp
               /\ pc'[e] \notin WhileBackedUp
    BY <2>1, <2>3, <2>4, <2>6
       DEF Engaged, CanUndo, SafeInv, WhileBackedUp, ContainerSteps
  <2> QED
    BY <2>1, <2>3, <2>4, <2>5, <2>6 DEF SafeInv
<1>2. ASSUME NEW d \in Distros, StartUninstall(d), ~ ConfigEndangered' PROVE SafeInv'
  <2>1. /\ pc[d] = "idle" /\ d \in uninst /\ pc' = [pc EXCEPT ![d] = UninstallFirst[family]]
        /\ UNCHANGED <<family, uninst, file, pending, late>>
    BY <1>2 DEF StartUninstall, Advance, Nothing, given, disk
  <2>2. \A e \in Distros : mishaps[e] \subseteq mishaps'[e]
    BY <1>2 DEF StartUninstall, Starting
  <2>3. SafeInv /\ (family = "9x" => "again" \notin mishaps'[d])
    BY <1>0, <1>2, <2>1, <2>2
  <2>4. ASSUME family = "9x"
        PROVE  CanUndo(d) /\ "config.sys" \notin pending
    BY <1>2, <2>1, <2>3, <2>4 DEF StartUninstall, Starting, CanUndo
  <2>5. Untouched' = Untouched /\ BackedUp' = BackedUp
    BY <2>1 DEF Untouched, BackedUp
  <2>6. family = "9x" => UninstallFirst[family] = "unExe" /\ BackedUp
    BY <2>1, <2>3, <2>4 DEF UninstallFirst, SafeInv
  <2>7. ASSUME family = "9x", NEW e \in Distros
        PROVE  /\ Engaged(e)' => Engaged(e)
               /\ pc'[e] \in {"idle", "arm"} /\ CanUndo(e)' => BackedUp
               /\ pc'[e] \in WhileBackedUp => BackedUp
    BY <2>1, <2>6, <2>7 DEF Engaged
  <2> QED
    BY <2>1, <2>3, <2>4, <2>5, <2>7 DEF SafeInv
<1>3. ASSUME Restart, ~ ConfigEndangered' PROVE SafeInv'
  <2>1. /\ pending' = {} /\ family' = family /\ pc' = [d \in Distros |-> "idle"]
        /\ uninst' \subseteq uninst
        /\ \A d \in Distros : CanUndo(d)' <=> CanUndo(d)
        /\ \A d \in Distros : mishaps[d] \subseteq mishaps'[d]
        /\ \A d \in Distros : pc[d] \in AtRisk => "power" \in mishaps'[d]
    BY <1>3 DEF Restart, given, CanUndo, CutShort
  <2>2. SafeInv /\ family # "other"
        /\ (family = "9x" => \A d \in Distros : "power" \notin mishaps'[d])
    BY <1>0, <1>3, <2>1
  <2>3. /\ file'["config-bak.sys"] = file["config-bak.sys"]
        /\ "config.sys" \notin pending => file'["config.sys"] = file["config.sys"]
    BY <1>3, <2>2 DEF Restart, SafeInv, Shared
  <2>4. (BackedUp => BackedUp') /\ (Untouched => Untouched' \/ BackedUp')
    BY <2>2, <2>3 DEF SafeInv, BackedUp, Untouched
  <2>5. ASSUME NEW d \in Distros, CanUndo(d), family = "9x"
        PROVE  BackedUp
    <3>1. pc[d] \in (InstallSteps \cup UninstallSteps \cup {"idle"}) \ AtRisk
      BY <2>1, <2>2, <2>5
    <3>2. pc[d] \in {"idle", "arm"} \cup WhileBackedUp
      BY <2>5, <3>1 DEF Undoable, OnBranch, InstallSteps, UninstallSteps, AtRisk,
         WhileBackedUp, ContainerSteps
    <3> QED
      BY <2>2, <2>5, <3>2 DEF SafeInv
  <2>6. \A d \in Distros : Engaged(d)' => Engaged(d)
    BY <2>1 DEF Engaged
  <2>7. "idle" \notin WhileBackedUp
    BY DEF WhileBackedUp, ContainerSteps
  <2>8. family # "9x" => Untouched'
    BY <2>2, <2>3 DEF SafeInv, Untouched, BackedUp
  <2> QED
    BY <2>1, <2>2, <2>4, <2>5, <2>6, <2>7, <2>8 DEF SafeInv
<1>4. CASE UNCHANGED vars
  BY <1>4 DEF vars, given, disk, KeptInv, ConfigEndangered, SafeInv, Untouched, BackedUp,
     Engaged, CanUndo
<1>5. ASSUME NEW d \in Distros, Install(d) \/ Uninstall(d), ~ ConfigEndangered' PROVE SafeInv'
  <2>1. family' = family /\ \A e \in Distros : mishaps[e] \subseteq mishaps'[e]
    <3>1. CASE Install(d)
      <4>1. CASE Container(d)
        BY <4>1, ContainerStep DEF Goes, Step, Advance, Note, given
      <4> QED
        BY <3>1, <4>1
           DEF Install, Container, WriteUninstaller, ExtractMbr, ExtractGrubExe, BackupConfig,
               WriteConfig, ExtractGrldrNT, SetBootTimeout, AddBootEntry, BcdCreate, BcdSave,
               BcdDevice, BcdPath, BcdList, BcdCall, ExtractGrldrVista, WriteHitme, WriteMenu,
               Step, Advance, Note, given
    <3>2. CASE Uninstall(d)
      BY <3>2
         DEF Uninstall, DeleteGrubExe, DeleteConfig, RestoreConfig, DeleteGrldrNT,
             RemoveBootEntry, DeleteGrldrVista, BcdDelete, DeleteRegKey, RemoveDir, DeleteMenu,
             DeleteMbr, DeleteHitme, DeleteSelf, DeleteStep, Step, Advance, Note, given
    <3> QED
      BY <1>5, <3>1, <3>2
  <2> QED
    BY <1>0, <1>5, <2>1, KeptInstall, KeptUninstall
<1> QED
  BY <1>1, <1>2, <1>3, <1>4, <1>5 DEF Next, KeptInv

(***************************************************************************)
(* A user's C:\config.sys is in place or in its backup, however often      *)
(* distributions are installed and uninstalled, whatever fails, is put off *)
(* or is cut short, but for what ConfigEndangered names.                   *)
(***************************************************************************)
THEOREM UserConfigSurvives ==
  ASSUME ConfigAtStart = {User}
  PROVE  Spec => []UserConfigKept
<1>1. Init => KeptInv
  BY InstallerAssumption
     DEF Init, KeptInv, SafeInv, Untouched, BackedUp, Engaged, CanUndo, WhileBackedUp,
         ContainerSteps, Shared
<1>2. TypeOK /\ Undoable /\ KeptInv /\ [Next]_vars => KeptInv'
  BY KeptNext
<1>3. KeptInv => UserConfigKept
  BY DEF KeptInv, SafeInv, Untouched, BackedUp, UserConfigKept
<1> QED
  BY <1>1, <1>2, <1>3, TypeCorrect, StaysUndoable, PTL DEF Spec

------------------------------------------------------------------------------
(***************************************************************************)
(* What of the chain from the boot manager to the initrd each statement    *)
(* of an installation has left, when nothing has happened to it that the   *)
(* section does not notice.                                                *)
(***************************************************************************)
AfterLoader == {"hitme", "menu"} \cup ContainerSteps
AfterMbr == {"exe9x", "backup", "config", "grldrNT", "timeout", "entry", "bcdCreate",
             "bcdSave", "bcdDevice", "bcdPath", "bcdList", "grldrVista"} \cup AfterLoader

\* No other program runs beside it, and no deletion is due that matters to it.
Alone(d) == pc[d] # "idle" => \A e \in Distros \ {d} : pc[e] = "idle"
Clear(d) == pc[d] \in InstallSteps => pending = {} /\ late[d] \subseteq {"uninst"}

\* The files of the loader, in the order they are written.
Extracted(d) ==
  /\ pc[d] \in AfterMbr => file["grldr.mbr"] = d
  /\ pc[d] \in {"backup", "config"} => file["grub.exe"] = d
  /\ pc[d] \in {"timeout", "entry"} => file["grldr"] = d
  /\ pc[d] \in {"menu"} \cup ContainerSteps => d \in hitme
  /\ pc[d] \in ContainerSteps => file["menu.lst"] = d

\* The identifier in the registry is that of an entry that is whole, but
\* while this program is about to complete it or has just deleted it.
Whole(d) == bcd[reg[d]].has = BcdParts

Has(d, parts) == Whole(d) \/ (id[d] = reg[d] /\ parts \subseteq bcd[reg[d]].has)

Listed(d) ==
  /\ pc[d] = "bcdSave" => id[d] \in Ids /\ bcd[id[d]].state = "there"
  /\ pc[d] \in {"bcdDevice", "bcdPath", "bcdList", "grldrVista"} => reg[d] # None
  /\ reg[d] # None /\ pc[d] # "unReg" => bcd[reg[d]].state = "there"
  /\ reg[d] # None /\ pc[d] \notin {"bcdDevice", "bcdPath", "bcdList", "unReg"} => Whole(d)
  /\ pc[d] = "bcdDevice" => Has(d, {})
  /\ pc[d] = "bcdPath" => Has(d, {"device"})
  /\ pc[d] = "bcdList" => Has(d, {"device", "path"})

\* The kernel is not fetched before the initrd.
Stocked(d) ==
  /\ "kernel" \in got[d] \ late[d] => "initrd" \in got[d] \ late[d]
  /\ pc[d] \in {"getKernel", "kernel", "copyKernel", "finish"} => "initrd" \in got[d]

Loaded(d) == pc[d] \in AfterLoader => LoaderOf(d)

Chain(d) ==
  Alone(d) /\ Clear(d) /\ Extracted(d) /\ Listed(d) /\ Stocked(d) /\ Loaded(d)

ChainInv == \A d \in Distros : ~ Unnoticed(d) => Chain(d)

\* What no statement of an installation touches.
LEMMA InstallFrame ==
  ASSUME TypeOK, NEW d \in Distros, Install(d)
  PROVE  /\ UNCHANGED <<pending, late, given>> /\ pc[d] \in InstallSteps
         /\ pc'[d] \in InstallSteps \cup {"idle"}
         /\ \A e \in Distros \ {d} : pc'[e] = pc[e] /\ id'[e] = id[e] /\ got'[e] = got[e]
                                     /\ reg'[e] = reg[e]
<1> USE DEF TypeOK, DiskOK, BootOK, ProgramOK, Step, Advance, disk, boot, given, Nothing, InstallSteps
<1>1. CASE WriteUninstaller(d) BY <1>1 DEF WriteUninstaller
<1>2. CASE ExtractMbr(d) BY <1>2, InstallerAssumption DEF ExtractMbr, FamilyStep
<1>3. CASE ExtractGrubExe(d) BY <1>3 DEF ExtractGrubExe
<1>4. CASE BackupConfig(d) BY <1>4 DEF BackupConfig
<1>5. CASE WriteConfig(d) BY <1>5 DEF WriteConfig
<1>6. CASE ExtractGrldrNT(d) BY <1>6 DEF ExtractGrldrNT
<1>7. CASE SetBootTimeout(d) BY <1>7 DEF SetBootTimeout
<1>8. CASE AddBootEntry(d) BY <1>8 DEF AddBootEntry
<1>9. CASE BcdCreate(d) BY <1>9 DEF BcdCreate
<1>10. CASE BcdSave(d) BY <1>10 DEF BcdSave
<1>11. CASE BcdDevice(d) BY <1>11 DEF BcdDevice, BcdCall, BcdGive
<1>12. CASE BcdPath(d) BY <1>12 DEF BcdPath, BcdCall, BcdGive
<1>13. CASE BcdList(d) BY <1>13 DEF BcdList, BcdCall, BcdGive
<1>14. CASE ExtractGrldrVista(d) BY <1>14 DEF ExtractGrldrVista
<1>15. CASE WriteHitme(d) BY <1>15 DEF WriteHitme
<1>16. CASE WriteMenu(d) BY <1>16, InstallerAssumption DEF WriteMenu, MediaStep
<1>17. CASE Container(d)
  BY <1>17, ContainerStep DEF Goes, Obtain, ContainerSteps
<1> QED BY <1>1, <1>2, <1>3, <1>4, <1>5, <1>6, <1>7, <1>8, <1>9, <1>10, <1>11, <1>12, <1>13, <1>14, <1>15, <1>16, <1>17 DEF Install, Container

LEMMA NotNoticed ==
  ASSUME TypeOK, NEW d \in Distros, NEW m \in {"bcd", "url"}, Note(d, m)
  PROVE  Unnoticed(d)'
<1>1. m \in mishaps'[d]
  BY DEF Note, TypeOK, ProgramOK
<1> QED BY <1>1 DEF Unnoticed

LEMMA ChainInstall ==
  ASSUME TypeOK, Undoable, NEW d \in Distros, Chain(d), Install(d), ~ Unnoticed(d)'
  PROVE  Chain(d)'
<1>0. Extracted(d) /\ Listed(d) /\ Stocked(d) /\ Loaded(d) /\ OnBranch /\ Alone(d) /\ Clear(d)
  BY DEF Chain, Undoable
<1>00. Alone(d)' /\ Clear(d)' /\ pending = {} /\ late[d] \subseteq {"uninst"}
       /\ late' = late
  <2>1. pc[d] # "idle" /\ "idle" \notin InstallSteps
    BY InstallFrame DEF InstallSteps
  <2>2. Alone(d)'
    BY <1>0, <2>1, InstallFrame DEF Alone
  <2>3. Clear(d)' /\ pending = {} /\ late[d] \subseteq {"uninst"}
    BY <1>0, <2>1, InstallFrame DEF Clear
  <2> QED BY <2>2, <2>3, InstallFrame
<1> SUFFICES Extracted(d)' /\ Listed(d)' /\ Stocked(d)' /\ Loaded(d)'
  BY <1>00 DEF Chain
<1> USE <1>0, <1>00, InstallerAssumption
    DEF TypeOK, DiskOK, ProgramOK, BootOK, Step, Advance, disk, boot, given
<1>1. CASE WriteUninstaller(d)
  <2>1. Extracted(d)'
    BY <1>1 DEF WriteUninstaller, Extracted, AfterMbr, AfterLoader, ContainerSteps, Shared
  <2>2. Listed(d)'
    BY <1>1 DEF WriteUninstaller, Listed, Whole, Has
  <2>3. Stocked(d)'
    BY <1>1 DEF WriteUninstaller, Stocked, Parts
  <2>4. Loaded(d)'
    BY <1>1 DEF WriteUninstaller, Loaded, LoaderOf, AfterLoader, ContainerSteps, Shared
  <2> QED BY <2>1, <2>2, <2>3, <2>4
<1>2. CASE ExtractMbr(d)
  <2>1. Extracted(d)'
    BY <1>2 DEF ExtractMbr, Write, FamilyStep, Extracted, AfterMbr, AfterLoader, ContainerSteps, Shared
  <2>2. Listed(d)'
    BY <1>2 DEF ExtractMbr, Write, FamilyStep, Listed, Whole, Has
  <2>3. Stocked(d)'
    BY <1>2 DEF ExtractMbr, Write, FamilyStep, Stocked, Parts
  <2>4. Loaded(d)'
    BY <1>2 DEF ExtractMbr, Write, FamilyStep, Loaded, LoaderOf, AfterLoader, ContainerSteps, Shared
  <2> QED BY <2>1, <2>2, <2>3, <2>4
<1>3. CASE ExtractGrubExe(d)
  <2>1. Extracted(d)'
    BY <1>3 DEF ExtractGrubExe, Write, Extracted, AfterMbr, AfterLoader, ContainerSteps, Shared
  <2>2. Listed(d)'
    BY <1>3 DEF ExtractGrubExe, Write, Listed, Whole, Has
  <2>3. Stocked(d)'
    BY <1>3 DEF ExtractGrubExe, Write, Stocked, Parts
  <2>4. Loaded(d)'
    BY <1>3 DEF ExtractGrubExe, Write, Loaded, LoaderOf, AfterLoader, ContainerSteps, Shared
  <2> QED BY <2>1, <2>2, <2>3, <2>4
<1>4. CASE BackupConfig(d)
  <2>1. Extracted(d)'
    BY <1>4 DEF BackupConfig, Rename, Extracted, AfterMbr, AfterLoader, ContainerSteps, Shared
  <2>2. Listed(d)'
    BY <1>4 DEF BackupConfig, Rename, Listed, Whole, Has
  <2>3. Stocked(d)'
    BY <1>4 DEF BackupConfig, Rename, Stocked, Parts
  <2>4. Loaded(d)'
    BY <1>4 DEF BackupConfig, Rename, Loaded, LoaderOf, AfterLoader, ContainerSteps, Shared
  <2> QED BY <2>1, <2>2, <2>3, <2>4
<1>5. CASE WriteConfig(d)
  <2>1. Extracted(d)'
    BY <1>5 DEF WriteConfig, Write, Extracted, AfterMbr, AfterLoader, ContainerSteps, Shared
  <2>2. Listed(d)'
    BY <1>5 DEF WriteConfig, Write, Listed, Whole, Has
  <2>3. Stocked(d)'
    BY <1>5 DEF WriteConfig, Write, Stocked, Parts
  <2>4. Loaded(d)'
    BY <1>5 DEF WriteConfig, Write, Loaded, LoaderOf, AfterLoader, ContainerSteps, Shared, OnBranch, Extracted, AfterMbr
  <2> QED BY <2>1, <2>2, <2>3, <2>4
<1>6. CASE ExtractGrldrNT(d)
  <2>1. Extracted(d)'
    BY <1>6 DEF ExtractGrldrNT, Write, Extracted, AfterMbr, AfterLoader, ContainerSteps, Shared
  <2>2. Listed(d)'
    BY <1>6 DEF ExtractGrldrNT, Write, Listed, Whole, Has
  <2>3. Stocked(d)'
    BY <1>6 DEF ExtractGrldrNT, Write, Stocked, Parts
  <2>4. Loaded(d)'
    BY <1>6 DEF ExtractGrldrNT, Write, Loaded, LoaderOf, AfterLoader, ContainerSteps, Shared
  <2> QED BY <2>1, <2>2, <2>3, <2>4
<1>7. CASE SetBootTimeout(d)
  <2>1. Extracted(d)'
    BY <1>7 DEF SetBootTimeout, Extracted, AfterMbr, AfterLoader, ContainerSteps, Shared
  <2>2. Listed(d)'
    BY <1>7 DEF SetBootTimeout, Listed, Whole, Has
  <2>3. Stocked(d)'
    BY <1>7 DEF SetBootTimeout, Stocked, Parts
  <2>4. Loaded(d)'
    BY <1>7 DEF SetBootTimeout, Loaded, LoaderOf, AfterLoader, ContainerSteps, Shared
  <2> QED BY <2>1, <2>2, <2>3, <2>4
<1>8. CASE AddBootEntry(d)
  <2>1. Extracted(d)'
    BY <1>8 DEF AddBootEntry, Extracted, AfterMbr, AfterLoader, ContainerSteps, Shared
  <2>2. Listed(d)'
    BY <1>8 DEF AddBootEntry, Listed, Whole, Has
  <2>3. Stocked(d)'
    BY <1>8 DEF AddBootEntry, Stocked, Parts
  <2>4. Loaded(d)'
    BY <1>8 DEF AddBootEntry, Loaded, LoaderOf, AfterLoader, ContainerSteps, Shared, OnBranch, Extracted
  <2> QED BY <2>1, <2>2, <2>3, <2>4
<1>9. CASE BcdCreate(d)
  <2>1. Extracted(d)'
    BY <1>9 DEF BcdCreate, Extracted, AfterMbr, AfterLoader, ContainerSteps, Shared
  <2>2. Listed(d)'
    BY <1>9 DEF BcdCreate, Listed, Whole, Has
  <2>3. Stocked(d)'
    BY <1>9 DEF BcdCreate, Stocked, Parts
  <2>4. Loaded(d)'
    BY <1>9 DEF BcdCreate, Loaded, LoaderOf, AfterLoader, ContainerSteps, Shared
  <2> QED BY <2>1, <2>2, <2>3, <2>4
<1>10. CASE BcdSave(d)
  <2>1. Extracted(d)'
    BY <1>10 DEF BcdSave, Extracted, AfterMbr, AfterLoader, ContainerSteps, Shared
  <2>2. Listed(d)'
    BY <1>10 DEF BcdSave, Listed, Whole, Has
  <2>3. Stocked(d)'
    BY <1>10 DEF BcdSave, Stocked, Parts
  <2>4. Loaded(d)'
    BY <1>10 DEF BcdSave, Loaded, LoaderOf, AfterLoader, ContainerSteps, Shared
  <2> QED BY <2>1, <2>2, <2>3, <2>4
<1>11. CASE BcdDevice(d)
  <2>0. Step(d, "bcdDevice", "bcdPath") /\ BcdGive(d, "device")
    BY <1>11, NotNoticed DEF BcdDevice, BcdCall
  <2>1. UNCHANGED <<disk, reg, id>> /\ pc[d] = "bcdDevice" /\ pc'[d] = "bcdPath"
        /\ reg[d] \in Ids /\ reg[d] # None
    BY <2>0 DEF BcdGive, Listed
  <2>2. bcd'[reg[d]].state = bcd[reg[d]].state
        /\ bcd[reg[d]].has \subseteq bcd'[reg[d]].has /\ bcd'[reg[d]].has \subseteq BcdParts
        /\ (id[d] = reg[d] => "device" \in bcd'[reg[d]].has)
    BY <2>0, <2>1 DEF BcdGive, BcdParts
  <2>3. Listed(d)'
    <3>1. Has(d, {})
      BY <2>1 DEF Listed
    <3>2. Has(d, {"device"})'
      BY <2>1, <2>2, <3>1 DEF Has, Whole, BcdParts
    <3> QED
      BY <2>1, <2>2, <3>2 DEF Listed
  <2>4. Extracted(d)'
    BY <2>1 DEF Extracted, AfterMbr, AfterLoader, ContainerSteps
  <2>5. Stocked(d)' /\ Loaded(d)'
    BY <2>1 DEF Stocked, Loaded, AfterLoader, ContainerSteps
  <2> QED BY <2>3, <2>4, <2>5
<1>12. CASE BcdPath(d)
  <2>0. Step(d, "bcdPath", "bcdList") /\ BcdGive(d, "path")
    BY <1>12, NotNoticed DEF BcdPath, BcdCall
  <2>1. UNCHANGED <<disk, reg, id>> /\ pc[d] = "bcdPath" /\ pc'[d] = "bcdList"
        /\ reg[d] \in Ids /\ reg[d] # None
    BY <2>0 DEF BcdGive, Listed
  <2>2. bcd'[reg[d]].state = bcd[reg[d]].state
        /\ bcd[reg[d]].has \subseteq bcd'[reg[d]].has /\ bcd'[reg[d]].has \subseteq BcdParts
        /\ (id[d] = reg[d] => "path" \in bcd'[reg[d]].has)
    BY <2>0, <2>1 DEF BcdGive, BcdParts
  <2>3. Listed(d)'
    <3>1. Has(d, {"device"})
      BY <2>1 DEF Listed
    <3>2. Has(d, {"device", "path"})'
      BY <2>1, <2>2, <3>1 DEF Has, Whole, BcdParts
    <3> QED
      BY <2>1, <2>2, <3>2 DEF Listed
  <2>4. Extracted(d)'
    BY <2>1 DEF Extracted, AfterMbr, AfterLoader, ContainerSteps
  <2>5. Stocked(d)' /\ Loaded(d)'
    BY <2>1 DEF Stocked, Loaded, AfterLoader, ContainerSteps
  <2> QED BY <2>3, <2>4, <2>5
<1>13. CASE BcdList(d)
  <2>0. Step(d, "bcdList", "grldrVista") /\ BcdGive(d, "listed")
    BY <1>13, NotNoticed DEF BcdList, BcdCall
  <2>1. UNCHANGED <<disk, reg, id>> /\ pc[d] = "bcdList" /\ pc'[d] = "grldrVista"
        /\ reg[d] \in Ids /\ reg[d] # None
    BY <2>0 DEF BcdGive, Listed
  <2>2. bcd'[reg[d]].state = bcd[reg[d]].state
        /\ bcd[reg[d]].has \subseteq bcd'[reg[d]].has /\ bcd'[reg[d]].has \subseteq BcdParts
        /\ (id[d] = reg[d] => "listed" \in bcd'[reg[d]].has)
    BY <2>0, <2>1 DEF BcdGive, BcdParts
  <2>3. Listed(d)'
    <3>1. Has(d, {"device", "path"})
      BY <2>1 DEF Listed
    <3>2. Whole(d)'
      BY <2>1, <2>2, <3>1 DEF Has, Whole, BcdParts
    <3> QED
      BY <2>1, <2>2, <3>2 DEF Listed
  <2>4. Extracted(d)'
    BY <2>1 DEF Extracted, AfterMbr, AfterLoader, ContainerSteps
  <2>5. Stocked(d)' /\ Loaded(d)'
    BY <2>1 DEF Stocked, Loaded, AfterLoader, ContainerSteps
  <2> QED BY <2>3, <2>4, <2>5
<1>14. CASE ExtractGrldrVista(d)
  <2>1. Extracted(d)'
    BY <1>14 DEF ExtractGrldrVista, Write, Extracted, AfterMbr, AfterLoader, ContainerSteps, Shared
  <2>2. Listed(d)'
    BY <1>14 DEF ExtractGrldrVista, Write, Listed, Whole, Has
  <2>3. Stocked(d)'
    BY <1>14 DEF ExtractGrldrVista, Write, Stocked, Parts
  <2>4. Loaded(d)'
    BY <1>14 DEF ExtractGrldrVista, Write, Loaded, LoaderOf, AfterLoader, ContainerSteps, Shared, OnBranch, Listed, Whole
  <2> QED BY <2>1, <2>2, <2>3, <2>4
<1>15. CASE WriteHitme(d)
  <2>1. Extracted(d)'
    BY <1>15 DEF WriteHitme, Extracted, AfterMbr, AfterLoader, ContainerSteps, Shared
  <2>2. Listed(d)'
    BY <1>15 DEF WriteHitme, Listed, Whole, Has
  <2>3. Stocked(d)'
    BY <1>15 DEF WriteHitme, Stocked, Parts
  <2>4. Loaded(d)'
    BY <1>15 DEF WriteHitme, Loaded, LoaderOf, AfterLoader, ContainerSteps, Shared
  <2> QED BY <2>1, <2>2, <2>3, <2>4
<1>16. CASE WriteMenu(d)
  <2>1. Extracted(d)'
    BY <1>16 DEF WriteMenu, Write, MediaStep, Extracted, AfterMbr, AfterLoader, ContainerSteps, Shared
  <2>2. Listed(d)'
    BY <1>16 DEF WriteMenu, Write, MediaStep, Listed, Whole, Has
  <2>3. Stocked(d)'
    BY <1>16 DEF WriteMenu, Write, MediaStep, Stocked, Parts
  <2>4. Loaded(d)'
    BY <1>16 DEF WriteMenu, Write, MediaStep, Loaded, LoaderOf, AfterLoader, ContainerSteps, Shared
  <2> QED BY <2>1, <2>2, <2>3, <2>4
<1>17. CASE Container(d)
  <2>1. /\ UNCHANGED <<file, hitme, boot, id, family>>
        /\ pc[d] \in ContainerSteps /\ pc'[d] \in ContainerSteps \cup {"idle"}
    BY <1>17, ContainerStep DEF Goes, Obtain, Nothing
  <2>2. Extracted(d)'
    BY <2>1 DEF Extracted, AfterMbr, AfterLoader, ContainerSteps
  <2>3. Listed(d)'
    BY <2>1 DEF Listed, Whole, Has, ContainerSteps
  <2>4. Loaded(d)'
    BY <2>1 DEF Loaded, LoaderOf, AfterLoader, ContainerSteps
  <2>5. Stocked(d)'
    <3> USE DEF Obtain, Nothing, Stocked
    <3>0. ~ Note(d, "url")
      BY NotNoticed
    <3>1. CASE FetchInitrd(d)
      <4>1. \/ pc'[d] = "getKernel" /\ got' = [got EXCEPT ![d] = @ \cup {"initrd"}]
            \/ pc'[d] = "idle" /\ got' = got
        <5>1. CASE Fetched(d, "initrd", "getInitrd", "getKernel")
          BY <3>0, <5>1 DEF Fetched
        <5>2. CASE Step(d, "getInitrd", "idle") /\ Nothing
          BY <5>2
        <5> QED BY <3>1, <5>1, <5>2 DEF FetchInitrd
      <4> QED BY <4>1
    <3>2. CASE FetchKernel(d)
      <4>1. /\ pc[d] = "getKernel" /\ pc'[d] = "present"
            /\ got' = [got EXCEPT ![d] = @ \cup {"kernel"}] \/ got' = got
        BY <3>0, <3>2 DEF FetchKernel, Fetched
      <4> QED BY <4>1
    <3>3. CASE ExtractInitrd(d) \/ ExtractKernel(d)
      BY <3>3 DEF ExtractInitrd, ExtractKernel
    <3>4. CASE SkipIfPresent(d)
      BY <3>4 DEF SkipIfPresent, Parts
    <3>5. CASE CopyInitrd(d) \/ CopyKernel(d)
      BY <3>5 DEF CopyInitrd, CopyKernel, Copy
    <3>6. CASE Finish(d)
      BY <3>6 DEF Finish
    <3> QED BY <1>17, <3>1, <3>2, <3>3, <3>4, <3>5, <3>6 DEF Container
  <2> QED BY <2>2, <2>3, <2>4, <2>5
<1> QED BY <1>1, <1>2, <1>3, <1>4, <1>5, <1>6, <1>7, <1>8, <1>9, <1>10, <1>11, <1>12, <1>13, <1>14, <1>15, <1>16, <1>17 DEF Install, Container

\* What no statement of an uninstallation touches.
LEMMA UninstallFrame ==
  ASSUME TypeOK, NEW d \in Distros, Uninstall(d)
  PROVE  /\ UNCHANGED <<id, given>>
         /\ pc[d] \in UninstallSteps /\ pc'[d] \in UninstallSteps \cup {"idle"}
         /\ \A e \in Distros \ {d} : pc'[e] = pc[e] /\ got'[e] = got[e] /\ reg'[e] = reg[e]
                                     /\ late'[e] = late[e]
<1> USE DEF TypeOK, DiskOK, BootOK, ProgramOK, Step, Advance, disk, boot, given, Nothing,
        UninstallSteps, DeleteStep
<1>1. CASE DeleteGrubExe(d) BY <1>1 DEF DeleteGrubExe
<1>2. CASE DeleteConfig(d) BY <1>2 DEF DeleteConfig
<1>3. CASE RestoreConfig(d) BY <1>3 DEF RestoreConfig
<1>4. CASE DeleteGrldrNT(d) BY <1>4 DEF DeleteGrldrNT
<1>5. CASE RemoveBootEntry(d) BY <1>5 DEF RemoveBootEntry
<1>6. CASE DeleteGrldrVista(d) BY <1>6 DEF DeleteGrldrVista
<1>7. CASE BcdDelete(d) BY <1>7 DEF BcdDelete
<1>8. CASE DeleteRegKey(d) BY <1>8 DEF DeleteRegKey
<1>9. CASE RemoveDir(d) BY <1>9 DEF RemoveDir
<1>10. CASE DeleteMenu(d) BY <1>10 DEF DeleteMenu
<1>11. CASE DeleteMbr(d) BY <1>11 DEF DeleteMbr
<1>12. CASE DeleteHitme(d) BY <1>12 DEF DeleteHitme, PutOff
<1>13. CASE DeleteSelf(d) BY <1>13 DEF DeleteSelf, PutOff
<1> QED BY <1>1, <1>2, <1>3, <1>4, <1>5, <1>6, <1>7, <1>8, <1>9, <1>10, <1>11, <1>12, <1>13 DEF Uninstall

LEMMA ChainUninstall ==
  ASSUME TypeOK, Undoable, NEW d \in Distros, Chain(d), Uninstall(d)
  PROVE  Chain(d)'
<1> DEFINE Quiet == UninstallSteps \cup {"idle"}
<1>0. Listed(d) /\ Stocked(d) /\ Alone(d)
  BY DEF Chain
<1>1. Quiet \cap (AfterMbr \cup InstallSteps) = {} /\ AfterLoader \subseteq AfterMbr
  BY DEF UninstallSteps, InstallSteps, AfterMbr, AfterLoader, ContainerSteps
<1>2. Alone(d)' /\ Clear(d)' /\ Extracted(d)' /\ Loaded(d)'
  <2>1. pc[d] # "idle" /\ pc'[d] \in Quiet
    BY UninstallFrame DEF UninstallSteps
  <2>2. Alone(d)'
    BY <1>0, <2>1, UninstallFrame DEF Alone
  <2>3. Extracted(d)'
    BY <1>1, <2>1 DEF Extracted, UninstallSteps, AfterMbr, AfterLoader, ContainerSteps
  <2> QED BY <1>1, <2>1, <2>2, <2>3 DEF Clear, Loaded
<1>3. pc'[d] \notin {"getKernel", "kernel", "copyKernel", "finish", "bcdSave", "bcdDevice",
                     "bcdPath", "bcdList", "grldrVista"}
  BY UninstallFrame DEF UninstallSteps
<1>4. Stocked(d)'
  <2>1. CASE RemoveDir(d)
    <3>1. got'[d] \ late'[d] = {}
      BY <2>1 DEF RemoveDir, TypeOK, DiskOK
    <3> QED BY <1>3, <3>1 DEF Stocked
  <2>2. CASE ~ RemoveDir(d)
    <3>1. got' = got /\ \A p \in Parts : p \in late'[d] <=> p \in late[d]
      BY <2>2 DEF Uninstall, DeleteGrubExe, DeleteConfig, RestoreConfig, DeleteGrldrNT,
         RemoveBootEntry, BcdDelete, DeleteRegKey, DeleteGrldrVista, DeleteMenu, DeleteMbr,
         DeleteHitme, DeleteSelf, DeleteStep, PutOff, Parts, Nothing, disk, TypeOK, DiskOK
    <3> QED BY <1>0, <1>3, <3>1 DEF Stocked, Parts
  <2> QED BY <2>1, <2>2
<1>5. Listed(d)'
  <2> USE DEF TypeOK, BootOK, ProgramOK, Step, Advance, boot, Listed, Whole
  <2>1. CASE BcdDelete(d)
    BY <1>0, <1>3, <2>1 DEF BcdDelete, Nothing
  <2>2. CASE DeleteRegKey(d)
    BY <1>3, <2>2 DEF DeleteRegKey
  <2>3. CASE ~ BcdDelete(d) /\ ~ DeleteRegKey(d)
    <3>1. UNCHANGED <<reg, bcd>> /\ pc[d] # "unReg"
          /\ pc[d] \notin {"bcdDevice", "bcdPath", "bcdList"}
      BY <2>3 DEF Uninstall, DeleteGrubExe, DeleteConfig, RestoreConfig, DeleteGrldrNT,
         RemoveBootEntry, DeleteGrldrVista, DeleteMenu, DeleteMbr, RemoveDir,
         DeleteHitme, DeleteSelf, DeleteStep
    <3> QED BY <1>0, <1>3, <3>1
  <2> QED BY <2>1, <2>2, <2>3
<1> QED BY <1>2, <1>4, <1>5 DEF Chain

\* A program does nothing to the chain of another distribution, whose own
\* program is not running then.
LEMMA ChainOther ==
  ASSUME TypeOK, Undoable, NEW d \in Distros, NEW e \in Distros \ {d}, Chain(e),
         Install(d) \/ Uninstall(d)
  PROVE  Chain(e)'
<1> USE DEF TypeOK, DiskOK, BootOK, ProgramOK
<1>1. pc[d] # "idle"
  BY InstallFrame, UninstallFrame DEF InstallSteps, UninstallSteps
<1>2. pc[e] = "idle" /\ pc'[e] = "idle" /\ reg'[e] = reg[e] /\ got'[e] = got[e]
      /\ late'[e] = late[e]
  BY <1>1, InstallFrame, UninstallFrame DEF Chain, Alone
<1>3. reg[e] # None => reg[e] \in Ids /\ bcd[reg[e]].by = e /\ bcd[reg[e]].state = "there"
                       /\ Whole(e)
  BY <1>2 DEF Chain, Listed, Undoable, Named
<1>4. reg[e] # None => bcd'[reg[e]].state = "there" /\ bcd'[reg[e]].has = BcdParts
  <2> SUFFICES ASSUME reg[e] # None
               PROVE  bcd'[reg[e]].state = "there" /\ bcd'[reg[e]].has = BcdParts
    OBVIOUS
  <2>1. CASE BcdCreate(d)
    BY <1>3, <2>1, InstallerAssumption DEF BcdCreate, boot, Whole, Undoable, Named
  <2>2. CASE BcdDevice(d) \/ BcdPath(d) \/ BcdList(d)
    <3>1. PICK part \in BcdParts : BcdGive(d, part) \/ Nothing
      BY <2>2 DEF BcdDevice, BcdPath, BcdList, BcdCall, BcdParts
    <3>2. CASE BcdGive(d, part)
      <4>1. bcd' = bcd \/ \E i \in Ids : bcd' = [bcd EXCEPT ![i].has = bcd[i].has \cup {part}]
        BY <3>2 DEF BcdGive
      <4>2. BcdParts \cup {part} = BcdParts
        OBVIOUS
      <4>3. ASSUME NEW i \in Ids, bcd' = [bcd EXCEPT ![i].has = bcd[i].has \cup {part}],
                   NEW j \in Ids
            PROVE  /\ bcd'[j].state = bcd[j].state
                   /\ bcd'[j].has = bcd[j].has \/ bcd'[j].has = bcd[j].has \cup {part}
        BY <4>3
      <4> QED BY <1>3, <4>1, <4>2, <4>3 DEF Whole
    <3>3. CASE Nothing
      BY <1>3, <3>3 DEF Nothing, boot, Whole
    <3> QED BY <3>1, <3>2, <3>3
  <2>3. CASE BcdDelete(d)
    <3>1. reg[d] # None => reg[d] \in Ids /\ bcd[reg[d]].by = d
      BY DEF Undoable, Named
    <3> QED BY <1>3, <2>3, <3>1 DEF BcdDelete, Nothing, boot, Whole
  <2>4. CASE ~ (BcdCreate(d) \/ BcdDevice(d) \/ BcdPath(d) \/ BcdList(d) \/ BcdDelete(d))
    <3>1. CASE Container(d)
      BY <1>3, <3>1, ContainerStep DEF Obtain, Nothing, boot, Whole
    <3>2. CASE ~ Container(d)
      BY <1>3, <2>4, <3>2
         DEF Install, Container, WriteUninstaller, ExtractMbr, ExtractGrubExe, BackupConfig,
             WriteConfig, ExtractGrldrNT, SetBootTimeout, AddBootEntry, BcdSave,
             ExtractGrldrVista, WriteHitme, WriteMenu, Uninstall, DeleteGrubExe, DeleteConfig,
             RestoreConfig, DeleteGrldrNT, RemoveBootEntry, DeleteGrldrVista, DeleteRegKey,
             RemoveDir, DeleteMenu, DeleteMbr, DeleteHitme, DeleteSelf, DeleteStep, boot,
             disk, Whole
    <3> QED BY <3>1, <3>2
  <2> QED BY <2>1, <2>2, <2>3, <2>4
<1>5. Alone(e)' /\ Clear(e)' /\ Extracted(e)' /\ Loaded(e)'
  BY <1>2 DEF Alone, Clear, InstallSteps, Extracted, Loaded, AfterMbr, AfterLoader,
     ContainerSteps
<1>6. Listed(e)'
  BY <1>2, <1>3, <1>4 DEF Listed, Whole
<1>7. Stocked(e)'
  BY <1>2 DEF Chain, Stocked
<1> QED BY <1>5, <1>6, <1>7 DEF Chain

\* Starting a program notes what it is started beside.
LEMMA ChainStart ==
  ASSUME TypeOK, ChainInv, NEW d \in Distros, StartInstall(d) \/ StartUninstall(d)
  PROVE  ChainInv'
<1> SUFFICES ASSUME NEW e \in Distros, ~ Unnoticed(e)'
             PROVE  Chain(e)'
  BY DEF ChainInv
<1> USE DEF TypeOK, ProgramOK
<1> DEFINE first == IF StartInstall(d) THEN "arm" ELSE UninstallFirst[family]
<1>1. /\ UNCHANGED <<disk, boot, given>> /\ pc[d] = "idle" /\ pc' = [pc EXCEPT ![d] = first]
      /\ first \in {"arm"} \cup UninstallSteps
      /\ first = "arm" => StartInstall(d)
  <2>1. UninstallFirst[family] \in UninstallSteps /\ "arm" \notin UninstallSteps
    BY InstallerAssumption DEF UninstallFirst, UninstallSteps
  <2> QED BY <2>1 DEF StartInstall, StartUninstall, Advance, Nothing
<1>2. /\ \A x \in Distros : mishaps[x] \subseteq mishaps'[x]
      /\ Others(d) # {} => "beside" \in mishaps'[d]
                           /\ \A x \in Others(d) : "beside" \in mishaps'[x]
  BY DEF StartInstall, StartUninstall, Starting, Others
<1>3. Chain(e) /\ "beside" \notin mishaps'[e]
  BY <1>2 DEF ChainInv, Unnoticed
<1>4. Alone(e)'
  BY <1>1, <1>2, <1>3 DEF Alone, Others, Chain
<1>5. Clear(e)'
  <2>1. CASE e = d /\ first = "arm"
    <3>1. InstallMishaps(d) \subseteq mishaps'[d]
      BY <1>1, <2>1 DEF StartInstall, Starting
    <3>2. "early" \notin mishaps'[d]
      BY <2>1 DEF Unnoticed
    <3>3. "early" \notin InstallMishaps(d)
      BY <2>1, <3>1, <3>2
    <3>4. pending = {} /\ late[d] \subseteq {"uninst"}
      BY <3>3 DEF InstallMishaps
    <3> QED BY <1>1, <2>1, <3>4 DEF Clear, disk
  <2>2. CASE e = d /\ first # "arm"
    BY <1>1, <2>2 DEF Clear, InstallSteps, UninstallSteps
  <2>3. CASE e # d
    BY <1>1, <1>3, <2>3 DEF Clear, Chain, disk
  <2> QED BY <2>1, <2>2, <2>3
<1>6. CASE e = d
  <2>1. pc'[e] \notin AfterMbr /\ pc'[e] \notin AfterLoader /\ pc'[e] \notin ContainerSteps
        /\ pc'[e] \in {"arm"} \cup {"unExe", "unGrldrNT", "unGrldrVista"} /\ pc[e] = "idle"
    <3>1. pc'[e] \in {"arm"} \cup {"unExe", "unGrldrNT", "unGrldrVista"} /\ pc[e] = "idle"
      BY <1>1, <1>6, InstallerAssumption DEF UninstallFirst
    <3> QED BY <3>1 DEF AfterMbr, AfterLoader, ContainerSteps
  <2>2. Extracted(e)' /\ Loaded(e)'
    BY <2>1 DEF Extracted, Loaded
  <2>3. Listed(e)'
    BY <1>1, <1>3, <2>1 DEF Chain, Listed, Whole, boot
  <2>4. Stocked(e)'
    BY <1>1, <1>3, <2>1 DEF Chain, Stocked, disk
  <2> QED BY <1>4, <1>5, <2>2, <2>3, <2>4 DEF Chain
<1>7. CASE e # d
  <2>1. pc'[e] = pc[e] /\ id'[e] = id[e]
    BY <1>1, <1>7 DEF StartInstall, StartUninstall, Nothing
  <2>2. Extracted(e)' /\ Loaded(e)'
    BY <1>1, <1>3, <2>1 DEF Chain, Extracted, Loaded, LoaderOf, disk, boot, given
  <2>3. Listed(e)'
    BY <1>1, <1>3, <2>1 DEF Chain, Listed, Whole, Has, boot
  <2>4. Stocked(e)'
    BY <1>1, <1>3, <2>1 DEF Chain, Stocked, disk
  <2> QED BY <1>4, <1>5, <2>2, <2>3, <2>4 DEF Chain
<1> QED BY <1>6, <1>7

LEMMA ChainRestart ==
  ASSUME TypeOK, ChainInv, Restart
  PROVE  ChainInv'
<1> SUFFICES ASSUME NEW d \in Distros, ~ Unnoticed(d)'
             PROVE  Chain(d)'
  BY DEF ChainInv
<1>1. /\ \A e \in Distros : pc'[e] = "idle"
      /\ UNCHANGED <<reg, bcd, id>> /\ late'[d] = {} /\ got'[d] = got[d] \ late[d]
      /\ mishaps[d] \subseteq mishaps'[d] /\ (pc[d] \in Halves => "half" \in mishaps'[d])
  BY DEF Restart, boot, CutShort
<1>2. Chain(d) /\ pc[d] \notin Halves
  BY <1>1 DEF ChainInv, Unnoticed
<1>3. Alone(d)' /\ Clear(d)' /\ Extracted(d)' /\ Loaded(d)'
  BY <1>1 DEF Alone, Clear, InstallSteps, Extracted, Loaded, AfterMbr, AfterLoader,
     ContainerSteps
<1>4. Listed(d)'
  BY <1>1, <1>2 DEF Chain, Listed, Whole, Halves
<1>5. Stocked(d)'
  BY <1>1, <1>2 DEF Chain, Stocked
<1> QED BY <1>3, <1>4, <1>5 DEF Chain

\* What has happened to a distribution stays on its record.
LEMMA MishapsStay ==
  ASSUME TypeOK, NEW d \in Distros, Install(d) \/ Uninstall(d)
  PROVE  \A e \in Distros : mishaps[e] \subseteq mishaps'[e]
<1> USE DEF TypeOK, ProgramOK, Step, Note
<1>1. CASE Container(d)
  BY <1>1, ContainerStep DEF Goes
<1>2. CASE ~ Container(d)
  BY <1>2
     DEF Install, Container, WriteUninstaller, ExtractMbr, ExtractGrubExe, BackupConfig,
         WriteConfig, ExtractGrldrNT, SetBootTimeout, AddBootEntry, BcdCreate, BcdSave,
         BcdDevice, BcdPath, BcdList, BcdCall, ExtractGrldrVista, WriteHitme, WriteMenu,
         Uninstall, DeleteGrubExe, DeleteConfig, RestoreConfig, DeleteGrldrNT, RemoveBootEntry,
         DeleteGrldrVista, BcdDelete, DeleteRegKey, RemoveDir, DeleteMenu, DeleteMbr,
         DeleteHitme, DeleteSelf, DeleteStep
<1> QED BY <1>1, <1>2

LEMMA ChainNext ==
  ASSUME TypeOK, Undoable, ChainInv, [Next]_vars
  PROVE  ChainInv'
<1>1. ASSUME NEW d \in Distros, Install(d) \/ Uninstall(d) PROVE ChainInv'
  <2> SUFFICES ASSUME NEW e \in Distros, ~ Unnoticed(e)'
               PROVE  Chain(e)'
    BY DEF ChainInv
  <2>1. Chain(e)
    BY <1>1, MishapsStay DEF ChainInv, Unnoticed
  <2>2. CASE e = d
    BY <1>1, <2>1, <2>2, ChainInstall, ChainUninstall
  <2>3. CASE e # d
    BY <1>1, <2>1, <2>3, ChainOther
  <2> QED BY <2>2, <2>3
<1>2. CASE UNCHANGED vars
  <2>1. \A d \in Distros : Unnoticed(d)' = Unnoticed(d)
    BY <1>2 DEF vars, Unnoticed
  <2>2. ASSUME NEW d \in Distros, Chain(d) PROVE Chain(d)'
    <3> USE <1>2, <2>2 DEF vars, given, disk, boot, Chain
    <3>1. Alone(d)' /\ Clear(d)' /\ Stocked(d)'
      BY DEF Alone, Clear, Stocked
    <3>2. Extracted(d)' /\ Loaded(d)'
      BY DEF Extracted, Loaded, LoaderOf
    <3>3. Listed(d)'
      BY DEF Listed, Whole, Has
    <3> QED BY <3>1, <3>2, <3>3
  <2> QED BY <2>1, <2>2 DEF ChainInv
<1> QED
  BY <1>1, <1>2, ChainStart, ChainRestart DEF Next

(***************************************************************************)
(* Whatever is interrupted, repeated, put off or fails before, an          *)
(* installation that reports success leaves the whole chain from the boot  *)
(* manager through grldr and menu.lst to the marker and the initrd, but    *)
(* for what Unnoticed names.                                               *)
(***************************************************************************)
THEOREM FinishedInstallationsBoot == Spec => FinishedBoots
<1>1. Init => ChainInv
  <2> SUFFICES ASSUME Init, NEW d \in Distros
               PROVE  Chain(d)
    BY DEF ChainInv
  <2>1. pc[d] = "idle" /\ reg[d] = None /\ got[d] = {}
    BY DEF Init
  <2> QED
    BY <2>1 DEF Chain, Alone, Clear, InstallSteps, Extracted, Listed, Stocked, Loaded, AfterMbr,
       AfterLoader, ContainerSteps
<1>2. TypeOK /\ Undoable /\ ChainInv /\ [Next]_vars => ChainInv'
  BY ChainNext
<1>3. ChainInv => \A d \in Distros : Finish(d) => BootChain(d) \/ Unnoticed(d)
  BY DEF ChainInv, Chain, Clear, Extracted, Stocked, Loaded, BootChain, Finish, Step, Advance,
     AfterMbr, AfterLoader, ContainerSteps, InstallSteps
<1> QED
  BY <1>1, <1>2, <1>3, TypeCorrect, StaysUndoable, PTL DEF Spec, FinishedBoots
=============================================================================
