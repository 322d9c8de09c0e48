----------------------------- MODULE MCInstaller -----------------------------
(***************************************************************************)
(* Small instances of Installer.  One module serves the run with several   *)
(* distributions and the runs with one.                                    *)
(***************************************************************************)
EXTENDS Installer, TLC

CONSTANTS d1, d2, g1, g2, g3

Symmetric == Permutations({d1, d2}) \cup Permutations({g1, g2})

AllSteps == InstallSteps \cup UninstallSteps
==============================================================================
