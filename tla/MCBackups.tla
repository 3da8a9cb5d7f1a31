----------------------------- MODULE MCBackups -------------------------------
(***************************************************************************)
(* Instances of Backups.                                                   *)
(***************************************************************************)
EXTENDS Backups

CONSTANTS v1, v2

AllFaults == FaultKinds
=============================================================================
