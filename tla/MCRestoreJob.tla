---------------------------- MODULE MCRestoreJob -----------------------------
(***************************************************************************)
(* Instances of RestoreJob.                                                *)
(***************************************************************************)
EXTENDS RestoreJob

AllFaults   == FaultKinds
=============================================================================
