---------------------------- MODULE MCExportJob ------------------------------
(***************************************************************************)
(* Instances of ExportJob.                                                 *)
(***************************************************************************)
EXTENDS ExportJob

AllFaults == FaultKinds
=============================================================================
