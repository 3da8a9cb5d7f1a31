----------------------------- MODULE MCImportJob -----------------------------
(***************************************************************************)
(* Small instances of ImportJob: a five-row file checkpointed every two    *)
(* rows, so that checkpoints fall inside, between and after chunks.        *)
(***************************************************************************)
EXTENDS ImportJob

AllFaults        == FaultKinds
TenantFault      == {"tenant"}
SurvivableFaults == {"tenant", "broker", "kill"}
=============================================================================
