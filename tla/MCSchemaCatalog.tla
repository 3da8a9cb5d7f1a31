--------------------------- MODULE MCSchemaCatalog ---------------------------
(***************************************************************************)
(* Small instances of SchemaCatalog.                                       *)
(***************************************************************************)
EXTENDS SchemaCatalog, TLC

AllFaults   == FaultKinds

Symmetry == Permutations(Requests) \cup Permutations(Names)
=============================================================================
