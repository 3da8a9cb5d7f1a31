---------------------------- MODULE MCFileStore ------------------------------
(***************************************************************************)
(* Small instances of FileStore: one file at the start, a place in a       *)
(* folder and one in the root of the bucket.                               *)
(***************************************************************************)
EXTENDS FileStore, TLC

AllFaults == FaultKinds

Symmetry == Permutations(Requests)
=============================================================================
