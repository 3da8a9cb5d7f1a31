------------------------------ MODULE MCAccess -------------------------------
(***************************************************************************)
(* Two organizations, each able to reach the other's members; one team and *)
(* one resource in the first.                                              *)
(***************************************************************************)
EXTENDS Access, TLC

CONSTANTS ann, bob, svc, o1, o2, t1, r1, s1, s2

MCTeamOrg == [t \in Teams |-> o1]
MCHome == [r \in Resources |-> o1]
MCSymmetry == Permutations(Shares)
=============================================================================
