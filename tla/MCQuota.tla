------------------------------ MODULE MCQuota --------------------------------
(* Instances of Quota for TLC. *)
EXTENDS Quota, TLC

CONSTANTS u1, k1, k2, r1, r2

MCUsers == {u1}
MCKeys == {k1, k2}
MCOneKey == {k1}
MCRequests == {r1, r2}
Symmetry == Permutations(MCKeys) \cup Permutations(MCRequests)
==============================================================================
