------------------------------- MODULE MCWorker ------------------------------
(* Instances of Worker for TLC. *)
EXTENDS Worker, TLC

CONSTANTS v1, v2, s1, s2

MCVersions == {v1, v2}
MCSlots == {s1, s2}
MCOneSlot == {s1}
SlotSymmetry == Permutations(MCSlots)
==============================================================================
