----------------------------- MODULE MCDelivery -----------------------------
(* One lease of two results, and one projector, which takes one at a time.   *)
EXTENDS Delivery

CONSTANTS i1, i2, l1, p1

const_Items == {i1, i2}
const_Leases == {l1}
const_LeaseOf == [i \in const_Items |-> l1]
const_Projectors == {p1}
==============================================================================
