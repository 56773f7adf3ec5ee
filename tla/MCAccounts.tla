----------------------------- MODULE MCAccounts ------------------------------
(* Instances of Accounts for TLC. *)
EXTENDS Accounts, TLC

CONSTANTS a1, a2, a3, s1, s2, n1, N1, n2, r1, r2

MCAccounts == {a1, a2, a3}
MCLegacy == {a3}
MCSessions == {s1, s2}
MCNames == {n1, N1, n2}
MCLower == [n \in MCNames |-> IF n = N1 THEN n1 ELSE n]
MCRequests == {r1, r2}
Symmetry == Permutations(MCAccounts \ MCLegacy) \cup Permutations(MCSessions)
              \cup Permutations(MCRequests)

(* Lock an account, open it, demote and rename it, give it a password.       *)
MCWishes ==
  {[NoWish EXCEPT !.enabled = FALSE], [NoWish EXCEPT !.enabled = TRUE, !.password = TRUE],
   [NoWish EXCEPT !.role = "developer", !.name = n2], [NoWish EXCEPT !.role = "admin"]}
==============================================================================
