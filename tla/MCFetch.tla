------------------------------- MODULE MCFetch -------------------------------
(* Instances of Fetch for TLC. *)
EXTENDS Fetch, TLC

CONSTANTS j1, j2, o1, o2

MCJobs == {j1, j2}
MCOrigins == {o1, o2}
MCHomes == {o1}
JobSymmetry == Permutations(MCJobs)

Plain(status) ==
  [status |-> status, html |-> TRUE, profile |-> TRUE, js |-> "no",
   action |-> "index", top |-> FALSE, noindex |-> FALSE, nofollow |-> FALSE,
   title |-> TRUE, body |-> TRUE, spam |-> FALSE]

(* A document, one that wants no index, one for another node, one to try     *)
(* again, and one that the browser loads and whose site is surveyed.         *)
MCPages ==
  {Plain(200), Plain(503),
   [Plain(200) EXCEPT !.noindex = TRUE],
   [Plain(200) EXCEPT !.js = "missing"],
   [Plain(200) EXCEPT !.js = "rendered", !.action = "discover", !.top = TRUE]}
==============================================================================
