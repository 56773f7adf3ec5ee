----------------------------- MODULE JobLifecycle -----------------------------
(***************************************************************************)
(* What the crawl pipeline promises of each job, with no handler, staging  *)
(* table or projector in sight.  A job waits, is held by one lease, has    *)
(* its result staged, and settles.  A lease may expire, and the result of  *)
(* an expired lease may still arrive, but only while nobody else holds the *)
(* job.  A job is handed out at most MaxAttempts times plus once for every *)
(* extra round an operator or a page that needs a browser granted it.      *)
(***************************************************************************)
EXTENDS Integers

CONSTANTS Jobs, Leases, NoHolder, MaxAttempts

VARIABLES
  phase,   \* where the job is
  holder,  \* the lease that holds the job
  tries,   \* how often the job was handed out
  extra,   \* rounds granted beyond MaxAttempts
  late     \* a result of an expired lease is still being applied

vars == <<phase, holder, tries, extra, late>>

Settled == {"done", "blocked", "lost"}
Phases == {"absent", "waiting", "held", "staged", "gone"} \cup Settled

TypeOK ==
  /\ phase \in [Jobs -> Phases]
  /\ holder \in [Jobs -> Leases \cup {NoHolder}]
  /\ tries \in [Jobs -> Nat]
  /\ extra \in [Jobs -> Nat]
  /\ late \in [Jobs -> BOOLEAN]

Init ==
  /\ phase = [j \in Jobs |-> "absent"]
  /\ holder = [j \in Jobs |-> NoHolder]
  /\ tries = [j \in Jobs |-> 0]
  /\ extra = [j \in Jobs |-> 0]
  /\ late = [j \in Jobs |-> FALSE]

-----------------------------------------------------------------------------
\* The phase, holder, tries, extra and late of one job after a step.
Becomes(j, ph, h, n, e, b) ==
  /\ phase'[j] = ph
  /\ holder'[j] = h
  /\ tries'[j] = n
  /\ extra'[j] = e
  /\ late'[j] = b

Stay(j) == Becomes(j, phase[j], holder[j], tries[j], extra[j], late[j])

Submit(j) ==
  /\ phase[j] = "absent"
  /\ Becomes(j, "waiting", NoHolder, 0, 0, FALSE)

Take(j, h) ==
  /\ phase[j] = "waiting"
  /\ ~late[j]
  /\ tries[j] < MaxAttempts + extra[j]
  /\ Becomes(j, "held", h, tries[j] + 1, extra[j], FALSE)

Stage(j) ==
  /\ phase[j] = "held"
  /\ Becomes(j, "staged", holder[j], tries[j], extra[j], late[j])

\* Another attempt if one is left.
NextRound(j, b) ==
  Becomes(j, IF tries[j] < MaxAttempts THEN "waiting" ELSE "lost", NoHolder,
          tries[j], extra[j], b)

ExpireHeld(j) == phase[j] = "held" /\ NextRound(j, FALSE)

ExpireStaged(j) ==
  /\ phase[j] = "staged"
  /\ \E b \in BOOLEAN : NextRound(j, b)

\* The result of the holder, or of the lease that just expired, is applied.
Outcome(j) ==
  \/ \E ph \in Settled : Becomes(j, ph, NoHolder, tries[j], extra[j], FALSE)
  \/ /\ tries[j] < MaxAttempts
     /\ Becomes(j, "waiting", NoHolder, tries[j], extra[j], FALSE)
  \/ Becomes(j, "waiting", NoHolder, tries[j], extra[j] + 1, FALSE)

Settle(j) == phase[j] = "staged" /\ Outcome(j)

SettleLate(j) ==
  /\ late[j]
  /\ phase[j] \in {"waiting", "lost"}
  /\ Outcome(j)

DropLate(j) ==
  /\ late[j]
  /\ Becomes(j, phase[j], holder[j], tries[j], extra[j], FALSE)

DropLateGone(j) ==
  /\ phase[j] = "gone"
  /\ \E e \in {extra[j], extra[j] + 1} :
       Becomes(j, "gone", NoHolder, tries[j], e, FALSE)

Retry(j) ==
  /\ phase[j] = "lost"
  /\ Becomes(j, "waiting", NoHolder, tries[j], extra[j] + 1, late[j])

Remove(j) ==
  /\ phase[j] # "absent"
  /\ \E b \in BOOLEAN : Becomes(j, "gone", NoHolder, tries[j], extra[j], b)

JobStep(j) ==
  \/ Stay(j)
  \/ Submit(j)
  \/ \E h \in Leases : Take(j, h)
  \/ Stage(j)
  \/ ExpireHeld(j) \/ ExpireStaged(j)
  \/ Settle(j) \/ SettleLate(j) \/ DropLate(j) \/ DropLateGone(j)
  \/ Retry(j)
  \/ Remove(j)

\* A statement may move several jobs at once.
Next ==
  /\ phase' \in [Jobs -> Phases]
  /\ holder' \in [Jobs -> Leases \cup {NoHolder}]
  /\ tries' \in [Jobs -> Nat]
  /\ extra' \in [Jobs -> Nat]
  /\ late' \in [Jobs -> BOOLEAN]
  /\ \A j \in Jobs : JobStep(j)

Spec == Init /\ [][Next]_vars
=============================================================================
