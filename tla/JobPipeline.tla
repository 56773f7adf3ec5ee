----------------------------- MODULE JobPipeline -----------------------------
(***************************************************************************)
(* The life of a crawl job, from the frontier to its outcome: claim by a   *)
(* crawler, report into the staged ingest tables, projection, timeouts,    *)
(* operator commands.  Code: services/api/src/crawler.rs, crawl/frontier.rs,*)
(* crawl/ingest.rs, crawl/projection.rs, services/crawler/src/worker.rs.   *)
(*                                                                         *)
(* A step is one SQL statement.  No statement of these files runs in an    *)
(* explicit transaction, so each commits alone; a single-table UPDATE ..   *)
(* WHERE is atomic on a row because READ COMMITTED re-checks the condition *)
(* on the newest version of the row it locks; the two statements that      *)
(* select their rows elsewhere are split in two (Races).  What a handler   *)
(* read in an earlier statement is kept in a variable of that handler.     *)
(*                                                                         *)
(* Time is abstracted: between two steps any timeout or backoff may have   *)
(* elapsed.  The jobs are those of one owner.  Origins, batches and        *)
(* documents belong to other modules.                                      *)
(***************************************************************************)
EXTENDS Integers, FiniteSets

CONSTANTS
  Jobs,         \* rows of crawl_jobs, one id each
  Crawlers,     \* crawler workers of the owner
  JsCrawlers,   \* those that announce the js_render capability
  NoCrawler,    \* the crawler of a lease that was never issued
  Tasks,        \* slots of the projectors' JoinSets
  NoItem,       \* what an idle slot works on
  MaxAttempts,  \* crawl_jobs.max_attempts
  MaxLeases,    \* bound: claims that return at least one job
  MaxGrants,    \* bound: re-queues that no attempt limit stops, per job
  Races         \* which of the races below may happen

(* "slow_apply": a projection overruns the 30 s backoff of its job or the      *)
(*   timeout of its item.                                                     *)
(* "split_claim", "split_recovery": another transaction commits between the   *)
(*   snapshot a claim, or an ingest recovery, selects its rows from and the   *)
(*   locks on these rows.  Both statements select in a subquery that the      *)
(*   re-check of the locked row does not evaluate again.                      *)
RaceKinds == {"slow_apply", "split_claim", "split_recovery"}

ASSUME CrawlersAssumption ==
  /\ JsCrawlers \subseteq Crawlers
  /\ NoCrawler \notin Crawlers

ASSUME BoundsAssumption ==
  /\ MaxAttempts \in Nat \ {0}
  /\ MaxLeases \in Nat \ {0}
  /\ MaxGrants \in Nat

ASSUME RacesAssumption == Races \subseteq RaceKinds

\* lease_id (and claimed_by, which every statement writes together with it)
\* is null.
NoLease == 0
Leases == 1 .. MaxLeases

\* A row of crawl_ingest_items is known by its lease and its job: the table is
\* unique on (lease_id, crawl_job_id).
Items == Leases \X Jobs

ASSUME NoItemAssumption == NoItem \notin Items

LeaseOf(i) == i[1]
JobOf(i) == i[2]

VARIABLES
  status,      \* crawl_jobs.status; "new": not inserted, "deleted": row removed
  lease,       \* crawl_jobs.lease_id
  attempts,    \* crawl_jobs.attempt_count
  requiresJs,  \* crawl_jobs.requires_js
  crawlerOf,   \* crawler a lease was issued to
  work,        \* items live workers are crawling
  report,      \* progress of the report handler of an item
  item,        \* crawl_ingest_items.status; "none": no such row
  pc, on, seen,\* step of a projection task, its item, attempt_count it read
  candidates,  \* jobs a crawler's claim selected and has not locked yet
  stale,       \* items the ingest recovery selected and has not updated yet
  grants,      \* history: re-queues of a job that no attempt limit stops
  applied      \* history: items whose outcome was written to the job

vars == <<status, lease, attempts, requiresJs, crawlerOf, work, report, item,
          pc, on, seen, candidates, stale, grants, applied>>
jobVars == <<status, lease, attempts, requiresJs, grants>>
taskVars == <<pc, on, seen>>
scanVars == <<candidates, stale>>

Terminal == {"succeeded", "failed", "blocked", "dead_letter"}
Active == {"claimed", "ingesting"}
Statuses == {"new", "queued", "deleted"} \cup Active \cup Terminal

TypeOK ==
  /\ status \in [Jobs -> Statuses]
  /\ lease \in [Jobs -> {NoLease} \cup Leases]
  /\ attempts \in [Jobs -> Nat]
  /\ requiresJs \in [Jobs -> BOOLEAN]
  /\ crawlerOf \in [Leases -> Crawlers \cup {NoCrawler}]
  /\ work \subseteq Items
  /\ report \in [Items -> {"none", "checked", "staged"}]
  /\ item \in [Items -> {"none", "pending", "processing", "completed", "failed"}]
  /\ pc \in [Tasks -> {"idle", "picked", "read", "written", "rejected", "failing"}]
  /\ on \in [Tasks -> Items \cup {NoItem}]
  /\ seen \in [Tasks -> Nat]
  /\ candidates \in [Crawlers -> SUBSET Jobs]
  /\ stale \subseteq Items
  /\ grants \in [Jobs -> 0 .. MaxGrants]
  /\ applied \subseteq Items

Init ==
  /\ status = [j \in Jobs |-> "new"]
  /\ lease = [j \in Jobs |-> NoLease]
  /\ attempts = [j \in Jobs |-> 0]
  /\ requiresJs = [j \in Jobs |-> FALSE]
  /\ crawlerOf = [l \in Leases |-> NoCrawler]
  /\ work = {}
  /\ report = [i \in Items |-> "none"]
  /\ item = [i \in Items |-> "none"]
  /\ pc = [t \in Tasks |-> "idle"]
  /\ on = [t \in Tasks |-> NoItem]
  /\ seen = [t \in Tasks |-> 0]
  /\ candidates = [c \in Crawlers |-> {}]
  /\ stale = {}
  /\ grants = [j \in Jobs |-> 0]
  /\ applied = {}

-----------------------------------------------------------------------------
(* Conditions the statements share. *)

\* The row is the one the item was claimed under: id, claimed_by, lease_id.
Holds(i) == lease[JobOf(i)] = LeaseOf(i)

\* Mutant: one attempt too many.
Exhausted_OffByOne(j) == MaxAttempts < attempts[j]

\* greatest(max_attempts, 1) <= greatest(attempt_count, 1)
Exhausted(j) == MaxAttempts <= attempts[j]

Existing(J) == {j \in J : status[j] \notin {"new", "deleted"}}

\* A projection task has read the job and not written its outcome yet.
BeingApplied(j) == \E t \in Tasks : pc[t] = "read" /\ JobOf(on[t]) = j

\* Some live task works on the item.
BeingProcessed(i) == \E t \in Tasks : pc[t] # "idle" /\ on[t] = i

\* Mutant: the released row keeps claimed_by and lease_id.
ReleaseJobs_KeepLease(J) ==
  /\ status' = [j \in Jobs |-> IF j \in J
                               THEN IF Exhausted(j) THEN "dead_letter" ELSE "queued"
                               ELSE status[j]]
  /\ UNCHANGED <<lease, attempts, requiresJs, grants>>

\* What the timeouts make of the rows in J: the next attempt, or none.
ReleaseJobs(J) ==
  /\ status' = [j \in Jobs |-> IF j \in J
                               THEN IF Exhausted(j) THEN "dead_letter" ELSE "queued"
                               ELSE status[j]]
  /\ lease' = [j \in Jobs |-> IF j \in J THEN NoLease ELSE lease[j]]
  /\ UNCHANGED <<attempts, requiresJs, grants>>

DeleteJobs(J) ==
  /\ J # {}
  /\ status' = [j \in Jobs |-> IF j \in J THEN "deleted" ELSE status[j]]
  /\ lease' = [j \in Jobs |-> IF j \in J THEN NoLease ELSE lease[j]]
  /\ UNCHANGED <<attempts, requiresJs, grants>>

-----------------------------------------------------------------------------
(* Frontier. *)

\* A URL enters the frontier: insert .. 'queued', max_attempts 3.
Submit(j) ==
  /\ status[j] = "new"
  /\ status' = [status EXCEPT ![j] = "queued"]
  /\ UNCHANGED <<lease, attempts, requiresJs, grants, crawlerOf, work, report,
                 item, taskVars, scanVars, applied>>

Claimable(c, j) ==
  /\ status[j] = "queued"
  /\ requiresJs[j] => c \in JsCrawlers
  /\ "slow_apply" \in Races \/ ~BeingApplied(j)

\* The lease id is a new UUID; leases are numbered in the order of their issue.
Fresh(l) ==
  /\ crawlerOf[l] = NoCrawler
  /\ \A k \in Leases : k < l => crawlerOf[k] # NoCrawler

\* The jobs in S go to crawler c, whatever they were; the query takes no account
\* of max_attempts.
TakeJobs(c, S) ==
  /\ \E l \in Leases :
       /\ Fresh(l)
       /\ crawlerOf' = [crawlerOf EXCEPT ![l] = c]
       /\ lease' = [j \in Jobs |-> IF j \in S THEN l ELSE lease[j]]
       /\ work' = work \cup ({l} \X S)
  /\ status' = [j \in Jobs |-> IF j \in S THEN "claimed" ELSE status[j]]
  /\ attempts' = [j \in Jobs |-> IF j \in S THEN attempts[j] + 1 ELSE attempts[j]]
  /\ UNCHANGED <<requiresJs, grants, report, item, taskVars, stale, applied>>

Claim(c, S) ==
  /\ S # {}
  /\ \A j \in S : Claimable(c, j)
  /\ TakeJobs(c, S)
  /\ UNCHANGED candidates

ScanFrontier(c, S) ==
  /\ "split_claim" \in Races
  /\ candidates[c] = {}
  /\ S # {}
  /\ \A j \in S : Claimable(c, j)
  /\ candidates' = [candidates EXCEPT ![c] = S]
  /\ UNCHANGED <<jobVars, crawlerOf, work, report, item, taskVars, stale, applied>>

\* The lock re-checks only that the row still exists.
LockCandidates(c) ==
  LET S == Existing(candidates[c]) IN
  /\ S # {}
  /\ \A j \in S : "slow_apply" \in Races \/ ~BeingApplied(j)
  /\ TakeJobs(c, S)
  /\ candidates' = [candidates EXCEPT ![c] = {}]

\* The selected jobs are locked by another claim (skip locked), or gone.
SkipCandidates(c) ==
  /\ candidates[c] # {}
  /\ candidates' = [candidates EXCEPT ![c] = {}]
  /\ UNCHANGED <<jobVars, crawlerOf, work, report, item, taskVars, stale, applied>>

-----------------------------------------------------------------------------
(* Report handler: check, stage, accept are three statements. *)

WorkOf(c) == {i \in work : crawlerOf[LeaseOf(i)] = c}

\* The row still belongs to the lease, whatever its status, or the result was
\* staged before.
ReportChecked(i) ==
  /\ i \in work
  /\ Holds(i) \/ item[i] # "none"
  /\ work' = work \ {i}
  /\ report' = [report EXCEPT ![i] = "checked"]
  /\ UNCHANGED <<jobVars, crawlerOf, item, taskVars, scanVars, applied>>

\* 400: the worker process ends, and with it everything else it was crawling.
ReportRejected(i) ==
  /\ i \in work
  /\ ~Holds(i)
  /\ item[i] = "none"
  /\ work' = work \ WorkOf(crawlerOf[LeaseOf(i)])
  /\ UNCHANGED <<jobVars, crawlerOf, report, item, taskVars, scanVars, applied>>

\* insert .. 'pending' on conflict (lease_id, crawl_job_id) keep the status
StageItem(i) ==
  /\ report[i] = "checked"
  /\ report' = [report EXCEPT ![i] = "staged"]
  /\ item' = [item EXCEPT ![i] = IF @ = "none" THEN "pending" ELSE @]
  /\ UNCHANGED <<jobVars, crawlerOf, work, taskVars, scanVars, applied>>

\* Mutant: accept_report without its lease condition.
AcceptReport_AnyLease(i) ==
  /\ report[i] = "staged"
  /\ report' = [report EXCEPT ![i] = "none"]
  /\ status' = IF status[JobOf(i)] \in Active
               THEN [status EXCEPT ![JobOf(i)] = "ingesting"]
               ELSE status
  /\ UNCHANGED <<lease, attempts, requiresJs, grants, crawlerOf, work, item,
                 taskVars, scanVars, applied>>

AcceptReport(i) ==
  /\ report[i] = "staged"
  /\ report' = [report EXCEPT ![i] = "none"]
  /\ status' = IF Holds(i) /\ status[JobOf(i)] \in Active
               THEN [status EXCEPT ![JobOf(i)] = "ingesting"]
               ELSE status
  /\ UNCHANGED <<lease, attempts, requiresJs, grants, crawlerOf, work, item,
                 taskVars, scanVars, applied>>

\* A statement of the handler fails, or its client is gone: nothing is rolled
\* back, and the worker that gets the error ends.
AbortReport(i) ==
  /\ report[i] # "none"
  /\ report' = [report EXCEPT ![i] = "none"]
  /\ work' = work \ WorkOf(crawlerOf[LeaseOf(i)])
  /\ UNCHANGED <<jobVars, crawlerOf, item, taskVars, scanVars, applied>>

\* Crash, restart, self-update, a claim answered with an error, a report
\* answered with an error after it was accepted (the task bus is down).
WorkerExit(c) ==
  /\ WorkOf(c) # {}
  /\ work' = work \ WorkOf(c)
  /\ UNCHANGED <<jobVars, crawlerOf, report, item, taskVars, scanVars, applied>>

-----------------------------------------------------------------------------
(* Projection task. *)

PickItem(t, i) ==
  /\ pc[t] = "idle"
  /\ item[i] = "pending"
  /\ item' = [item EXCEPT ![i] = "processing"]
  /\ pc' = [pc EXCEPT ![t] = "picked"]
  /\ on' = [on EXCEPT ![t] = i]
  /\ UNCHANGED <<jobVars, crawlerOf, work, report, seen, scanVars, applied>>

\* Mutant: the select does not ask for status = 'ingesting'.
ReadJob_AnyStatus(t) ==
  /\ pc[t] = "picked"
  /\ Holds(on[t])
  /\ pc' = [pc EXCEPT ![t] = "read"]
  /\ seen' = [seen EXCEPT ![t] = attempts[JobOf(on[t])]]
  /\ UNCHANGED <<jobVars, crawlerOf, work, report, item, on, scanVars, applied>>

\* apply_staged_result selects the row by id, claimed_by, lease_id and status.
ReadJob(t) ==
  /\ pc[t] = "picked"
  /\ Holds(on[t])
  /\ status[JobOf(on[t])] = "ingesting"
  /\ pc' = [pc EXCEPT ![t] = "read"]
  /\ seen' = [seen EXCEPT ![t] = attempts[JobOf(on[t])]]
  /\ UNCHANGED <<jobVars, crawlerOf, work, report, item, on, scanVars, applied>>

\* .. or fails: "staged crawl job is no longer ingesting"
ReadConflict(t) ==
  /\ pc[t] = "picked"
  /\ ~(Holds(on[t]) /\ status[JobOf(on[t])] = "ingesting")
  /\ pc' = [pc EXCEPT ![t] = "rejected"]
  /\ UNCHANGED <<jobVars, crawlerOf, work, report, item, on, seen, scanVars, applied>>

\* The outcome is written "where id = $1"; a deleted row is not there to be
\* updated, and the task goes on as if it had been.
Written(t) ==
  /\ pc[t] = "read"
  /\ pc' = [pc EXCEPT ![t] = "written"]
  /\ seen' = [seen EXCEPT ![t] = 0]
  /\ applied' = applied \cup {on[t]}
  /\ UNCHANGED <<attempts, crawlerOf, work, report, item, on, scanVars>>

\* Mutant: the outcome is upserted.
Settle_Upsert(t, outcome) ==
  /\ Written(t)
  /\ status' = [status EXCEPT ![JobOf(on[t])] = outcome]
  /\ UNCHANGED <<lease, requiresJs, grants>>

\* Outcomes that end the job leave claimed_by and lease_id as they are.
Settle(t, outcome) ==
  /\ Written(t)
  /\ status' = IF status[JobOf(on[t])] = "deleted" THEN status
               ELSE [status EXCEPT ![JobOf(on[t])] = outcome]
  /\ UNCHANGED <<lease, requiresJs, grants>>

\* Outcomes that give the job another round.
Requeue(t) ==
  /\ Written(t)
  /\ status' = IF status[JobOf(on[t])] = "deleted" THEN status
               ELSE [status EXCEPT ![JobOf(on[t])] = "queued"]
  /\ lease' = [lease EXCEPT ![JobOf(on[t])] = NoLease]

ApplySucceeded(t) == Settle(t, "succeeded")
ApplyFiltered(t) == Settle(t, "succeeded")
ApplyBlocked(t) == Settle(t, "blocked")
ApplyFailed(t) == Settle(t, "failed")
\* Mutant: a status no query selects.
ApplyGone_NewStatus(t) == Settle(t, "gone")

ApplyGone(t) == Settle(t, "failed")

\* classify_job_outcome compares the attempt_count the task read.
ApplyRetryable(t) ==
  /\ seen[t] < MaxAttempts
  /\ Requeue(t)
  /\ UNCHANGED <<requiresJs, grants>>

ApplyDeadLetter(t) ==
  /\ seen[t] >= MaxAttempts
  /\ Settle(t, "dead_letter")

\* A crawler without a browser met a page that needs one; no attempt limit.
ApplyRequiresJs(t) ==
  LET j == JobOf(on[t]) IN
  /\ pc[t] = "read"
  /\ crawlerOf[LeaseOf(on[t])] \notin JsCrawlers
  /\ grants[j] < MaxGrants
  /\ Requeue(t)
  /\ requiresJs' = [requiresJs EXCEPT ![j] = @ \/ status[j] # "deleted"]
  /\ grants' = [grants EXCEPT ![j] = @ + 1]

WriteOutcome(t) ==
  \/ ApplySucceeded(t) \/ ApplyFiltered(t) \/ ApplyBlocked(t)
  \/ ApplyFailed(t) \/ ApplyGone(t)
  \/ ApplyRetryable(t) \/ ApplyDeadLetter(t) \/ ApplyRequiresJs(t)

\* A blob, database or search index error before or after the outcome is
\* written.
TaskFails(t) ==
  /\ pc[t] \in {"picked", "read", "written"}
  /\ pc' = [pc EXCEPT ![t] = "rejected"]
  /\ seen' = [seen EXCEPT ![t] = 0]
  /\ UNCHANGED <<jobVars, crawlerOf, work, report, item, on, scanVars, applied>>

\* mark_projection_failure
RecordFailure(t) ==
  LET j == JobOf(on[t])
      hit == Holds(on[t]) /\ status[j] = "ingesting"
  IN
  /\ pc[t] = "rejected"
  /\ pc' = [pc EXCEPT ![t] = "failing"]
  /\ status' = IF hit THEN [status EXCEPT ![j] = "failed"] ELSE status
  /\ lease' = IF hit THEN [lease EXCEPT ![j] = NoLease] ELSE lease
  /\ UNCHANGED <<attempts, requiresJs, grants, crawlerOf, work, report, item,
                 on, seen, scanVars, applied>>

EndTask(t) ==
  /\ pc' = [pc EXCEPT ![t] = "idle"]
  /\ on' = [on EXCEPT ![t] = NoItem]
  /\ seen' = [seen EXCEPT ![t] = 0]
  /\ UNCHANGED <<jobVars, crawlerOf, work, report, scanVars, applied>>

\* Both statements update "where id = $1", whatever the status is by now.
MarkItemCompleted(t) ==
  /\ pc[t] = "written"
  /\ item' = [item EXCEPT ![on[t]] = "completed"]
  /\ EndTask(t)

MarkItemFailed(t) ==
  /\ pc[t] = "failing"
  /\ item' = [item EXCEPT ![on[t]] = "failed"]
  /\ EndTask(t)

\* The projector stops, the task panics, or a sibling's database error makes
\* drain return early and drops the JoinSet.
TaskLost(t) ==
  /\ pc[t] # "idle"
  /\ EndTask(t)
  /\ UNCHANGED item

-----------------------------------------------------------------------------
(* Timeouts. *)

\* Mutant: no cutoff on started_at.
StaleItem_Fresh(i) == item[i] = "processing"

\* recover_stale_items joins the item with its job by id: an item whose job is
\* ingesting, under whatever lease, is replayed, one whose job is not is failed,
\* and one whose job was deleted matches neither statement.
StaleItem(i) ==
  /\ item[i] = "processing"
  /\ "slow_apply" \in Races \/ ~BeingProcessed(i)

ReplayItem(i) ==
  /\ StaleItem(i)
  /\ status[JobOf(i)] = "ingesting"
  /\ item' = [item EXCEPT ![i] = "pending"]
  /\ UNCHANGED <<jobVars, crawlerOf, work, report, taskVars, scanVars, applied>>

\* Mutant: only items whose job went back to the frontier are given up.
FailItem_Requeued(i) ==
  /\ StaleItem(i)
  /\ status[JobOf(i)] \in {"queued", "claimed"}
  /\ item' = [item EXCEPT ![i] = "failed"]
  /\ UNCHANGED <<jobVars, crawlerOf, work, report, taskVars, scanVars, applied>>

FailItem(i) ==
  /\ StaleItem(i)
  /\ status[JobOf(i)] \notin {"ingesting", "deleted"}
  /\ item' = [item EXCEPT ![i] = "failed"]
  /\ UNCHANGED <<jobVars, crawlerOf, work, report, taskVars, scanVars, applied>>

RequeueStaleJobs(J) ==
  /\ J # {}
  /\ \A j \in J : status[j] = "claimed"
  /\ ReleaseJobs(J)
  /\ UNCHANGED <<crawlerOf, work, report, item, taskVars, scanVars, applied>>

\* recover_stale_ingesting_jobs: the candidates come from a snapshot; the update
\* joins them by id alone, so it takes a row whatever became of it meanwhile.
\* claimed_at dates from the claim, so the timeout may strike right after the
\* report.

\* Mutants: rows of any status; rows whose item still waits for the projector.
IngestingItems_AnyStatus == {i \in Items : Holds(i)}
IngestingItems_Waiting ==
  {i \in Items : /\ Holds(i)
                 /\ status[JobOf(i)] = "ingesting"
                 /\ item[i] \in {"pending", "processing"}}

IngestingItems == {i \in Items : Holds(i) /\ status[JobOf(i)] = "ingesting"}

ReleaseIngesting(C) ==
  LET J == Existing({JobOf(i) : i \in C}) IN
  /\ ReleaseJobs(J)
  /\ item' = [i \in Items |->
                IF i \in C /\ JobOf(i) \in J /\ item[i] \in {"pending", "processing"}
                THEN "failed" ELSE item[i]]
  /\ UNCHANGED <<crawlerOf, work, report, taskVars, candidates, applied>>

RecoverStaleIngesting(C) ==
  /\ C # {}
  /\ C \subseteq IngestingItems
  /\ ReleaseIngesting(C)
  /\ UNCHANGED stale

ScanStaleIngesting(C) ==
  /\ "split_recovery" \in Races
  /\ stale = {}
  /\ C # {}
  /\ C \subseteq IngestingItems
  /\ stale' = C
  /\ UNCHANGED <<jobVars, crawlerOf, work, report, item, taskVars, candidates,
                 applied>>

ApplyStaleIngesting ==
  /\ stale # {}
  /\ ReleaseIngesting(stale)
  /\ stale' = {}

-----------------------------------------------------------------------------
(* Operator commands. *)

\* delete_crawler, of a crawler not seen within the claim timeout: its claimed
\* jobs are released, its ingesting jobs and its process are left alone.
DeleteCrawler(c) ==
  LET J == {j \in Jobs : /\ status[j] = "claimed"
                         /\ crawlerOf[lease[j]] = c}
  IN
  /\ J # {}
  /\ ReleaseJobs(J)
  /\ UNCHANGED <<crawlerOf, work, report, item, taskVars, scanVars, applied>>

\* attempt_count is not reset: the job gets one more claim.
RetryFailed ==
  LET J == {j \in Jobs : status[j] \in {"failed", "dead_letter"}} IN
  /\ J # {}
  /\ \A j \in J : grants[j] < MaxGrants
  /\ status' = [j \in Jobs |-> IF j \in J THEN "queued" ELSE status[j]]
  /\ lease' = [j \in Jobs |-> IF j \in J THEN NoLease ELSE lease[j]]
  /\ grants' = [j \in Jobs |-> IF j \in J THEN grants[j] + 1 ELSE grants[j]]
  /\ UNCHANGED <<attempts, requiresJs, crawlerOf, work, report, item, taskVars,
                 scanVars, applied>>

RemoveJobs(J) ==
  /\ DeleteJobs(J)
  /\ UNCHANGED <<crawlerOf, work, report, item, taskVars, scanVars, applied>>

CleanupCompleted == RemoveJobs({j \in Jobs : status[j] = "succeeded"})

CleanupFailed ==
  RemoveJobs({j \in Jobs : status[j] \in {"failed", "blocked", "dead_letter"}})

StopAll == RemoveJobs({j \in Jobs : status[j] \in {"queued"} \cup Active})

\* Every job of a domain, except those in flight.
CleanupBlacklisted(J) ==
  /\ \A j \in J : status[j] \in {"queued"} \cup Terminal
  /\ RemoveJobs(J)

-----------------------------------------------------------------------------
FrontierStep ==
  \/ \E j \in Jobs : Submit(j)
  \/ \E c \in Crawlers, S \in SUBSET Jobs : Claim(c, S) \/ ScanFrontier(c, S)
  \/ \E c \in Crawlers : LockCandidates(c) \/ SkipCandidates(c)

ReportStep ==
  \/ \E i \in Items :
       \/ ReportChecked(i) \/ ReportRejected(i)
       \/ StageItem(i) \/ AcceptReport(i) \/ AbortReport(i)
  \/ \E c \in Crawlers : WorkerExit(c)

TaskStep(t) ==
  \/ \E i \in Items : PickItem(t, i)
  \/ ReadJob(t) \/ ReadConflict(t) \/ WriteOutcome(t)
  \/ TaskFails(t) \/ RecordFailure(t)
  \/ MarkItemCompleted(t) \/ MarkItemFailed(t)
  \/ TaskLost(t)

TimeoutStep ==
  \/ \E i \in Items : ReplayItem(i) \/ FailItem(i)
  \/ \E J \in SUBSET Jobs : RequeueStaleJobs(J)
  \/ \E C \in SUBSET Items : RecoverStaleIngesting(C) \/ ScanStaleIngesting(C)
  \/ ApplyStaleIngesting

OperatorStep ==
  \/ \E c \in Crawlers : DeleteCrawler(c)
  \/ RetryFailed
  \/ CleanupCompleted
  \/ CleanupFailed
  \/ StopAll
  \/ \E J \in SUBSET Jobs : CleanupBlacklisted(J)

Next ==
  \/ FrontierStep
  \/ ReportStep
  \/ \E t \in Tasks : TaskStep(t)
  \/ TimeoutStep
  \/ OperatorStep

Spec == Init /\ [][Next]_vars

-----------------------------------------------------------------------------
(* Safety. *)

\* The lease columns are set exactly as long as the status needs them: timeouts,
\* operator commands and projection tasks, none of which reads what the others
\* write, never leave a job in flight without a holder (nobody could report it)
\* or a queued job with one (its old crawler could still report it).
HeldUnderLease ==
  \A j \in Jobs :
    /\ status[j] \in Active =>
         lease[j] # NoLease /\ crawlerOf[lease[j]] # NoCrawler
    /\ status[j] \in {"new", "queued", "deleted"} => lease[j] = NoLease

\* A job is only ever ingesting on the strength of a result staged under the
\* lease that holds it now: a report that outlived its lease does not advance a
\* job someone else has claimed since.
StagedBeforeIngesting ==
  \A j \in Jobs : status[j] = "ingesting" => item[<<lease[j], j>>] # "none"

\* A job is claimed at most max_attempts times, plus once for each retry by an
\* operator and each re-queue for a browser, although the claim query does not
\* look at attempt_count: whoever puts a job back into the queue has to.
AttemptBudget == \A j \in Jobs : attempts[j] <= MaxAttempts + grants[j]

\* A page that was indexed, filtered or blocked stays so until an operator
\* removes the job: no timeout or late projection crawls it again.
OutcomeIsFinal ==
  [][\A j \in Jobs : status[j] \in {"succeeded", "blocked"} =>
                       status'[j] \in {status[j], "deleted"}]_vars

\* The outcome of a staged result is written once, through crashes of the
\* projector and replays: link counts and domain statistics are increments.
AppliedOnce ==
  [][\A t \in Tasks : pc[t] = "read" /\ pc'[t] = "written" =>
                         on[t] \notin applied]_vars

\* A projection that finds its job not ingesting finds that it has left that
\* status: "staged crawl job is no longer ingesting" (crawler.rs:1787).  The code
\* violates this: the item is there to be picked before the job is ingesting.
ConflictMeansLeft ==
  [][\A t \in Tasks : ReadConflict(t) =>
       ~(Holds(on[t]) /\ status[JobOf(on[t])] = "claimed")]_vars

\* A deleted job is not brought back by the tasks, handlers and scans that
\* still know its id.
DeletedForGood ==
  [][\A j \in Jobs : status[j] = "deleted" => status'[j] = "deleted"]_vars

-----------------------------------------------------------------------------
(* Liveness.  Crawlers keep polling, one of them with a browser; a request     *)
(* handler comes to an end; the scheduler and the projector run their loops    *)
(* forever, and every pass selects by age, so it comes to every row.  Nothing  *)
(* is assumed of the workers: they need never report.  A projector may crash   *)
(* over and over.                                                              *)

ClaimOf(j) == \E c \in Crawlers, S \in SUBSET Jobs : j \in S /\ Claim(c, S)
TimeoutOf(j) == \E J \in SUBSET Jobs : j \in J /\ RequeueStaleJobs(J)
RecoveryOf(j) ==
  \E C \in SUBSET Items : /\ \E i \in C : JobOf(i) = j
                          /\ RecoverStaleIngesting(C)

TaskProgress(t) ==
  \/ ReadJob(t) \/ ReadConflict(t) \/ WriteOutcome(t) \/ RecordFailure(t)
  \/ MarkItemCompleted(t) \/ MarkItemFailed(t)

Fairness ==
  /\ \A j \in Jobs : /\ WF_vars(ClaimOf(j))
                     /\ WF_vars(TimeoutOf(j))
                     /\ WF_vars(RecoveryOf(j))
  /\ \A i \in Items : /\ WF_vars(StageItem(i) \/ AcceptReport(i) \/ AbortReport(i))
                      /\ SF_vars(\E t \in Tasks : PickItem(t, i))
                      /\ WF_vars(ReplayItem(i) \/ FailItem(i))
  /\ \A t \in Tasks : WF_vars(TaskProgress(t))

FairSpec == Spec /\ Fairness

\* A queued job comes to an end, even if no crawler ever reports and every
\* projection is lost: both timeouts spend attempts.
JobsSettle ==
  \A j \in Jobs : status[j] = "queued" ~> status[j] \in Terminal \cup {"deleted"}

\* A staged result is applied or given up, also when the projector dies between
\* taking it and finishing it; unless its job is deleted, which strands it.
ItemsSettle ==
  \A i \in Items :
    item[i] \in {"pending", "processing"} ~>
      item[i] \in {"completed", "failed"} \/ status[JobOf(i)] = "deleted"

-----------------------------------------------------------------------------
(* The pipeline implements the life cycle. *)

PhaseOf(s) ==
  CASE s = "new" -> "absent"
    [] s = "queued" -> "waiting"
    [] s = "claimed" -> "held"
    [] s = "ingesting" -> "staged"
    [] s = "succeeded" -> "done"
    [] s = "blocked" -> "blocked"
    [] s \in {"failed", "dead_letter"} -> "lost"
    [] s = "deleted" -> "gone"

Life == INSTANCE JobLifecycle WITH
  NoHolder <- NoLease,
  phase <- [j \in Jobs |-> PhaseOf(status[j])],
  holder <- [j \in Jobs |-> IF status[j] \in Active THEN lease[j] ELSE NoLease],
  tries <- attempts,
  extra <- grants,
  late <- [j \in Jobs |-> status[j] # "ingesting" /\ BeingApplied(j)]

\* Every job only does what JobLifecycle allows, whatever the handlers, tasks,
\* timeouts and operators do.
LifecycleImplemented == Life!Spec
=============================================================================
