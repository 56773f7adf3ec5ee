-------------------------- MODULE JobPipelineProofs --------------------------
(* Theorems about JobPipeline, for every value of its constants.           *)
EXTENDS JobPipeline, TLAPS

LEMMA ItemParts ==
  ASSUME NEW i \in Items
  PROVE  LeaseOf(i) \in Leases /\ JobOf(i) \in Jobs /\ i = <<LeaseOf(i), JobOf(i)>>
BY DEF Items, LeaseOf, JobOf

-----------------------------------------------------------------------------
(* Type correctness. *)

\* Every non-idle task has an item.
TasksHaveItems == \A t \in Tasks : pc[t] # "idle" => on[t] \in Items

TypeInv == TypeOK /\ TasksHaveItems

LEMMA TypeInit == Init => TypeInv
BY BoundsAssumption DEF Init, TypeInv, TypeOK, TasksHaveItems, Statuses, Items

LEMMA TypeFrontier == TypeInv /\ FrontierStep => TypeInv'
<1> SUFFICES ASSUME TypeInv, FrontierStep PROVE TypeInv'
  OBVIOUS
<1> USE DEF TypeInv, TypeOK, TasksHaveItems, jobVars, taskVars, scanVars, Statuses, Active, Terminal
<1>1. ASSUME NEW j \in Jobs, Submit(j) PROVE TypeInv'
  BY <1>1 DEF Submit
<1>2. ASSUME NEW c \in Crawlers, NEW S \in SUBSET Jobs, TakeJobs(c, S),
             candidates' \in [Crawlers -> SUBSET Jobs]
      PROVE  TypeInv'
  <2>1. PICK l \in Leases : /\ crawlerOf' = [crawlerOf EXCEPT ![l] = c]
                            /\ lease' = [j \in Jobs |-> IF j \in S THEN l ELSE lease[j]]
                            /\ work' = work \cup ({l} \X S)
    BY <1>2 DEF TakeJobs
  <2>2. work' \subseteq Items
    BY <2>1 DEF Items
  <2>3. QED
    BY <1>2, <2>1, <2>2 DEF TakeJobs
<1>3. ASSUME NEW c \in Crawlers, NEW S \in SUBSET Jobs, Claim(c, S)
      PROVE  TypeInv'
  BY <1>2, <1>3 DEF Claim
<1>4. ASSUME NEW c \in Crawlers, NEW S \in SUBSET Jobs, ScanFrontier(c, S)
      PROVE  TypeInv'
  BY <1>4 DEF ScanFrontier
<1>5. ASSUME NEW c \in Crawlers, LockCandidates(c) PROVE TypeInv'
  BY <1>2, <1>5 DEF LockCandidates, Existing
<1>6. ASSUME NEW c \in Crawlers, SkipCandidates(c) PROVE TypeInv'
  BY <1>6 DEF SkipCandidates
<1>7. QED
  BY <1>1, <1>3, <1>4, <1>5, <1>6 DEF FrontierStep

LEMMA TypeReport == TypeInv /\ ReportStep => TypeInv'
<1> SUFFICES ASSUME TypeInv, ReportStep PROVE TypeInv'
  OBVIOUS
<1> USE DEF TypeInv, TypeOK, TasksHaveItems, jobVars, taskVars, scanVars, Statuses, Active, Terminal
<1>1. ASSUME NEW i \in Items, ReportChecked(i) PROVE TypeInv'
  BY <1>1 DEF ReportChecked
<1>2. ASSUME NEW i \in Items, ReportRejected(i) PROVE TypeInv'
  BY <1>2 DEF ReportRejected
<1>3. ASSUME NEW i \in Items, StageItem(i) PROVE TypeInv'
  BY <1>3 DEF StageItem
<1>4. ASSUME NEW i \in Items, AcceptReport(i) PROVE TypeInv'
  BY <1>4, ItemParts DEF AcceptReport
<1>5. ASSUME NEW i \in Items, AbortReport(i) PROVE TypeInv'
  BY <1>5 DEF AbortReport
<1>6. ASSUME NEW c \in Crawlers, WorkerExit(c) PROVE TypeInv'
  BY <1>6 DEF WorkerExit
<1>7. QED
  BY <1>1, <1>2, <1>3, <1>4, <1>5, <1>6 DEF ReportStep

LEMMA TypeTask == TypeInv /\ (\E t \in Tasks : TaskStep(t)) => TypeInv'
<1> SUFFICES ASSUME TypeInv, NEW t \in Tasks, TaskStep(t) PROVE TypeInv'
  OBVIOUS
<1> USE DEF TypeInv, TypeOK, TasksHaveItems, jobVars, taskVars, scanVars, Statuses, Active, Terminal
<1>1. ASSUME NEW i \in Items, PickItem(t, i) PROVE TypeInv'
  BY <1>1 DEF PickItem
<1>2. CASE ReadJob(t)
  <2>1. attempts[JobOf(on[t])] \in Nat
    BY <1>2, ItemParts DEF ReadJob
  <2>2. QED
    BY <1>2, <2>1 DEF ReadJob
<1>3. CASE ReadConflict(t)
  BY <1>3 DEF ReadConflict
<1>4. CASE WriteOutcome(t)
  <2>0. ASSUME Written(t) PROVE on[t] \in Items /\ JobOf(on[t]) \in Jobs
    BY <2>0, ItemParts DEF Written
  <2>1. ASSUME NEW o \in Terminal, Settle(t, o) PROVE TypeInv'
    BY <2>0, <2>1 DEF Settle, Written
  <2>2. ASSUME Requeue(t), requiresJs' \in [Jobs -> BOOLEAN],
               grants' \in [Jobs -> 0 .. MaxGrants]
        PROVE  TypeInv'
    BY <2>0, <2>2 DEF Requeue, Written, NoLease
  <2>3. CASE ApplyRequiresJs(t)
    <3>1. grants' \in [Jobs -> 0 .. MaxGrants]
      BY <2>0, <2>3, BoundsAssumption DEF ApplyRequiresJs, Requeue
    <3>2. QED
      BY <2>2, <2>3, <3>1 DEF ApplyRequiresJs
  <2>4. CASE ApplyRetryable(t)
    BY <2>2, <2>4 DEF ApplyRetryable
  <2>5. QED
    BY <1>4, <2>1, <2>3, <2>4
    DEF WriteOutcome, ApplySucceeded, ApplyFiltered, ApplyBlocked, ApplyFailed,
        ApplyGone, ApplyDeadLetter
<1>5. CASE TaskFails(t)
  BY <1>5 DEF TaskFails
<1>6. CASE RecordFailure(t)
  BY <1>6, ItemParts DEF RecordFailure, NoLease
<1>7. ASSUME EndTask(t),
             item' \in [Items -> {"none", "pending", "processing", "completed", "failed"}]
      PROVE  TypeInv'
  BY <1>7 DEF EndTask
<1>8. QED
  BY <1>1, <1>2, <1>3, <1>4, <1>5, <1>6, <1>7
  DEF TaskStep, MarkItemCompleted, MarkItemFailed, TaskLost

LEMMA TypeTimeout == TypeInv /\ TimeoutStep => TypeInv'
<1> SUFFICES ASSUME TypeInv, TimeoutStep PROVE TypeInv'
  OBVIOUS
<1> USE DEF TypeInv, TypeOK, TasksHaveItems, jobVars, taskVars, scanVars, Statuses, Active, Terminal
<1>1. ASSUME NEW i \in Items, ReplayItem(i) PROVE TypeInv'
  BY <1>1 DEF ReplayItem
<1>2. ASSUME NEW i \in Items, FailItem(i) PROVE TypeInv'
  BY <1>2 DEF FailItem
<1>3. ASSUME NEW J \in SUBSET Jobs, RequeueStaleJobs(J) PROVE TypeInv'
  BY <1>3 DEF RequeueStaleJobs, ReleaseJobs
<1>4. ASSUME NEW C \in SUBSET Items, ReleaseIngesting(C), stale' \subseteq Items
      PROVE  TypeInv'
  BY <1>4 DEF ReleaseIngesting, ReleaseJobs
<1>5. ASSUME NEW C \in SUBSET Items, ScanStaleIngesting(C) PROVE TypeInv'
  BY <1>5 DEF ScanStaleIngesting
<1>6. QED
  BY <1>1, <1>2, <1>3, <1>4, <1>5
  DEF TimeoutStep, RecoverStaleIngesting, ApplyStaleIngesting

LEMMA TypeOperator == TypeInv /\ OperatorStep => TypeInv'
<1> SUFFICES ASSUME TypeInv, OperatorStep PROVE TypeInv'
  OBVIOUS
<1> USE DEF TypeInv, TypeOK, TasksHaveItems, jobVars, taskVars, scanVars, Statuses, Active, Terminal
<1>1. ASSUME NEW c \in Crawlers, DeleteCrawler(c) PROVE TypeInv'
  BY <1>1 DEF DeleteCrawler, ReleaseJobs
<1>2. CASE RetryFailed
  <2>1. grants' \in [Jobs -> 0 .. MaxGrants]
    BY <1>2, BoundsAssumption DEF RetryFailed
  <2>2. QED
    BY <1>2, <2>1 DEF RetryFailed
<1>3. ASSUME NEW J \in SUBSET Jobs, RemoveJobs(J) PROVE TypeInv'
  BY <1>3 DEF RemoveJobs, DeleteJobs
<1>4. QED
  BY <1>1, <1>2, <1>3
  DEF OperatorStep, CleanupCompleted, CleanupFailed, StopAll, CleanupBlacklisted

LEMMA TypeNext == TypeInv /\ [Next]_vars => TypeInv'
<1>1. TypeInv /\ UNCHANGED vars => TypeInv'
  BY DEF vars, TypeInv, TypeOK, TasksHaveItems
<1>2. QED
  BY <1>1, TypeFrontier, TypeReport, TypeTask, TypeTimeout, TypeOperator DEF Next

\* Every reachable state has its type.
THEOREM TypeCorrect == Spec => []TypeOK
<1>1. TypeInv => TypeOK
  BY DEF TypeInv
<1>2. QED
  BY TypeInit, TypeNext, <1>1, PTL DEF Spec

-----------------------------------------------------------------------------
(* Jobs and their leases, with every race allowed. *)

HeldInv == TypeInv /\ HeldUnderLease

LEMMA HeldNext == HeldInv /\ [Next]_vars => HeldInv'
<1> SUFFICES ASSUME HeldInv, [Next]_vars PROVE HeldUnderLease'
  BY TypeNext DEF HeldInv
<1>0. TypeInv /\ TypeInv' /\ NoLease \notin Leases
  BY TypeNext DEF HeldInv, NoLease, Leases
<1> USE DEF HeldInv, HeldUnderLease, Active, Terminal
<1>1. ASSUME UNCHANGED <<status, lease, crawlerOf>> PROVE HeldUnderLease'
  BY <1>1
<1>2. ASSUME NEW j \in Jobs, Submit(j) PROVE HeldUnderLease'
  BY <1>0, <1>2 DEF Submit, TypeInv, TypeOK
<1>3. ASSUME NEW c \in Crawlers, NEW S \in SUBSET Jobs, TakeJobs(c, S)
      PROVE  HeldUnderLease'
  <2>1. PICK l \in Leases : /\ crawlerOf' = [crawlerOf EXCEPT ![l] = c]
                            /\ lease' = [j \in Jobs |-> IF j \in S THEN l ELSE lease[j]]
    BY <1>3 DEF TakeJobs
  <2>2. c # NoCrawler /\ l # NoLease
    BY CrawlersAssumption, <1>0
  <2>3. QED
    BY <1>0, <1>3, <2>1, <2>2 DEF TakeJobs, TypeInv, TypeOK
<1>4. ASSUME NEW i \in Items, AcceptReport(i) PROVE HeldUnderLease'
  BY <1>0, <1>4, ItemParts DEF AcceptReport, Holds, TypeInv, TypeOK
<1>5. ASSUME NEW t \in Tasks, WriteOutcome(t) PROVE HeldUnderLease'
  <2>0. pc[t] = "read" => JobOf(on[t]) \in Jobs
    BY <1>0, ItemParts DEF TypeInv, TasksHaveItems
  <2>1. ASSUME NEW o \in Terminal, Settle(t, o) PROVE HeldUnderLease'
    BY <1>0, <2>0, <2>1 DEF Settle, Written, TypeInv, TypeOK
  <2>2. ASSUME Requeue(t) PROVE HeldUnderLease'
    BY <1>0, <2>0, <2>2 DEF Requeue, Written, TypeInv, TypeOK
  <2>3. QED
    BY <1>5, <2>1, <2>2
    DEF WriteOutcome, ApplySucceeded, ApplyFiltered, ApplyBlocked, ApplyFailed,
        ApplyGone, ApplyRetryable, ApplyDeadLetter, ApplyRequiresJs
<1>6. ASSUME NEW t \in Tasks, RecordFailure(t) PROVE HeldUnderLease'
  BY <1>0, <1>6, ItemParts DEF RecordFailure, TypeInv, TypeOK, TasksHaveItems
<1>7. ASSUME NEW J \in SUBSET Jobs, ReleaseJobs(J), UNCHANGED crawlerOf
      PROVE  HeldUnderLease'
  BY <1>0, <1>7 DEF ReleaseJobs, TypeInv, TypeOK
<1>8. CASE RetryFailed
  BY <1>0, <1>8 DEF RetryFailed, TypeInv, TypeOK
<1>9. ASSUME NEW J \in SUBSET Jobs, RemoveJobs(J) PROVE HeldUnderLease'
  BY <1>0, <1>9 DEF RemoveJobs, DeleteJobs, TypeInv, TypeOK
<1>10. CASE FrontierStep
  <2>1. ASSUME NEW c \in Crawlers, LockCandidates(c) PROVE HeldUnderLease'
    BY <1>0, <1>3, <2>1 DEF LockCandidates, Existing, TypeInv, TypeOK
  <2>2. QED
    BY <1>1, <1>2, <1>3, <1>10, <2>1
    DEF FrontierStep, Claim, ScanFrontier, SkipCandidates, jobVars
<1>11. CASE ReportStep
  BY <1>1, <1>4, <1>11
  DEF ReportStep, ReportChecked, ReportRejected, StageItem, AbortReport,
      WorkerExit, jobVars
<1>12. CASE \E t \in Tasks : TaskStep(t)
  BY <1>1, <1>5, <1>6, <1>12
  DEF TaskStep, PickItem, ReadJob, ReadConflict, TaskFails, MarkItemCompleted,
      MarkItemFailed, TaskLost, EndTask, jobVars
<1>13. CASE TimeoutStep
  <2>1. ASSUME NEW C \in SUBSET Items, ReleaseIngesting(C) PROVE HeldUnderLease'
    <3>1. Existing({JobOf(i) : i \in C}) \in SUBSET Jobs
      BY ItemParts DEF Existing
    <3>2. QED
      BY <1>7, <2>1, <3>1 DEF ReleaseIngesting
  <2>2. stale \in SUBSET Items
    BY <1>0 DEF TypeInv, TypeOK
  <2>3. QED
    BY <1>1, <1>7, <1>13, <2>1, <2>2
    DEF TimeoutStep, ReplayItem, FailItem, RequeueStaleJobs,
        RecoverStaleIngesting, ScanStaleIngesting, ApplyStaleIngesting, jobVars
<1>14. CASE OperatorStep
  BY <1>7, <1>8, <1>9, <1>14
  DEF OperatorStep, DeleteCrawler, CleanupCompleted, CleanupFailed, StopAll,
      CleanupBlacklisted
<1>15. QED
  BY <1>1, <1>10, <1>11, <1>12, <1>13, <1>14 DEF Next, vars

\* A job in flight has a holder, a queued one has none, whichever statements
\* interleave.
THEOREM HeldUnderLeaseHolds == Spec => []HeldUnderLease
<1>1. Init => HeldInv
  BY TypeInit DEF Init, HeldInv, HeldUnderLease, Active
<1>2. QED
  BY <1>1, HeldNext, PTL DEF Spec, HeldInv

-----------------------------------------------------------------------------
(* Staged results, with every race allowed. *)

ReportedIsStaged == \A i \in Items : report[i] = "staged" => item[i] # "none"

StagedInv == HeldInv /\ StagedBeforeIngesting /\ ReportedIsStaged

\* No row of crawl_ingest_items is ever removed.
ItemsStay == \A i \in Items : item[i] # "none" => item'[i] # "none"

LEMMA ItemsStayNext == TypeInv /\ [Next]_vars => ItemsStay
<1> SUFFICES ASSUME TypeInv, [Next]_vars PROVE ItemsStay
  OBVIOUS
<1> USE DEF TypeInv, TypeOK, ItemsStay
<1>1. CASE UNCHANGED item
  BY <1>1
<1>2. ASSUME NEW i \in Items, StageItem(i) PROVE ItemsStay
  BY <1>2 DEF StageItem
<1>3. ASSUME NEW t \in Tasks, TaskStep(t) PROVE ItemsStay
  BY <1>1, <1>3
  DEF TaskStep, PickItem, ReadJob, ReadConflict, WriteOutcome, ApplySucceeded,
      ApplyFiltered, ApplyBlocked, ApplyFailed, ApplyGone, ApplyRetryable,
      ApplyDeadLetter, ApplyRequiresJs, Settle, Requeue, Written, TaskFails,
      RecordFailure, MarkItemCompleted, MarkItemFailed, TaskLost
<1>4. CASE TimeoutStep
  <2>1. ASSUME NEW C, ReleaseIngesting(C) PROVE ItemsStay
    BY <2>1 DEF ReleaseIngesting
  <2>2. ASSUME NEW i \in Items, ReplayItem(i) \/ FailItem(i) PROVE ItemsStay
    BY <2>2 DEF ReplayItem, FailItem
  <2>3. QED
    BY <1>1, <1>4, <2>1, <2>2
    DEF TimeoutStep, RequeueStaleJobs, RecoverStaleIngesting, ScanStaleIngesting,
        ApplyStaleIngesting
<1>5. CASE FrontierStep
  BY <1>1, <1>5
  DEF FrontierStep, Submit, Claim, TakeJobs, ScanFrontier, LockCandidates,
      SkipCandidates
<1>6. CASE ReportStep
  BY <1>1, <1>2, <1>6
  DEF ReportStep, ReportChecked, ReportRejected, AcceptReport, AbortReport,
      WorkerExit
<1>7. CASE OperatorStep
  BY <1>1, <1>7
  DEF OperatorStep, DeleteCrawler, RetryFailed, CleanupCompleted, CleanupFailed,
      StopAll, CleanupBlacklisted, RemoveJobs
<1>8. QED
  BY <1>1, <1>3, <1>4, <1>5, <1>6, <1>7 DEF Next, vars

LEMMA ReportedNext ==
  TypeInv /\ ReportedIsStaged /\ [Next]_vars => ReportedIsStaged'
<1> SUFFICES ASSUME TypeInv, ReportedIsStaged, [Next]_vars PROVE ReportedIsStaged'
  OBVIOUS
<1>0. ItemsStay /\ TypeInv'
  BY ItemsStayNext, TypeNext
<1> USE DEF TypeInv, TypeOK, ItemsStay, ReportedIsStaged
<1>1. CASE UNCHANGED report
  BY <1>0, <1>1
<1>2. CASE ReportStep
  BY <1>0, <1>1, <1>2
  DEF ReportStep, ReportChecked, ReportRejected, StageItem, AcceptReport,
      AbortReport, WorkerExit
<1>3. CASE FrontierStep
  BY <1>1, <1>3
  DEF FrontierStep, Submit, Claim, TakeJobs, ScanFrontier, LockCandidates,
      SkipCandidates
<1>4. ASSUME NEW t \in Tasks, TaskStep(t) PROVE ReportedIsStaged'
  BY <1>1, <1>4
  DEF TaskStep, PickItem, ReadJob, ReadConflict, WriteOutcome, ApplySucceeded,
      ApplyFiltered, ApplyBlocked, ApplyFailed, ApplyGone, ApplyRetryable,
      ApplyDeadLetter, ApplyRequiresJs, Settle, Requeue, Written, TaskFails,
      RecordFailure, MarkItemCompleted, MarkItemFailed, TaskLost, EndTask
<1>5. CASE TimeoutStep
  BY <1>1, <1>5
  DEF TimeoutStep, ReplayItem, FailItem, RequeueStaleJobs, RecoverStaleIngesting,
      ScanStaleIngesting, ApplyStaleIngesting, ReleaseIngesting
<1>6. CASE OperatorStep
  BY <1>1, <1>6
  DEF OperatorStep, DeleteCrawler, RetryFailed, CleanupCompleted, CleanupFailed,
      StopAll, CleanupBlacklisted, RemoveJobs
<1>7. QED
  BY <1>1, <1>2, <1>3, <1>4, <1>5, <1>6 DEF Next, vars

LEMMA StagedNext == StagedInv /\ [Next]_vars => StagedInv'
<1> SUFFICES ASSUME StagedInv, [Next]_vars PROVE StagedBeforeIngesting'
  BY HeldNext, ReportedNext DEF StagedInv, HeldInv
<1>0. /\ TypeInv /\ TypeInv' /\ HeldUnderLease /\ ReportedIsStaged
      /\ StagedBeforeIngesting /\ ItemsStay
  BY TypeNext, ItemsStayNext DEF StagedInv, HeldInv
<1>1. \A j \in Jobs : status[j] = "ingesting" => <<lease[j], j>> \in Items
  BY <1>0 DEF HeldUnderLease, Active, Items, TypeInv, TypeOK
\* A job that is ingesting was already, under the same lease, or enters the
\* status with its item staged.
<1> DEFINE Step(j) == status'[j] = "ingesting" =>
                 \/ status[j] = "ingesting" /\ lease'[j] = lease[j]
                 \/ <<lease'[j], j>> \in Items /\ item[<<lease'[j], j>>] # "none"
<1>2. SUFFICES \A j \in Jobs : Step(j)
  BY <1>0, <1>1 DEF StagedBeforeIngesting, ItemsStay
<1>3. ASSUME UNCHANGED <<status, lease>> PROVE \A j \in Jobs : Step(j)
  BY <1>3
<1>4. CASE FrontierStep
  <2>1. ASSUME NEW j \in Jobs, Submit(j) PROVE \A k \in Jobs : Step(k)
    BY <1>0, <2>1 DEF Submit, TypeInv, TypeOK
  <2>2. ASSUME NEW c, NEW S, TakeJobs(c, S) PROVE \A j \in Jobs : Step(j)
    BY <1>0, <2>2 DEF TakeJobs, TypeInv, TypeOK
  <2>3. QED
    BY <1>3, <1>4, <2>1, <2>2
    DEF FrontierStep, Claim, ScanFrontier, LockCandidates, SkipCandidates, jobVars
<1>5. ASSUME NEW i \in Items, AcceptReport(i) PROVE \A j \in Jobs : Step(j)
  <2>1. /\ LeaseOf(i) \in Leases /\ JobOf(i) \in Jobs
        /\ i = <<LeaseOf(i), JobOf(i)>> /\ item[i] # "none"
    BY <1>0, <1>5, ItemParts DEF AcceptReport, ReportedIsStaged
  <2>2. lease' = lease
    BY <1>5 DEF AcceptReport
  <2>3. CASE Holds(i) /\ status' = [status EXCEPT ![JobOf(i)] = "ingesting"]
    <3>1. \A j \in Jobs : j # JobOf(i) => status'[j] = status[j]
      BY <1>0, <2>1, <2>3 DEF TypeInv, TypeOK
    <3>2. <<lease'[JobOf(i)], JobOf(i)>> = i
      BY <2>1, <2>2, <2>3 DEF Holds
    <3>3. QED
      BY <2>1, <2>2, <3>1, <3>2
  <2>4. CASE status' = status
    BY <2>2, <2>4
  <2>5. QED
    BY <1>5, <2>3, <2>4 DEF AcceptReport
<1>6. CASE ReportStep
  BY <1>3, <1>5, <1>6
  DEF ReportStep, ReportChecked, ReportRejected, StageItem, AbortReport,
      WorkerExit, jobVars
<1>7. ASSUME NEW t \in Tasks, TaskStep(t) PROVE \A j \in Jobs : Step(j)
  <2>1. ASSUME NEW o \in Terminal, Settle(t, o) PROVE \A j \in Jobs : Step(j)
    BY <1>0, <2>1 DEF Settle, Terminal, TypeInv, TypeOK
  <2>2. ASSUME Requeue(t) PROVE \A j \in Jobs : Step(j)
    BY <1>0, <2>2 DEF Requeue, TypeInv, TypeOK
  <2>3. ASSUME RecordFailure(t) PROVE \A j \in Jobs : Step(j)
    BY <1>0, <2>3 DEF RecordFailure, TypeInv, TypeOK
  <2>4. QED
    BY <1>3, <1>7, <2>1, <2>2, <2>3
    DEF TaskStep, PickItem, ReadJob, ReadConflict, WriteOutcome, ApplySucceeded,
        ApplyFiltered, ApplyBlocked, ApplyFailed, ApplyGone, ApplyRetryable,
        ApplyDeadLetter, ApplyRequiresJs, TaskFails, MarkItemCompleted,
        MarkItemFailed, TaskLost, EndTask, jobVars, Terminal
<1>8. ASSUME NEW J, ReleaseJobs(J) PROVE \A j \in Jobs : Step(j)
  BY <1>0, <1>8 DEF ReleaseJobs, TypeInv, TypeOK
<1>9. CASE TimeoutStep
  BY <1>3, <1>8, <1>9
  DEF TimeoutStep, ReplayItem, FailItem, RequeueStaleJobs, RecoverStaleIngesting,
      ScanStaleIngesting, ApplyStaleIngesting, ReleaseIngesting, jobVars
<1>10. CASE OperatorStep
  <2>1. ASSUME NEW J, RemoveJobs(J) PROVE \A j \in Jobs : Step(j)
    BY <1>0, <2>1 DEF RemoveJobs, DeleteJobs, TypeInv, TypeOK
  <2>2. CASE RetryFailed
    BY <1>0, <2>2 DEF RetryFailed, TypeInv, TypeOK
  <2>3. QED
    BY <1>8, <1>10, <2>1, <2>2
    DEF OperatorStep, DeleteCrawler, CleanupCompleted, CleanupFailed, StopAll,
        CleanupBlacklisted
<1>11. QED
  BY <1>3, <1>4, <1>6, <1>7, <1>9, <1>10 DEF Next, vars

\* No report, however late, makes a job ingesting without a result staged under
\* the lease that holds the job.
THEOREM StagedBeforeIngestingHolds == Spec => []StagedBeforeIngesting
<1>1. Init => StagedInv
  BY TypeInit
  DEF Init, StagedInv, HeldInv, HeldUnderLease, StagedBeforeIngesting,
      ReportedIsStaged, Active
<1>2. QED
  BY <1>1, StagedNext, PTL DEF Spec, StagedInv

-----------------------------------------------------------------------------
(* The attempt budget.  The claim query does not look at attempt_count, so the  *)
(* bound rests on the queue: a queued job has an attempt left.  The re-queue of *)
(* a retryable result decides on the count its task read, which is the current  *)
(* count as long as no claim comes between the read and the write.              *)

NoSlowApply == "slow_apply" \notin Races
NoSplitClaim == "split_claim" \notin Races

QueuedHaveAttempts ==
  \A j \in Jobs : status[j] = "queued" => attempts[j] < MaxAttempts + grants[j]

ReadsAreCurrent ==
  \A t \in Tasks : pc[t] = "read" => seen[t] = attempts[JobOf(on[t])]

NewUnclaimed == \A j \in Jobs : status[j] = "new" => attempts[j] = 0

NoCandidates == \A c \in Crawlers : candidates[c] = {}

BudgetInv ==
  /\ TypeInv
  /\ AttemptBudget /\ QueuedHaveAttempts
  /\ ReadsAreCurrent /\ NewUnclaimed /\ NoCandidates

LEMMA BudgetInit == Init => BudgetInv
BY TypeInit, BoundsAssumption
DEF Init, BudgetInv, AttemptBudget, QueuedHaveAttempts, ReadsAreCurrent,
    NewUnclaimed, NoCandidates

LEMMA BudgetNext ==
  ASSUME NoSlowApply, NoSplitClaim, BudgetInv, [Next]_vars
  PROVE  BudgetInv'
<1>0. TypeInv /\ TypeInv'
  BY TypeNext DEF BudgetInv
<1> DEFINE Goal == (/\ AttemptBudget /\ QueuedHaveAttempts
                    /\ ReadsAreCurrent /\ NewUnclaimed /\ NoCandidates)'
<1> SUFFICES Goal
  BY <1>0 DEF BudgetInv
<1> USE DEF BudgetInv, AttemptBudget, QueuedHaveAttempts, ReadsAreCurrent,
            NewUnclaimed, NoCandidates
\* Statements that touch no attempt count and no candidates, and queue only
\* jobs with an attempt left.
<1>1. ASSUME UNCHANGED <<attempts, candidates>>, ReadsAreCurrent',
             \A j \in Jobs : grants'[j] >= grants[j],
             \A j \in Jobs : status'[j] = "new" => status[j] = "new",
             \A j \in Jobs : status'[j] = "queued" =>
                              \/ status[j] = "queued"
                              \/ attempts[j] < MaxAttempts + grants'[j]
      PROVE  Goal
  BY <1>0, <1>1, BoundsAssumption DEF TypeInv, TypeOK
<1>2. ASSUME UNCHANGED <<status, attempts, grants, candidates>>, ReadsAreCurrent'
      PROVE  Goal
  BY <1>2
<1>3. ASSUME UNCHANGED <<attempts, pc, on, seen>> PROVE ReadsAreCurrent'
  BY <1>3
<1>4. CASE FrontierStep
  <2>1. ASSUME NEW j \in Jobs, Submit(j) PROVE Goal
    <3>1. attempts[j] < MaxAttempts + grants[j]
      BY <1>0, <2>1, BoundsAssumption DEF Submit, TypeInv, TypeOK
    <3>2. \A k \in Jobs : k # j => status'[k] = status[k]
      BY <1>0, <2>1 DEF Submit, TypeInv, TypeOK
    <3>3. QED
      BY <1>0, <1>1, <1>3, <2>1, <3>1, <3>2 DEF Submit, taskVars, scanVars, TypeInv, TypeOK
  <2>2. ASSUME NEW c \in Crawlers, NEW S \in SUBSET Jobs, Claim(c, S) PROVE Goal
    <3>1. \A j \in S : status[j] = "queued" /\ ~BeingApplied(j)
      BY <2>2 DEF Claim, Claimable, NoSlowApply
    <3>2. /\ attempts' = [j \in Jobs |-> IF j \in S THEN attempts[j] + 1 ELSE attempts[j]]
          /\ status' = [j \in Jobs |-> IF j \in S THEN "claimed" ELSE status[j]]
          /\ UNCHANGED <<grants, candidates, pc, on, seen>>
      BY <2>2 DEF Claim, TakeJobs, taskVars
    <3>3. AttemptBudget'
      BY <1>0, <3>1, <3>2, BoundsAssumption DEF TypeInv, TypeOK
    <3>4. ReadsAreCurrent'
      <4> SUFFICES ASSUME NEW t \in Tasks, pc[t] = "read"
                   PROVE  seen[t] = attempts'[JobOf(on[t])]
        BY <3>2
      <4>1. JobOf(on[t]) \in Jobs
        BY <1>0, ItemParts DEF TypeInv, TasksHaveItems
      <4>2. JobOf(on[t]) \notin S
        BY <3>1 DEF BeingApplied
      <4>3. QED
        BY <3>2, <4>1, <4>2
    <3>5. QED
      BY <1>0, <3>2, <3>3, <3>4 DEF TypeInv, TypeOK
  <2>3. ASSUME NEW c \in Crawlers, NEW S \in SUBSET Jobs, ScanFrontier(c, S) PROVE FALSE
    BY <2>3 DEF ScanFrontier, NoSplitClaim
  <2>4. ASSUME NEW c \in Crawlers, LockCandidates(c) PROVE FALSE
    BY <2>4 DEF LockCandidates, Existing
  <2>5. ASSUME NEW c \in Crawlers, SkipCandidates(c) PROVE FALSE
    BY <2>5 DEF SkipCandidates
  <2>6. QED
    BY <1>4, <2>1, <2>2, <2>3, <2>4, <2>5 DEF FrontierStep
<1>5. CASE ReportStep
  <2>1. ASSUME NEW i \in Items, AcceptReport(i) PROVE Goal
    <3>1. \A j \in Jobs : status'[j] \in {status[j], "ingesting"}
      BY <1>0, <2>1 DEF AcceptReport, TypeInv, TypeOK
    <3>2. UNCHANGED <<attempts, grants, candidates, pc, on, seen>>
      BY <2>1 DEF AcceptReport, taskVars, scanVars
    <3>3. QED
      BY <1>0, <1>1, <1>3, <3>1, <3>2 DEF TypeInv, TypeOK
  <2>2. QED
    BY <1>2, <1>3, <1>5, <2>1
    DEF ReportStep, ReportChecked, ReportRejected, StageItem, AbortReport,
        WorkerExit, jobVars, taskVars, scanVars
<1>6. ASSUME NEW t \in Tasks, TaskStep(t) PROVE Goal
  <2> DEFINE j == JobOf(on[t])
  <2>1. ASSUME NEW i \in Items, PickItem(t, i) PROVE Goal
    BY <1>0, <1>2, <2>1 DEF PickItem, jobVars, scanVars, TypeInv, TypeOK
  <2>2. CASE ReadJob(t)
    BY <1>0, <1>2, <2>2 DEF ReadJob, jobVars, scanVars, TypeInv, TypeOK
  <2>3. CASE ReadConflict(t)
    BY <1>0, <1>2, <2>3 DEF ReadConflict, jobVars, scanVars, TypeInv, TypeOK
  <2>4. ASSUME Written(t)
        PROVE  /\ j \in Jobs
               /\ seen[t] = attempts[j]
               /\ ReadsAreCurrent'
               /\ UNCHANGED <<attempts, candidates>>
    BY <1>0, <2>4, ItemParts DEF Written, scanVars, TypeInv, TypeOK, TasksHaveItems
  <2>5. ASSUME NEW o \in Terminal, Settle(t, o) PROVE Goal
    <3>1. \A k \in Jobs : status'[k] \in {status[k], o}
      BY <1>0, <2>5 DEF Settle, TypeInv, TypeOK
    <3>2. UNCHANGED grants
      BY <2>5 DEF Settle
    <3>3. QED
      BY <1>0, <1>1, <2>4, <2>5, <3>1, <3>2 DEF Settle, Terminal, TypeInv, TypeOK
  <2>6. ASSUME Requeue(t),
               \A k \in Jobs : grants'[k] >= grants[k],
               attempts[j] < MaxAttempts + grants'[j]
        PROVE  Goal
    <3>1. \A k \in Jobs : k # j => status'[k] = status[k]
      BY <1>0, <2>6 DEF Requeue, TypeInv, TypeOK
    <3>2. \A k \in Jobs : status'[k] \in {status[k], "queued"}
      BY <1>0, <2>6 DEF Requeue, TypeInv, TypeOK
    <3>3. QED
      BY <1>1, <2>4, <2>6, <3>1, <3>2 DEF Requeue
  <2>7. CASE ApplyRetryable(t)
    <3>1. Written(t)
      BY <2>7 DEF ApplyRetryable, Requeue
    <3>2. attempts[j] < MaxAttempts
      BY <2>4, <2>7, <3>1 DEF ApplyRetryable
    <3>3. UNCHANGED grants
      BY <2>7 DEF ApplyRetryable
    <3>4. QED
      BY <1>0, <2>4, <2>6, <2>7, <3>1, <3>2, <3>3, BoundsAssumption
      DEF ApplyRetryable, TypeInv, TypeOK
  <2>8. CASE ApplyRequiresJs(t)
    <3>1. Written(t)
      BY <2>8 DEF ApplyRequiresJs, Requeue
    <3>2. grants' = [grants EXCEPT ![j] = @ + 1]
      BY <2>8 DEF ApplyRequiresJs
    <3>3. attempts[j] < MaxAttempts + grants'[j]
      BY <1>0, <2>4, <3>1, <3>2, BoundsAssumption DEF TypeInv, TypeOK
    <3>4. \A k \in Jobs : grants'[k] >= grants[k]
      BY <1>0, <2>4, <3>1, <3>2, BoundsAssumption DEF TypeInv, TypeOK
    <3>5. QED
      BY <2>6, <2>8, <3>3, <3>4 DEF ApplyRequiresJs
  <2>9. CASE TaskFails(t)
    BY <1>0, <1>2, <2>9 DEF TaskFails, jobVars, scanVars, TypeInv, TypeOK
  <2>10. CASE RecordFailure(t)
    <3>1. \A k \in Jobs : status'[k] \in {status[k], "failed"}
      BY <1>0, <2>10 DEF RecordFailure, TypeInv, TypeOK
    <3>2. UNCHANGED <<attempts, grants, candidates>> /\ ReadsAreCurrent'
      BY <1>0, <2>10 DEF RecordFailure, scanVars, TypeInv, TypeOK
    <3>3. QED
      BY <1>0, <1>1, <3>1, <3>2 DEF TypeInv, TypeOK
  <2>11. ASSUME EndTask(t) PROVE Goal
    BY <1>0, <1>2, <2>11 DEF EndTask, jobVars, scanVars, TypeInv, TypeOK
  <2>12. QED
    BY <1>6, <2>1, <2>2, <2>3, <2>5, <2>7, <2>8, <2>9, <2>10, <2>11
    DEF TaskStep, WriteOutcome, ApplySucceeded, ApplyFiltered, ApplyBlocked,
        ApplyFailed, ApplyGone, ApplyDeadLetter, MarkItemCompleted,
        MarkItemFailed, TaskLost, Terminal
<1>7. ASSUME NEW J, ReleaseJobs(J), UNCHANGED <<candidates, pc, on, seen>> PROVE Goal
  <2>1. \A j \in Jobs : status'[j] = "queued" =>
          status[j] = "queued" \/ attempts[j] < MaxAttempts
    BY <1>0, <1>7, BoundsAssumption DEF ReleaseJobs, Exhausted, TypeInv, TypeOK
  <2>2. \A j \in Jobs : status'[j] = "new" => status[j] = "new"
    BY <1>0, <1>7 DEF ReleaseJobs, TypeInv, TypeOK
  <2>3. QED
    BY <1>0, <1>1, <1>3, <1>7, <2>1, <2>2, BoundsAssumption
    DEF ReleaseJobs, TypeInv, TypeOK
<1>8. CASE TimeoutStep
  BY <1>2, <1>3, <1>7, <1>8
  DEF TimeoutStep, ReplayItem, FailItem, RequeueStaleJobs, RecoverStaleIngesting,
      ScanStaleIngesting, ApplyStaleIngesting, ReleaseIngesting, jobVars,
      taskVars, scanVars
<1>9. CASE RetryFailed
  <2>1. \A j \in Jobs : \/ status'[j] = status[j] /\ grants'[j] = grants[j]
                        \/ status'[j] = "queued" /\ grants'[j] = grants[j] + 1
    BY <1>0, <1>9 DEF RetryFailed, TypeInv, TypeOK
  <2>2. UNCHANGED <<attempts, candidates, pc, on, seen>>
    BY <1>9 DEF RetryFailed, taskVars, scanVars
  <2>3. \A j \in Jobs : grants[j] \in Nat /\ attempts[j] <= MaxAttempts + grants[j]
    BY <1>0, BoundsAssumption DEF TypeInv, TypeOK
  <2>4. QED
    BY <1>0, <1>1, <1>3, <2>1, <2>2, <2>3, BoundsAssumption DEF TypeInv, TypeOK
<1>10. ASSUME NEW J, RemoveJobs(J) PROVE Goal
  <2>1. \A j \in Jobs : status'[j] \in {status[j], "deleted"}
    BY <1>0, <1>10 DEF RemoveJobs, DeleteJobs, TypeInv, TypeOK
  <2>2. UNCHANGED <<attempts, grants, candidates, pc, on, seen>>
    BY <1>10 DEF RemoveJobs, DeleteJobs, taskVars, scanVars
  <2>3. QED
    BY <1>0, <1>1, <1>3, <2>1, <2>2 DEF TypeInv, TypeOK
<1>11. CASE OperatorStep
  BY <1>7, <1>9, <1>10, <1>11
  DEF OperatorStep, DeleteCrawler, CleanupCompleted, CleanupFailed, StopAll,
      CleanupBlacklisted, taskVars, scanVars
<1>12. CASE UNCHANGED vars
  BY <1>2, <1>3, <1>12 DEF vars
<1>13. QED
  BY <1>4, <1>5, <1>6, <1>8, <1>11, <1>12 DEF Next

\* However leases, reports, projections, timeouts and retries interleave, a job
\* is claimed at most max_attempts times plus once per granted round, provided
\* no projection outlives the backoff of its job and no commit lands inside a
\* claim.
THEOREM AttemptBudgetHolds ==
  ASSUME NoSlowApply, NoSplitClaim
  PROVE  Spec => []AttemptBudget
<1>1. BudgetInv /\ [Next]_vars => BudgetInv'
  BY BudgetNext
<1>2. BudgetInv => AttemptBudget
  BY DEF BudgetInv
<1>3. QED
  BY BudgetInit, <1>1, <1>2, PTL DEF Spec
-----------------------------------------------------------------------------
(* A deleted job stays deleted, with every race allowed: whoever still knows   *)
(* its id finds no row to update.                                              *)

DeletedStay == \A j \in Jobs : status[j] = "deleted" => status'[j] = "deleted"

LEMMA DeletedNext == TypeInv /\ [Next]_vars => DeletedStay
<1> SUFFICES ASSUME TypeInv, [Next]_vars PROVE DeletedStay
  OBVIOUS
<1>0. status \in [Jobs -> Statuses]
  BY DEF TypeInv, TypeOK
<1> USE DEF DeletedStay
<1>1. CASE UNCHANGED status
  BY <1>1
<1>2. CASE FrontierStep
  <2>1. ASSUME NEW j \in Jobs, Submit(j) PROVE DeletedStay
    BY <1>0, <2>1 DEF Submit
  <2>2. ASSUME NEW c, NEW S, TakeJobs(c, S), \A j \in S : status[j] # "deleted"
        PROVE  DeletedStay
    BY <2>2 DEF TakeJobs
  <2>3. ASSUME NEW c \in Crawlers, NEW S \in SUBSET Jobs, Claim(c, S) PROVE DeletedStay
    BY <2>2, <2>3 DEF Claim, Claimable
  <2>4. ASSUME NEW c \in Crawlers, LockCandidates(c) PROVE DeletedStay
    BY <2>2, <2>4 DEF LockCandidates, Existing
  <2>5. QED
    BY <1>1, <1>2, <2>1, <2>3, <2>4 DEF FrontierStep, ScanFrontier, SkipCandidates, jobVars
<1>3. CASE ReportStep
  <2>1. ASSUME NEW i \in Items, AcceptReport(i) PROVE DeletedStay
    BY <1>0, <2>1 DEF AcceptReport, Active
  <2>2. QED
    BY <1>1, <1>3, <2>1
    DEF ReportStep, ReportChecked, ReportRejected, StageItem, AbortReport,
        WorkerExit, jobVars
<1>4. ASSUME NEW t \in Tasks, TaskStep(t) PROVE DeletedStay
  <2>1. ASSUME NEW o, Settle(t, o) PROVE DeletedStay
    BY <1>0, <2>1 DEF Settle
  <2>2. ASSUME Requeue(t) PROVE DeletedStay
    BY <1>0, <2>2 DEF Requeue
  <2>3. ASSUME RecordFailure(t) PROVE DeletedStay
    BY <1>0, <2>3 DEF RecordFailure
  <2>4. QED
    BY <1>1, <1>4, <2>1, <2>2, <2>3
    DEF TaskStep, PickItem, ReadJob, ReadConflict, WriteOutcome, ApplySucceeded,
        ApplyFiltered, ApplyBlocked, ApplyFailed, ApplyGone, ApplyRetryable,
        ApplyDeadLetter, ApplyRequiresJs, TaskFails, MarkItemCompleted,
        MarkItemFailed, TaskLost, EndTask, jobVars
<1>5. ASSUME NEW J, ReleaseJobs(J), \A j \in J : status[j] # "deleted"
      PROVE  DeletedStay
  BY <1>5 DEF ReleaseJobs
<1>6. CASE TimeoutStep
  <2>1. ASSUME NEW C, ReleaseIngesting(C) PROVE DeletedStay
    BY <1>5, <2>1 DEF ReleaseIngesting, Existing
  <2>2. ASSUME NEW J \in SUBSET Jobs, RequeueStaleJobs(J) PROVE DeletedStay
    BY <1>5, <2>2 DEF RequeueStaleJobs
  <2>3. QED
    BY <1>1, <1>6, <2>1, <2>2
    DEF TimeoutStep, ReplayItem, FailItem, RecoverStaleIngesting,
        ScanStaleIngesting, ApplyStaleIngesting, jobVars
<1>7. CASE OperatorStep
  <2>1. ASSUME NEW c \in Crawlers, DeleteCrawler(c) PROVE DeletedStay
    BY <1>5, <2>1 DEF DeleteCrawler
  <2>2. CASE RetryFailed
    BY <2>2 DEF RetryFailed
  <2>3. ASSUME NEW J, RemoveJobs(J) PROVE DeletedStay
    BY <2>3 DEF RemoveJobs, DeleteJobs
  <2>4. QED
    BY <1>7, <2>1, <2>2, <2>3
    DEF OperatorStep, CleanupCompleted, CleanupFailed, StopAll, CleanupBlacklisted
<1>8. QED
  BY <1>1, <1>2, <1>3, <1>4, <1>6, <1>7 DEF Next, vars

\* No claim, report, projection, timeout or operator command that still knows
\* the id of a deleted job brings it back.
THEOREM DeletedForGoodHolds == Spec => DeletedForGood
<1>1. TypeInv /\ [Next]_vars =>
        [\A j \in Jobs : status[j] = "deleted" => status'[j] = "deleted"]_vars
  BY DeletedNext DEF DeletedStay
<1>2. QED
  BY TypeInit, TypeNext, <1>1, PTL DEF Spec, DeletedForGood
-----------------------------------------------------------------------------
(* The outcome is written once.  An item has one task at a time, since only    *)
(* what nobody works on is picked or replayed; a job has one reader, since a   *)
(* reader holds it under the lease of its item and no claim gives that lease   *)
(* to another before the reader is through; and a written item has left the   *)
(* jobs that are in flight.  Backoffs must outlast projections; claims and     *)
(* recoveries may be split.                                                    *)

OneTaskPerItem ==
  \A t, u \in Tasks : pc[t] # "idle" /\ pc[u] # "idle" /\ on[t] = on[u] => t = u

TakenItems == \A t \in Tasks : pc[t] # "idle" => item[on[t]] \notin {"none", "pending"}

TakenInv == TypeInv /\ OneTaskPerItem /\ TakenItems

LEMMA TakenNext ==
  ASSUME NoSlowApply, TakenInv, [Next]_vars
  PROVE  TakenInv'
<1>0. TypeInv /\ TypeInv' /\ OneTaskPerItem /\ TakenItems
  BY TypeNext DEF TakenInv
<1> DEFINE Goal == (OneTaskPerItem /\ TakenItems)'
<1> SUFFICES Goal
  BY <1>0 DEF TakenInv
\* Steps after which no more tasks are busy and no busy item waits.
<1>1. ASSUME \A u \in Tasks : pc'[u] # "idle" => pc[u] # "idle" /\ on'[u] = on[u],
             \A u \in Tasks : pc[u] # "idle" /\ pc'[u] # "idle" =>
                               \/ item'[on[u]] = item[on[u]]
                               \/ item'[on[u]] \notin {"none", "pending"}
      PROVE  Goal
  BY <1>0, <1>1 DEF OneTaskPerItem, TakenItems
<1>2. ASSUME UNCHANGED <<pc, on, item>> PROVE Goal
  BY <1>1, <1>2
<1>3. ASSUME NEW i \in Items, StageItem(i) PROVE Goal
  <2>1. \A k \in Items : k # i => item'[k] = item[k]
    BY <1>0, <1>3 DEF StageItem, TypeInv, TypeOK
  <2>2. item[i] # "none" => item'[i] = item[i]
    BY <1>0, <1>3 DEF StageItem, TypeInv, TypeOK
  <2>3. \A u \in Tasks : pc[u] # "idle" => item'[on[u]] = item[on[u]]
    BY <1>0, <2>1, <2>2 DEF TakenItems, TypeInv, TasksHaveItems
  <2>4. QED
    BY <1>1, <1>3, <2>3 DEF StageItem, taskVars
<1>4. CASE ReportStep
  BY <1>2, <1>3, <1>4
  DEF ReportStep, ReportChecked, ReportRejected, AcceptReport, AbortReport,
      WorkerExit, taskVars
<1>5. CASE FrontierStep
  BY <1>2, <1>5
  DEF FrontierStep, Submit, Claim, TakeJobs, ScanFrontier, LockCandidates,
      SkipCandidates, taskVars
<1>6. ASSUME NEW t \in Tasks, NEW i \in Items, PickItem(t, i) PROVE Goal
  <2>1. /\ \A u \in Tasks : u # t => pc'[u] = pc[u] /\ on'[u] = on[u]
        /\ on'[t] = i
    BY <1>0, <1>6 DEF PickItem, TypeInv, TypeOK
  <2>2. item'[i] = "processing" /\ \A k \in Items : k # i => item'[k] = item[k]
    BY <1>0, <1>6 DEF PickItem, TypeInv, TypeOK
  <2>3. \A u \in Tasks : pc[u] # "idle" => on[u] # i /\ on[u] \in Items
    BY <1>0, <1>6 DEF PickItem, TakenItems, TypeInv, TasksHaveItems
  <2>4. OneTaskPerItem'
    BY <1>0, <2>1, <2>3 DEF OneTaskPerItem
  <2>5. TakenItems'
    BY <1>0, <2>1, <2>2, <2>3 DEF TakenItems
  <2>6. QED
    BY <2>4, <2>5
\* A task that goes on works on what it worked on.
<1>7. ASSUME NEW t \in Tasks, NEW s, pc[t] # "idle", pc' = [pc EXCEPT ![t] = s],
             UNCHANGED <<on, item>>
      PROVE  Goal
  <2>1. \A u \in Tasks : u # t => pc'[u] = pc[u]
    BY <1>0, <1>7 DEF TypeInv, TypeOK
  <2>2. QED
    BY <1>1, <1>7, <2>1
<1>8. ASSUME NEW t \in Tasks, pc[t] # "idle", EndTask(t), NEW s \in {"completed", "failed"},
             item' \in {item, [item EXCEPT ![on[t]] = s]}
      PROVE  Goal
  <2>1. /\ pc'[t] = "idle"
        /\ \A u \in Tasks : u # t => pc'[u] = pc[u] /\ on'[u] = on[u]
    BY <1>0, <1>8 DEF EndTask, TypeInv, TypeOK
  <2>2. \A k \in Items : k # on[t] => item'[k] = item[k]
    BY <1>0, <1>8 DEF TypeInv, TypeOK
  <2>3. \A u \in Tasks : pc[u] # "idle" /\ u # t => on[u] \in Items /\ on[u] # on[t]
    BY <1>0, <1>8 DEF OneTaskPerItem, TypeInv, TasksHaveItems
  <2>4. QED
    BY <1>1, <2>1, <2>2, <2>3
<1>9. ASSUME NEW t \in Tasks, TaskStep(t) PROVE Goal
  <2>1. CASE WriteOutcome(t)
    <3>1. Written(t)
      BY <2>1
      DEF WriteOutcome, ApplySucceeded, ApplyFiltered, ApplyBlocked, ApplyFailed,
          ApplyGone, ApplyRetryable, ApplyDeadLetter, ApplyRequiresJs, Settle, Requeue
    <3>2. QED
      BY <1>7, <3>1 DEF Written
  <2>2. CASE ReadJob(t) \/ ReadConflict(t) \/ TaskFails(t) \/ RecordFailure(t)
    BY <1>7, <2>2 DEF ReadJob, ReadConflict, TaskFails, RecordFailure
  <2>3. CASE MarkItemCompleted(t) \/ MarkItemFailed(t) \/ TaskLost(t)
    BY <1>8, <2>3 DEF MarkItemCompleted, MarkItemFailed, TaskLost
  <2>4. QED
    BY <1>6, <1>9, <2>1, <2>2, <2>3 DEF TaskStep
<1>10. CASE TimeoutStep
  <2>1. ASSUME NEW i \in Items, NEW s, StaleItem(i), item' = [item EXCEPT ![i] = s],
               UNCHANGED <<pc, on>>
        PROVE  Goal
    <3>1. \A u \in Tasks : pc[u] # "idle" => on[u] # i /\ on[u] \in Items
      BY <1>0, <2>1 DEF StaleItem, NoSlowApply, BeingProcessed, TypeInv, TasksHaveItems
    <3>2. \A k \in Items : k # i => item'[k] = item[k]
      BY <1>0, <2>1 DEF TypeInv, TypeOK
    <3>3. QED
      BY <1>1, <2>1, <3>1, <3>2
  <2>2. ASSUME NEW C, ReleaseIngesting(C) PROVE Goal
    <3>1. \A k \in Items : item'[k] \in {item[k], "failed"}
      BY <1>0, <2>2 DEF ReleaseIngesting
    <3>2. \A u \in Tasks : pc[u] # "idle" =>
                             \/ item'[on[u]] = item[on[u]]
                             \/ item'[on[u]] \notin {"none", "pending"}
      BY <1>0, <3>1 DEF TypeInv, TasksHaveItems
    <3>3. QED
      BY <1>1, <2>2, <3>2 DEF ReleaseIngesting, taskVars
  <2>3. QED
    BY <1>2, <1>10, <2>1, <2>2
    DEF TimeoutStep, ReplayItem, FailItem, RequeueStaleJobs, RecoverStaleIngesting,
        ScanStaleIngesting, ApplyStaleIngesting, taskVars
<1>11. CASE OperatorStep
  BY <1>2, <1>11
  DEF OperatorStep, DeleteCrawler, RetryFailed, CleanupCompleted, CleanupFailed,
      StopAll, CleanupBlacklisted, RemoveJobs, taskVars
<1>12. QED
  BY <1>2, <1>4, <1>5, <1>9, <1>10, <1>11 DEF Next, vars

\* One projection at most has read the row of a job and not yet written it.
OneReader ==
  \A t, u \in Tasks :
    pc[t] = "read" /\ pc[u] = "read" /\ JobOf(on[t]) = JobOf(on[u]) => t = u

\* The row was read under the lease of the item, and nobody else has claimed or
\* settled the job since.
ReaderSound(t) ==
  /\ lease[JobOf(on[t])] \in {NoLease, LeaseOf(on[t])}
  /\ status[JobOf(on[t])] \notin {"new", "claimed", "succeeded", "blocked"}
  /\ crawlerOf[LeaseOf(on[t])] # NoCrawler
  /\ on[t] \notin applied

ReadersSound == \A t \in Tasks : pc[t] = "read" => ReaderSound(t)

\* No job is in flight under the lease of an item whose outcome was written.
AppliedSound ==
  \A i \in applied :
    /\ crawlerOf[LeaseOf(i)] # NoCrawler
    /\ Holds(i) => status[JobOf(i)] \notin Active

ApplyInv == HeldInv /\ TakenInv /\ OneReader /\ ReadersSound /\ AppliedSound

LEMMA ApplyInit == Init => ApplyInv
BY TypeInit
DEF Init, ApplyInv, HeldInv, HeldUnderLease, TakenInv, OneTaskPerItem, TakenItems,
    OneReader, ReadersSound, AppliedSound, Active

\* The job and the lease of a busy task.
LEMMA TaskParts ==
  ASSUME TypeInv, NEW t \in Tasks, pc[t] # "idle"
  PROVE  /\ on[t] \in Items /\ JobOf(on[t]) \in Jobs /\ LeaseOf(on[t]) \in Leases
         /\ on[t] = <<LeaseOf(on[t]), JobOf(on[t])>>
         /\ LeaseOf(on[t]) # NoLease
<1>1. on[t] \in Items
  BY DEF TypeInv, TasksHaveItems
<1>2. QED
  BY <1>1, ItemParts DEF Leases, NoLease

\* A job that is neither handed out nor settled by the step: it may be put back
\* or removed, or go on under its lease.
Undisturbed(j) ==
  /\ lease'[j] \in {lease[j], NoLease}
  /\ status'[j] = status[j] \/ status'[j] \notin {"new", "claimed", "succeeded", "blocked"}
  /\ lease'[j] = lease[j] /\ status'[j] \in Active => status[j] \in Active

NoNewReader == \A t \in Tasks : pc'[t] = "read" => pc[t] = "read" /\ on'[t] = on[t]

LEMMA UndisturbedNext ==
  ASSUME TypeInv, OneReader, ReadersSound, AppliedSound, NoNewReader,
         UNCHANGED <<crawlerOf, applied>>, \A j \in Jobs : Undisturbed(j)
  PROVE  (OneReader /\ ReadersSound /\ AppliedSound)'
<1>1. OneReader'
  BY DEF OneReader, NoNewReader
<1>2. ASSUME NEW t \in Tasks, pc'[t] = "read" PROVE ReaderSound(t)'
  <2>1. pc[t] = "read" /\ on'[t] = on[t] /\ ReaderSound(t)
    BY <1>2 DEF NoNewReader, ReadersSound
  <2>2. Undisturbed(JobOf(on[t]))
    BY <2>1, TaskParts
  <2>3. QED
    BY <2>1, <2>2 DEF ReaderSound, Undisturbed
<1>3. ASSUME NEW i \in applied PROVE Holds(i)' => status'[JobOf(i)] \notin Active
  <2>1. i \in Items /\ JobOf(i) \in Jobs /\ LeaseOf(i) # NoLease
    BY ItemParts DEF TypeInv, TypeOK, Leases, NoLease
  <2>2. Undisturbed(JobOf(i))
    BY <2>1
  <2>3. QED
    BY <2>1, <2>2 DEF Undisturbed, AppliedSound, Holds
<1>4. AppliedSound'
  BY <1>3 DEF AppliedSound
<1>5. QED
  BY <1>1, <1>2, <1>4 DEF ReadersSound

LEMMA TakeNext ==
  ASSUME TypeInv, OneReader, ReadersSound, AppliedSound,
         NEW c \in Crawlers, NEW S \in SUBSET Jobs, TakeJobs(c, S),
         \A j \in S : ~BeingApplied(j)
  PROVE  (OneReader /\ ReadersSound /\ AppliedSound)'
<1>1. PICK l \in Leases : /\ Fresh(l)
                          /\ crawlerOf' = [crawlerOf EXCEPT ![l] = c]
                          /\ lease' = [j \in Jobs |-> IF j \in S THEN l ELSE lease[j]]
  BY DEF TakeJobs
<1>2. UNCHANGED <<pc, on, applied>>
  BY DEF TakeJobs, taskVars
<1>3. \A j \in Jobs : j \notin S => status'[j] = status[j] /\ lease'[j] = lease[j]
  BY <1>1 DEF TakeJobs
<1>4. \A k \in Leases : crawlerOf[k] # NoCrawler => crawlerOf'[k] # NoCrawler
  BY <1>1, CrawlersAssumption DEF TypeInv, TypeOK
<1>5. ASSUME NEW t \in Tasks, pc[t] = "read" PROVE ReaderSound(t)'
  <2>1. JobOf(on[t]) \in Jobs /\ LeaseOf(on[t]) \in Leases /\ JobOf(on[t]) \notin S
    BY <1>5, TaskParts DEF BeingApplied
  <2>2. ReaderSound(t)
    BY <1>5 DEF ReadersSound
  <2>3. QED
    BY <1>2, <1>3, <1>4, <2>1, <2>2 DEF ReaderSound
<1>6. ASSUME NEW i \in applied
      PROVE  crawlerOf'[LeaseOf(i)] # NoCrawler /\ (Holds(i)' => status'[JobOf(i)] \notin Active)
  <2>1. JobOf(i) \in Jobs /\ LeaseOf(i) \in Leases
    BY ItemParts DEF TypeInv, TypeOK
  <2>2. crawlerOf[LeaseOf(i)] # NoCrawler /\ LeaseOf(i) # l
    BY <1>1 DEF AppliedSound, Fresh
  <2>3. JobOf(i) \in S => lease'[JobOf(i)] = l
    BY <1>1, <2>1
  <2>4. QED
    BY <1>3, <1>4, <2>1, <2>2, <2>3 DEF AppliedSound, Holds
<1>7. AppliedSound'
  BY <1>2, <1>6 DEF AppliedSound
<1>8. QED
  BY <1>2, <1>5, <1>7 DEF ReadersSound, OneReader

LEMMA ReadNext ==
  ASSUME HeldInv, TakenInv, OneReader, ReadersSound, AppliedSound,
         NEW t \in Tasks, ReadJob(t)
  PROVE  (OneReader /\ ReadersSound /\ AppliedSound)'
<1> DEFINE j == JobOf(on[t])
<1>0. TypeInv
  BY DEF HeldInv
<1>1. /\ pc' = [pc EXCEPT ![t] = "read"] /\ pc[t] = "picked"
      /\ Holds(on[t]) /\ status[j] = "ingesting"
      /\ UNCHANGED <<status, lease, crawlerOf, on, applied>>
  BY DEF ReadJob, jobVars
<1>2. \A u \in Tasks : u # t => pc'[u] = pc[u]
  BY <1>0, <1>1 DEF TypeInv, TypeOK
<1>3. ReaderSound(t)
  <2>1. j \in Jobs /\ LeaseOf(on[t]) # NoLease
    BY <1>0, <1>1, TaskParts
  <2>2. crawlerOf[LeaseOf(on[t])] # NoCrawler
    BY <1>1, <2>1 DEF HeldInv, HeldUnderLease, Holds, Active
  <2>3. on[t] \notin applied
    BY <1>1 DEF AppliedSound, Active
  <2>4. QED
    BY <1>1, <2>2, <2>3 DEF ReaderSound, Holds
<1>4. ASSUME NEW u \in Tasks, pc[u] = "read", JobOf(on[u]) = j PROVE u = t
  <2>1. ReaderSound(u)
    BY <1>4 DEF ReadersSound
  <2>2. lease[j] = LeaseOf(on[t]) /\ lease[j] # NoLease
    BY <1>0, <1>1, TaskParts DEF Holds
  <2>3. LeaseOf(on[u]) = LeaseOf(on[t])
    BY <1>4, <2>1, <2>2 DEF ReaderSound
  <2>4. on[u] = on[t]
    <3>1. on[u] = <<LeaseOf(on[u]), JobOf(on[u])>>
      BY <1>0, <1>4, TaskParts
    <3>2. on[t] = <<LeaseOf(on[t]), JobOf(on[t])>>
      BY <1>0, <1>1, TaskParts
    <3>3. QED
      BY <1>4, <2>3, <3>1, <3>2
  <2>5. QED
    BY <1>1, <1>4, <2>4 DEF TakenInv, OneTaskPerItem
<1>5. OneReader'
  BY <1>1, <1>2, <1>4 DEF OneReader
<1>6. ReadersSound'
  BY <1>1, <1>2, <1>3 DEF ReadersSound, ReaderSound
<1>7. AppliedSound'
  BY <1>1 DEF AppliedSound, Holds
<1>8. QED
  BY <1>5, <1>6, <1>7

\* The outcome is written: the job leaves the flight, the others stay as they are.
LEMMA WriteNext ==
  ASSUME TypeInv, OneReader, ReadersSound, AppliedSound,
         NEW t \in Tasks, Written(t),
         status'[JobOf(on[t])] \notin Active,
         \A k \in Jobs : k # JobOf(on[t]) => status'[k] = status[k] /\ lease'[k] = lease[k]
  PROVE  (OneReader /\ ReadersSound /\ AppliedSound)'
<1> DEFINE j == JobOf(on[t])
<1>1. /\ pc[t] = "read" /\ pc' = [pc EXCEPT ![t] = "written"]
      /\ applied' = applied \cup {on[t]} /\ UNCHANGED <<on, crawlerOf>>
  BY DEF Written
<1>2. pc'[t] = "written" /\ \A u \in Tasks : u # t => pc'[u] = pc[u]
  BY <1>1 DEF TypeInv, TypeOK
<1>3. ReaderSound(t)
  BY <1>1 DEF ReadersSound
<1>4. ASSUME NEW u \in Tasks, pc'[u] = "read" PROVE ReaderSound(u)'
  <2>1. u # t /\ pc[u] = "read"
    BY <1>2, <1>4
  <2>2. JobOf(on[u]) # j /\ JobOf(on[u]) \in Jobs
    BY <1>1, <2>1, TaskParts DEF OneReader
  <2>3. ReaderSound(u)
    BY <2>1 DEF ReadersSound
  <2>4. on[u] # on[t]
    BY <2>2
  <2>5. QED
    BY <1>1, <2>2, <2>3, <2>4 DEF ReaderSound
<1>5. OneReader'
  BY <1>1, <1>2 DEF OneReader
<1>6. ASSUME NEW i \in applied'
      PROVE  crawlerOf'[LeaseOf(i)] # NoCrawler /\ (Holds(i)' => status'[JobOf(i)] \notin Active)
  <2>1. CASE JobOf(i) = j
    BY <1>1, <1>3, <1>6, <2>1 DEF ReaderSound, AppliedSound
  <2>2. CASE JobOf(i) # j
    <3>1. i \in applied
      BY <1>1, <1>6, <2>2
    <3>2. JobOf(i) \in Jobs
      BY <3>1, ItemParts DEF TypeInv, TypeOK
    <3>3. QED
      BY <1>1, <2>2, <3>1, <3>2 DEF AppliedSound, Holds
  <2>3. QED
    BY <2>1, <2>2
<1>7. AppliedSound'
  BY <1>6 DEF AppliedSound
<1>8. QED
  BY <1>4, <1>5, <1>7 DEF ReadersSound
LEMMA ApplyNext ==
  ASSUME NoSlowApply, ApplyInv, [Next]_vars
  PROVE  ApplyInv'
<1>0. /\ TypeInv /\ HeldInv /\ TakenInv
      /\ OneReader /\ ReadersSound /\ AppliedSound
  BY DEF ApplyInv, HeldInv
<1> DEFINE Goal == (OneReader /\ ReadersSound /\ AppliedSound)'
<1> SUFFICES Goal
  BY <1>0, HeldNext, TakenNext DEF ApplyInv
<1>1. ASSUME NoNewReader, UNCHANGED <<crawlerOf, applied>>, \A j \in Jobs : Undisturbed(j)
      PROVE  Goal
  BY <1>0, <1>1, UndisturbedNext
<1>2. ASSUME NoNewReader, UNCHANGED <<status, lease, crawlerOf, applied>> PROVE Goal
  BY <1>1, <1>2 DEF Undisturbed
<1>3. ASSUME UNCHANGED <<pc, on>> PROVE NoNewReader
  BY <1>3 DEF NoNewReader
<1>4. CASE FrontierStep
  <2>1. ASSUME NEW j \in Jobs, Submit(j) PROVE Goal
    <3>1. \A k \in Jobs : Undisturbed(k)
      BY <1>0, <2>1 DEF Submit, Undisturbed, TypeInv, TypeOK, Active
    <3>2. QED
      BY <1>1, <1>3, <2>1, <3>1 DEF Submit, taskVars
  <2>2. ASSUME NEW c \in Crawlers, NEW S \in SUBSET Jobs, Claim(c, S) PROVE Goal
    BY <1>0, <2>2, TakeNext DEF Claim, Claimable, NoSlowApply
  <2>3. ASSUME NEW c \in Crawlers, LockCandidates(c) PROVE Goal
    <3>1. Existing(candidates[c]) \in SUBSET Jobs
      BY <1>0 DEF Existing, TypeInv, TypeOK
    <3>2. QED
      BY <1>0, <2>3, <3>1, TakeNext DEF LockCandidates, NoSlowApply
  <2>4. ASSUME NEW c \in Crawlers, NEW S, ScanFrontier(c, S) \/ SkipCandidates(c) PROVE Goal
    BY <1>2, <1>3, <2>4 DEF ScanFrontier, SkipCandidates, jobVars, taskVars
  <2>5. QED
    BY <1>4, <2>1, <2>2, <2>3, <2>4 DEF FrontierStep
<1>5. CASE ReportStep
  <2>1. ASSUME NEW i \in Items, AcceptReport(i) PROVE Goal
    <3>1. \A k \in Jobs : Undisturbed(k)
      BY <1>0, <2>1 DEF AcceptReport, Undisturbed, TypeInv, TypeOK, Active
    <3>2. QED
      BY <1>1, <1>3, <2>1, <3>1 DEF AcceptReport, taskVars
  <2>2. QED
    BY <1>2, <1>3, <1>5, <2>1
    DEF ReportStep, ReportChecked, ReportRejected, StageItem, AbortReport,
        WorkerExit, jobVars, taskVars
<1>6. ASSUME NEW t \in Tasks, TaskStep(t) PROVE Goal
  <2>0. Written(t) => JobOf(on[t]) \in Jobs
    BY <1>0, TaskParts DEF Written
  <2>1. ASSUME NEW o \in Terminal, Settle(t, o) PROVE Goal
    <3>1. /\ status'[JobOf(on[t])] \notin Active
          /\ \A k \in Jobs : k # JobOf(on[t]) => status'[k] = status[k]
      BY <1>0, <2>0, <2>1 DEF Settle, TypeInv, TypeOK, Active, Terminal
    <3>2. QED
      BY <1>0, <2>1, <3>1, WriteNext DEF Settle
  <2>2. ASSUME Requeue(t) PROVE Goal
    <3>1. /\ status'[JobOf(on[t])] \notin Active
          /\ \A k \in Jobs : k # JobOf(on[t]) => status'[k] = status[k] /\ lease'[k] = lease[k]
      BY <1>0, <2>0, <2>2 DEF Requeue, TypeInv, TypeOK, Active
    <3>2. QED
      BY <1>0, <2>2, <3>1, WriteNext DEF Requeue
  <2>3. CASE ReadJob(t)
    BY <1>0, <2>3, ReadNext
  <2>4. ASSUME NEW s \in {"idle", "picked", "rejected"}, pc' = [pc EXCEPT ![t] = s],
               \A u \in Tasks : u # t => on'[u] = on[u],
               UNCHANGED <<status, lease, crawlerOf, applied>>
        PROVE  Goal
    <3>1. NoNewReader
      BY <1>0, <2>4 DEF NoNewReader, TypeInv, TypeOK
    <3>2. QED
      BY <1>2, <2>4, <3>1
  <2>5. ASSUME EndTask(t) PROVE Goal
    <3>1. \A u \in Tasks : u # t => on'[u] = on[u]
      BY <1>0, <2>5 DEF EndTask, TypeInv, TypeOK
    <3>2. QED
      BY <2>4, <2>5, <3>1 DEF EndTask, jobVars
  <2>6. ASSUME NEW i \in Items, PickItem(t, i) PROVE Goal
    <3>1. \A u \in Tasks : u # t => on'[u] = on[u]
      BY <1>0, <2>6 DEF PickItem, TypeInv, TypeOK
    <3>2. QED
      BY <2>4, <2>6, <3>1 DEF PickItem, jobVars
  <2>7. CASE ReadConflict(t) \/ TaskFails(t)
    BY <2>4, <2>7 DEF ReadConflict, TaskFails, jobVars
  <2>8. CASE RecordFailure(t)
    <3>1. \A k \in Jobs : Undisturbed(k)
      BY <1>0, <2>8 DEF RecordFailure, Undisturbed, TypeInv, TypeOK, Active
    <3>2. NoNewReader
      BY <1>0, <2>8 DEF RecordFailure, NoNewReader, TypeInv, TypeOK
    <3>3. QED
      BY <1>1, <2>8, <3>1, <3>2 DEF RecordFailure
  <2>9. QED
    BY <1>6, <2>1, <2>2, <2>3, <2>5, <2>6, <2>7, <2>8
    DEF TaskStep, WriteOutcome, ApplySucceeded, ApplyFiltered, ApplyBlocked,
        ApplyFailed, ApplyGone, ApplyRetryable, ApplyDeadLetter, ApplyRequiresJs,
        MarkItemCompleted, MarkItemFailed, TaskLost, Terminal
<1>7. ASSUME NEW J, ReleaseJobs(J), UNCHANGED <<pc, on, crawlerOf, applied>> PROVE Goal
  <2>1. \A k \in Jobs : Undisturbed(k)
    BY <1>0, <1>7 DEF ReleaseJobs, Undisturbed, Active
  <2>2. QED
    BY <1>1, <1>3, <1>7, <2>1
<1>8. CASE TimeoutStep
  BY <1>2, <1>3, <1>7, <1>8
  DEF TimeoutStep, ReplayItem, FailItem, RequeueStaleJobs, RecoverStaleIngesting,
      ScanStaleIngesting, ApplyStaleIngesting, ReleaseIngesting, jobVars, taskVars
<1>9. CASE RetryFailed
  <2>1. \A k \in Jobs : Undisturbed(k)
    BY <1>0, <1>9 DEF RetryFailed, Undisturbed, Active
  <2>2. QED
    BY <1>1, <1>3, <1>9, <2>1 DEF RetryFailed, taskVars
<1>10. ASSUME NEW J, RemoveJobs(J) PROVE Goal
  <2>1. \A k \in Jobs : Undisturbed(k)
    BY <1>0, <1>10 DEF RemoveJobs, DeleteJobs, Undisturbed, Active
  <2>2. QED
    BY <1>1, <1>3, <1>10, <2>1 DEF RemoveJobs, taskVars
<1>11. CASE OperatorStep
  BY <1>7, <1>9, <1>10, <1>11
  DEF OperatorStep, DeleteCrawler, CleanupCompleted, CleanupFailed, StopAll,
      CleanupBlacklisted, taskVars
<1>12. CASE UNCHANGED vars
  BY <1>2, <1>3, <1>12 DEF vars
<1>13. QED
  BY <1>4, <1>5, <1>6, <1>8, <1>11, <1>12 DEF Next

\* Whatever the projectors lose, replay or repeat, no two projections write the
\* outcome of one staged result, provided no projection outlives the backoff of
\* its job or the timeout of its item.
THEOREM AppliedOnceHolds ==
  ASSUME NoSlowApply
  PROVE  Spec => AppliedOnce
<1>1. ApplyInv /\ [Next]_vars => ApplyInv'
  BY ApplyNext
<1>2. ApplyInv =>
        [\A t \in Tasks : pc[t] = "read" /\ pc'[t] = "written" => on[t] \notin applied]_vars
  BY DEF ApplyInv, ReadersSound, ReaderSound
<1>3. QED
  BY ApplyInit, <1>1, <1>2, PTL DEF Spec, AppliedOnce

-----------------------------------------------------------------------------
(* Outcomes are final.  The statements that put a job back look for a status   *)
(* that is not a final one, unless what they selected has changed since; so    *)
(* the property needs the claim and the recovery in one piece.                 *)

NoSplitRecovery == "split_recovery" \notin Races

ScansInv == TypeInv /\ NoCandidates /\ stale = {}

LEMMA ScansNext ==
  ASSUME NoSplitClaim, NoSplitRecovery, ScansInv, [Next]_vars
  PROVE  ScansInv'
<1>0. TypeInv /\ TypeInv' /\ NoCandidates /\ stale = {}
  BY TypeNext DEF ScansInv
<1>1. ASSUME UNCHANGED scanVars PROVE ScansInv'
  BY <1>0, <1>1 DEF scanVars, ScansInv, NoCandidates
<1>2. CASE FrontierStep
  <2>1. ASSUME NEW c \in Crawlers, NEW S, \/ ScanFrontier(c, S)
                                          \/ LockCandidates(c) \/ SkipCandidates(c)
        PROVE  FALSE
    BY <1>0, <2>1 DEF ScanFrontier, LockCandidates, SkipCandidates, Existing,
                      NoCandidates, NoSplitClaim
  <2>2. QED
    BY <1>1, <1>2, <2>1 DEF FrontierStep, Submit, Claim, TakeJobs, scanVars
<1>3. CASE ReportStep
  BY <1>1, <1>3
  DEF ReportStep, ReportChecked, ReportRejected, StageItem, AcceptReport,
      AbortReport, WorkerExit
<1>4. ASSUME NEW t \in Tasks, TaskStep(t) PROVE ScansInv'
  BY <1>1, <1>4
  DEF TaskStep, PickItem, ReadJob, ReadConflict, WriteOutcome, ApplySucceeded,
      ApplyFiltered, ApplyBlocked, ApplyFailed, ApplyGone, ApplyRetryable,
      ApplyDeadLetter, ApplyRequiresJs, Settle, Requeue, Written, TaskFails,
      RecordFailure, MarkItemCompleted, MarkItemFailed, TaskLost, EndTask
<1>5. CASE TimeoutStep
  BY <1>0, <1>1, <1>5
  DEF TimeoutStep, ReplayItem, FailItem, RequeueStaleJobs, RecoverStaleIngesting,
      ScanStaleIngesting, ApplyStaleIngesting, ReleaseIngesting, NoSplitRecovery,
      scanVars
<1>6. CASE OperatorStep
  BY <1>1, <1>6
  DEF OperatorStep, DeleteCrawler, RetryFailed, CleanupCompleted, CleanupFailed,
      StopAll, CleanupBlacklisted, RemoveJobs
<1>7. QED
  BY <1>1, <1>2, <1>3, <1>4, <1>5, <1>6 DEF Next, vars, scanVars
-----------------------------------------------------------------------------
(* The pipeline implements the life cycle.  Moves(j) says in the pipeline's own *)
(* terms what one statement may do to one job; each of its cases is a step of   *)
(* JobLifecycle, and each statement does one of them to every job.             *)

HolderOf(j) == IF status[j] \in Active THEN lease[j] ELSE NoLease
IsLate(j) == status[j] # "ingesting" /\ BeingApplied(j)

SameCounts(j) == attempts'[j] = attempts[j] /\ grants'[j] = grants[j]
SameReader(j) == BeingApplied(j)' <=> BeingApplied(j)

\* The row stays; a task may start or stop working on it.
Rests(j) ==
  /\ status'[j] = status[j] /\ lease'[j] = lease[j] /\ SameCounts(j)
  /\ SameReader(j) \/ status[j] = "ingesting" \/ ~BeingApplied(j)'

Enters(j) ==
  /\ status[j] = "new" /\ status'[j] = "queued"
  /\ attempts'[j] = 0 /\ grants'[j] = 0 /\ ~BeingApplied(j)'

Taken(j) ==
  /\ status[j] = "queued" /\ status'[j] = "claimed"
  /\ lease'[j] \in Leases
  /\ ~BeingApplied(j) /\ ~BeingApplied(j)'
  /\ attempts[j] < MaxAttempts + grants[j]
  /\ attempts'[j] = attempts[j] + 1 /\ grants'[j] = grants[j]

Accepted(j) ==
  /\ status[j] = "claimed" /\ status'[j] = "ingesting" /\ lease'[j] = lease[j]
  /\ SameCounts(j) /\ ~BeingApplied(j)

Released(j) ==
  /\ \/ status[j] = "claimed" /\ ~BeingApplied(j)'
     \/ status[j] = "ingesting"
  /\ status'[j] = IF Exhausted(j) THEN "dead_letter" ELSE "queued"
  /\ SameCounts(j)

\* The job is the holder's to settle, or was put back while it was being read.
Open(j) ==
  \/ status[j] = "ingesting"
  \/ status[j] \in {"queued", "failed", "dead_letter"} /\ BeingApplied(j)

Settled(j) ==
  /\ Open(j) /\ ~BeingApplied(j)'
  /\ status'[j] \in Terminal
  /\ SameCounts(j)

Requeued(j) ==
  /\ Open(j) /\ ~BeingApplied(j)'
  /\ status'[j] = "queued" /\ attempts'[j] = attempts[j]
  /\ \/ attempts[j] < MaxAttempts /\ grants'[j] = grants[j]
     \/ grants'[j] = grants[j] + 1

\* The outcome finds no row.
Missed(j) ==
  /\ status[j] = "deleted" /\ status'[j] = "deleted" /\ ~BeingApplied(j)'
  /\ attempts'[j] = attempts[j] /\ grants'[j] \in {grants[j], grants[j] + 1}

Retried(j) ==
  /\ status[j] \in {"failed", "dead_letter"} /\ status'[j] = "queued"
  /\ SameReader(j)
  /\ attempts'[j] = attempts[j] /\ grants'[j] = grants[j] + 1

Removed(j) ==
  /\ status[j] # "new" /\ status'[j] = "deleted" /\ SameCounts(j)

Moves(j) ==
  \/ Rests(j) \/ Enters(j) \/ Taken(j) \/ Accepted(j) \/ Released(j)
  \/ Settled(j) \/ Requeued(j) \/ Missed(j) \/ Retried(j) \/ Removed(j)

LEMMA Phases ==
  /\ PhaseOf("new") = "absent" /\ PhaseOf("queued") = "waiting"
  /\ PhaseOf("claimed") = "held" /\ PhaseOf("ingesting") = "staged"
  /\ PhaseOf("succeeded") = "done" /\ PhaseOf("blocked") = "blocked"
  /\ PhaseOf("failed") = "lost" /\ PhaseOf("dead_letter") = "lost"
  /\ PhaseOf("deleted") = "gone"
BY DEF PhaseOf

LEMMA PhaseInPhases ==
  ASSUME NEW s \in Statuses
  PROVE  PhaseOf(s) \in Life!Phases
BY Phases DEF Statuses, Active, Terminal, Life!Phases, Life!Settled

LEMMA TerminalIsSettled ==
  ASSUME NEW s \in Terminal
  PROVE  PhaseOf(s) \in Life!Settled
BY Phases DEF Terminal, Life!Settled

LEMMA Mapped ==
  ASSUME NEW j \in Jobs, NEW ph, NEW h, NEW n, NEW e, NEW b \in BOOLEAN,
         PhaseOf(status'[j]) = ph, HolderOf(j)' = h, attempts'[j] = n, grants'[j] = e,
         IsLate(j)' <=> b
  PROVE  Life!Becomes(j, ph, h, n, e, b)
BY DEF Life!Becomes, HolderOf, IsLate

LEMMA RestsMapped ==
  ASSUME NEW j \in Jobs, Rests(j) PROVE Life!JobStep(j)
<1>1. /\ PhaseOf(status'[j]) = PhaseOf(status[j]) /\ HolderOf(j)' = HolderOf(j)
      /\ attempts'[j] = attempts[j] /\ grants'[j] = grants[j]
  BY DEF Rests, SameCounts, HolderOf
<1>2. CASE IsLate(j)' <=> IsLate(j)
  <2>1. PICK b \in BOOLEAN : IsLate(j) <=> b
    BY DEF IsLate
  <2>2. Life!Becomes(j, PhaseOf(status[j]), HolderOf(j), attempts[j], grants[j], b)
    BY <1>1, <1>2, <2>1, Mapped
  <2>3. Life!Stay(j)
    BY <2>1, <2>2 DEF Life!Stay, Life!Becomes, HolderOf, IsLate
  <2>4. QED
    BY <2>3 DEF Life!JobStep
<1>3. CASE ~(IsLate(j)' <=> IsLate(j))
  <2>1. IsLate(j) /\ ~IsLate(j)'
    BY <1>3 DEF Rests, SameReader, IsLate
  <2>2. Life!Becomes(j, PhaseOf(status[j]), HolderOf(j), attempts[j], grants[j], FALSE)
    BY <1>1, <2>1, Mapped
  <2>3. Life!DropLate(j)
    BY <2>1, <2>2 DEF Life!DropLate, Life!Becomes, HolderOf, IsLate
  <2>4. QED
    BY <2>3 DEF Life!JobStep
<1>4. QED
  BY <1>2, <1>3

LEMMA EntersMapped ==
  ASSUME NEW j \in Jobs, Enters(j) PROVE Life!JobStep(j)
<1>1. Life!Becomes(j, "waiting", NoLease, 0, 0, FALSE)
  BY Phases, Mapped DEF Enters, HolderOf, IsLate, Active
<1>2. Life!Submit(j)
  BY <1>1, Phases DEF Enters, Life!Submit
<1>3. QED
  BY <1>2 DEF Life!JobStep

LEMMA TakenMapped ==
  ASSUME NEW j \in Jobs, Taken(j) PROVE Life!JobStep(j)
<1>1. Life!Becomes(j, "held", lease'[j], attempts[j] + 1, grants[j], FALSE)
  BY Phases, Mapped DEF Taken, HolderOf, IsLate, Active
<1>2. Life!Take(j, lease'[j])
  BY <1>1, Phases DEF Taken, Life!Take
<1>3. QED
  BY <1>2 DEF Life!JobStep, Taken

LEMMA AcceptedMapped ==
  ASSUME NEW j \in Jobs, Accepted(j) PROVE Life!JobStep(j)
<1>1. Life!Becomes(j, "staged", lease[j], attempts[j], grants[j], FALSE)
  BY Phases, Mapped DEF Accepted, SameCounts, HolderOf, IsLate, Active
<1>2. Life!Stage(j)
  BY <1>1, Phases DEF Accepted, Life!Stage, Life!Becomes, Active
<1>3. QED
  BY <1>2 DEF Life!JobStep

LEMMA ReleasedMapped ==
  ASSUME NEW j \in Jobs, attempts[j] \in Nat, Released(j) PROVE Life!JobStep(j)
<1>1. /\ HolderOf(j)' = NoLease
      /\ attempts'[j] = attempts[j] /\ grants'[j] = grants[j]
  BY DEF Released, SameCounts, HolderOf, Active
<1>2. Exhausted(j) <=> ~(attempts[j] < MaxAttempts)
  BY BoundsAssumption DEF Exhausted
<1>3. PICK b \in BOOLEAN : IsLate(j)' <=> b
  BY DEF IsLate
<1>4. Life!NextRound(j, b)
  <2>1. CASE Exhausted(j)
    <3>1. Life!Becomes(j, "lost", NoLease, attempts[j], grants[j], b)
      BY <1>1, <1>3, <2>1, Phases, Mapped DEF Released
    <3>2. QED
      BY <1>2, <2>1, <3>1 DEF Life!NextRound
  <2>2. CASE ~Exhausted(j)
    <3>1. Life!Becomes(j, "waiting", NoLease, attempts[j], grants[j], b)
      BY <1>1, <1>3, <2>2, Phases, Mapped DEF Released
    <3>2. QED
      BY <1>2, <2>2, <3>1 DEF Life!NextRound
  <2>3. QED
    BY <2>1, <2>2
<1>5. CASE status[j] = "claimed"
  <2>1. b = FALSE
    BY <1>3, <1>5 DEF Released, IsLate
  <2>2. Life!ExpireHeld(j)
    BY <1>4, <1>5, <2>1, Phases DEF Life!ExpireHeld
  <2>3. QED
    BY <2>2 DEF Life!JobStep
<1>6. CASE status[j] = "ingesting"
  <2>1. Life!ExpireStaged(j)
    BY <1>4, <1>6, Phases DEF Life!ExpireStaged
  <2>2. QED
    BY <2>1 DEF Life!JobStep
<1>7. QED
  BY <1>5, <1>6 DEF Released

\* An outcome of JobLifecycle for a job that is open.
LEMMA OpenMapped ==
  ASSUME NEW j \in Jobs, Open(j), Life!Outcome(j) PROVE Life!JobStep(j)
<1>1. CASE status[j] = "ingesting"
  <2>1. Life!Settle(j)
    BY <1>1, Phases DEF Life!Settle
  <2>2. QED
    BY <2>1 DEF Life!JobStep
<1>2. CASE status[j] # "ingesting"
  <2>1. IsLate(j) /\ PhaseOf(status[j]) \in {"waiting", "lost"}
    BY <1>2, Phases DEF Open, IsLate
  <2>2. Life!SettleLate(j)
    BY <2>1 DEF Life!SettleLate, IsLate
  <2>3. QED
    BY <2>2 DEF Life!JobStep
<1>3. QED
  BY <1>1, <1>2

LEMMA SettledMapped ==
  ASSUME NEW j \in Jobs, Settled(j) PROVE Life!JobStep(j)
<1>1. PhaseOf(status'[j]) \in Life!Settled
  BY TerminalIsSettled DEF Settled
<1>2. Life!Becomes(j, PhaseOf(status'[j]), NoLease, attempts[j], grants[j], FALSE)
  BY Mapped DEF Settled, SameCounts, HolderOf, IsLate, Active, Terminal
<1>3. Life!Outcome(j)
  BY <1>1, <1>2 DEF Life!Outcome
<1>4. QED
  BY <1>3, OpenMapped DEF Settled

LEMMA RequeuedMapped ==
  ASSUME NEW j \in Jobs, Requeued(j) PROVE Life!JobStep(j)
<1>1. Life!Becomes(j, "waiting", NoLease, attempts[j], grants'[j], FALSE)
  BY Phases, Mapped DEF Requeued, HolderOf, IsLate, Active
<1>2. Life!Outcome(j)
  BY <1>1 DEF Requeued, Life!Outcome
<1>3. QED
  BY <1>2, OpenMapped DEF Requeued

LEMMA MissedMapped ==
  ASSUME NEW j \in Jobs, Missed(j) PROVE Life!JobStep(j)
<1>1. Life!Becomes(j, "gone", NoLease, attempts[j], grants'[j], FALSE)
  BY Phases, Mapped DEF Missed, HolderOf, IsLate, Active
<1>2. Life!DropLateGone(j)
  BY <1>1, Phases DEF Missed, Life!DropLateGone
<1>3. QED
  BY <1>2 DEF Life!JobStep

LEMMA RetriedMapped ==
  ASSUME NEW j \in Jobs, Retried(j) PROVE Life!JobStep(j)
<1>1. PICK b \in BOOLEAN : IsLate(j) <=> b
  BY DEF IsLate
<1>2. IsLate(j)' <=> b
  BY <1>1 DEF Retried, SameReader, IsLate
<1>3. Life!Becomes(j, "waiting", NoLease, attempts[j], grants[j] + 1, b)
  BY <1>2, Phases, Mapped DEF Retried, HolderOf, Active
<1>4. Life!Retry(j)
  BY <1>1, <1>3, Phases DEF Retried, Life!Retry, Life!Becomes, IsLate
<1>5. QED
  BY <1>4 DEF Life!JobStep

LEMMA RemovedMapped ==
  ASSUME NEW j \in Jobs, status[j] \in Statuses, Removed(j) PROVE Life!JobStep(j)
<1>1. PICK b \in BOOLEAN : IsLate(j)' <=> b
  BY DEF IsLate
<1>2. Life!Becomes(j, "gone", NoLease, attempts[j], grants[j], b)
  BY <1>1, Phases, Mapped DEF Removed, SameCounts, HolderOf, Active
<1>3. PhaseOf(status[j]) # "absent"
  BY Phases DEF Removed, Statuses, Active, Terminal
<1>4. Life!Remove(j)
  BY <1>2, <1>3 DEF Life!Remove
<1>5. QED
  BY <1>4 DEF Life!JobStep

LEMMA MovesMapped ==
  ASSUME TypeInv, NEW j \in Jobs, Moves(j) PROVE Life!JobStep(j)
BY RestsMapped, EntersMapped, TakenMapped, AcceptedMapped, ReleasedMapped,
   SettledMapped, RequeuedMapped, MissedMapped, RetriedMapped, RemovedMapped
DEF Moves, TypeInv, TypeOK

\* A new job was given no round.
NewUngranted == \A j \in Jobs : status[j] = "new" => grants[j] = 0

LifeInv == BudgetInv /\ ApplyInv /\ ScansInv /\ NewUngranted

LEMMA ReadersStay ==
  ASSUME UNCHANGED <<pc, on>>, NEW j PROVE SameReader(j)
BY DEF SameReader, BeingApplied

\* One task moves, and does not read: its job loses its reader if it was the one.
LEMMA ReaderLeaves ==
  ASSUME OneReader, NEW t \in Tasks, pc'[t] # "read",
         \A u \in Tasks : u # t => pc'[u] = pc[u] /\ on'[u] = on[u],
         NEW j
  PROVE  /\ pc[t] # "read" \/ j # JobOf(on[t]) => SameReader(j)
         /\ pc[t] = "read" /\ j = JobOf(on[t]) => ~BeingApplied(j)'
<1>1. ASSUME pc[t] # "read" \/ j # JobOf(on[t]) PROVE SameReader(j)
  BY <1>1 DEF SameReader, BeingApplied
<1>2. ASSUME pc[t] = "read", j = JobOf(on[t]) PROVE ~BeingApplied(j)'
  BY <1>2 DEF BeingApplied, OneReader
<1>3. QED
  BY <1>1, <1>2

LEMMA RowRests ==
  ASSUME NEW j, status'[j] = status[j], lease'[j] = lease[j], attempts'[j] = attempts[j],
         grants'[j] = grants[j],
         SameReader(j) \/ status[j] = "ingesting" \/ ~BeingApplied(j)'
  PROVE  Moves(j)
BY DEF Moves, Rests, SameCounts

LEMMA ReaderStatus ==
  ASSUME TypeInv, ReadersSound, NEW j \in Jobs, BeingApplied(j)
  PROVE  status[j] \in {"queued", "ingesting", "failed", "dead_letter", "deleted"}
BY DEF ReadersSound, ReaderSound, BeingApplied, TypeInv, TypeOK, Statuses, Active, Terminal

LEMMA FrontierMoves ==
  ASSUME NoSlowApply, NoSplitClaim, LifeInv, FrontierStep, NEW j \in Jobs
  PROVE  Moves(j)
<1>0. TypeInv /\ ReadersSound /\ OneReader
  BY DEF LifeInv, BudgetInv, ApplyInv
<1>1. ASSUME NEW k \in Jobs, Submit(k) PROVE Moves(j)
  <2>1. SameReader(j) /\ UNCHANGED <<lease, attempts, grants>>
    BY <1>1, ReadersStay DEF Submit, taskVars
  <2>2. CASE j = k
    <3>1. status[j] = "new" /\ status'[j] = "queued"
      BY <1>0, <1>1, <2>2 DEF Submit, TypeInv, TypeOK
    <3>2. attempts[j] = 0 /\ grants[j] = 0
      BY <3>1 DEF LifeInv, NewUngranted, BudgetInv, NewUnclaimed
    <3>3. ~BeingApplied(j)
      BY <1>0, <3>1, ReaderStatus
    <3>4. QED
      BY <2>1, <3>1, <3>2, <3>3 DEF Moves, Enters, SameReader
  <2>3. CASE j # k
    <3>1. status'[j] = status[j]
      BY <1>0, <1>1, <2>3 DEF Submit, TypeInv, TypeOK
    <3>2. QED
      BY <2>1, <3>1, RowRests
  <2>4. QED
    BY <2>2, <2>3
<1>2. ASSUME NEW c \in Crawlers, NEW S \in SUBSET Jobs, Claim(c, S) PROVE Moves(j)
  <2>1. PICK l \in Leases : lease' = [k \in Jobs |-> IF k \in S THEN l ELSE lease[k]]
    BY <1>2 DEF Claim, TakeJobs
  <2>2. /\ status' = [k \in Jobs |-> IF k \in S THEN "claimed" ELSE status[k]]
        /\ attempts' = [k \in Jobs |-> IF k \in S THEN attempts[k] + 1 ELSE attempts[k]]
        /\ grants' = grants /\ SameReader(j)
    BY <1>2, ReadersStay DEF Claim, TakeJobs, taskVars
  <2>3. CASE j \in S
    <3>1. status[j] = "queued" /\ ~BeingApplied(j)
      BY <1>2, <2>3 DEF Claim, Claimable, NoSlowApply
    <3>2. attempts[j] < MaxAttempts + grants[j]
      BY <3>1 DEF LifeInv, BudgetInv, QueuedHaveAttempts
    <3>3. QED
      BY <2>1, <2>2, <2>3, <3>1, <3>2 DEF Moves, Taken, SameReader
  <2>4. CASE j \notin S
    BY <2>1, <2>2, <2>4, RowRests
  <2>5. QED
    BY <2>3, <2>4
<1>3. ASSUME NEW c \in Crawlers, NEW S, ScanFrontier(c, S) \/ LockCandidates(c) \/ SkipCandidates(c)
      PROVE  FALSE
  BY <1>3 DEF ScanFrontier, LockCandidates, SkipCandidates, Existing, NoSplitClaim,
              LifeInv, ScansInv, NoCandidates
<1>4. QED
  BY <1>1, <1>2, <1>3 DEF FrontierStep

LEMMA ReportMoves ==
  ASSUME LifeInv, ReportStep, NEW j \in Jobs
  PROVE  Moves(j)
<1>0. TypeInv /\ ReadersSound
  BY DEF LifeInv, BudgetInv, ApplyInv
<1>1. ASSUME UNCHANGED jobVars, UNCHANGED taskVars PROVE Moves(j)
  BY <1>1, ReadersStay, RowRests DEF jobVars, taskVars
<1>2. ASSUME NEW i \in Items, AcceptReport(i) PROVE Moves(j)
  <2>1. SameReader(j) /\ UNCHANGED <<lease, attempts, grants>>
    BY <1>2, ReadersStay DEF AcceptReport, taskVars
  <2>2. \/ status'[j] = status[j]
        \/ status[j] \in Active /\ status'[j] = "ingesting"
    BY <1>0, <1>2 DEF AcceptReport, TypeInv, TypeOK
  <2>3. CASE status'[j] = status[j]
    BY <2>1, <2>3, RowRests
  <2>4. CASE status[j] = "claimed" /\ status'[j] = "ingesting"
    <3>1. ~BeingApplied(j)
      BY <1>0, <2>4, ReaderStatus
    <3>2. QED
      BY <2>1, <2>4, <3>1 DEF Moves, Accepted, SameCounts
  <2>5. QED
    BY <2>2, <2>3, <2>4 DEF Active
<1>3. QED
  BY <1>1, <1>2
  DEF ReportStep, ReportChecked, ReportRejected, StageItem, AbortReport, WorkerExit

\* The job a task has read is open, unless it was deleted.
LEMMA ReadIsOpen ==
  ASSUME TypeInv, ReadersSound, NEW t \in Tasks, pc[t] = "read"
  PROVE  /\ JobOf(on[t]) \in Jobs
         /\ Open(JobOf(on[t])) \/ status[JobOf(on[t])] = "deleted"
<1>1. JobOf(on[t]) \in Jobs /\ BeingApplied(JobOf(on[t]))
  BY TaskParts DEF BeingApplied
<1>2. QED
  BY <1>1, ReaderStatus DEF Open

LEMMA WriteMoves ==
  ASSUME LifeInv, NEW t \in Tasks, WriteOutcome(t), NEW j \in Jobs
  PROVE  Moves(j)
<1> DEFINE k == JobOf(on[t])
<1>0. /\ TypeInv /\ ReadersSound /\ OneReader /\ ReadsAreCurrent
      /\ status \in [Jobs -> Statuses] /\ lease \in [Jobs -> {NoLease} \cup Leases]
      /\ grants \in [Jobs -> 0 .. MaxGrants]
  BY DEF LifeInv, BudgetInv, ApplyInv, TypeInv, TypeOK
<1>1. Written(t)
  BY DEF WriteOutcome, ApplySucceeded, ApplyFiltered, ApplyBlocked, ApplyFailed,
         ApplyGone, ApplyRetryable, ApplyDeadLetter, ApplyRequiresJs, Settle, Requeue
<1>2. /\ pc[t] = "read" /\ pc'[t] # "read" /\ UNCHANGED attempts
      /\ \A u \in Tasks : u # t => pc'[u] = pc[u] /\ on'[u] = on[u]
  BY <1>0, <1>1 DEF Written, TypeInv, TypeOK
<1>3. /\ j # k => SameReader(j)
      /\ j = k => ~BeingApplied(j)'
  BY <1>0, <1>2, ReaderLeaves
<1>4. k \in Jobs /\ (Open(k) \/ status[k] = "deleted") /\ seen[t] = attempts[k]
  BY <1>0, <1>2, ReadIsOpen DEF ReadsAreCurrent
<1>5. ASSUME NEW o \in Terminal, Settle(t, o) PROVE Moves(j)
  <2>1. /\ UNCHANGED <<lease, grants>> /\ (j # k => status'[j] = status[j])
        /\ status[k] = "deleted" => status'[k] = "deleted"
        /\ status[k] # "deleted" => status'[k] = o
    BY <1>0, <1>4, <1>5 DEF Settle
  <2>2. CASE j # k
    BY <1>2, <1>3, <2>1, <2>2, RowRests
  <2>3. CASE j = k /\ status[k] = "deleted"
    BY <1>2, <1>3, <2>1, <2>3 DEF Moves, Missed
  <2>4. CASE j = k /\ status[k] # "deleted"
    BY <1>2, <1>3, <1>4, <2>1, <2>4 DEF Moves, Settled, SameCounts
  <2>5. QED
    BY <2>2, <2>3, <2>4
<1>6. ASSUME Requeue(t), j # k => grants'[j] = grants[j],
             \/ attempts[k] < MaxAttempts /\ grants'[k] = grants[k]
             \/ grants'[k] = grants[k] + 1
      PROVE  Moves(j)
  <2>1. /\ j # k => status'[j] = status[j] /\ lease'[j] = lease[j]
        /\ status[k] = "deleted" => status'[k] = "deleted"
        /\ status[k] # "deleted" => status'[k] = "queued"
    BY <1>0, <1>4, <1>6 DEF Requeue
  <2>2. CASE j # k
    BY <1>2, <1>3, <1>6, <2>1, <2>2, RowRests
  <2>3. CASE j = k /\ status[k] = "deleted"
    BY <1>2, <1>3, <1>6, <2>1, <2>3 DEF Moves, Missed
  <2>4. CASE j = k /\ status[k] # "deleted"
    BY <1>2, <1>3, <1>4, <1>6, <2>1, <2>4 DEF Moves, Requeued
  <2>5. QED
    BY <2>2, <2>3, <2>4
<1>7. CASE ApplyRetryable(t)
  BY <1>4, <1>6, <1>7 DEF ApplyRetryable
<1>8. CASE ApplyRequiresJs(t)
  <2>1. grants' = [grants EXCEPT ![k] = @ + 1] /\ Requeue(t)
    BY <1>8 DEF ApplyRequiresJs
  <2>2. (j # k => grants'[j] = grants[j]) /\ grants'[k] = grants[k] + 1
    BY <1>0, <1>4, <2>1
  <2>3. QED
    BY <1>6, <2>1, <2>2
<1>9. QED
  BY <1>5, <1>7, <1>8
  DEF WriteOutcome, ApplySucceeded, ApplyFiltered, ApplyBlocked, ApplyFailed,
      ApplyGone, ApplyDeadLetter, Terminal
LEMMA TaskMoves ==
  ASSUME LifeInv, NEW t \in Tasks, TaskStep(t), NEW j \in Jobs
  PROVE  Moves(j)
<1>0. /\ TypeInv /\ ReadersSound /\ OneReader /\ OneTaskPerItem
      /\ pc \in [Tasks -> {"idle", "picked", "read", "written", "rejected", "failing"}]
      /\ on \in [Tasks -> Items \cup {NoItem}]
      /\ status \in [Jobs -> Statuses] /\ lease \in [Jobs -> {NoLease} \cup Leases]
  BY DEF LifeInv, BudgetInv, ApplyInv, TakenInv, TypeInv, TypeOK
\* The task does not read, and the rows stay.
<1>1. ASSUME UNCHANGED jobVars, pc'[t] # "read",
             \A u \in Tasks : u # t => pc'[u] = pc[u] /\ on'[u] = on[u]
      PROVE  Moves(j)
  BY <1>0, <1>1, ReaderLeaves, RowRests DEF jobVars
<1>2. ASSUME NEW i \in Items, PickItem(t, i) PROVE Moves(j)
  BY <1>0, <1>1, <1>2 DEF PickItem
<1>3. CASE ReadConflict(t) \/ TaskFails(t)
  BY <1>0, <1>1, <1>3 DEF ReadConflict, TaskFails
<1>4. ASSUME EndTask(t) PROVE Moves(j)
  BY <1>0, <1>1, <1>4 DEF EndTask
<1>5. CASE ReadJob(t)
  <2>1. /\ UNCHANGED <<jobVars, on>> /\ pc[t] # "read" /\ status[JobOf(on[t])] = "ingesting"
        /\ \A u \in Tasks : u # t => pc'[u] = pc[u]
    BY <1>0, <1>5 DEF ReadJob
  <2>2. j # JobOf(on[t]) => SameReader(j)
    BY <2>1 DEF SameReader, BeingApplied
  <2>3. QED
    BY <2>1, <2>2, RowRests DEF jobVars
<1>6. CASE RecordFailure(t)
  <2> DEFINE k == JobOf(on[t])
  <2>1. /\ pc[t] = "rejected" /\ pc'[t] = "failing" /\ UNCHANGED <<on, attempts, grants>>
        /\ \A u \in Tasks : u # t => pc'[u] = pc[u]
    BY <1>0, <1>6 DEF RecordFailure
  <2>2. SameReader(j)
    BY <1>0, <2>1, ReaderLeaves
  <2>3. CASE ~(Holds(on[t]) /\ status[k] = "ingesting")
    <3>1. status' = status /\ lease' = lease
      BY <1>6, <2>3 DEF RecordFailure
    <3>2. QED
      BY <2>1, <2>2, <3>1, RowRests
  <2>4. CASE Holds(on[t]) /\ status[k] = "ingesting"
    <3>1. status' = [status EXCEPT ![k] = "failed"] /\ lease' = [lease EXCEPT ![k] = NoLease]
      BY <1>6, <2>4 DEF RecordFailure
    <3>2. CASE j # k
      BY <1>0, <2>1, <2>2, <3>1, <3>2, RowRests
    <3>3. CASE j = k
      \* A reader would hold the job under the lease of its item: this item.
      <4>1. ASSUME NEW u \in Tasks, pc[u] = "read", JobOf(on[u]) = k PROVE FALSE
        <5>1. lease[k] \in {NoLease, LeaseOf(on[u])}
          BY <1>0, <4>1 DEF ReadersSound, ReaderSound
        <5>2. lease[k] = LeaseOf(on[t]) /\ LeaseOf(on[t]) # NoLease
          BY <1>0, <2>1, <2>4, TaskParts DEF Holds
        <5>3. on[t] = <<LeaseOf(on[t]), k>>
          BY <1>0, <2>1, TaskParts
        <5>4. on[u] = <<LeaseOf(on[u]), JobOf(on[u])>>
          BY <1>0, <4>1, TaskParts
        <5>5. on[u] = on[t]
          BY <4>1, <5>1, <5>2, <5>3, <5>4
        <5>6. QED
          BY <1>0, <2>1, <4>1, <5>5 DEF OneTaskPerItem
      <4>2. ~BeingApplied(j)'
        BY <2>2, <3>3, <4>1 DEF SameReader, BeingApplied
      <4>3. status'[j] = "failed"
        BY <1>0, <3>1, <3>3
      <4>4. QED
        BY <2>1, <2>4, <3>3, <4>2, <4>3 DEF Moves, Settled, Open, SameCounts, Terminal
    <3>4. QED
      BY <3>2, <3>3
  <2>5. QED
    BY <2>3, <2>4
<1>7. QED
  BY <1>2, <1>3, <1>4, <1>5, <1>6, WriteMoves
  DEF TaskStep, MarkItemCompleted, MarkItemFailed, TaskLost

LEMMA ReleaseMoves ==
  ASSUME TypeInv, ReadersSound, NEW J, ReleaseJobs(J), UNCHANGED taskVars,
         \A k \in J : status[k] \in Active, NEW j \in Jobs
  PROVE  Moves(j)
<1>1. SameReader(j) /\ UNCHANGED <<attempts, grants>>
  BY ReadersStay DEF ReleaseJobs, taskVars
<1>2. CASE j \notin J
  BY <1>1, <1>2, RowRests DEF ReleaseJobs
<1>3. CASE j \in J
  <2>1. status'[j] = IF Exhausted(j) THEN "dead_letter" ELSE "queued"
    BY <1>3 DEF ReleaseJobs
  <2>2. status[j] = "claimed" => ~BeingApplied(j)
    BY ReaderStatus
  <2>3. QED
    BY <1>1, <1>3, <2>1, <2>2 DEF Moves, Released, SameReader, SameCounts, Active
<1>4. QED
  BY <1>2, <1>3

LEMMA TimeoutMoves ==
  ASSUME NoSplitRecovery, LifeInv, TimeoutStep, NEW j \in Jobs
  PROVE  Moves(j)
<1>0. TypeInv /\ ReadersSound /\ stale = {}
  BY DEF LifeInv, BudgetInv, ApplyInv, ScansInv
<1>1. ASSUME UNCHANGED jobVars, UNCHANGED taskVars PROVE Moves(j)
  BY <1>1, ReadersStay, RowRests DEF jobVars, taskVars
<1>2. ASSUME NEW J \in SUBSET Jobs, RequeueStaleJobs(J) PROVE Moves(j)
  BY <1>0, <1>2, ReleaseMoves DEF RequeueStaleJobs, Active
<1>3. ASSUME NEW C \in SUBSET Items, RecoverStaleIngesting(C) PROVE Moves(j)
  <2>1. \A k \in Existing({JobOf(i) : i \in C}) : status[k] \in Active
    BY <1>3 DEF RecoverStaleIngesting, IngestingItems, Existing, Active
  <2>2. QED
    BY <1>0, <1>3, <2>1, ReleaseMoves DEF RecoverStaleIngesting, ReleaseIngesting
<1>4. QED
  BY <1>0, <1>1, <1>2, <1>3
  DEF TimeoutStep, ReplayItem, FailItem, ScanStaleIngesting, ApplyStaleIngesting,
      NoSplitRecovery

LEMMA OperatorMoves ==
  ASSUME LifeInv, OperatorStep, NEW j \in Jobs
  PROVE  Moves(j)
<1>0. TypeInv /\ ReadersSound
  BY DEF LifeInv, BudgetInv, ApplyInv
<1>1. ASSUME NEW c \in Crawlers, DeleteCrawler(c) PROVE Moves(j)
  BY <1>0, <1>1, ReleaseMoves DEF DeleteCrawler, Active
<1>2. CASE RetryFailed
  <2>1. SameReader(j) /\ UNCHANGED attempts
    BY <1>2, ReadersStay DEF RetryFailed, taskVars
  <2>2. CASE status[j] \in {"failed", "dead_letter"}
    BY <1>2, <2>1, <2>2 DEF RetryFailed, Moves, Retried
  <2>3. CASE status[j] \notin {"failed", "dead_letter"}
    BY <1>2, <2>1, <2>3, RowRests DEF RetryFailed
  <2>4. QED
    BY <2>2, <2>3
<1>3. ASSUME NEW J, RemoveJobs(J), \A k \in J : status[k] # "new" PROVE Moves(j)
  <2>1. SameReader(j) /\ UNCHANGED <<attempts, grants>>
    BY <1>3, ReadersStay DEF RemoveJobs, DeleteJobs, taskVars
  <2>2. CASE j \in J
    BY <1>3, <2>1, <2>2 DEF RemoveJobs, DeleteJobs, Moves, Removed, SameCounts
  <2>3. CASE j \notin J
    BY <1>3, <2>1, <2>3, RowRests DEF RemoveJobs, DeleteJobs
  <2>4. QED
    BY <2>2, <2>3
<1>4. QED
  BY <1>1, <1>2, <1>3
  DEF OperatorStep, CleanupCompleted, CleanupFailed, StopAll, CleanupBlacklisted,
      Active, Terminal

LEMMA StepMoves ==
  ASSUME NoSlowApply, NoSplitClaim, NoSplitRecovery, LifeInv, [Next]_vars, NEW j \in Jobs
  PROVE  Moves(j)
<1>1. CASE UNCHANGED vars
  BY <1>1, ReadersStay, RowRests DEF vars
<1>2. CASE Next
  BY <1>2, FrontierMoves, ReportMoves, TaskMoves, TimeoutMoves, OperatorMoves DEF Next
<1>3. QED
  BY <1>1, <1>2

LEMMA LifeInit == Init => LifeInv
<1>1. Init => ScansInv /\ NewUngranted
  BY TypeInit DEF Init, ScansInv, NoCandidates, NewUngranted
<1>2. QED
  BY <1>1, BudgetInit, ApplyInit DEF LifeInv

LEMMA LifeNext ==
  ASSUME NoSlowApply, NoSplitClaim, NoSplitRecovery, LifeInv, [Next]_vars
  PROVE  LifeInv'
<1>1. BudgetInv' /\ ApplyInv' /\ ScansInv'
  BY BudgetNext, ApplyNext, ScansNext DEF LifeInv
<1>2. ASSUME NEW j \in Jobs, status'[j] = "new" PROVE grants'[j] = 0
  <2>1. status[j] = "new" /\ grants'[j] = grants[j]
    BY <1>2, StepMoves
    DEF Moves, Rests, Enters, Taken, Accepted, Released, Settled, Requeued, Missed,
        Retried, Removed, SameCounts, Terminal
  <2>2. QED
    BY <2>1 DEF LifeInv, NewUngranted
<1>3. QED
  BY <1>1, <1>2 DEF LifeInv, NewUngranted

\* A page that was indexed, filtered or blocked is not crawled again, by no
\* timeout, late report, late projection or retry, until an operator removes it.
THEOREM OutcomeIsFinalHolds ==
  ASSUME NoSlowApply, NoSplitClaim, NoSplitRecovery
  PROVE  Spec => OutcomeIsFinal
<1>1. LifeInv /\ [Next]_vars => LifeInv'
  BY LifeNext
<1>2. ASSUME LifeInv, [Next]_vars, NEW j \in Jobs, status[j] \in {"succeeded", "blocked"}
      PROVE  status'[j] \in {status[j], "deleted"}
  BY <1>2, StepMoves
  DEF Moves, Rests, Enters, Taken, Accepted, Released, Settled, Requeued, Missed,
      Retried, Removed, Open
<1>3. LifeInv /\ [Next]_vars =>
        [\A j \in Jobs : status[j] \in {"succeeded", "blocked"} =>
                           status'[j] \in {status[j], "deleted"}]_vars
  BY <1>2
<1>4. QED
  BY LifeInit, <1>1, <1>3, PTL DEF Spec, OutcomeIsFinal

\* Whatever the handlers, tasks, timeouts and operators do, each job only does
\* what JobLifecycle allows: it is handed out while nobody else can settle it and
\* within its budget, a staged result settles it or is given up, and an expired
\* lease settles it only as long as nobody has taken it again.
THEOREM LifecycleImplementedHolds ==
  ASSUME NoSlowApply, NoSplitClaim, NoSplitRecovery
  PROVE  Spec => LifecycleImplemented
<1>1. Init => Life!Init
  <2> SUFFICES ASSUME Init PROVE Life!Init
    OBVIOUS
  <2>1. \A j \in Jobs : ~BeingApplied(j)
    BY DEF Init, BeingApplied
  <2>2. QED
    BY <2>1, Phases DEF Init, Life!Init, Active
<1>2. LifeInv /\ [Next]_vars => LifeInv'
  BY LifeNext
<1>3. ASSUME LifeInv, [Next]_vars PROVE Life!Next
  <2>1. TypeInv /\ TypeInv'
    BY <1>3, TypeNext DEF LifeInv, BudgetInv
  <2>2. \A j \in Jobs : Life!JobStep(j)
    BY <1>3, <2>1, StepMoves, MovesMapped
  <2>3. [j \in Jobs |-> PhaseOf(status'[j])] \in [Jobs -> Life!Phases]
    BY <2>1, PhaseInPhases DEF TypeInv, TypeOK
  <2>4. [j \in Jobs |-> IF status'[j] \in Active THEN lease'[j] ELSE NoLease]
          \in [Jobs -> Leases \cup {NoLease}]
    BY <2>1 DEF TypeInv, TypeOK
  <2>5. attempts' \in [Jobs -> Nat] /\ grants' \in [Jobs -> Nat]
    BY <2>1, BoundsAssumption DEF TypeInv, TypeOK
  <2>6. [j \in Jobs |-> status'[j] # "ingesting" /\ BeingApplied(j)'] \in [Jobs -> BOOLEAN]
    OBVIOUS
  <2>7. QED
    BY <2>2, <2>3, <2>4, <2>5, <2>6 DEF Life!Next
<1>4. LifeInv /\ [Next]_vars => [Life!Next]_(Life!vars)
  BY <1>3
<1>5. QED
  BY LifeInit, <1>1, <1>2, <1>4, PTL DEF Spec, LifecycleImplemented, Life!Spec
=============================================================================
