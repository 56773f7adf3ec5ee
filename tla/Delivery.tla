------------------------------ MODULE Delivery ------------------------------
(***************************************************************************)
(* How the results of a lease reach the projectors: the report that stages   *)
(* them, the message that announces it on the task bus, the projector's      *)
(* passes, and the batch row that sums up the results of the lease.  Code:   *)
(* crawl/ingest.rs, crawl/projection.rs, task_bus.rs, run_projector in       *)
(* lib.rs and submit_crawl_report in handlers/crawler.rs, all of             *)
(* services/api/src.                                                         *)
(*                                                                         *)
(* JobPipeline has the same items from the side of their jobs; here a job is *)
(* only where the statements of the projector look at it.  A report carries  *)
(* one result, as the worker sends it.                                       *)
(***************************************************************************)
EXTENDS Naturals, Sequences, FiniteSets, SequencesExt

CONSTANTS
  Items,        \* results, each of a job of its own
  Leases,       \* claims the jobs were handed out in
  LeaseOf,      \* the lease of each result
  Projectors,   \* projector processes
  BatchSize,    \* FINDVERSE_PROJECTOR_BATCH_SIZE: messages, and items, of a pass
  MaxFaults     \* bound on the failures of projectors

ASSUME DeliveryConstants ==
  /\ Leases # {} /\ LeaseOf \in [Items -> Leases]
  /\ BatchSize \in Nat \ {0}
  /\ MaxFaults \in Nat

VARIABLES
  report,   \* how far the report of a result is
  job,      \* the job of a result, as the statements below look at it
  item,     \* crawl_ingest_items.status
  staged,   \* the items in the order of created_at
  stale,    \* items taken longer ago than the claim timeout
  batch,    \* crawl_ingest_batches.status
  msg,      \* the message of a report in the stream and its consumer group
  idle,     \* messages delivered longer ago than min_idle, not acknowledged
  proj,     \* the projectors
  faults,   \* how many times a projector failed
  blurred   \* leases whose batch row two calls wrote at once, or one left unwritten

vars == <<report, job, item, staged, stale, batch, msg, idle, proj, faults, blurred>>
stream == <<msg, idle>>
reporting == <<report, staged>>

-----------------------------------------------------------------------------
Reports == {"none", "batched", "staged", "accepted", "counted", "ended"}
Jobs == {"claimed", "ingesting", "left"}
ItemStatuses == {"none", "pending", "processing", "completed", "failed"}
BatchStatuses == {"none", "pending", "processing", "completed", "failed"}
Settled == {"completed", "failed"}

(* A projector: the statement it is at, the messages of its pass, how many   *)
(* results it may still take, those it has taken and how they came out, the  *)
(* batches it has to refresh, and the count it made for one of them.         *)
Places == {"down", "read", "recover", "recover_failed", "pass", "claimed",
           "drain", "ack"}
Works == {"none", "taken", "applied", "broken"}
NoView == "none"
Projector == [pc : Places, ids : SUBSET Items, left : 0..BatchSize, any : BOOLEAN,
              work : [Items -> Works], todo : SUBSET Leases,
              at : Leases, view : BatchStatuses]

TypeOK ==
  /\ report \in [Items -> Reports]
  /\ job \in [Items -> Jobs]
  /\ item \in [Items -> ItemStatuses]
  /\ staged \in Seq(Items)
  /\ ToSet(staged) = {i \in Items : item[i] # "none"} /\ IsInjective(staged)
  /\ stale \subseteq {i \in Items : item[i] = "processing"}
  /\ batch \in [Leases -> BatchStatuses]
  /\ msg \in [Items -> {"none", "new", "delivered", "gone"}]
  /\ idle \subseteq {i \in Items : msg[i] = "delivered"}
  /\ proj \in [Projectors -> Projector]
  /\ faults \in 0..MaxFaults
  /\ blurred \subseteq Leases

NoWork == [i \in Items |-> "none"]
Fresh(pc) == [pc |-> pc, ids |-> {}, left |-> 0, any |-> FALSE, work |-> NoWork,
              todo |-> {}, at |-> CHOOSE l \in Leases : TRUE, view |-> NoView]

Init ==
  /\ report = [i \in Items |-> "none"]
  /\ job = [i \in Items |-> "claimed"]
  /\ item = [i \in Items |-> "none"]
  /\ staged = <<>> /\ stale = {}
  /\ batch = [l \in Leases |-> "none"]
  /\ msg = [i \in Items |-> "none"] /\ idle = {}
  /\ proj = [p \in Projectors |-> Fresh("read")]
  /\ faults = 0 /\ blurred = {}

ItemsOf(l) == {i \in Items : LeaseOf[i] = l}
Least(a, b) == IF a < b THEN a ELSE b

(* Calls that have yet to write the batch row of l: reports, and projectors  *)
(* between the items they changed and the row.                               *)
Reporting(l) == {i \in ItemsOf(l) : report[i] \in {"staged", "accepted"}}
Refreshing(l) ==
  {p \in Projectors : \/ l \in proj[p].todo
                      \/ /\ proj[p].pc = "claimed"
                         /\ \E i \in ItemsOf(l) : proj[p].work[i] = "taken"}

-----------------------------------------------------------------------------
(* stage_report, one action per statement.  The job is looked at first: it   *)
(* must still be held under the lease.                                       *)
ReportBegins(i) ==
  /\ report[i] = "none"
  /\ job[i] = "claimed"
  /\ report' = [report EXCEPT ![i] = "batched"]
  /\ batch' = [batch EXCEPT ![LeaseOf[i]] = IF @ = "none" THEN "pending" ELSE @]
  /\ UNCHANGED <<job, item, staged, stale, stream, proj, faults, blurred>>

StageItem(i) ==
  /\ report[i] = "batched"
  /\ job[i] = "claimed"
  /\ report' = [report EXCEPT ![i] = "staged"]
  /\ item' = [item EXCEPT ![i] = "pending"]
  /\ staged' = Append(staged, i)
  /\ UNCHANGED <<job, stale, batch, stream, proj, faults, blurred>>

(* accept_report: nothing happens to a job that is no longer held. *)
AcceptReport(i) ==
  /\ report[i] = "staged"
  /\ report' = [report EXCEPT ![i] = "accepted"]
  /\ job' = [job EXCEPT ![i] = IF @ = "claimed" THEN "ingesting" ELSE @]
  /\ UNCHANGED <<item, staged, stale, batch, stream, proj, faults, blurred>>

(* The batch row is pending again, unless it is completed. *)
CountResults(i) ==
  LET l == LeaseOf[i] IN
  /\ report[i] = "accepted"
  /\ report' = [report EXCEPT ![i] = "counted"]
  /\ batch' = [batch EXCEPT ![l] = IF @ = "completed" THEN @ ELSE "pending"]
  /\ blurred' = IF Refreshing(l) # {} THEN blurred \cup {l} ELSE blurred
  /\ UNCHANGED <<job, item, staged, stale, stream, proj, faults>>

(* submit_crawl_report announces what was staged. *)
Publish(i) ==
  /\ report[i] = "counted"
  /\ report' = [report EXCEPT ![i] = "ended"]
  /\ msg' = [msg EXCEPT ![i] = "new"]
  /\ UNCHANGED <<job, item, staged, stale, batch, idle, proj, faults, blurred>>

(* The report ends early: a statement or the publication fails, or the       *)
(* control plane dies.  The worker does not send it again.                   *)
ReportFails(i) ==
  /\ report[i] \notin {"none", "ended"}
  /\ report' = [report EXCEPT ![i] = "ended"]
  /\ UNCHANGED <<job, item, staged, stale, batch, stream, proj, faults, blurred>>

(* The ingest of a job times out: with the job, its item is failed, and the  *)
(* batch, unless it is completed.                                            *)
IngestTimesOut(i) ==
  LET l == LeaseOf[i]
      waits == item[i] \in {"pending", "processing"}
  IN /\ job[i] = "ingesting"
     /\ job' = [job EXCEPT ![i] = "left"]
     /\ item' = [item EXCEPT ![i] = IF waits THEN "failed" ELSE @]
     /\ stale' = stale \ {i}
     /\ batch' = [batch EXCEPT ![l] = IF waits /\ @ # "completed" THEN "failed" ELSE @]
     /\ blurred' = IF waits /\ (batch[l] = "completed" \/ Reporting(l) # {}
                                  \/ Refreshing(l) # {})
                   THEN blurred \cup {l} ELSE blurred
     /\ UNCHANGED <<reporting, stream, proj, faults>>

(* A job leaves the lease otherwise: its claim times out, or an operator     *)
(* stops it (JobPipeline).                                                   *)
JobLeaves(i) ==
  /\ job[i] \in {"claimed", "ingesting"}
  /\ job' = [job EXCEPT ![i] = "left"]
  /\ UNCHANGED <<reporting, item, stale, batch, stream, proj, faults, blurred>>

-----------------------------------------------------------------------------
(* The stream.  Delivered messages stay with the group until acknowledged;   *)
(* those of the stream's old end are dropped.                                *)
Dropped(i) ==
  /\ msg[i] = "new"
  /\ msg' = [msg EXCEPT ![i] = "gone"]
  /\ UNCHANGED <<reporting, job, item, stale, batch, idle, proj, faults, blurred>>

Idles(i) ==
  /\ msg[i] = "delivered" /\ i \notin idle
  /\ idle' = idle \cup {i}
  /\ UNCHANGED <<reporting, job, item, stale, batch, msg, proj, faults, blurred>>

(* The claim timeout of an item passes. *)
Ages(i) ==
  /\ item[i] = "processing" /\ i \notin stale
  /\ stale' = stale \cup {i}
  /\ UNCHANGED <<reporting, job, item, batch, stream, proj, faults, blurred>>

(* Some n of S, or all of it when it has fewer. *)
Some(n, S) == {T \in SUBSET S : Cardinality(T) = Least(n, Cardinality(S))}

(* Mutant: a pass is made only when a message asks for it.                   *)
ReadBatch_Mutation(p) ==
  /\ proj[p].pc = "read"
  /\ \E ids \in Some(BatchSize, {i \in Items : msg[i] = "new"} \cup idle) :
       /\ ids # {}
       /\ msg' = [i \in Items |-> IF i \in ids THEN "delivered" ELSE msg[i]]
       /\ idle' = idle \ ids
       /\ proj' = [proj EXCEPT ![p].pc = "recover", ![p].ids = ids]
  /\ UNCHANGED <<reporting, job, item, stale, batch, faults, blurred>>

(* read_batch: idle messages first, then new ones, or none when the wait is  *)
(* over.                                                                     *)
ReadBatch(p) ==
  /\ proj[p].pc = "read"
  /\ \E old \in Some(BatchSize, idle) :
     \E new \in Some(BatchSize - Cardinality(old), {i \in Items : msg[i] = "new"}) :
       /\ msg' = [i \in Items |-> IF i \in new THEN "delivered" ELSE msg[i]]
       /\ idle' = idle \ old
       /\ proj' = [proj EXCEPT ![p].pc = "recover", ![p].ids = old \cup new]
  /\ UNCHANGED <<reporting, job, item, stale, batch, faults, blurred>>

-----------------------------------------------------------------------------
(* recover_stale_items: two statements, then the batches of both.  What comes *)
(* next, cleanup_blacklisted_domains, touches nothing here, and so the pass  *)
(* of process_pending_ingests is next.                                       *)

LeasesOf(S) == {LeaseOf[i] : i \in S}

(* Mutant: a requeued item keeps its started_at.                             *)
RecoverRequeued_Mutation(p) ==
  LET S == {i \in stale : job[i] = "ingesting"} IN
  /\ proj[p].pc = "recover"
  /\ item' = [i \in Items |-> IF i \in S THEN "pending" ELSE item[i]]
  /\ proj' = [proj EXCEPT ![p].pc = "recover_failed", ![p].todo = LeasesOf(S)]
  /\ UNCHANGED <<reporting, job, stale, batch, stream, faults, blurred>>

RecoverRequeued(p) ==
  LET S == {i \in stale : job[i] = "ingesting"} IN
  /\ proj[p].pc = "recover"
  /\ item' = [i \in Items |-> IF i \in S THEN "pending" ELSE item[i]]
  /\ stale' = stale \ S
  /\ proj' = [proj EXCEPT ![p].pc = "recover_failed", ![p].todo = LeasesOf(S)]
  /\ UNCHANGED <<reporting, job, batch, stream, faults, blurred>>

(* Mutant: only the batches of the items taken back are refreshed.           *)
RecoverFailed_Mutation(p) ==
  LET S == {i \in stale : job[i] # "ingesting"} IN
  /\ proj[p].pc = "recover_failed"
  /\ item' = [i \in Items |-> IF i \in S THEN "failed" ELSE item[i]]
  /\ stale' = stale \ S
  /\ proj' = [proj EXCEPT ![p].pc = "pass", ![p].left = BatchSize]
  /\ UNCHANGED <<reporting, job, batch, stream, faults, blurred>>

RecoverFailed(p) ==
  LET S == {i \in stale : job[i] # "ingesting"} IN
  /\ proj[p].pc = "recover_failed"
  /\ item' = [i \in Items |-> IF i \in S THEN "failed" ELSE item[i]]
  /\ stale' = stale \ S
  /\ proj' = [proj EXCEPT ![p].pc = "pass", ![p].left = BatchSize,
                           ![p].todo = @ \cup LeasesOf(S)]
  /\ UNCHANGED <<reporting, job, batch, stream, faults, blurred>>

(* refresh_batch_status, from its count ... *)
Summary(l) ==
  CASE \E i \in ItemsOf(l) : item[i] = "failed" -> "failed"
    [] /\ \A i \in ItemsOf(l) : item[i] # "failed"
       /\ \E i \in ItemsOf(l) : item[i] \in {"pending", "processing"} -> "processing"
    [] OTHER -> "completed"

AtRefresh(p) == proj[p].pc \in {"pass", "drain"} /\ proj[p].todo # {}

CountItems(p, l) ==
  /\ AtRefresh(p) /\ l \in proj[p].todo /\ proj[p].view = NoView
  /\ proj' = [proj EXCEPT ![p].at = l, ![p].view = Summary(l)]
  /\ blurred' = IF Refreshing(l) = {p} /\ Reporting(l) = {} THEN blurred \ {l}
                ELSE blurred \cup {l}
  /\ UNCHANGED <<reporting, job, item, stale, batch, stream, faults>>

(* ... to its update. *)
WriteBatch(p) ==
  LET l == proj[p].at IN
  /\ AtRefresh(p) /\ proj[p].view # NoView
  /\ batch' = [batch EXCEPT ![l] = proj[p].view]
  /\ proj' = [proj EXCEPT ![p].todo = @ \ {l}, ![p].view = NoView]
  /\ UNCHANGED <<reporting, job, item, stale, stream, faults, blurred>>

-----------------------------------------------------------------------------
(* drain.  claim_pending_items takes the oldest items, as many as are left   *)
(* to the pass, ...                                                          *)
Oldest(n) ==
  LET waiting == {x \in DOMAIN staged : item[staged[x]] = "pending"}
  IN {staged[x] : x \in {y \in waiting : Cardinality({z \in waiting : z < y}) < n}}

ClaimItems(p) ==
  LET S == Oldest(proj[p].left) IN
  /\ proj[p].pc = "pass" /\ proj[p].todo = {}
  /\ S # {}
  /\ item' = [i \in Items |-> IF i \in S THEN "processing" ELSE item[i]]
  /\ proj' = [proj EXCEPT ![p].pc = "claimed", ![p].any = FALSE,
                ![p].work = [i \in Items |-> IF i \in S THEN "taken" ELSE "none"]]
  /\ UNCHANGED <<reporting, job, stale, batch, stream, faults, blurred>>

(* ... and marks their batches. *)
MarkBatches(p) ==
  LET L == LeasesOf({i \in Items : proj[p].work[i] = "taken"}) IN
  /\ proj[p].pc = "claimed"
  /\ batch' = [l \in Leases |-> IF l \in L THEN "processing" ELSE batch[l]]
  /\ blurred' = blurred \cup
       {l \in L : \E q \in Projectors \ {p} : q \in Refreshing(l)}
  /\ proj' = [proj EXCEPT ![p].pc = "drain"]
  /\ UNCHANGED <<reporting, job, item, stale, stream, faults>>

(* apply_item, in a task of its own, beside the others of the pass: it       *)
(* succeeds only on a job that is ingesting, and either way the job has left *)
(* (apply_staged_result, mark_projection_failure).                           *)
Applied(p, i, ok) ==
  /\ proj[p].pc = "drain" /\ proj[p].work[i] = "taken"
  /\ ok => job[i] = "ingesting"
  /\ proj' = [proj EXCEPT ![p].work[i] = IF ok THEN "applied" ELSE "broken"]
  /\ job' = [job EXCEPT ![i] = IF @ = "ingesting" THEN "left" ELSE @]
  /\ UNCHANGED <<reporting, item, stale, batch, stream, faults, blurred>>

(* mark_item_completed, mark_item_failed: where id = $1 alone. *)
MarkItem(p, i) ==
  /\ proj[p].pc = "drain" /\ proj[p].todo = {}
  /\ proj[p].work[i] \in {"applied", "broken"}
  /\ item' = [item EXCEPT ![i] = IF proj[p].work[i] = "applied" THEN "completed"
                                 ELSE "failed"]
  /\ stale' = stale \ {i}
  /\ proj' = [proj EXCEPT ![p].work[i] = "none", ![p].todo = {LeaseOf[i]},
                ![p].any = @ \/ proj[p].work[i] = "applied",
                ![p].left = IF proj[p].work[i] = "applied" THEN @ - 1 ELSE @]
  /\ UNCHANGED <<reporting, job, batch, stream, faults, blurred>>

(* The drain is over: another one, unless it had no success.                 *)
Drained(p) ==
  /\ proj[p].pc = "drain" /\ proj[p].todo = {} /\ proj[p].work = NoWork
  /\ proj' = [proj EXCEPT ![p].pc = IF proj[p].any THEN "pass" ELSE "ack"]
  /\ UNCHANGED <<reporting, job, item, stale, batch, stream, faults, blurred>>

PassEnds(p) ==
  /\ proj[p].pc = "pass" /\ proj[p].todo = {}
  /\ Oldest(proj[p].left) = {}
  /\ proj' = [proj EXCEPT ![p].pc = "ack"]
  /\ UNCHANGED <<reporting, job, item, stale, batch, stream, faults, blurred>>

Ack(p) ==
  /\ proj[p].pc = "ack"
  /\ msg' = [i \in Items |-> IF i \in proj[p].ids THEN "gone" ELSE msg[i]]
  /\ idle' = idle \ proj[p].ids
  /\ proj' = [proj EXCEPT ![p] = Fresh("read")]
  /\ UNCHANGED <<reporting, job, item, stale, batch, faults, blurred>>

-----------------------------------------------------------------------------
(* Failures.  Rows the projector had still to refresh stay as they are.      *)
Fails(p, pc) ==
  /\ faults < MaxFaults
  /\ faults' = faults + 1
  /\ proj' = [proj EXCEPT ![p] = Fresh(pc)]
  /\ blurred' = blurred \cup proj[p].todo
  /\ UNCHANGED <<reporting, job, item, stale, batch, stream>>

(* A statement of the pass fails: the loop goes on without the acknowledgement, *)
(* and the tasks of the drain are dropped with their JoinSet.                *)
PassFails(p) ==
  /\ proj[p].pc \notin {"down", "read", "ack"}
  /\ Fails(p, "read")

(* The bus fails, which ends the process, or the process dies. *)
Crash(p) ==
  /\ proj[p].pc # "down"
  /\ Fails(p, "down")

(* A task of the drain panics: its item is left as it is. *)
TaskPanics(p, i) ==
  /\ proj[p].pc = "drain" /\ proj[p].work[i] = "taken"
  /\ faults < MaxFaults
  /\ faults' = faults + 1
  /\ proj' = [proj EXCEPT ![p].work[i] = "none"]
  /\ UNCHANGED <<reporting, job, item, stale, batch, stream, blurred>>

Restarts(p) ==
  /\ proj[p].pc = "down"
  /\ proj' = [proj EXCEPT ![p] = Fresh("read")]
  /\ UNCHANGED <<reporting, job, item, stale, batch, stream, faults, blurred>>

Report(i) ==
  \/ ReportBegins(i) \/ StageItem(i) \/ AcceptReport(i) \/ CountResults(i)
  \/ Publish(i) \/ ReportFails(i) \/ JobLeaves(i) \/ IngestTimesOut(i)
  \/ Dropped(i)

(* What a projector does when nothing fails. *)
Project(p) ==
  \/ ReadBatch(p) \/ RecoverRequeued(p) \/ RecoverFailed(p)
  \/ \E l \in Leases : CountItems(p, l)
  \/ WriteBatch(p) \/ ClaimItems(p) \/ MarkBatches(p)
  \/ \E i \in Items : MarkItem(p, i) \/ \E ok \in BOOLEAN : Applied(p, i, ok)
  \/ Drained(p) \/ PassEnds(p) \/ Ack(p) \/ Restarts(p)

Next ==
  \/ \E i \in Items : Report(i) \/ Idles(i) \/ Ages(i)
  \/ \E p \in Projectors : \/ Project(p) \/ PassFails(p) \/ Crash(p)
                           \/ \E i \in Items : TaskPanics(p, i)

Spec == Init /\ [][Next]_vars

(* Time passes and projectors go on, or are started again; workers and the   *)
(* control plane owe nothing.                                                *)
Fairness ==
  /\ \A p \in Projectors : WF_vars(Project(p))
  /\ \A i \in Items : WF_vars(Idles(i)) /\ WF_vars(Ages(i))

FairSpec == Spec /\ Fairness

-----------------------------------------------------------------------------
(* When the results of a lease have settled and no call is on its way to the *)
(* batch row, the row tells how they came out: failed if one did, completed  *)
(* otherwise.  Unless the last to count them was overtaken by another writer *)
(* or died before it wrote (crawl/ingest.rs:407-449, 155-171), or the result *)
(* timed out after the row was completed by the earlier ones                 *)
(* (crawler.rs:3629-3636): nothing refreshes the row after that.             *)
BatchTold ==
  \A l \in Leases \ blurred :
    LET results == {i \in ItemsOf(l) : item[i] # "none"} IN
    (/\ results # {} /\ \A i \in results : item[i] \in Settled
     /\ Reporting(l) = {} /\ Refreshing(l) = {})
    => batch[l] = IF \E i \in results : item[i] = "failed" THEN "failed" ELSE "completed"

(* Every staged result is projected or given up, and every message that was  *)
(* published is acknowledged or dropped: whatever reports, messages, passes  *)
(* and projectors are lost, and although a pass stops at a drain without a   *)
(* success and leaves the rest (crawler.rs:1714-1731).                       *)
Delivered ==
  \A i \in Items : /\ item[i] = "pending" ~> item[i] \in Settled
                   /\ msg[i] = "new" ~> msg[i] = "gone"
==============================================================================
