------------------------------- MODULE Worker --------------------------------
(***************************************************************************)
(* The process of a crawler worker and the self-update it takes part in.     *)
(* Code: run_worker, CrawlerRuntimeState, sync_runtime_config and            *)
(* apply_pending_update of services/crawler/src/worker.rs on the worker's    *)
(* side; heartbeat_crawler and update_crawler of services/api/src/crawler.rs *)
(* on the control plane's.                                                   *)
(*                                                                         *)
(* The main task claims jobs, spawns a task for each and waits for them; with*)
(* none in flight it installs the version the control plane wants and has    *)
(* the service manager restart it.  A second task sends a heartbeat every 30 *)
(* seconds, and the main task sends its own while it updates: each carries a *)
(* snapshot of the worker's state out and an instruction back, so snapshots  *)
(* and instructions cross.  What a job does is the matter of module Fetch;   *)
(* here it ends with its report accepted, or not.                            *)
(***************************************************************************)
EXTENDS Naturals, FiniteSets

CONSTANTS
  Versions,     \* releases of the worker
  FirstVersion, \* the release it is installed from
  NoVersion,    \* desired_version, failed_target: None
  Slots,        \* worker_concurrency places in the in-flight set
  MaxJobs,      \* max_jobs of a claim
  MaxRequests   \* bound: version requests of operators

ASSUME VersionsAssumption == FirstVersion \in Versions /\ NoVersion \notin Versions

ASSUME BoundsAssumption ==
  /\ IsFiniteSet(Slots) /\ Slots # {}
  /\ MaxJobs \in Nat \ {0} /\ MaxRequests \in Nat

Targets == Versions \cup {NoVersion}
UpdateStatuses == {"idle", "pending", "downloading", "restarting", "failed"}

VARIABLES
  row,        \* metadata of the crawler's row: version, desired_version, update_status
  requests,   \* version requests so far
  pc,         \* where the main task is
  stopping,   \* shutdown_requested
  running,    \* version of the process
  installed,  \* version of the binary on disk
  state,      \* CrawlerRuntimeState: desired, status, failed
  target,     \* target_version of apply_pending_update
  heartbeat,  \* the request of each of the two tasks that send one
  slot,       \* the in-flight set
  asked,      \* the version last requested, until the worker runs it
  burnt,      \* the version whose update failed, until another is requested
  crossed,    \* a heartbeat was under way when the update failed
  raced       \* a request met a heartbeat that clears the desired version

vars == <<row, requests, pc, stopping, running, installed, state, target,
          heartbeat, slot, asked, burnt, crossed, raced>>

process == <<pc, stopping, running, installed, target>>
ghosts == <<asked, burnt, crossed, raced>>

(* The senders of heartbeats.  A heartbeat is sent with a snapshot of the    *)
(* status; "clear" is the control plane between its two statements; "reply"  *)
(* carries the instruction.  It is stray once the process that sent it ended.*)
Senders == {"main", "background"}
NoHeartbeat == [phase |-> "none", version |-> NoVersion, status |-> "idle",
                stray |-> FALSE]
Heartbeats == [phase : {"none", "sent", "clear", "reply"}, version : Targets,
               status : UpdateStatuses, stray : BOOLEAN]

Updating == {"announce", "download", "report_failure", "report_restart", "restart"}
Waiting == {"sync", "announce", "report_failure", "report_restart"}
Places == {"down", "top", "chosen", "claim", "claiming", "wait"} \cup Waiting \cup Updating

TypeOK ==
  /\ row \in [version : Versions, desired : Targets, status : UpdateStatuses]
  /\ requests \in 0..MaxRequests
  /\ pc \in Places
  /\ stopping \in BOOLEAN
  /\ running \in Versions /\ installed \in Versions
  /\ state \in [desired : Targets, status : UpdateStatuses, failed : Targets]
  /\ target \in Targets
  /\ heartbeat \in [Senders -> Heartbeats]
  /\ slot \in [Slots -> {"empty", "working", "finished"}]
  /\ asked \in Targets /\ burnt \in Targets
  /\ crossed \in BOOLEAN /\ raced \in BOOLEAN

NewState == [desired |-> NoVersion, status |-> "idle", failed |-> NoVersion]

Init ==
  /\ row = [version |-> FirstVersion, desired |-> NoVersion, status |-> "idle"]
  /\ requests = 0
  /\ pc = "down" /\ stopping = FALSE
  /\ running = FirstVersion /\ installed = FirstVersion
  /\ state = NewState /\ target = NoVersion
  /\ heartbeat = [s \in Senders |-> NoHeartbeat]
  /\ slot = [s \in Slots |-> "empty"]
  /\ asked = NoVersion /\ burnt = NoVersion
  /\ crossed = FALSE /\ raced = FALSE

InFlight == {s \in Slots : slot[s] # "empty"}

-----------------------------------------------------------------------------
(* The control plane.                                                        *)

(* update_crawler with a desired_version: an operator asks for v. *)
RequestVersion(v) ==
  /\ requests < MaxRequests
  /\ requests' = requests + 1
  /\ row' = [row EXCEPT !.desired = v, !.status = "pending"]
  /\ asked' = IF pc # "down" /\ running = v THEN NoVersion ELSE v
  /\ burnt' = IF row.desired = v THEN burnt ELSE NoVersion
  /\ raced' = \E s \in Senders : \/ heartbeat[s].phase = "clear"
                                 \/ heartbeat[s].phase = "sent" /\ heartbeat[s].stray
  /\ UNCHANGED <<process, state, heartbeat, slot, crossed>>

(* The reply to a heartbeat; nobody reads the one to a stray heartbeat.      *)
Reply(h, desired, status) ==
  IF h.stray THEN NoHeartbeat
  ELSE [h EXCEPT !.phase = "reply", !.version = desired, !.status = status]

(* Mutant: the version the worker reports clears any request.                *)
HeartbeatArrives_Mutation(s) ==
  LET h == heartbeat[s] IN
  /\ h.phase = "sent"
  /\ row' = [row EXCEPT !.version = h.version, !.status = h.status]
  /\ heartbeat' = [heartbeat EXCEPT ![s] =
       IF row.desired # NoVersion THEN [h EXCEPT !.phase = "clear"]
       ELSE Reply(h, row.desired, h.status)]
  /\ UNCHANGED <<requests, process, state, slot, ghosts>>

(* heartbeat_crawler writes the snapshot over the row, the status with it,   *)
(* and answers with what the row then says.  The worker runs the version     *)
(* wanted: the request is cleared by a second statement.                     *)
HeartbeatArrives(s) ==
  LET h == heartbeat[s] IN
  /\ h.phase = "sent"
  /\ row' = [row EXCEPT !.version = h.version, !.status = h.status]
  /\ heartbeat' = [heartbeat EXCEPT ![s] =
       IF row.desired = h.version THEN [h EXCEPT !.phase = "clear"]
       ELSE Reply(h, row.desired, h.status)]
  /\ UNCHANGED <<requests, process, state, slot, ghosts>>

(* Mutant: the status goes with the version wanted. *)
HeartbeatClears_Mutation(s) ==
  /\ heartbeat[s].phase = "clear"
  /\ row' = [row EXCEPT !.desired = NoVersion, !.status = NoVersion]
  /\ heartbeat' = [heartbeat EXCEPT ![s] =
       Reply(heartbeat[s], NoVersion, "idle")]
  /\ UNCHANGED <<requests, process, state, slot, ghosts>>

(* The second statement, which does not look at the row again. *)
HeartbeatClears(s) ==
  /\ heartbeat[s].phase = "clear"
  /\ row' = [row EXCEPT !.desired = NoVersion, !.status = "idle"]
  /\ heartbeat' = [heartbeat EXCEPT ![s] =
       Reply(heartbeat[s], NoVersion, "idle")]
  /\ UNCHANGED <<requests, process, state, slot, ghosts>>

-----------------------------------------------------------------------------
(* The worker's side of a heartbeat.                                         *)

(* snapshot: what a heartbeat sent now tells of the worker. *)
snapshot(status) ==
  [phase |-> "sent", version |-> running, status |-> status, stray |-> FALSE]

InTransfer == {"downloading", "restarting"}

(* Mutant: every instruction of the same version starts it again.            *)
apply_server_instruction_Mutation(desired, status) ==
  IF desired = NoVersion \/ desired = running
  THEN [desired |-> NoVersion, failed |-> NoVersion,
        status |-> IF state.status \in InTransfer THEN state.status ELSE "idle"]
  ELSE [desired |-> desired, failed |-> NoVersion,
        status |-> IF state.status \in InTransfer THEN state.status ELSE "pending"]

(* Mutant: only an instruction that says "pending" starts an update.         *)
apply_server_instruction_Told(desired, status) ==
  IF desired = NoVersion \/ desired = running
  THEN [desired |-> NoVersion, failed |-> NoVersion,
        status |-> IF state.status \in InTransfer THEN state.status ELSE "idle"]
  ELSE [desired |-> desired,
        failed |-> IF status = "pending" THEN NoVersion ELSE state.failed,
        status |-> IF status = "pending" THEN "pending" ELSE state.status]

(* What the worker makes of the instruction in a reply. *)
apply_server_instruction(desired, status) ==
  IF desired = NoVersion \/ desired = running
  THEN [desired |-> NoVersion, failed |-> NoVersion,
        status |-> IF state.status \in InTransfer THEN state.status ELSE "idle"]
  ELSE LET forgiven == state.desired # desired \/ status = "pending"
           failed == IF forgiven THEN NoVersion ELSE state.failed
       IN [desired |-> desired, failed |-> failed,
           status |-> CASE failed = desired -> "failed"
                        [] failed # desired /\ state.status \in InTransfer -> state.status
                        [] OTHER -> "pending"]

(* Where the main task goes when the heartbeat it sent is over, well or not. *)
AfterHeartbeat ==
  CASE pc = "sync" -> "top"
    [] pc = "announce" -> "download"
    [] pc = "report_failure" -> "claim"
    [] pc = "report_restart" -> "restart"

Resumed(s) == pc' = IF s = "main" THEN AfterHeartbeat ELSE pc

(* sync_runtime_config gets its reply. *)
HeartbeatReplied(s) ==
  /\ heartbeat[s].phase = "reply" /\ ~heartbeat[s].stray
  /\ state' = apply_server_instruction(heartbeat[s].version, heartbeat[s].status)
  /\ heartbeat' = [heartbeat EXCEPT ![s] = NoHeartbeat]
  /\ Resumed(s)
  /\ UNCHANGED <<row, requests, stopping, running, installed, target, slot, ghosts>>

(* It fails, before the control plane saw it or after; a failure is logged. *)
HeartbeatFails(s) ==
  /\ heartbeat[s].phase \in {"sent", "reply"} /\ ~heartbeat[s].stray
  /\ heartbeat' = [heartbeat EXCEPT ![s] = NoHeartbeat]
  /\ Resumed(s)
  /\ UNCHANGED <<row, requests, stopping, running, installed, state, target, slot,
                 ghosts>>

(* The process that sent it has ended, and it never arrives. *)
StrayLost(s) ==
  /\ heartbeat[s].phase = "sent" /\ heartbeat[s].stray
  /\ heartbeat' = [heartbeat EXCEPT ![s] = NoHeartbeat]
  /\ UNCHANGED <<row, requests, process, state, slot, ghosts>>

(* The 30 seconds of the second task are over. *)
BackgroundHeartbeat ==
  /\ pc \notin {"down", "sync"} /\ ~stopping
  /\ heartbeat["background"].phase = "none"
  /\ heartbeat' = [heartbeat EXCEPT !["background"] = snapshot(state.status)]
  /\ UNCHANGED <<row, requests, process, state, slot, ghosts>>

-----------------------------------------------------------------------------
(* The main task.                                                            *)

(* The service manager starts the installed binary, whose first act is a     *)
(* heartbeat.                                                                *)
StartProcess ==
  /\ pc = "down"
  /\ heartbeat["main"].phase = "none"
  /\ pc' = "sync" /\ stopping' = FALSE
  /\ running' = installed
  /\ state' = NewState
  /\ heartbeat' = [heartbeat EXCEPT !["main"] =
       [phase |-> "sent", version |-> installed, status |-> "idle", stray |-> FALSE]]
  /\ asked' = IF asked = installed THEN NoVersion ELSE asked
  /\ burnt' = NoVersion /\ crossed' = FALSE
  /\ UNCHANGED <<row, requests, installed, target, slot, raced>>

(* The process is gone: its tasks with it, its heartbeats left to themselves.*)
Ended ==
  /\ pc' = "down"
  /\ slot' = [s \in Slots |-> "empty"]
  /\ heartbeat' = [s \in Senders |->
       IF heartbeat[s].phase \in {"none", "reply"} THEN NoHeartbeat
       ELSE [heartbeat[s] EXCEPT !.stray = TRUE]]
  /\ target' = NoVersion /\ state' = NewState /\ stopping' = FALSE

(* SIGTERM or SIGINT. *)
ShutdownSignal ==
  /\ pc # "down" /\ ~stopping
  /\ stopping' = TRUE
  /\ UNCHANGED <<row, requests, pc, running, installed, state, target, heartbeat,
                 slot, ghosts>>

(* pending_target: the version to update to now, if any. *)
pending_target ==
  IF state.desired \in Versions \ {running, state.failed} /\ state.status = "pending"
  THEN state.desired ELSE NoVersion

(* Mutant: jobs in flight do not keep an update from starting.               *)
ChooseUpdate_Mutation ==
  /\ pc = "top" /\ ~stopping
  /\ pending_target # NoVersion
  /\ target' = pending_target
  /\ pc' = "chosen"
  /\ UNCHANGED <<row, requests, stopping, running, installed, state, heartbeat,
                 slot, ghosts>>

(* The loop finds nothing in flight and, under the lock of the state, a      *)
(* version to update to.                                                     *)
ChooseUpdate ==
  /\ pc = "top" /\ ~stopping /\ InFlight = {}
  /\ pending_target # NoVersion
  /\ target' = pending_target
  /\ pc' = "chosen"
  /\ UNCHANGED <<row, requests, stopping, running, installed, state, heartbeat,
                 slot, ghosts>>

(* apply_pending_update takes the lock again: mark_downloading, whatever an  *)
(* instruction has made of the state since, and a heartbeat to tell.         *)
BeginUpdate ==
  /\ pc = "chosen"
  /\ state' = [state EXCEPT !.desired = target, !.status = "downloading"]
  /\ heartbeat' = [heartbeat EXCEPT !["main"] = snapshot("downloading")]
  /\ pc' = "announce"
  /\ UNCHANGED <<row, requests, stopping, running, installed, target, slot, ghosts>>

NoUpdate ==
  /\ pc = "top"
  /\ stopping \/ InFlight # {} \/ pending_target = NoVersion
  /\ pc' = "claim"
  /\ UNCHANGED <<row, requests, stopping, running, installed, state, target,
                 heartbeat, slot, ghosts>>

(* Download and installation fail: mark_failed, and a heartbeat.  The loop   *)
(* goes on to claim.                                                         *)
UpdateFails ==
  /\ pc = "download"
  /\ state' = [desired |-> target, status |-> "failed", failed |-> target]
  /\ heartbeat' = [heartbeat EXCEPT !["main"] = snapshot("failed")]
  /\ pc' = "report_failure" /\ target' = NoVersion
  /\ burnt' = IF row.desired = target THEN target ELSE NoVersion
  /\ crossed' = (heartbeat["background"].phase # "none")
  /\ UNCHANGED <<row, requests, stopping, running, installed, slot, asked, raced>>

(* The binary is replaced: mark_restarting, and a heartbeat. *)
UpdateInstalled ==
  /\ pc = "download"
  /\ installed' = target
  /\ state' = [state EXCEPT !.desired = target, !.status = "restarting"]
  /\ heartbeat' = [heartbeat EXCEPT !["main"] = snapshot("restarting")]
  /\ pc' = "report_restart" /\ target' = NoVersion
  /\ UNCHANGED <<row, requests, stopping, running, slot, ghosts>>

(* restart_crawler_service: the process ends and the manager starts it again.*)
Restart ==
  /\ pc = "restart"
  /\ Ended
  /\ UNCHANGED <<row, requests, running, installed, ghosts>>

(* systemctl fails: the loop goes on, in the state "restarting".             *)
RestartFails ==
  /\ pc = "restart"
  /\ pc' = "claim"
  /\ UNCHANGED <<row, requests, stopping, running, installed, state, target,
                 heartbeat, slot, ghosts>>

(* Mutant: the shutdown does not stop the claims.                            *)
BeginClaim_Mutation ==
  /\ pc = "claim" /\ InFlight # Slots
  /\ pc' = "claiming"
  /\ UNCHANGED <<row, requests, stopping, running, installed, state, target,
                 heartbeat, slot, ghosts>>

(* The claim loop asks for jobs while there is room. *)
BeginClaim ==
  /\ pc = "claim" /\ ~stopping /\ InFlight # Slots
  /\ pc' = "claiming"
  /\ UNCHANGED <<row, requests, stopping, running, installed, state, target,
                 heartbeat, slot, ghosts>>

(* The jobs of a claim are spawned, at most max_jobs and at most the room.   *)
Claimed(S) ==
  /\ pc = "claiming"
  /\ S \subseteq Slots \ InFlight /\ S # {} /\ Cardinality(S) <= MaxJobs
  /\ slot' = [s \in Slots |-> IF s \in S THEN "working" ELSE slot[s]]
  /\ pc' = "claim"
  /\ UNCHANGED <<row, requests, stopping, running, installed, state, target,
                 heartbeat, ghosts>>

(* An empty claim ends the claim loop: the worker sleeps, or waits for what  *)
(* is in flight.                                                             *)
ClaimEmpty ==
  /\ pc = "claiming"
  /\ pc' = IF InFlight = {} THEN "top" ELSE "wait"
  /\ UNCHANGED <<row, requests, stopping, running, installed, state, target,
                 heartbeat, slot, ghosts>>

(* A claim that fails ends the process, whatever is in flight. *)
ClaimFails ==
  /\ pc = "claiming"
  /\ Ended
  /\ UNCHANGED <<row, requests, running, installed, ghosts>>

(* No room, or shutting down: wait for a job. *)
ClaimFull ==
  /\ pc = "claim" /\ InFlight # {}
  /\ stopping \/ InFlight = Slots
  /\ pc' = "wait"
  /\ UNCHANGED <<row, requests, stopping, running, installed, state, target,
                 heartbeat, slot, ghosts>>

(* Shutting down with nothing in flight ends the process. *)
Exit ==
  /\ pc = "claim" /\ stopping /\ InFlight = {}
  /\ Ended
  /\ UNCHANGED <<row, requests, running, installed, ghosts>>

(* The task of a job ends, with its report accepted, or refused or lost. *)
JobEnds(s) ==
  /\ slot[s] = "working"
  /\ slot' = [slot EXCEPT ![s] = "finished"]
  /\ UNCHANGED <<row, requests, process, state, heartbeat, ghosts>>

(* The loop takes a job whose report was accepted out of the set. *)
Joined(s) ==
  /\ pc = "wait" /\ slot[s] = "finished"
  /\ slot' = [slot EXCEPT ![s] = "empty"]
  /\ pc' = "top"
  /\ UNCHANGED <<row, requests, stopping, running, installed, state, target,
                 heartbeat, ghosts>>

(* One whose report failed ends the process, and every other job with it. *)
JoinFails(s) ==
  /\ pc = "wait" /\ slot[s] = "finished"
  /\ Ended
  /\ UNCHANGED <<row, requests, running, installed, ghosts>>

(* The process dies. *)
Crash ==
  /\ pc # "down"
  /\ Ended
  /\ UNCHANGED <<row, requests, running, installed, ghosts>>

Main ==
  \/ ChooseUpdate \/ BeginUpdate \/ NoUpdate \/ UpdateFails \/ UpdateInstalled
  \/ Restart \/ RestartFails
  \/ BeginClaim \/ (\E S \in SUBSET Slots : Claimed(S)) \/ ClaimEmpty \/ ClaimFails
  \/ ClaimFull \/ Exit
  \/ \E s \in Slots : Joined(s) \/ JoinFails(s)

Sync(s) == HeartbeatArrives(s) \/ HeartbeatClears(s) \/ HeartbeatReplied(s)
           \/ HeartbeatFails(s) \/ StrayLost(s)

Next ==
  \/ \E v \in Versions : RequestVersion(v)
  \/ \E s \in Senders : Sync(s)
  \/ BackgroundHeartbeat
  \/ StartProcess \/ ShutdownSignal \/ Crash
  \/ Main
  \/ \E s \in Slots : JobEnds(s)

Spec == Init /\ [][Next]_vars

(* The tasks of the process run, requests and jobs end, and a service        *)
(* manager starts the process.  Heartbeats may fail, but not for ever.       *)
Fairness ==
  /\ WF_vars(Main)
  /\ WF_vars(StartProcess) /\ WF_vars(BackgroundHeartbeat)
  /\ \A s \in Slots : WF_vars(JobEnds(s))
  /\ \A s \in Senders :
       /\ WF_vars(Sync(s))
       /\ SF_vars(HeartbeatArrives(s)) /\ SF_vars(HeartbeatReplied(s))

FairSpec == Spec /\ Fairness

-----------------------------------------------------------------------------
(* No job is in flight while the binary is replaced and the process made to  *)
(* restart: an update gives up no claimed job (worker.rs:287-312).           *)
UpdatesIdle == pc \in Updating => InFlight = {}

(* The version an operator last asked for stands in the row until a process  *)
(* of that version has started: no heartbeat of the version before it takes  *)
(* it for done.  Unless the request came between the two statements of a     *)
(* heartbeat that clears the version before it, or met the heartbeat of a    *)
(* process that has ended (crawler.rs:2630-2651).                            *)
RequestKept == asked # NoVersion /\ ~raced => row.desired = asked

(* A version whose update failed is not downloaded again by the same process *)
(* until another version was asked for.  Unless a heartbeat was under way    *)
(* when it failed: its reply, still of before, has the worker try again      *)
(* (worker.rs:123-133).                                                      *)
FailureHeld ==
  pc \in {"announce", "download"} /\ ~crossed /\ burnt # NoVersion => target # burnt

(* systemctl failed: the status "restarting" keeps every later update out.   *)
Stuck == state.status = "restarting" /\ pc \notin Updating

(* A version asked for is reached, given up after a failure or replaced by   *)
(* another request, if the worker keeps running and finds itself without a   *)
(* job again and again, and if not every failure meets a heartbeat (see      *)
(* FailureHeld).  Not so when the restart failed (see Stuck), nor when       *)
(* claims keep the in-flight set from ever being empty (worker.rs:287).      *)
UpdateSettles ==
  /\ <>[](pc # "down" /\ ~stopping)
  /\ []<>(pc = "top" /\ InFlight = {})
  /\ <>[]~crossed
  => \A v \in Versions :
       row.desired = v ~> row.desired # v \/ state.failed = v \/ Stuck

(* A worker told to stop ends: it claims nothing more, and its jobs report.  *)
ShutdownEnds == stopping ~> pc = "down"
==============================================================================
