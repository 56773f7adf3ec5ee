----------------------------- MODULE WorkerProofs ------------------------------
(* Theorems about Worker, for every value of its constants. *)
EXTENDS Worker, TLAPS

-----------------------------------------------------------------------------
(* A heartbeat that is not stray is of the process that runs, and the main   *)
(* task waits for its own; a version is downloaded that does not run yet, and *)
(* was chosen with no job in flight.                                         *)
TasksSound ==
  /\ \A s \in Senders : heartbeat[s].phase = "sent" => heartbeat[s].version \in Versions
  /\ \A s \in Senders :
       heartbeat[s].phase # "none" /\ ~heartbeat[s].stray =>
         /\ pc # "down"
         /\ heartbeat[s].phase = "sent" => heartbeat[s].version = running
         /\ s = "main" => pc \in Waiting
  /\ pc \in {"chosen", "announce", "download"} => target \in Versions \ {running}
  /\ pc = "chosen" => InFlight = {}

(* The version asked for is not the one that runs; the row holds it, and no  *)
(* heartbeat under way will clear it.                                        *)
RequestSafe ==
  /\ pc # "down" => asked # running
  /\ asked # NoVersion /\ ~raced =>
       /\ row.desired = asked
       /\ \A s \in Senders :
            heartbeat[s].phase # "clear"
            /\ (heartbeat[s].phase = "sent" => heartbeat[s].version # asked)

(* The version that failed is still the one wanted, the worker remembers it, *)
(* and every heartbeat under way tells of the failure.                       *)
FailureSafe ==
  pc # "down" /\ ~crossed /\ burnt # NoVersion =>
    /\ burnt # running /\ row.desired = burnt
    /\ state.desired = burnt /\ state.failed = burnt /\ state.status = "failed"
    /\ pc \notin {"chosen", "announce", "download"}
    /\ \A s \in Senders :
         /\ heartbeat[s].phase # "clear"
         /\ heartbeat[s].phase = "sent" =>
              heartbeat[s].version = running /\ heartbeat[s].status = "failed"
         /\ heartbeat[s].phase = "reply" =>
              heartbeat[s].version = burnt /\ heartbeat[s].status = "failed"

IInv == TypeOK /\ TasksSound /\ RequestSafe /\ FailureSafe /\ UpdatesIdle

-----------------------------------------------------------------------------
LEMMA InvInit == Init => IInv
<1> SUFFICES ASSUME Init PROVE IInv
  OBVIOUS
<1>0. /\ row \in [version : Versions, desired : Targets, status : UpdateStatuses]
      /\ state \in [desired : Targets, status : UpdateStatuses, failed : Targets]
      /\ NoHeartbeat \in Heartbeats
  BY VersionsAssumption
  DEF Init, Targets, UpdateStatuses, NewState, NoHeartbeat, Heartbeats
<1>1. TypeOK
  <2>1. requests \in 0..MaxRequests
    BY BoundsAssumption DEF Init
  <2>2. pc \in Places
    BY DEF Init, Places
  <2>3. /\ running \in Versions /\ installed \in Versions
        /\ target \in Targets /\ asked \in Targets /\ burnt \in Targets
        /\ stopping \in BOOLEAN /\ crossed \in BOOLEAN /\ raced \in BOOLEAN
    BY VersionsAssumption DEF Init, Targets
  <2>4. /\ heartbeat \in [Senders -> Heartbeats]
        /\ slot \in [Slots -> {"empty", "working", "finished"}]
    BY <1>0 DEF Init
  <2>5. QED
    BY <1>0, <2>1, <2>2, <2>3, <2>4 DEF TypeOK
<1>2. \A s \in Senders : heartbeat[s] = NoHeartbeat
  BY DEF Init
<1>3. TasksSound /\ RequestSafe /\ FailureSafe /\ UpdatesIdle
  BY <1>2 DEF Init, TasksSound, InFlight, RequestSafe, FailureSafe, UpdatesIdle, Updating, NoHeartbeat
<1>4. QED
  BY <1>1, <1>3 DEF IInv

LEMMA RequestStep ==
  ASSUME IInv, NEW v \in Versions, RequestVersion(v)
  PROVE  IInv'
<1> USE DEF IInv
<1>0. /\ row' = [row EXCEPT !.desired = v, !.status = "pending"]
      /\ requests < MaxRequests /\ requests' = requests + 1
      /\ UNCHANGED <<pc, stopping, running, installed, target, state, heartbeat, slot, crossed>>
  BY DEF RequestVersion, process
<1>1. /\ asked' = IF pc # "down" /\ running = v THEN NoVersion ELSE v
      /\ burnt' = IF row.desired = v THEN burnt ELSE NoVersion
      /\ raced' = \E s \in Senders : \/ heartbeat[s].phase = "clear"
                                     \/ heartbeat[s].phase = "sent" /\ heartbeat[s].stray
  BY DEF RequestVersion
<1>2. /\ row' \in [version : Versions, desired : Targets, status : UpdateStatuses]
      /\ row'.desired = v
  BY <1>0 DEF TypeOK, Targets, UpdateStatuses
<1>3. TypeOK'
  BY <1>0, <1>1, <1>2, BoundsAssumption DEF TypeOK, Targets
<1>4. TasksSound' /\ UpdatesIdle'
  BY <1>0 DEF TasksSound, UpdatesIdle, InFlight
<1>5. RequestSafe'
  BY <1>0, <1>1, <1>2, VersionsAssumption DEF RequestSafe, TasksSound
<1>6. FailureSafe'
  BY <1>0, <1>1, <1>2 DEF FailureSafe
<1>7. QED
  BY <1>3, <1>4, <1>5, <1>6

(* One sender's heartbeat changes. *)
LEMMA HeartbeatSet ==
  ASSUME TypeOK, NEW s \in Senders, NEW h \in Heartbeats,
         heartbeat' = [heartbeat EXCEPT ![s] = h]
  PROVE  /\ heartbeat' \in [Senders -> Heartbeats]
         /\ heartbeat'[s] = h
         /\ \A x \in Senders \ {s} : heartbeat'[x] = heartbeat[x]
BY DEF TypeOK

LEMMA NoHeartbeatType == NoHeartbeat \in Heartbeats /\ NoHeartbeat.phase = "none"
BY DEF NoHeartbeat, Heartbeats, Targets, UpdateStatuses

LEMMA ReplyType ==
  ASSUME NEW h \in Heartbeats, NEW desired \in Targets, NEW status \in UpdateStatuses
  PROVE  /\ Reply(h, desired, status) \in Heartbeats
         /\ h.stray => Reply(h, desired, status).phase = "none"
         /\ \/ Reply(h, desired, status).phase = "none"
            \/ /\ Reply(h, desired, status).phase = "reply"
               /\ ~Reply(h, desired, status).stray /\ ~h.stray
         /\ ~h.stray => /\ Reply(h, desired, status).phase = "reply"
                        /\ Reply(h, desired, status).version = desired
                        /\ Reply(h, desired, status).status = status
                        /\ ~Reply(h, desired, status).stray
<1>1. CASE h.stray
  BY <1>1, NoHeartbeatType DEF Reply
<1>2. CASE ~h.stray
  BY <1>2 DEF Reply, Heartbeats
<1>3. QED
  BY <1>1, <1>2

LEMMA ControlSteps ==
  ASSUME IInv, NEW s \in Senders, HeartbeatArrives(s) \/ HeartbeatClears(s)
  PROVE  IInv'
<1> USE DEF IInv
<1> DEFINE h == heartbeat[s]
<1>0. /\ h \in Heartbeats /\ h.phase \in {"sent", "clear"}
      /\ row.desired \in Targets /\ h.status \in UpdateStatuses /\ h.version \in Targets
      /\ UNCHANGED <<requests, process, state, slot, ghosts>>
  BY DEF TypeOK, HeartbeatArrives, HeartbeatClears, Heartbeats
<1>1. UNCHANGED <<requests, pc, stopping, running, installed, target, state, slot, asked,
                  burnt, crossed, raced>>
  BY <1>0 DEF process, ghosts
<1>2. CASE HeartbeatArrives(s)
  <2> DEFINE n == IF row.desired = h.version THEN [h EXCEPT !.phase = "clear"]
                  ELSE Reply(h, row.desired, h.status)
  <2>1. /\ h.phase = "sent" /\ heartbeat' = [heartbeat EXCEPT ![s] = n]
        /\ row' = [row EXCEPT !.version = h.version, !.status = h.status]
    BY <1>2 DEF HeartbeatArrives
  <2>2. row'.desired = row.desired
    BY <2>1 DEF TypeOK
  <2>3. /\ n \in Heartbeats
        /\ row.desired = h.version => n.phase = "clear" /\ n.stray = h.stray
        /\ row.desired # h.version =>
             \/ n.phase = "none" /\ h.stray
             \/ /\ n.phase = "reply" /\ ~n.stray /\ ~h.stray
                /\ n.version = row.desired /\ n.status = h.status
    BY <1>0, ReplyType DEF Heartbeats
  <2> HIDE DEF n
  <2>4. /\ heartbeat' \in [Senders -> Heartbeats] /\ heartbeat'[s] = n
        /\ \A x \in Senders \ {s} : heartbeat'[x] = heartbeat[x]
    BY <2>1, <2>3, HeartbeatSet
  <2>5. row' \in [version : Versions, desired : Targets, status : UpdateStatuses]
    BY <1>0, <2>1, <2>2 DEF TypeOK, TasksSound
  <2>6. TypeOK'
    BY <1>1, <2>4, <2>5 DEF TypeOK
  <2>7. TasksSound' /\ UpdatesIdle'
    BY <1>1, <2>1, <2>3, <2>4 DEF TasksSound, UpdatesIdle, InFlight
  <2>8. RequestSafe'
    BY <1>1, <2>1, <2>2, <2>3, <2>4 DEF RequestSafe
  <2>9. FailureSafe'
    BY <1>1, <2>1, <2>2, <2>3, <2>4 DEF FailureSafe
  <2>10. QED
    BY <2>6, <2>7, <2>8, <2>9
<1>3. CASE HeartbeatClears(s)
  <2> DEFINE n == Reply(h, NoVersion, "idle")
  <2>1. /\ h.phase = "clear" /\ heartbeat' = [heartbeat EXCEPT ![s] = n]
        /\ row' = [row EXCEPT !.desired = NoVersion, !.status = "idle"]
    BY <1>3 DEF HeartbeatClears
  <2>2. row' \in [version : Versions, desired : Targets, status : UpdateStatuses]
    BY <2>1 DEF TypeOK, Targets, UpdateStatuses
  <2>3. /\ n \in Heartbeats
        /\ n.phase = "none" \/ (n.phase = "reply" /\ ~n.stray /\ ~h.stray)
    <3>1. NoVersion \in Targets /\ "idle" \in UpdateStatuses
      BY DEF Targets, UpdateStatuses
    <3>2. QED
      BY <1>0, <3>1, ReplyType
  <2> HIDE DEF n
  <2>4. /\ heartbeat' \in [Senders -> Heartbeats] /\ heartbeat'[s] = n
        /\ \A x \in Senders \ {s} : heartbeat'[x] = heartbeat[x]
    BY <2>1, <2>3, HeartbeatSet
  <2>5. TypeOK'
    BY <1>1, <2>2, <2>4 DEF TypeOK
  <2>6. TasksSound' /\ UpdatesIdle'
    BY <1>1, <2>1, <2>3, <2>4 DEF TasksSound, UpdatesIdle, InFlight
  <2>7. RequestSafe'
    BY <1>1, <2>1, <2>3, <2>4 DEF RequestSafe
  <2>8. FailureSafe'
    BY <1>1, <2>1, <2>3, <2>4 DEF FailureSafe
  <2>9. QED
    BY <2>5, <2>6, <2>7, <2>8
<1>4. QED
  BY <1>2, <1>3

(* What the worker makes of an instruction is of the type of its state, and  *)
(* an instruction of before does not undo a failure.                         *)
LEMMA InstructionType ==
  ASSUME TypeOK, NEW desired \in Targets, NEW status \in UpdateStatuses
  PROVE  /\ apply_server_instruction(desired, status) \in
              [desired : Targets, status : UpdateStatuses, failed : Targets]
         /\ (/\ desired \in Versions \ {running} /\ status # "pending"
             /\ state.desired = desired /\ state.failed = desired)
            => /\ apply_server_instruction(desired, status).desired = desired
               /\ apply_server_instruction(desired, status).failed = desired
               /\ apply_server_instruction(desired, status).status = "failed"
<1> DEFINE a == apply_server_instruction(desired, status)
<1>0. /\ NoVersion \in Targets /\ NoVersion \notin Versions
      /\ {"idle", "pending", "failed"} \subseteq UpdateStatuses
      /\ state.status \in UpdateStatuses /\ state.failed \in Targets
  BY VersionsAssumption DEF Targets, UpdateStatuses, TypeOK
<1>1. CASE desired = NoVersion \/ desired = running
  <2>1. a = [desired |-> NoVersion, failed |-> NoVersion,
             status |-> IF state.status \in InTransfer THEN state.status ELSE "idle"]
    BY <1>1 DEF apply_server_instruction
  <2>2. QED
    BY <1>0, <1>1, <2>1
<1>2. CASE ~(desired = NoVersion \/ desired = running)
  <2> DEFINE failed == IF state.desired # desired \/ status = "pending" THEN NoVersion
                       ELSE state.failed
             st == CASE failed = desired -> "failed"
                     [] failed # desired /\ state.status \in InTransfer -> state.status
                     [] OTHER -> "pending"
  <2>1. a = [desired |-> desired, failed |-> failed, status |-> st]
    BY <1>2 DEF apply_server_instruction
  <2>2. failed \in Targets /\ st \in UpdateStatuses
    BY <1>0
  <2>3. state.desired = desired /\ status # "pending" /\ state.failed = desired
        => failed = desired /\ st = "failed"
    OBVIOUS
  <2> HIDE DEF failed, st
  <2>4. QED
    BY <2>1, <2>2, <2>3
<1>3. QED
  BY <1>1, <1>2

(* The main task goes on once its heartbeat is over. *)
LEMMA AfterHeartbeatType ==
  ASSUME pc \in Waiting
  PROVE  /\ AfterHeartbeat \in Places \ {"down", "chosen"}
         /\ AfterHeartbeat \in {"chosen", "announce", "download"} => pc = "announce"
         /\ AfterHeartbeat \in Updating <=> pc \in {"announce", "report_restart"}
BY DEF AfterHeartbeat, Waiting, Places, Updating

LEMMA SyncSteps ==
  ASSUME IInv, NEW s \in Senders,
         HeartbeatReplied(s) \/ HeartbeatFails(s) \/ StrayLost(s)
  PROVE  IInv'
<1> USE DEF IInv
<1>0. heartbeat[s] \in Heartbeats
  BY DEF TypeOK
<1>1. /\ heartbeat' = [heartbeat EXCEPT ![s] = NoHeartbeat]
      /\ heartbeat[s].phase # "none"
      /\ UNCHANGED <<row, requests, stopping, running, installed, target, slot, asked,
                     burnt, crossed, raced>>
      /\ \/ pc' = pc /\ (heartbeat[s].stray \/ s # "main")
         \/ pc' = AfterHeartbeat /\ s = "main" /\ ~heartbeat[s].stray
  BY DEF HeartbeatReplied, HeartbeatFails, StrayLost, process, ghosts, Resumed
<1>2. /\ heartbeat' \in [Senders -> Heartbeats] /\ heartbeat'[s].phase = "none"
      /\ \A x \in Senders \ {s} : heartbeat'[x] = heartbeat[x]
  BY <1>1, HeartbeatSet, NoHeartbeatType
<1>3. /\ pc' \in Places /\ (pc = "down" <=> pc' = "down")
      /\ pc' \in {"announce", "download"} => pc \in {"announce", "download"}
      /\ pc' = "chosen" => pc = "chosen"
      /\ pc' \in Updating => pc \in Updating
      /\ s # "main" => pc' = pc
      /\ heartbeat[s].stray => pc' = pc
  <2>1. CASE pc' = pc
    BY <2>1 DEF TypeOK
  <2>2. CASE pc' = AfterHeartbeat /\ s = "main" /\ ~heartbeat[s].stray
    <3>1. pc \in Waiting /\ pc # "down"
      BY <1>1, <2>2 DEF TasksSound
    <3>2. QED
      BY <2>2, <3>1, AfterHeartbeatType DEF Updating
  <2>3. QED
    BY <1>1, <2>1, <2>2
<1>4. /\ state' \in [desired : Targets, status : UpdateStatuses, failed : Targets]
      /\ \/ state' = state
         \/ /\ heartbeat[s].phase = "reply"
            /\ state' = apply_server_instruction(heartbeat[s].version, heartbeat[s].status)
  <2>1. CASE HeartbeatReplied(s)
    BY <1>0, <2>1, InstructionType DEF HeartbeatReplied, Heartbeats
  <2>2. CASE HeartbeatFails(s) \/ StrayLost(s)
    BY <2>2 DEF HeartbeatFails, StrayLost, TypeOK
  <2>3. QED
    BY <2>1, <2>2
<1>5. TypeOK'
  BY <1>1, <1>2, <1>3, <1>4 DEF TypeOK
<1>6. TasksSound'
  <2>1. ASSUME NEW x \in Senders, heartbeat'[x].phase # "none", ~heartbeat'[x].stray
        PROVE  /\ pc' # "down"
               /\ heartbeat'[x].phase = "sent" => heartbeat'[x].version = running'
               /\ x = "main" => pc' \in Waiting
    <3>1. x # s /\ heartbeat'[x] = heartbeat[x]
      BY <1>2, <2>1
    <3>2. x = "main" => pc' = pc
      BY <1>3, <3>1
    <3>3. QED
      BY <1>1, <1>3, <2>1, <3>1, <3>2 DEF TasksSound
  <2>2. QED
    BY <1>1, <1>2, <1>3, <2>1 DEF TasksSound, InFlight
<1>7. UpdatesIdle'
  BY <1>1, <1>3 DEF UpdatesIdle, InFlight
<1>8. RequestSafe'
  BY <1>1, <1>2, <1>3 DEF RequestSafe
<1>9. FailureSafe'
  <2> SUFFICES ASSUME pc # "down", ~crossed, burnt # NoVersion
               PROVE  state'.desired = burnt /\ state'.failed = burnt
                      /\ state'.status = "failed"
    BY <1>1, <1>2, <1>3 DEF FailureSafe
  <2>1. /\ burnt # running /\ burnt \in Versions /\ state.desired = burnt
        /\ state.failed = burnt /\ state.status = "failed"
        /\ heartbeat[s].phase = "reply" =>
             heartbeat[s].version = burnt /\ heartbeat[s].status = "failed"
    BY DEF FailureSafe, TypeOK, Targets
  <2>2. CASE state' = state
    BY <2>1, <2>2
  <2>3. CASE /\ heartbeat[s].phase = "reply"
             /\ state' = apply_server_instruction(heartbeat[s].version, heartbeat[s].status)
    <3>1. burnt \in Targets /\ "failed" \in UpdateStatuses
      BY DEF TypeOK, UpdateStatuses
    <3>2. QED
      BY <2>1, <2>3, <3>1, InstructionType
  <2>4. QED
    BY <1>4, <2>2, <2>3
<1>10. QED
  BY <1>5, <1>6, <1>7, <1>8, <1>9

LEMMA BackgroundStep == IInv /\ BackgroundHeartbeat => IInv'
<1> SUFFICES ASSUME IInv, BackgroundHeartbeat PROVE IInv'
  OBVIOUS
<1> USE DEF IInv
<1>0. "background" \in Senders /\ "main" # "background"
  BY DEF Senders
<1>1. /\ pc # "down" /\ heartbeat' = [heartbeat EXCEPT !["background"] = snapshot(state.status)]
      /\ UNCHANGED <<row, requests, pc, stopping, running, installed, target, state, slot,
                     asked, burnt, crossed, raced>>
  BY DEF BackgroundHeartbeat, process, ghosts
<1> DEFINE h == snapshot(state.status)
<1>2. /\ h \in Heartbeats /\ h.phase = "sent" /\ h.version = running
      /\ h.status = state.status /\ ~h.stray
  BY DEF snapshot, Heartbeats, TypeOK, Targets
<1> HIDE DEF h
<1>3. /\ heartbeat' \in [Senders -> Heartbeats] /\ heartbeat'["background"] = h
      /\ \A x \in Senders \ {"background"} : heartbeat'[x] = heartbeat[x]
  BY <1>0, <1>1, <1>2, HeartbeatSet DEF h
<1>4. TypeOK'
  BY <1>1, <1>3 DEF TypeOK
<1>5. TasksSound' /\ UpdatesIdle'
  BY <1>0, <1>1, <1>2, <1>3 DEF TasksSound, UpdatesIdle, InFlight, TypeOK
<1>6. RequestSafe'
  BY <1>1, <1>2, <1>3 DEF RequestSafe
<1>7. FailureSafe'
  BY <1>1, <1>2, <1>3 DEF FailureSafe
<1>8. QED
  BY <1>4, <1>5, <1>6, <1>7

LEMMA StartStep == IInv /\ StartProcess => IInv'
<1> SUFFICES ASSUME IInv, StartProcess PROVE IInv'
  OBVIOUS
<1> USE DEF IInv
<1> DEFINE h == [phase |-> "sent", version |-> installed, status |-> "idle", stray |-> FALSE]
<1>0. "main" \in Senders
  BY DEF Senders
<1>1. /\ pc = "down" /\ pc' = "sync" /\ stopping' = FALSE /\ running' = installed
      /\ state' = NewState
      /\ asked' = IF asked = installed THEN NoVersion ELSE asked
      /\ burnt' = NoVersion /\ crossed' = FALSE
      /\ heartbeat' = [heartbeat EXCEPT !["main"] = h]
      /\ UNCHANGED <<row, requests, installed, target, slot, raced>>
  BY DEF StartProcess
<1>2. h \in Heartbeats /\ h.phase = "sent" /\ h.version = installed
  BY DEF Heartbeats, TypeOK, Targets, UpdateStatuses
<1> HIDE DEF h
<1>3. /\ heartbeat' \in [Senders -> Heartbeats] /\ heartbeat'["main"] = h
      /\ \A x \in Senders \ {"main"} : heartbeat'[x] = heartbeat[x]
  BY <1>0, <1>1, <1>2, HeartbeatSet
<1>4. TypeOK'
  <2>1. NewState \in [desired : Targets, status : UpdateStatuses, failed : Targets]
    BY DEF NewState, Targets, UpdateStatuses
  <2>2. "sync" \in Places /\ NoVersion \in Targets
    BY DEF Places, Waiting, Targets
  <2>3. QED
    BY <1>1, <1>3, <2>1, <2>2 DEF TypeOK
<1>5. TasksSound'
  <2>1. installed \in Versions /\ "sync" \in Waiting
    BY DEF TypeOK, Waiting
  <2>2. QED
    BY <1>0, <1>1, <1>2, <1>3, <2>1 DEF TasksSound
<1>6. UpdatesIdle'
  BY <1>1 DEF UpdatesIdle, Updating
<1>7. RequestSafe'
  BY <1>1, <1>2, <1>3, VersionsAssumption DEF RequestSafe, TypeOK
<1>8. FailureSafe'
  BY <1>1 DEF FailureSafe
<1>9. QED
  BY <1>4, <1>5, <1>6, <1>7, <1>8

(* The end of the process, in whatever way. *)
LEMMA EndedStep ==
  ASSUME IInv, Ended, UNCHANGED <<row, requests, running, installed, ghosts>>
  PROVE  IInv'
<1> USE DEF IInv
<1>1. /\ pc' = "down" /\ stopping' = FALSE /\ target' = NoVersion /\ state' = NewState
      /\ slot' = [s \in Slots |-> "empty"]
      /\ UNCHANGED <<row, requests, running, installed, asked, burnt, crossed, raced>>
  BY DEF Ended, ghosts
<1>2. \A s \in Senders :
        /\ heartbeat'[s] \in Heartbeats
        /\ heartbeat[s].phase \in {"none", "reply"} => heartbeat'[s].phase = "none"
        /\ heartbeat[s].phase \in {"sent", "clear"} =>
             /\ heartbeat'[s].phase = heartbeat[s].phase
             /\ heartbeat'[s].version = heartbeat[s].version
             /\ heartbeat'[s].stray
  <2> SUFFICES ASSUME NEW s \in Senders
               PROVE  /\ heartbeat'[s] \in Heartbeats
                      /\ heartbeat[s].phase \in {"none", "reply"} => heartbeat'[s].phase = "none"
                      /\ heartbeat[s].phase \in {"sent", "clear"} =>
                           /\ heartbeat'[s].phase = heartbeat[s].phase
                           /\ heartbeat'[s].version = heartbeat[s].version
                           /\ heartbeat'[s].stray
    OBVIOUS
  <2>1. heartbeat[s] \in Heartbeats
    BY DEF TypeOK
  <2>2. CASE heartbeat[s].phase \in {"none", "reply"}
    BY <2>2, NoHeartbeatType DEF Ended
  <2>3. CASE heartbeat[s].phase \notin {"none", "reply"}
    <3>1. heartbeat'[s] = [heartbeat[s] EXCEPT !.stray = TRUE]
      BY <2>3 DEF Ended
    <3>2. QED
      BY <2>1, <2>3, <3>1 DEF Heartbeats
  <2>4. QED
    BY <2>2, <2>3
<1>3. \A s \in Senders : heartbeat[s].phase \in {"none", "reply", "sent", "clear"}
  BY DEF TypeOK, Heartbeats
<1>4. TypeOK'
  <2>1. NewState \in [desired : Targets, status : UpdateStatuses, failed : Targets]
    BY DEF NewState, Targets, UpdateStatuses
  <2>2. "down" \in Places /\ NoVersion \in Targets
    BY DEF Places, Targets
  <2>3. heartbeat' \in [Senders -> Heartbeats]
    BY <1>2 DEF Ended
  <2>4. QED
    BY <1>1, <2>1, <2>2, <2>3 DEF TypeOK
<1>5. TasksSound'
  <2>1. \A s \in Senders :
          /\ heartbeat'[s].phase = "sent" => heartbeat'[s].version \in Versions
          /\ heartbeat'[s].phase # "none" => heartbeat'[s].stray
    BY <1>2, <1>3 DEF TasksSound
  <2>2. QED
    BY <1>1, <2>1 DEF TasksSound
<1>6. UpdatesIdle' /\ FailureSafe'
  BY <1>1 DEF UpdatesIdle, FailureSafe, Updating
<1>7. RequestSafe'
  BY <1>1, <1>2, <1>3 DEF RequestSafe
<1>8. QED
  BY <1>4, <1>5, <1>6, <1>7

(* A step of the update that sends a heartbeat. *)
LEMMA AnnouncingStep ==
  ASSUME IInv, NEW status \in UpdateStatuses,
         pc \in {"chosen", "download"},
         pc' \in {"announce", "report_failure", "report_restart"},
         heartbeat' = [heartbeat EXCEPT !["main"] = snapshot(status)],
         UNCHANGED <<row, requests, stopping, running, slot, asked, raced>>,
         state' \in [desired : Targets, status : UpdateStatuses, failed : Targets],
         target' \in Targets, installed' \in Versions,
         burnt' \in Targets, crossed' \in BOOLEAN,
         pc' = "announce" => target' \in Versions \ {running}
  PROVE  /\ TypeOK' /\ TasksSound' /\ RequestSafe' /\ UpdatesIdle'
         /\ heartbeat'["main"] = snapshot(status)
         /\ heartbeat'["background"] = heartbeat["background"]
         /\ Senders = {"main", "background"}
<1> USE DEF IInv
<1> DEFINE h == snapshot(status)
<1>0. "main" \in Senders /\ Senders = {"main", "background"} /\ "main" # "background"
  BY DEF Senders
<1>1. h \in Heartbeats /\ h.phase = "sent" /\ h.version = running /\ ~h.stray
  BY DEF snapshot, Heartbeats, TypeOK, Targets
<1> HIDE DEF h
<1>2. /\ heartbeat' \in [Senders -> Heartbeats] /\ heartbeat'["main"] = h
      /\ \A x \in Senders \ {"main"} : heartbeat'[x] = heartbeat[x]
  BY <1>0, <1>1, HeartbeatSet DEF h
<1>3. pc' \in Places /\ pc' \in Waiting /\ pc # "down" /\ pc' # "down"
  BY DEF Places, Waiting
<1>4. TypeOK'
  BY <1>2, <1>3 DEF TypeOK
<1>5. TasksSound'
  BY <1>0, <1>1, <1>2, <1>3 DEF TasksSound, TypeOK
<1>6. RequestSafe'
  BY <1>1, <1>2, <1>3 DEF RequestSafe
<1>7. UpdatesIdle'
  BY DEF UpdatesIdle, TasksSound, InFlight, Updating
<1>8. QED
  BY <1>0, <1>2, <1>4, <1>5, <1>6, <1>7 DEF h

LEMMA UpdateSteps ==
  ASSUME IInv, BeginUpdate \/ UpdateFails \/ UpdateInstalled
  PROVE  IInv'
<1> USE DEF IInv
<1>0. {"downloading", "failed", "restarting"} \subseteq UpdateStatuses
  BY DEF UpdateStatuses
<1>1. CASE BeginUpdate
  <2>1. /\ pc = "chosen" /\ pc' = "announce"
        /\ state' = [state EXCEPT !.desired = target, !.status = "downloading"]
        /\ heartbeat' = [heartbeat EXCEPT !["main"] = snapshot("downloading")]
        /\ UNCHANGED <<row, requests, stopping, running, installed, target, slot, asked,
                       burnt, crossed, raced>>
    BY <1>1 DEF BeginUpdate, ghosts
  <2>2. target \in Versions \ {running}
    BY <2>1 DEF TasksSound
  <2>3. state' \in [desired : Targets, status : UpdateStatuses, failed : Targets]
    BY <1>0, <2>1, <2>2 DEF TypeOK, Targets
  <2>4. target' \in Targets /\ installed' \in Versions /\ burnt' \in Targets
        /\ crossed' \in BOOLEAN
    BY <2>1, <2>2 DEF TypeOK, Targets
  <2>5. FailureSafe'
    BY <2>1, <2>2 DEF FailureSafe
  <2>6. QED
    BY <1>0, <2>1, <2>2, <2>3, <2>4, <2>5, AnnouncingStep
<1>2. CASE UpdateFails
  <2>1. /\ pc = "download" /\ pc' = "report_failure" /\ target' = NoVersion
        /\ state' = [desired |-> target, status |-> "failed", failed |-> target]
        /\ heartbeat' = [heartbeat EXCEPT !["main"] = snapshot("failed")]
        /\ burnt' = IF row.desired = target THEN target ELSE NoVersion
        /\ crossed' = (heartbeat["background"].phase # "none")
        /\ UNCHANGED <<row, requests, stopping, running, installed, slot, asked, raced>>
    BY <1>2 DEF UpdateFails
  <2>2. target \in Versions \ {running} /\ target \in Targets /\ NoVersion \in Targets
    BY <2>1 DEF TasksSound, Targets
  <2>3. state' \in [desired : Targets, status : UpdateStatuses, failed : Targets]
    BY <1>0, <2>1, <2>2
  <2>4. target' \in Targets /\ installed' \in Versions /\ burnt' \in Targets
        /\ crossed' \in BOOLEAN
    BY <2>1, <2>2 DEF TypeOK
  <2>5. /\ TypeOK' /\ TasksSound' /\ RequestSafe' /\ UpdatesIdle'
        /\ heartbeat'["main"] = snapshot("failed")
        /\ heartbeat'["background"] = heartbeat["background"]
        /\ Senders = {"main", "background"}
    BY <1>0, <2>1, <2>2, <2>3, <2>4, AnnouncingStep
  <2>6. FailureSafe'
    <3> SUFFICES ASSUME crossed' = FALSE, burnt' # NoVersion
                 PROVE  FailureSafe'
      BY <2>4 DEF FailureSafe
    <3>1. heartbeat["background"].phase = "none" /\ burnt' = target /\ row.desired = target
      BY <2>1
    <3>2. /\ heartbeat'["main"].phase = "sent" /\ heartbeat'["main"].version = running
          /\ heartbeat'["main"].status = "failed"
      BY <2>5 DEF snapshot
    <3>3. QED
      BY <2>1, <2>2, <2>5, <3>1, <3>2 DEF FailureSafe
  <2>7. QED
    BY <2>5, <2>6
<1>3. CASE UpdateInstalled
  <2>1. /\ pc = "download" /\ pc' = "report_restart" /\ target' = NoVersion
        /\ installed' = target
        /\ state' = [state EXCEPT !.desired = target, !.status = "restarting"]
        /\ heartbeat' = [heartbeat EXCEPT !["main"] = snapshot("restarting")]
        /\ UNCHANGED <<row, requests, stopping, running, slot, asked, burnt, crossed, raced>>
    BY <1>3 DEF UpdateInstalled, ghosts
  <2>2. target \in Versions \ {running} /\ target \in Targets /\ NoVersion \in Targets
    BY <2>1 DEF TasksSound, Targets
  <2>3. state' \in [desired : Targets, status : UpdateStatuses, failed : Targets]
    BY <1>0, <2>1, <2>2 DEF TypeOK
  <2>4. target' \in Targets /\ installed' \in Versions /\ burnt' \in Targets
        /\ crossed' \in BOOLEAN
    BY <2>1, <2>2 DEF TypeOK
  <2>5. FailureSafe'
    BY <2>1 DEF FailureSafe
  <2>6. QED
    BY <1>0, <2>1, <2>2, <2>3, <2>4, <2>5, AnnouncingStep
<1>4. QED
  BY <1>1, <1>2, <1>3

(* A step of the loop or of a job that touches no more than the place of the *)
(* main task, the signal and the in-flight set.                              *)
LEMMA LoopStep ==
  ASSUME IInv,
         UNCHANGED <<row, requests, running, installed, state, target, heartbeat, ghosts>>,
         stopping' \in BOOLEAN, slot' \in [Slots -> {"empty", "working", "finished"}],
         \/ pc' = pc
         \/ /\ pc \notin Waiting \cup {"down"}
            /\ pc' \in {"top", "claim", "claiming", "wait"},
         pc' \in Updating \cup {"chosen"} => InFlight' = {}
  PROVE  IInv'
<1> USE DEF IInv
<1>1. UNCHANGED <<asked, burnt, crossed, raced>>
  BY DEF ghosts
<1>2. pc' \in Places /\ (pc = "down" <=> pc' = "down")
      /\ (pc' \in {"chosen", "announce", "download"} => pc' = pc)
      /\ (pc \in Waiting => pc' = pc)
  BY DEF Places, TypeOK
<1>3. TypeOK'
  BY <1>1, <1>2 DEF TypeOK
<1>4. TasksSound' /\ UpdatesIdle'
  BY <1>1, <1>2 DEF TasksSound, UpdatesIdle
<1>5. RequestSafe' /\ FailureSafe'
  BY <1>1, <1>2 DEF RequestSafe, FailureSafe
<1>6. QED
  BY <1>3, <1>4, <1>5

LEMMA LoopSteps ==
  ASSUME IInv,
         \/ NoUpdate \/ RestartFails \/ BeginClaim \/ ClaimFull
         \/ (\E S \in SUBSET Slots : Claimed(S)) \/ ClaimEmpty
         \/ (\E s \in Slots : Joined(s) \/ JobEnds(s)) \/ ShutdownSignal
  PROVE  IInv'
<1> USE DEF IInv
<1>1. CASE NoUpdate \/ RestartFails \/ BeginClaim \/ ClaimFull \/ ClaimEmpty
  <2>1. /\ UNCHANGED <<row, requests, running, installed, state, target, heartbeat, ghosts,
                       stopping, slot>>
        /\ pc \in {"top", "restart", "claim", "claiming"}
        /\ pc' \in {"top", "claim", "claiming", "wait"}
    BY <1>1 DEF NoUpdate, RestartFails, BeginClaim, ClaimFull, ClaimEmpty
  <2>2. stopping' \in BOOLEAN /\ slot' \in [Slots -> {"empty", "working", "finished"}]
    BY <2>1 DEF TypeOK
  <2>3. pc \notin Waiting \cup {"down"} /\ pc' \notin Updating \cup {"chosen"}
    BY <2>1 DEF Waiting, Updating
  <2>4. QED
    BY <2>1, <2>2, <2>3, LoopStep
<1>2. ASSUME NEW S \in SUBSET Slots, Claimed(S) PROVE IInv'
  <2>1. /\ UNCHANGED <<row, requests, running, installed, state, target, heartbeat, ghosts,
                       stopping>>
        /\ pc = "claiming" /\ pc' = "claim"
        /\ slot' = [s \in Slots |-> IF s \in S THEN "working" ELSE slot[s]]
    BY <1>2 DEF Claimed
  <2>2. stopping' \in BOOLEAN /\ slot' \in [Slots -> {"empty", "working", "finished"}]
    BY <2>1 DEF TypeOK
  <2>3. pc \notin Waiting \cup {"down"} /\ pc' \notin Updating \cup {"chosen"}
    BY <2>1 DEF Waiting, Updating
  <2>4. QED
    BY <2>1, <2>2, <2>3, LoopStep
<1>3. ASSUME NEW s \in Slots, Joined(s) PROVE IInv'
  <2>1. /\ UNCHANGED <<row, requests, running, installed, state, target, heartbeat, ghosts,
                       stopping>>
        /\ pc = "wait" /\ pc' = "top" /\ slot' = [slot EXCEPT ![s] = "empty"]
    BY <1>3 DEF Joined
  <2>2. stopping' \in BOOLEAN /\ slot' \in [Slots -> {"empty", "working", "finished"}]
    BY <2>1 DEF TypeOK
  <2>3. pc \notin Waiting \cup {"down"} /\ pc' \notin Updating \cup {"chosen"}
    BY <2>1 DEF Waiting, Updating
  <2>4. QED
    BY <2>1, <2>2, <2>3, LoopStep
<1>4. ASSUME NEW s \in Slots, JobEnds(s) PROVE IInv'
  <2>1. /\ UNCHANGED <<row, requests, running, installed, state, target, heartbeat, ghosts,
                       stopping, pc>>
        /\ slot[s] = "working" /\ slot' = [slot EXCEPT ![s] = "finished"]
    BY <1>4 DEF JobEnds, process
  <2>2. /\ stopping' \in BOOLEAN /\ slot' \in [Slots -> {"empty", "working", "finished"}]
        /\ \A x \in Slots : slot'[x] # "empty" => slot[x] # "empty"
    BY <2>1 DEF TypeOK
  <2>3. pc' \in Updating \cup {"chosen"} => InFlight' = {}
    BY <2>1, <2>2 DEF UpdatesIdle, TasksSound, InFlight
  <2>4. QED
    BY <2>1, <2>2, <2>3, LoopStep
<1>5. CASE ShutdownSignal
  <2>1. /\ UNCHANGED <<row, requests, running, installed, state, target, heartbeat, ghosts,
                       slot, pc>>
        /\ stopping' = TRUE
    BY <1>5 DEF ShutdownSignal
  <2>2. stopping' \in BOOLEAN /\ slot' \in [Slots -> {"empty", "working", "finished"}]
    BY <2>1 DEF TypeOK
  <2>3. pc' \in Updating \cup {"chosen"} => InFlight' = {}
    BY <2>1 DEF UpdatesIdle, TasksSound, InFlight
  <2>4. QED
    BY <2>1, <2>2, <2>3, LoopStep
<1>6. QED
  BY <1>1, <1>2, <1>3, <1>4, <1>5

(* The loop chooses a version to update to. *)
LEMMA ChooseStep == IInv /\ ChooseUpdate => IInv'
<1> SUFFICES ASSUME IInv, ChooseUpdate PROVE IInv'
  OBVIOUS
<1> USE DEF IInv
<1>1. /\ pc = "top" /\ pc' = "chosen" /\ InFlight = {}
      /\ target' = pending_target /\ pending_target # NoVersion
      /\ UNCHANGED <<row, requests, stopping, running, installed, state, heartbeat, slot,
                     asked, burnt, crossed, raced>>
  BY DEF ChooseUpdate, ghosts
<1>2. pending_target \in Versions \ {running} /\ state.status = "pending"
  BY <1>1 DEF pending_target
<1>3. "chosen" \in Places /\ "chosen" \notin Updating /\ pc \notin Waiting
  BY <1>1 DEF Places, Updating, Waiting
<1>4. TypeOK'
  BY <1>1, <1>2, <1>3 DEF TypeOK, Targets
<1>5. TasksSound' /\ UpdatesIdle'
  BY <1>1, <1>2, <1>3 DEF TasksSound, UpdatesIdle, InFlight
<1>6. RequestSafe' /\ FailureSafe'
  BY <1>1, <1>2 DEF RequestSafe, FailureSafe
<1>7. QED
  BY <1>4, <1>5, <1>6

LEMMA InvStutter == IInv /\ UNCHANGED vars => IInv'
<1> SUFFICES ASSUME IInv, UNCHANGED vars PROVE IInv'
  OBVIOUS
<1>1. UNCHANGED <<row, requests, pc, stopping, running, installed, state, target, heartbeat,
                  slot, asked, burnt, crossed, raced>>
  BY DEF vars
<1>2. QED
  BY <1>1 DEF IInv, TypeOK, TasksSound, RequestSafe, FailureSafe, UpdatesIdle, InFlight

LEMMA InvNext == IInv /\ [Next]_vars => IInv'
<1> SUFFICES ASSUME IInv, [Next]_vars PROVE IInv'
  OBVIOUS
<1>1. ASSUME NEW v \in Versions, RequestVersion(v) PROVE IInv'
  BY <1>1, RequestStep
<1>2. ASSUME NEW s \in Senders, Sync(s) PROVE IInv'
  BY <1>2, ControlSteps, SyncSteps DEF Sync
<1>3. CASE \/ \E s \in Slots : JobEnds(s)
           \/ ShutdownSignal
  BY <1>3, LoopSteps
<1>4. CASE Crash
  BY <1>4, EndedStep DEF Crash
<1>5. CASE Main
  <2>1. CASE Restart \/ ClaimFails \/ Exit \/ \E s \in Slots : JoinFails(s)
    BY <2>1, EndedStep DEF Restart, ClaimFails, Exit, JoinFails
  <2>2. CASE ChooseUpdate \/ BeginUpdate \/ UpdateFails \/ UpdateInstalled
    BY <2>2, ChooseStep, UpdateSteps
  <2>3. CASE \/ NoUpdate \/ RestartFails \/ BeginClaim \/ ClaimFull
             \/ (\E S \in SUBSET Slots : Claimed(S)) \/ ClaimEmpty
             \/ \E s \in Slots : Joined(s)
    BY <2>3, LoopSteps
  <2>4. QED
    BY <1>5, <2>1, <2>2, <2>3 DEF Main
<1>6. QED
  BY <1>1, <1>2, <1>3, <1>4, <1>5, BackgroundStep, StartStep, InvStutter DEF Next

LEMMA Invariant == Spec => []IInv
BY InvInit, InvNext, PTL DEF Spec

-----------------------------------------------------------------------------
(* Type correctness (CrawlerRuntimeState, worker.rs, and the row's metadata  *)
(* keep their types whatever heartbeats cross).                              *)
THEOREM TypeCorrect == Spec => []TypeOK
BY Invariant, PTL DEF IInv

(* However many places the in-flight set has and whatever ends in it, the    *)
(* binary is replaced only while no claimed job is in flight                 *)
(* (run_worker, worker.rs:287-312).                                          *)
THEOREM UpdatesIdleAlways == Spec => []UpdatesIdle
BY Invariant, PTL DEF IInv

(* No heartbeat, of this process or of one that has ended, takes the version *)
(* an operator asked for out of the row before it runs, the two stated races *)
(* apart (heartbeat_crawler, crawler.rs:2630-2651).                          *)
THEOREM RequestKeptAlways == Spec => []RequestKept
<1>1. IInv => RequestKept
  BY DEF IInv, RequestSafe, RequestKept
<1>2. QED
  BY <1>1, Invariant, PTL

(* A process does not download the version again whose update failed         *)
(* (apply_server_instruction, worker.rs:123-133), for every number of        *)
(* requests and versions.                                                    *)
THEOREM FailureHeldAlways == Spec => []FailureHeld
<1>1. IInv => FailureHeld
  BY DEF IInv, FailureSafe, FailureHeld
<1>2. QED
  BY <1>1, Invariant, PTL
==============================================================================
