---------------------------- MODULE FrontierProofs ----------------------------
(* Theorems about Frontier, for every value of its constants. *)
EXTENDS Frontier, FiniteSetTheorems, WellFoundedInduction, TLAPS

-----------------------------------------------------------------------------
(* Type correctness. *)

\* The calls other than Idle.
Busy == Reads \cup Inserts \cup Ends

LEMMA BusyCall ==
  ASSUME TypeOK, NEW p \in Callers, call[p].step # "idle"
  PROVE  call[p] \in Busy
BY DEF TypeOK, Calls, Busy, Idle

\* The step of a call tells what it is doing.
LEMMA CallKinds ==
  ASSUME TypeOK, NEW p \in Callers
  PROVE  /\ call[p].step = "read" => call[p] \in Reads
         /\ call[p].step \in {"count", "insert", "revisited", "origin"} =>
              call[p] \in Inserts
         /\ call[p].step \in {"finish", "drop"} => call[p].page \in Urls
BY DEF TypeOK, Calls, Idle, Reads, Inserts, Ends

LEMMA FiniteUrls ==
  ASSUME NEW U \in SUBSET Urls
  PROVE  IsFiniteSet(U) /\ Cardinality(U) \in Nat
BY BoundsAssumption, FS_Subset, FS_CardinalityType

\* What a step does to the call of p, whatever else it does.
LEMMA CallType ==
  ASSUME TypeOK, NEW p \in Callers, NEW c \in Calls, Call(p, c)
  PROVE  call' \in [Callers -> Calls]
BY DEF TypeOK, Call

LEMMA NewCallType ==
  ASSUME NEW page \in Urls \cup {NoUrl},
         NEW b \in Crawls, NEW pages \in Nat \ {0}, NEW limit \in Nat \ {0},
         NEW depth \in Depths, NEW todo \in SUBSET Urls, NEW revisit \in BOOLEAN
  PROVE  NewCall(page, b, pages, limit, depth, todo, revisit) \in Inserts
BY DEF NewCall, Inserts

LEMMA InsertsCalls == Inserts \subseteq Calls /\ Ends \subseteq Calls /\ Reads \subseteq Calls
BY DEF Calls

LEMMA EnqueuedType ==
  ASSUME TypeOK, NEW p \in Callers, call[p] \in Inserts, Enqueued(p)
  PROVE  call' \in [Callers -> Calls]
<1>1. (IF call[p].page = NoUrl THEN Idle ELSE End("finish", call[p].page)) \in Calls
  BY DEF Inserts, Calls, End, Ends
<1>2. QED
  BY <1>1, CallType DEF Enqueued

LEMMA TypeInit == Init => TypeOK
<1> SUFFICES ASSUME Init PROVE TypeOK
  OBVIOUS
<1>1. DOMAIN row = {u \in Urls : status[u] # "none"} /\ DOMAIN row = {}
  BY DEF Init
<1>2. call \in [Callers -> Calls]
  BY DEF Init, Calls
<1>3. inserts \in 0 .. MaxInserts /\ requeues \in 0 .. MaxRequeues
  BY BoundsAssumption DEF Init
<1>4. QED
  BY <1>1, <1>2, <1>3 DEF Init, TypeOK, Statuses

\* What the origins count.
LEMMA LessType == ASSUME NEW n \in Nat PROVE Less(n) \in Nat
BY DEF Less

LEMMA TypeCall ==
  ASSUME TypeOK, NEW p \in Callers, CallStep(p)
  PROVE  TypeOK'
<1> USE DEF jobVars, originVars, claimVars
<1>1. ASSUME NEW b \in Crawls, StartCrawl(p, b) PROVE TypeOK'
  <2>1. PICK r \in BOOLEAN :
          Call(p, NewCall(NoUrl, b, MaxPages[b], Limit[b], 0, {SeedOf[b]}, r))
    BY <1>1 DEF StartCrawl
  <2>2. call' \in [Callers -> Calls]
    <3>1. 0 \in Depths /\ {SeedOf[b]} \in SUBSET Urls
      BY CrawlsAssumption DEF Depths
    <3>2. NewCall(NoUrl, b, MaxPages[b], Limit[b], 0, {SeedOf[b]}, r) \in Calls
      BY <3>1, CrawlsAssumption, NewCallType, InsertsCalls
    <3>3. QED
      BY <2>1, <3>2, CallType
  <2>3. QED
    BY <1>1, <2>2 DEF StartCrawl, TypeOK
<1>2. ASSUME NEW u \in Urls, Recrawl(p, u) PROVE TypeOK'
  <2>1. call' \in [Callers -> Calls]
    <3>1. 0 \in Depths /\ row[u].crawl \in Crawls
      BY <1>2, CrawlsAssumption DEF Recrawl, TypeOK, Rows, Depths
    <3>2. {u} \in SUBSET Urls /\ 1 \in Nat \ {0} /\ TRUE \in BOOLEAN
      OBVIOUS
    <3>3. NewCall(NoUrl, row[u].crawl, 1, 1, 0, {u}, TRUE) \in Calls
      BY <3>1, <3>2, NewCallType, InsertsCalls
    <3>4. QED
      BY <1>2, <3>3, CallType DEF Recrawl
  <2>2. QED
    BY <1>2, <2>1 DEF Recrawl, TypeOK
<1>3. CASE CountBudget(p)
  <2>1. call[p] \in Inserts
    BY <1>3, CallKinds DEF CountBudget
  <2>2. Cardinality(PagesOf(call[p].crawl)) \in Nat
    BY FiniteUrls DEF PagesOf, Known
  <2>3. PICK n \in Nat : \/ Enqueued(p)
                         \/ Call(p, [call[p] EXCEPT !.step = "insert", !.used = n])
    BY <1>3, <2>2 DEF CountBudget
  <2>4. [call[p] EXCEPT !.step = "insert", !.used = n] \in Calls
    BY <2>1 DEF Inserts, Calls
  <2>5. call' \in [Callers -> Calls]
    BY <2>1, <2>3, <2>4, CallType, EnqueuedType
  <2>6. QED
    BY <1>3, <2>5 DEF CountBudget, TypeOK
<1>4. ASSUME NEW u \in Urls, DeleteRevisited(p, u) PROVE TypeOK'
  <2>1. call[p] \in Inserts
    BY <1>4, CallKinds DEF DeleteRevisited, NextUrl
  <2>2. [call[p] EXCEPT !.step = "revisited", !.last = u] \in Calls
    BY <2>1 DEF Inserts, Calls
  <2>3. call' \in [Callers -> Calls]
    BY <1>4, <2>2, CallType DEF DeleteRevisited
  <2>4. QED
    BY <1>4, <2>3 DEF DeleteRevisited, Remove, TypeOK, Known, Statuses
<1>5. ASSUME NEW u \in Urls, InsertJob(p, u) PROVE TypeOK'
  <2>1. call[p] \in Inserts
    BY <1>5, CallKinds DEF InsertJob, NextUrl
  <2>2. CASE status[u] = "none"
    <3>1. [call[p] EXCEPT !.step = "origin", !.todo = @ \ {u}, !.last = u] \in Calls
      BY <2>1 DEF Inserts, Calls
    <3>2. call' \in [Callers -> Calls]
      BY <1>5, <2>2, <3>1, CallType DEF InsertJob
    <3>3. inserts' = inserts + 1 /\ inserts' \in 1 .. MaxInserts
      BY <1>5, <2>2, BoundsAssumption DEF InsertJob, TypeOK
    <3>4. [crawl |-> call[p].crawl, pages |-> call[p].pages,
           limit |-> call[p].limit, depth |-> call[p].depth,
           born |-> inserts + 1, js |-> FALSE] \in Rows
      BY <2>1, <3>3 DEF Inserts, Rows
    <3>5. DOMAIN row' = {v \in Urls : status'[v] # "none"}
      BY <1>5, <2>2 DEF InsertJob, TypeOK, Known
    <3>6. \A v \in DOMAIN row' : row'[v] \in Rows
      <4>1. ASSUME NEW v \in Known \cup {u} PROVE row'[v] \in Rows
        BY <1>5, <2>2, <3>4, <4>1 DEF InsertJob, TypeOK, Known
      <4>2. DOMAIN row' = Known \cup {u}
        BY <1>5, <2>2 DEF InsertJob
      <4>3. QED
        BY <4>1, <4>2
    <3>7. QED
      BY <1>5, <2>2, <3>2, <3>3, <3>5, <3>6 DEF InsertJob, TypeOK, Statuses
  <2>3. CASE status[u] # "none"
    <3>1. [call[p] EXCEPT !.step = "insert", !.todo = @ \ {u}, !.last = NoUrl] \in Calls
      BY <2>1 DEF Inserts, Calls
    <3>2. call' \in [Callers -> Calls]
      BY <1>5, <2>3, <3>1, CallType DEF InsertJob
    <3>3. QED
      BY <1>5, <2>3, <3>2 DEF InsertJob, TypeOK
  <2>4. QED
    BY <2>2, <2>3
<1>6. CASE InsertOrigin(p)
  <2>1. call[p] \in Inserts
    BY <1>6, CallKinds DEF InsertOrigin
  <2>2. [call[p] EXCEPT !.step = "insert", !.last = NoUrl, !.used = @ + 1] \in Calls
    <3>1. call[p].used + 1 \in Nat
      BY <2>1 DEF Inserts
    <3>2. QED
      BY <2>1, <3>1 DEF Inserts, Calls
  <2>3. call' \in [Callers -> Calls]
    BY <1>6, <2>2, CallType DEF InsertOrigin
  <2>4. QED
    BY <1>6, <2>3 DEF InsertOrigin, TypeOK
<1>7. CASE EndInserts(p)
  <2>1. call' \in [Callers -> Calls]
    BY <1>7, CallKinds, EnqueuedType DEF EndInserts
  <2>2. QED
    BY <1>7, <2>1 DEF EndInserts, TypeOK
<1>8. CASE Crash(p)
  <2> DEFINE c == End("dead", IF call[p].step = "read" THEN NoUrl ELSE call[p].page)
  <2>1. call[p] \in Busy
    BY <1>8 DEF Crash, TypeOK, Calls, Busy
  <2>2. c \in Calls
    BY <2>1 DEF End, Ends, Calls, Busy, Reads, Inserts
  <2>3. Call(p, c)
    BY <1>8 DEF Crash
  <2> HIDE DEF c
  <2>4. call' \in [Callers -> Calls]
    BY <2>2, <2>3, CallType
  <2>5. QED
    BY <1>8, <2>4 DEF Crash, TypeOK
<1>9. ASSUME Call(p, Idle) PROVE call' \in [Callers -> Calls]
  BY <1>9, CallType DEF Calls
<1>10. CASE UpdateOrigin(p)
  <2>1. call' \in [Callers -> Calls]
    BY <1>9, <1>10 DEF UpdateOrigin
  <2>2. inFlight' \in [Origins -> Nat]
    BY <1>10, LessType DEF UpdateOrigin, TypeOK
  <2>3. origin' \in [Origins -> {"absent", "ready", "resting"}]
    BY <1>10 DEF UpdateOrigin, TypeOK
  <2>4. QED
    BY <1>10, <2>1, <2>2, <2>3 DEF UpdateOrigin, TypeOK
<1>11. CASE DropInFlight(p)
  <2>1. call' \in [Callers -> Calls]
    BY <1>9, <1>11 DEF DropInFlight
  <2>2. inFlight' \in [Origins -> Nat]
    BY <1>11, LessType DEF DropInFlight, TypeOK
  <2>3. QED
    BY <1>11, <2>1, <2>2 DEF DropInFlight, TypeOK
<1>12. QED
  BY <1>1, <1>2, <1>3, <1>4, <1>5, <1>6, <1>7, <1>8, <1>10, <1>11 DEF CallStep

LEMMA RowType ==
  ASSUME TypeOK, NEW u \in Urls, status[u] # "none"
  PROVE  /\ u \in DOMAIN row
         /\ row[u] \in Rows
         /\ row[u].crawl \in Crawls
         /\ row[u].pages \in Nat \ {0}
         /\ row[u].limit \in Nat \ {0}
         /\ row[u].depth \in 0 .. MaxDepth
         /\ row[u].born \in 1 .. MaxInserts
BY DEF TypeOK, Rows, Depths

\* The type after a step that moves a known page to another status than "none".
LEMMA TypeMove ==
  ASSUME TypeOK, NEW u \in Urls, status[u] # "none", NEW s \in Statuses \ {"none"},
         status' = [status EXCEPT ![u] = s], UNCHANGED row
  PROVE  /\ status' \in [Urls -> Statuses]
         /\ DOMAIN row' = {v \in Urls : status'[v] # "none"}
         /\ \A v \in DOMAIN row' : row'[v] \in Rows
BY DEF TypeOK

\* The write of an outcome leaves the rows where they are.
LEMMA WriteType ==
  ASSUME TypeOK, NEW p \in Callers, NEW s \in Statuses \ {"none"}, NEW c \in Calls,
         WriteOutcome(p, s, c)
  PROVE  /\ call[p] \in Reads
         /\ call' \in [Callers -> Calls]
         /\ overtaken' \subseteq Origins
         /\ status' \in [Urls -> Statuses]
         /\ {v \in Urls : status'[v] # "none"} = Known
         /\ UNCHANGED <<inserts, originVars, picked, stopping, started>>
<1>1. call[p] \in Reads /\ call[p].page \in Urls
  BY CallKinds DEF WriteOutcome, Reads
<1>2. overtaken' \subseteq Origins
  BY <1>1, GraphAssumption DEF WriteOutcome, TypeOK
<1>3. /\ status' \in [Urls -> Statuses]
      /\ {v \in Urls : status'[v] # "none"} = Known
  BY <1>1 DEF WriteOutcome, StillThere, Known, TypeOK
<1>4. QED
  BY <1>1, <1>2, <1>3, CallType DEF WriteOutcome

LEMMA FinishType ==
  ASSUME NEW p \in Callers, call[p] \in Reads
  PROVE  Finish(p) \in Ends
BY DEF Finish, End, Ends, Reads

LEMMA FollowType ==
  ASSUME NEW p \in Callers, call[p] \in Reads, call[p].depth < MaxDepth
  PROVE  NewCall(call[p].page, call[p].crawl, call[p].pages, call[p].limit,
                 call[p].depth + 1, Links[call[p].page], FALSE) \in Inserts
<1>1. call[p].depth + 1 \in Depths /\ Links[call[p].page] \in SUBSET Urls
  BY CrawlsAssumption, GraphAssumption DEF Depths, Reads
<1>2. QED
  BY <1>1, NewCallType DEF Reads

LEMMA TypeProjector ==
  ASSUME TypeOK, NEW p \in Callers, ProjectorStep(p)
  PROVE  TypeOK'
<1> USE DEF originVars, claimVars, jobVars
<1>0. {"done", "failed", "blocked", "backoff", "queued"} \subseteq Statuses \ {"none"}
  BY DEF Statuses, Over
<1>1. ASSUME NEW u \in Urls, ReadJob(p, u) PROVE TypeOK'
  <2> DEFINE c == [step |-> "read", page |-> u, job |-> row[u].born,
                   crawl |-> row[u].crawl, pages |-> row[u].pages,
                   limit |-> row[u].limit, depth |-> row[u].depth]
  <2>1. c \in Calls
    BY <1>1, RowType DEF ReadJob, Reads, Calls, Depths
  <2>2. Call(p, c)
    BY <1>1 DEF ReadJob
  <2> HIDE DEF c
  <2>3. call' \in [Callers -> Calls]
    BY <2>1, <2>2, CallType
  <2>4. QED
    BY <1>1, <2>3 DEF ReadJob, TypeOK
<1>2. ASSUME NEW u \in Urls, ProjectionFailed(p, u) PROVE TypeOK'
  <2>1. End("drop", u) \in Calls
    BY DEF End, Ends, Calls
  <2>2. call' \in [Callers -> Calls]
    BY <1>2, <2>1, CallType DEF ProjectionFailed
  <2>3. status[u] # "none" /\ status' = [status EXCEPT ![u] = "failed"]
    BY <1>2 DEF ProjectionFailed
  <2>4. QED
    BY <1>0, <1>2, <2>2, <2>3, TypeMove DEF ProjectionFailed, TypeOK
<1>3. ASSUME NEW s \in Statuses \ {"none"}, NEW c \in Calls, WriteOutcome(p, s, c),
             row' = row, requeues' \in 0 .. MaxRequeues
      PROVE  TypeOK'
  BY <1>3, WriteType DEF Known, TypeOK
<1>4. CASE call[p] \in Reads /\ ApplyPage(p)
  <2> DEFINE f == NewCall(call[p].page, call[p].crawl, call[p].pages, call[p].limit,
                          call[p].depth + 1, Links[call[p].page], FALSE)
             c == IF call[p].depth < MaxDepth THEN f ELSE Finish(p)
  <2>1. c \in Calls
    BY <1>4, FollowType, FinishType, InsertsCalls
  <2>2. WriteOutcome(p, "done", c) /\ row' = row /\ requeues' = requeues
    BY <1>4 DEF ApplyPage
  <2> HIDE DEF c
  <2>3. requeues' \in 0 .. MaxRequeues
    BY <2>2 DEF TypeOK
  <2>4. QED
    BY <1>0, <1>3, <2>1, <2>2, <2>3
<1>5. CASE call[p] \in Reads /\ (ApplyFailed(p) \/ ApplyBlocked(p))
  BY <1>0, <1>3, <1>5, FinishType, InsertsCalls DEF ApplyFailed, ApplyBlocked, TypeOK
<1>6. ASSUME requeues < MaxRequeues, requeues' = requeues + 1
      PROVE  requeues' \in 0 .. MaxRequeues
  BY <1>6, BoundsAssumption DEF TypeOK
<1>7. CASE call[p] \in Reads /\ ApplyRetryable(p)
  BY <1>0, <1>3, <1>6, <1>7, FinishType, InsertsCalls DEF ApplyRetryable
<1>8. CASE call[p] \in Reads /\ ApplyRequiresJs(p)
  <2>1. WriteOutcome(p, "queued", Finish(p)) /\ Finish(p) \in Calls
    BY <1>8, FinishType, InsertsCalls DEF ApplyRequiresJs
  <2>2. /\ call' \in [Callers -> Calls]
        /\ overtaken' \subseteq Origins
        /\ status' \in [Urls -> Statuses]
        /\ {v \in Urls : status'[v] # "none"} = Known
        /\ UNCHANGED <<inserts, originVars, picked, stopping, started>>
    BY <1>0, <2>1, WriteType
  <2>3. DOMAIN row' = Known
    BY <1>8 DEF ApplyRequiresJs
  <2>4. ASSUME NEW v \in Known PROVE row'[v] \in Rows
    <3>1. row[v] \in Rows
      BY DEF TypeOK, Known
    <3>2. [row[v] EXCEPT !.js = TRUE] \in Rows
      BY <3>1 DEF Rows
    <3>3. row'[v] = row[v] \/ row'[v] = [row[v] EXCEPT !.js = TRUE]
      BY <1>8 DEF ApplyRequiresJs
    <3>4. QED
      BY <3>1, <3>2, <3>3
  <2>5. requeues' \in 0 .. MaxRequeues
    BY <1>6, <1>8 DEF ApplyRequiresJs
  <2>6. QED
    BY <2>2, <2>3, <2>4, <2>5 DEF TypeOK
<1>9. CASE GiveUp(p)
  <2>1. call' \in [Callers -> Calls]
    BY <1>9, CallType DEF GiveUp, Calls
  <2>2. QED
    BY <1>9, <2>1 DEF GiveUp, TypeOK
<1>10. Outcome(p) => call[p] \in Reads
  BY CallKinds DEF Outcome, ApplyPage, ApplyFailed, ApplyBlocked, ApplyRetryable,
                   ApplyRequiresJs, GiveUp, WriteOutcome
<1>11. QED
  BY <1>1, <1>2, <1>4, <1>5, <1>7, <1>8, <1>9, <1>10 DEF ProjectorStep, Outcome

LEMMA RemoveType ==
  ASSUME TypeOK, NEW U \in SUBSET Urls, Remove(U)
  PROVE  /\ status' \in [Urls -> Statuses]
         /\ DOMAIN row' = {v \in Urls : status'[v] # "none"}
         /\ \A v \in DOMAIN row' : row'[v] \in Rows
         /\ UNCHANGED <<inserts, requeues>>
BY DEF TypeOK, Remove, Known, Statuses

LEMMA TypeTime == TypeOK /\ TimeStep => TypeOK'
<1> SUFFICES ASSUME TypeOK, TimeStep PROVE TypeOK'
  OBVIOUS
<1> USE DEF jobVars, originVars, claimVars
<1>1. ASSUME NEW u \in Urls, Release(u) PROVE TypeOK'
  <2>1. /\ status' \in [Urls -> Statuses]
        /\ {v \in Urls : status'[v] # "none"} = {v \in Urls : status[v] # "none"}
    BY <1>1 DEF Release, NextAttempt, TypeOK, Statuses, Over
  <2>2. requeues' \in 0 .. MaxRequeues
    BY <1>1, BoundsAssumption DEF Release, NextAttempt, TypeOK
  <2>3. inFlight' \in [Origins -> Nat]
    BY <1>1, LessType DEF Release, TypeOK
  <2>4. QED
    BY <1>1, <2>1, <2>2, <2>3 DEF Release, NextAttempt, TypeOK
<1>2. ASSUME NEW u \in Urls, RetryDue(u) PROVE TypeOK'
  <2>1. "queued" \in Statuses \ {"none"}
    BY DEF Statuses
  <2>2. QED
    BY <1>2, <2>1, TypeMove DEF RetryDue, TypeOK
<1>3. ASSUME NEW o \in Origins, OriginRested(o) PROVE TypeOK'
  BY <1>3 DEF OriginRested, TypeOK
<1>4. QED
  BY <1>1, <1>2, <1>3 DEF TimeStep

LEMMA TypeOperator == TypeOK /\ OperatorStep => TypeOK'
<1> SUFFICES ASSUME TypeOK, OperatorStep PROVE TypeOK'
  OBVIOUS
<1> USE DEF jobVars, originVars
<1>1. CASE RetryFailed
  <2>1. /\ status' \in [Urls -> Statuses]
        /\ {v \in Urls : status'[v] # "none"} = {v \in Urls : status[v] # "none"}
    BY <1>1 DEF RetryFailed, TypeOK, Statuses, Over
  <2>2. requeues' \in 0 .. MaxRequeues
    BY <1>1, BoundsAssumption DEF RetryFailed, TypeOK
  <2>3. QED
    BY <1>1, <2>1, <2>2 DEF RetryFailed, claimVars, TypeOK
<1>2. ASSUME NEW U \in SUBSET Urls, RemoveJobs(U), stopping' \in BOOLEAN,
             overtaken' \subseteq Origins
      PROVE  TypeOK'
  BY <1>2, RemoveType DEF RemoveJobs, TypeOK
<1>3. CASE CleanupCompleted
  BY <1>2, <1>3 DEF CleanupCompleted, TypeOK
<1>4. CASE CleanupFailed
  BY <1>2, <1>4 DEF CleanupFailed, TypeOK
<1>5. CASE StopJobs
  BY <1>2, <1>5 DEF StopJobs
<1>6. CASE ResetOrigins
  BY <1>6 DEF ResetOrigins, TypeOK
<1>7. QED
  BY <1>1, <1>3, <1>4, <1>5, <1>6 DEF OperatorStep

LEMMA TypeTake ==
  ASSUME TypeOK, NEW T \in SUBSET {u \in Urls : status[u] # "none"}, TakeJobs(T),
         picked' \in [Crawlers -> SUBSET (Urls \X (1 .. MaxInserts))]
  PROVE  TypeOK'
<1>1. /\ status' \in [Urls -> Statuses]
      /\ {v \in Urls : status'[v] # "none"} = {v \in Urls : status[v] # "none"}
  BY DEF TakeJobs, TypeOK, Statuses
<1>2. inFlight' \in [Origins -> Nat]
  <2>1. ASSUME NEW o \in Origins
        PROVE  Cardinality({u \in T : OriginOf[u] = o}) \in Nat
    BY FiniteUrls
  <2>2. QED
    BY <2>1 DEF TakeJobs, TypeOK
<1>3. QED
  BY <1>1, <1>2 DEF TakeJobs, TypeOK

LEMMA TypeClaim ==
  ASSUME TypeOK, NEW c \in Crawlers, ClaimStep(c)
  PROVE  TypeOK'
<1>1. ASSUME NEW T \in SUBSET Urls, Claim(c, T) PROVE TypeOK'
  <2>1. T \in SUBSET {u \in Urls : status[u] # "none"}
    BY <1>1 DEF Claim, Chosen, Candidates, Eligible
  <2>2. QED
    BY <1>1, <2>1, TypeTake DEF Claim, TypeOK
<1>2. ASSUME NEW T \in SUBSET Urls, LockCandidates(c, T) PROVE TypeOK'
  <2>1. T \in SUBSET {u \in Urls : status[u] # "none"}
    BY <1>2 DEF LockCandidates, Chosen, Known
  <2>2. picked' \in [Crawlers -> SUBSET (Urls \X (1 .. MaxInserts))]
    BY <1>2 DEF LockCandidates, TypeOK
  <2>3. QED
    BY <1>2, <2>1, <2>2, TypeTake DEF LockCandidates
<1>3. CASE ScanFrontier(c)
  <2>1. \A u \in Candidates(c) : u \in Urls /\ row[u].born \in 1 .. MaxInserts
    BY RowType DEF Candidates, Eligible
  <2>2. picked' \in [Crawlers -> SUBSET (Urls \X (1 .. MaxInserts))]
    BY <1>3, <2>1 DEF ScanFrontier, TypeOK
  <2>3. QED
    BY <1>3, <2>2 DEF ScanFrontier, jobVars, originVars, TypeOK
<1>4. QED
  BY <1>1, <1>2, <1>3 DEF ClaimStep

LEMMA TypeNext == TypeOK /\ [Next]_vars => TypeOK'
<1> SUFFICES ASSUME TypeOK, [Next]_vars PROVE TypeOK'
  OBVIOUS
<1>1. CASE Next
  BY <1>1, TypeCall, TypeProjector, TypeTime, TypeOperator, TypeClaim DEF Next
<1>2. CASE UNCHANGED vars
  BY <1>2 DEF vars, TypeOK
<1>3. QED
  BY <1>1, <1>2

\* Every reachable state of the frontier has its type: a row exists exactly for
\* the pages that have a status, and the counts never fall below zero, although
\* stop_all_jobs resets them under the calls that are still to decrement them.
THEOREM TypeCorrect == Spec => []TypeOK
<1>1. QED
  BY TypeInit, TypeNext, PTL DEF Spec

-----------------------------------------------------------------------------
(* The same-origin limit, when no two claims overlap. *)

\* No two rows were inserted at the same time, so that Before is total.
Births ==
  /\ \A u \in Known : row[u].born <= inserts
  /\ \A u, v \in Known : u # v => row[u].born # row[v].born

LimitInv ==
  /\ TypeOK
  /\ Births
  /\ \A c \in Crawlers : picked[c] = {}
  /\ SameOriginLimit

\* A nonempty set of rows has a last one.
LEMMA LastRow ==
  ASSUME TypeOK, Births, NEW N \in SUBSET Known, N # {}
  PROVE  \E u \in N : \A v \in N : v = u \/ Before(v, u)
<1> DEFINE NotBefore(u) == {v \in N : ~Before(v, u)}
           F == {NotBefore(u) : u \in N}
           R == StrictSubsetOrdering(Urls)
<1>1. N \subseteq Urls
  BY DEF Known
<1>2. F \subseteq FiniteSubsetsOf(Urls) /\ F # {}
  BY <1>1, FiniteUrls DEF FiniteSubsetsOf
<1>3. IsWellFoundedOn(R, FiniteSubsetsOf(Urls))
  BY FS_StrictSubsetOrderingWellFounded
<1>4. PICK A \in F : \A B \in F : <<B, A>> \notin R
  <2> HIDE DEF F, R
  <2>1. QED
    BY <1>2, <1>3, WFMin
<1>5. PICK u \in N : A = NotBefore(u)
  BY <1>4
<1>6. ASSUME NEW v \in N, v # u, ~Before(v, u)
      PROVE  FALSE
  <2>1. /\ \A w \in N : row[w].depth \in Nat /\ row[w].born \in Nat
        /\ row[u].born # row[v].born
    BY <1>6, RowType, CrawlsAssumption DEF Births, Known
  <2>2. Before(u, v)
    BY <1>6, <2>1 DEF Before
  <2>3. \A w \in N : Before(w, u) => Before(w, v)
    BY <1>6, <2>1, <2>2 DEF Before
  <2>4. NotBefore(v) \subseteq A /\ NotBefore(v) # A
    <3>1. ~Before(u, u)
      BY <2>1 DEF Before
    <3>2. QED
      BY <1>5, <2>2, <2>3, <3>1
  <2>5. <<NotBefore(v), A>> \in R
    BY <1>1, <1>5, <2>4 DEF StrictSubsetOrdering
  <2>6. QED
    BY <1>4, <1>6, <2>5
<1>7. QED
  BY <1>6

\* A step that lets no job become active, and leaves the rows of active jobs alone.
Shrinks == \A u \in Urls : status'[u] = "active" =>
             status[u] = "active" /\ row'[u].limit = row[u].limit

LEMMA LimitShrinks ==
  ASSUME TypeOK, TypeOK', SameOriginLimit, Shrinks
  PROVE  SameOriginLimit'
<1> SUFFICES ASSUME NEW o \in Origins, NEW n \in 1 .. Cardinality(Urls)
             PROVE  Cardinality({u \in ActiveIn(o) : row[u].limit <= n})' <= n
  BY DEF SameOriginLimit
<1> DEFINE S == {u \in ActiveIn(o) : row[u].limit <= n}
<1>1. S \in SUBSET Urls /\ S' \in SUBSET S
  BY DEF Shrinks, ActiveIn
<1>2. Cardinality(S') <= Cardinality(S)
  BY <1>1, FiniteUrls, FS_Subset
<1>3. Cardinality(S) <= n
  BY DEF SameOriginLimit
<1>4. Cardinality(S) \in Nat /\ Cardinality(S') \in Nat /\ n \in Int
  BY <1>1, FiniteUrls
<1>5. QED
  BY <1>2, <1>3, <1>4

\* A claim counts the active jobs of the origin and the rank of each job it takes:
\* the last of those it takes within a limit answers for all of them.
LEMMA LimitClaim ==
  ASSUME LimitInv, TypeOK', NEW c \in Crawlers, NEW T \in SUBSET Urls, Claim(c, T)
  PROVE  SameOriginLimit'
<1> USE DEF LimitInv
<1> SUFFICES ASSUME NEW o \in Origins, NEW n \in 1 .. Cardinality(Urls)
             PROVE  Cardinality({u \in ActiveIn(o) : row[u].limit <= n})' <= n
  BY DEF SameOriginLimit
<1> DEFINE S == {u \in ActiveIn(o) : row[u].limit <= n}
           N == {u \in T : OriginOf[u] = o /\ row[u].limit <= n}
<1>1. /\ T \subseteq Candidates(c)
      /\ status' = [u \in Urls |-> IF u \in T THEN "active" ELSE status[u]]
      /\ row' = row
  BY DEF Claim, Chosen, TakeJobs
<1>2. S' = S \cup N
  BY <1>1 DEF ActiveIn
<1>3. /\ S \in SUBSET Urls /\ N \in SUBSET Urls /\ ActiveIn(o) \in SUBSET Urls
      /\ S \in SUBSET ActiveIn(o)
  BY DEF ActiveIn
<1>4. /\ Cardinality(S) \in Nat /\ Cardinality(N) \in Nat
      /\ Cardinality(ActiveIn(o)) \in Nat /\ n \in Int
      /\ Cardinality(S) <= Cardinality(ActiveIn(o))
  BY <1>3, FiniteUrls, FS_Subset
<1>5. CASE N = {}
  <2>1. Cardinality(S) <= n
    BY DEF SameOriginLimit
  <2>2. QED
    BY <1>2, <1>5, <2>1
<1>6. CASE N # {}
  <2>1. N \in SUBSET Known
    BY <1>1 DEF Known, Candidates, Eligible
  <2>2. PICK u \in N : \A v \in N : v = u \/ Before(v, u)
    BY <1>6, <2>1, LastRow
  <2> DEFINE Q == {v \in Urls : /\ Eligible(c, v)
                                /\ OriginOf[v] = OriginOf[u]
                                /\ v = u \/ Before(v, u)}
  <2>3. N \in SUBSET Q
    BY <1>1, <1>3, <2>2 DEF Candidates
  <2>4. /\ Cardinality(N) <= Cardinality(Q)
        /\ Cardinality(Q) \in Nat
    BY <2>3, FiniteUrls, FS_Subset
  <2>5. Cardinality(ActiveIn(o)) + Cardinality(Q) <= row[u].limit
    BY <1>1, <2>2 DEF Candidates, Rank
  <2>6. row[u].limit \in Nat /\ row[u].limit <= n
    BY <2>1, <2>2, RowType DEF Known
  <2>7. /\ Cardinality(S \cup N) \in Nat
        /\ Cardinality(S \cup N) <= Cardinality(S) + Cardinality(N)
    <3>1. /\ IsFiniteSet(S) /\ IsFiniteSet(N)
          /\ Cardinality(S \cap N) \in Nat /\ Cardinality(S \cup N) \in Nat
      BY <1>3, FiniteUrls
    <3>2. Cardinality(S \cup N) = Cardinality(S) + Cardinality(N) - Cardinality(S \cap N)
      BY <3>1, FS_Union
    <3>3. QED
      BY <1>4, <3>1, <3>2
  <2>8. Cardinality(S \cup N) <= n
    BY <1>4, <2>4, <2>5, <2>6, <2>7
  <2>9. QED
    BY <1>2, <2>8
<1>7. QED
  BY <1>5, <1>6

\* A step that is not a claim: it makes no job active and picks none.
Quiet == picked' = picked /\ Shrinks /\ Births'

\* Rows that stay keep their limit and the time of their insertion.
LEMMA QuietRows ==
  ASSUME TypeOK, TypeOK', Births, picked' = picked, inserts' = inserts,
         Known' \subseteq Known,
         \A u \in Known' : row'[u].born = row[u].born /\ row'[u].limit = row[u].limit,
         \A u \in Urls : status'[u] = "active" => status[u] = "active"
  PROVE  Quiet
<1>1. Births'
  BY DEF Births
<1>2. Shrinks
  BY DEF Shrinks, Known
<1>3. QED
  BY <1>1, <1>2 DEF Quiet

LEMMA QuietSame ==
  ASSUME TypeOK, TypeOK', Births, UNCHANGED <<status, row, inserts, picked>>
  PROVE  Quiet
BY QuietRows DEF Known

LEMMA QuietRemove ==
  ASSUME TypeOK, TypeOK', Births, UNCHANGED picked,
         NEW U \in SUBSET Urls, Remove(U)
  PROVE  Quiet
BY QuietRows DEF Known, Remove

\* An inserted row is the youngest there is, and its job waits.
LEMMA QuietInsert ==
  ASSUME TypeOK, TypeOK', Births, NEW p \in Callers, NEW u \in Urls, InsertJob(p, u)
  PROVE  Quiet
<1>1. CASE status[u] = "none"
  <2>1. /\ inserts' = inserts + 1
        /\ status' = [status EXCEPT ![u] = "queued"]
        /\ picked' = picked
        /\ u \notin Known
        /\ DOMAIN row' = Known \cup {u}
        /\ row'[u].born = inserts + 1
        /\ \A v \in Known : row'[v] = row[v]
    BY <1>1 DEF InsertJob, claimVars, Known
  <2>2. Known' = Known \cup {u}
    BY <2>1 DEF TypeOK, Known
  <2>3. inserts \in Nat /\ \A v \in Known : row[v].born \in Nat /\ row[v].born <= inserts
    BY RowType, BoundsAssumption DEF TypeOK, Births, Known
  <2>4. Births'
    <3>1. \A v \in Known' : row'[v].born <= inserts'
      BY <2>1, <2>2, <2>3
    <3>2. ASSUME NEW v \in Known', NEW w \in Known', v # w
          PROVE  row'[v].born # row'[w].born
      <4>1. CASE v = u
        BY <2>1, <2>2, <2>3, <3>2, <4>1
      <4>2. CASE w = u
        BY <2>1, <2>2, <2>3, <3>2, <4>2
      <4>3. CASE v # u /\ w # u
        BY <2>1, <2>2, <3>2, <4>3 DEF Births
      <4>4. QED
        BY <4>1, <4>2, <4>3
    <3>3. QED
      BY <3>1, <3>2 DEF Births
  <2>5. Shrinks
    BY <2>1 DEF Shrinks, TypeOK, Known
  <2>6. QED
    BY <2>1, <2>4, <2>5 DEF Quiet
<1>2. CASE status[u] # "none"
  BY <1>2, QuietSame DEF InsertJob, jobVars, claimVars
<1>3. QED
  BY <1>1, <1>2

LEMMA QuietCall ==
  ASSUME TypeOK, TypeOK', Births, NEW p \in Callers, CallStep(p)
  PROVE  Quiet
<1> USE DEF jobVars, claimVars
<1>1. ASSUME NEW b \in Crawls, StartCrawl(p, b) PROVE Quiet
  BY <1>1, QuietSame DEF StartCrawl
<1>2. ASSUME NEW u \in Urls, Recrawl(p, u) PROVE Quiet
  BY <1>2, QuietSame DEF Recrawl
<1>3. ASSUME NEW u \in Urls, DeleteRevisited(p, u) PROVE Quiet
  <2>1. {v \in {u} : status[v] \in Over} \in SUBSET Urls
    OBVIOUS
  <2>2. QED
    BY <1>3, <2>1, QuietRemove DEF DeleteRevisited
<1>4. CASE CountBudget(p)
  BY <1>4, QuietSame DEF CountBudget
<1>5. CASE InsertOrigin(p)
  BY <1>5, QuietSame DEF InsertOrigin
<1>6. CASE EndInserts(p)
  BY <1>6, QuietSame DEF EndInserts
<1>7. CASE Crash(p)
  BY <1>7, QuietSame DEF Crash
<1>8. CASE UpdateOrigin(p)
  BY <1>8, QuietSame DEF UpdateOrigin
<1>9. CASE DropInFlight(p)
  BY <1>9, QuietSame DEF DropInFlight
<1>10. QED
  BY <1>1, <1>2, <1>3, <1>4, <1>5, <1>6, <1>7, <1>8, <1>9, QuietInsert DEF CallStep

\* A page whose job stays, but is not active any more.
LEMMA QuietMove ==
  ASSUME TypeOK, TypeOK', Births, NEW u \in Urls, NEW s \in Statuses \ {"active", "none"},
         status[u] # "none", status' = [status EXCEPT ![u] = s], UNCHANGED <<row, inserts, picked>>
  PROVE  Quiet
<1>1. Known' = Known
  BY DEF Known, TypeOK
<1>2. \A v \in Urls : status'[v] = "active" => status[v] = "active"
  BY DEF TypeOK
<1>3. QED
  BY <1>1, <1>2, QuietRows

\* The write of an outcome makes no job active, whatever the job's status has become.
LEMMA QuietWrite ==
  ASSUME TypeOK, TypeOK', Births, NEW p \in Callers,
         NEW s \in Statuses \ {"active", "none"}, NEW c, WriteOutcome(p, s, c),
         \A v \in Known : row'[v].born = row[v].born /\ row'[v].limit = row[v].limit
  PROVE  Quiet
<1>1. status' = [status EXCEPT ![call[p].page] = IF StillThere(p) THEN s ELSE @]
  BY DEF WriteOutcome
<1>2. Known' = Known
  BY <1>1 DEF Known, StillThere, TypeOK
<1>3. \A v \in Urls : status'[v] = "active" => status[v] = "active"
  BY <1>1 DEF StillThere, TypeOK
<1>4. QED
  BY <1>2, <1>3, QuietRows DEF WriteOutcome

LEMMA QuietProjector ==
  ASSUME TypeOK, TypeOK', Births, NEW p \in Callers, ProjectorStep(p)
  PROVE  Quiet
<1> USE DEF claimVars
<1>0. {"done", "failed", "blocked", "backoff", "queued"} \subseteq Statuses \ {"active", "none"}
  BY DEF Statuses, Over
<1>1. ASSUME NEW u \in Urls, ReadJob(p, u) PROVE Quiet
  BY <1>1, QuietSame DEF ReadJob, jobVars
<1>2. ASSUME NEW u \in Urls, ProjectionFailed(p, u) PROVE Quiet
  BY <1>0, <1>2, QuietMove DEF ProjectionFailed
<1>3. CASE ApplyPage(p)
  <2>1. PICK c : WriteOutcome(p, "done", c)
    BY <1>3 DEF ApplyPage
  <2>2. QED
    BY <1>0, <1>3, <2>1, QuietWrite DEF ApplyPage
<1>4. CASE ApplyFailed(p)
  BY <1>0, <1>4, QuietWrite DEF ApplyFailed
<1>5. CASE ApplyBlocked(p)
  BY <1>0, <1>5, QuietWrite DEF ApplyBlocked
<1>6. CASE ApplyRetryable(p)
  BY <1>0, <1>6, QuietWrite DEF ApplyRetryable
<1>7. CASE ApplyRequiresJs(p)
  <2>1. ASSUME NEW v \in Known
        PROVE  row'[v].born = row[v].born /\ row'[v].limit = row[v].limit
    <3>1. row[v] \in Rows
      BY DEF TypeOK, Known
    <3>2. /\ [row[v] EXCEPT !.js = TRUE].born = row[v].born
          /\ [row[v] EXCEPT !.js = TRUE].limit = row[v].limit
      BY <3>1 DEF Rows
    <3>3. row'[v] = row[v] \/ row'[v] = [row[v] EXCEPT !.js = TRUE]
      BY <1>7 DEF ApplyRequiresJs
    <3>4. QED
      BY <3>2, <3>3
  <2>2. QED
    BY <1>0, <1>7, <2>1, QuietWrite DEF ApplyRequiresJs
<1>8. CASE GiveUp(p)
  BY <1>8, QuietSame DEF GiveUp, jobVars
<1>9. QED
  BY <1>1, <1>2, <1>3, <1>4, <1>5, <1>6, <1>7, <1>8 DEF ProjectorStep, Outcome

LEMMA QuietTime == TypeOK /\ TypeOK' /\ Births /\ TimeStep => Quiet
<1> SUFFICES ASSUME TypeOK, TypeOK', Births, TimeStep PROVE Quiet
  OBVIOUS
<1> USE DEF jobVars, claimVars
<1>0. {"queued", "backoff", "failed"} \subseteq Statuses \ {"active", "none"}
  BY DEF Statuses, Over
<1>1. ASSUME NEW u \in Urls, Release(u) PROVE Quiet
  BY <1>0, <1>1, QuietMove DEF Release, NextAttempt
<1>2. ASSUME NEW u \in Urls, RetryDue(u) PROVE Quiet
  BY <1>0, <1>2, QuietMove DEF RetryDue
<1>3. ASSUME NEW o \in Origins, OriginRested(o) PROVE Quiet
  BY <1>3, QuietSame DEF OriginRested
<1>4. QED
  BY <1>1, <1>2, <1>3 DEF TimeStep

LEMMA QuietOperator == TypeOK /\ TypeOK' /\ Births /\ OperatorStep => Quiet
<1> SUFFICES ASSUME TypeOK, TypeOK', Births, OperatorStep PROVE Quiet
  OBVIOUS
<1>1. CASE RetryFailed
  BY <1>1, QuietRows DEF RetryFailed, claimVars, Known, TypeOK
<1>2. ASSUME NEW U \in SUBSET Urls, RemoveJobs(U) PROVE Quiet
  BY <1>2, QuietRemove DEF RemoveJobs
<1>3. CASE CleanupCompleted
  BY <1>2, <1>3 DEF CleanupCompleted
<1>4. CASE CleanupFailed
  BY <1>2, <1>4 DEF CleanupFailed
<1>5. CASE StopJobs
  BY <1>2, <1>5 DEF StopJobs
<1>6. CASE ResetOrigins
  BY <1>6, QuietSame DEF ResetOrigins, jobVars
<1>7. QED
  BY <1>1, <1>3, <1>4, <1>5, <1>6 DEF OperatorStep

\* No other claim commits between the snapshot of a claim and its locks.
NoSplitClaim == "split_claim" \notin Races

\* Claims move rows to another status and leave what they hold alone.
LEMMA LimitClaimStep ==
  ASSUME NoSplitClaim, LimitInv, TypeOK', NEW c \in Crawlers, ClaimStep(c)
  PROVE  LimitInv'
<1>1. PICK T \in SUBSET Urls : Claim(c, T)
  BY DEF NoSplitClaim, LimitInv, ClaimStep, ScanFrontier, LockCandidates
<1>2. SameOriginLimit'
  BY <1>1, LimitClaim
<1>3. Births'
  <2>1. UNCHANGED <<row, inserts>> /\ Known' = Known
    BY <1>1 DEF Claim, TakeJobs, Chosen, Candidates, Eligible, Known
  <2>2. QED
    BY <2>1 DEF LimitInv, Births
<1>4. QED
  BY <1>1, <1>2, <1>3 DEF Claim, LimitInv

LEMMA LimitInit == Init => LimitInv
<1> SUFFICES ASSUME Init PROVE LimitInv
  OBVIOUS
<1>1. Known = {} /\ \A o \in Origins : ActiveIn(o) = {}
  BY DEF Init, Known, ActiveIn
<1>2. SameOriginLimit
  <2>1. SUFFICES ASSUME NEW o \in Origins, NEW n \in 1 .. Cardinality(Urls)
                 PROVE  Cardinality({u \in ActiveIn(o) : row[u].limit <= n}) <= n
    BY DEF SameOriginLimit
  <2>2. {u \in ActiveIn(o) : row[u].limit <= n} = {}
    BY <1>1
  <2>3. 0 <= n
    OBVIOUS
  <2>4. QED
    BY <2>2, <2>3, FS_EmptySet
<1>3. QED
  BY <1>1, <1>2, TypeInit DEF LimitInv, Births, Init

LEMMA LimitNext ==
  ASSUME NoSplitClaim
  PROVE  LimitInv /\ [Next]_vars => LimitInv'
<1> SUFFICES ASSUME LimitInv, [Next]_vars PROVE LimitInv'
  OBVIOUS
<1>1. TypeOK /\ TypeOK' /\ Births
  BY TypeNext DEF LimitInv
<1>2. CASE Quiet
  BY <1>1, <1>2, LimitShrinks DEF Quiet, LimitInv
<1>3. CASE \E c \in Crawlers : ClaimStep(c)
  BY <1>1, <1>3, LimitClaimStep
<1>4. CASE UNCHANGED vars
  BY <1>1, <1>2, <1>4, QuietSame DEF vars
<1>5. CASE Next
  BY <1>1, <1>2, <1>3, <1>5, QuietCall, QuietProjector, QuietTime, QuietOperator DEF Next
<1>6. QED
  BY <1>4, <1>5

\* If no two claims overlap, then no origin ever has more than n jobs in flight
\* that asked for at most n: whatever the crawls, the limits, the callers that
\* crash and the commands of the operator.  The claim query counts the jobs in
\* flight and ranks the queued ones, and that is all that keeps the limit.
THEOREM SameOriginLimitHolds ==
  ASSUME NoSplitClaim
  PROVE  Spec => []SameOriginLimit
<1>1. Init => LimitInv
  BY LimitInit
<1>2. LimitInv /\ [Next]_vars => LimitInv'
  BY LimitNext
<1>3. LimitInv => SameOriginLimit
  BY DEF LimitInv
<1>4. QED
  BY <1>1, <1>2, <1>3, PTL DEF Spec
-----------------------------------------------------------------------------
(* The count of the jobs in flight, when no two claims overlap. *)

\* While a stop is under way nothing is asked of the counts: between the removal of
\* the jobs and the reset of the origins they are too high.
CountedInv ==
  /\ TypeOK
  /\ \A c \in Crawlers : picked[c] = {}
  /\ stopping => overtaken = Origins
  /\ InFlightAccounted

\* What the calls and the active jobs add to the count of an origin.
SamePending == \A o \in Origins : PendingIn(o)' = PendingIn(o)
SameActive == \A o \in Origins : ActiveIn(o)' = ActiveIn(o)
One(u, o) == IF OriginOf[u] = o THEN 1 ELSE 0

\* A call that owes no origin a decrement, and one that owes it to the page's.
Free(c) == c = Idle \/ c.step = "read" \/ c.page = NoUrl
Owing(c, u) == c # Idle /\ c.step # "read" /\ c.page = u /\ u \in Urls

LEMMA FiniteCallers ==
  ASSUME NEW P \in SUBSET Callers
  PROVE  IsFiniteSet(P) /\ Cardinality(P) \in Nat
BY BoundsAssumption, FS_Subset, FS_CardinalityType

LEMMA FiniteCounts ==
  ASSUME NEW o \in Origins
  PROVE  /\ PendingIn(o) \in SUBSET Callers /\ Cardinality(PendingIn(o)) \in Nat
         /\ ActiveIn(o) \in SUBSET Urls /\ Cardinality(ActiveIn(o)) \in Nat
BY FiniteCallers, FiniteUrls DEF PendingIn, ActiveIn

LEMMA FiniteCountsNext ==
  ASSUME NEW o \in Origins
  PROVE  /\ PendingIn(o)' \in SUBSET Callers /\ Cardinality(PendingIn(o)') \in Nat
         /\ ActiveIn(o)' \in SUBSET Urls /\ Cardinality(ActiveIn(o)') \in Nat
<1>1. PendingIn(o)' \in SUBSET Callers /\ ActiveIn(o)' \in SUBSET Urls
  BY DEF PendingIn, ActiveIn
<1>2. QED
  BY <1>1, FiniteCallers, FiniteUrls

LEMMA BusyNotIdle == ASSUME NEW c \in Busy PROVE c # Idle
BY DEF Busy, Reads, Inserts, Ends, Idle

\* A call that goes on owes what it owed.
LEMMA PendingKept ==
  ASSUME TypeOK, NEW p \in Callers, NEW c, Call(p, c),
         \/ Free(call[p]) /\ Free(c)
         \/ /\ call[p] # Idle /\ c # Idle /\ c.page = call[p].page
            /\ call[p].step # "read" /\ c.step # "read"
  PROVE  SamePending
BY DEF SamePending, PendingIn, Call, TypeOK, Free

\* The outcome of a page is written: its caller owes the origin a decrement.
LEMMA PendingGains ==
  ASSUME TypeOK, NEW p \in Callers, NEW u, NEW c,
         Free(call[p]), Owing(c, u), Call(p, c), NEW o \in Origins
  PROVE  Cardinality(PendingIn(o)') = Cardinality(PendingIn(o)) + One(u, o)
<1>0. u # NoUrl
  BY GraphAssumption DEF Owing
<1>1. CASE OriginOf[u] = o
  <2>1. PendingIn(o)' = PendingIn(o) \cup {p} /\ p \notin PendingIn(o)
    BY <1>0, <1>1 DEF PendingIn, Call, TypeOK, Free, Owing
  <2>2. IsFiniteSet(PendingIn(o))
    BY FiniteCounts, FiniteCallers
  <2>3. Cardinality(PendingIn(o) \cup {p}) = Cardinality(PendingIn(o)) + 1
    BY <2>1, <2>2, FS_AddElement
  <2>4. QED
    BY <1>1, <2>1, <2>3 DEF One
<1>2. CASE OriginOf[u] # o
  <2>1. PendingIn(o)' = PendingIn(o)
    BY <1>0, <1>2 DEF PendingIn, Call, TypeOK, Free, Owing
  <2>2. QED
    BY <1>2, <2>1, FiniteCounts DEF One
<1>3. QED
  BY <1>1, <1>2

\* The origin has had its decrement.
LEMMA PendingPaid ==
  ASSUME TypeOK, NEW p \in Callers, NEW u, Owing(call[p], u), Call(p, Idle),
         NEW o \in Origins
  PROVE  Cardinality(PendingIn(o)) = Cardinality(PendingIn(o)') + One(u, o)
<1>0. u # NoUrl
  BY GraphAssumption DEF Owing
<1>1. CASE OriginOf[u] = o
  <2>1. PendingIn(o)' = PendingIn(o) \ {p} /\ p \in PendingIn(o)
    BY <1>0, <1>1 DEF PendingIn, Call, TypeOK, Owing
  <2>2. IsFiniteSet(PendingIn(o)) /\ Cardinality(PendingIn(o)) \in Nat
    BY FiniteCounts, FiniteCallers
  <2>3. Cardinality(PendingIn(o)') = Cardinality(PendingIn(o)) - 1
    BY <2>1, <2>2, FS_RemoveElement
  <2>4. QED
    BY <1>1, <2>2, <2>3 DEF One
<1>2. CASE OriginOf[u] # o
  <2>1. PendingIn(o)' = PendingIn(o)
    BY <1>0, <1>2 DEF PendingIn, Call, TypeOK, Owing
  <2>2. QED
    BY <1>2, <2>1, FiniteCounts DEF One
<1>3. QED
  BY <1>1, <1>2

LEMMA ActiveKept ==
  ASSUME \A v \in Urls : (status'[v] = "active") <=> (status[v] = "active")
  PROVE  SameActive
BY DEF SameActive, ActiveIn

\* A job ends, or goes back to the queue.
LEMMA ActiveLeaves ==
  ASSUME TypeOK, NEW u \in Urls, status[u] = "active", NEW s \in Statuses \ {"active"},
         status' = [status EXCEPT ![u] = s], NEW o \in Origins
  PROVE  Cardinality(ActiveIn(o)) = Cardinality(ActiveIn(o)') + One(u, o)
<1>1. CASE OriginOf[u] = o
  <2>1. ActiveIn(o)' = ActiveIn(o) \ {u} /\ u \in ActiveIn(o)
    BY <1>1 DEF ActiveIn, TypeOK
  <2>2. IsFiniteSet(ActiveIn(o)) /\ Cardinality(ActiveIn(o)) \in Nat
    BY FiniteCounts, FiniteUrls
  <2>3. Cardinality(ActiveIn(o)') = Cardinality(ActiveIn(o)) - 1
    BY <2>1, <2>2, FS_RemoveElement
  <2>4. QED
    BY <1>1, <2>2, <2>3 DEF One
<1>2. CASE OriginOf[u] # o
  <2>1. ActiveIn(o)' = ActiveIn(o)
    BY <1>2 DEF ActiveIn, TypeOK
  <2>2. QED
    BY <1>2, <2>1, FiniteCounts DEF One
<1>3. QED
  BY <1>1, <1>2

\* A claim takes queued rows only.
LEMMA ActiveJoins ==
  ASSUME TypeOK, NEW T \in SUBSET {u \in Urls : status[u] = "queued"},
         status' = [u \in Urls |-> IF u \in T THEN "active" ELSE status[u]],
         NEW o \in Origins
  PROVE  Cardinality(ActiveIn(o)') =
           Cardinality(ActiveIn(o)) + Cardinality({u \in T : OriginOf[u] = o})
<1> DEFINE N == {u \in T : OriginOf[u] = o}
<1>1. /\ ActiveIn(o)' = ActiveIn(o) \cup N
      /\ ActiveIn(o) \cap N = {}
  BY DEF ActiveIn
<1>2. IsFiniteSet(ActiveIn(o)) /\ IsFiniteSet(N)
  BY FiniteCounts, FiniteUrls
<1>3. /\ Cardinality(ActiveIn(o)) \in Nat /\ Cardinality(N) \in Nat
      /\ Cardinality(ActiveIn(o) \cap N) = 0
  BY <1>1, <1>2, FS_CardinalityType, FS_EmptySet
<1>4. Cardinality(ActiveIn(o) \cup N)
        = Cardinality(ActiveIn(o)) + Cardinality(N) - Cardinality(ActiveIn(o) \cap N)
  BY <1>2, FS_Union
<1>5. QED
  BY <1>1, <1>3, <1>4

\* How a step may move the count of an origin and what is owed to it: neither; both
\* by one down; both up by the jobs claimed; or, at an origin that is overtaken, what
\* is owed alone, by a caller that will pay for a job already taken off the count.
Moves(o, n, m) == inFlight'[o] = n /\ Owed(o)' = m
Adjusts(o) ==
  \/ Moves(o, inFlight[o], Owed(o))
  \/ inFlight'[o] = Less(inFlight[o]) /\ Owed(o) = Owed(o)' + 1
  \/ \E n \in Nat : Moves(o, inFlight[o] + n, Owed(o) + n)
  \/ o \in overtaken' /\ Moves(o, inFlight[o], Owed(o) + 1)

Counted == \A o \in Origins : Adjusts(o)

LEMMA OwedType ==
  ASSUME NEW o \in Origins
  PROVE  Owed(o) \in Nat /\ Owed(o)' \in Nat
BY FiniteCounts, FiniteCountsNext DEF Owed

LEMMA CountedKeeps ==
  ASSUME CountedInv, Counted, stopping' = stopping, overtaken \subseteq overtaken'
  PROVE  InFlightAccounted'
<1>1. SUFFICES ASSUME NEW o \in Origins
               PROVE  /\ ~stopping => inFlight'[o] <= Owed(o)'
                      /\ o \notin overtaken' => inFlight'[o] = Owed(o)'
  BY DEF InFlightAccounted
<1>2. /\ ~stopping => inFlight[o] <= Owed(o)
      /\ o \notin overtaken' => inFlight[o] = Owed(o)
      /\ inFlight[o] \in Nat
  BY DEF CountedInv, InFlightAccounted, TypeOK
<1>3. Owed(o) \in Nat /\ Owed(o)' \in Nat /\ Adjusts(o)
  BY OwedType DEF Counted
<1> DEFINE owed == Owed(o)  next == Owed(o)'
<1> HIDE DEF owed, next
<1>4. /\ ~stopping => inFlight[o] <= owed
      /\ o \notin overtaken' => inFlight[o] = owed
      /\ owed \in Nat /\ next \in Nat
  BY <1>2, <1>3 DEF owed, next
<1>5. \/ inFlight'[o] = inFlight[o] /\ next = owed
      \/ inFlight'[o] = Less(inFlight[o]) /\ owed = next + 1
      \/ \E n \in Nat : inFlight'[o] = inFlight[o] + n /\ next = owed + n
      \/ o \in overtaken' /\ inFlight'[o] = inFlight[o] /\ next = owed + 1
  BY <1>3 DEF Adjusts, Moves, owed, next
<1>6. /\ ~stopping => inFlight'[o] <= next
      /\ o \notin overtaken' => inFlight'[o] = next
  BY <1>2, <1>4, <1>5 DEF Less
<1>7. QED
  BY <1>6 DEF next

\* A step that moves none of the three.
LEMMA CountedSame ==
  ASSUME SamePending, SameActive, inFlight' = inFlight
  PROVE  Counted
BY DEF Counted, Adjusts, Moves, Owed, SamePending, SameActive

\* A call that goes on with its page, or begins or ends without one.
LEMMA CountedBusy ==
  ASSUME TypeOK, NEW p \in Callers, NEW c, c # Idle, call[p] # Idle,
         c.page = call[p].page, c.step # "read", call[p].step # "read",
         Call(p, c), SameActive, inFlight' = inFlight
  PROVE  Counted
BY PendingKept, CountedSame

LEMMA CountedFree ==
  ASSUME TypeOK, NEW p \in Callers, NEW c, Free(call[p]), Free(c),
         Call(p, c), SameActive, inFlight' = inFlight
  PROVE  Counted
BY PendingKept, CountedSame

LEMMA CountedEnqueued ==
  ASSUME TypeOK, NEW p \in Callers, call[p] \in Inserts, Enqueued(p), SameActive,
         inFlight' = inFlight
  PROVE  Counted
<1>1. CASE call[p].page = NoUrl
  BY <1>1, CountedFree DEF Enqueued, Free
<1>2. CASE call[p].page # NoUrl
  <2> DEFINE c == End("finish", call[p].page)
  <2>1. c # Idle /\ c.page = call[p].page /\ c.step # "read"
    BY DEF End, Idle
  <2>2. Call(p, c)
    BY <1>2 DEF Enqueued
  <2> HIDE DEF c
  <2>3. call[p] # Idle /\ call[p].step # "read"
    BY DEF Inserts, Idle
  <2>4. QED
    BY <2>1, <2>2, <2>3, CountedBusy
<1>3. QED
  BY <1>1, <1>2

\* The decrement of a call that has written its outcome.
LEMMA CountedPaid ==
  ASSUME TypeOK, NEW p \in Callers, call[p].step \in {"finish", "drop"},
         inFlight' = [inFlight EXCEPT ![OriginOf[call[p].page]] = Less(@)],
         Call(p, Idle), SameActive
  PROVE  Counted
<1> DEFINE u == call[p].page
<1>1. Owing(call[p], u)
  BY CallKinds DEF Owing, Idle
<1> HIDE DEF u
<1>2. ASSUME NEW o \in Origins PROVE Adjusts(o)
  <2>1. Cardinality(PendingIn(o)) = Cardinality(PendingIn(o)') + One(u, o)
    BY <1>1, PendingPaid
  <2>2. ActiveIn(o)' = ActiveIn(o)
    BY DEF SameActive
  <2>3. inFlight'[o] = IF OriginOf[u] = o THEN Less(inFlight[o]) ELSE inFlight[o]
    BY DEF TypeOK, u
  <2>4. Owed(o) = Owed(o)' + One(u, o) /\ Owed(o)' \in Nat
    BY <2>1, <2>2, FiniteCounts, FiniteCountsNext DEF Owed, One
  <2>5. QED
    BY <2>3, <2>4, OwedType DEF One, Adjusts, Moves
<1>3. QED
  BY <1>2 DEF Counted

\* The job of a page ends, and its caller takes over what it counted for.
LEMMA CountedEnds ==
  ASSUME TypeOK, NEW p \in Callers, NEW u, NEW c, Free(call[p]), Owing(c, u),
         Call(p, c), status[u] = "active", NEW s \in Statuses \ {"active"},
         status' = [status EXCEPT ![u] = s], inFlight' = inFlight
  PROVE  Counted
<1>0. u \in Urls
  BY DEF Owing
<1>1. ASSUME NEW o \in Origins PROVE Owed(o)' = Owed(o)
  <2>1. Cardinality(PendingIn(o)') = Cardinality(PendingIn(o)) + One(u, o)
    BY PendingGains
  <2>2. Cardinality(ActiveIn(o)) = Cardinality(ActiveIn(o)') + One(u, o)
    BY <1>0, ActiveLeaves
  <2>3. QED
    BY <2>1, <2>2, FiniteCounts, FiniteCountsNext DEF One, Owed
<1>2. QED
  BY <1>1 DEF Counted, Adjusts, Moves

\* The job was taken from the caller before it wrote: the origin is overtaken.
LEMMA CountedLate ==
  ASSUME TypeOK, NEW p \in Callers, NEW u, NEW c, Free(call[p]), Owing(c, u),
         Call(p, c), SameActive, OriginOf[u] \in overtaken', inFlight' = inFlight
  PROVE  Counted
<1>1. ASSUME NEW o \in Origins PROVE Adjusts(o)
  <2>1. Cardinality(PendingIn(o)') = Cardinality(PendingIn(o)) + One(u, o)
    BY PendingGains
  <2>2. ActiveIn(o)' = ActiveIn(o)
    BY DEF SameActive
  <2>3. Owed(o)' = Owed(o) + One(u, o)
    BY <2>1, <2>2, FiniteCounts DEF One, Owed
  <2>4. QED
    BY <2>3, OwedType DEF One, Adjusts, Moves
<1>2. QED
  BY <1>1 DEF Counted

LEMMA CountedWrite ==
  ASSUME TypeOK, NEW p \in Callers, NEW s \in Statuses \ {"active"}, NEW c,
         c # Idle, c.step # "read", c.page = call[p].page, WriteOutcome(p, s, c)
  PROVE  Counted
<1> DEFINE u == call[p].page
<1>1. u \in Urls /\ Free(call[p]) /\ Owing(c, u)
  BY CallKinds DEF WriteOutcome, Reads, Free, Owing
<1> HIDE DEF u
<1>2. Call(p, c) /\ inFlight' = inFlight
  BY DEF WriteOutcome, originVars
<1>3. CASE StillThere(p) /\ status[u] = "active"
  <2>1. status' = [status EXCEPT ![u] = s]
    BY <1>3 DEF WriteOutcome, u
  <2>2. QED
    BY <1>1, <1>2, <1>3, <2>1, CountedEnds
<1>4. CASE ~(StillThere(p) /\ status[u] = "active")
  <2>1. OriginOf[u] \in overtaken'
    BY <1>4 DEF WriteOutcome, u
  <2>2. \A v \in Urls : (status'[v] = "active") <=> (status[v] = "active")
    BY <1>1, <1>4 DEF WriteOutcome, u, TypeOK
  <2>3. QED
    BY <1>1, <1>2, <2>1, <2>2, ActiveKept, CountedLate
<1>5. QED
  BY <1>3, <1>4

LEMMA CountedCall ==
  ASSUME TypeOK, NEW p \in Callers, CallStep(p)
  PROVE  Counted
<1> USE DEF jobVars, originVars, claimVars
<1>1. ASSUME UNCHANGED status PROVE SameActive
  BY <1>1, ActiveKept
<1>2. ASSUME NEW b \in Crawls, StartCrawl(p, b) PROVE Counted
  <2>1. PICK r \in BOOLEAN :
          Call(p, NewCall(NoUrl, b, MaxPages[b], Limit[b], 0, {SeedOf[b]}, r))
    BY <1>2 DEF StartCrawl
  <2> DEFINE c == NewCall(NoUrl, b, MaxPages[b], Limit[b], 0, {SeedOf[b]}, r)
  <2>2. Free(c)
    BY DEF NewCall, Free
  <2>3. Call(p, c)
    BY <2>1
  <2> HIDE DEF c
  <2>4. Free(call[p]) /\ inFlight' = inFlight /\ SameActive
    BY <1>1, <1>2 DEF StartCrawl, Free
  <2>5. QED
    BY <2>2, <2>3, <2>4, CountedFree
<1>3. ASSUME NEW u \in Urls, Recrawl(p, u) PROVE Counted
  <2> DEFINE c == NewCall(NoUrl, row[u].crawl, 1, 1, 0, {u}, TRUE)
  <2>1. Free(c)
    BY DEF NewCall, Free
  <2>2. Call(p, c)
    BY <1>3 DEF Recrawl
  <2> HIDE DEF c
  <2>3. Free(call[p]) /\ inFlight' = inFlight /\ SameActive
    BY <1>1, <1>3 DEF Recrawl, Free
  <2>4. QED
    BY <2>1, <2>2, <2>3, CountedFree
<1>0. ASSUME NEW c, call[p] \in Inserts, Call(p, c), c \in Inserts,
             c.page = call[p].page, SameActive, inFlight' = inFlight
      PROVE  Counted
  <2>1. /\ call[p] # Idle /\ call[p].step # "read"
        /\ c # Idle /\ c.step # "read"
    BY <1>0 DEF Inserts, Idle
  <2>2. QED
    BY <1>0, <2>1, CountedBusy
<1>4. CASE CountBudget(p)
  <2>1. call[p] \in Inserts /\ inFlight' = inFlight /\ SameActive
    BY <1>1, <1>4, CallKinds DEF CountBudget
  <2>2. Cardinality(PagesOf(call[p].crawl)) \in Nat
    BY FiniteUrls DEF PagesOf, Known
  <2>3. PICK n \in Nat : \/ Enqueued(p)
                         \/ Call(p, [call[p] EXCEPT !.step = "insert", !.used = n])
    BY <1>4, <2>2 DEF CountBudget
  <2>4. CASE Enqueued(p)
    BY <2>1, <2>4, CountedEnqueued
  <2>5. CASE ~Enqueued(p)
    <3> DEFINE c == [call[p] EXCEPT !.step = "insert", !.used = n]
    <3>1. c \in Inserts /\ c.page = call[p].page
      BY <2>1 DEF Inserts
    <3>2. Call(p, c)
      BY <2>3, <2>5
    <3> HIDE DEF c
    <3>3. QED
      BY <1>0, <2>1, <3>1, <3>2
  <2>6. QED
    BY <2>4, <2>5
<1>5. ASSUME NEW u \in Urls, DeleteRevisited(p, u) PROVE Counted
  <2>1. call[p] \in Inserts /\ inFlight' = inFlight
    BY <1>5, CallKinds DEF DeleteRevisited, NextUrl
  <2>2. SameActive
    BY <1>5, ActiveKept DEF DeleteRevisited, Remove, Over
  <2> DEFINE c == [call[p] EXCEPT !.step = "revisited", !.last = u]
  <2>3. c \in Inserts /\ c.page = call[p].page
    BY <2>1 DEF Inserts
  <2>4. Call(p, c)
    BY <1>5 DEF DeleteRevisited
  <2> HIDE DEF c
  <2>5. QED
    BY <1>0, <2>1, <2>2, <2>3, <2>4
<1>6. ASSUME NEW u \in Urls, InsertJob(p, u) PROVE Counted
  <2>1. call[p] \in Inserts /\ inFlight' = inFlight
    BY <1>6, CallKinds DEF InsertJob, NextUrl
  <2>2. CASE status[u] = "none"
    <3>1. SameActive
      BY <1>6, <2>2, ActiveKept DEF InsertJob, TypeOK
    <3> DEFINE c == [call[p] EXCEPT !.step = "origin", !.todo = @ \ {u}, !.last = u]
    <3>2. c \in Inserts /\ c.page = call[p].page
      BY <2>1 DEF Inserts
    <3>3. Call(p, c)
      BY <1>6, <2>2 DEF InsertJob
    <3> HIDE DEF c
    <3>4. QED
      BY <1>0, <2>1, <3>1, <3>2, <3>3
  <2>3. CASE status[u] # "none"
    <3>1. SameActive
      BY <1>1, <1>6, <2>3 DEF InsertJob
    <3> DEFINE c == [call[p] EXCEPT !.step = "insert", !.todo = @ \ {u}, !.last = NoUrl]
    <3>2. c \in Inserts /\ c.page = call[p].page
      BY <2>1 DEF Inserts
    <3>3. Call(p, c)
      BY <1>6, <2>3 DEF InsertJob
    <3> HIDE DEF c
    <3>4. QED
      BY <1>0, <2>1, <3>1, <3>2, <3>3
  <2>4. QED
    BY <2>2, <2>3
<1>7. CASE InsertOrigin(p)
  <2>1. call[p] \in Inserts /\ inFlight' = inFlight /\ SameActive
    BY <1>1, <1>7, CallKinds DEF InsertOrigin
  <2> DEFINE c == [call[p] EXCEPT !.step = "insert", !.last = NoUrl, !.used = @ + 1]
  <2>2. c \in Inserts /\ c.page = call[p].page
    <3>1. call[p].used + 1 \in Nat
      BY <2>1 DEF Inserts
    <3>2. QED
      BY <2>1, <3>1 DEF Inserts
  <2>3. Call(p, c)
    BY <1>7 DEF InsertOrigin
  <2> HIDE DEF c
  <2>4. QED
    BY <1>0, <2>1, <2>2, <2>3
<1>8. CASE EndInserts(p)
  <2>1. call[p] \in Inserts /\ inFlight' = inFlight /\ SameActive
    BY <1>1, <1>8, CallKinds DEF EndInserts
  <2>2. QED
    BY <1>8, <2>1, CountedEnqueued DEF EndInserts
<1>9. CASE Crash(p)
  <2> DEFINE c == End("dead", IF call[p].step = "read" THEN NoUrl ELSE call[p].page)
  <2>1. call[p] # Idle /\ inFlight' = inFlight /\ SameActive /\ Call(p, c)
    BY <1>1, <1>9 DEF Crash
  <2>2. /\ c # Idle /\ c.step # "read"
        /\ c.page = IF call[p].step = "read" THEN NoUrl ELSE call[p].page
    BY DEF End, Idle
  <2> HIDE DEF c
  <2>3. CASE call[p].step = "read"
    BY <2>1, <2>2, <2>3, CountedFree DEF Free
  <2>4. CASE call[p].step # "read"
    BY <2>1, <2>2, <2>4, CountedBusy
  <2>5. QED
    BY <2>3, <2>4
<1>10. CASE UpdateOrigin(p)
  BY <1>1, <1>10, CountedPaid DEF UpdateOrigin
<1>11. CASE DropInFlight(p)
  BY <1>1, <1>11, CountedPaid DEF DropInFlight
<1>12. QED
  BY <1>2, <1>3, <1>4, <1>5, <1>6, <1>7, <1>8, <1>9, <1>10, <1>11 DEF CallStep

LEMMA CountedProjector ==
  ASSUME TypeOK, NEW p \in Callers, ProjectorStep(p)
  PROVE  Counted
<1>0. {"done", "failed", "blocked", "backoff", "queued"} \subseteq Statuses \ {"active"}
  BY DEF Statuses, Over
<1>1. ASSUME NEW u \in Urls, ReadJob(p, u) PROVE Counted
  <2>1. PICK c : Call(p, c) /\ c.step = "read"
    BY <1>1 DEF ReadJob
  <2>2. Free(call[p]) /\ Free(c) /\ inFlight' = inFlight /\ SameActive
    BY <1>1, <2>1, ActiveKept DEF ReadJob, Free, originVars, jobVars
  <2>3. QED
    BY <2>1, <2>2, CountedFree
<1>2. ASSUME NEW u \in Urls, ProjectionFailed(p, u) PROVE Counted
  <2> DEFINE c == End("drop", u)
  <2>1. Owing(c, u)
    BY DEF Owing, End, Idle
  <2>2. /\ Free(call[p]) /\ Call(p, c) /\ inFlight' = inFlight /\ status[u] = "active"
        /\ status' = [status EXCEPT ![u] = "failed"]
    BY <1>2 DEF ProjectionFailed, Free, originVars
  <2> HIDE DEF c
  <2>3. QED
    BY <1>0, <2>1, <2>2, CountedEnds
<1>3. CASE GiveUp(p)
  <2>1. Free(call[p]) /\ Free(Idle) /\ inFlight' = inFlight /\ SameActive
    BY <1>3, ActiveKept DEF GiveUp, Free, originVars, jobVars
  <2>2. QED
    BY <1>3, <2>1, CountedFree DEF GiveUp
<1>4. Finish(p) # Idle /\ Finish(p).step # "read" /\ Finish(p).page = call[p].page
  BY DEF Finish, End, Idle
<1>5. CASE ApplyPage(p)
  <2> DEFINE f == NewCall(call[p].page, call[p].crawl, call[p].pages, call[p].limit,
                          call[p].depth + 1, Links[call[p].page], FALSE)
             c == IF call[p].depth < MaxDepth THEN f ELSE Finish(p)
  <2>1. f # Idle /\ f.step # "read" /\ f.page = call[p].page
    BY DEF NewCall, Idle
  <2> HIDE DEF f
  <2>2. c # Idle /\ c.step # "read" /\ c.page = call[p].page
    BY <1>4, <2>1
  <2>3. WriteOutcome(p, "done", c)
    BY <1>5 DEF ApplyPage, f
  <2> HIDE DEF c
  <2>4. QED
    BY <1>0, <2>2, <2>3, CountedWrite
<1>6. QED
  BY <1>0, <1>1, <1>2, <1>3, <1>4, <1>5, CountedWrite
     DEF ProjectorStep, Outcome, ApplyFailed, ApplyBlocked, ApplyRetryable, ApplyRequiresJs

\* A step that touches neither calls nor counts.
LEMMA CountedStill ==
  ASSUME SameActive, UNCHANGED <<inFlight, call>>
  PROVE  Counted
<1>1. SamePending
  BY DEF SamePending, PendingIn
<1>2. QED
  BY <1>1, CountedSame

\* A timeout moves the job and the count in one statement.
LEMMA CountedRelease ==
  ASSUME TypeOK, NEW u \in Urls, Release(u)
  PROVE  Counted
<1>1. PICK s \in {"backoff", "failed"} : status' = [status EXCEPT ![u] = s]
  BY DEF Release, NextAttempt
<1>2. /\ status[u] = "active" /\ call' = call
      /\ inFlight' = [inFlight EXCEPT ![OriginOf[u]] = Less(@)]
      /\ s \in Statuses \ {"active"}
  BY DEF Release, NextAttempt, Statuses, Over
<1>3. ASSUME NEW o \in Origins PROVE Adjusts(o)
  <2>1. Cardinality(ActiveIn(o)) = Cardinality(ActiveIn(o)') + One(u, o)
    BY <1>1, <1>2, ActiveLeaves
  <2>2. PendingIn(o)' = PendingIn(o)
    BY <1>2 DEF PendingIn
  <2>3. Owed(o) = Owed(o)' + One(u, o)
    BY <2>1, <2>2, FiniteCounts, FiniteCountsNext DEF One, Owed
  <2>4. inFlight'[o] = IF OriginOf[u] = o THEN Less(inFlight[o]) ELSE inFlight[o]
    BY <1>2 DEF TypeOK
  <2>5. QED
    BY <2>3, <2>4, OwedType DEF One, Adjusts, Moves
<1>4. QED
  BY <1>3 DEF Counted

LEMMA CountedTime == TypeOK /\ TimeStep => Counted
<1> SUFFICES ASSUME TypeOK, TimeStep PROVE Counted
  OBVIOUS
<1> USE DEF jobVars, originVars
<1>1. ASSUME NEW u \in Urls, RetryDue(u) PROVE Counted
  <2>1. SameActive
    BY <1>1, ActiveKept DEF RetryDue, TypeOK
  <2>2. QED
    BY <1>1, <2>1, CountedStill DEF RetryDue
<1>2. ASSUME NEW o \in Origins, OriginRested(o) PROVE Counted
  BY <1>2, ActiveKept, CountedStill DEF OriginRested
<1>3. QED
  BY <1>1, <1>2, CountedRelease DEF TimeStep

\* The commands that remove jobs leave the active ones, but for stop_all_jobs, which
\* leaves no origin to account for; the reset that follows sets every count to zero.
LEMMA CountedOperator ==
  ASSUME CountedInv, OperatorStep
  PROVE  InFlightAccounted' /\ (stopping' => overtaken' = Origins)
<1> USE DEF originVars
<1>0. ASSUME Counted, UNCHANGED <<stopping, overtaken>>
      PROVE  InFlightAccounted' /\ (stopping' => overtaken' = Origins)
  BY <1>0, CountedKeeps DEF CountedInv
<1>1. CASE RetryFailed
  <2>1. SameActive
    BY <1>1, ActiveKept DEF RetryFailed
  <2>2. QED
    BY <1>0, <1>1, <2>1, CountedStill DEF RetryFailed, claimVars
<1>2. ASSUME NEW U \in SUBSET Urls, RemoveJobs(U), \A u \in U : status[u] # "active"
      PROVE  Counted
  <2>1. SameActive
    BY <1>2, ActiveKept DEF RemoveJobs, Remove
  <2>2. QED
    BY <1>2, <2>1, CountedStill DEF RemoveJobs
<1>3. CASE CleanupCompleted
  BY <1>0, <1>2, <1>3 DEF CleanupCompleted
<1>4. CASE CleanupFailed
  BY <1>0, <1>2, <1>4 DEF CleanupFailed
<1>5. CASE StopJobs
  BY <1>5 DEF StopJobs, InFlightAccounted
<1>6. CASE ResetOrigins
  <2>1. overtaken' = Origins /\ stopping' = FALSE
    BY <1>6 DEF ResetOrigins, CountedInv
  <2>2. ASSUME NEW o \in Origins PROVE inFlight'[o] <= Owed(o)'
    <3>1. inFlight'[o] = 0
      BY <1>6 DEF ResetOrigins
    <3>2. QED
      BY <3>1, OwedType
  <2>3. QED
    BY <2>1, <2>2 DEF InFlightAccounted
<1>7. QED
  BY <1>1, <1>3, <1>4, <1>5, <1>6 DEF OperatorStep

LEMMA CountedClaim ==
  ASSUME NoSplitClaim, CountedInv, NEW c \in Crawlers, ClaimStep(c)
  PROVE  Counted /\ UNCHANGED <<picked, stopping, overtaken>>
<1>1. PICK T \in SUBSET Urls : Claim(c, T)
  BY DEF NoSplitClaim, CountedInv, ClaimStep, ScanFrontier, LockCandidates
<1>2. T \in SUBSET {u \in Urls : status[u] = "queued"}
  BY <1>1 DEF Claim, Chosen, Candidates, Eligible
<1>3. /\ status' = [u \in Urls |-> IF u \in T THEN "active" ELSE status[u]]
      /\ \A o \in Origins :
           inFlight'[o] = inFlight[o] + Cardinality({u \in T : OriginOf[u] = o})
      /\ UNCHANGED <<call, picked, stopping, overtaken>>
  BY <1>1 DEF Claim, TakeJobs
<1>4. ASSUME NEW o \in Origins PROVE Adjusts(o)
  <2> DEFINE N == Cardinality({u \in T : OriginOf[u] = o})
  <2>1. Cardinality(ActiveIn(o)') = Cardinality(ActiveIn(o)) + N
    BY <1>2, <1>3, ActiveJoins DEF CountedInv
  <2>2. PendingIn(o)' = PendingIn(o)
    BY <1>3 DEF PendingIn
  <2>3. N \in Nat
    BY FiniteUrls
  <2>4. inFlight'[o] = inFlight[o] + N
    BY <1>3
  <2> HIDE DEF N
  <2>5. Owed(o)' = Owed(o) + N
    BY <2>1, <2>2, <2>3, FiniteCounts DEF Owed
  <2>6. QED
    BY <2>3, <2>4, <2>5 DEF Adjusts, Moves
<1>5. QED
  BY <1>3, <1>4 DEF Counted

LEMMA CountedInit == Init => CountedInv
<1> SUFFICES ASSUME Init PROVE CountedInv
  OBVIOUS
<1>1. \A o \in Origins : ActiveIn(o) = {} /\ PendingIn(o) = {} /\ inFlight[o] = 0
  BY DEF Init, ActiveIn, PendingIn
<1>2. InFlightAccounted
  BY <1>1, FS_EmptySet DEF InFlightAccounted, Owed
<1>3. QED
  BY <1>2, TypeInit DEF CountedInv, Init

LEMMA CountedNext ==
  ASSUME NoSplitClaim
  PROVE  CountedInv /\ [Next]_vars => CountedInv'
<1> SUFFICES ASSUME CountedInv, [Next]_vars PROVE CountedInv'
  OBVIOUS
<1>1. TypeOK /\ TypeOK'
  BY TypeNext DEF CountedInv
<1>2. ASSUME Counted, UNCHANGED <<picked, stopping>>, overtaken \subseteq overtaken'
      PROVE  CountedInv'
  <2>1. InFlightAccounted'
    BY <1>2, CountedKeeps
  <2>2. QED
    BY <1>1, <1>2, <2>1 DEF CountedInv, TypeOK
<1>3. CASE UNCHANGED vars
  <2>1. Counted
    BY <1>3, ActiveKept, CountedStill DEF vars
  <2>2. QED
    BY <1>2, <1>3, <2>1 DEF vars
<1>4. ASSUME NEW p \in Callers, CallStep(p) PROVE CountedInv'
  <2>1. UNCHANGED <<picked, stopping, overtaken>>
    BY <1>4 DEF CallStep, StartCrawl, Recrawl, CountBudget, DeleteRevisited, InsertJob,
                InsertOrigin, EndInserts, Crash, UpdateOrigin, DropInFlight, claimVars
  <2>2. QED
    BY <1>1, <1>2, <1>4, <2>1, CountedCall
<1>5. ASSUME NEW p \in Callers, ProjectorStep(p) PROVE CountedInv'
  <2>1. UNCHANGED <<picked, stopping>> /\ overtaken \subseteq overtaken'
    BY <1>5 DEF ProjectorStep, Outcome, ReadJob, ProjectionFailed, ApplyPage, ApplyFailed,
                ApplyBlocked, ApplyRetryable, ApplyRequiresJs, GiveUp, WriteOutcome,
                claimVars
  <2>2. QED
    BY <1>1, <1>2, <1>5, <2>1, CountedProjector
<1>6. CASE TimeStep
  <2>1. UNCHANGED <<picked, stopping, overtaken>>
    BY <1>6 DEF TimeStep, Release, RetryDue, OriginRested, claimVars
  <2>2. QED
    BY <1>1, <1>2, <1>6, <2>1, CountedTime
<1>7. CASE OperatorStep
  <2>1. UNCHANGED picked
    BY <1>7 DEF OperatorStep, RetryFailed, CleanupCompleted, CleanupFailed, StopJobs,
                ResetOrigins, RemoveJobs, claimVars
  <2>2. QED
    BY <1>1, <1>7, <2>1, CountedOperator DEF CountedInv
<1>8. ASSUME NEW c \in Crawlers, ClaimStep(c) PROVE CountedInv'
  BY <1>2, <1>8, CountedClaim
<1>9. QED
  BY <1>3, <1>4, <1>5, <1>6, <1>7, <1>8 DEF Next

\* If no two claims overlap, then in_flight_count is at no time above the number of
\* the origin's jobs in flight plus the decrements still to come from calls that have
\* written the outcome of a page of it, calls that crashed included (but for the time
\* between the two statements of a stop); and it is exactly that number unless all
\* jobs were stopped or an outcome was written for a job that was released between
\* its projector's read and its write.
THEOREM InFlightAccountedHolds ==
  ASSUME NoSplitClaim
  PROVE  Spec => []InFlightAccounted
<1>1. Init => CountedInv
  BY CountedInit
<1>2. CountedInv /\ [Next]_vars => CountedInv'
  BY CountedNext
<1>3. CountedInv => InFlightAccounted
  BY DEF CountedInv
<1>4. QED
  BY <1>1, <1>2, <1>3, PTL DEF Spec
=============================================================================
