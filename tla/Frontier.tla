------------------------------- MODULE Frontier -------------------------------
(***************************************************************************)
(* The frontier of one owner: which pages of a crawl enter it, and which of *)
(* its jobs a crawler may take.  Code: enqueue_urls, the origin bookkeeping *)
(* and the timeouts of services/api/src/crawler.rs, and the claim query of  *)
(* crawl/frontier.rs.                                                       *)
(*                                                                         *)
(* A crawl has a page budget: enqueue_urls counts the rows that carry its   *)
(* budget_id, then inserts one URL after the other.  An origin has a limit  *)
(* of jobs in flight and a time before which none of its jobs may be taken. *)
(* As in JobPipeline a step is one SQL statement.  Leases, staging and      *)
(* attempts belong to that module: here a job that is claimed or ingesting  *)
(* is active.  Its result is projected in steps: a projector reads the job, *)
(* writes the outcome later by the job's id alone, then inserts the links,  *)
(* then settles the origin; a timeout may release the job between any two.  *)
(*                                                                         *)
(* URLs are normalised and not blacklisted; in which order a caller inserts *)
(* the URLs it was given is left open.                                      *)
(***************************************************************************)
EXTENDS Integers, FiniteSets

CONSTANTS
  Urls,        \* the URLs there are, crawl_jobs being unique on (owner, url)
  Origins,     \* crawl_origins.origin_key
  OriginOf,    \* origin of a URL
  Links,       \* the URLs a page links to, within the scope of its crawl
  Crawls,      \* budget ids: one per seed request, or per round of a rule
  SeedOf,      \* the URL a crawl starts from
  MaxPages,    \* page budget of a crawl
  Limit,       \* same_origin_concurrency of a crawl
  MaxDepth,    \* max_depth of the crawls, 10 at most
  Callers,     \* tasks and handlers that insert URLs
  Crawlers,    \* crawler workers
  JsCrawlers,  \* those with a browser
  MaxJobs,     \* jobs a crawler asks for
  NoUrl,       \* no page: a seed request
  MaxInserts,  \* bound: rows ever inserted
  MaxRequeues, \* bound: steps that put jobs back into the queue
  Races        \* which of the races below may happen

(* "split_claim": another claim commits between the snapshot a claim selects   *)
(*   its candidates from and the lock on them.                                *)
(* "crash": a caller dies, or a statement of it fails, between two statements. *)
(* "stop": the operator stops all jobs.                                        *)
RaceKinds == {"split_claim", "crash", "stop"}

ASSUME GraphAssumption ==
  /\ OriginOf \in [Urls -> Origins]
  /\ Links \in [Urls -> SUBSET Urls]
  /\ NoUrl \notin Urls

ASSUME CrawlsAssumption ==
  /\ SeedOf \in [Crawls -> Urls]
  /\ MaxPages \in [Crawls -> Nat \ {0}]
  /\ Limit \in [Crawls -> Nat \ {0}]
  /\ MaxDepth \in 0 .. 10
  /\ MaxJobs \in Nat \ {0}
  /\ JsCrawlers \subseteq Crawlers

ASSUME BoundsAssumption ==
  /\ IsFiniteSet(Urls) /\ IsFiniteSet(Callers)
  /\ MaxInserts \in Nat
  /\ MaxRequeues \in Nat
  /\ Races \subseteq RaceKinds

VARIABLES
  status,    \* of the row of a URL; "none": no row
  row,       \* its budget_id, depth, order of insertion and requires_js
  origin,    \* "absent", or whether next_allowed_at is past or to come
  inFlight,  \* crawl_origins.in_flight_count
  call,      \* what a caller is doing
  picked,    \* rows a crawler's claim selected and has not locked yet
  stopping,  \* stop_all_jobs has removed the jobs, not reset the origins yet
  started,   \* history: crawls that were started
  overtaken, \* history: origins an outcome was written for a job of which was no
             \* longer in flight, having been released meanwhile, and all that there
             \* are once the operator has stopped all jobs
  inserts,   \* history: rows inserted, the clock of discovered_at
  requeues   \* history: see MaxRequeues

vars == <<status, row, origin, inFlight, call, picked, stopping, started, overtaken,
          inserts, requeues>>
jobVars == <<status, row, inserts, requeues>>
originVars == <<origin, inFlight>>
claimVars == <<picked, stopping, started, overtaken>>

Over == {"done", "failed", "blocked"}
Statuses == {"none", "queued", "backoff", "active"} \cup Over
Depths == 0 .. MaxDepth
Rows == [crawl : Crawls, pages : Nat \ {0}, limit : Nat \ {0}, depth : Depths,
         born : 1 .. MaxInserts, js : BOOLEAN]
Idle == [step |-> "idle"]

\* A caller that has read its job and not written the outcome ..
Reads == [step : {"read"}, page : Urls, job : 1 .. MaxInserts, crawl : Crawls,
          pages : Nat \ {0}, limit : Nat \ {0}, depth : Depths]
\* .. that inserts URLs ..
Inserts == [step : {"count", "insert", "revisited", "origin"}, page : Urls \cup {NoUrl},
            crawl : Crawls, pages : Nat \ {0}, limit : Nat \ {0}, depth : Depths,
            todo : SUBSET Urls, last : Urls \cup {NoUrl}, used : Nat,
            revisit : BOOLEAN]
\* .. that has only the origin left to settle, or died.
Ends == [step : {"finish", "drop"}, page : Urls] \cup
        [step : {"dead"}, page : Urls \cup {NoUrl}]
Calls == {Idle} \cup Reads \cup Inserts \cup Ends

TypeOK ==
  /\ status \in [Urls -> Statuses]
  /\ DOMAIN row = {u \in Urls : status[u] # "none"}
  /\ \A u \in DOMAIN row : row[u] \in Rows
  /\ origin \in [Origins -> {"absent", "ready", "resting"}]
  /\ inFlight \in [Origins -> Nat]
  /\ call \in [Callers -> Calls]
  /\ picked \in [Crawlers -> SUBSET (Urls \X (1 .. MaxInserts))]
  /\ stopping \in BOOLEAN
  /\ started \subseteq Crawls
  /\ overtaken \subseteq Origins
  /\ inserts \in 0 .. MaxInserts
  /\ requeues \in 0 .. MaxRequeues

Init ==
  /\ status = [u \in Urls |-> "none"]
  /\ row = [u \in {} |-> Idle]
  /\ origin = [o \in Origins |-> "absent"]
  /\ inFlight = [o \in Origins |-> 0]
  /\ call = [p \in Callers |-> Idle]
  /\ picked = [c \in Crawlers |-> {}]
  /\ stopping = FALSE
  /\ started = {}
  /\ overtaken = {}
  /\ inserts = 0
  /\ requeues = 0

-----------------------------------------------------------------------------
(* Rows. *)

Known == {u \in Urls : status[u] # "none"}
PagesOf(b) == {u \in Known : row[u].crawl = b}
ActiveIn(o) == {u \in Urls : status[u] = "active" /\ OriginOf[u] = o}

\* Mutant: no floor.
Less_NoFloor(n) == n - 1

\* greatest(in_flight_count - 1, 0)
Less(n) == IF n > 0 THEN n - 1 ELSE 0

\* The statement that takes the rows of U away.
Remove(U) ==
  /\ status' = [u \in Urls |-> IF u \in U THEN "none" ELSE status[u]]
  /\ row' = [u \in Known \ U |-> row[u]]
  /\ UNCHANGED <<inserts, requeues>>

-----------------------------------------------------------------------------
(* enqueue_urls. *)

Call(p, c) == call' = [call EXCEPT ![p] = c]
End(step, page) == [step |-> step, page |-> page]
NewCall(page, b, pages, limit, depth, todo, revisit) ==
  [step |-> "count", page |-> page, crawl |-> b, pages |-> pages, limit |-> limit,
   depth |-> depth, todo |-> todo, last |-> NoUrl, used |-> 0, revisit |-> revisit]

\* What follows the insertions: the bookkeeping of the page, if there is one.
Enqueued(p) ==
  Call(p, IF call[p].page = NoUrl THEN Idle ELSE End("finish", call[p].page))

\* A seed request, or a round of a rule: a new budget id.
StartCrawl(p, b) ==
  /\ call[p] = Idle
  /\ b \notin started
  /\ started' = started \cup {b}
  /\ \E r \in BOOLEAN :
       Call(p, NewCall(NoUrl, b, MaxPages[b], Limit[b], 0, {SeedOf[b]}, r))
  /\ UNCHANGED <<jobVars, originVars, picked, stopping, overtaken>>

\* The scheduler revisits a page it finds stale, as a crawl of one page under
\* the budget id of the job that indexed it (a filtered page is done as well, but
\* has no document to find stale: the model does not tell them apart).
Recrawl(p, u) ==
  /\ call[p] = Idle
  /\ status[u] = "done"
  /\ Call(p, NewCall(NoUrl, row[u].crawl, 1, 1, 0, {u}, TRUE))
  /\ UNCHANGED <<jobVars, originVars, claimVars>>

\* select count(*) .. where budget_id = $2; nothing is inserted if the budget is
\* used up.  A count that fails is taken as zero.
CountBudget(p) ==
  /\ call[p].step = "count"
  /\ \E n \in {Cardinality(PagesOf(call[p].crawl))} \cup
               (IF "crash" \in Races THEN {0} ELSE {}) :
       IF n >= call[p].pages THEN Enqueued(p)
       ELSE Call(p, [call[p] EXCEPT !.step = "insert", !.used = n])
  /\ UNCHANGED <<jobVars, originVars, claimVars>>

\* The next URL, while the budget lasts; a revisit deletes the row of a job that
\* is over before it inserts.
NextUrl(p, u) ==
  /\ call[p].step = "insert"
  /\ call[p].used < call[p].pages
  /\ u \in call[p].todo

DeleteRevisited(p, u) ==
  /\ NextUrl(p, u)
  /\ call[p].revisit
  /\ Remove({v \in {u} : status[v] \in Over})
  /\ Call(p, [call[p] EXCEPT !.step = "revisited", !.last = u])
  /\ UNCHANGED <<originVars, claimVars>>

\* insert .. on conflict (owner, url) do nothing
InsertJob(p, u) ==
  /\ \/ NextUrl(p, u) /\ ~call[p].revisit
     \/ call[p].step = "revisited" /\ call[p].last = u
  /\ IF status[u] = "none"
     THEN /\ inserts < MaxInserts
          /\ inserts' = inserts + 1
          /\ status' = [status EXCEPT ![u] = "queued"]
          /\ row' = [v \in Known \cup {u} |->
                       IF v # u THEN row[v]
                       ELSE [crawl |-> call[p].crawl, pages |-> call[p].pages,
                             limit |-> call[p].limit, depth |-> call[p].depth,
                             born |-> inserts + 1, js |-> FALSE]]
          /\ Call(p, [call[p] EXCEPT !.step = "origin", !.todo = @ \ {u}, !.last = u])
          /\ UNCHANGED requeues
     ELSE /\ Call(p, [call[p] EXCEPT !.step = "insert", !.todo = @ \ {u},
                                     !.last = NoUrl])
          /\ UNCHANGED jobVars
  /\ UNCHANGED <<originVars, claimVars>>

\* Mutant: no row for the origin.
InsertOrigin_Missing(p) ==
  /\ call[p].step = "origin"
  /\ Call(p, [call[p] EXCEPT !.step = "insert", !.last = NoUrl, !.used = @ + 1])
  /\ UNCHANGED <<jobVars, originVars, claimVars>>

InsertOrigin(p) ==
  /\ call[p].step = "origin"
  /\ origin' = [origin EXCEPT ![OriginOf[call[p].last]] =
                  IF @ = "absent" THEN "ready" ELSE @]
  /\ Call(p, [call[p] EXCEPT !.step = "insert", !.last = NoUrl, !.used = @ + 1])
  /\ UNCHANGED <<jobVars, inFlight, claimVars>>

EndInserts(p) ==
  /\ call[p].step = "insert"
  /\ call[p].todo = {} \/ call[p].used >= call[p].pages
  /\ Enqueued(p)
  /\ UNCHANGED <<jobVars, originVars, claimVars>>

\* The caller dies, or one of its statements fails.  Callers that come after it
\* are the others.  One that has only read its job leaves nothing undone.
Crash(p) ==
  /\ "crash" \in Races
  /\ call[p] # Idle
  /\ call[p].step # "dead"
  /\ Call(p, End("dead", IF call[p].step = "read" THEN NoUrl ELSE call[p].page))
  /\ UNCHANGED <<jobVars, originVars, claimVars>>

-----------------------------------------------------------------------------
(* Outcomes: the job is read, its row is written, the URLs it found come next,  *)
(* the origin last.                                                             *)

\* apply_staged_result selects the job while it is ingesting ..
ReadJob(p, u) ==
  /\ call[p] = Idle
  /\ status[u] = "active"
  /\ Call(p, [step |-> "read", page |-> u, job |-> row[u].born, crawl |-> row[u].crawl,
              pages |-> row[u].pages, limit |-> row[u].limit, depth |-> row[u].depth])
  /\ UNCHANGED <<jobVars, originVars, claimVars>>

\* The row the caller has read is still there, whatever its status is by now.
StillThere(p) == call[p].page \in Known /\ row[call[p].page].born = call[p].job

\* .. and writes it "where id = $1": a job that was released meanwhile is written as
\* well, one that was removed is not, and the caller goes on in either case.
WriteOutcome(p, outcome, next) ==
  LET u == call[p].page IN
  /\ call[p].step = "read"
  /\ status' = [status EXCEPT ![u] = IF StillThere(p) THEN outcome ELSE @]
  /\ overtaken' = IF StillThere(p) /\ status[u] = "active" THEN overtaken
                  ELSE overtaken \cup {OriginOf[u]}
  /\ Call(p, next)
  /\ UNCHANGED <<inserts, originVars, picked, stopping, started>>

\* No URL was found, or none is followed.
Finish(p) == End("finish", call[p].page)

\* The page was fetched: indexed or filtered.  Its links are followed unless it
\* is as deep as the crawl goes.
ApplyPage(p) ==
  /\ WriteOutcome(p, "done",
       IF call[p].depth < MaxDepth
       THEN NewCall(call[p].page, call[p].crawl, call[p].pages, call[p].limit,
                    call[p].depth + 1, Links[call[p].page], FALSE)
       ELSE Finish(p))
  /\ UNCHANGED <<row, requeues>>

ApplyFailed(p) ==
  /\ WriteOutcome(p, "failed", Finish(p))
  /\ UNCHANGED <<row, requeues>>

ApplyBlocked(p) ==
  /\ WriteOutcome(p, "blocked", Finish(p))
  /\ UNCHANGED <<row, requeues>>

ApplyRetryable(p) ==
  /\ requeues < MaxRequeues
  /\ requeues' = requeues + 1
  /\ WriteOutcome(p, "backoff", Finish(p))
  /\ UNCHANGED row

\* Only crawlers without a browser report it, and they get no row that asks for one.
ApplyRequiresJs(p) ==
  /\ requeues < MaxRequeues
  /\ requeues' = requeues + 1
  /\ WriteOutcome(p, "queued", Finish(p))
  /\ row' = [u \in Known |-> IF u = call[p].page /\ StillThere(p)
                              THEN [row[u] EXCEPT !.js = TRUE] ELSE row[u]]

\* The projection fails before it writes ..
GiveUp(p) ==
  /\ call[p].step = "read"
  /\ Call(p, Idle)
  /\ UNCHANGED <<jobVars, originVars, claimVars>>

\* .. and mark_projection_failure ends the job, if it is still the one the item
\* was staged for: this statement checks the lease and the status.
ProjectionFailed(p, u) ==
  /\ call[p] = Idle
  /\ status[u] = "active"
  /\ status' = [status EXCEPT ![u] = "failed"]
  /\ Call(p, End("drop", u))
  /\ UNCHANGED <<row, inserts, requeues, originVars, claimVars>>

\* update_origin_after_report: the origin of the job, and the one it was
\* redirected to (a second statement, which leaves the count alone).
UpdateOrigin(p) ==
  LET o == OriginOf[call[p].page] IN
  /\ call[p].step = "finish"
  /\ \E final \in Origins :
       origin' = [x \in Origins |-> IF x \in {o, final} THEN "resting" ELSE origin[x]]
  /\ inFlight' = [inFlight EXCEPT ![o] = Less(@)]
  /\ Call(p, Idle)
  /\ UNCHANGED <<jobVars, claimVars>>

DropInFlight(p) ==
  /\ call[p].step = "drop"
  /\ inFlight' = [inFlight EXCEPT ![OriginOf[call[p].page]] = Less(@)]
  /\ Call(p, Idle)
  /\ UNCHANGED <<jobVars, origin, claimVars>>

-----------------------------------------------------------------------------
(* Timeouts and the passing of time. *)

\* A claim or an ingest timeout, or the deletion of the job's crawler: another
\* attempt after 30 s, or none.
NextAttempt(u) ==
  /\ status[u] = "active"
  /\ \/ /\ requeues < MaxRequeues
        /\ requeues' = requeues + 1
        /\ status' = [status EXCEPT ![u] = "backoff"]
     \/ /\ status' = [status EXCEPT ![u] = "failed"]
        /\ UNCHANGED requeues
  /\ origin' = [origin EXCEPT ![OriginOf[u]] = "resting"]

\* Mutant: the origin keeps the job in its count.
Release_Uncounted(u) ==
  /\ NextAttempt(u)
  /\ UNCHANGED <<row, inserts, inFlight, call, claimVars>>

\* One statement for the job and its origin.
Release(u) ==
  /\ NextAttempt(u)
  /\ inFlight' = [inFlight EXCEPT ![OriginOf[u]] = Less(@)]
  /\ UNCHANGED <<row, inserts, call, claimVars>>

\* next_retry_at <= now
RetryDue(u) ==
  /\ status[u] = "backoff"
  /\ status' = [status EXCEPT ![u] = "queued"]
  /\ UNCHANGED <<row, inserts, requeues, originVars, call, claimVars>>

\* next_allowed_at <= now
OriginRested(o) ==
  /\ origin[o] = "resting"
  /\ origin' = [origin EXCEPT ![o] = "ready"]
  /\ UNCHANGED <<jobVars, inFlight, call, claimVars>>

-----------------------------------------------------------------------------
(* Operator commands. *)

RetryFailed ==
  /\ \E u \in Urls : status[u] = "failed"
  /\ requeues < MaxRequeues
  /\ requeues' = requeues + 1
  /\ status' = [u \in Urls |-> IF status[u] = "failed" THEN "queued" ELSE status[u]]
  /\ UNCHANGED <<row, inserts, originVars, call, claimVars>>

RemoveJobs(U) ==
  /\ U # {}
  /\ Remove(U)
  /\ UNCHANGED <<originVars, call, picked, started>>

CleanupCompleted ==
  /\ RemoveJobs({u \in Urls : status[u] = "done"})
  /\ UNCHANGED <<stopping, overtaken>>

CleanupFailed ==
  /\ RemoveJobs({u \in Urls : status[u] \in {"failed", "blocked"}})
  /\ UNCHANGED <<stopping, overtaken>>

\* stop_all_jobs: the jobs first ..
StopJobs ==
  /\ "stop" \in Races
  /\ ~stopping
  /\ RemoveJobs({u \in Urls : status[u] \in {"queued", "backoff", "active"}})
  /\ stopping' = TRUE
  /\ overtaken' = Origins

\* .. then every origin.
ResetOrigins ==
  /\ stopping
  /\ stopping' = FALSE
  /\ origin' = [o \in Origins |-> IF origin[o] = "absent" THEN "absent" ELSE "ready"]
  /\ inFlight' = [o \in Origins |-> 0]
  /\ UNCHANGED <<jobVars, call, picked, started, overtaken>>

-----------------------------------------------------------------------------
(* Claims. *)

\* priority desc, discovered_at asc: the priority falls with the depth.
Before(u, v) ==
  \/ row[u].depth < row[v].depth
  \/ row[u].depth = row[v].depth /\ row[u].born < row[v].born

\* ranked_jobs
Eligible(c, u) ==
  /\ status[u] = "queued"
  /\ origin[OriginOf[u]] = "ready"
  /\ row[u].js => c \in JsCrawlers

\* Mutant: ranks count from zero.
Rank_FromZero(c, u) ==
  Cardinality({v \in Urls : /\ Eligible(c, v)
                            /\ OriginOf[v] = OriginOf[u]
                            /\ Before(v, u)})

\* row_number() over (partition by origin_key order by ..)
Rank(c, u) ==
  Cardinality({v \in Urls : /\ Eligible(c, v)
                            /\ OriginOf[v] = OriginOf[u]
                            /\ v = u \/ Before(v, u)})

\* active_count + origin_rank <= same_origin_concurrency
Candidates(c) ==
  {u \in Urls : /\ Eligible(c, u)
                /\ Cardinality(ActiveIn(OriginOf[u])) + Rank(c, u) <= row[u].limit}

\* What "order by .. limit .. for update skip locked" may return.  Which of two
\* origins comes first depends on times the model does not keep.
Chosen(S, T, locked) ==
  /\ T \subseteq S
  /\ Cardinality(T) <= MaxJobs
  /\ \A v \in S \ T :
       \/ v \in locked
       \/ /\ Cardinality(T) = MaxJobs
          /\ \A u \in T : OriginOf[u] = OriginOf[v] => ~Before(v, u)

\* claimed, touched_origins
TakeJobs(T) ==
  /\ status' = [u \in Urls |-> IF u \in T THEN "active" ELSE status[u]]
  /\ inFlight' = [o \in Origins |->
                    inFlight[o] + Cardinality({u \in T : OriginOf[u] = o})]
  /\ UNCHANGED <<row, inserts, requeues, origin, call, stopping, started, overtaken>>

Claim(c, T) ==
  /\ T # {}
  /\ Chosen(Candidates(c), T, {})
  /\ TakeJobs(T)
  /\ UNCHANGED picked

ScanFrontier(c) ==
  /\ "split_claim" \in Races
  /\ picked[c] = {}
  /\ Candidates(c) # {}
  /\ picked' = [picked EXCEPT ![c] = {<<u, row[u].born>> : u \in Candidates(c)}]
  /\ UNCHANGED <<jobVars, originVars, call, stopping, started, overtaken>>

\* The lock re-checks only that the row still exists.
LockCandidates(c, T) ==
  /\ picked[c] # {}
  /\ LET PickedBy(d) == {u \in Known : <<u, row[u].born>> \in picked[d]}
     IN  Chosen(PickedBy(c), T, UNION {PickedBy(d) : d \in Crawlers \ {c}})
  /\ TakeJobs(T)
  /\ picked' = [picked EXCEPT ![c] = {}]

-----------------------------------------------------------------------------
CallStep(p) ==
  \/ \E b \in Crawls : StartCrawl(p, b)
  \/ CountBudget(p)
  \/ \E u \in Urls : Recrawl(p, u) \/ DeleteRevisited(p, u) \/ InsertJob(p, u)
  \/ InsertOrigin(p) \/ EndInserts(p) \/ Crash(p)
  \/ UpdateOrigin(p) \/ DropInFlight(p)

Outcome(p) ==
  \/ ApplyPage(p) \/ ApplyFailed(p) \/ ApplyBlocked(p)
  \/ ApplyRetryable(p) \/ ApplyRequiresJs(p) \/ GiveUp(p)

ProjectorStep(p) ==
  \/ \E u \in Urls : ReadJob(p, u) \/ ProjectionFailed(p, u)
  \/ Outcome(p)

TimeStep ==
  \/ \E u \in Urls : Release(u) \/ RetryDue(u)
  \/ \E o \in Origins : OriginRested(o)

OperatorStep ==
  RetryFailed \/ CleanupCompleted \/ CleanupFailed \/ StopJobs \/ ResetOrigins

ClaimStep(c) ==
  \/ \E T \in SUBSET Urls : Claim(c, T) \/ LockCandidates(c, T)
  \/ ScanFrontier(c)

Next ==
  \/ \E p \in Callers : CallStep(p) \/ ProjectorStep(p)
  \/ TimeStep
  \/ OperatorStep
  \/ \E c \in Crawlers : ClaimStep(c)

Spec == Init /\ [][Next]_vars

-----------------------------------------------------------------------------
(* Safety. *)

\* At no time are more than n jobs of an origin in flight that asked for at most
\* n ("Maximum in-flight jobs allowed at once for the same origin", en
\* translation.json:364), whatever crawls the jobs come from and in whatever
\* order they are queued, claimed and finished; as long as no two claims overlap.
SameOriginLimit ==
  \A o \in Origins, n \in 1 .. Cardinality(Urls) :
    Cardinality({u \in ActiveIn(o) : row[u].limit <= n}) <= n

\* "Total pages allowed for the whole crawl" (en translation.json:362).  The code
\* violates this: two pages of a crawl are projected at once, and each caller
\* counts before the other has inserted.
PageBudget == \A b \in Crawls : Cardinality(PagesOf(b)) <= MaxPages[b]

\* A revisit, be it a round of a rule or the scheduler's recrawl of a page it
\* found stale, gets as far as the page.  The code violates this: the recrawl
\* asks for one page of the budget the page itself has used up.
RevisitNotRefused ==
  [][\A p \in Callers :
       CountBudget(p) /\ call[p].revisit => call'[p] # Idle]_vars

\* in_flight_count never exceeds the number of the origin's jobs in flight plus the
\* outcomes whose bookkeeping is still to come or was lost with its caller: an
\* origin's count is not left high by any order of claims, timeouts, outcomes, late
\* outcomes and stops (while a stop is under way it may be).  It falls short of that
\* number only where all jobs were stopped, or where a projection was overtaken: the
\* timeout took the job off the count, and the projection, the write of which does
\* not look at the status, takes it off again.  As long as no two claims overlap.
PendingIn(o) == {p \in Callers : /\ call[p] # Idle /\ call[p].step # "read"
                                 /\ call[p].page # NoUrl
                                 /\ OriginOf[call[p].page] = o}
Owed(o) == Cardinality(ActiveIn(o)) + Cardinality(PendingIn(o))
InFlightAccounted ==
  \A o \in Origins :
    /\ ~stopping => inFlight[o] <= Owed(o)
    /\ o \notin overtaken => inFlight[o] = Owed(o)

-----------------------------------------------------------------------------
(* Liveness.  Crawlers keep polling; a call that has begun goes on, a projection *)
(* to its write or its failure; a job in flight ends, by its outcome or by a     *)
(* timeout; time passes.                                                         *)

CallProgress(p) ==
  \/ CountBudget(p)
  \/ \E u \in Urls : DeleteRevisited(p, u) \/ InsertJob(p, u)
  \/ InsertOrigin(p) \/ EndInserts(p)
  \/ Outcome(p) \/ UpdateOrigin(p) \/ DropInFlight(p)

Fairness ==
  /\ \A p \in Callers : WF_vars(CallProgress(p))
  /\ \A u \in Urls : WF_vars(Release(u)) /\ WF_vars(RetryDue(u))
  /\ \A o \in Origins : WF_vars(OriginRested(o))
  /\ WF_vars(ResetOrigins)
  /\ \A c \in Crawlers : WF_vars(\E T \in SUBSET Urls : Claim(c, T))

FairSpec == Spec /\ Fairness

\* A page in the queue is crawled or removed: the limit of its origin, the rank of
\* the pages before it, the rest of its origin and the need for a browser hold it
\* back only for a time.
FrontierDrains ==
  \A u \in Urls :
    status[u] \in {"queued", "backoff"} ~> status[u] \notin {"queued", "backoff"}
=============================================================================
