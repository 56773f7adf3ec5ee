# FindVerse: TLA+ models, model checking and proofs

FindVerse is a crawler and search engine made of Rust services around
PostgreSQL, a task stream, OpenSearch and a blob store. This directory holds
TLA+ models of its crawl control plane, its crawler workers, its document store
and its accounts, the TLC configurations that check them on small instances, and
TLAPS proofs of the properties that matter most for every value of the
parameters.

Short names used below: `crawler.rs` is `src/services/api/src/crawler.rs`,
`frontier.rs`, `ingest.rs` and `projection.rs` are in
`src/services/api/src/crawl/`, `worker.rs` is
`src/services/crawler/src/worker.rs` and `fetch.rs` beside it, `lib.rs`,
`dev_auth.rs`, `migration.rs` and `task_bus.rs` are in `src/services/api/src/`, and
`search.rs` and `developer.rs` in its `store/`.

    tlc -workers 2 -config pipeline_safety.cfg MCJobPipeline
    tlapm JobPipelineProofs.tla

## 1. The system

### Processes

| process | loop or entry points | what it writes |
|---|---|---|
| `control-api` | admin and developer HTTP handlers | seeds, rules, operator commands, users, keys |
| `task-api` | claim, report, heartbeat of the workers (`handlers/crawler.rs`) | leases, staged results, wakeups |
| `scheduler` | `run_scheduler`, one pass per tick (`lib.rs:169-204`) | due rules, claim timeouts, recrawls, trimming |
| `projector` | `run_projector`, one pass per batch of wakeups (`lib.rs:206-260`) | ingest recovery, blacklist cleanup, projection |
| `crawler` | worker processes, outside the database (`worker.rs`) | only through `task-api` |
| `query-api` | search and suggest | rate-limit windows and quotas only |
| `blob-storage` | files by key | `crawl-results/<lease>/<job>.json`, `documents/<id>.txt` |

They share nothing but the database, the task stream, the index and the blob
store. No statement of the crawl path runs in an explicit transaction: each SQL
statement commits alone, at READ COMMITTED. So the interleavings that matter
are those between the statements of different handlers, tasks and loops, and a
crash between two statements leaves what the first one wrote.

### Components, their state and what makes them correct

**Crawl job pipeline** (`crawler.rs`, `ingest.rs`, `projection.rs`, `frontier.rs`).
State: `crawl_jobs` (status, lease, attempts, requires_js) and
`crawl_ingest_items` (status per lease and job). Operations: claim, the three
statements of a report (check, stage, accept), projection of an item (pick,
read the job, write the outcome, finish the item, or record a failure), the
claim timeout, the ingest timeout, the recovery of items, and the operator's
retry, cleanup, stop, blacklist and crawler deletion. Hard: results that arrive
after their lease expired; a projector that dies between two statements; a
projection slower than the timeouts; snapshots that are stale when their rows
are updated. Correct if a job is held under a lease exactly as long as it is in
flight, nothing that was settled is crawled again, a result is applied once,
attempts are bounded, and every job and every staged result comes to an end.

**Frontier and origins** (`crawler.rs:3229-3357`, `frontier.rs`). State: which
URLs have a job, its crawl (`budget_id`), depth and limits; `crawl_origins`
(`next_allowed_at`, `in_flight_count`). Operations: `enqueue_urls` (count the
budget, then a row per URL, then its origin), the bookkeeping of an origin after
an outcome, requeues, `stop_all_jobs`, and the claim query with its ranking.
Hard: the check of a budget or a limit and the insertion or claim it guards are
apart; counts are kept in a second table, and both a projection and a timeout may
take one job off them. Correct if the limits of an origin and the budget of a crawl
are kept, no count is left high but by a crash, and no page waits forever.

**Crawl rules and the scheduler pass** (`crawler.rs:2702-2754, 3365-3439`).
State: `crawl_rules.last_enqueued_at`. Correct if no round is lost or doubled.

**Ingest batches** (`ingest.rs:380-470`). State: `crawl_ingest_batches`, whose
status is derived from the items by several tasks at once, and which no statement
reads. Hard: it is counted by one statement and written by another. Correct if
a batch whose items are all finished ends with their status.

**Task bus** (`task_bus.rs`, `handlers/crawler.rs`). A Valkey stream with a
consumer group: wakeups published after a report is staged, read or reclaimed,
and acknowledged after a whole pass. Correct if a staged result is projected
although wakeups may be lost, trimmed or repeated.

**Document index** (`store/search.rs`, `indexing.rs`). State: a document is a row
of `documents` (canonical URL, content hash, `duplicate_of`), a text blob and an
OpenSearch entry. Operations: `upsert_documents` (look up a document with the
same content, write the blob, write the row, delete the other documents of its
canonical URL, index it), `delete_document`, `purge_site`, and the reindex at
start. Hard: each is a row of requests to three stores without a transaction,
run by projections, operators and the blacklist at once; any request may fail
after the ones before it took effect. Correct if the three copies agree when no
call is under way, no row is ever without its blob, and one document serves a
canonical URL.

**Developer keys and quota** (`developer.rs`). State: keys, daily limits, and one
usage row per user and day. Operations: keys are created and revoked, the limit
is changed, and each search with a key is counted by one statement that waits
for the row's lock but reads everything else as of its start. Hard: requests of
several keys that overlap each other, a revocation, a new limit or midnight.
Correct if what is let through is counted and within the limit, and what is
refused is refused for a reason.

**Accounts and sessions** (`dev_auth.rs`, `db.rs`, `migration.rs`). State: users,
password credentials, sessions. Operations: registration, login, logout, the
administrator's requests, the bootstrap administrator, the import of a legacy
file and the rotation of old credentials. Hard: a right or a name is checked by
one statement and relied on by another; names are told apart by case in the table
and not by the lookups. Correct if a disabled or deleted user has no usable
session, a name finds one user, and passwords change at their owner's or an
administrator's word only.

**Crawler worker loop and self-update** (`worker.rs`, `crawler.rs:2543-2700`).
State: the desired version in the worker's row, the worker's own copy of it, its
version and status, the set of jobs in flight. Operations: claim, spawn, join,
heartbeats of two tasks that carry a snapshot out and an instruction back,
download, installation, restart. Hard: heartbeats cross each other, an operator's
request, a failed update and the end of the process. Correct if a requested
version runs in the end or is seen to fail, no job is lost to an update, and a
failed version is not tried over and over.

**Fetching and robots** (`fetch.rs`, `process_job` in `worker.rs`). State: per
worker, the robots cache and the time of the last request to an origin, shared by
the tasks of all jobs behind a lock that is released around every request and
sleep. Correct if every page request was allowed by the rules last read, page
requests to one origin keep their distance, a failure lifts no rule, and what the
control plane records of a page
(`classify_job_outcome`, `crawler.rs:4198-4274`) is what the page was.

**Rate limiter, content extraction, query parsing, ranking, configuration, SQL
migrations, web console.** See section 7.

### Interactions

A seed request, a due rule, a recrawl and a projected page all call
`enqueue_urls`. The claim query reads jobs and origins and writes both. A report
stages items (ingest), advances the job (pipeline) and publishes a wakeup
(bus). A worker reaches all of this only through claims, reports and heartbeats;
a search touches nothing of it but `daily_usage`. A projection reads item and job, writes the job, the origin, the
documents, new jobs, and last the item and its batch. The scheduler and the
projector run the two timeouts, which write jobs, origins and items. Operator
commands write jobs and origins without regard to any of these, and delete and
purge documents beside the projections.

## 2. Modules

| module | models |
|---|---|
| `JobLifecycle` | abstract specification: what the pipeline promises of each job |
| `JobPipeline` | the crawl job pipeline, one step per SQL statement |
| `JobPipelineProofs` | theorems about `JobPipeline` |
| `Frontier` | pages, budgets, origins and the claim query of one owner |
| `FrontierProofs` | theorems about `Frontier` |
| `DocumentIndex` | the row, blob and index entry of each document |
| `DocumentIndexProofs` | theorems about `DocumentIndex` |
| `Delivery` | batches, wakeups and the projector's passes |
| `DeliveryProofs` | theorems about `Delivery` |
| `Worker` | the worker process and its self-update, with the heartbeats between it and its row |
| `WorkerProofs` | theorems about `Worker` |
| `Fetch` | the fetching tasks of a worker and the reading of their reports |
| `FetchProofs` | theorems about `Fetch` |
| `Accounts` | users, credentials, sessions, the migration |
| `AccountsProofs` | theorems about `Accounts` |
| `Quota` | keys and daily usage |
| `QuotaProofs` | theorems about `Quota` |
| `MCJobPipeline`, `MCFrontier`, `MCDocumentIndex`, `MCDelivery`, `MCWorker`, `MCFetch`, `MCAccounts`, `MCQuota` | small instances for TLC |

The modules meet at the job: `JobPipeline` has it in full; `Frontier` sees it as
queued, active or ended; `Delivery` as held, being ingested or gone; `Worker` as a
place in the in-flight set; `Fetch` as a task that ends with a report. What one
module leaves open is a free choice in it, so each contains the others' behaviour
towards it.

### JobPipeline

Variables and what they stand for:

- `status`, `lease`, `attempts`, `requiresJs`: the columns of `crawl_jobs`.
  `claimed_by` is written in every statement that writes `lease_id`, so the
  lease stands for both. `"new"` and `"deleted"` say that there is no row.
- `item`: status of the row of `crawl_ingest_items` for a lease and a job, the
  pair the table is unique on.
- `crawlerOf`, `work`: who a lease was issued to, and what live workers are
  still crawling.
- `report`: how far the report handler of an item has come.
- `pc`, `on`, `seen`: a task of the projectors' JoinSet, its item, and the
  `attempt_count` it read before the outcome is written.
- `candidates`, `stale`: rows a statement selected in its subquery and has not
  locked yet.
- `grants`, `applied`: history, used by the properties and the bounds.

Actions and code: `Submit` the insertion by `enqueue_urls`; `Claim` the claim
query, or `ScanFrontier` then `LockCandidates`/`SkipCandidates` when it is split;
`ReportChecked`, `ReportRejected`, `StageItem`, `AcceptReport`, `AbortReport`
the report handler; `WorkerExit` every way a worker ends; `PickItem`, `ReadJob`,
`ReadConflict`, `WriteOutcome` (eight outcomes), `TaskFails`, `RecordFailure`,
`MarkItemCompleted`, `MarkItemFailed`, `TaskLost` the projection; `ReplayItem`,
`FailItem` the item recovery; `RequeueStaleJobs` the claim timeout;
`RecoverStaleIngesting` (or its two halves) the ingest timeout; `DeleteCrawler`,
`RetryFailed`, `CleanupCompleted`, `CleanupFailed`, `StopAll`,
`CleanupBlacklisted` the operator's commands.

Time is abstracted: a timeout or a backoff may have elapsed between any two
steps. The constant `Races` says which of three races can happen: `"slow_apply"`
(a projection outlives the 30 s backoff or the item timeout), `"split_claim"`
and `"split_recovery"` (another transaction commits between the snapshot of a
claim or an ingest recovery and its row locks). A property holds "with every
race" unless said otherwise.

### JobLifecycle

A job waits, is held by one lease, is staged, settles; leases expire; the result
of an expired lease may still arrive, but only while nobody else holds the job;
a job is handed out at most `MaxAttempts` times plus once for each extra round.
`JobPipeline` maps its state to it (`PhaseOf`, `Life`): the two stages of a
timeout, the handlers, the items and the tasks disappear, and an outcome that is
being applied to a job that left `ingesting` is `late`.

### Frontier

- `status`, `row`: per URL, whether it has a job and where that job stands, and
  its budget id, page budget, origin limit, depth, order of insertion and need
  for a browser. `claimed` and `ingesting` are one status, `"active"`: the
  claim query treats them alike, and what happens between them is JobPipeline's.
- `origin`, `inFlight`: a row of `crawl_origins`: absent, ready, or resting until
  `next_allowed_at`; and its `in_flight_count`.
- `call`: a projection task that has read its job and not written the outcome,
  or a handler, scheduler or projection task inside `enqueue_urls` or in the
  bookkeeping of an origin: where it is, whose crawl, depth and limits it works
  under, which URLs are left, and the budget count it made at the start.
- `picked`: rows a split claim selected; `stopping`: the operator's stop has
  deleted the jobs and not yet reset the origins.
- `started`, `inserts`, `requeues`: history and bounds. `overtaken`: history, the
  origins for a job of which an outcome was written after it had been released,
  and all of them once the operator has stopped the jobs.

Actions and code: `StartCrawl` a seed request or a round of a rule; `Recrawl`
the adaptive recrawl; `CountBudget`, `DeleteRevisited`, `InsertJob`,
`InsertOrigin`, `EndInserts` the statements of `enqueue_urls`; `Crash` an error
or the death of the process between two of them. A projection is four steps:
`ReadJob` finds the job ingesting; `ApplyPage` and the other outcomes write its
row by its id alone (`WriteOutcome`), whatever its status is by then, or do nothing
if it is gone; the call that enqueues its links follows, and then `UpdateOrigin`.
`GiveUp` is an error before the write, `ProjectionFailed` with `DropInFlight` the
failure that is recorded for it, by a statement that does check the status.
`Release` stands for both timeouts and the deletion of a crawler, which update job
and origin in one statement and may come between any two steps of a projection; `RetryDue`,
`OriginRested` the passing of time; `RetryFailed`, `CleanupCompleted`,
`CleanupFailed`, `StopJobs`, `ResetOrigins` the operator; `Claim`,
`ScanFrontier`, `LockCandidates` the claim query, with `Rank` and `Candidates`
as its window function and its limit, and `Chosen` as its order, `limit` and
`skip locked`.

URLs are opaque and already normalised; the order in which the links of a page
are inserted is left open; a redirect may end in any origin.

### DocumentIndex

- `row`, `blob`, `index`: per page, its row of `documents` (canonical URL,
  content hash, the document it duplicates), the content of
  `documents/<id>.txt`, and the content of its entry in OpenSearch.
- `call`: what a projection or a handler is doing: which operation, at which
  request, on which page, with which content; the document it found with the
  same content; the rows whose blobs, and the ids whose entries, it has yet to
  delete; and whether it has had its host to itself (`alone`).
- `started`: the bound on calls. `torn` and `raced`: history, the pages a call
  that ended half-way may have left uneven, and those of hosts on which calls
  have overlapped. No action reads them; the properties leave these pages out,
  and an upsert that completes alone takes its page out of both again.

Actions and code: `BeginUpsert`, `LookUpCopy`, `WriteBlob`, `PersistRow`,
`ReplaceTwins`, `IndexDocument` the requests of `upsert_documents`;
`BeginRemoval`, `SelectRows`, `DeleteRows` those of `delete_document` and
`purge_site`; `RemoveEntries` and `RemoveBlob` serve all three, in the order of
each; `Fail` an error, a future that is dropped or the death of the process
between two requests; `RemoveEntriesFails` and `RemoveBlobFails` deletions that
fail, all or some, and are logged and passed over; `ReindexExisting` the reindex of bootstrap, which ends
before the services that make the calls start (`depends_on` of
`docker-compose.yml`).

A call has one document, as in every caller but the import of bootstrap. A page
that is gone deletes up to three documents: three calls. Any other request that fails ends
its call; it takes effect before the call goes on or not at all. Hosts and their subdomains are one host,
which is the scope of a purge and of a canonical URL. The search cache is left
out: it is a bounded time behind the index by design. `Hazards` says whether
calls may overlap on a host and whether they may fail; calls on different hosts
always overlap.

### Delivery

- `report`, `job`, `item`: how far the report of a result is; whether its job is
  claimed, ingesting or gone; the status of its item. `staged`: the items in the
  order of `created_at`; `stale`: those past the claim timeout.
- `batch`: the row of each lease. `msg`, `idle`: the message of each report in the
  stream and its group, and those idle for long enough to be reclaimed.
- `proj`: per projector, its statement, the messages of its pass, how many results
  the pass may still take, the items it has taken, the batches it has to refresh,
  and the count it made for one of them. `faults` bounds failures.
- `blurred`: history, the leases whose row two calls wrote at once or one left
  unwritten. No action reads it.

Actions and code: `ReportBegins`, `StageItem`, `AcceptReport`, `CountResults` the
statements of `stage_report`; `Publish` the wakeup; `ReportFails` an end between
any two. `IngestTimesOut`, `JobLeaves` what timeouts and operators do to the job.
`ReadBatch` the reclaim and the read of new messages, `RecoverRequeued` and
`RecoverFailed` the two statements of `recover_stale_items`, `CountItems` and
`WriteBatch` those of `refresh_batch_status`, `ClaimItems` and `MarkBatches`
those of `claim_pending_items`, `Applied` and `MarkItem` a task of the drain,
`Drained` and `PassEnds` the loop of `process_pending_ingests`, `Ack` the end of
the pass; `PassFails`, `Crash`, `TaskPanics`, `Restarts` the failures. A report
has one result, as the worker sends it; jobs are not deleted; the blocking read
waits for its timeout before it answers that there is nothing.

### Worker

- `row`: version, desired version and update status in the worker's row.
  `running`, `installed`: the version of the process and of the binary.
- `state`, `target`: `CrawlerRuntimeState` and the version being installed.
- `pc`, `stopping`, `slot`: where the main task is, the shutdown flag, the in-flight set.
- `heartbeat`: per sending task, a request with the snapshot it was sent with, the
  control plane between its two statements, or a reply.
- `asked`, `burnt`, `crossed`, `raced`: history, read by the properties only.

Actions and code: `RequestVersion` is `update_crawler`; `HeartbeatArrives` and
`HeartbeatClears` the two statements of `heartbeat_crawler`; `HeartbeatReplied`
with `apply_server_instruction`, `HeartbeatFails` and `StrayLost` the worker's
side; the actions of `Main` the branches of `run_worker`: update, claim, wait,
exit. An update is chosen under one lock (`ChooseUpdate`: nothing in flight, a
version pending) and begun under the next (`BeginUpdate`: `mark_downloading`), and
an instruction may arrive between the two. `Crash`, `JoinFails`, `ClaimFails` are the ends of the process, after which
the service manager starts the installed binary (`StartProcess`).

### Fetch

- `rules`, `fresh`, `recent`: the robots cache, which of its entries are young
  enough, and which origins are within their pause.
- `task`: per job its step, the origin it is at, redirects, attempts, and the
  outcome of its report.
- `said`, `clashed`, `torn`, `crowded`, `revised`: history for the properties: what
  `robots.txt` said when it last arrived whole, and where tasks read it at once, it
  broke off, tasks met at the pause, and rules came in after a check.

Actions and code: `InspectCached`, `InspectRefresh`, `Refreshed` the two ways
through `inspect_robots`; `RateLimit`, `Wake` the halves of `rate_limit_origin`;
`Redirected`, `RequestFailed`, `Answered`, `BackedOff` `fetch_with_retry` and
`fetch_once`; `Render` the browser, `Discover` and `Surveys` the reading of sitemaps
and feeds, `ProcessPage` the rest of `process_job`, whose report is `ReportOf`;
`classify_job_outcome` what the control plane reads in it; `Expire`, `Elapse`
time. A page is a record of the facts the report depends on.

An answer to `robots.txt` is what it says, `"down"` (a server error or a failed
request, which leaves the rules there are) or `"torn"` (a success whose body does not
arrive, which `fetch.rs:145` reads as an empty file). `robots.txt` itself, the
browser, sitemaps and feeds are requested at once and under no rules, and leave no
stamp: that is how `InspectRefresh`, `Render` and `Discover` are written, and
`PagesSpaced` and `HopsAllowed` speak of the requests for pages and of no other.

### Accounts

- `account`: users with their credential: its scheme is `"legacy"`, or the
  password is `"temporary"` or `"chosen"`. `session`: tokens. A name is a member of
  `Names`, `Lower` its lower case: requests give names of `Normal`, which is their
  own lower case; the import and the bootstrap write any. Lookups compare lower
  cases (`NameKnown`), the unique column the names themselves (`NameTaken`).
- `request`: per HTTP request what it has checked and has yet to write.
- `migration`: the import of one account between its read and its write, and the
  credentials the rotation has selected and not yet replaced.

Actions and code: each handler is a check (`Register`, `CreateUser`, `Login`,
`UpdateUser`, `DeleteUser`), then its transactions (`CreateChecked`, `InsertUser`,
`InsertConflict`, `CreateSession`, `ProfileChecked`, `update_user_profile`,
`set_enabled`, `update_password`, `delete_user`); `Logout`;
`seed_bootstrap_admin`; `ImportRead`, `ImportWritten`, `RotateRead`,
`RotateWritten` the migration, which goes on when a row it has read is gone, and
ends when a name is taken. Sessions do not expire in the code.

### Quota

- `user`, `key`, `usage`, `today`: users with their limit, keys, `daily_usage`.
- `request`: what the statement of a request read as it began.
- `granted`, `peak`, `touched`: history for the properties.

`Track` is the start and `validate_and_track_developer_key` the end of the one
statement of that name: what it reads is as of its start, the row it increments
is the last one committed. `UpdateQuota`/`update_user_quota`, `CreateKey`,
`RevokeKey`, `SetEnabled`, `DeleteUser`, `developer_usage`, `NewDay` and the two
parts of the import are actions of their own.

## 3. Runs

| run | checks | shows |
|---|---|---|
| `pipeline_safety` | `TypeOK`, `AttemptBudget`, `OutcomeIsFinal`, `AppliedOnce`, `LifecycleImplemented` | without the races, a job keeps to its attempts, stays settled, is applied once, and only does what `JobLifecycle` allows |
| `pipeline_races` | `HeldUnderLease`, `StagedBeforeIngesting`, `DeletedForGood` | what survives all three races |
| `pipeline_liveness` | `JobsSettle`, `ItemsSettle` | every queued job and staged result comes to an end |
| `frontier_limits` | `SameOriginLimit`, `InFlightAccounted` | the limits of two crawls and the count of their origin under projections that die or are overtaken, timeouts and a stop |
| `frontier_fair` | `TypeOK`, `FrontierDrains` | no page waits forever, through overlapping claims and a stop |
| `documents_races` | `TypeOK`, `CopiesAgree`, `BlobBeforeRow`, `OneRowPerCanonical` | what holds of the three stores when calls overlap, fail and die |
| `delivery_drains` | `TypeOK`, `BatchTold`, `Delivered` | staged results and messages come to an end though reports, messages, passes and the projector are lost; the batch row tells how they came out |
| `worker_update` | `TypeOK`, `UpdatesIdle`, `RequestKept`, `FailureHeld`, `UpdateSettles`, `ShutdownEnds` | a requested version reaches a busy worker that loses heartbeats and fails to install it |
| `fetch_races` | `TypeOK`, `RulesHeld`, `HopsAllowed`, `PagesSpaced`, `ReportFaithful` | tasks that share cache and pause ask before each page request, keep their distance, and report what the page was |
| `accounts_races` | `TypeOK`, `DisabledLockedOut`, `SessionsOwned`, `NamesUnique`, `PasswordKept` | what holds when two requests are in their statements at once and an import is on its way |
| `quota_races` | `TypeOK`, `QuotaHeld`, `RefusedRightly` | two requests at once over revoked keys, new limits and midnight |
| `quota_first_request` | `FirstRequestAnswered`, violated | finding 1 |

Deadlock is checked in `fetch_races` and `worker_update`, whose systems never stop.
It is off elsewhere: a crawl ends, and each instance bounds the number of leases,
insertions, requeues, calls, requests or days, after which nothing may be left to do.

### Bounds

`pipeline_*`: one job, two crawlers of which one has a browser, two projection
tasks, two attempts. Statements never relate two jobs except by updating a set
of them, so one job meets every race; two crawlers are needed for a late report
of one while the other holds the job, two tasks for a replay beside a slow
projection. `MaxLeases` is three for safety (the last attempt and a granted
round), two with every race and for liveness; without grants two leases are all
a job with two attempts can use, so the bound does not cut the liveness run off.
`MaxGrants` bounds the operator's retries and the requeues for a browser.

`frontier_limits`: three pages of one site, two crawls with limits 1 and 2 and
budgets of two pages, two callers, claims of up to two jobs, three insertions,
crashes and a stop, no requeue (a job that is released has ended). Two crawls with
different limits compete for one origin, which is where the limit of each is in
doubt, and three pages are one more than either may have in flight; one page is
released under its projection while another is in flight. `frontier_fair`: two pages,
one caller, one requeue, overlapping claims and a stop; more would only lengthen the
queue.

`documents_races`: two pages of one host, of which the second may name the first
as its canonical URL, and one page of another; two contents, two callers, four
calls, both hazards. Two pages of a host are what a replacement, a duplicate
and a purge need; the page of the other host is one whose calls are not
disturbed by them although it may share their content. Four calls are two to
set up a document and its duplicate or its twin, one that ends half-way and one
after it, or two that overlap.

`delivery_drains`: one lease of two results, one projector, `BatchSize` 1, one
failure. Two results are what a summary needs, and with a batch of one the second
is left over by a pass; one failure at every statement leaves messages delivered
and items taken by nobody. Liveness with a second projector is out of TLC's reach;
`BatchTold` is proved for any number (section 6).

`worker_update`: two places in flight, two versions, two requests: one to reach and
one to replace it or to ask for it again. `fetch_races`: two tasks, two origins,
`MaxRedirects` and `MaxRetries` 1, and five pages: a document, one that wants no
index, one that needs a browser the node has not, one to try again, and one that goes
through the browser and the sitemaps. Two tasks are what a refresh, a sleep and a
check can be crossed by; `ReportFaithful` is proved for every page there is.
`accounts_races`: an administrator, a second account and a legacy one, two sessions,
three names of which two differ by case, two requests at a time and three in all: one
to change a right, one that relies on it, one to observe. `quota_races`: one user (users share nothing), two keys, two
requests at a time, limits 1 and 2, two days.

Tasks, callers, keys, sessions and requests that the constants do not tell apart
are symmetric where no liveness is checked, and so are the contents of documents.
The theorems of section 6 have none of these bounds.

### Fairness

`JobPipeline.FairSpec`: workers poll for as long as they run, and one with a
browser is among them (`ClaimOf` is weakly fair per job: a claim that leaves a
job out takes others, of which there is a bounded number); a request handler
ends; the scheduler and the projector run their loops forever
(`lib.rs:169-260`), so the timeouts and the item recovery are weakly fair; items
are picked oldest first, so an item that keeps becoming pending is picked
(strong fairness, since a replay and a crash may take it back); a task that runs
goes on. Nothing is assumed of a worker after its claim: it need never report.
`TaskLost` is unfair and unbounded: the projector may crash over and over.

`Frontier.FairSpec`: a call goes on, a job in flight ends by its timeout
(`Release`), time passes, each crawler polls. Crashes are excluded from that run
on purpose: item 8 of section 4.

`Delivery.FairSpec`: each projector goes on and is started again when it ended
(`restart: unless-stopped` in `docker-compose.yml`), and time passes (`Idles`,
`Ages`). Reports, workers and the control plane owe nothing. Failures of
projectors are bounded by `MaxFaults`: one that failed in every pass would deliver
nothing.

`Worker.FairSpec`: the tasks of the process run, jobs end, a heartbeat of the
second task follows every 30 seconds, and a service manager starts the process.
A heartbeat may fail, but not for ever (strong fairness of its arrival and its
reply). `UpdateSettles` names what else it needs: that the process is not ended
again and again, and that it finds itself without a job again and again, which
the claim loop does not guarantee. `DocumentIndex`, `Fetch`, `Accounts` and
`Quota` state no liveness.

## 4. What the code does that one might not expect

Against what a document, a test or a message of the repository says:

1. The first request of a user's day is refused.
   `validate_and_track_developer_key` inserts the day's usage row and counts the
   request in one SQL statement (`developer.rs:169-186`), and a statement does not
   see the rows its own `with` queries insert: the update finds no row, and the
   request is answered 429 with nothing of the quota used. `scripts/smoke-test.sh`
   makes its first search with a new key and expects it to pass (`:133-141`)
   (`quota_first_request`). Looking at the keys or changing the limit seeds the row
   too, which hides it; `RefusedRightly` says that nothing else is refused so.
2. A crawl may have more pages than its budget. `enqueue_urls` counts the pages once
   and inserts against that count, so two pages projected at once exceed `max_pages`
   between them (`crawler.rs:3232-3239`), of which the console says "Total pages
   allowed for the whole crawl" (English `translation.json:362`)
   (`Frontier!PageBudget`).
3. An origin may have more jobs in flight than its limit. A claim compares its ranks
   with the jobs in flight of its snapshot, and the lock on its rows looks at neither
   again (`frontier.rs:33-74`): a claim that overlaps another one exceeds what the
   console calls "Maximum in-flight jobs allowed at once for the same origin"
   (`translation.json:364`). `SameOriginLimit` fails with `"split_claim"` in `Races`.
4. A `robots.txt` that answers 200 and breaks off on its way lifts the rules that were
   cached: its body is taken for an empty file (`fetch.rs:145`), which allows
   everything. The test `robots_fallback_preserves_cached_rules_when_refresh_fails`
   (`fetch.rs:683`) and the messages at `fetch.rs:166` and `:176` have a refresh that
   fails leave them (`Fetch!RefreshFailureKeepsRules`).

The first has a run. The definitions named with the others and below are in the
modules, and a configuration that checks them shows the behaviour: `PageBudget` takes
a page budget of three and a fourth page, that two pages projected at once link to.
What follows was not met in the documents read, and bounds what is claimed.

Pipeline and frontier:

5. A staged result is visible before `accept_report` marks its job `ingesting`
   (`ingest.rs:120-153`). A projector that polls in between drops the result, and
   the job waits for the ingest timeout (`JobPipeline!ConflictMeansLeft`).
6. The adaptive recrawl enqueues a page under the budget of the crawl that indexed
   it, which that page has used up, and never queues anything
   (`crawler.rs:2717-2744`, `Frontier!RevisitNotRefused`). A budget count that fails
   is taken as zero (`crawler.rs:3239`).
7. A projection writes the outcome by the job's id alone. If the ingest timeout has
   released the job since the projection read it, the job is taken off the origin's
   count twice, and the count falls short by one while other jobs of the origin are in
   flight (`crawler.rs:1776, 1828, 3113, 3604`; `overtaken` in `InFlightAccounted`).
8. A crash between the row of a job and the row of its origin strands the job:
   the claim query joins the origins and nothing repairs a missing one. With
   `"crash"` in `Races`, `FrontierDrains` fails.
9. With `"slow_apply"`, an outcome can be overwritten and a result applied after
   its job was claimed again, since outcomes are written `where id = $1`;
   `OutcomeIsFinal`, `AttemptBudget` and the refinement are claimed without it.

Documents:

10. A page whose content another document has is stored without an index entry
   (`search.rs:415-434`). When that document goes or changes, the content is not
   found any more (`DocumentIndex!ContentSearchable`). Two projections of one
   content that look for copies at once both become originals.
11. Calls that overlap on a host: a deletion between the row and the entry of an
   upsert of the same page removes the new blob and leaves the new row, and the
   reindex of the next start then stops with an error; two upserts that name one
   canonical URL may delete each other; a purge leaves the index entry and the
   blob of a row inserted between its select and its delete. `CopiesAgree` and
   `BlobBeforeRow` leave such pages out until an undisturbed upsert of theirs.

Batches:

12. A batch row may be wrong for good: two writers that overlap can leave the older
   count, a projector that dies before its write leaves the one before, and a
   completed row stays completed when a later result of the lease is staged
   (`ingest.rs:155`) or times out (`crawler.rs:3629-3636`). No statement reads it.

Worker:

13. A version that failed is not tried again when it is asked for again; a restart
   that failed leaves the status `restarting`, which keeps out every later update
   (`Worker!Stuck`); a request that falls between the two statements of a heartbeat
   that clears the previous one is lost (`crawler.rs:2630-2651`); a heartbeat that
   crosses a failed update makes the worker forget the failure.
14. A report that is refused ends the process and all other jobs in flight
    (`worker.rs:426`), which then wait for their claim timeout.
15. Two tasks that sleep at one origin wake together (`fetch.rs:386-399`); the sleep
    of a `Retry-After` is not bounded (`fetch.rs:423`); of two tasks that read one
    `robots.txt`, the one that fails may overwrite the rules of the other.
16. Only the requests for pages ask the rules and wait for the pause of an origin.
    The browser (`worker.rs:1027`), sitemaps and feeds, up to 20 from one index
    (`worker.rs:1134`, `sitemap.rs:43-57`), and `robots.txt` itself (`fetch.rs:143`) are
    requested at once.

Accounts:

17. A new password keeps the sessions of the old one; a login checked before an
    account was disabled leaves it a session; an account the legacy file disables
    keeps its sessions if its credential is of the current scheme
    (`migration.rs:292-304`).
18. `update_user` is several transactions, of which the later ones may find the
    right or the account gone: what was begun with a right goes on without it. The
    last administrator can be demoted, disabled or deleted; a password chosen while
    the rotation runs may be overwritten (`migration.rs:383-433`).
19. The import and the bootstrap write names as they stand (`migration.rs:293-311`,
    `db.rs:93`) under a column that tells case apart, while lookups compare lower
    cases (`dev_auth.rs:51, 118, 315`): `Alice` from the legacy file and `alice` who
    registered are two accounts that one name finds. `NamesUnique` says that this is
    the only way to it.

## 5. Properties

Each is stated above its definition in the module. In brief: `HeldUnderLease`
relates a job's status to its lease and the lease's crawler;
`StagedBeforeIngesting` relates jobs to items; `AttemptBudget` relates attempts
to the rounds that timeouts, outcomes and operators gave; `OutcomeIsFinal`,
`AppliedOnce` and `DeletedForGood` compare a state to earlier ones;
`LifecycleImplemented` is the refinement; `SameOriginLimit` relates the jobs in
flight of all crawls of an origin to the limits each was queued with;
`InFlightAccounted` relates the counter of `crawl_origins` to the jobs in flight
and the callers that still owe a decrement: never above their number, and exactly
that wherever no projection was overtaken. `CopiesAgree` relates the three
copies of a document between calls; `BlobBeforeRow` is the order of writes that
makes any crash harmless for the reindex; `OneRowPerCanonical` relates two rows
to the call that owes the deletion of one.

`BatchTold` relates the batch row to the items when nobody is on the way to it;
`Delivered` says that every staged result and every message comes to an end.
`UpdatesIdle` relates the update to the in-flight set; `RequestKept` the row to
the operator's last request, across processes; `FailureHeld` a download to the
failures before it. `RulesHeld` relates the cache to what `robots.txt` last said;
`HopsAllowed` a page request to the rules at its time; `PagesSpaced` two page
requests of different tasks; `ReportFaithful` a page to what the control plane makes of its
report. `DisabledLockedOut` relates accounts and sessions, `SessionsOwned` a session to
a login, a deletion and an import that overlap, `NamesUnique` two accounts, `PasswordKept`
a credential to the one before. `QuotaHeld` relates a day's count to the answers
given, `RefusedRightly` a refusal to the state its statement began in.
`JobsSettle`, `ItemsSettle`, `FrontierDrains`, `UpdateSettles`, `ShutdownEnds` and
`Delivered` are the liveness properties.

Where a property exempts something (`overtaken`, `blurred`, `raced`, `crossed`,
`clashed`, `crowded`, `revised`, `spared`, `torn`), a history variable marks exactly
the steps of section 4 after which the code does not keep it. A hazard of
`PROJECT.json` whose race is exempt names no property, and says so. `PROJECT.json` lists
for each property a plausible bug of the code that breaks it, as an operator of the
module marked "Mutant".

## 6. Proofs

All theorems hold for every value of the constants that satisfies the named
assumptions of the module (nonzero limits and budgets, finite URL sets, crawlers
with a browser among the crawlers, and the like), all of which TLC evaluates in
the runs.

| theorem | states | inductive invariant |
|---|---|---|
| `JobPipelineProofs!TypeCorrect` | `Spec => []TypeOK` | `TypeInv`: with `TasksHaveItems`, a busy task works on an item |
| `JobPipelineProofs!HeldUnderLeaseHolds` | `Spec => []HeldUnderLease` | `HeldInv` = `TypeInv` and the property |
| `JobPipelineProofs!StagedBeforeIngestingHolds` | `Spec => []StagedBeforeIngesting` | `StagedInv`: adds that a report that has staged its item still finds it (`ReportedIsStaged`) |
| `JobPipelineProofs!AttemptBudgetHolds` | `Spec => []AttemptBudget`, without `"slow_apply"` and `"split_claim"` | `BudgetInv`: adds below |
| `JobPipelineProofs!AppliedOnceHolds` | `Spec => AppliedOnce`, without `"slow_apply"` | `ApplyInv`: adds below |
| `JobPipelineProofs!OutcomeIsFinalHolds` | `Spec => OutcomeIsFinal`, without `"slow_apply"`, `"split_claim"` and `"split_recovery"` | `LifeInv` = `BudgetInv`, `ApplyInv`, `ScansInv`, `NewUngranted` |
| `JobPipelineProofs!DeletedForGoodHolds` | `Spec => DeletedForGood`, with every race | `TypeInv` |
| `JobPipelineProofs!LifecycleImplementedHolds` | `Spec => LifecycleImplemented`: the pipeline implements `JobLifecycle`, under the hypotheses of `OutcomeIsFinalHolds` | `LifeInv` |
| `FrontierProofs!TypeCorrect` | `Spec => []TypeOK` | `TypeOK` itself |
| `FrontierProofs!SameOriginLimitHolds` | `Spec => []SameOriginLimit`, without `"split_claim"` | `LimitInv`: adds below |
| `FrontierProofs!InFlightAccountedHolds` | `Spec => []InFlightAccounted`, without `"split_claim"` | `CountedInv`: adds below |
| `DocumentIndexProofs!TypeCorrect` | `Spec => []TypeOK` | `TypeInv`: with what a call carries at each request (`CallOK`) and that a canonical URL is on the page's host (`RowsOK`) |
| `DocumentIndexProofs!CopiesAgreeHolds` | `Spec => []CopiesAgree`, with both hazards | `Inv`: adds below |
| `DocumentIndexProofs!BlobBeforeRowHolds` | `Spec => []BlobBeforeRow`, with both hazards | `Inv` |
| `DocumentIndexProofs!OneRowPerCanonicalHolds` | `Spec => []OneRowPerCanonical`, with both hazards | `Inv` |
| `DeliveryProofs!BatchToldAlways` | `Spec => []BatchTold` | `IInv` = `Types`, `ReportsSound`, `PassSound`, `BatchSound` |
| `DeliveryProofs!TypesHold` | `Spec => []TypeOK` | `IInv` and `TypesInv`: adds below |
| `WorkerProofs!TypeCorrect`, `UpdatesIdleAlways`, `RequestKeptAlways`, `FailureHeldAlways` | `Spec => []` of `TypeOK`, `UpdatesIdle`, `RequestKept`, `FailureHeld` | `IInv` = `TypeOK`, `TasksSound`, `RequestSafe`, `FailureSafe`, `UpdatesIdle` |
| `FetchProofs!TypeCorrect`, `RulesHeldAlways`, `HopsAllowedAlways`, `PagesSpacedAlways`, `ReportFaithfulAlways` | `Spec => []` of `TypeOK`, `RulesHeld`, `HopsAllowed`; `Spec => PagesSpaced`; `Spec => ReportFaithful` | `IInv` = `TypeOK`, `RefreshSound`, `AbsenceSound`, `ClashSound`, `PauseSound`, `RulesHeld`, `HopsAllowed` |
| `AccountsProofs!TypeCorrect`, `DisabledLockedOutAlways`, `SessionsOwnedAlways`, `NamesUniqueAlways`, `PasswordKeptAlways` | `Spec => []` of the first four; `Spec => PasswordKept` | `IInv` = `TypeOK`, `SessionsSound`, `CallsSound`, `NamesSound`, `MigrationSound` |
| `QuotaProofs!TypeCorrect`, `QuotaHeldAlways`, `RefusedRightlyAlways` | `Spec => []` of `TypeOK`, `QuotaHeld`; `Spec => RefusedRightly` | `IInv` = `TypeOK`, `RowsCount`, `RequestsBegun` |

`AttemptBudget` alone is not inductive: the claim adds an attempt without looking
at the count. `QueuedHaveAttempts` says that a queued job has one left, since
each of the statements that queue a job compared the count or granted a round;
`ReadsAreCurrent` says that the count a task read is still the job's count while
it holds the job, which is what makes the comparison of `classify_job_outcome`
good; `NewUnclaimed` and `NoCandidates` start the induction.

`AppliedOnce` rests on there being one reader of a job at a time. `OneTaskPerItem`
and `TakenItems` say that a task works on an item nobody else works on and that is
not waiting to be picked; `ReaderSound` says of a task that has read a row that its
item is not written, that the row is still held under the item's lease or not held
at all, and that it was neither claimed anew nor settled since. Two readers of one
job would then both have found it ingesting under their own lease, which is one
lease. `AppliedSound` says that the job of a written item is no longer in flight
under its lease, so that no replay reads it. A projection that outlives the timeout
of its item breaks `OneTaskPerItem`, which is why `"slow_apply"` is excluded; a claim
or a recovery in two statements does not.

The refinement is proved statement by statement. `Moves(j)` lists the ten things
the pipeline's statements do to one job, in the terms of the pipeline (`Rests`,
`Enters`, `Taken`, `Accepted`, `Released`, `Settled`, `Requeued`, `Missed`,
`Retried`, `Removed`). One lemma for each says that under the mapping it is a step
of `JobLifecycle` or none (`MovesMapped`), and one for each group of statements that
it does one of them to every job (`StepMoves`), a statement that writes many rows
included, since `JobLifecycle` lets the jobs of a step move each on its own. The
budget comes from `BudgetInv`, who reads a job and the deletion of a row under a
reader from `ApplyInv`; `ScansInv` says that nobody holds a selection made in an
earlier statement, and `NewUngranted` that a row begins without rounds.
`OutcomeIsFinal` is read off `Moves`. None of the three hypotheses can go: on the
instance of `pipeline_safety` with any one of the races alone, TLC finds both
`OutcomeIsFinal` and `LifecycleImplemented` violated, while `AppliedOnce` falls with
`"slow_apply"` only, as its theorem says.

`SameOriginLimit` needs the order of the claim query to be total: `Births` says
that no two rows were inserted at the same time. The argument: of the jobs a
claim takes from an origin within limit n, the last in the query's order
(`LastRow`, by well-foundedness of inclusion on finite sets) has all the others
before it, so its rank counts them; the query lets it through only if that rank
and the jobs already in flight fit into its own limit, which is at most n
(`LimitClaim`). Every other step makes no job active and leaves the limits of
rows alone (`Quiet...`, `LimitShrinks`).

`InFlightAccounted` is nearly inductive: `CountedInv` adds that no row is picked by
a claim that overlaps another, and that a stop under way has marked every origin. A
step moves the count together with the active jobs (a claim, which takes queued rows
only, and a timeout), or the active jobs together with what the calls owe (an outcome
that finds its job still in flight), or what they owe together with the count (the
decrement), and in each the same origin by the same number; every other step leaves
all three alone. A projection that was overtaken by a timeout writes an outcome for
a job that is not in flight: what the calls owe grows, and the decrement for it takes
off the count what the timeout has taken off already. The first only raises the
bound, the second lowers both sides unless the count is at zero, where it stays
(`greatest(in_flight_count - 1, 0)`, `crawler.rs:3113`): the count is never above
what is owed, and equal to it wherever the origin is not in `overtaken`. What a dead
caller owed stays owed. A stop takes the jobs away first and the counts with its next
statement, between which nothing is asked. Two claims that overlap may take an
active row again and count it twice, and are excluded.

`CopiesAgree` speaks of the time between calls only, so the induction needs to
know what a call has done in the middle. `CallsTraced` says for each request of
a call that has had its host to itself what it has written so far and that it is
still there: it is, because every step changes pages of one host (`StepMoves`)
and no other call works on that one (`Apart`). `AgreeOutside` is `CopiesAgree`
for the pages the call has not come to, and its last request makes its own
pages agree from what is traced. `BlobBeforeRow` is inductive with these.
`TwinsReplaced` strengthens `OneRowPerCanonical`: the call that owes the deletion
is replacing the documents of that very canonical URL, so that its
`ReplaceTwins` removes the other row, and only the end of an undisturbed upsert,
whose twins are gone, takes a page out of `torn`.

`BatchTold` speaks of the moment when nobody is on the way to a row.
`BatchSound` says what keeps it true until then: of the projectors that have a
lease to refresh at most one has counted it (a second count, or a writer beside
it, blurs the row), its count is of today unless another count is to come or an
item still waits, and an item that settles while somebody has the row still to
write asks for another count. So the last to leave (`LastToLeave`) either wrote
the right summary or left an item open.

The types of `Delivery` say two things that are not obvious. The order `staged` has
each item once, because a report that has not staged finds none
(`StagedSound`). And a pass projects no more results than its batch size: the
results a pass has in hand and may still count as a success are at most those left
to it (`LeftSound`), which a claim establishes because the n oldest waiting items
are n at most (`OldestFew`: their ranks differ and are below n), every success
takes one from both sides, and a failure or a panic only from the first.
`StreamSound` adds that a pass holds only messages that were announced, which its
acknowledgement needs.

`ReportFaithful` needs no invariant: it relates two classifications, the worker's
(`HttpReport`, `ProfileReport`, `DocumentReport`) and the control plane's, for every
page there is, and the proof goes through the kinds of answer (`StatusFacts`,
`FailureKinds`) and the three ways a report is made.

`RequestKept` needs to know of every heartbeat under way, those of processes that
have ended included, that it will not clear the version asked for (`RequestSafe`);
`FailureHeld` that every heartbeat under way tells of the failure (`FailureSafe`);
both rest on `TasksSound`, which says that a heartbeat that is not stray is of the
process that runs. `RulesHeld` needs what a refresh that is under way saw
(`RefreshSound`), that an origin without rules never had any (`AbsenceSound`), and
that two refreshes of one origin mark it (`ClashSound`); `PagesSpaced` that sleepers
who meet mark theirs (`PauseSound`). `SessionsOwned` is part of `SessionsSound`;
`CallSound` carries what a request checked from its check to its writes. `NamesUnique`
follows from `NamesSound`: the unique column keeps names as written apart, and a name
that no request could give is the import's or the bootstrap's; of two names with one
lower case, one is such. `RowsCount` keeps a user's count and
its row together through the deletion of users, and `Begun` says of a statement
that the limit it compares with is one the user has had.

Only model-checked: liveness (`JobsSettle`, `ItemsSettle`, `FrontierDrains`,
`UpdateSettles`, `ShutdownEnds`, `Delivered`), which the prover does not handle under
fairness. Every other property of a passing run is a theorem.

## 7. Not modelled

- Content extraction, site profiles, HTML parsing: pure functions of a page with
  no state; a wrong result is a matter of data, not of control.
- Query parsing, spell checking, ranking, spam scores: read-only, arithmetic on
  floats.
- The rate limiter (`rate_limit.rs:17-80`): one counter per key and minute in Redis,
  which lets everything through when Redis fails; it relates to no other state.
- Configuration and SQL migrations: run once, before the loops.
- The web console: a client of the HTTP interface.
- HTTP transfer itself, TLS, compression, the browser: external; that a page is
  rendered is a step of `Fetch`.
- Robots parsing, the reading of sitemaps and feeds, link discovery: when they
  happen are steps of `Fetch`, what they yield is a choice.
- The worker's one-shot mode, the concurrency values a heartbeat brings, and the
  deletion of a worker's record; the semaphore of the browser.
- The blobs of staged results: written before their item under a key made of
  lease and job, never removed.
- `crawl_rules.last_enqueued_at`: a round of a rule is a call of `Frontier` at any
  time; its clock has no other reader.
- The blacklist check of `enqueue_urls`, priorities beyond the depth, the
  length of crawl delays, and the trimming of events: no modelled property
  tells them apart.

## 8. What could come next

- A composition of `JobPipeline` with `DocumentIndex`: a settled job has its
  document, which needs the upsert as a step of the projection.
- The order of the maintenance pass, which stops at its first error.
