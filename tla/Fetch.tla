-------------------------------- MODULE Fetch --------------------------------
(***************************************************************************)
(* How a crawler worker fetches the pages of its jobs: the robots cache, the *)
(* pause between two requests to an origin, redirects, retries, and the      *)
(* report made of the answer.  Code: services/crawler/src/fetch.rs and       *)
(* process_job of services/crawler/src/worker.rs; what the control plane     *)
(* makes of a report is classify_job_outcome of services/api/src/crawler.rs. *)
(*                                                                         *)
(* Each job is a task of its own.  The tasks share the robots cache and the  *)
(* time of the last request to an origin, behind one lock which they release *)
(* to fetch robots.txt and to sleep: that is where they interleave.  Rules   *)
(* stand for what they say of the crawled paths, time for whether it is up.  *)
(* Four kinds of request leave a task: that of a page, which waits for its   *)
(* pause and asked the rules (RateLimit, Wake); that of robots.txt           *)
(* (InspectRefresh), that of the browser (Render) and those for sitemaps and *)
(* feeds (Discover), which do neither.                                       *)
(***************************************************************************)
EXTENDS Naturals, FiniteSets

CONSTANTS
  Jobs,          \* tasks of the worker
  Origins,       \* scheme, host and port
  Homes,         \* origins of the URLs the jobs are for
  Pages,         \* answers a fetch may end with: a set of facts, see PageFacts
  MaxRedirects,  \* 10 in the code
  MaxRetries     \* 3 in the code

ASSUME FetchBounds ==
  /\ Homes \subseteq Origins /\ Origins # {}
  /\ MaxRedirects \in Nat
  /\ MaxRetries \in Nat

VARIABLES
  rules,     \* robots_cache: what it says of an origin, "unknown" when absent
  fresh,     \* origins whose entry is younger than its time to live
  recent,    \* origins whose last page request is younger than the pause
  task,      \* the job each task works on
  said,      \* what the robots.txt of an origin said when it last arrived whole
  clashed,   \* origins whose robots.txt two tasks read at once, until read again
  torn,      \* origins whose robots.txt broke off on its way, until read again
  crowded,   \* origins at whose pause two tasks meet
  revised    \* origins whose rules came in after a task there had checked them

vars == <<rules, fresh, recent, task, said, clashed, torn, crowded, revised>>

-----------------------------------------------------------------------------
(* What a page turned out to be, as far as the report depends on it.         *)

(* One of each class that the two classifiers tell apart. *)
Statuses == {200, 304, 308, 403, 404, 408, 503}

PageFacts ==
  [status   : Statuses,
   html     : BOOLEAN,                     \* text/html
   profile  : BOOLEAN,                     \* the site profile is valid
   js       : {"no", "missing", "failed", "rendered", "invalid"},
   action   : {"deny", "index", "discover"},  \* page_action of the profile
   top      : BOOLEAN,                     \* depth 0, or the root of its site
   noindex  : BOOLEAN,                     \* header or meta robots
   nofollow : BOOLEAN,
   title    : BOOLEAN,
   body     : BOOLEAN,                     \* some text was left
   spam     : BOOLEAN]                     \* to the detector of the control plane

ASSUME PagesAssumption == Pages \subseteq PageFacts

Kinds == {"none", "robots", "redirect_loop", "network_error", "http", "blocked",
          "http_404", "http_5xx", "unsupported_content_type",
          "site_profile_config_invalid", "requires_js_render",
          "site_profile_filtered", "page_noindex", "empty_document"}

Reports == [status : Statuses \cup {310, 599}, kind : Kinds,
            retryable : BOOLEAN, links : BOOLEAN,
            title : BOOLEAN, body : BOOLEAN, spam : BOOLEAN]

(* base_report with the fields the caller sets. *)
base_report(status, kind, retryable) ==
  [status |-> status, kind |-> kind, retryable |-> retryable, links |-> FALSE,
   title |-> FALSE, body |-> FALSE, spam |-> FALSE]

http_failure_kind(status) ==
  CASE status \in {401, 403} -> "blocked"
    [] status = 404 -> "http_404"
    [] status \in 500..599 -> "http_5xx"
    [] OTHER -> "http"

Transient(status) == status = 429 \/ status >= 500

(* Links are kept when neither the robots directives nor the site profile    *)
(* are against it; at the top of a site, sitemaps and feeds are read as well. *)
(* The cap and the normalisation of the links do not show here.              *)
Discovers(page) == ~page.nofollow /\ page.action = "discover"

(* An answer that is no page: not modified, an error, no HTML. *)
NoPage(page) ==
  page.status = 304 \/ page.status \notin 200..299 \/ ~page.html
HttpReport(page) ==
  CASE page.status = 304 -> base_report(304, "none", FALSE)
    [] page.status \notin 200..299 \cup {304} ->
         base_report(page.status, http_failure_kind(page.status),
                     Transient(page.status))
    [] OTHER -> base_report(page.status, "unsupported_content_type", FALSE)

(* A page the site profile is against.  A node without a browser hands it    *)
(* back before it looks at its directives; a rendering that fails leaves the *)
(* static page.                                                              *)
Unprofiled(page) ==
  ~page.profile \/ page.js \in {"missing", "invalid"} \/ page.action = "deny"
ProfileReport(page) ==
  LET report(kind, retryable) == base_report(page.status, kind, retryable)
  IN CASE ~page.profile \/ page.js = "invalid" ->
            report("site_profile_config_invalid", FALSE)
       [] page.profile /\ page.js = "missing" -> report("requires_js_render", TRUE)
       [] OTHER -> report("site_profile_filtered", FALSE)

(* Mutant: the directives of the page are read only once a body was found.   *)
DocumentReport_Mutation(page) ==
  LET linked(kind) == [base_report(page.status, kind, FALSE)
                       EXCEPT !.links = Discovers(page)]
  IN CASE page.body -> [linked("none") EXCEPT !.body = TRUE, !.title = page.title,
                                              !.spam = page.spam]
       [] ~page.body /\ page.noindex -> linked("page_noindex")
       [] OTHER -> linked("empty_document")

(* The rest: a document, unless its directives or its text are against it.   *)
DocumentReport(page) ==
  LET linked(kind) == [base_report(page.status, kind, FALSE)
                       EXCEPT !.links = Discovers(page)]
  IN CASE page.noindex -> linked("page_noindex")
       [] ~page.noindex /\ ~page.body -> linked("empty_document")
       [] OTHER -> [linked("none") EXCEPT !.body = TRUE, !.title = page.title,
                                          !.spam = page.spam]

(* The report of process_job on an answer: the first check that fails names  *)
(* it.                                                                       *)
ReportOf(page) ==
  CASE NoPage(page) -> HttpReport(page)
    [] ~NoPage(page) /\ Unprofiled(page) -> ProfileReport(page)
    [] OTHER -> DocumentReport(page)

(* The requests that go with it: the browser loads the page again, and the   *)
(* sitemaps and feeds of its site are read.                                  *)
Rendered(page) ==
  ~NoPage(page) /\ page.profile /\ page.js \in {"failed", "rendered", "invalid"}
Surveyed(page) ==
  ~NoPage(page) /\ ~Unprofiled(page) /\ Discovers(page) /\ page.top

-----------------------------------------------------------------------------
(* What the control plane makes of a report that still has attempts.         *)

is_blocked_result(status, kind) ==
  status \in {401, 403} \/ kind \in {"robots", "blocked", "robots_blocked"}

filtered_reason(report) ==
  /\ report.status \in 200..299
  /\ report.kind \in {"blacklisted_domain", "site_profile_filtered", "page_noindex"}

Outcomes == {"none", "filtered", "succeeded", "failed", "gone", "blocked",
             "requires_js_render", "retryable"}

(* build_document: a title, a text, and no spam. *)
Documents(report) == report.title /\ report.body /\ ~report.spam

classify_job_outcome(report) ==
  IF report.status = 304 \/ filtered_reason(report) THEN "filtered"
  ELSE IF report.status \in 200..299 /\ report.kind = "none"
       THEN IF Documents(report) THEN "succeeded" ELSE "failed"
  ELSE IF report.status \in {404, 410} THEN "gone"
  ELSE IF is_blocked_result(report.status, report.kind) THEN "blocked"
  ELSE IF report.kind = "requires_js_render" THEN "requires_js_render"
  ELSE IF report.retryable THEN "retryable"
  ELSE "failed"

-----------------------------------------------------------------------------
(* A task.  "enter", "hop" and "final" are the three places that inspect the *)
(* robots rules; "refresh" is robots.txt being read for one of them; "late"  *)
(* is a sleep computed from a request that is no longer the last one.        *)
(* "rendered" is a page the browser has loaded, "survey" the sitemaps and    *)
(* feeds being read with the report all but done.                            *)

Inspections == {"enter", "hop", "final"}
Steps == Inspections \cup {"idle", "refresh", "limit", "sleep", "late", "get",
                           "backoff", "page", "rendered", "survey", "report"}
Limiter == {"sleep", "late"}
Checked == {"limit", "sleep", "late", "get"}

Tasks == [pc : Steps, stage : Inspections, home : Origins, at : Origins,
          had : BOOLEAN, hops : 0..MaxRedirects, tries : 0..MaxRetries,
          busy : BOOLEAN,    \* the answer was a transient failure
          outcome : Outcomes]

(* TemporarilyUnavailable is not among them: no entry gets it, a failure for  *)
(* which there are no rules to keep being stored as Unrestricted.            *)
Rules == {"unknown", "allow", "deny"}

TypeOK ==
  /\ rules \in [Origins -> Rules]
  /\ said \in [Origins -> Rules]
  /\ fresh \subseteq Origins /\ recent \subseteq Origins
  /\ clashed \subseteq Origins /\ torn \subseteq Origins /\ crowded \subseteq Origins
  /\ revised \subseteq Origins
  /\ task \in [Jobs -> Tasks]

SomeOrigin == CHOOSE o \in Origins : TRUE
Idle == [pc |-> "idle", stage |-> "enter", home |-> SomeOrigin, at |-> SomeOrigin,
         had |-> FALSE, hops |-> 0, tries |-> 0, busy |-> FALSE,
         outcome |-> "none"]

Init ==
  /\ rules = [o \in Origins |-> "unknown"]
  /\ said = [o \in Origins |-> "unknown"]
  /\ fresh = {} /\ recent = {}
  /\ clashed = {} /\ torn = {} /\ crowded = {} /\ revised = {}
  /\ task = [j \in Jobs |-> Idle]

(* Others(j, S): another task is at one of the steps S on the origin of j.   *)
Others(j, S) == \E k \in Jobs \ {j} : task[k].pc \in S /\ task[k].at = task[j].at

(* The task has its report, of which it keeps what the control plane will    *)
(* make of it.                                                               *)
Ended(t, report) ==
  [t EXCEPT !.pc = "report", !.stage = "enter", !.had = FALSE, !.at = t.home,
            !.hops = 0, !.tries = 0, !.busy = FALSE,
            !.outcome = classify_job_outcome(report)]

RobotsReport == base_report(599, "robots", FALSE)

(* Where the inspection of a task leads: a denied page is reported, but the *)
(* rules of the final URL are only quoted in the report.                     *)
Inspected(t, stage, rule) ==
  LET next == [t EXCEPT !.stage = "enter", !.had = FALSE]
  IN IF rule = "deny" /\ stage # "final" THEN Ended(next, RobotsReport)
     ELSE CASE stage = "enter" -> [next EXCEPT !.pc = "hop"]
            [] stage = "hop" -> [next EXCEPT !.pc = "limit"]
            [] stage = "final" -> [next EXCEPT !.pc = "page"]

-----------------------------------------------------------------------------
(* process_job starts on a job whose URL is at the origin o. *)
Start(j, o) ==
  /\ task[j].pc = "idle"
  /\ task' = [task EXCEPT ![j].pc = "enter", ![j].home = o, ![j].at = o]
  /\ UNCHANGED <<rules, fresh, recent, said, clashed, torn, crowded, revised>>

HasRules(rule) == rule # "unknown"

needs_refresh(o) == rules[o] = "unknown" \/ o \notin fresh

(* inspect_robots with an entry that is still good. *)
InspectCached(j) ==
  LET t == task[j] IN
  /\ t.pc \in Inspections
  /\ ~needs_refresh(t.at)
  /\ task' = [task EXCEPT ![j] = Inspected(t, t.pc, rules[t.at])]
  /\ UNCHANGED <<rules, fresh, recent, said, clashed, torn, crowded, revised>>

(* inspect_robots without one: had_cached_rules is read, the lock released,  *)
(* and robots.txt requested.                                                 *)
InspectRefresh(j) ==
  LET t == task[j] IN
  /\ t.pc \in Inspections
  /\ needs_refresh(t.at)
  /\ task' = [task EXCEPT ![j] = [t EXCEPT !.pc = "refresh", !.stage = t.pc,
                                           !.had = HasRules(rules[t.at])]]
  /\ clashed' = IF Others(j, {"refresh"}) THEN clashed \cup {t.at} ELSE clashed
  /\ UNCHANGED <<rules, fresh, recent, said, torn, crowded, revised>>

(* Mutant: a failure counts as an origin without rules.                      *)
fallback_robot_status_Mutation(had, current) == "allow"

(* What a failure to read robots.txt leaves: the rules there are, when there *)
(* were some before the request, and otherwise none at all.                  *)
fallback_robot_status(had, current) == IF had THEN current ELSE "allow"

(* The answer to robots.txt is stored: "allow" for rules that allow the path *)
(* and for a 4xx, "deny", "down" for a 5xx or a failed request, and "torn"   *)
(* for a success whose body does not arrive, which is read as an empty file. *)
Answers == {"allow", "deny", "down", "torn"}

Refreshed(j, answer) ==
  LET t == task[j]
      o == t.at
      rule == IF answer = "down" THEN fallback_robot_status(t.had, rules[o])
              ELSE IF answer = "torn" THEN "allow" ELSE answer
      whole == answer \in {"allow", "deny"}
  IN /\ t.pc = "refresh"
     /\ rules' = [rules EXCEPT ![o] = rule]
     /\ said' = IF whole THEN [said EXCEPT ![o] = answer] ELSE said
     /\ clashed' = IF whole /\ ~Others(j, {"refresh"}) THEN clashed \ {o}
                   ELSE clashed
     /\ torn' = IF whole THEN torn \ {o}
                ELSE IF answer = "torn" THEN torn \cup {o} ELSE torn
     /\ fresh' = fresh \cup {o}
     /\ revised' = IF Others(j, Checked) THEN revised \cup {o} ELSE revised
     /\ task' = [task EXCEPT ![j] = Inspected(t, t.stage, rule)]
     /\ UNCHANGED <<recent, crowded>>

(* The request is stamped and sent.  A task asleep at this origin goes on    *)
(* sleeping from the request it saw.                                         *)
Stamped(j) ==
  /\ recent' = recent \cup {task[j].at}
  /\ task' = [k \in Jobs |->
       CASE k = j -> [task[j] EXCEPT !.pc = "get"]
         [] k # j /\ task[k].pc = "sleep" /\ task[k].at = task[j].at ->
              [task[k] EXCEPT !.pc = "late"]
         [] OTHER -> task[k]]

(* Mutant: the pause is skipped.                                             *)
RateLimit_Mutation(j) ==
  /\ task[j].pc = "limit"
  /\ Stamped(j)
  /\ UNCHANGED <<rules, fresh, said, clashed, torn, crowded, revised>>

(* rate_limit_origin: the request goes out, or the task sleeps for what is   *)
(* left of the pause.                                                        *)
RateLimit(j) ==
  /\ task[j].pc = "limit"
  /\ IF task[j].at \in recent
     THEN /\ task' = [task EXCEPT ![j].pc = "sleep"]
          /\ UNCHANGED recent
     ELSE Stamped(j)
  /\ crowded' = IF Others(j, Limiter) THEN crowded \cup {task[j].at}
                ELSE crowded \ {task[j].at}
  /\ UNCHANGED <<rules, fresh, said, clashed, torn, revised>>

(* The sleep is over: the request is stamped without another look.           *)
Wake(j) ==
  /\ \/ task[j].pc = "sleep" /\ task[j].at \notin recent
     \/ task[j].pc = "late"
  /\ Stamped(j)
  /\ crowded' = IF Others(j, Limiter) THEN crowded ELSE crowded \ {task[j].at}
  /\ UNCHANGED <<rules, fresh, said, clashed, torn, revised>>

(* The task is past the request it had checked the rules for.                *)
Leaves(j) ==
  revised' = IF Others(j, Checked) THEN revised ELSE revised \ {task[j].at}

(* Mutant: a redirect inside the fetch loop is followed without asking.      *)
Redirected_Mutation(j, o) ==
  LET t == task[j] IN
  /\ t.pc = "get"
  /\ task' = [task EXCEPT ![j] =
       IF t.hops >= MaxRedirects
       THEN Ended(t, base_report(310, "redirect_loop", FALSE))
       ELSE [t EXCEPT !.pc = "limit", !.at = o, !.hops = @ + 1]]
  /\ Leaves(j)
  /\ UNCHANGED <<rules, fresh, recent, said, clashed, torn, crowded>>

(* Mutant: the limit is compared after the hop was counted.                  *)
Redirected_OffByOne(j, o) ==
  LET t == task[j] IN
  /\ t.pc = "get"
  /\ task' = [task EXCEPT ![j] =
       IF t.hops > MaxRedirects
       THEN Ended(t, base_report(310, "redirect_loop", FALSE))
       ELSE [t EXCEPT !.pc = "hop", !.at = o, !.hops = @ + 1]]
  /\ Leaves(j)
  /\ UNCHANGED <<rules, fresh, recent, said, clashed, torn, crowded>>

(* fetch_once: a redirect to a URL at o, whose robots rules come next.       *)
Redirected(j, o) ==
  LET t == task[j] IN
  /\ t.pc = "get"
  /\ task' = [task EXCEPT ![j] =
       IF t.hops >= MaxRedirects
       THEN Ended(t, base_report(310, "redirect_loop", FALSE))
       ELSE [t EXCEPT !.pc = "hop", !.at = o, !.hops = @ + 1]]
  /\ Leaves(j)
  /\ UNCHANGED <<rules, fresh, recent, said, clashed, torn, crowded>>

(* fetch_with_retry: after a pause, the job's own URL from its first hop.    *)
Retry(t) ==
  [t EXCEPT !.pc = "backoff", !.at = t.home, !.hops = 0, !.tries = @ + 1]

(* The request fails: another attempt, or the report.                        *)
RequestFailed(j) ==
  LET t == task[j] IN
  /\ t.pc = "get"
  /\ task' = [task EXCEPT ![j] =
       IF t.tries < MaxRetries THEN Retry(t)
       ELSE Ended(t, base_report(599, "network_error", TRUE))]
  /\ Leaves(j)
  /\ UNCHANGED <<rules, fresh, recent, said, clashed, torn, crowded>>

(* An answer that is no redirect to follow.  A transient one is asked again  *)
(* while attempts are left; any other is final.                              *)
Answered(j, busy) ==
  LET t == task[j] IN
  /\ t.pc = "get"
  /\ task' = [task EXCEPT ![j] =
       IF busy /\ t.tries < MaxRetries THEN Retry(t)
       ELSE [t EXCEPT !.pc = "final", !.busy = busy, !.hops = 0, !.tries = 0]]
  /\ Leaves(j)
  /\ UNCHANGED <<rules, fresh, recent, said, clashed, torn, crowded>>

BackedOff(j) ==
  /\ task[j].pc = "backoff"
  /\ task' = [task EXCEPT ![j].pc = "hop"]
  /\ UNCHANGED <<rules, fresh, recent, said, clashed, torn, crowded, revised>>

(* The browser loads the page once more: a request of its own, at once.      *)
Render(j) ==
  /\ task[j].pc = "page" /\ ~task[j].busy
  /\ task' = [task EXCEPT ![j].pc = "rendered"]
  /\ UNCHANGED <<rules, fresh, recent, said, clashed, torn, crowded, revised>>

(* The rest of process_job: the answer becomes a report, which is sent when  *)
(* the sitemaps and feeds of the site have been read.                        *)
ProcessPage(j, page) ==
  LET ended == Ended(task[j], ReportOf(page)) IN
  /\ \/ task[j].pc = "page" /\ ~Rendered(page)
     \/ task[j].pc = "rendered" /\ Rendered(page)
  /\ task[j].busy = Transient(page.status)
  /\ task' = [task EXCEPT ![j] =
       IF Surveyed(page) THEN [ended EXCEPT !.pc = "survey"] ELSE ended]
  /\ UNCHANGED <<rules, fresh, recent, said, clashed, torn, crowded, revised>>

(* fetch_and_parse_sitemap, for a sitemap, one that it names, or a feed, of  *)
(* whatever origin o it is: neither its rules nor its pause are looked at.   *)
Discover(j, o) ==
  /\ task[j].pc = "survey"
  /\ task' = [task EXCEPT ![j].at = o]
  /\ UNCHANGED <<rules, fresh, recent, said, clashed, torn, crowded, revised>>

(* The last of them is read. *)
Surveys(j) ==
  /\ task[j].pc = "survey"
  /\ task' = [task EXCEPT ![j].pc = "report", ![j].at = task[j].home]
  /\ UNCHANGED <<rules, fresh, recent, said, clashed, torn, crowded, revised>>

(* submit_report takes the report away. *)
Submit(j) ==
  /\ task[j].pc = "report"
  /\ task' = [task EXCEPT ![j] = Idle]
  /\ UNCHANGED <<rules, fresh, recent, said, clashed, torn, crowded, revised>>

(* Time: the entry of o reaches its time to live, the pause of o is over.    *)
Expire(o) ==
  /\ o \in fresh
  /\ fresh' = fresh \ {o}
  /\ UNCHANGED <<rules, recent, task, said, clashed, torn, crowded, revised>>

Elapse(o) ==
  /\ o \in recent
  /\ recent' = recent \ {o}
  /\ UNCHANGED <<rules, fresh, task, said, clashed, torn, crowded, revised>>

Continue(j) ==
  \/ InspectCached(j) \/ InspectRefresh(j)
  \/ \E answer \in Answers : Refreshed(j, answer)
  \/ RateLimit(j) \/ Wake(j)
  \/ \E o \in Origins : Redirected(j, o)
  \/ RequestFailed(j)
  \/ \E busy \in BOOLEAN : Answered(j, busy)
  \/ BackedOff(j)
  \/ Render(j)
  \/ \E page \in Pages : ProcessPage(j, page)
  \/ \E o \in Origins : Discover(j, o)
  \/ Surveys(j)

Next ==
  \/ \E j \in Jobs : Continue(j) \/ Submit(j)
  \/ \E j \in Jobs, o \in Homes : Start(j, o)
  \/ \E o \in Origins : Expire(o) \/ Elapse(o)

Spec == Init /\ [][Next]_vars

-----------------------------------------------------------------------------
(* What the cache says of an origin is what its robots.txt said when it last *)
(* arrived whole, whatever has failed since: a 5xx or a failed request lifts *)
(* no rule.  Two failures do, and are named: where two tasks read it at      *)
(* once, the one that had seen no rules, and fails, overwrites those the     *)
(* other one stored (fetch.rs:182-206); and a success whose body breaks off  *)
(* is an empty file (fetch.rs:145).  Each lasts until the file is read whole.*)
RulesHeld ==
  \A o \in Origins \ (clashed \cup torn) : said[o] # "unknown" => rules[o] = said[o]

(* The test robots_fallback_preserves_cached_rules_when_refresh_fails        *)
(* (fetch.rs:683) and the messages of inspect_robots (fetch.rs:166, 176) say *)
(* that a refresh that fails keeps the rules there are.                      *)
RefreshFailureKeepsRules ==
  \A o \in Origins \ clashed : said[o] # "unknown" => rules[o] = said[o]

(* A task that waits to send the request of a page, or has sent it, is at an *)
(* origin that the cache allows: every hop of every redirect and every retry *)
(* asked first.  Unless another task read the rules again in between: the    *)
(* check is not repeated after the sleep (fetch.rs:469-489).  The requests   *)
(* of Render and Discover ask no rules and are not meant.                    *)
HopsAllowed ==
  \A j \in Jobs : task[j].pc \in Checked /\ rules[task[j].at] \in {"unknown", "deny"}
                  => task[j].at \in revised

PageRequested(o) == \E j \in Jobs : /\ task[j].pc # "get" /\ task'[j].pc = "get"
                                    /\ task[j].at = o

(* Two page requests to an origin, first ones, redirects and retries alike,  *)
(* are a pause apart, unless tasks met at its pause: both sleep from the     *)
(* same last request and send together (fetch.rs:386-399).  It is said of    *)
(* the requests that go through rate_limit_origin and of no other:           *)
(* robots.txt, the browser, sitemaps and feeds are read at once and leave no *)
(* stamp, so a page may be followed by any number of them.                   *)
PagesSpaced ==
  [][\A o \in Origins : PageRequested(o) /\ o \in recent => o \in crowded]_vars

PageDone(j) == task[j].pc \in {"page", "rendered"} /\ task'[j] # task[j]

(* A page becomes a document only if it was a 2xx answer in HTML, with a     *)
(* title, that no rule, directive, detector or failure stood against; what   *)
(* is tried again is a 429 or 5xx and nothing else; one that asks not to be  *)
(* followed gives no links: through the report of the worker and the reading *)
(* of it by the control plane.                                               *)
ReportFaithful ==
  [][\A j \in Jobs : PageDone(j) =>
       \A page \in Pages :
         ProcessPage(j, page) =>
           /\ task'[j].outcome = "succeeded" =>
                /\ page.status \in 200..299 /\ page.html /\ page.profile
                /\ page.js \notin {"missing", "invalid"}
                /\ page.title /\ page.body /\ ~page.spam
                /\ page.action # "deny" /\ ~page.noindex
           /\ task'[j].outcome = "retryable" <=> Transient(page.status)
           /\ ReportOf(page).links => ~page.nofollow /\ page.action = "discover"]_vars
==============================================================================
