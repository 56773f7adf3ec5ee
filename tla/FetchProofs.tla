------------------------------ MODULE FetchProofs ------------------------------
(* Theorems about Fetch, for every value of its constants. *)
EXTENDS Fetch, TLAPS

-----------------------------------------------------------------------------
(* A refresh that saw an entry finds one when it ends; one that saw none is  *)
(* the only source of the rules, but for the origins two tasks read at once. *)
RefreshSound ==
  \A j \in Jobs :
    task[j].pc = "refresh" =>
      /\ task[j].had => rules[task[j].at] # "unknown"
      /\ ~task[j].had /\ task[j].at \notin clashed => said[task[j].at] = "unknown"

(* Where nobody has rules, none were ever read, the same origins apart. *)
AbsenceSound ==
  \A o \in Origins \ clashed : ~HasRules(rules[o]) => said[o] = "unknown"

ClashSound ==
  \A j, k \in Jobs :
    j # k /\ task[j].pc = "refresh" /\ task[k].pc = "refresh" /\ task[j].at = task[k].at
      => task[j].at \in clashed

(* Tasks that are asleep together crowd the origin, and so does a sleep that *)
(* another request has overtaken.                                            *)
PauseSound ==
  /\ \A j, k \in Jobs :
       j # k /\ task[j].pc \in Limiter /\ task[k].pc \in Limiter /\ task[j].at = task[k].at
         => task[j].at \in crowded
  /\ \A j \in Jobs : task[j].pc = "late" => task[j].at \in crowded

(* A step in which no task sends a request. *)
NoRequest == \A k \in Jobs : task'[k].pc = "get" => task[k].pc = "get"

IInv ==
  /\ TypeOK /\ RefreshSound /\ AbsenceSound /\ ClashSound /\ PauseSound
  /\ RulesHeld /\ HopsAllowed

-----------------------------------------------------------------------------
LEMMA IdleType == Idle \in Tasks /\ Idle.pc = "idle"
<1>1. SomeOrigin \in Origins
  BY FetchBounds DEF SomeOrigin
<1>2. QED
  BY <1>1, FetchBounds DEF Idle, Tasks, Steps, Inspections, Outcomes

LEMMA ZeroType == 0 \in 0..MaxRedirects /\ 0 \in 0..MaxRetries
BY FetchBounds

LEMMA OutcomeType == \A report : classify_job_outcome(report) \in Outcomes
BY DEF classify_job_outcome, Outcomes

LEMMA EndedType ==
  ASSUME NEW t \in Tasks, NEW report
  PROVE  Ended(t, report) \in Tasks /\ Ended(t, report).pc = "report"
<1>1. classify_job_outcome(report) \in Outcomes
  BY OutcomeType
<1> DEFINE o == classify_job_outcome(report)
<1>2. Ended(t, report) =
        [t EXCEPT !.pc = "report", !.stage = "enter", !.had = FALSE, !.at = t.home,
                  !.hops = 0, !.tries = 0, !.busy = FALSE, !.outcome = o]
  BY DEF Ended
<1> HIDE DEF o
<1>3. QED
  <2>1. {"report"} \subseteq Steps /\ "enter" \in Inspections /\ t.home \in Origins
    BY DEF Steps, Inspections, Tasks
  <2>2. o \in Outcomes
    BY <1>1 DEF o
  <2>3. QED
    BY <1>2, <2>1, <2>2, ZeroType DEF Tasks

LEMMA InspectedType ==
  ASSUME NEW t \in Tasks, NEW stage \in Inspections, NEW rule
  PROVE  /\ Inspected(t, stage, rule) \in Tasks
         /\ Inspected(t, stage, rule).pc \in {"hop", "limit", "page", "report"}
         /\ Inspected(t, stage, rule).pc = "limit" =>
              rule # "deny" /\ Inspected(t, stage, rule).at = t.at
<1> DEFINE next == [t EXCEPT !.stage = "enter", !.had = FALSE]
           i == Inspected(t, stage, rule)
<1>1. next \in Tasks /\ next.at = t.at /\ next.home = t.home
  BY DEF Tasks, Inspections
<1>2. i = IF rule = "deny" /\ stage # "final" THEN Ended(next, RobotsReport)
          ELSE CASE stage = "enter" -> [next EXCEPT !.pc = "hop"]
                 [] stage = "hop" -> [next EXCEPT !.pc = "limit"]
                 [] stage = "final" -> [next EXCEPT !.pc = "page"]
  BY DEF Inspected
<1> HIDE DEF next, i
<1>3. CASE rule = "deny" /\ stage # "final"
  BY <1>1, <1>2, <1>3, EndedType DEF i
<1>4. CASE ~(rule = "deny" /\ stage # "final") /\ stage = "enter"
  <2>1. i = [next EXCEPT !.pc = "hop"]
    BY <1>2, <1>4
  <2>2. i \in Tasks /\ i.pc = "hop"
    BY <1>1, <2>1 DEF Tasks, Steps, Inspections
  <2>3. QED
    BY <2>2 DEF i
<1>5. CASE ~(rule = "deny" /\ stage # "final") /\ stage = "hop"
  <2>1. i = [next EXCEPT !.pc = "limit"]
    BY <1>2, <1>5
  <2>2. i \in Tasks /\ i.pc = "limit" /\ i.at = t.at
    BY <1>1, <2>1 DEF Tasks, Steps
  <2>3. QED
    BY <1>5, <2>2 DEF i
<1>6. CASE stage = "final"
  <2>1. i = [next EXCEPT !.pc = "page"]
    BY <1>2, <1>6
  <2>2. i \in Tasks /\ i.pc = "page"
    BY <1>1, <2>1 DEF Tasks, Steps
  <2>3. QED
    BY <2>2 DEF i
<1>7. QED
  BY <1>3, <1>4, <1>5, <1>6 DEF Inspections

LEMMA InvInit == Init => IInv
<1> SUFFICES ASSUME Init PROVE IInv
  OBVIOUS
<1>1. \A j \in Jobs : task[j] = Idle
  BY DEF Init
<1>2. TypeOK
  BY IdleType DEF Init, TypeOK, Rules
<1>3. RefreshSound /\ AbsenceSound /\ ClashSound /\ PauseSound /\ RulesHeld /\ HopsAllowed
  BY <1>1, IdleType DEF Init, RefreshSound, AbsenceSound, ClashSound, PauseSound, RulesHeld, HopsAllowed,
                        Limiter, Checked
<1>4. QED
  BY <1>2, <1>3 DEF IInv

(* A task goes to a step outside the refresh and the pause. *)
LEMMA TaskStep ==
  ASSUME IInv, NEW j \in Jobs, NEW t \in Tasks,
         task' = [task EXCEPT ![j] = t],
         t.pc \notin Limiter \cup {"refresh", "get"},
         t.pc \in Checked => rules[t.at] \notin {"unknown", "deny"},
         UNCHANGED <<rules, fresh, recent, said, clashed, torn, crowded>>,
         UNCHANGED revised \/ Leaves(j)
  PROVE  IInv' /\ NoRequest
<1> USE DEF IInv
<1>1. /\ task' \in [Jobs -> Tasks] /\ task'[j] = t
      /\ \A k \in Jobs \ {j} : task'[k] = task[k]
  BY DEF TypeOK
<1>2. /\ revised' \subseteq Origins
      /\ \A k \in Jobs \ {j} :
           task[k].pc \in Checked /\ task[k].at \in revised => task[k].at \in revised'
  <2>1. CASE UNCHANGED revised
    BY <2>1 DEF TypeOK
  <2>2. CASE Leaves(j)
    BY <2>2 DEF Leaves, Others, TypeOK
  <2>3. QED
    BY <2>1, <2>2
<1>3. TypeOK'
  BY <1>1, <1>2 DEF TypeOK
<1>4. RefreshSound' /\ AbsenceSound' /\ ClashSound' /\ RulesHeld'
  BY <1>1 DEF RefreshSound, AbsenceSound, ClashSound, RulesHeld
<1>5. PauseSound'
  BY <1>1 DEF PauseSound, Limiter
<1>6. HopsAllowed'
  BY <1>1, <1>2 DEF HopsAllowed
<1>7. NoRequest
  BY <1>1 DEF NoRequest
<1>8. QED
  BY <1>3, <1>4, <1>5, <1>6, <1>7

LEMMA TaskSteps ==
  ASSUME IInv, NEW j \in Jobs,
         \/ \E o \in Homes : Start(j, o)
         \/ InspectCached(j)
         \/ \E o \in Origins : Redirected(j, o)
         \/ RequestFailed(j)
         \/ \E busy \in BOOLEAN : Answered(j, busy)
         \/ BackedOff(j)
         \/ Render(j)
         \/ \E page \in Pages : ProcessPage(j, page)
         \/ \E o \in Origins : Discover(j, o)
         \/ Surveys(j)
         \/ Submit(j)
  PROVE  IInv' /\ NoRequest
<1> USE DEF IInv
<1> DEFINE t == task[j]
<1>0. t \in Tasks
  BY DEF TypeOK
<1>q. ASSUME NEW u \in Tasks, task' = [task EXCEPT ![j] = u],
             u.pc \in {"enter", "hop", "backoff", "final", "rendered", "survey",
                      "report", "idle"},
             UNCHANGED <<rules, fresh, recent, said, clashed, torn, crowded>>,
             UNCHANGED revised \/ Leaves(j)
      PROVE  IInv' /\ NoRequest
  <2>1. u.pc \notin Limiter \cup {"refresh", "get"} /\ u.pc \notin Checked
    BY <1>q DEF Limiter, Checked
  <2>2. QED
    BY <1>q, <2>1, TaskStep
<1>r. ASSUME t.tries < MaxRetries
      PROVE  Retry(t) \in Tasks /\ Retry(t).pc = "backoff"
  <2>1. t.tries + 1 \in 0..MaxRetries
    BY <1>0, <1>r, FetchBounds DEF Tasks
  <2>2. QED
    <3>1. t.home \in Origins /\ "backoff" \in Steps
      BY <1>0 DEF Tasks, Steps
    <3> HIDE DEF t
    <3>2. QED
      BY <1>0, <2>1, <3>1, ZeroType DEF Retry, Tasks
<1>1. ASSUME NEW o \in Homes, Start(j, o) PROVE IInv' /\ NoRequest
  <2> DEFINE u == [t EXCEPT !.pc = "enter", !.home = o, !.at = o]
  <2>1. u \in Tasks /\ u.pc = "enter"
    BY <1>0, FetchBounds DEF Tasks, Steps, Inspections
  <2>2. task' = [task EXCEPT ![j] = u]
    BY <1>1 DEF Start, TypeOK
  <2> HIDE DEF u
  <2>3. QED
    BY <1>1, <1>q, <2>1, <2>2 DEF Start
<1>2. CASE InspectCached(j)
  <2> DEFINE u == Inspected(t, t.pc, rules[t.at])
  <2>1. /\ t.pc \in Inspections /\ rules[t.at] # "unknown"
        /\ task' = [task EXCEPT ![j] = u]
        /\ UNCHANGED <<rules, fresh, recent, said, clashed, torn, crowded, revised>>
    BY <1>2 DEF InspectCached, needs_refresh
  <2>2. /\ u \in Tasks /\ u.pc \in {"hop", "limit", "page", "report"}
        /\ u.pc = "limit" => rules[t.at] # "deny" /\ u.at = t.at
    BY <1>0, <2>1, InspectedType
  <2> HIDE DEF u
  <2>3. u.pc = "limit" => rules[u.at] \notin {"unknown", "deny"}
    BY <2>1, <2>2
  <2>4. /\ u.pc \notin Limiter \cup {"refresh", "get"}
        /\ u.pc \in Checked => rules[u.at] \notin {"unknown", "deny"}
    BY <2>2, <2>3 DEF Limiter, Checked
  <2>5. QED
    BY <2>1, <2>2, <2>4, TaskStep
<1>3. ASSUME NEW o \in Origins, Redirected(j, o) PROVE IInv' /\ NoRequest
  <2> DEFINE report == base_report(310, "redirect_loop", FALSE)
             u == [t EXCEPT !.pc = "hop", !.at = o, !.hops = @ + 1]
  <2>1. /\ task' = [task EXCEPT ![j] = IF t.hops >= MaxRedirects THEN Ended(t, report) ELSE u]
        /\ Leaves(j) /\ UNCHANGED <<rules, fresh, recent, said, clashed, torn, crowded>>
    BY <1>3 DEF Redirected
  <2>2. Ended(t, report) \in Tasks /\ Ended(t, report).pc = "report"
    BY <1>0, EndedType
  <2>3. ~(t.hops >= MaxRedirects) => u \in Tasks /\ u.pc = "hop"
    <3>1. ~(t.hops >= MaxRedirects) => t.hops + 1 \in 0..MaxRedirects
      BY <1>0, FetchBounds DEF Tasks
    <3>2. "hop" \in Steps
      BY DEF Steps, Inspections
    <3> HIDE DEF t
    <3>3. QED
      BY <1>0, <3>1, <3>2 DEF Tasks
  <2> HIDE DEF u, report
  <2>4. QED
    BY <1>q, <2>1, <2>2, <2>3
<1>4. CASE RequestFailed(j)
  <2> DEFINE report == base_report(599, "network_error", TRUE)
  <2>1. /\ task' = [task EXCEPT ![j] = IF t.tries < MaxRetries THEN Retry(t)
                                       ELSE Ended(t, report)]
        /\ Leaves(j) /\ UNCHANGED <<rules, fresh, recent, said, clashed, torn, crowded>>
    BY <1>4 DEF RequestFailed
  <2> HIDE DEF report, t
  <2>2. Ended(t, report) \in Tasks /\ Ended(t, report).pc = "report"
    BY <1>0, EndedType
  <2>3. QED
    BY <1>q, <1>r, <2>1, <2>2
<1>5. ASSUME NEW busy \in BOOLEAN, Answered(j, busy) PROVE IInv' /\ NoRequest
  <2> DEFINE u == [t EXCEPT !.pc = "final", !.busy = busy, !.hops = 0, !.tries = 0]
  <2>1. /\ task' = [task EXCEPT ![j] = IF busy /\ t.tries < MaxRetries THEN Retry(t) ELSE u]
        /\ Leaves(j) /\ UNCHANGED <<rules, fresh, recent, said, clashed, torn, crowded>>
    BY <1>5 DEF Answered
  <2>2. u \in Tasks /\ u.pc = "final"
    <3>1. "final" \in Steps
      BY DEF Steps, Inspections
    <3> HIDE DEF t
    <3>2. QED
      BY <1>0, <3>1, ZeroType DEF Tasks
  <2> HIDE DEF u, t
  <2>3. QED
    BY <1>q, <1>r, <2>1, <2>2
<1>6. CASE BackedOff(j)
  <2> DEFINE u == [t EXCEPT !.pc = "hop"]
  <2>1. u \in Tasks /\ u.pc = "hop"
    BY <1>0 DEF Tasks, Steps, Inspections
  <2>2. task' = [task EXCEPT ![j] = u]
    BY <1>6 DEF BackedOff, TypeOK
  <2> HIDE DEF u
  <2>3. QED
    BY <1>6, <1>q, <2>1, <2>2 DEF BackedOff
<1>7. ASSUME NEW page \in Pages, ProcessPage(j, page) PROVE IInv' /\ NoRequest
  <2> DEFINE ended == Ended(t, ReportOf(page))
             u == IF Surveyed(page) THEN [ended EXCEPT !.pc = "survey"] ELSE ended
  <2>1. /\ task' = [task EXCEPT ![j] = u]
        /\ UNCHANGED <<rules, fresh, recent, said, clashed, torn, crowded, revised>>
    BY <1>7 DEF ProcessPage
  <2>2. ended \in Tasks /\ ended.pc = "report"
    BY <1>0, EndedType
  <2>3. u \in Tasks /\ u.pc \in {"survey", "report"}
    <3> HIDE DEF ended
    <3>1. [ended EXCEPT !.pc = "survey"] \in Tasks
          /\ [ended EXCEPT !.pc = "survey"].pc = "survey"
      BY <2>2 DEF Tasks, Steps
    <3>2. QED
      BY <2>2, <3>1
  <2> HIDE DEF u
  <2>4. QED
    BY <1>q, <2>1, <2>3
<1>8. CASE Submit(j)
  BY <1>8, <1>q, IdleType DEF Submit
<1>9. CASE Render(j)
  <2> DEFINE u == [t EXCEPT !.pc = "rendered"]
  <2>1. u \in Tasks /\ u.pc = "rendered"
    BY <1>0 DEF Tasks, Steps
  <2>2. task' = [task EXCEPT ![j] = u]
    BY <1>9 DEF Render, TypeOK
  <2> HIDE DEF u
  <2>3. QED
    BY <1>9, <1>q, <2>1, <2>2 DEF Render
<1>10. ASSUME NEW o \in Origins, Discover(j, o) PROVE IInv' /\ NoRequest
  <2> DEFINE u == [t EXCEPT !.at = o]
  <2>1. u \in Tasks /\ u.pc = "survey"
    BY <1>0, <1>10 DEF Tasks, Discover
  <2>2. task' = [task EXCEPT ![j] = u]
    BY <1>10 DEF Discover, TypeOK
  <2> HIDE DEF u
  <2>3. QED
    BY <1>10, <1>q, <2>1, <2>2 DEF Discover
<1>11. CASE Surveys(j)
  <2> DEFINE u == [t EXCEPT !.pc = "report", !.at = t.home]
  <2>1. u \in Tasks /\ u.pc = "report"
    BY <1>0 DEF Tasks, Steps
  <2>2. task' = [task EXCEPT ![j] = u]
    BY <1>11 DEF Surveys, TypeOK
  <2> HIDE DEF u
  <2>3. QED
    BY <1>11, <1>q, <2>1, <2>2 DEF Surveys
<1>12. QED
  BY <1>1, <1>2, <1>3, <1>4, <1>5, <1>6, <1>7, <1>8, <1>9, <1>10, <1>11

LEMMA BeginRefresh ==
  ASSUME IInv, NEW j \in Jobs, InspectRefresh(j)
  PROVE  IInv' /\ NoRequest
<1> USE DEF IInv
<1> DEFINE t == task[j]
           had == HasRules(rules[t.at])
           u == [t EXCEPT !.pc = "refresh", !.stage = t.pc, !.had = had]
<1>1. /\ t \in Tasks /\ t.pc \in Inspections
      /\ task' = [task EXCEPT ![j] = u]
      /\ clashed' = IF Others(j, {"refresh"}) THEN clashed \cup {t.at} ELSE clashed
      /\ UNCHANGED <<rules, fresh, recent, said, torn, crowded, revised>>
  BY DEF InspectRefresh, TypeOK
<1>2. /\ u \in Tasks /\ u.pc = "refresh" /\ u.at = t.at /\ t.at \in Origins
      /\ u.had <=> HasRules(rules[t.at])
  <2>1. had \in BOOLEAN
    BY DEF HasRules
  <2> HIDE DEF had
  <2>2. u \in Tasks /\ u.pc = "refresh" /\ u.at = t.at /\ t.at \in Origins /\ u.had = had
    BY <1>1, <2>1 DEF Tasks, Steps
  <2>3. QED
    BY <2>2 DEF had
<1> HIDE DEF u, had
<1>3. /\ task' \in [Jobs -> Tasks] /\ task'[j] = u
      /\ \A k \in Jobs \ {j} : task'[k] = task[k]
  BY <1>1, <1>2 DEF TypeOK
<1>4. TypeOK'
  BY <1>1, <1>2, <1>3 DEF TypeOK
<1>5. RulesHeld' /\ AbsenceSound' /\ HopsAllowed' /\ PauseSound'
  BY <1>1, <1>2, <1>3 DEF RulesHeld, AbsenceSound, HopsAllowed, PauseSound, Limiter, Checked
<1>6. ClashSound'
  BY <1>1, <1>2, <1>3 DEF ClashSound, Others
<1>7. RefreshSound'
  <2> SUFFICES ASSUME NEW k \in Jobs, task'[k].pc = "refresh"
               PROVE  /\ task'[k].had => rules[task'[k].at] # "unknown"
                      /\ ~task'[k].had /\ task'[k].at \notin clashed' =>
                           said[task'[k].at] = "unknown"
    BY <1>1 DEF RefreshSound
  <2>1. CASE k = j
    <3>1. ~HasRules(rules[t.at]) /\ t.at \notin clashed => said[t.at] = "unknown"
      BY <1>2 DEF AbsenceSound
    <3>2. HasRules(rules[t.at]) => rules[t.at] # "unknown"
      BY DEF HasRules
    <3>3. QED
      BY <1>1, <1>2, <1>3, <2>1, <3>1, <3>2
  <2>2. CASE k # j
    BY <1>1, <1>3, <2>2 DEF RefreshSound
  <2>3. QED
    BY <2>1, <2>2
<1>8. NoRequest
  BY <1>2, <1>3 DEF NoRequest
<1>9. QED
  BY <1>4, <1>5, <1>6, <1>7, <1>8

LEMMA EndRefresh ==
  ASSUME IInv, NEW j \in Jobs, NEW answer \in Answers, Refreshed(j, answer)
  PROVE  IInv' /\ NoRequest
<1> USE DEF IInv
<1> DEFINE t == task[j]
           o == t.at
           rule == IF answer = "down" THEN fallback_robot_status(t.had, rules[o])
                   ELSE IF answer = "torn" THEN "allow" ELSE answer
           whole == answer \in {"allow", "deny"}
           u == Inspected(t, t.stage, rule)
<1>1. /\ t \in Tasks /\ t.pc = "refresh" /\ o \in Origins /\ t.stage \in Inspections
      /\ rules' = [rules EXCEPT ![o] = rule]
      /\ said' = IF whole THEN [said EXCEPT ![o] = answer] ELSE said
      /\ clashed' = IF whole /\ ~Others(j, {"refresh"}) THEN clashed \ {o} ELSE clashed
      /\ torn' = IF whole THEN torn \ {o}
                 ELSE IF answer = "torn" THEN torn \cup {o} ELSE torn
      /\ fresh' = fresh \cup {o}
      /\ revised' = IF Others(j, Checked) THEN revised \cup {o} ELSE revised
      /\ task' = [task EXCEPT ![j] = u]
      /\ UNCHANGED <<recent, crowded>>
  BY DEF Refreshed, TypeOK, Tasks
<1>2. /\ whole => rule = answer
      /\ ~whole => answer = "down" \/ (answer = "torn" /\ rule = "allow")
      /\ answer = "down" /\ t.had => rule = rules[o]
      /\ answer = "down" /\ ~t.had => rule = "allow"
      /\ rule \in Rules \ {"unknown"}
  <2>1. t.had => rules[o] \in Rules \ {"unknown"}
    BY <1>1 DEF RefreshSound, TypeOK
  <2>2. t.had \in BOOLEAN
    BY <1>1 DEF Tasks
  <2>3. QED
    BY <2>1, <2>2 DEF fallback_robot_status, Rules, Answers
<1> HIDE DEF rule
<1>3. /\ u \in Tasks /\ u.pc \in {"hop", "limit", "page", "report"}
      /\ u.pc = "limit" => rule # "deny" /\ u.at = o
  BY <1>1, <1>2, InspectedType
<1> HIDE DEF u
<1>4. /\ task' \in [Jobs -> Tasks] /\ task'[j] = u
      /\ \A k \in Jobs \ {j} : task'[k] = task[k]
  BY <1>1, <1>3 DEF TypeOK
<1>5. /\ rules' \in [Origins -> Rules]
      /\ \A p \in Origins : rules'[p] = IF p = o THEN rule ELSE rules[p]
      /\ said' \in [Origins -> Rules]
      /\ \A p \in Origins : said'[p] = IF p = o /\ whole THEN answer ELSE said[p]
  BY <1>1, <1>2 DEF TypeOK, Rules
<1>6. TypeOK'
  BY <1>1, <1>4, <1>5 DEF TypeOK
<1>7. PauseSound'
  BY <1>1, <1>3, <1>4 DEF PauseSound, Limiter
<1>8. ClashSound'
  BY <1>1, <1>3, <1>4 DEF ClashSound, Others
<1>9. RulesHeld'
  <2> SUFFICES ASSUME NEW p \in Origins \ (clashed' \cup torn'), said'[p] # "unknown"
               PROVE  rules'[p] = said'[p]
    BY DEF RulesHeld
  <2>1. CASE p # o
    BY <1>1, <1>5, <2>1 DEF RulesHeld
  <2>2. CASE p = o /\ whole
    BY <1>2, <1>5, <2>2
  <2>3. CASE p = o /\ ~whole
    <3>1. answer = "down" /\ o \notin clashed \cup torn /\ said[o] # "unknown"
      BY <1>1, <1>2, <1>5, <2>3
    <3>2. t.had /\ rules[o] = said[o]
      BY <1>1, <3>1 DEF RefreshSound, RulesHeld
    <3>3. QED
      BY <1>2, <1>5, <2>3, <3>1, <3>2
  <2>4. QED
    BY <2>1, <2>2, <2>3
<1>a. AbsenceSound'
  <2> SUFFICES ASSUME NEW p \in Origins \ clashed', ~HasRules(rules'[p])
               PROVE  said'[p] = "unknown"
    BY DEF AbsenceSound
  <2>1. CASE p # o
    BY <1>1, <1>5, <2>1 DEF AbsenceSound
  <2>2. CASE p = o
    BY <1>2, <1>5, <2>2 DEF HasRules
  <2>3. QED
    BY <2>1, <2>2
<1>10. HopsAllowed'
  <2> SUFFICES ASSUME NEW k \in Jobs, task'[k].pc \in Checked,
                      rules'[task'[k].at] \in {"unknown", "deny"}
               PROVE  task'[k].at \in revised'
    BY DEF HopsAllowed
  <2>1. k # j
    <3>1. ASSUME k = j PROVE FALSE
      <4>1. u.pc = "limit"
        BY <1>3, <1>4, <3>1 DEF Checked
      <4>2. QED
        BY <1>1, <1>2, <1>3, <1>4, <1>5, <3>1, <4>1
    <3>2. QED
      BY <3>1
  <2>2. task'[k] = task[k] /\ task[k].at \in Origins
    BY <1>4, <2>1 DEF TypeOK, Tasks
  <2>3. CASE task[k].at = o
    BY <1>1, <2>1, <2>2, <2>3 DEF Others
  <2>4. CASE task[k].at # o
    BY <1>1, <1>5, <2>2, <2>4 DEF HopsAllowed
  <2>5. QED
    BY <2>3, <2>4
<1>11. RefreshSound'
  <2> SUFFICES ASSUME NEW k \in Jobs, task'[k].pc = "refresh"
               PROVE  /\ task'[k].had => rules'[task'[k].at] # "unknown"
                      /\ ~task'[k].had /\ task'[k].at \notin clashed' =>
                           said'[task'[k].at] = "unknown"
    BY DEF RefreshSound
  <2>1. k # j /\ task'[k] = task[k] /\ task[k].at \in Origins
    BY <1>3, <1>4 DEF TypeOK, Tasks
  <2>2. task'[k].had => rules'[task'[k].at] # "unknown"
    BY <1>2, <1>5, <2>1 DEF RefreshSound
  <2>3. CASE task[k].at = o
    <3>1. o \in clashed /\ Others(j, {"refresh"})
      BY <1>1, <2>1, <2>3 DEF ClashSound, Others
    <3>2. o \in clashed'
      BY <1>1, <3>1
    <3>3. QED
      BY <2>1, <2>2, <2>3, <3>2
  <2>4. CASE task[k].at # o
    BY <1>1, <1>5, <2>1, <2>2, <2>4 DEF RefreshSound
  <2>5. QED
    BY <2>3, <2>4
<1>12. NoRequest
  BY <1>3, <1>4 DEF NoRequest
<1>13. QED
  BY <1>6, <1>7, <1>8, <1>9, <1>a, <1>10, <1>11, <1>12

-----------------------------------------------------------------------------
(* The pause.                                                                *)

LEMMA StampedType ==
  ASSUME TypeOK, NEW j \in Jobs, Stamped(j)
  PROVE  /\ task' \in [Jobs -> Tasks] /\ recent' \subseteq Origins
         /\ task'[j].pc = "get" /\ task'[j].at = task[j].at
         /\ \A k \in Jobs \ {j} :
              /\ task'[k].at = task[k].at /\ task'[k].had = task[k].had
              /\ \/ task'[k].pc = task[k].pc
                 \/ /\ task[k].pc = "sleep" /\ task[k].at = task[j].at
                    /\ task'[k].pc = "late"
<1>1. \A k \in Jobs : task[k] \in Tasks
  BY DEF TypeOK
<1>2. task'[j] = [task[j] EXCEPT !.pc = "get"]
  BY DEF Stamped
<1>3. task'[j] \in Tasks /\ task'[j].pc = "get" /\ task'[j].at = task[j].at
  BY <1>1, <1>2 DEF Tasks, Steps
<1>4. ASSUME NEW k \in Jobs \ {j}
      PROVE  /\ task'[k] \in Tasks
             /\ task'[k].at = task[k].at /\ task'[k].had = task[k].had
             /\ \/ task'[k].pc = task[k].pc
                \/ /\ task[k].pc = "sleep" /\ task[k].at = task[j].at
                   /\ task'[k].pc = "late"
  <2>1. CASE task[k].pc = "sleep" /\ task[k].at = task[j].at
    <3>1. task'[k] = [task[k] EXCEPT !.pc = "late"]
      BY <2>1 DEF Stamped
    <3>2. QED
      BY <1>1, <2>1, <3>1 DEF Tasks, Steps
  <2>2. CASE ~(task[k].pc = "sleep" /\ task[k].at = task[j].at)
    <3>1. task'[k] = task[k]
      BY <2>2 DEF Stamped
    <3>2. QED
      BY <1>1, <3>1
  <2>3. QED
    BY <2>1, <2>2
<1>5. task' \in [Jobs -> Tasks]
  <2>1. \A k \in Jobs : task'[k] \in Tasks
    BY <1>3, <1>4
  <2>2. task' = [k \in Jobs |-> task'[k]]
    BY DEF Stamped
  <2>3. QED
    BY <2>1, <2>2
<1>6. recent' \subseteq Origins
  BY <1>1 DEF Stamped, TypeOK, Tasks
<1>7. QED
  BY <1>3, <1>4, <1>5, <1>6

(* Whatever the task does at the pause, the other parts of the invariant stay. *)
LEMMA PauseStep ==
  ASSUME IInv, NEW j \in Jobs, task[j].pc \in {"limit", "sleep", "late"},
         task' \in [Jobs -> Tasks], recent' \subseteq Origins, crowded' \subseteq Origins,
         task'[j].pc \in {"get", "sleep"}, task'[j].at = task[j].at,
         \A k \in Jobs \ {j} :
           /\ task'[k].at = task[k].at /\ task'[k].had = task[k].had
           /\ task'[k].pc = task[k].pc \/ (task[k].pc = "sleep" /\ task'[k].pc = "late"),
         UNCHANGED <<rules, fresh, said, clashed, torn, revised>>,
         PauseSound'
  PROVE  IInv'
<1> USE DEF IInv
<1>1. TypeOK' /\ RulesHeld' /\ AbsenceSound'
  BY DEF TypeOK, RulesHeld, AbsenceSound
<1>2. \A k \in Jobs : /\ task'[k].at = task[k].at
                      /\ task'[k].pc = "refresh" =>
                           task[k].pc = "refresh" /\ task'[k].had = task[k].had
                      /\ task'[k].pc \in Checked => task[k].pc \in Checked
  BY DEF Checked
<1>3. RefreshSound' /\ ClashSound'
  BY <1>2 DEF RefreshSound, ClashSound
<1>4. HopsAllowed'
  BY <1>2 DEF HopsAllowed
<1>5. QED
  BY <1>1, <1>3, <1>4

LEMMA PauseSteps ==
  ASSUME IInv, NEW j \in Jobs, RateLimit(j) \/ Wake(j)
  PROVE  IInv'
<1> USE DEF IInv
<1> DEFINE o == task[j].at
<1>0. task[j] \in Tasks /\ o \in Origins
  BY DEF TypeOK, Tasks
<1>1. CASE RateLimit(j) /\ o \in recent
  <2>1. /\ task' = [task EXCEPT ![j].pc = "sleep"] /\ task[j].pc = "limit"
        /\ crowded' = IF Others(j, Limiter) THEN crowded \cup {o} ELSE crowded \ {o}
        /\ UNCHANGED <<rules, fresh, recent, said, clashed, torn, revised>>
    BY <1>1 DEF RateLimit
  <2>2. [task[j] EXCEPT !.pc = "sleep"] \in Tasks
    BY <1>0 DEF Tasks, Steps
  <2>3. /\ task' \in [Jobs -> Tasks] /\ task'[j].pc = "sleep" /\ task'[j].at = o
        /\ \A k \in Jobs \ {j} : task'[k] = task[k]
    BY <1>0, <2>1, <2>2 DEF TypeOK, Tasks
  <2>4. PauseSound'
    BY <2>1, <2>3 DEF PauseSound, Others, Limiter
  <2>5. recent' \subseteq Origins /\ crowded' \subseteq Origins
    BY <1>0, <2>1 DEF TypeOK
  <2>6. QED
    BY <2>1, <2>3, <2>4, <2>5, PauseStep
<1>2. CASE (RateLimit(j) /\ o \notin recent) \/ Wake(j)
  <2>1. /\ Stamped(j) /\ task[j].pc \in {"limit", "sleep", "late"}
        /\ UNCHANGED <<rules, fresh, said, clashed, torn, revised>>
        /\ \/ task[j].pc = "limit" /\ crowded' = IF Others(j, Limiter) THEN crowded \cup {o}
                                                ELSE crowded \ {o}
           \/ /\ task[j].pc \in Limiter
              /\ crowded' = IF Others(j, Limiter) THEN crowded ELSE crowded \ {o}
    BY <1>2 DEF RateLimit, Wake, Limiter
  <2>2. /\ task' \in [Jobs -> Tasks] /\ recent' \subseteq Origins
        /\ task'[j].pc = "get" /\ task'[j].at = o
        /\ \A k \in Jobs \ {j} :
             /\ task'[k].at = task[k].at /\ task'[k].had = task[k].had
             /\ \/ task'[k].pc = task[k].pc
                \/ task[k].pc = "sleep" /\ task[k].at = o /\ task'[k].pc = "late"
    BY <2>1, StampedType
  <2>3. crowded' \subseteq Origins
    BY <1>0, <2>1 DEF TypeOK
  <2>4. Others(j, Limiter) => o \in crowded'
    BY <2>1 DEF PauseSound, Others
  <2>5. /\ \A k \in Jobs \ {j} : task'[k].pc \in Limiter => task[k].pc \in Limiter
        /\ task'[j].pc \notin Limiter
    BY <2>2 DEF Limiter
  <2>6. \A p \in Origins \ {o} : p \in crowded => p \in crowded'
    BY <2>1
  <2>7. ASSUME NEW k \in Jobs \ {j}, task'[k].pc \in Limiter, task'[k].at = o
        PROVE  o \in crowded'
    BY <2>2, <2>4, <2>5, <2>7 DEF Others
  <2>8. PauseSound'
    <3>1. ASSUME NEW k \in Jobs, NEW m \in Jobs, k # m, task'[k].pc \in Limiter,
                 task'[m].pc \in Limiter, task'[k].at = task'[m].at
          PROVE  task'[k].at \in crowded'
      <4>1. k # j /\ m # j /\ task[k].at \in Origins
        BY <2>5, <3>1 DEF TypeOK, Tasks
      <4>2. CASE task'[k].at = o
        BY <2>7, <3>1, <4>1, <4>2
      <4>3. CASE task'[k].at # o
        BY <2>2, <2>5, <2>6, <3>1, <4>1, <4>3 DEF PauseSound
      <4>4. QED
        BY <4>2, <4>3
    <3>2. ASSUME NEW k \in Jobs, task'[k].pc = "late" PROVE task'[k].at \in crowded'
      <4>1. k # j /\ task[k].at \in Origins /\ task'[k].pc \in Limiter
        BY <2>2, <3>2 DEF TypeOK, Tasks, Limiter
      <4>2. CASE task'[k].at = o
        BY <2>7, <4>1, <4>2
      <4>3. CASE task'[k].at # o
        BY <2>2, <2>6, <3>2, <4>1, <4>3 DEF PauseSound
      <4>4. QED
        BY <4>2, <4>3
    <3>3. QED
      BY <3>1, <3>2 DEF PauseSound
  <2>9. QED
    BY <2>1, <2>2, <2>3, <2>8, PauseStep
<1>3. QED
  BY <1>1, <1>2

LEMMA TimeSteps ==
  ASSUME IInv, \E o \in Origins : Expire(o) \/ Elapse(o)
  PROVE  IInv'
BY DEF IInv, TypeOK, RefreshSound, AbsenceSound, ClashSound, PauseSound, RulesHeld,
       HopsAllowed, Expire, Elapse

LEMMA InvStutter == IInv /\ UNCHANGED vars => IInv'
BY DEF IInv, TypeOK, RefreshSound, AbsenceSound, ClashSound, PauseSound, RulesHeld,
       HopsAllowed, vars

LEMMA InvNext == IInv /\ [Next]_vars => IInv'
<1> SUFFICES ASSUME IInv, [Next]_vars PROVE IInv'
  OBVIOUS
<1>1. ASSUME NEW j \in Jobs, Continue(j) \/ Submit(j) PROVE IInv'
  BY <1>1, TaskSteps, BeginRefresh, EndRefresh, PauseSteps DEF Continue
<1>2. ASSUME NEW j \in Jobs, NEW o \in Homes, Start(j, o) PROVE IInv'
  BY <1>2, TaskSteps
<1>3. QED
  BY <1>1, <1>2, TimeSteps, InvStutter DEF Next

LEMMA Invariant == Spec => []IInv
BY InvInit, InvNext, PTL DEF Spec

-----------------------------------------------------------------------------
(* Type correctness (the robots cache, the pauses and the tasks of a worker, *)
(* fetch.rs).                                                                *)
THEOREM TypeCorrect == Spec => []TypeOK
BY Invariant, PTL DEF IInv

(* For any number of tasks and origins, a 5xx or a request that fails lifts   *)
(* no rule of a robots.txt that arrived whole, the origins apart where two   *)
(* tasks read it at once or a success broke off (inspect_robots,             *)
(* fetch.rs:142-206).                                                        *)
THEOREM RulesHeldAlways == Spec => []RulesHeld
BY Invariant, PTL DEF IInv

(* For any bound on redirects and retries, no page request is on its way to  *)
(* an origin whose rules were not asked, or are against it, but for rules    *)
(* that came in after the check (fetch_once, fetch.rs:469-489).              *)
THEOREM HopsAllowedAlways == Spec => []HopsAllowed
BY Invariant, PTL DEF IInv

(* Page requests to an origin are a pause apart unless tasks met at the      *)
(* pause (rate_limit_origin, fetch.rs:366-404), whatever else is sent there. *)
THEOREM PagesSpacedAlways == Spec => PagesSpaced
<1> DEFINE Apart == \A o \in Origins : PageRequested(o) /\ o \in recent => o \in crowded
<1>1. ASSUME IInv, [Next]_vars PROVE Apart
  <2> SUFFICES ASSUME NEW j \in Jobs, task[j].pc # "get", task'[j].pc = "get",
                      task[j].at \in recent
               PROVE  task[j].at \in crowded
    BY DEF PageRequested
  <2>1. ASSUME NEW k \in Jobs, RateLimit(k) \/ Wake(k)
        PROVE  task[j].at \in crowded
    <3>1. CASE task'[k].pc = "sleep"
      <4>1. task' = [task EXCEPT ![k].pc = "sleep"] \/ Stamped(k)
        BY <2>1 DEF RateLimit, Wake
      <4>2. Stamped(k) => task'[k].pc = "get"
        BY <1>1, StampedType DEF IInv
      <4>3. task' = [task EXCEPT ![k].pc = "sleep"]
        BY <3>1, <4>1, <4>2
      <4>4. task'[j].pc = task[j].pc \/ task'[j].pc = "sleep"
        BY <1>1, <4>3 DEF IInv, TypeOK, Tasks
      <4>5. QED
        BY <4>4
    <3>2. CASE task'[k].pc # "sleep"
      <4>1. [task[k] EXCEPT !.pc = "sleep"].pc = "sleep"
        BY <1>1 DEF IInv, TypeOK, Tasks
      <4>2. Stamped(k) /\ (RateLimit(k) => task[k].at \notin recent)
        BY <1>1, <2>1, <3>2, <4>1 DEF RateLimit, Wake, IInv, TypeOK
      <4>3. k = j
        BY <1>1, <4>2, StampedType DEF IInv
      <4>4. Wake(j) /\ task[j].pc = "late"
        BY <2>1, <4>2, <4>3 DEF Wake
      <4>5. QED
        BY <1>1, <4>4 DEF IInv, PauseSound
    <3>3. QED
      BY <3>1, <3>2
  <2>2. CASE NoRequest
    BY <2>2 DEF NoRequest
  <2>3. ASSUME NEW k \in Jobs, Continue(k) \/ Submit(k)
        PROVE  NoRequest \/ RateLimit(k) \/ Wake(k)
    BY <1>1, <2>3, TaskSteps, BeginRefresh, EndRefresh DEF Continue
  <2>4. ASSUME NEW k \in Jobs, NEW o \in Homes, Start(k, o) PROVE NoRequest
    BY <1>1, <2>4, TaskSteps
  <2>5. CASE UNCHANGED vars \/ \E o \in Origins : Expire(o) \/ Elapse(o)
    BY <2>5 DEF Expire, Elapse, vars
  <2>6. QED
    BY <1>1, <2>1, <2>2, <2>3, <2>4, <2>5 DEF Next
<1>2. QED
  BY <1>1, Invariant, PTL DEF Spec, PagesSpaced

-----------------------------------------------------------------------------
(* The reports of the worker, read by the control plane.                      *)

LEMMA StatusFacts ==
  ASSUME NEW s \in Statuses
  PROVE  /\ s \in 200..299 <=> s = 200
         /\ Transient(s) <=> s = 503
BY DEF Statuses, Transient

LEMMA FailureKinds ==
  ASSUME NEW s
  PROVE  /\ s \in {401, 403} => http_failure_kind(s) = "blocked"
         /\ s \notin {401, 403} => http_failure_kind(s) \in {"http_404", "http_5xx", "http"}
<1>1. ASSUME s \in {401, 403} PROVE http_failure_kind(s) = "blocked"
  <2>1. s # 404 /\ s \notin 500..599 /\ (s = 401 \/ s = 403)
    BY <1>1
  <2>2. (s \in {401, 403}) = TRUE
    BY <1>1
  <2>3. QED
    BY ONLY <2>1, <2>2, Zenon DEF http_failure_kind
<1>2. ASSUME s \notin {401, 403}
      PROVE  http_failure_kind(s) \in {"http_404", "http_5xx", "http"}
  BY <1>2, Zenon DEF http_failure_kind
<1>3. QED
  BY <1>1, <1>2

Faithful(page, report) ==
  /\ classify_job_outcome(report) = "succeeded" =>
       /\ page.status \in 200..299 /\ page.html /\ page.profile
       /\ page.js \notin {"missing", "invalid"}
       /\ page.title /\ page.body /\ ~page.spam
       /\ page.action # "deny" /\ ~page.noindex
  /\ classify_job_outcome(report) = "retryable" <=> Transient(page.status)
  /\ report.links => ~page.nofollow /\ page.action = "discover"

LEMMA HttpFaithful ==
  ASSUME NEW page \in PageFacts, NoPage(page)
  PROVE  Faithful(page, HttpReport(page))
<1>0. page.status \in Statuses
  BY DEF PageFacts
<1> DEFINE report == HttpReport(page)
<1>1. CASE page.status = 304
  <2>1. report = base_report(304, "none", FALSE)
    BY <1>1, Zenon DEF HttpReport
  <2>2. report.status = 304 /\ report.links = FALSE
    BY <2>1 DEF base_report
  <2>3. classify_job_outcome(report) = "filtered"
    BY <2>2 DEF classify_job_outcome
  <2>4. QED
    BY <1>0, <1>1, <2>2, <2>3, StatusFacts DEF Faithful
<1>2. CASE page.status \notin 200..299 \cup {304}
  <2>1. page.status \in {308, 403, 404, 408, 503}
    BY <1>0, <1>2, StatusFacts DEF Statuses
  <2>2. report = base_report(page.status, http_failure_kind(page.status), Transient(page.status))
    BY <1>2, Zenon DEF HttpReport
  <2>3. /\ report.status = page.status /\ report.kind = http_failure_kind(page.status)
        /\ report.retryable = Transient(page.status) /\ report.links = FALSE
    BY <2>2 DEF base_report
  <2> HIDE DEF report
  <2>4. ~filtered_reason(report) /\ report.status \notin 200..299 \cup {304, 401, 410}
    BY <2>1, <2>3 DEF filtered_reason
  <2>5. report.kind # "requires_js_render"
    BY <2>1, <2>3, FailureKinds
  <2>6. is_blocked_result(report.status, report.kind) <=> page.status = 403
    BY <2>1, <2>3, FailureKinds DEF is_blocked_result
  <2>7. report.retryable <=> page.status = 503
    BY <1>0, <2>3, StatusFacts
  <2>8. /\ classify_job_outcome(report) # "succeeded"
        /\ classify_job_outcome(report) = "retryable" <=> page.status = 503
    BY <2>1, <2>3, <2>4, <2>5, <2>6, <2>7 DEF classify_job_outcome
  <2>9. QED
    BY <1>0, <2>3, <2>8, StatusFacts DEF Faithful, report
<1>3. CASE page.status = 200
  <2>1. report = base_report(200, "unsupported_content_type", FALSE)
    <3>1. page.status # 304 /\ page.status \in 200..299
      BY <1>3
    <3>2. page.status \notin 200..299 \cup {304}  <=> FALSE
      BY <3>1
    <3>3. QED
      BY <1>3, <3>1, <3>2, Zenon DEF HttpReport
  <2>2. /\ report.status = 200 /\ report.kind = "unsupported_content_type"
        /\ report.retryable = FALSE /\ report.links = FALSE
    BY <2>1 DEF base_report
  <2> HIDE DEF report
  <2>3. classify_job_outcome(report) = "failed"
    BY <2>2 DEF classify_job_outcome, filtered_reason, is_blocked_result
  <2>4. QED
    BY <1>0, <1>3, <2>2, <2>3, StatusFacts DEF Faithful, report
<1>4. QED
  BY <1>0, <1>1, <1>2, <1>3, StatusFacts

LEMMA ProfileFaithful ==
  ASSUME NEW page \in PageFacts, page.status = 200, Unprofiled(page)
  PROVE  Faithful(page, ProfileReport(page))
<1> DEFINE report == ProfileReport(page)
<1>1. /\ report.status = 200 /\ report.links = FALSE
      /\ \/ report.kind = "site_profile_config_invalid" /\ report.retryable = FALSE
         \/ report.kind = "requires_js_render"
         \/ report.kind = "site_profile_filtered"
  <2>1. \/ report = base_report(200, "site_profile_config_invalid", FALSE)
        \/ report = base_report(200, "requires_js_render", TRUE)
        \/ report = base_report(200, "site_profile_filtered", FALSE)
    BY Zenon DEF ProfileReport
  <2>2. QED
    BY <2>1 DEF base_report
<1> HIDE DEF report
<1>2. classify_job_outcome(report) \in {"failed", "requires_js_render", "filtered"}
  BY <1>1 DEF classify_job_outcome, filtered_reason, is_blocked_result
<1>3. QED
  BY <1>1, <1>2 DEF Faithful, Transient, report

LEMMA DocumentFaithful ==
  ASSUME NEW page \in PageFacts, page.status = 200, page.html, ~Unprofiled(page)
  PROVE  Faithful(page, DocumentReport(page))
<1> DEFINE report == DocumentReport(page)
           linked(kind) == [base_report(page.status, kind, FALSE) EXCEPT !.links = Discovers(page)]
<1>0. \A kind : /\ linked(kind).status = 200 /\ linked(kind).kind = kind
                /\ linked(kind).body = FALSE /\ linked(kind).links = Discovers(page)
                /\ linked(kind).retryable = FALSE
  BY DEF base_report
<1>1. ~Transient(page.status) /\ page.status \in 200..299
  BY DEF Transient
<1>2. CASE page.noindex
  <2>1. report = linked("page_noindex")
    BY <1>2, Zenon DEF DocumentReport
  <2> HIDE DEF linked, report
  <2>2. classify_job_outcome(report) = "filtered"
    BY <1>0, <2>1 DEF classify_job_outcome, filtered_reason
  <2>3. report.links => ~page.nofollow /\ page.action = "discover"
    BY <1>0, <2>1, Zenon DEF Discovers
  <2>4. QED
    BY <1>1, <2>2, <2>3 DEF Faithful, report
<1>3. CASE ~page.noindex /\ ~page.body
  <2>1. report = linked("empty_document")
    BY <1>3, Zenon DEF DocumentReport
  <2> HIDE DEF linked, report
  <2>2. classify_job_outcome(report) = "failed"
    BY <1>0, <2>1 DEF classify_job_outcome, filtered_reason, is_blocked_result
  <2>3. report.links => ~page.nofollow /\ page.action = "discover"
    BY <1>0, <2>1, Zenon DEF Discovers
  <2>4. QED
    BY <1>1, <2>2, <2>3 DEF Faithful, report
<1>4. CASE ~page.noindex /\ page.body
  <2>1. report = [linked("none") EXCEPT !.body = TRUE, !.title = page.title,
                                        !.spam = page.spam]
    BY <1>4, Zenon DEF DocumentReport
  <2>2. /\ report.status = 200 /\ report.kind = "none" /\ report.body = TRUE
        /\ report.title = page.title /\ report.spam = page.spam
        /\ report.links = Discovers(page)
    BY <2>1 DEF base_report
  <2> HIDE DEF linked, report
  <2>3. classify_job_outcome(report) = IF Documents(report) THEN "succeeded" ELSE "failed"
    BY <2>2 DEF classify_job_outcome, filtered_reason
  <2>a. Documents(report) => page.title /\ page.body /\ ~page.spam
    BY <1>4, <2>2, Zenon DEF Documents
  <2>4. page.profile /\ page.js \notin {"missing", "invalid"} /\ page.action # "deny"
    BY DEF Unprofiled
  <2>5. report.links => ~page.nofollow /\ page.action = "discover"
    BY <2>2, Zenon DEF Discovers
  <2>6. /\ classify_job_outcome(report) \in {"succeeded", "failed"}
        /\ classify_job_outcome(report) = "succeeded" => Documents(report)
    BY <2>3
  <2>7. QED
    BY <1>1, <1>4, <2>a, <2>4, <2>5, <2>6 DEF Faithful, report
<1>5. QED
  BY <1>2, <1>3, <1>4

LEMMA EveryReportFaithful ==
  ASSUME NEW page \in PageFacts
  PROVE  Faithful(page, ReportOf(page))
<1>0. page.status \in Statuses
  BY DEF PageFacts
<1>1. CASE NoPage(page)
  <2>1. ReportOf(page) = HttpReport(page)
    BY <1>1, Zenon DEF ReportOf
  <2>2. QED
    BY <1>1, <2>1, HttpFaithful
<1>2. CASE ~NoPage(page) /\ Unprofiled(page)
  <2>1. ReportOf(page) = ProfileReport(page)
    BY <1>2, Zenon DEF ReportOf
  <2>2. page.status = 200
    BY <1>0, <1>2, StatusFacts DEF NoPage
  <2>3. QED
    BY <1>2, <2>1, <2>2, ProfileFaithful
<1>3. CASE ~NoPage(page) /\ ~Unprofiled(page)
  <2>1. ReportOf(page) = DocumentReport(page)
    BY <1>3, Zenon DEF ReportOf
  <2>2. page.status = 200 /\ page.html
    BY <1>0, <1>3, StatusFacts DEF NoPage
  <2>3. QED
    BY <1>3, <2>1, <2>2, DocumentFaithful
<1>4. QED
  BY <1>1, <1>2, <1>3

(* Whatever a page turned out to be, the control plane makes a document of it *)
(* only if nothing stood against it, tries again exactly a 429 or a 5xx, and  *)
(* gets no links that the page or the site profile forbids to follow.         *)
THEOREM ReportFaithfulAlways == Spec => ReportFaithful
<1>1. ASSUME IInv, NEW j \in Jobs, NEW page \in Pages, ProcessPage(j, page)
      PROVE  /\ task'[j].outcome = "succeeded" =>
                  /\ page.status \in 200..299 /\ page.html /\ page.profile
                  /\ page.js \notin {"missing", "invalid"}
                  /\ page.title /\ page.body /\ ~page.spam
                  /\ page.action # "deny" /\ ~page.noindex
             /\ task'[j].outcome = "retryable" <=> Transient(page.status)
             /\ ReportOf(page).links => ~page.nofollow /\ page.action = "discover"
  <2> DEFINE ended == Ended(task[j], ReportOf(page))
  <2>1. /\ task'[j] = IF Surveyed(page) THEN [ended EXCEPT !.pc = "survey"] ELSE ended
        /\ task[j] \in Tasks
    BY <1>1 DEF ProcessPage, IInv, TypeOK
  <2>a. ended \in Tasks /\ ended.outcome = classify_job_outcome(ReportOf(page))
    <3>1. ended \in Tasks
      BY <2>1, EndedType
    <3>2. ended.outcome = classify_job_outcome(ReportOf(page))
      BY <2>1 DEF Ended, Tasks
    <3>3. QED
      BY <3>1, <3>2
  <2>2. task'[j].outcome = classify_job_outcome(ReportOf(page))
    <3> HIDE DEF ended
    <3>1. [ended EXCEPT !.pc = "survey"].outcome = ended.outcome
      BY <2>a DEF Tasks
    <3>2. QED
      BY <2>1, <2>a, <3>1
  <2>3. Faithful(page, ReportOf(page))
    BY PagesAssumption, EveryReportFaithful
  <2>4. QED
    BY <2>2, <2>3 DEF Faithful
<1>2. IInv => [\A j \in Jobs : PageDone(j) =>
       \A page \in Pages :
         ProcessPage(j, page) =>
           /\ task'[j].outcome = "succeeded" =>
                /\ page.status \in 200..299 /\ page.html /\ page.profile
                /\ page.js \notin {"missing", "invalid"}
                /\ page.title /\ page.body /\ ~page.spam
                /\ page.action # "deny" /\ ~page.noindex
           /\ task'[j].outcome = "retryable" <=> Transient(page.status)
           /\ ReportOf(page).links => ~page.nofollow /\ page.action = "discover"]_vars
  BY <1>1
<1>3. QED
  BY <1>2, Invariant, PTL DEF Spec, ReportFaithful
==============================================================================
