-------------------------------- MODULE Quota --------------------------------
(***************************************************************************)
(* The API keys of developers and the daily quota a request with one counts  *)
(* against.                                                                  *)
(* Code: services/api/src/store/developer.rs, called by the search handler of*)
(* services/api/src/handlers/search.rs and by the key and user handlers of   *)
(* handlers/developer.rs and handlers/admin.rs.                              *)
(*                                                                         *)
(* validate_and_track_developer_key is one SQL statement, but not one instant:*)
(* what it reads is as of its start, while the row it increments is the last *)
(* one committed, for it waits for the row's lock and looks at the row again.*)
(* It does not see the row its own usage_seed part inserts.                  *)
(***************************************************************************)
EXTENDS Naturals

CONSTANTS
  Users,     \* accounts; the id of a deleted one is not reused
  NoUser,    \* owner of a key that does not exist
  Keys,      \* API keys
  NoKey,     \* no key
  NoRow,     \* no row of daily_usage
  Requests,  \* HTTP requests under way
  Limits,    \* values of daily_limit
  LastDay    \* bound: days

ASSUME NullAssumption == NoUser \notin Users /\ NoKey \notin Keys /\ NoRow \notin Nat
ASSUME LimitsAssumption == Limits \subseteq Nat /\ Limits # {}
ASSUME DaysAssumption == LastDay \in Nat \ {0}

Days == 1..LastDay
Counts == {NoRow} \cup Nat

VARIABLES
  user,     \* users: whether there, enabled, daily_limit
  key,      \* api_keys
  usage,    \* daily_usage: used_count of each user on each day
  today,    \* current_date
  request,  \* what each request's statement has read
  imported, \* the user whose legacy record is being imported
  granted,  \* requests let through, since the last import of the day's count
  peak,     \* the highest limit of the user, or count imported, so far
  touched   \* a statement seeded the user's row of the day

vars == <<user, key, usage, today, request, imported, granted, peak, touched>>
ghosts == <<granted, peak, touched>>

Idle == [op |-> "none", key |-> NoKey, of |-> NoUser, day |-> 1, limit |-> 0,
         row |-> FALSE, touched |-> FALSE, late |-> FALSE]
Calls == [op : {"none", "track", "quota"}, key : Keys \cup {NoKey},
          of : Users \cup {NoUser}, day : Days, limit : Nat,
          row : BOOLEAN, touched : BOOLEAN, late : BOOLEAN]

NoRecord == [state |-> "none", of |-> NoUser]

TypeOK ==
  /\ user \in [Users -> [live : BOOLEAN, enabled : BOOLEAN, limit : Nat]]
  /\ key \in [Keys -> {NoRecord} \cup [state : {"live", "revoked"}, of : Users]]
  /\ usage \in [Users -> [Days -> Counts]]
  /\ today \in Days
  /\ request \in [Requests -> Calls]
  /\ imported \in Users \cup {NoUser}
  /\ granted \in [Users -> [Days -> Nat]]
  /\ peak \in [Users -> Nat]
  /\ touched \in [Users -> [Days -> BOOLEAN]]

Init ==
  /\ user \in [Users -> [live : {TRUE}, enabled : {TRUE}, limit : Limits]]
  /\ key = [k \in Keys |-> NoRecord]
  /\ usage = [u \in Users |-> [d \in Days |-> NoRow]]
  /\ today = 1
  /\ request = [r \in Requests |-> Idle]
  /\ imported = NoUser
  /\ granted = [u \in Users |-> [d \in Days |-> 0]]
  /\ peak = [u \in Users |-> user[u].limit]
  /\ touched = [u \in Users |-> [d \in Days |-> FALSE]]

(* What finds an API key's owner.                                            *)
Valid(k) == /\ k \in Keys /\ key[k].state = "live"
            /\ user[key[k].of].live /\ user[key[k].of].enabled

(* The requests whose key is not valid any more.                             *)
LateBy(K) ==
  [r \in Requests |-> [request[r] EXCEPT !.late = @ \/ request[r].key \in K]]
KeysOf(u) == {k \in Keys : key[k].of = u}

(* ensure_daily_usage_row: insert ... on conflict do nothing.                *)
Seeded(u, d) == [usage EXCEPT ![u][d] = IF @ = NoRow THEN 0 ELSE @]

-----------------------------------------------------------------------------
(* Keys and accounts.                                                        *)

(* create_developer_key. *)
CreateKey(k, u) ==
  /\ key[k].state = "none" /\ user[u].live
  /\ key' = [key EXCEPT ![k] = [state |-> "live", of |-> u]]
  /\ UNCHANGED <<user, usage, today, request, imported, ghosts>>

(* revoke_developer_key, of the key's owner. *)
RevokeKey(k) ==
  /\ key[k].state = "live" /\ user[key[k].of].live
  /\ key' = [key EXCEPT ![k].state = "revoked"]
  /\ request' = LateBy({k})
  /\ UNCHANGED <<user, usage, today, imported, ghosts>>

(* set_enabled. *)
SetEnabled(u, enabled) ==
  /\ user[u].live /\ user[u].enabled # enabled
  /\ user' = [user EXCEPT ![u].enabled = enabled]
  /\ request' = IF enabled THEN request ELSE LateBy(KeysOf(u))
  /\ UNCHANGED <<key, usage, today, imported, ghosts>>

(* Mutant: the keys of a deleted account are left without an owner. *)
DeleteUser_Mutation(u) ==
  /\ user[u].live
  /\ user' = [user EXCEPT ![u].live = FALSE]
  /\ key' = [k \in Keys |-> IF key[k].of = u THEN [key[k] EXCEPT !.of = NoUser]
                            ELSE key[k]]
  /\ usage' = [usage EXCEPT ![u] = [d \in Days |-> NoRow]]
  /\ request' = LateBy(KeysOf(u))
  /\ UNCHANGED <<today, imported, ghosts>>

(* delete_user: the keys and the usage go with the account. *)
DeleteUser(u) ==
  /\ user[u].live
  /\ user' = [user EXCEPT ![u].live = FALSE]
  /\ key' = [k \in Keys |-> IF key[k].of = u THEN [key[k] EXCEPT !.state = "revoked"]
                            ELSE key[k]]
  /\ usage' = [usage EXCEPT ![u] = [d \in Days |-> NoRow]]
  /\ request' = LateBy(KeysOf(u))
  /\ UNCHANGED <<today, imported, ghosts>>

(* developer_usage: looking at the keys seeds the row of the day.            *)
developer_usage(u) ==
  /\ user[u].live
  /\ usage' = Seeded(u, today)
  /\ touched' = [touched EXCEPT ![u][today] = TRUE]
  /\ UNCHANGED <<user, key, today, request, imported, granted, peak>>

(* admin_update_user with a daily_limit looks at the usage, then calls       *)
(* update_user_quota, which writes at least 1.                               *)
UpdateQuota(r, u, limit) ==
  /\ request[r] = Idle /\ user[u].live
  /\ usage' = Seeded(u, today)
  /\ touched' = [touched EXCEPT ![u][today] = TRUE]
  /\ request' = [request EXCEPT ![r] = [Idle EXCEPT !.op = "quota", !.of = u, !.limit = limit]]
  /\ UNCHANGED <<user, key, today, imported, granted, peak>>

AtLeast(a, b) == IF a < b THEN b ELSE a

update_user_quota(r) ==
  LET u == request[r].of
      limit == AtLeast(request[r].limit, 1)
  IN
  /\ request[r].op = "quota"
  /\ user' = IF user[u].live THEN [user EXCEPT ![u].limit = limit] ELSE user
  /\ peak' = IF user[u].live THEN [peak EXCEPT ![u] = AtLeast(@, limit)] ELSE peak
  /\ request' = [request EXCEPT ![r] = Idle]
  /\ UNCHANGED <<key, usage, today, imported, granted, touched>>

-----------------------------------------------------------------------------
(* A request with a key.                                                     *)

(* The statement starts: key_owner and the daily_usage row it can see.  An   *)
(* invalid key is refused.                                                   *)
Track(r, k) ==
  LET u == key[k].of IN
  /\ request[r] = Idle /\ Valid(k)
  /\ request' = [request EXCEPT ![r] =
       [op |-> "track", key |-> k, of |-> u, day |-> today, limit |-> user[u].limit,
        row |-> usage[u][today] # NoRow, touched |-> touched[u][today], late |-> FALSE]]
  /\ UNCHANGED <<user, key, usage, today, imported, ghosts>>

(* Mutant: the count is compared without the row's lock. *)
Counted_Mutation(q) == q.row /\ usage[q.of][q.day] # NoRow

(* incremented: the row was there at the start, is there still, and is below *)
(* the limit now.                                                            *)
Counted(q) ==
  /\ q.row /\ usage[q.of][q.day] # NoRow
  /\ usage[q.of][q.day] < q.limit

(* Mutant: the row of the day is not inserted. *)
validate_and_track_developer_key_Mutation(r) ==
  LET q == request[r] IN
  /\ q.op = "track"
  /\ usage' = IF Counted(q) THEN [usage EXCEPT ![q.of][q.day] = @ + 1] ELSE usage
  /\ granted' = IF Counted(q) THEN [granted EXCEPT ![q.of][q.day] = @ + 1] ELSE granted
  /\ touched' = [touched EXCEPT ![q.of][q.day] = TRUE]
  /\ request' = [request EXCEPT ![r] = Idle]
  /\ UNCHANGED <<user, key, today, imported, peak>>

(* The statement ends: the request goes through, or is answered that the     *)
(* quota is exceeded.  With the account gone it is an internal error, or that.*)
validate_and_track_developer_key(r) ==
  LET q == request[r] IN
  /\ q.op = "track"
  /\ usage' = IF Counted(q) THEN [usage EXCEPT ![q.of][q.day] = @ + 1]
              ELSE IF user[q.of].live THEN Seeded(q.of, q.day)
              ELSE usage
  /\ granted' = IF Counted(q) THEN [granted EXCEPT ![q.of][q.day] = @ + 1] ELSE granted
  /\ touched' = [touched EXCEPT ![q.of][q.day] = TRUE]
  /\ request' = [request EXCEPT ![r] = Idle]
  /\ UNCHANGED <<user, key, today, imported, peak>>

NewDay ==
  /\ today < LastDay
  /\ today' = today + 1
  /\ UNCHANGED <<user, key, usage, request, imported, ghosts>>

-----------------------------------------------------------------------------
(* import_legacy_record: the row of the day and the limit, then the count of *)
(* the record's day, which replaces what was counted; then its keys.         *)

ImportLimit(u, limit) ==
  /\ imported = NoUser /\ user[u].live
  /\ user' = [user EXCEPT ![u].limit = limit]
  /\ usage' = Seeded(u, today)
  /\ touched' = [touched EXCEPT ![u][today] = TRUE]
  /\ peak' = [peak EXCEPT ![u] = AtLeast(@, limit)]
  /\ imported' = u
  /\ UNCHANGED <<key, today, request, granted>>

ImportUsage(d, count, K) ==
  LET u == imported IN
  /\ u # NoUser /\ \A k \in K : key[k].state = "none"
  /\ IF user[u].live
     THEN /\ usage' = [usage EXCEPT ![u][d] = count]
          /\ key' = [k \in Keys |-> IF k \in K THEN [state |-> "live", of |-> u] ELSE key[k]]
          /\ granted' = [granted EXCEPT ![u][d] = count]
          /\ peak' = [peak EXCEPT ![u] = AtLeast(@, count)]
          /\ touched' = [touched EXCEPT ![u][d] = TRUE]
     ELSE UNCHANGED <<usage, key, granted, peak, touched>>
  /\ imported' = NoUser
  /\ UNCHANGED <<user, today, request>>

-----------------------------------------------------------------------------
Next ==
  \/ \E k \in Keys : RevokeKey(k) \/ \E u \in Users : CreateKey(k, u)
  \/ \E u \in Users :
       \/ \E enabled \in BOOLEAN : SetEnabled(u, enabled)
       \/ DeleteUser(u)
       \/ developer_usage(u)
       \/ \E limit \in Limits : ImportLimit(u, limit)
  \/ \E r \in Requests :
       \/ \E k \in Keys : Track(r, k)
       \/ validate_and_track_developer_key(r)
       \/ \E u \in Users, limit \in Limits : UpdateQuota(r, u, limit)
       \/ update_user_quota(r)
  \/ \E d \in Days, count \in Limits \cup {0}, K \in SUBSET Keys : ImportUsage(d, count, K)
  \/ NewDay

Spec == Init /\ [][Next]_vars

-----------------------------------------------------------------------------
(* Properties.                                                               *)

(* A user's requests of a day, on whichever keys and however many at once,   *)
(* are all counted and never more than the highest limit the user has had;   *)
(* only an import may replace the count (developer.rs:183, :316).            *)
QuotaHeld ==
  \A u \in Users, d \in Days :
    /\ usage[u][d] # NoRow => usage[u][d] = granted[u][d]
    /\ granted[u][d] <= peak[u]

Refused(r) ==
  /\ request[r].op = "track" /\ request'[r] = Idle /\ ~request[r].late
  /\ granted' = granted

UsedUp(q) == usage[q.of][q.day] # NoRow /\ usage[q.of][q.day] >= q.limit

(* A request on a valid key is refused for the quota only when the day's     *)
(* count has reached the limit or when no statement that seeds the user's row*)
(* of the day had ended as the request began: at most the first requests of a*)
(* day, together (developer.rs:176).                                         *)
RefusedRightly ==
  [][\A r \in Requests :
       Refused(r) => ~request[r].touched \/ UsedUp(request[r])]_vars

(* What scripts/smoke-test.sh:139 expects: the first request with a key of a *)
(* new account is answered with results, since the quota is not used up.     *)
FirstRequestAnswered ==
  [][\A r \in Requests : Refused(r) => UsedUp(request[r])]_vars
==============================================================================
