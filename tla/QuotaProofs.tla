----------------------------- MODULE QuotaProofs -----------------------------
(* Theorems about Quota, for every value of its constants. *)
EXTENDS Quota, TLAPS

-----------------------------------------------------------------------------
(* What holds of the rows of daily_usage: they count what was let through,   *)
(* and a user that is there has a row wherever one was seeded.               *)
RowsCount ==
  \A u \in Users :
    /\ user[u].limit <= peak[u]
    /\ \A d \in Days :
         /\ usage[u][d] # NoRow => usage[u][d] = granted[u][d]
         /\ granted[u][d] <= peak[u]
         /\ user[u].live /\ usage[u][d] = NoRow => granted[u][d] = 0
         /\ user[u].live /\ touched[u][d] => usage[u][d] # NoRow

(* What holds of a statement of q that has started: its key is its user's,   *)
(* it compares with a limit the user has had, and while its key is valid its *)
(* user is there.                                                            *)
Begun(q) ==
  /\ q.key \in Keys /\ q.of \in Users
  /\ key[q.key].of = q.of
  /\ q.limit <= peak[q.of]
  /\ ~q.late => user[q.of].live
  /\ q.touched => q.row /\ touched[q.of][q.day]

RequestsBegun ==
  \A r \in Requests : /\ request[r].op = "track" => Begun(request[r])
                      /\ request[r].op = "quota" => request[r].of \in Users

IInv == TypeOK /\ RowsCount /\ RequestsBegun

-----------------------------------------------------------------------------
LEMMA IdleType == Idle \in Calls /\ Idle.op = "none"
BY DaysAssumption DEF Idle, Calls, Days

LEMMA InvInit == Init => IInv
<1> SUFFICES ASSUME Init PROVE IInv
  OBVIOUS
<1>0. /\ user \in [Users -> [live : BOOLEAN, enabled : BOOLEAN, limit : Nat]]
      /\ peak \in [Users -> Nat]
      /\ \A u \in Users : peak[u] = user[u].limit
  BY LimitsAssumption DEF Init
<1>1. TypeOK
  <2>1. /\ key \in [Keys -> {NoRecord} \cup [state : {"live", "revoked"}, of : Users]]
        /\ imported \in Users \cup {NoUser}
    BY DEF Init
  <2>2. today \in Days /\ request \in [Requests -> Calls]
    BY IdleType, DaysAssumption DEF Init, Days
  <2>3. /\ usage \in [Users -> [Days -> Counts]]
        /\ granted \in [Users -> [Days -> Nat]]
        /\ touched \in [Users -> [Days -> BOOLEAN]]
    BY DEF Init, Counts
  <2>4. QED
    BY <1>0, <2>1, <2>2, <2>3 DEF TypeOK
<1>2. RowsCount
  <2>0. \A u \in Users : user[u].limit <= peak[u]
    <3>1. TAKE u \in Users
    <3>2. user[u].limit \in Nat /\ peak[u] = user[u].limit
      BY <1>0
    <3>3. QED
      BY <3>2
  <2> SUFFICES ASSUME NEW u \in Users, NEW d \in Days
               PROVE  /\ usage[u][d] # NoRow => usage[u][d] = granted[u][d]
                      /\ granted[u][d] <= peak[u]
                      /\ user[u].live /\ usage[u][d] = NoRow => granted[u][d] = 0
                      /\ user[u].live /\ touched[u][d] => usage[u][d] # NoRow
    BY <2>0 DEF RowsCount
  <2>1. usage[u][d] = NoRow /\ granted[u][d] = 0 /\ ~touched[u][d]
    BY DEF Init
  <2>2. user[u].limit <= peak[u] /\ 0 <= peak[u]
    BY <1>0
  <2>3. QED
    BY <2>1, <2>2
<1>3. RequestsBegun
  BY IdleType DEF Init, RequestsBegun
<1>4. QED
  BY <1>1, <1>2, <1>3 DEF IInv

(* A request that a step marks late, and what it was before. *)
LEMMA LateByType ==
  ASSUME TypeOK, NEW K \in SUBSET Keys
  PROVE  /\ LateBy(K) \in [Requests -> Calls]
         /\ \A r \in Requests :
              /\ LateBy(K)[r].op = request[r].op
              /\ LateBy(K)[r].key = request[r].key
              /\ LateBy(K)[r].of = request[r].of
              /\ LateBy(K)[r].day = request[r].day
              /\ LateBy(K)[r].limit = request[r].limit
              /\ LateBy(K)[r].row = request[r].row
              /\ LateBy(K)[r].touched = request[r].touched
              /\ LateBy(K)[r].late <=> (request[r].late \/ request[r].key \in K)
<1> SUFFICES ASSUME NEW r \in Requests
             PROVE  /\ LateBy(K)[r] \in Calls
                    /\ LateBy(K)[r] = [request[r] EXCEPT !.late = @ \/ request[r].key \in K]
  BY DEF LateBy, TypeOK, Calls
<1>1. request[r] \in Calls
  BY DEF TypeOK
<1>2. (request[r].late \/ request[r].key \in K) \in BOOLEAN
  OBVIOUS
<1>3. QED
  BY <1>1, <1>2 DEF LateBy, Calls

LEMMA SeededType ==
  ASSUME TypeOK, NEW u \in Users, NEW d \in Days
  PROVE  /\ Seeded(u, d) \in [Users -> [Days -> Counts]]
         /\ \A v \in Users, e \in Days :
              Seeded(u, d)[v][e] = IF v = u /\ e = d /\ usage[v][e] = NoRow THEN 0
                                   ELSE usage[v][e]
BY DEF TypeOK, Seeded, Counts

-----------------------------------------------------------------------------
(* The steps.                                                                *)

LEMMA KeySteps ==
  ASSUME IInv, NEW k \in Keys,
         RevokeKey(k) \/ \E u \in Users : CreateKey(k, u)
  PROVE  IInv'
<1> USE DEF IInv
<1>1. CASE RevokeKey(k)
  <2>1. {k} \in SUBSET Keys /\ request' = LateBy({k})
    BY <1>1 DEF RevokeKey
  <2>2. key[k] \in [state : {"live", "revoked"}, of : Users]
    BY <1>1 DEF RevokeKey, TypeOK, NoRecord
  <2>3. /\ key' \in [Keys -> {NoRecord} \cup [state : {"live", "revoked"}, of : Users]]
        /\ \A j \in Keys : key'[j].of = key[j].of
    BY <1>1, <2>2 DEF RevokeKey, TypeOK
  <2>4. TypeOK'
    BY <1>1, <2>1, <2>3, LateByType DEF RevokeKey, TypeOK, ghosts
  <2>5. RowsCount'
    BY <1>1 DEF RevokeKey, RowsCount, ghosts
  <2>6. RequestsBegun'
    BY <1>1, <2>1, <2>3, LateByType DEF RevokeKey, RequestsBegun, Begun, ghosts
  <2>7. QED
    BY <2>4, <2>5, <2>6
<1>2. ASSUME NEW u \in Users, CreateKey(k, u) PROVE IInv'
  <2>1. key[k] = NoRecord
    BY <1>2 DEF CreateKey, TypeOK, NoRecord
  <2>2. TypeOK'
    BY <1>2 DEF CreateKey, TypeOK, ghosts
  <2>3. RowsCount'
    BY <1>2 DEF CreateKey, RowsCount, ghosts
  <2>4. RequestsBegun'
    BY <1>2, <2>1, NullAssumption DEF CreateKey, RequestsBegun, Begun, ghosts, TypeOK, NoRecord
  <2>5. QED
    BY <2>2, <2>3, <2>4
<1>3. QED
  BY <1>1, <1>2

LEMMA UserSteps ==
  ASSUME IInv, NEW u \in Users,
         \/ \E enabled \in BOOLEAN : SetEnabled(u, enabled)
         \/ DeleteUser(u)
         \/ developer_usage(u)
         \/ \E limit \in Limits : ImportLimit(u, limit)
  PROVE  IInv'
<1> USE DEF IInv
<1> KeysOf(u) \in SUBSET Keys
  BY DEF KeysOf
<1>1. ASSUME NEW enabled \in BOOLEAN, SetEnabled(u, enabled) PROVE IInv'
  <2>1. user' = [user EXCEPT ![u].enabled = enabled]
    BY <1>1 DEF SetEnabled
  <2>2. /\ user' \in [Users -> [live : BOOLEAN, enabled : BOOLEAN, limit : Nat]]
        /\ \A v \in Users : user'[v].live = user[v].live /\ user'[v].limit = user[v].limit
    <3> DEFINE x == [user[u] EXCEPT !.enabled = enabled]
    <3>0. user[u] \in [live : BOOLEAN, enabled : BOOLEAN, limit : Nat]
      BY DEF TypeOK
    <3>1. /\ x \in [live : BOOLEAN, enabled : BOOLEAN, limit : Nat]
          /\ x.live = user[u].live /\ x.limit = user[u].limit
      BY <3>0
    <3>2. user' = [user EXCEPT ![u] = x]
      BY <2>1 DEF TypeOK
    <3> HIDE DEF x
    <3>3. QED
      BY <3>1, <3>2 DEF TypeOK
  <2>3. request' = request \/ request' = LateBy(KeysOf(u))
    BY <1>1 DEF SetEnabled
  <2>4. TypeOK'
    BY <1>1, <2>2, <2>3, LateByType DEF SetEnabled, TypeOK, ghosts
  <2>5. RowsCount'
    BY <1>1, <2>2 DEF SetEnabled, RowsCount, ghosts
  <2>6. RequestsBegun'
    BY <1>1, <2>2, <2>3, LateByType DEF SetEnabled, RequestsBegun, Begun, ghosts
  <2>7. QED
    BY <2>4, <2>5, <2>6
<1>2. CASE DeleteUser(u)
  <2>1. user' = [user EXCEPT ![u].live = FALSE] /\ request' = LateBy(KeysOf(u))
    BY <1>2 DEF DeleteUser
  <2>2. /\ user' \in [Users -> [live : BOOLEAN, enabled : BOOLEAN, limit : Nat]]
        /\ \A v \in Users : /\ user'[v].live <=> user[v].live /\ v # u
                            /\ user'[v].limit = user[v].limit
    <3> DEFINE x == [user[u] EXCEPT !.live = FALSE]
    <3>0. user[u] \in [live : BOOLEAN, enabled : BOOLEAN, limit : Nat]
      BY DEF TypeOK
    <3>1. /\ x \in [live : BOOLEAN, enabled : BOOLEAN, limit : Nat]
          /\ ~x.live /\ x.limit = user[u].limit
      BY <3>0
    <3>2. user' = [user EXCEPT ![u] = x]
      BY <2>1 DEF TypeOK
    <3> HIDE DEF x
    <3>3. QED
      BY <3>1, <3>2 DEF TypeOK
  <2>3. \A k \in Keys : /\ key'[k].of = key[k].of
                        /\ key'[k] \in {NoRecord} \cup [state : {"live", "revoked"}, of : Users]
    <3>1. TAKE k \in Keys
    <3>2. CASE key[k].of = u
      <4>1. key[k] \in [state : {"live", "revoked"}, of : Users]
        BY <3>2, NullAssumption DEF TypeOK, NoRecord
      <4>2. key'[k] = [key[k] EXCEPT !.state = "revoked"]
        BY <1>2, <3>2 DEF DeleteUser
      <4>3. QED
        BY <4>1, <4>2
    <3>3. CASE key[k].of # u
      BY <1>2, <3>3 DEF DeleteUser, TypeOK
    <3>4. QED
      BY <3>2, <3>3
  <2>4. key' \in [Keys -> {NoRecord} \cup [state : {"live", "revoked"}, of : Users]]
    BY <1>2, <2>3 DEF DeleteUser
  <2>5. /\ usage' \in [Users -> [Days -> Counts]]
        /\ \A v \in Users \ {u} : usage'[v] = usage[v]
        /\ \A d \in Days : usage'[u][d] = NoRow
    BY <1>2 DEF DeleteUser, TypeOK, Counts
  <2>6. TypeOK'
    BY <1>2, <2>1, <2>2, <2>4, <2>5, LateByType DEF DeleteUser, TypeOK, ghosts
  <2>7. RowsCount'
    BY <1>2, <2>2, <2>5 DEF DeleteUser, RowsCount, ghosts
  <2>8. RequestsBegun'
    <3>0. UNCHANGED <<peak, touched>>
      BY <1>2 DEF DeleteUser, ghosts
    <3> SUFFICES ASSUME NEW r \in Requests
                 PROVE  /\ request'[r].op = "track" => Begun(request[r])'
                        /\ request'[r].op = "quota" => request'[r].of \in Users
      BY DEF RequestsBegun
    <3>1. /\ request'[r].op = request[r].op /\ request'[r].key = request[r].key
          /\ request'[r].of = request[r].of /\ request'[r].day = request[r].day
          /\ request'[r].limit = request[r].limit
          /\ request'[r].row = request[r].row /\ request'[r].touched = request[r].touched
          /\ request'[r].late <=> request[r].late \/ request[r].key \in KeysOf(u)
      BY <2>1, LateByType
    <3>2. ASSUME request[r].op = "track" PROVE Begun(request[r])'
      <4>1. Begun(request[r])
        BY <3>2 DEF RequestsBegun
      <4>2. ~request'[r].late => user'[request[r].of].live
        BY <2>2, <3>1, <4>1 DEF Begun, KeysOf
      <4>3. QED
        BY <2>3, <3>0, <3>1, <4>1, <4>2 DEF Begun
    <3>3. QED
      BY <3>1, <3>2 DEF RequestsBegun
  <2>9. QED
    BY <2>6, <2>7, <2>8
<1>3. CASE developer_usage(u)
  <2>1. /\ user[u].live /\ today \in Days
        /\ usage' = Seeded(u, today)
        /\ touched' = [touched EXCEPT ![u][today] = TRUE]
    BY <1>3 DEF developer_usage, TypeOK
  <2>2. /\ touched' \in [Users -> [Days -> BOOLEAN]]
        /\ \A v \in Users, d \in Days :
             touched'[v][d] = IF v = u /\ d = today THEN TRUE ELSE touched[v][d]
    BY <2>1 DEF TypeOK
  <2>3. TypeOK'
    BY <1>3, <2>1, <2>2, SeededType DEF developer_usage, TypeOK
  <2>4. RowsCount'
    BY <1>3, <2>1, <2>2, SeededType, NullAssumption DEF developer_usage, RowsCount, TypeOK
  <2>5. RequestsBegun'
    BY <1>3, <2>2 DEF developer_usage, RequestsBegun, Begun, TypeOK, Calls
  <2>6. QED
    BY <2>3, <2>4, <2>5
<1>4. ASSUME NEW limit \in Limits, ImportLimit(u, limit) PROVE IInv'
  <2>1. /\ user[u].live /\ today \in Days
        /\ usage' = Seeded(u, today)
        /\ touched' = [touched EXCEPT ![u][today] = TRUE]
        /\ limit \in Nat
    BY <1>4, LimitsAssumption DEF ImportLimit, TypeOK
  <2>2. /\ touched' \in [Users -> [Days -> BOOLEAN]]
        /\ \A v \in Users, d \in Days :
             touched'[v][d] = IF v = u /\ d = today THEN TRUE ELSE touched[v][d]
    BY <2>1 DEF TypeOK
  <2>3. /\ user' \in [Users -> [live : BOOLEAN, enabled : BOOLEAN, limit : Nat]]
        /\ \A v \in Users : /\ user'[v].live = user[v].live
                            /\ user'[v].limit = IF v = u THEN limit ELSE user[v].limit
    <3>1. user' = [user EXCEPT ![u].limit = limit]
      BY <1>4 DEF ImportLimit
    <3>2. QED
      BY <2>1, <3>1 DEF TypeOK
  <2>4. /\ peak' \in [Users -> Nat]
        /\ limit <= peak'[u]
        /\ \A v \in Users : peak[v] <= peak'[v]
    <3>1. peak' = [peak EXCEPT ![u] = AtLeast(peak[u], limit)]
      BY <1>4 DEF ImportLimit
    <3>2. /\ AtLeast(peak[u], limit) \in Nat
          /\ limit <= AtLeast(peak[u], limit) /\ peak[u] <= AtLeast(peak[u], limit)
      BY <2>1 DEF AtLeast, TypeOK
    <3>3. QED
      BY <3>1, <3>2 DEF TypeOK
  <2>5. TypeOK'
    BY <1>4, <2>1, <2>2, <2>3, <2>4, SeededType DEF ImportLimit, TypeOK
  <2>6. RowsCount'
    <3> SUFFICES ASSUME NEW v \in Users, NEW d \in Days
                 PROVE  /\ user'[v].limit <= peak'[v]
                        /\ usage'[v][d] # NoRow => usage'[v][d] = granted'[v][d]
                        /\ granted'[v][d] <= peak'[v]
                        /\ user'[v].live /\ usage'[v][d] = NoRow => granted'[v][d] = 0
                        /\ user'[v].live /\ touched'[v][d] => usage'[v][d] # NoRow
      BY <2>1 DEF RowsCount
    <3>1. granted' = granted /\ granted[v][d] \in Nat /\ peak[v] \in Nat /\ peak'[v] \in Nat
          /\ user[v].limit \in Nat
      BY <1>4, <2>4 DEF ImportLimit, TypeOK
    <3>2. /\ user[v].limit <= peak[v] /\ granted[v][d] <= peak[v]
          /\ usage[v][d] # NoRow => usage[v][d] = granted[v][d]
          /\ user[v].live /\ usage[v][d] = NoRow => granted[v][d] = 0
          /\ user[v].live /\ touched[v][d] => usage[v][d] # NoRow
      BY DEF RowsCount
    <3>3. usage'[v][d] = IF v = u /\ d = today /\ usage[v][d] = NoRow THEN 0
                         ELSE usage[v][d]
      BY <2>1, SeededType
    <3>4. user'[v].limit <= peak'[v] /\ granted[v][d] <= peak'[v]
      BY <2>3, <2>4, <3>1, <3>2
    <3>5. QED
      BY <2>1, <2>2, <2>3, <3>1, <3>2, <3>3, <3>4, NullAssumption
  <2>7. RequestsBegun'
    <3> SUFFICES ASSUME NEW r \in Requests
                 PROVE  /\ request'[r].op = "track" => Begun(request[r])'
                        /\ request'[r].op = "quota" => request'[r].of \in Users
      BY DEF RequestsBegun
    <3>1. request' = request /\ key' = key /\ request[r] \in Calls
      BY <1>4 DEF ImportLimit, TypeOK
    <3>2. \A v \in Users : peak[v] \in Nat /\ peak'[v] \in Nat
      BY <2>4 DEF TypeOK
    <3>3. ASSUME request[r].op = "track" PROVE Begun(request[r])'
      <4>1. Begun(request[r]) /\ request[r].of \in Users /\ request[r].day \in Days
            /\ request[r].limit \in Nat
        BY <3>1, <3>3 DEF RequestsBegun, Begun, Calls
      <4>2. request[r].limit <= peak'[request[r].of]
        BY <2>4, <3>2, <4>1 DEF Begun
      <4>3. request'[r] = request[r] /\ key' = key
        BY <3>1
      <4>4. request[r].touched => touched'[request[r].of][request[r].day]
        BY <2>2, <4>1 DEF Begun
      <4>5. ~request[r].late => user'[request[r].of].live
        BY <2>3, <4>1 DEF Begun
      <4>6. QED
        BY <4>1, <4>2, <4>3, <4>4, <4>5 DEF Begun
    <3>4. QED
      BY <3>1, <3>3 DEF RequestsBegun
  <2>8. QED
    BY <2>5, <2>6, <2>7
<1>5. QED
  BY <1>1, <1>2, <1>3, <1>4

LEMMA QuotaSteps ==
  ASSUME IInv, NEW r \in Requests,
         \/ \E u \in Users, limit \in Limits : UpdateQuota(r, u, limit)
         \/ update_user_quota(r)
  PROVE  IInv'
<1> USE DEF IInv
<1>1. ASSUME NEW u \in Users, NEW limit \in Limits, UpdateQuota(r, u, limit)
      PROVE  IInv'
  <2>1. /\ user[u].live /\ today \in Days
        /\ usage' = Seeded(u, today)
        /\ touched' = [touched EXCEPT ![u][today] = TRUE]
        /\ limit \in Nat
    BY <1>1, LimitsAssumption DEF UpdateQuota, TypeOK
  <2>2. /\ touched' \in [Users -> [Days -> BOOLEAN]]
        /\ \A v \in Users, d \in Days :
             touched'[v][d] = IF v = u /\ d = today THEN TRUE ELSE touched[v][d]
    BY <2>1 DEF TypeOK
  <2>3. /\ request' \in [Requests -> Calls]
        /\ request'[r].op = "quota" /\ request'[r].of = u
        /\ \A x \in Requests \ {r} : request'[x] = request[x]
    <3> DEFINE q == [Idle EXCEPT !.op = "quota", !.of = u, !.limit = limit]
    <3>0. 1 \in Days
      BY DaysAssumption DEF Days
    <3>1. q \in Calls /\ q.op = "quota" /\ q.of = u
      BY <2>1, <3>0 DEF Idle, Calls
    <3>2. request' = [request EXCEPT ![r] = q]
      BY <1>1 DEF UpdateQuota
    <3> HIDE DEF q
    <3>3. QED
      BY <3>1, <3>2 DEF TypeOK
  <2>0. /\ user' = user /\ key' = key /\ today' = today /\ imported' = imported
        /\ granted' = granted /\ peak' = peak
    BY <1>1 DEF UpdateQuota
  <2>4. TypeOK'
    BY <2>0, <2>1, <2>2, <2>3, SeededType DEF TypeOK
  <2>5. RowsCount'
    BY <2>0, <2>1, <2>2, SeededType, NullAssumption DEF RowsCount, TypeOK
  <2>6. RequestsBegun'
    <3> SUFFICES ASSUME NEW x \in Requests
                 PROVE  /\ request'[x].op = "track" => Begun(request[x])'
                        /\ request'[x].op = "quota" => request'[x].of \in Users
      BY DEF RequestsBegun
    <3>1. CASE x = r
      BY <2>3, <3>1
    <3>2. CASE x # r
      <4>1. request'[x] = request[x] /\ request[x].day \in Days
        BY <2>3, <3>2 DEF TypeOK, Calls
      <4>2. ASSUME request[x].op = "track" PROVE Begun(request[x])'
        <5>1. Begun(request[x]) /\ request[x].of \in Users
          BY <4>2 DEF RequestsBegun, Begun
        <5>2. touched[request[x].of][request[x].day] => touched'[request[x].of][request[x].day]
          BY <2>2, <4>1, <5>1
        <5>3. QED
          BY <2>0, <4>1, <5>1, <5>2 DEF Begun
      <4>3. QED
        BY <4>1, <4>2 DEF RequestsBegun
    <3>3. QED
      BY <3>1, <3>2
  <2>7. QED
    BY <2>4, <2>5, <2>6
<1>2. CASE update_user_quota(r)
  <2> DEFINE u == request[r].of
             limit == AtLeast(request[r].limit, 1)
  <2>1. u \in Users /\ request[r] \in Calls
    BY <1>2 DEF update_user_quota, RequestsBegun, TypeOK
  <2>2. limit \in Nat
    BY <2>1 DEF AtLeast, Calls
  <2>3. /\ request' \in [Requests -> Calls]
        /\ request'[r].op = "none"
        /\ \A x \in Requests \ {r} : request'[x] = request[x]
    BY <1>2, IdleType DEF update_user_quota, TypeOK
  <2>4. /\ user' \in [Users -> [live : BOOLEAN, enabled : BOOLEAN, limit : Nat]]
        /\ peak' \in [Users -> Nat]
        /\ \A v \in Users : /\ user'[v].live = user[v].live
                            /\ peak[v] <= peak'[v]
                            /\ user'[v].limit <= peak'[v]
    <3>1. CASE user[u].live
      <4>1. /\ user' = [user EXCEPT ![u].limit = limit]
            /\ peak' = [peak EXCEPT ![u] = AtLeast(peak[u], limit)]
        BY <1>2, <3>1 DEF update_user_quota
      <4>2. /\ AtLeast(peak[u], limit) \in Nat
            /\ limit <= AtLeast(peak[u], limit) /\ peak[u] <= AtLeast(peak[u], limit)
        BY <2>1, <2>2 DEF AtLeast, TypeOK
      <4> HIDE DEF limit
      <4>3. user' \in [Users -> [live : BOOLEAN, enabled : BOOLEAN, limit : Nat]]
            /\ peak' \in [Users -> Nat]
        BY <2>1, <2>2, <4>1, <4>2 DEF TypeOK
      <4>4. ASSUME NEW v \in Users
            PROVE  /\ user'[v].live = user[v].live
                   /\ peak[v] <= peak'[v]
                   /\ user'[v].limit <= peak'[v]
        BY <2>1, <2>2, <4>1, <4>2 DEF TypeOK, RowsCount
      <4>5. QED
        BY <4>3, <4>4
    <3>2. CASE ~user[u].live
      <4>1. user' = user /\ peak' = peak
        BY <1>2, <3>2 DEF update_user_quota
      <4>2. QED
        BY <4>1 DEF TypeOK, RowsCount
    <3>3. QED
      BY <3>1, <3>2
  <2>5. TypeOK'
    BY <1>2, <2>3, <2>4 DEF update_user_quota, TypeOK
  <2>6. RowsCount'
    <3> SUFFICES ASSUME NEW v \in Users, NEW d \in Days
                 PROVE  /\ user'[v].limit <= peak'[v]
                        /\ usage'[v][d] # NoRow => usage'[v][d] = granted'[v][d]
                        /\ granted'[v][d] <= peak'[v]
                        /\ user'[v].live /\ usage'[v][d] = NoRow => granted'[v][d] = 0
                        /\ user'[v].live /\ touched'[v][d] => usage'[v][d] # NoRow
      BY <2>4 DEF RowsCount
    <3>1. /\ usage' = usage /\ granted' = granted /\ touched' = touched
          /\ granted[v][d] \in Nat /\ peak[v] \in Nat /\ peak'[v] \in Nat
      BY <1>2, <2>4 DEF update_user_quota, TypeOK
    <3>2. granted[v][d] <= peak'[v]
      BY <2>4, <3>1 DEF RowsCount
    <3>3. QED
      BY <2>4, <3>1, <3>2 DEF RowsCount
  <2>7. RequestsBegun'
    <3> SUFFICES ASSUME NEW x \in Requests
                 PROVE  /\ request'[x].op = "track" => Begun(request[x])'
                        /\ request'[x].op = "quota" => request'[x].of \in Users
      BY DEF RequestsBegun
    <3>1. key' = key /\ touched' = touched
      BY <1>2 DEF update_user_quota
    <3>2. CASE x = r
      BY <2>3, <3>2
    <3>3. CASE x # r
      <4>1. request'[x] = request[x]
        BY <2>3, <3>3
      <4>2. ASSUME request[x].op = "track" PROVE Begun(request[x])'
        <5>1. Begun(request[x]) /\ request[x].limit \in Nat /\ request[x].of \in Users
          BY <4>2 DEF RequestsBegun, TypeOK, Calls, Begun
        <5>2. request[x].limit <= peak'[request[x].of]
          BY <2>4, <5>1 DEF Begun, TypeOK
        <5>3. QED
          BY <2>4, <3>1, <4>1, <5>1, <5>2 DEF Begun
      <4>3. QED
        BY <4>1, <4>2 DEF RequestsBegun
    <3>4. QED
      BY <3>2, <3>3
  <2>8. QED
    BY <2>5, <2>6, <2>7
<1>3. QED
  BY <1>1, <1>2

LEMMA BeginTrack ==
  ASSUME IInv, NEW r \in Requests, NEW k \in Keys, Track(r, k)
  PROVE  IInv'
<1> USE DEF IInv
<1> DEFINE u == key[k].of
           q == [op |-> "track", key |-> k, of |-> u, day |-> today,
                 limit |-> user[u].limit, row |-> usage[u][today] # NoRow,
                 touched |-> touched[u][today], late |-> FALSE]
<1>0. /\ user' = user /\ key' = key /\ usage' = usage /\ today' = today
      /\ imported' = imported /\ granted' = granted /\ peak' = peak /\ touched' = touched
      /\ request' = [request EXCEPT ![r] = q]
  BY DEF Track, ghosts
<1>1. u \in Users /\ user[u].live /\ today \in Days
  BY NullAssumption DEF Track, Valid, TypeOK, NoRecord
<1>2. (usage[u][today] # NoRow) \in BOOLEAN /\ touched[u][today] \in BOOLEAN
      /\ user[u].limit \in Nat
  BY <1>1 DEF TypeOK
<1>3. q \in Calls
  BY <1>1, <1>2 DEF Calls
<1>4. /\ q.op = "track" /\ q.key = k /\ q.of = u /\ q.day = today
      /\ q.limit = user[u].limit /\ q.late = FALSE
      /\ q.row = (usage[u][today] # NoRow) /\ q.touched = touched[u][today]
  OBVIOUS
<1> HIDE DEF q
<1>5. Begun(q)
  BY <1>1, <1>2, <1>4 DEF Begun, RowsCount
<1>6. /\ request' \in [Requests -> Calls] /\ request'[r] = q
      /\ \A x \in Requests \ {r} : request'[x] = request[x]
  BY <1>0, <1>3 DEF TypeOK
<1>7. TypeOK'
  BY <1>0, <1>6 DEF TypeOK
<1>8. RowsCount'
  BY <1>0 DEF RowsCount
<1>9. RequestsBegun'
  <2> SUFFICES ASSUME NEW x \in Requests
               PROVE  /\ request'[x].op = "track" => Begun(request[x])'
                      /\ request'[x].op = "quota" => request'[x].of \in Users
    BY DEF RequestsBegun
  <2>1. CASE x = r
    BY <1>0, <1>4, <1>5, <1>6, <2>1 DEF Begun
  <2>2. CASE x # r
    <3>1. request'[x] = request[x]
      BY <1>6, <2>2
    <3>2. QED
      BY <1>0, <3>1 DEF RequestsBegun, Begun
  <2>3. QED
    BY <2>1, <2>2
<1>10. QED
  BY <1>7, <1>8, <1>9

(* What the end of a tracking statement does to the rows. *)
LEMMA TrackEnds ==
  ASSUME IInv, NEW r \in Requests, validate_and_track_developer_key(r)
  PROVE  LET q == request[r] IN
         /\ q \in Calls /\ Begun(q)
         /\ request' = [request EXCEPT ![r] = Idle]
         /\ touched' = [touched EXCEPT ![q.of][q.day] = TRUE]
         /\ user' = user /\ key' = key /\ today' = today /\ imported' = imported
         /\ peak' = peak
         /\ Counted(q) => /\ usage' = [usage EXCEPT ![q.of][q.day] = usage[q.of][q.day] + 1]
                          /\ granted' = [granted EXCEPT ![q.of][q.day] = granted[q.of][q.day] + 1]
         /\ ~Counted(q) => /\ granted' = granted
                           /\ usage' = IF user[q.of].live THEN Seeded(q.of, q.day) ELSE usage
BY DEF IInv, RequestsBegun, validate_and_track_developer_key, TypeOK

LEMMA EndTrack ==
  ASSUME IInv, NEW r \in Requests, validate_and_track_developer_key(r)
  PROVE  IInv'
<1> USE DEF IInv
<1> DEFINE q == request[r]
           u == q.of
           d == q.day
<1>0. /\ q \in Calls /\ Begun(q)
      /\ request' = [request EXCEPT ![r] = Idle]
      /\ touched' = [touched EXCEPT ![u][d] = TRUE]
      /\ user' = user /\ key' = key /\ today' = today /\ imported' = imported
      /\ peak' = peak
  BY TrackEnds
<1>1. u \in Users /\ d \in Days /\ q.limit \in Nat /\ q.limit <= peak[u]
  BY <1>0 DEF Begun, Calls
<1>2. /\ Counted(q) => /\ usage' = [usage EXCEPT ![u][d] = usage[u][d] + 1]
                       /\ granted' = [granted EXCEPT ![u][d] = granted[u][d] + 1]
      /\ ~Counted(q) => /\ granted' = granted
                        /\ usage' = IF user[u].live THEN Seeded(u, d) ELSE usage
  BY TrackEnds
<1>3. Counted(q) => /\ usage[u][d] \in Nat /\ usage[u][d] < q.limit
                    /\ usage[u][d] = granted[u][d] /\ usage[u][d] # NoRow
  BY <1>1 DEF Counted, RowsCount, TypeOK, Counts
<1>4. /\ request' \in [Requests -> Calls] /\ request'[r].op = "none"
      /\ \A x \in Requests \ {r} : request'[x] = request[x]
  BY <1>0, IdleType DEF TypeOK
<1>5. /\ touched' \in [Users -> [Days -> BOOLEAN]]
      /\ \A v \in Users, e \in Days :
           touched'[v][e] = IF v = u /\ e = d THEN TRUE ELSE touched[v][e]
  BY <1>0, <1>1 DEF TypeOK
<1>6. RequestsBegun'
  <2> SUFFICES ASSUME NEW x \in Requests
               PROVE  /\ request'[x].op = "track" => Begun(request[x])'
                      /\ request'[x].op = "quota" => request'[x].of \in Users
    BY DEF RequestsBegun
  <2>1. CASE x = r
    BY <1>4, <2>1
  <2>2. CASE x # r
    <3>1. request'[x] = request[x] /\ request[x].day \in Days
      BY <1>4, <2>2 DEF TypeOK, Calls
    <3>2. QED
      BY <1>0, <1>5, <3>1 DEF RequestsBegun, Begun
  <2>3. QED
    BY <2>1, <2>2
<1> HIDE DEF q, u, d
<1>7. CASE Counted(q)
  <2>1. /\ usage' \in [Users -> [Days -> Counts]] /\ granted' \in [Users -> [Days -> Nat]]
        /\ \A v \in Users, e \in Days :
             /\ usage'[v][e] = IF v = u /\ e = d THEN usage[u][d] + 1 ELSE usage[v][e]
             /\ granted'[v][e] = IF v = u /\ e = d THEN granted[u][d] + 1 ELSE granted[v][e]
    <3>1. /\ usage' = [usage EXCEPT ![u][d] = usage[u][d] + 1]
          /\ granted' = [granted EXCEPT ![u][d] = granted[u][d] + 1]
          /\ usage[u][d] + 1 \in Counts /\ granted[u][d] + 1 \in Nat
      BY <1>2, <1>3, <1>7 DEF Counts
    <3>2. /\ usage \in [Users -> [Days -> Counts]] /\ granted \in [Users -> [Days -> Nat]]
      BY DEF TypeOK
    <3>3. usage' \in [Users -> [Days -> Counts]] /\ granted' \in [Users -> [Days -> Nat]]
      BY <1>1, <3>1, <3>2
    <3>4. QED
      BY <1>1, <3>1, <3>2, <3>3
  <2>2. TypeOK'
    BY <1>0, <1>4, <1>5, <2>1 DEF TypeOK
  <2>3. RowsCount'
    <3>1. ASSUME NEW v \in Users
          PROVE  user[v].limit <= peak[v]
      BY DEF RowsCount
    <3> SUFFICES ASSUME NEW v \in Users, NEW e \in Days
                 PROVE  /\ usage'[v][e] # NoRow => usage'[v][e] = granted'[v][e]
                        /\ granted'[v][e] <= peak[v]
                        /\ user[v].live /\ usage'[v][e] = NoRow => granted'[v][e] = 0
                        /\ user[v].live /\ touched'[v][e] => usage'[v][e] # NoRow
      BY <1>0, <3>1 DEF RowsCount
    <3>2. CASE v = u /\ e = d
      <4>1. /\ usage'[v][e] = usage[u][d] + 1 /\ granted'[v][e] = usage[u][d] + 1
            /\ usage[u][d] + 1 \in Nat /\ usage[u][d] + 1 <= q.limit /\ peak[u] \in Nat
        BY <1>1, <1>3, <1>7, <2>1, <3>2 DEF TypeOK
      <4>2. usage'[v][e] # NoRow
        BY <4>1, NullAssumption
      <4>3. usage[u][d] + 1 <= peak[u]
        BY <1>1, <4>1
      <4>4. QED
        BY <3>2, <4>1, <4>2, <4>3
    <3>3. CASE ~(v = u /\ e = d)
      <4>1. /\ usage'[v][e] = usage[v][e] /\ granted'[v][e] = granted[v][e]
            /\ touched'[v][e] = touched[v][e]
        BY <1>5, <2>1, <3>3
      <4>2. QED
        BY <4>1 DEF RowsCount
    <3>4. QED
      BY <3>2, <3>3
  <2>4. QED
    BY <1>6, <2>2, <2>3
<1>8. CASE ~Counted(q)
  <2>1. /\ usage' \in [Users -> [Days -> Counts]]
        /\ granted' = granted
        /\ \A v \in Users, e \in Days :
             usage'[v][e] = IF v = u /\ e = d /\ usage[v][e] = NoRow /\ user[u].live
                            THEN 0 ELSE usage[v][e]
    <3>1. granted' = granted /\ usage' = IF user[u].live THEN Seeded(u, d) ELSE usage
      BY <1>2, <1>8
    <3>2. usage \in [Users -> [Days -> Counts]]
      BY DEF TypeOK
    <3>3. QED
      BY <1>1, <3>1, <3>2, SeededType
  <2>2. TypeOK'
    BY <1>0, <1>4, <1>5, <2>1 DEF TypeOK
  <2>3. RowsCount'
    <3>1. ASSUME NEW v \in Users
          PROVE  user[v].limit <= peak[v]
      BY DEF RowsCount
    <3> SUFFICES ASSUME NEW v \in Users, NEW e \in Days
                 PROVE  /\ usage'[v][e] # NoRow => usage'[v][e] = granted[v][e]
                        /\ granted[v][e] <= peak[v]
                        /\ user[v].live /\ usage'[v][e] = NoRow => granted[v][e] = 0
                        /\ user[v].live /\ touched'[v][e] => usage'[v][e] # NoRow
      BY <1>0, <2>1, <3>1 DEF RowsCount
    <3>2. usage'[v][e] = IF v = u /\ e = d /\ usage[v][e] = NoRow /\ user[u].live
                         THEN 0 ELSE usage[v][e]
      BY <2>1
    <3>3. touched'[v][e] = IF v = u /\ e = d THEN TRUE ELSE touched[v][e]
      BY <1>5
    <3>4. /\ usage[v][e] # NoRow => usage[v][e] = granted[v][e]
          /\ granted[v][e] <= peak[v]
          /\ user[v].live /\ usage[v][e] = NoRow => granted[v][e] = 0
          /\ user[v].live /\ touched[v][e] => usage[v][e] # NoRow
      BY DEF RowsCount
    <3>5. 0 # NoRow
      BY NullAssumption
    <3>6. QED
      BY <3>2, <3>3, <3>4, <3>5
  <2>4. QED
    BY <1>6, <2>2, <2>3
<1>9. QED
  BY <1>7, <1>8

LEMMA ImportStep ==
  ASSUME IInv, NEW d \in Days, NEW count \in Limits \cup {0}, NEW K \in SUBSET Keys,
         ImportUsage(d, count, K)
  PROVE  IInv'
<1> USE DEF IInv
<1> DEFINE u == imported
<1>0. u \in Users /\ count \in Nat /\ user' = user /\ today' = today /\ request' = request
      /\ imported' = NoUser
  BY LimitsAssumption DEF ImportUsage, TypeOK
<1>1. CASE ~user[u].live
  <2>1. UNCHANGED <<usage, key, granted, peak, touched>>
    BY <1>1 DEF ImportUsage
  <2>2. QED
    BY <1>0, <2>1 DEF TypeOK, RowsCount, RequestsBegun, Begun
<1>2. CASE user[u].live
  <2>1. /\ usage' = [usage EXCEPT ![u][d] = count]
        /\ key' = [k \in Keys |-> IF k \in K THEN [state |-> "live", of |-> u] ELSE key[k]]
        /\ granted' = [granted EXCEPT ![u][d] = count]
        /\ peak' = [peak EXCEPT ![u] = AtLeast(peak[u], count)]
        /\ touched' = [touched EXCEPT ![u][d] = TRUE]
        /\ \A k \in K : key[k].state = "none"
    BY <1>2 DEF ImportUsage
  <2>2. /\ AtLeast(peak[u], count) \in Nat
        /\ count <= AtLeast(peak[u], count) /\ peak[u] <= AtLeast(peak[u], count)
    BY <1>0 DEF AtLeast, TypeOK
  <2>3. /\ peak' \in [Users -> Nat] /\ count <= peak'[u]
        /\ \A v \in Users : peak[v] <= peak'[v]
    BY <1>0, <2>1, <2>2 DEF TypeOK
  <2> HIDE DEF u
  <2>4. /\ usage' \in [Users -> [Days -> Counts]]
        /\ granted' \in [Users -> [Days -> Nat]]
        /\ touched' \in [Users -> [Days -> BOOLEAN]]
    <3>1. count \in Counts
      BY <1>0 DEF Counts
    <3>2. QED
      BY <1>0, <2>1, <3>1 DEF TypeOK
  <2>5. ASSUME NEW v \in Users, NEW e \in Days
        PROVE  /\ usage'[v][e] = IF v = u /\ e = d THEN count ELSE usage[v][e]
               /\ granted'[v][e] = IF v = u /\ e = d THEN count ELSE granted[v][e]
               /\ touched'[v][e] = IF v = u /\ e = d THEN TRUE ELSE touched[v][e]
    BY <1>0, <2>1 DEF TypeOK
  <2>6. key' \in [Keys -> {NoRecord} \cup [state : {"live", "revoked"}, of : Users]]
    BY <1>0, <2>1 DEF TypeOK
  <2>7. TypeOK'
    BY <1>0, <2>3, <2>4, <2>6 DEF TypeOK
  <2>8. RowsCount'
    <3>1. ASSUME NEW v \in Users
          PROVE  user[v].limit <= peak'[v]
      BY <2>3 DEF RowsCount, TypeOK
    <3> SUFFICES ASSUME NEW v \in Users, NEW e \in Days
                 PROVE  /\ usage'[v][e] # NoRow => usage'[v][e] = granted'[v][e]
                        /\ granted'[v][e] <= peak'[v]
                        /\ user[v].live /\ usage'[v][e] = NoRow => granted'[v][e] = 0
                        /\ user[v].live /\ touched'[v][e] => usage'[v][e] # NoRow
      BY <1>0, <3>1 DEF RowsCount
    <3>2. /\ usage[v][e] # NoRow => usage[v][e] = granted[v][e]
          /\ granted[v][e] <= peak'[v]
          /\ user[v].live /\ usage[v][e] = NoRow => granted[v][e] = 0
          /\ user[v].live /\ touched[v][e] => usage[v][e] # NoRow
      BY <2>3 DEF RowsCount, TypeOK
    <3>3. count # NoRow
      BY <1>0, NullAssumption
    <3>4. QED
      BY <2>3, <2>5, <3>2, <3>3
  <2>9. RequestsBegun'
    <3> SUFFICES ASSUME NEW r \in Requests
                 PROVE  /\ request[r].op = "track" => Begun(request[r])'
                        /\ request[r].op = "quota" => request[r].of \in Users
      BY <1>0 DEF RequestsBegun
    <3>1. ASSUME request[r].op = "track" PROVE Begun(request[r])'
      <4>1. Begun(request[r]) /\ request[r] \in Calls
        BY <3>1 DEF RequestsBegun, TypeOK
      <4>2. request[r].of \in Users /\ request[r].key \in Keys /\ request[r].day \in Days
            /\ request[r].limit \in Nat
        BY <4>1 DEF Begun, Calls
      <4>3. request[r].key \notin K
        <5>1. key[request[r].key] # NoRecord
          BY <4>1, <4>2, NullAssumption DEF Begun, NoRecord
        <5>2. key[request[r].key].state # "none"
          BY <4>2, <5>1 DEF TypeOK
        <5>3. QED
          BY <2>1, <5>2
      <4>4. key'[request[r].key].of = request[r].of
        BY <2>1, <4>1, <4>2, <4>3 DEF Begun
      <4>5. request[r].limit <= peak'[request[r].of]
        BY <2>3, <4>1, <4>2 DEF Begun, TypeOK
      <4>6. touched[request[r].of][request[r].day] => touched'[request[r].of][request[r].day]
        BY <2>5, <4>2
      <4>7. QED
        BY <1>0, <4>1, <4>2, <4>4, <4>5, <4>6 DEF Begun
    <3>2. QED
      BY <3>1 DEF RequestsBegun
  <2>10. QED
    BY <2>7, <2>8, <2>9
<1>3. QED
  BY <1>1, <1>2

LEMMA NewDayStep == IInv /\ NewDay => IInv'
<1> SUFFICES ASSUME IInv, NewDay PROVE IInv'
  OBVIOUS
<1>1. today + 1 \in Days
  BY DaysAssumption DEF IInv, TypeOK, NewDay, Days
<1>2. QED
  BY <1>1 DEF IInv, TypeOK, RowsCount, RequestsBegun, Begun, NewDay, ghosts

LEMMA InvStutter == IInv /\ UNCHANGED vars => IInv'
BY DEF IInv, TypeOK, RowsCount, RequestsBegun, Begun, vars

LEMMA InvNext == IInv /\ [Next]_vars => IInv'
<1> SUFFICES ASSUME IInv, [Next]_vars PROVE IInv'
  OBVIOUS
<1>1. ASSUME NEW k \in Keys, RevokeKey(k) \/ \E u \in Users : CreateKey(k, u)
      PROVE  IInv'
  BY <1>1, KeySteps
<1>2. ASSUME NEW u \in Users,
             \/ \E enabled \in BOOLEAN : SetEnabled(u, enabled)
             \/ DeleteUser(u)
             \/ developer_usage(u)
             \/ \E limit \in Limits : ImportLimit(u, limit)
      PROVE  IInv'
  BY <1>2, UserSteps
<1>3. ASSUME NEW r \in Requests,
             \/ \E k \in Keys : Track(r, k)
             \/ validate_and_track_developer_key(r)
             \/ \E u \in Users, limit \in Limits : UpdateQuota(r, u, limit)
             \/ update_user_quota(r)
      PROVE  IInv'
  BY <1>3, BeginTrack, EndTrack, QuotaSteps
<1>4. ASSUME NEW d \in Days, NEW count \in Limits \cup {0}, NEW K \in SUBSET Keys,
             ImportUsage(d, count, K)
      PROVE  IInv'
  BY <1>4, ImportStep
<1>5. QED
  BY <1>1, <1>2, <1>3, <1>4, NewDayStep, InvStutter DEF Next

LEMMA Invariant == Spec => []IInv
BY InvInit, InvNext, PTL DEF Spec

-----------------------------------------------------------------------------
(* Type correctness (users, api_keys and daily_usage keep their columns'     *)
(* types through every interleaving of developer.rs).                        *)
THEOREM TypeCorrect == Spec => []TypeOK
BY Invariant, PTL DEF IInv

(* However many requests of a user overlap, on however many keys, they are   *)
(* all counted and stay within the user's highest limit                      *)
(* (validate_and_track_developer_key, developer.rs:153-209).                 *)
THEOREM QuotaHeldAlways == Spec => []QuotaHeld
<1>1. IInv => QuotaHeld
  BY DEF IInv, RowsCount, QuotaHeld
<1>2. QED
  BY <1>1, Invariant, PTL

(* A request on a valid key is refused for a used-up quota, or before any    *)
(* statement that seeds the day's row has ended (developer.rs:172-186).      *)
THEOREM RefusedRightlyAlways == Spec => RefusedRightly
<1> DEFINE Rightly == \A r \in Requests :
             Refused(r) => ~request[r].touched \/ UsedUp(request[r])
<1>1. ASSUME IInv, [Next]_vars PROVE Rightly
  <2> SUFFICES ASSUME NEW r \in Requests, Refused(r), request[r].touched
               PROVE  UsedUp(request[r])
    OBVIOUS
  <2>0. /\ request[r] \in Calls /\ Begun(request[r]) /\ request[r].op = "track"
        /\ request'[r] = Idle /\ ~request[r].late /\ granted' = granted
    BY <1>1 DEF Refused, IInv, TypeOK, RequestsBegun
  <2>1. validate_and_track_developer_key(r)
    <3>1. request'[r] # request[r]
      BY <2>0, IdleType
    <3>2. ASSUME NEW K \in SUBSET Keys, request' = LateBy(K) PROVE FALSE
      BY <1>1, <2>0, <3>2, IdleType, LateByType DEF IInv
    <3>3. ASSUME NEW u \in Users
          PROVE  KeysOf(u) \in SUBSET Keys
      BY DEF KeysOf
    <3>4. ASSUME NEW x \in Requests \ {r}, NEW q,
                 request' = [request EXCEPT ![x] = q]
          PROVE  FALSE
      BY <1>1, <3>1, <3>4 DEF IInv, TypeOK
    <3>5. Next
      BY <1>1, <3>1 DEF vars
    <3>6. ASSUME NEW k \in Keys, RevokeKey(k) \/ \E u \in Users : CreateKey(k, u)
          PROVE  FALSE
      BY <3>1, <3>2, <3>6 DEF RevokeKey, CreateKey
    <3>7. ASSUME NEW u \in Users,
                 \/ \E enabled \in BOOLEAN : SetEnabled(u, enabled)
                 \/ DeleteUser(u)
                 \/ developer_usage(u)
                 \/ \E limit \in Limits : ImportLimit(u, limit)
          PROVE  FALSE
      BY <3>1, <3>2, <3>3, <3>7 DEF SetEnabled, DeleteUser, developer_usage, ImportLimit
    <3>8. ASSUME NEW x \in Requests,
                 \/ \E k \in Keys : Track(x, k)
                 \/ \E u \in Users, limit \in Limits : UpdateQuota(x, u, limit)
                 \/ update_user_quota(x)
          PROVE  FALSE
      <4>1. CASE x = r
        BY <2>0, <3>8, <4>1, IdleType DEF Track, UpdateQuota, update_user_quota
      <4>2. CASE x # r
        BY <3>4, <3>8, <4>2 DEF Track, UpdateQuota, update_user_quota
      <4>3. QED
        BY <4>1, <4>2
    <3>9. ASSUME NEW x \in Requests, validate_and_track_developer_key(x), x # r
          PROVE  FALSE
      BY <3>4, <3>9 DEF validate_and_track_developer_key
    <3>10. ASSUME \/ \E d \in Days, count \in Limits \cup {0}, K \in SUBSET Keys :
                       ImportUsage(d, count, K)
                  \/ NewDay
           PROVE  FALSE
      BY <3>1, <3>10 DEF ImportUsage, NewDay
    <3>11. QED
      BY <3>5, <3>6, <3>7, <3>8, <3>9, <3>10 DEF Next
  <2> DEFINE u == request[r].of
             d == request[r].day
  <2>2. u \in Users /\ d \in Days /\ request[r].limit \in Nat
        /\ user[u].live /\ touched[u][d] /\ request[r].row
    BY <2>0 DEF Begun, Calls
  <2>3. usage[u][d] # NoRow /\ usage[u][d] \in Nat /\ granted \in [Users -> [Days -> Nat]]
    BY <1>1, <2>2 DEF IInv, RowsCount, TypeOK, Counts
  <2>4. ~Counted(request[r])
    <3>1. ASSUME Counted(request[r]) PROVE FALSE
      <4>1. granted' = [granted EXCEPT ![u][d] = granted[u][d] + 1]
        BY <1>1, <2>1, <3>1, TrackEnds
      <4>2. granted'[u][d] = granted[u][d] + 1 /\ granted[u][d] \in Nat
        BY <2>2, <2>3, <4>1
      <4>3. QED
        BY <2>0, <4>2
    <3>2. QED
      BY <3>1
  <2>5. QED
    BY <2>2, <2>3, <2>4 DEF Counted, UsedUp
<1>2. QED
  BY <1>1, Invariant, PTL DEF Spec, RefusedRightly
==============================================================================
