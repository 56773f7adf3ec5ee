---------------------------- MODULE AccountsProofs -----------------------------
(* Theorems about Accounts, for every value of its constants. *)
EXTENDS Accounts, TLAPS

-----------------------------------------------------------------------------
(* A session that is live is of an account that is there, and of one that is  *)
(* enabled unless it is spared.                                              *)
SessionsSound ==
  \A s \in Sessions :
    session[s].state = "live" =>
      /\ session[s].of \in Accounts
      /\ account[session[s].of].state = "live"
      /\ ~account[session[s].of].enabled => session[s].spared

(* The fields a request needs are there. *)
Filled(q) ==
  /\ q.op \in {"register", "create"} => q.wish.name \in Normal /\ q.wish.role \in Roles
  /\ q.op \in {"update", "delete"} => q.on \in Accounts

(* What a request has checked still holds, or it is marked. *)
CallSound(q) ==
  /\ Filled(q)
  /\ q.op = "login" /\ q.on \in Accounts /\ ~q.crossed => account[q.on].enabled

CallsSound == \A r \in Requests : CallSound(request[r])

(* Two live accounts are told apart by their names as they are written; one  *)
(* that no request could have named is the import's or the bootstrap's.      *)
NamesSound ==
  /\ \A a, b \in Accounts :
       a # b /\ Live(a) /\ Live(b) => account[a].name # account[b].name
  /\ \A a \in Accounts :
       Live(a) /\ account[a].name \notin Normal => a \in Legacy \/ account[a].local

(* A credential the migration is about to replace is not a chosen one, or was *)
(* chosen since the migration read it.                                       *)
MigrationSound ==
  /\ migration.of # NoAccount =>
       /\ migration.of \in Legacy /\ migration.phase = "import"
       /\ migration.argon => migration.found
       /\ (/\ migration.found /\ ~migration.argon
           /\ account[migration.of].state = "live"
           /\ account[migration.of].password = "chosen") => migration.of \in migration.raced
  /\ migration.phase # "rotate" => migration.todo = {}
  /\ \A a \in migration.todo :
       /\ account[a].state # "unused"
       /\ account[a].state = "live" /\ account[a].password = "chosen" => a \in migration.raced

IInv == TypeOK /\ SessionsSound /\ CallsSound /\ NamesSound /\ MigrationSound

(* What a step does to the passwords. *)
ChosenKept ==
  \A a \in Accounts :
    account[a].state = "live" /\ account[a].password = "chosen" =>
      account'[a].password = "chosen" \/ a \in migration.raced

-----------------------------------------------------------------------------
LEMMA IdleSound == Idle \in Calls /\ Idle.op = "none" /\ Filled(Idle) /\ CallSound(Idle)
<1>1. NoWish \in [name : Normal \cup {Keep}, role : Roles \cup {Keep},
                  enabled : BOOLEAN \cup {Keep}, password : BOOLEAN]
  BY DEF NoWish
<1>2. Idle \in Calls /\ Idle.op = "none"
  BY <1>1 DEF Idle, Calls
<1>3. QED
  BY <1>2 DEF Filled, CallSound

LEMMA RowTypes ==
  /\ NoRow \in Rows
  /\ NoRow.state = "unused"
  /\ \A n \in Names, role \in Roles : NewRow(n, role) \in Rows
BY NamesAssumption DEF NoRow, NewRow, Rows, Roles

(* A request begins or goes on while the accounts and sessions stay.         *)
LEMMA QuietStep ==
  ASSUME IInv, NEW r \in Requests, NEW q \in Calls, CallSound(q),
         UNCHANGED <<account, session>>,
         request' = [request EXCEPT ![r] = q]
  PROVE  request' \in [Requests -> Calls] /\ CallsSound' /\ SessionsSound' /\ NamesSound'
<1> USE DEF IInv
<1>1. request' \in [Requests -> Calls]
  BY DEF TypeOK
<1>2. SessionsSound' /\ NamesSound'
  BY DEF SessionsSound, NamesSound, Live
<1>3. CallsSound'
  <2> SUFFICES ASSUME NEW x \in Requests PROVE CallSound(request[x])'
    BY DEF CallsSound
  <2>1. request'[x] = IF x = r THEN q ELSE request[x]
    BY DEF TypeOK
  <2>2. CallSound(request'[x])
    BY <2>1 DEF CallsSound
  <2>3. QED
    BY <2>2 DEF CallSound, Filled, Live
<1>4. QED
  BY <1>1, <1>2, <1>3

(* A step marks the requests it overtakes. *)
LEMMA OvertakenType ==
  ASSUME NEW q \in Calls
  PROVE  /\ Overtaken(q) \in Calls
         /\ Overtaken(q).op = q.op /\ Overtaken(q).on = q.on
         /\ Overtaken(q).wish = q.wish
         /\ Overtaken(q).crossed <=>
              q.crossed \/ (/\ q.op = "login" /\ q.on \in Accounts
                            /\ ~account'[q.on].enabled)
<1> DEFINE c == q.crossed \/ (q.op = "login" /\ q.on \in Accounts
                                             /\ ~account'[q.on].enabled)
<1>1. c \in BOOLEAN
  OBVIOUS
<1>2. Overtaken(q) = [q EXCEPT !.crossed = c]
  BY DEF Overtaken, Calls
<1> HIDE DEF c
<1>3. /\ Overtaken(q) \in Calls /\ Overtaken(q).crossed = c
      /\ Overtaken(q).op = q.op /\ Overtaken(q).on = q.on
      /\ Overtaken(q).wish = q.wish
  BY <1>1, <1>2 DEF Calls
<1>4. QED
  BY <1>3 DEF c

LEMMA MovingStep ==
  ASSUME NEW f \in [Requests -> Calls],
         \A x \in Requests : Filled(f[x]),
         request' = [x \in Requests |-> Overtaken(f[x])]
  PROVE  request' \in [Requests -> Calls] /\ CallsSound'
<1>1. ASSUME NEW x \in Requests
      PROVE  request'[x] = Overtaken(f[x]) /\ f[x] \in Calls /\ Overtaken(f[x]) \in Calls
  BY OvertakenType
<1>2. request' \in [Requests -> Calls]
  BY <1>1
<1>3. ASSUME NEW x \in Requests PROVE CallSound(request[x])'
  <2> DEFINE q == f[x]
             p == request'[x]
  <2>1. /\ q \in Calls /\ p \in Calls
        /\ p.op = q.op /\ p.on = q.on /\ p.wish = q.wish
        /\ p.crossed <=> q.crossed \/ (/\ q.op = "login" /\ q.on \in Accounts
                                       /\ ~account'[q.on].enabled)
    BY <1>1, OvertakenType
  <2>2. Filled(q)
    OBVIOUS
  <2> HIDE DEF q, p
  <2>3. Filled(p)
    BY <2>1, <2>2 DEF Filled
  <2>4. p.op = "login" /\ p.on \in Accounts /\ ~p.crossed => account'[p.on].enabled
    BY <2>1
  <2>5. QED
    BY <2>3, <2>4 DEF CallSound, Filled, p
<1>4. QED
  BY <1>2, <1>3 DEF CallsSound

-----------------------------------------------------------------------------
MigrationTypes == [phase : {"import", "rotate", "done"}, left : SUBSET Legacy,
                   of : Accounts \cup {NoAccount}, found : BOOLEAN, argon : BOOLEAN,
                   todo : SUBSET Accounts, raced : SUBSET Accounts]

LEMMA InvInit == Init => IInv
<1> SUFFICES ASSUME Init PROVE IInv
  OBVIOUS
<1>1. PICK a \in Accounts \ Legacy, s \in Sessions, n \in Names \ {LocalName},
           old \in [Legacy -> {"unused", "legacy", "chosen"}] :
        /\ account = [b \in Accounts |->
             IF b = a THEN [NewRow(LocalName, "admin") EXCEPT !.local = TRUE]
             ELSE IF b \notin Legacy \/ old[b] = "unused" THEN NoRow
             ELSE [NewRow(n, "developer") EXCEPT !.password = old[b]]]
        /\ \A b, c \in Legacy : old[b] # "unused" /\ old[c] # "unused" => b = c
        /\ session = [t \in Sessions |->
             IF t = s THEN [state |-> "live", of |-> a, spared |-> FALSE] ELSE NoToken]
  BY DEF Init
<1>2. /\ request = [r \in Requests |-> Idle]
      /\ migration = [phase |-> "import", left |-> Legacy, of |-> NoAccount,
                      found |-> FALSE, argon |-> FALSE, todo |-> {}, raced |-> {}]
      /\ started = 0
  BY DEF Init
<1>3. ASSUME NEW b \in Accounts
      PROVE  /\ account[b] \in Rows
             /\ b = a => /\ account[b].state = "live" /\ account[b].enabled
                         /\ account[b].name = LocalName /\ account[b].local
             /\ b # a => \/ account[b].state = "unused"
                         \/ /\ account[b].state = "live" /\ account[b].name = n
                            /\ b \in Legacy /\ old[b] # "unused"
  <2>1. CASE b = a
    BY <1>1, <2>1, NamesAssumption DEF NewRow, Rows, Roles
  <2>2. CASE b # a /\ (b \notin Legacy \/ old[b] = "unused")
    BY <1>1, <2>2, RowTypes
  <2>3. CASE b # a /\ b \in Legacy /\ old[b] # "unused"
    <3>1. account[b] = [NewRow(n, "developer") EXCEPT !.password = old[b]]
          /\ old[b] \in {"legacy", "chosen"}
      BY <1>1, <2>3
    <3>2. QED
      BY <2>3, <3>1 DEF NewRow, Rows, Roles
  <2>4. QED
    BY <2>1, <2>2, <2>3
<1>4. TypeOK
  <2>1. session \in [Sessions -> Tokens]
    <3>1. NoToken \in Tokens /\ [state |-> "live", of |-> a, spared |-> FALSE] \in Tokens
      BY DEF NoToken, Tokens
    <3>2. QED
      BY <1>1, <3>1
  <2>2. account \in [Accounts -> Rows] /\ request \in [Requests -> Calls]
    BY <1>1, <1>2, <1>3, IdleSound
  <2>3. migration \in MigrationTypes /\ started \in 0..MaxRequests
    BY <1>2, BoundAssumption DEF MigrationTypes
  <2>4. QED
    BY <2>1, <2>2, <2>3 DEF TypeOK, MigrationTypes
<1>5. SessionsSound
  BY <1>1, <1>3 DEF SessionsSound, NoToken
<1>6. CallsSound
  BY <1>2, IdleSound DEF CallsSound
<1>7. NamesSound
  <2>1. ASSUME NEW b \in Accounts, NEW c \in Accounts, b # c,
               account[b].state = "live", account[c].state = "live"
        PROVE  account[b].name # account[c].name
    <3>1. CASE b = a \/ c = a
      BY <1>3, <2>1, <3>1
    <3>2. CASE b # a /\ c # a
      BY <1>1, <1>3, <2>1, <3>2
    <3>3. QED
      BY <3>1, <3>2
  <2>2. \A b \in Accounts : account[b].state = "live" => b \in Legacy \/ account[b].local
    BY <1>3
  <2>3. QED
    BY <2>1, <2>2 DEF NamesSound, Live
<1>8. MigrationSound
  BY <1>2 DEF MigrationSound
<1>9. QED
  BY <1>4, <1>5, <1>6, <1>7, <1>8 DEF IInv

-----------------------------------------------------------------------------
(* Steps that leave the accounts and the sessions alone.                     *)

LEMMA QuietInv ==
  ASSUME IInv, NEW r \in Requests, NEW q \in Calls, CallSound(q),
         UNCHANGED <<account, session, migration>>, started' \in 0..MaxRequests,
         request' = [request EXCEPT ![r] = q]
  PROVE  IInv' /\ ChosenKept
<1>1. request' \in [Requests -> Calls] /\ CallsSound' /\ SessionsSound' /\ NamesSound'
  BY QuietStep
<1>2. TypeOK' /\ MigrationSound'
  BY <1>1 DEF IInv, TypeOK, MigrationSound
<1>3. QED
  BY <1>1, <1>2 DEF IInv, ChosenKept

(* The records a request begins with. *)
LEMMA BegunType ==
  /\ \A n \in Normal : [Idle EXCEPT !.op = "register", !.phase = "checked", !.wish.name = n,
                                   !.wish.role = "developer"] \in Calls
  /\ \A n \in Normal, role \in Roles :
       [Idle EXCEPT !.op = "create", !.wish.name = n, !.wish.role = role] \in Calls
  /\ \A a \in Accounts :
       [Idle EXCEPT !.op = "login", !.phase = "checked", !.on = a] \in Calls
  /\ \A s \in Sessions, a \in Accounts, wish \in Wishes :
       [Idle EXCEPT !.op = "update", !.on = a, !.wish = wish] \in Calls
  /\ \A s \in Sessions, a \in Accounts :
       [Idle EXCEPT !.op = "delete", !.on = a] \in Calls
<1>1. /\ NoWish \in [name : Normal \cup {Keep}, role : Roles \cup {Keep},
                     enabled : BOOLEAN \cup {Keep}, password : BOOLEAN]
      /\ \A n \in Normal, role \in Roles :
           [NoWish EXCEPT !.name = n, !.role = role] \in
             [name : Normal \cup {Keep}, role : Roles \cup {Keep},
              enabled : BOOLEAN \cup {Keep}, password : BOOLEAN]
      /\ "developer" \in Roles
  BY DEF NoWish, Roles
<1>2. \A n \in Normal :
        [Idle EXCEPT !.op = "register", !.phase = "checked", !.wish.name = n,
                     !.wish.role = "developer"] \in Calls
  BY <1>1 DEF Idle, Calls
<1>3. ASSUME NEW n \in Normal, NEW role \in Roles
      PROVE  [Idle EXCEPT !.op = "create", !.wish.name = n, !.wish.role = role]
               \in Calls
  <2> DEFINE wish == [NoWish EXCEPT !.name = n, !.role = role]
  <2>1. wish \in [name : Normal \cup {Keep}, role : Roles \cup {Keep},
                  enabled : BOOLEAN \cup {Keep}, password : BOOLEAN]
    BY <1>1
  <2>2. Idle \in Calls /\ Idle.wish = NoWish
    BY <1>1 DEF Idle, Calls
  <2> HIDE DEF wish
  <2>3. [Idle EXCEPT !.op = "create", !.wish = wish] \in Calls
    BY <2>1, <2>2 DEF Calls
  <2>4. [Idle EXCEPT !.op = "create", !.wish.name = n, !.wish.role = role]
          = [Idle EXCEPT !.op = "create", !.wish = wish]
    BY <2>2, Zenon DEF wish
  <2>5. QED
    BY <2>3, <2>4
<1>4. /\ \A a \in Accounts :
           [Idle EXCEPT !.op = "login", !.phase = "checked", !.on = a] \in Calls
      /\ \A s \in Sessions, a \in Accounts :
           [Idle EXCEPT !.op = "delete", !.on = a] \in Calls
  BY <1>1 DEF Idle, Calls
<1>5. ASSUME NEW s \in Sessions, NEW a \in Accounts, NEW wish \in Wishes
      PROVE  [Idle EXCEPT !.op = "update", !.on = a, !.wish = wish] \in Calls
  <2>1. wish \in [name : Normal \cup {Keep}, role : Roles \cup {Keep},
                  enabled : BOOLEAN \cup {Keep}, password : BOOLEAN]
    BY WishesAssumption
  <2>2. QED
    BY <2>1 DEF Idle, Calls
<1>6. QED
  BY <1>2, <1>3, <1>4, <1>5

LEMMA BeginSteps ==
  ASSUME IInv, NEW r \in Requests,
         \/ \E n \in Normal : Register(r, n)
         \/ \E s \in Sessions, n \in Normal, role \in Roles : CreateUser(r, s, n, role)
         \/ \E a \in Accounts : Login(r, a)
         \/ \E s \in Sessions, a \in Accounts, wish \in Wishes : UpdateUser(r, s, a, wish)
         \/ \E s \in Sessions, a \in Accounts : DeleteUser(r, s, a)
  PROVE  IInv' /\ ChosenKept
<1>1. ASSUME NEW q \in Calls, CallSound(q), Begin(r, q) PROVE IInv' /\ ChosenKept
  <2>1. /\ request' = [request EXCEPT ![r] = q]
        /\ started' = started + 1 /\ started < MaxRequests
        /\ UNCHANGED <<account, session, migration>>
    BY <1>1 DEF Begin
  <2>2. started' \in 0..MaxRequests
    BY <2>1, BoundAssumption DEF IInv, TypeOK
  <2>3. QED
    BY <1>1, <2>1, <2>2, QuietInv
<1>2. ASSUME NEW n \in Normal, Register(r, n) PROVE IInv' /\ ChosenKept
  <2> DEFINE q == [Idle EXCEPT !.op = "register", !.phase = "checked", !.wish.name = n,
                               !.wish.role = "developer"]
  <2>1. q \in Calls /\ q.op = "register" /\ q.wish.name = n /\ q.wish.role = "developer"
    BY BegunType DEF Idle, NoWish
  <2>2. Begin(r, q)
    BY <1>2 DEF Register
  <2> HIDE DEF q
  <2>3. CallSound(q)
    BY <2>1 DEF CallSound, Filled, Roles
  <2>4. QED
    BY <1>1, <2>1, <2>2, <2>3
<1>3. ASSUME NEW s \in Sessions, NEW n \in Normal, NEW role \in Roles, CreateUser(r, s, n, role)
      PROVE  IInv' /\ ChosenKept
  <2> DEFINE q == [Idle EXCEPT !.op = "create", !.wish.name = n, !.wish.role = role]
  <2>1. q \in Calls /\ q.op = "create" /\ q.wish.name = n /\ q.wish.role = role
    <3>1. q \in Calls
      BY BegunType
    <3>2. q.op = "create"
      BY DEF Idle
    <3>3. q.wish = [NoWish EXCEPT !.name = n, !.role = role]
      BY DEF Idle
    <3>4. QED
      BY <3>1, <3>2, <3>3 DEF NoWish
  <2>2. Begin(r, q)
    BY <1>3 DEF CreateUser
  <2> HIDE DEF q
  <2>3. CallSound(q)
    BY <2>1 DEF CallSound, Filled
  <2>4. QED
    BY <1>1, <2>1, <2>2, <2>3
<1>4. ASSUME NEW a \in Accounts, Login(r, a) PROVE IInv' /\ ChosenKept
  <2> DEFINE q == [Idle EXCEPT !.op = "login", !.phase = "checked", !.on = a]
  <2>1. q \in Calls /\ q.op = "login" /\ q.on = a
    BY BegunType DEF Idle
  <2>2. Begin(r, q) /\ account[a].enabled
    BY <1>4 DEF Login
  <2> HIDE DEF q
  <2>3. CallSound(q)
    BY <2>1, <2>2 DEF CallSound, Filled
  <2>4. QED
    BY <1>1, <2>1, <2>2, <2>3
<1>5. ASSUME NEW s \in Sessions, NEW a \in Accounts, NEW wish \in Wishes,
             UpdateUser(r, s, a, wish)
      PROVE  IInv' /\ ChosenKept
  <2> DEFINE q == [Idle EXCEPT !.op = "update", !.on = a, !.wish = wish]
  <2>1. q \in Calls /\ q.op = "update" /\ q.on = a
    BY BegunType DEF Idle
  <2>2. Begin(r, q)
    BY <1>5 DEF UpdateUser
  <2> HIDE DEF q
  <2>3. CallSound(q)
    BY <2>1 DEF CallSound, Filled
  <2>4. QED
    BY <1>1, <2>1, <2>2, <2>3
<1>6. ASSUME NEW s \in Sessions, NEW a \in Accounts, DeleteUser(r, s, a)
      PROVE  IInv' /\ ChosenKept
  <2> DEFINE q == [Idle EXCEPT !.op = "delete", !.on = a]
  <2>1. q \in Calls /\ q.op = "delete" /\ q.on = a
    BY BegunType DEF Idle
  <2>2. Begin(r, q)
    BY <1>6 DEF DeleteUser
  <2> HIDE DEF q
  <2>3. CallSound(q)
    BY <2>1 DEF CallSound, Filled
  <2>4. QED
    BY <1>1, <2>1, <2>2, <2>3
<1>7. QED
  BY <1>2, <1>3, <1>4, <1>5, <1>6

LEMMA CheckSteps ==
  ASSUME IInv, NEW r \in Requests,
         CreateChecked(r) \/ InsertConflict(r) \/ ProfileChecked(r)
  PROVE  IInv' /\ ChosenKept
<1> DEFINE q == request[r]
           c == [q EXCEPT !.phase = "checked"]
<1>1. q \in Calls /\ CallSound(q) /\ started \in 0..MaxRequests
  BY DEF IInv, TypeOK, CallsSound
<1>2. c \in Calls /\ c.op = q.op /\ c.on = q.on /\ c.wish = q.wish
      /\ c.crossed = q.crossed
  BY <1>1 DEF Calls
<1>3. /\ UNCHANGED <<account, session, migration, started>>
      /\ request' = [request EXCEPT ![r] = Idle] \/ request' = [request EXCEPT ![r] = c]
  <2>1. CASE CreateChecked(r)
    BY <2>1 DEF CreateChecked
  <2>2. CASE InsertConflict(r)
    BY <2>2 DEF InsertConflict
  <2>3. CASE ProfileChecked(r)
    BY <2>3 DEF ProfileChecked
  <2>4. QED
    BY <2>1, <2>2, <2>3
<1> HIDE DEF q, c
<1>4. CallSound(c)
  BY <1>1, <1>2 DEF CallSound, Filled
<1>5. QED
  BY <1>1, <1>2, <1>3, <1>4, IdleSound, QuietInv

LEMMA ReadSteps ==
  ASSUME IInv, RotateRead \/ \E a \in Accounts : ImportRead(a)
  PROVE  IInv' /\ ChosenKept
<1> USE DEF IInv
<1>1. UNCHANGED <<account, session, request, started>>
  BY DEF RotateRead, ImportRead
<1>2. SessionsSound' /\ CallsSound' /\ NamesSound' /\ ChosenKept
  BY <1>1 DEF SessionsSound, CallsSound, NamesSound, ChosenKept, CallSound, Filled, Live
<1>3. CASE RotateRead
  <2>1. /\ migration.of = NoAccount
        /\ migration' = [migration EXCEPT !.phase = "rotate", !.raced = {},
             !.todo = {a \in Accounts : Live(a) /\ account[a].password = "legacy"}]
    BY <1>3 DEF RotateRead
  <2>2. /\ migration' \in MigrationTypes /\ migration'.of = NoAccount
        /\ migration'.phase = "rotate"
        /\ \A a \in migration'.todo : account[a].state = "live" /\ account[a].password = "legacy"
    BY <2>1 DEF TypeOK, MigrationTypes, Live
  <2>3. TypeOK'
    BY <1>1, <2>2 DEF TypeOK, MigrationTypes
  <2>4. MigrationSound'
    BY <1>1, <2>2 DEF MigrationSound
  <2>5. QED
    BY <1>2, <2>3, <2>4
<1>4. ASSUME NEW a \in Accounts, ImportRead(a) PROVE IInv' /\ ChosenKept
  <2> DEFINE found == Live(a) /\ account[a].role = "developer"
             argon == found /\ account[a].password # "legacy"
  <2>1. /\ a \in Legacy /\ migration.phase = "import"
        /\ migration' = [migration EXCEPT !.of = a, !.left = @ \ {a}, !.found = found,
                                          !.argon = argon]
    BY <1>4 DEF ImportRead, TypeOK, MigrationTypes
  <2>2. /\ found \in BOOLEAN /\ argon \in BOOLEAN /\ (argon => found)
        /\ found /\ account[a].password = "chosen" => argon
    BY DEF Live
  <2> HIDE DEF found, argon
  <2>3. /\ migration' \in MigrationTypes /\ migration'.of = a
        /\ migration'.argon = argon /\ migration'.found = found
        /\ migration'.phase = "import" /\ migration'.todo = migration.todo
    BY <2>1, <2>2 DEF TypeOK, MigrationTypes
  <2>4. TypeOK'
    BY <1>1, <2>3 DEF TypeOK, MigrationTypes
  <2>5. MigrationSound'
    BY <1>1, <2>1, <2>2, <2>3 DEF MigrationSound
  <2>6. QED
    BY <1>2, <2>4, <2>5
<1>5. QED
  BY <1>3, <1>4

-----------------------------------------------------------------------------
(* Steps that change accounts or sessions.                                   *)

LEMMA MovingInv ==
  ASSUME IInv,
         \/ OthersProceed
         \/ \E r \in Requests, q \in Calls : Filled(q) /\ Proceed(r, q),
         account' \in [Accounts -> Rows], session' \in [Sessions -> Tokens],
         migration' \in MigrationTypes, started' = started,
         SessionsSound', NamesSound', MigrationSound'
  PROVE  IInv'
<1>1. \A x \in Requests : request[x] \in Calls /\ Filled(request[x])
  BY DEF IInv, TypeOK, CallsSound, CallSound
<1>2. PICK f \in [Requests -> Calls] :
        /\ \A x \in Requests : Filled(f[x])
        /\ request' = [x \in Requests |-> Overtaken(f[x])]
  <2>1. CASE OthersProceed
    <3>1. request \in [Requests -> Calls]
      BY DEF IInv, TypeOK
    <3>2. QED
      BY <1>1, <2>1, <3>1 DEF OthersProceed
  <2>2. ASSUME NEW r \in Requests, NEW q \in Calls, Filled(q), Proceed(r, q)
        PROVE  \E f \in [Requests -> Calls] :
                 /\ \A x \in Requests : Filled(f[x])
                 /\ request' = [x \in Requests |-> Overtaken(f[x])]
    <3> DEFINE f == [x \in Requests |-> IF x = r THEN q ELSE request[x]]
    <3>1. f \in [Requests -> Calls] /\ \A x \in Requests : Filled(f[x])
      BY <1>1, <2>2
    <3>2. request' = [x \in Requests |-> Overtaken(f[x])]
      BY <2>2 DEF Proceed
    <3>3. QED
      BY <3>1, <3>2
  <2>3. QED
    BY <2>1, <2>2
<1>3. request' \in [Requests -> Calls] /\ CallsSound'
  BY <1>2, MovingStep
<1>4. TypeOK'
  BY <1>3 DEF IInv, TypeOK, MigrationTypes
<1>5. QED
  BY <1>3, <1>4 DEF IInv

LEMMA RevokedType ==
  ASSUME TypeOK, NEW a
  PROVE  /\ Revoked(a) \in [Sessions -> Tokens]
         /\ \A s \in Sessions :
              Revoked(a)[s].state = "live" =>
                Revoked(a)[s] = session[s] /\ session[s].of # a
<1> SUFFICES ASSUME NEW s \in Sessions
             PROVE  /\ Revoked(a)[s] \in Tokens
                    /\ Revoked(a)[s].state = "live" =>
                         Revoked(a)[s] = session[s] /\ session[s].of # a
  BY DEF Revoked
<1>1. session[s] \in Tokens
  BY DEF TypeOK
<1>2. CASE session[s].of = a /\ session[s].state = "live"
  <2>1. Revoked(a)[s] = [session[s] EXCEPT !.state = "revoked"]
    BY <1>2 DEF Revoked
  <2>2. QED
    BY <1>1, <2>1 DEF Tokens
<1>3. CASE ~(session[s].of = a /\ session[s].state = "live")
  <2>1. Revoked(a)[s] = session[s]
    BY <1>3 DEF Revoked
  <2>2. QED
    BY <1>1, <1>3, <2>1
<1>4. QED
  BY <1>2, <1>3

(* A new account, live, enabled, of a free name. *)
LEMMA NewAccount ==
  ASSUME IInv, NEW a \in Accounts \ Legacy, account[a].state = "unused",
         NEW row \in Rows, row.enabled, row.state = "live", row.name \in Normal \/ row.local,
         ~NameTaken(row.name, NoAccount),
         account' = [account EXCEPT ![a] = row]
  PROVE  /\ account' \in [Accounts -> Rows]
         /\ \A b \in Accounts : account'[b] = IF b = a THEN row ELSE account[b]
         /\ NamesSound' /\ ChosenKept
         /\ migration' = migration => MigrationSound'
<1> USE DEF IInv
<1>1. /\ account' \in [Accounts -> Rows]
      /\ \A b \in Accounts : account'[b] = IF b = a THEN row ELSE account[b]
  BY DEF TypeOK
<1>2. \A b \in Accounts : account[b].state = "live" => account[b].name # row.name
  BY NullAssumption DEF NameTaken, Live
<1>3. NamesSound'
  <2>1. ASSUME NEW b \in Accounts, NEW c \in Accounts, b # c,
               account'[b].state = "live", account'[c].state = "live"
        PROVE  account'[b].name # account'[c].name
    <3>1. CASE b = a \/ c = a
      BY <1>1, <1>2, <2>1, <3>1
    <3>2. CASE b # a /\ c # a
      BY <1>1, <2>1, <3>2 DEF NamesSound, Live
    <3>3. QED
      BY <3>1, <3>2
  <2>2. ASSUME NEW b \in Accounts, account'[b].state = "live", account'[b].name \notin Normal
        PROVE  b \in Legacy \/ account'[b].local
    BY <1>1, <2>2 DEF NamesSound, Live
  <2>3. QED
    BY <2>1, <2>2 DEF NamesSound, Live
<1>4. ChosenKept
  BY <1>1 DEF ChosenKept
<1>5. ASSUME migration' = migration PROVE MigrationSound'
  BY <1>1, <1>5, LegacyAssumption DEF MigrationSound, TypeOK
<1>6. QED
  BY <1>1, <1>3, <1>4, <1>5

LEMMA NewAccountSteps ==
  ASSUME IInv,
         \/ \E a \in Accounts : seed_bootstrap_admin(a)
         \/ \E r \in Requests, a \in Accounts, s \in Sessions : InsertUser(r, a, s)
  PROVE  IInv' /\ ChosenKept
<1> USE DEF IInv
<1>1. ASSUME NEW a \in Accounts, seed_bootstrap_admin(a) PROVE IInv' /\ ChosenKept
  <2> DEFINE row == [NewRow(LocalName, "admin") EXCEPT !.local = TRUE]
  <2>1. row \in Rows /\ row.enabled /\ row.state = "live" /\ row.local /\ row.name = LocalName
    BY NamesAssumption DEF NewRow, Rows, Roles
  <2>2. /\ a \in Accounts \ Legacy /\ account[a].state = "unused"
        /\ ~NameTaken(LocalName, NoAccount) /\ account' = [account EXCEPT ![a] = row]
        /\ UNCHANGED <<session, migration, started>> /\ OthersProceed
    BY <1>1 DEF seed_bootstrap_admin
  <2> HIDE DEF row
  <2>3. /\ account' \in [Accounts -> Rows]
        /\ \A b \in Accounts : account'[b] = IF b = a THEN row ELSE account[b]
        /\ NamesSound' /\ ChosenKept /\ MigrationSound'
    BY <2>1, <2>2, NewAccount
  <2>4. SessionsSound'
    BY <2>1, <2>2, <2>3 DEF SessionsSound
  <2>5. session' \in [Sessions -> Tokens] /\ migration' \in MigrationTypes
    BY <2>2 DEF TypeOK, MigrationTypes
  <2>6. QED
    BY <2>2, <2>3, <2>4, <2>5, MovingInv
<1>2. ASSUME NEW r \in Requests, NEW a \in Accounts, NEW s \in Sessions, InsertUser(r, a, s)
      PROVE  IInv' /\ ChosenKept
  <2> DEFINE q == request[r]
             row == NewRow(q.wish.name, q.wish.role)
             token == [state |-> "live", of |-> a, spared |-> FALSE]
  <2>1. /\ q.op \in {"register", "create"}
        /\ a \in Accounts \ Legacy /\ account[a].state = "unused"
        /\ ~NameTaken(q.wish.name, NoAccount) /\ account' = [account EXCEPT ![a] = row]
        /\ session' = session \/ session' = [session EXCEPT ![s] = token]
        /\ UNCHANGED <<migration, started>> /\ Proceed(r, Idle)
    BY <1>2 DEF InsertUser
  <2>2. q.wish.name \in Normal /\ q.wish.name \in Names /\ q.wish.role \in Roles
    BY <2>1 DEF Normal, CallsSound, CallSound, Filled
  <2>3. row \in Rows /\ row.enabled /\ row.state = "live" /\ row.name = q.wish.name
    BY <2>2, RowTypes DEF NewRow
  <2>4. token \in Tokens /\ token.of = a
    BY DEF Tokens
  <2> HIDE DEF row, token
  <2>5. /\ account' \in [Accounts -> Rows]
        /\ \A b \in Accounts : account'[b] = IF b = a THEN row ELSE account[b]
        /\ NamesSound' /\ ChosenKept /\ MigrationSound'
    BY <2>1, <2>2, <2>3, NewAccount
  <2>6. /\ session' \in [Sessions -> Tokens]
        /\ \A t \in Sessions : session'[t] = session[t] \/ session'[t] = token
    BY <2>1, <2>4 DEF TypeOK
  <2>7. SessionsSound'
    BY <2>3, <2>4, <2>5, <2>6 DEF SessionsSound
  <2>8. migration' \in MigrationTypes
    BY <2>1 DEF TypeOK, MigrationTypes
  <2>9. QED
    BY <2>1, <2>5, <2>6, <2>7, <2>8, IdleSound, MovingInv
<1>3. QED
  BY <1>1, <1>2

LEMMA SessionSteps ==
  ASSUME IInv,
         \/ \E s \in Sessions : Logout(s)
         \/ \E r \in Requests, s \in Sessions : CreateSession(r, s)
  PROVE  IInv' /\ ChosenKept
<1> USE DEF IInv
<1>1. ASSUME UNCHANGED <<account, migration, started>>
      PROVE  /\ account' \in [Accounts -> Rows] /\ migration' \in MigrationTypes
             /\ NamesSound' /\ MigrationSound' /\ ChosenKept
  BY <1>1 DEF TypeOK, MigrationTypes, NamesSound, Live, MigrationSound, ChosenKept
<1>2. ASSUME NEW s \in Sessions, Logout(s) PROVE IInv' /\ ChosenKept
  <2>1. /\ session' = [session EXCEPT ![s].state = "revoked"]
        /\ UNCHANGED <<account, migration, started>> /\ OthersProceed
    BY <1>2 DEF Logout
  <2>2. /\ session' \in [Sessions -> Tokens]
        /\ \A t \in Sessions : session'[t].state = "live" => session'[t] = session[t]
    BY <2>1 DEF TypeOK, Tokens
  <2>3. SessionsSound'
    BY <2>1, <2>2 DEF SessionsSound
  <2>4. QED
    BY <1>1, <2>1, <2>2, <2>3, MovingInv
<1>3. ASSUME NEW r \in Requests, NEW s \in Sessions, CreateSession(r, s)
      PROVE  IInv' /\ ChosenKept
  <2> DEFINE q == request[r]
             token == [state |-> "live", of |-> q.on, spared |-> q.crossed]
  <2>1. /\ q.op = "login" /\ UNCHANGED <<account, migration, started>> /\ Proceed(r, Idle)
        /\ session' = IF Live(q.on) THEN [session EXCEPT ![s] = token] ELSE session
    BY <1>3 DEF CreateSession
  <2>2. /\ q \in Calls /\ q.crossed \in BOOLEAN
        /\ q.on \in Accounts /\ ~q.crossed => account[q.on].enabled
    BY <2>1 DEF CallsSound, CallSound, TypeOK, Calls
  <2>3. token \in Tokens /\ token.of = q.on /\ token.spared = q.crossed
    BY <2>2 DEF Tokens, Calls
  <2> HIDE DEF q, token
  <2>4. /\ session' \in [Sessions -> Tokens]
        /\ \A t \in Sessions :
             \/ session'[t] = session[t]
             \/ session'[t] = token /\ q.on \in Accounts /\ account[q.on].state = "live"
    BY <2>1, <2>3 DEF TypeOK, Live
  <2>5. SessionsSound'
    BY <2>1, <2>2, <2>3, <2>4 DEF SessionsSound
  <2>6. QED
    BY <1>1, <2>1, <2>4, <2>5, IdleSound, MovingInv
<1>4. QED
  BY <1>2, <1>3

(* An account changes, but for its name and role unless a step of its own    *)
(* says so; one that is not in use stays so.                                 *)
LEMMA ProfileStep ==
  ASSUME IInv, NEW r \in Requests, update_user_profile(r)
  PROVE  IInv' /\ ChosenKept
<1> USE DEF IInv
<1> DEFINE q == request[r]
           a == q.on
           row == [account[a] EXCEPT !.name = Or(q.wish.name, @), !.role = Or(q.wish.role, @)]
           next == [q EXCEPT !.phase = "profile"]
<1>1. /\ q.op = "update" /\ q \in Calls /\ a \in Accounts /\ Filled(q)
      /\ account[a] \in Rows
  BY DEF update_user_profile, CallsSound, CallSound, Filled, TypeOK
<1>2. /\ UNCHANGED <<session, migration, started>>
      /\ Proceed(r, Idle) \/ Proceed(r, next)
      /\ \/ account' = account
         \/ /\ ~NameTaken(Or(q.wish.name, account[a].name), a)
            /\ account' = [account EXCEPT ![a] = row]
  BY DEF update_user_profile
<1>3. next \in Calls /\ Filled(next)
  BY <1>1 DEF Calls, Filled
<1>4. /\ row \in Rows /\ row.state = account[a].state /\ row.enabled = account[a].enabled
      /\ row.password = account[a].password /\ row.name = Or(q.wish.name, account[a].name)
      /\ row.local = account[a].local /\ row.name \in Normal \cup {account[a].name}
  <2>1. q.wish.name \in Normal \cup {Keep} /\ q.wish.role \in Roles \cup {Keep}
    BY <1>1 DEF Calls
  <2>2. /\ Or(q.wish.name, account[a].name) \in Names
        /\ Or(q.wish.name, account[a].name) \in Normal \cup {account[a].name}
        /\ Or(q.wish.role, account[a].role) \in Roles
    BY <1>1, <2>1 DEF Or, Rows, Normal
  <2> HIDE DEF q, a
  <2>3. QED
    BY <1>1, <2>2 DEF Rows
<1> HIDE DEF q, a, row, next
<1>5. CASE account' = account
  <2>1. SessionsSound' /\ NamesSound' /\ MigrationSound' /\ ChosenKept
    BY <1>2, <1>5 DEF SessionsSound, NamesSound, Live, MigrationSound, ChosenKept
  <2>2. /\ account' \in [Accounts -> Rows] /\ session' \in [Sessions -> Tokens]
        /\ migration' \in MigrationTypes
    BY <1>2, <1>5 DEF TypeOK, MigrationTypes
  <2>3. QED
    BY <1>2, <1>3, <2>1, <2>2, IdleSound, MovingInv
<1>6. CASE /\ ~NameTaken(Or(q.wish.name, account[a].name), a)
           /\ account' = [account EXCEPT ![a] = row]
  <2>1. /\ account' \in [Accounts -> Rows]
        /\ \A b \in Accounts : account'[b] = IF b = a THEN row ELSE account[b]
    BY <1>4, <1>6 DEF TypeOK
  <2>2. \A b \in Accounts \ {a} : account[b].state = "live" => account[b].name # row.name
    BY <1>4, <1>6 DEF NameTaken, Live
  <2>3. \A b \in Accounts : /\ account'[b].state = account[b].state
                            /\ account'[b].enabled = account[b].enabled
                            /\ account'[b].password = account[b].password
    BY <1>4, <2>1
  <2>4. NamesSound'
    <3>1. ASSUME NEW b \in Accounts, NEW c \in Accounts, b # c,
                 account'[b].state = "live", account'[c].state = "live"
          PROVE  account'[b].name # account'[c].name
      <4>1. CASE b = a \/ c = a
        BY <2>1, <2>2, <2>3, <3>1, <4>1
      <4>2. CASE b # a /\ c # a
        BY <2>1, <3>1, <4>2 DEF NamesSound, Live
      <4>3. QED
        BY <4>1, <4>2
    <3>2. ASSUME NEW b \in Accounts, account'[b].state = "live", account'[b].name \notin Normal
          PROVE  b \in Legacy \/ account'[b].local
      BY <1>4, <2>1, <2>3, <3>2 DEF NamesSound, Live
    <3>3. QED
      BY <3>1, <3>2 DEF NamesSound, Live
  <2>5. SessionsSound' /\ MigrationSound' /\ ChosenKept
    BY <1>2, <2>3, LegacyAssumption DEF SessionsSound, MigrationSound, ChosenKept, TypeOK
  <2>6. session' \in [Sessions -> Tokens] /\ migration' \in MigrationTypes
    BY <1>2 DEF TypeOK, MigrationTypes
  <2>7. QED
    BY <1>2, <1>3, <2>1, <2>4, <2>5, <2>6, IdleSound, MovingInv
<1>7. QED
  BY <1>2, <1>5, <1>6

(* A step that changes at most the state, the flag or the password of a row: *)
(* the names stay as they are, unless an account is gone.                    *)
LEMMA SameNames ==
  ASSUME IInv,
         \A b \in Accounts : /\ account'[b].name = account[b].name
                             /\ account'[b].local = account[b].local
                             /\ account'[b].state = "live" => account[b].state = "live"
  PROVE  NamesSound'
BY DEF IInv, NamesSound, Live

LEMMA EnabledStep ==
  ASSUME IInv, NEW r \in Requests, set_enabled(r)
  PROVE  IInv' /\ ChosenKept
<1> USE DEF IInv
<1> DEFINE q == request[r]
           a == q.on
           set == q.wish.enabled # Keep /\ Live(a)
           next == [q EXCEPT !.phase = "enabled"]
<1>1. /\ q.op = "update" /\ q \in Calls /\ a \in Accounts /\ Filled(q)
  BY DEF set_enabled, CallsSound, CallSound, Filled, TypeOK
<1>2. /\ UNCHANGED <<migration, started>>
      /\ Proceed(r, Idle) \/ Proceed(r, next)
      /\ account' = IF set THEN [account EXCEPT ![a].enabled = q.wish.enabled] ELSE account
      /\ session' = IF set /\ q.wish.enabled = FALSE THEN Revoked(a) ELSE session
  BY DEF set_enabled
<1>3. next \in Calls /\ Filled(next)
  BY <1>1 DEF Calls, Filled
<1>4. set => q.wish.enabled \in BOOLEAN
  BY <1>1 DEF Calls
<1> HIDE DEF q, a, next
<1>5. /\ account' \in [Accounts -> Rows]
      /\ \A b \in Accounts :
           /\ account'[b].state = account[b].state /\ account'[b].name = account[b].name
           /\ account'[b].password = account[b].password /\ account'[b].local = account[b].local
           /\ b # a => account'[b] = account[b]
  BY <1>1, <1>2, <1>4 DEF TypeOK, Rows
<1>6. session' \in [Sessions -> Tokens]
  BY <1>2, RevokedType DEF TypeOK
<1>7. SessionsSound'
  <2> SUFFICES ASSUME NEW s \in Sessions, session'[s].state = "live"
               PROVE  /\ session'[s].of \in Accounts
                      /\ account'[session'[s].of].state = "live"
                      /\ ~account'[session'[s].of].enabled => session'[s].spared
    BY DEF SessionsSound
  <2>1. /\ session'[s] = session[s]
        /\ set /\ q.wish.enabled = FALSE => session[s].of # a
    BY <1>2, RevokedType
  <2>2. /\ session[s].of \in Accounts /\ account'[session[s].of].state = "live"
        /\ ~account[session[s].of].enabled => session[s].spared
    BY <1>5, <2>1 DEF SessionsSound
  <2>3. CASE session[s].of # a \/ ~set
    <3>1. account'[session[s].of] = account[session[s].of]
      BY <1>2, <1>5, <2>2, <2>3
    <3>2. QED
      BY <2>1, <2>2, <3>1
  <2>4. CASE session[s].of = a /\ set
    <3>1. q.wish.enabled = TRUE
      BY <1>4, <2>1, <2>4
    <3>2. account'[a].enabled = TRUE
      BY <1>1, <1>2, <2>4, <3>1 DEF TypeOK, Rows
    <3>3. QED
      BY <2>1, <2>2, <2>4, <3>2
  <2>5. QED
    BY <2>3, <2>4
<1>8. NamesSound'
  BY <1>5, SameNames
<1>9. MigrationSound' /\ ChosenKept
  BY <1>2, <1>5, LegacyAssumption DEF MigrationSound, ChosenKept, TypeOK
<1>10. migration' \in MigrationTypes
  BY <1>2 DEF TypeOK, MigrationTypes
<1>11. QED
  BY <1>2, <1>3, <1>5, <1>6, <1>7, <1>8, <1>9, <1>10, IdleSound, MovingInv

LEMMA PasswordStep ==
  ASSUME IInv, NEW r \in Requests, update_password(r)
  PROVE  IInv' /\ ChosenKept
<1> USE DEF IInv
<1> DEFINE q == request[r]
           a == q.on
           set == q.wish.password /\ Live(a)
<1>1. a \in Accounts
  BY DEF update_password, CallsSound, CallSound, Filled
<1>2. /\ UNCHANGED <<session, started>> /\ Proceed(r, Idle)
      /\ account' = IF set THEN [account EXCEPT ![a].password = "chosen"] ELSE account
      /\ migration' = IF set /\ a \in migration.todo \cup {migration.of}
                      THEN [migration EXCEPT !.raced = @ \cup {a}] ELSE migration
  BY DEF update_password
<1> HIDE DEF q, a
<1>3. /\ account' \in [Accounts -> Rows]
      /\ \A b \in Accounts :
           /\ account'[b].state = account[b].state /\ account'[b].name = account[b].name
           /\ account'[b].enabled = account[b].enabled /\ account'[b].local = account[b].local
           /\ account'[b].password = IF set /\ b = a THEN "chosen" ELSE account[b].password
  BY <1>1, <1>2 DEF TypeOK, Rows
<1>4. /\ migration' \in MigrationTypes
      /\ migration'.of = migration.of /\ migration'.phase = migration.phase
      /\ migration'.todo = migration.todo /\ migration'.argon = migration.argon
      /\ migration'.found = migration.found
      /\ migration.raced \subseteq migration'.raced
      /\ set /\ a \in migration.todo \cup {migration.of} => a \in migration'.raced
  BY <1>1, <1>2 DEF TypeOK, MigrationTypes
<1>5. SessionsSound' /\ session' \in [Sessions -> Tokens]
  BY <1>2, <1>3 DEF SessionsSound, TypeOK
<1>6. NamesSound' /\ ChosenKept
  BY <1>3, SameNames DEF ChosenKept
<1> HIDE DEF set
<1>7. MigrationSound'
  <2>1. migration.of # NoAccount => migration.of \in Accounts
    BY LegacyAssumption DEF MigrationSound
  <2>2. \A b \in migration.todo : b \in Accounts
    BY DEF TypeOK
  <2>3. QED
    BY <1>3, <1>4, <2>1, <2>2 DEF MigrationSound
<1>8. QED
  BY <1>2, <1>3, <1>4, <1>5, <1>6, <1>7, IdleSound, MovingInv

LEMMA DeleteStep ==
  ASSUME IInv, NEW r \in Requests, delete_user(r)
  PROVE  IInv' /\ ChosenKept
<1> USE DEF IInv
<1> DEFINE a == request[r].on
<1>1. a \in Accounts
  BY DEF delete_user, CallsSound, CallSound, Filled
<1>2. /\ UNCHANGED <<migration, started>>
      /\ account' = IF Live(a) THEN [account EXCEPT ![a].state = "deleted"] ELSE account
      /\ session' = IF Live(a) THEN Revoked(a) ELSE session
  BY DEF delete_user
<1>3. request' \in [Requests -> Calls] /\ \A x \in Requests :
        \/ request'[x] = Idle \/ request'[x] = request[x]
        \/ request[x].op = "login" /\ request'[x] = [request[x] EXCEPT !.on = NoAccount]
  <2> DEFINE lost(x) == x.op = "login" /\ x.on = a
             next(x) == IF x = r THEN Idle
                        ELSE IF lost(request[x]) THEN [request[x] EXCEPT !.on = NoAccount]
                        ELSE request[x]
  <2>1. request' = [x \in Requests |-> next(x)]
    BY DEF delete_user
  <2>2. ASSUME NEW x \in Requests
        PROVE  /\ next(x) \in Calls
               /\ \/ next(x) = Idle \/ next(x) = request[x]
                  \/ /\ request[x].op = "login"
                     /\ next(x) = [request[x] EXCEPT !.on = NoAccount]
    <3>1. request[x] \in Calls /\ [request[x] EXCEPT !.on = NoAccount] \in Calls
      BY DEF TypeOK, Calls
    <3>2. QED
      BY <3>1, IdleSound
  <2> HIDE DEF next
  <2>3. QED
    BY <2>1, <2>2
<1> HIDE DEF a
<1>4. /\ account' \in [Accounts -> Rows]
      /\ \A b \in Accounts :
           /\ account'[b].name = account[b].name /\ account'[b].enabled = account[b].enabled
           /\ account'[b].password = account[b].password /\ account'[b].local = account[b].local
           /\ account'[b].state = account[b].state \/ account'[b].state = "deleted"
           /\ b # a \/ ~Live(a) => account'[b].state = account[b].state
  BY <1>1, <1>2 DEF TypeOK, Rows
<1>5. /\ session' \in [Sessions -> Tokens]
      /\ \A s \in Sessions : session'[s].state = "live" =>
           session'[s] = session[s] /\ (Live(a) => session[s].of # a)
  BY <1>2, RevokedType DEF TypeOK
<1>6. SessionsSound'
  BY <1>4, <1>5 DEF SessionsSound
<1>7. CallsSound'
  <2> SUFFICES ASSUME NEW x \in Requests PROVE CallSound(request[x])'
    BY DEF CallsSound
  <2>1. CASE request'[x] = Idle
    BY <2>1, IdleSound DEF CallSound, Filled
  <2>2. CASE request'[x] = request[x]
    BY <1>4, <2>2 DEF CallsSound, CallSound, Filled
  <2>3. CASE /\ request[x].op = "login"
             /\ request'[x] = [request[x] EXCEPT !.on = NoAccount]
    <3>1. request'[x].op = "login" /\ request'[x].on = NoAccount
      BY <2>3 DEF TypeOK, Calls
    <3>2. QED
      BY <3>1, NullAssumption DEF CallSound, Filled
  <2>4. QED
    BY <1>3, <2>1, <2>2, <2>3
<1>8. NamesSound' /\ ChosenKept
  BY <1>4, SameNames DEF ChosenKept
<1>9. MigrationSound' /\ TypeOK'
  <2>1. MigrationSound'
    BY <1>2, <1>4, LegacyAssumption DEF MigrationSound, TypeOK
  <2>2. TypeOK'
    BY <1>2, <1>3, <1>4, <1>5 DEF TypeOK
  <2>3. QED
    BY <2>1, <2>2
<1>10. QED
  BY <1>6, <1>7, <1>8, <1>9

LEMMA RotateStep ==
  ASSUME IInv, NEW a \in Accounts, RotateWritten(a)
  PROVE  IInv' /\ ChosenKept
<1> USE DEF IInv
<1>1. /\ migration.phase = "rotate" /\ a \in migration.todo
      /\ account' = IF Live(a) THEN [account EXCEPT ![a].password = "temporary"] ELSE account
      /\ session' = IF Live(a) THEN Revoked(a) ELSE session
      /\ migration' = [migration EXCEPT !.todo = @ \ {a}]
      /\ UNCHANGED started /\ OthersProceed
  BY DEF RotateWritten
<1>2. /\ account' \in [Accounts -> Rows]
      /\ \A b \in Accounts :
           /\ account'[b].name = account[b].name /\ account'[b].enabled = account[b].enabled
           /\ account'[b].state = account[b].state /\ account'[b].local = account[b].local
           /\ b # a => account'[b].password = account[b].password
  BY <1>1 DEF TypeOK, Rows
<1>3. /\ session' \in [Sessions -> Tokens]
      /\ \A s \in Sessions : session'[s].state = "live" => session'[s] = session[s]
  BY <1>1, RevokedType DEF TypeOK
<1>4. /\ migration' \in MigrationTypes
      /\ migration'.todo = migration.todo \ {a} /\ migration'.of = migration.of
      /\ migration'.raced = migration.raced /\ migration'.phase = "rotate"
      /\ migration.of = NoAccount
  BY <1>1 DEF TypeOK, MigrationTypes, MigrationSound
<1>5. SessionsSound' /\ NamesSound'
  BY <1>2, <1>3, SameNames DEF SessionsSound
<1>6. ChosenKept
  BY <1>1, <1>2 DEF ChosenKept, MigrationSound
<1>7. MigrationSound'
  BY <1>2, <1>4 DEF MigrationSound, TypeOK
<1>8. QED
  BY <1>1, <1>2, <1>3, <1>4, <1>5, <1>6, <1>7, MovingInv

LEMMA ImportStep ==
  ASSUME IInv, NEW n \in Names, NEW on \in BOOLEAN, ImportWritten(n, on)
  PROVE  IInv' /\ ChosenKept
<1> USE DEF IInv
<1> DEFINE a == migration.of
           gone == migration.found /\ ~Live(a)
           fails == ~gone /\ (NameTaken(n, a) \/ (Live(a) /\ ~migration.found))
           old == IF migration.found THEN account[a] ELSE NewRow(n, "developer")
           gives == IF migration.argon THEN account[a].password ELSE "temporary"
           row == [old EXCEPT !.name = n, !.enabled = on, !.password = gives]
           spare == [s \in Sessions |-> [session[s] EXCEPT
                       !.spared = @ \/ (session[s].of = a /\ ~on)]]
<1>1. /\ migration.phase = "import" /\ a # NoAccount
      /\ account' = IF gone \/ fails THEN account ELSE [account EXCEPT ![a] = row]
      /\ session' = IF gone \/ fails THEN session
                    ELSE IF ~migration.argon THEN Revoked(a) ELSE spare
      /\ migration' = [migration EXCEPT !.phase = IF fails THEN "done" ELSE @,
                                        !.of = NoAccount, !.raced = @ \ {a}]
      /\ UNCHANGED started /\ OthersProceed
  BY DEF ImportWritten
<1>2. /\ a \in Legacy /\ a \in Accounts /\ account[a] \in Rows
      /\ migration.argon \in BOOLEAN /\ migration.found \in BOOLEAN
      /\ migration.argon => migration.found
  BY <1>1, LegacyAssumption DEF MigrationSound, TypeOK
<1>3. /\ row \in Rows /\ row.name = n /\ row.password = gives /\ row.enabled = on
      /\ ~gone => row.state = "live"
  <2>1. old \in Rows /\ (~gone => old.state = "live")
    BY <1>2 DEF NewRow, Rows, Roles, Live
  <2>2. gives \in {"legacy", "temporary", "chosen"}
    BY <1>2 DEF Rows
  <2> HIDE DEF old, gives, gone
  <2>3. QED
    BY <2>1, <2>2 DEF Rows
<1>4. /\ spare \in [Sessions -> Tokens]
      /\ \A s \in Sessions : /\ spare[s].state = session[s].state /\ spare[s].of = session[s].of
                             /\ spare[s].spared <=> session[s].spared
                                                    \/ (session[s].of = a /\ ~on)
  <2> SUFFICES ASSUME NEW s \in Sessions
               PROVE  /\ spare[s] \in Tokens
                      /\ spare[s].state = session[s].state /\ spare[s].of = session[s].of
                      /\ spare[s].spared <=> session[s].spared \/ (session[s].of = a /\ ~on)
    OBVIOUS
  <2> DEFINE b == session[s].spared \/ (session[s].of = a /\ ~on)
  <2>1. session[s] \in Tokens /\ b \in BOOLEAN
    BY DEF TypeOK
  <2>2. spare[s] = [session[s] EXCEPT !.spared = b]
    BY <2>1 DEF Tokens
  <2> HIDE DEF b, spare
  <2>3. spare[s] \in Tokens /\ spare[s].spared = b
        /\ spare[s].state = session[s].state /\ spare[s].of = session[s].of
    BY <2>1, <2>2 DEF Tokens
  <2>4. QED
    BY <2>3 DEF b
<1>5. /\ migration' \in MigrationTypes /\ migration'.of = NoAccount
      /\ migration'.phase # "rotate" /\ migration'.todo = migration.todo
      /\ migration.todo = {}
  BY <1>1 DEF TypeOK, MigrationTypes, MigrationSound
<1>6. MigrationSound'
  BY <1>5 DEF MigrationSound
<1>7. CASE gone \/ fails
  <2>1. UNCHANGED <<account, session>>
    BY <1>1, <1>7
  <2>2. SessionsSound' /\ NamesSound' /\ ChosenKept
    BY <2>1 DEF SessionsSound, NamesSound, Live, ChosenKept
  <2>3. account' \in [Accounts -> Rows] /\ session' \in [Sessions -> Tokens]
    BY <2>1 DEF TypeOK
  <2>4. QED
    BY <1>1, <1>5, <1>6, <2>2, <2>3, MovingInv
<1>8. CASE ~gone /\ ~fails
  <2>1. /\ account' = [account EXCEPT ![a] = row]
        /\ session' = IF ~migration.argon THEN Revoked(a) ELSE spare
        /\ ~NameTaken(n, a) /\ row.state = "live"
        /\ account[a].state = "live" => migration.found
        /\ migration.argon => account[a].state = "live"
    BY <1>1, <1>2, <1>3, <1>8 DEF Live
  <2>2. ChosenKept
    <3> SUFFICES ASSUME NEW b \in Accounts, account[b].state = "live",
                        account[b].password = "chosen"
                 PROVE  account'[b].password = "chosen" \/ b \in migration.raced
      BY DEF ChosenKept
    <3>1. CASE b # a
      BY <2>1, <3>1 DEF TypeOK
    <3>2. CASE b = a /\ migration.argon
      <4>1. account'[a] = row /\ gives = "chosen"
        BY <1>2, <2>1, <3>2 DEF TypeOK
      <4>2. QED
        BY <1>3, <3>2, <4>1
    <3>3. CASE b = a /\ ~migration.argon
      BY <1>1, <2>1, <3>3 DEF MigrationSound
    <3>4. QED
      BY <3>1, <3>2, <3>3
  <2> HIDE DEF a, gone, old, gives, fails, row, spare
  <2>3. /\ account' \in [Accounts -> Rows]
        /\ \A b \in Accounts : account'[b] = IF b = a THEN row ELSE account[b]
    BY <1>3, <2>1 DEF TypeOK
  <2>4. \A b \in Accounts \ {a} : account[b].state = "live" => account[b].name # n
    BY <2>1 DEF NameTaken, Live
  <2>5. NamesSound'
    <3>1. ASSUME NEW b \in Accounts, NEW c \in Accounts, b # c,
                 account'[b].state = "live", account'[c].state = "live"
          PROVE  account'[b].name # account'[c].name
      <4>1. CASE b = a \/ c = a
        BY <1>3, <2>3, <2>4, <3>1, <4>1
      <4>2. CASE b # a /\ c # a
        BY <2>3, <3>1, <4>2 DEF NamesSound, Live
      <4>3. QED
        BY <4>1, <4>2
    <3>2. ASSUME NEW b \in Accounts, account'[b].state = "live", account'[b].name \notin Normal
          PROVE  b \in Legacy \/ account'[b].local
      BY <1>2, <2>3, <3>2 DEF NamesSound, Live
    <3>3. QED
      BY <3>1, <3>2 DEF NamesSound, Live
  <2>6. session' \in [Sessions -> Tokens]
    BY <1>4, <2>1, RevokedType
  <2>7. SessionsSound'
    <3> SUFFICES ASSUME NEW s \in Sessions, session'[s].state = "live"
                 PROVE  /\ session'[s].of \in Accounts
                        /\ account'[session'[s].of].state = "live"
                        /\ ~account'[session'[s].of].enabled => session'[s].spared
      BY DEF SessionsSound
    <3>1. CASE ~migration.argon
      <4>1. session'[s] = session[s] /\ session[s].of # a
        BY <2>1, <3>1, RevokedType
      <4>2. QED
        BY <2>3, <4>1 DEF SessionsSound
    <3>2. CASE migration.argon
      <4>1. /\ session'[s].state = session[s].state /\ session'[s].of = session[s].of
            /\ session'[s].spared <=> session[s].spared \/ (session[s].of = a /\ ~on)
        BY <1>4, <2>1, <3>2
      <4>2. /\ session[s].of \in Accounts
            /\ account[session[s].of].state = "live"
            /\ ~account[session[s].of].enabled => session[s].spared
        BY <4>1 DEF SessionsSound
      <4>3. QED
        BY <1>3, <2>1, <2>3, <4>1, <4>2
    <3>3. QED
      BY <1>2, <3>1, <3>2
  <2>8. QED
    BY <1>1, <1>5, <1>6, <2>2, <2>3, <2>5, <2>6, <2>7, MovingInv
<1>9. QED
  BY <1>7, <1>8

LEMMA InvStutter == IInv /\ UNCHANGED vars => IInv' /\ ChosenKept
<1> SUFFICES ASSUME IInv, UNCHANGED vars PROVE IInv' /\ ChosenKept
  OBVIOUS
<1> USE DEF IInv, vars
<1>1. TypeOK' /\ ChosenKept
  BY DEF TypeOK, ChosenKept
<1>2. SessionsSound' /\ NamesSound' /\ MigrationSound'
  BY DEF SessionsSound, NamesSound, MigrationSound, Live
<1>3. CallsSound'
  BY DEF CallsSound, CallSound, Filled, Live
<1>4. QED
  BY <1>1, <1>2, <1>3

LEMMA InvNext == IInv /\ [Next]_vars => IInv' /\ ChosenKept
<1> SUFFICES ASSUME IInv, [Next]_vars PROVE IInv' /\ ChosenKept
  OBVIOUS
<1>1. ASSUME NEW r \in Requests,
             \/ \E n \in Normal : Register(r, n)
             \/ \E s \in Sessions, n \in Normal, role \in Roles : CreateUser(r, s, n, role)
             \/ \E a \in Accounts : Login(r, a)
             \/ \E s \in Sessions, a \in Accounts, wish \in Wishes : UpdateUser(r, s, a, wish)
             \/ \E s \in Sessions, a \in Accounts : DeleteUser(r, s, a)
      PROVE  IInv' /\ ChosenKept
  BY <1>1, BeginSteps
<1>2. ASSUME NEW r \in Requests,
             CreateChecked(r) \/ InsertConflict(r) \/ ProfileChecked(r)
      PROVE  IInv' /\ ChosenKept
  BY <1>2, CheckSteps
<1>3. ASSUME NEW r \in Requests,
             \/ \E a \in Accounts, s \in Sessions : InsertUser(r, a, s)
             \/ \E s \in Sessions : CreateSession(r, s)
      PROVE  IInv' /\ ChosenKept
  BY <1>3, NewAccountSteps, SessionSteps
<1>4. ASSUME NEW r \in Requests,
             update_user_profile(r) \/ set_enabled(r) \/ update_password(r) \/ delete_user(r)
      PROVE  IInv' /\ ChosenKept
  BY <1>4, ProfileStep, EnabledStep, PasswordStep, DeleteStep
<1>5. ASSUME NEW r \in Requests,
             \/ \E n \in Normal : Register(r, n)
             \/ \E s \in Sessions, n \in Normal, role \in Roles : CreateUser(r, s, n, role)
             \/ CreateChecked(r)
             \/ \E a \in Accounts, s \in Sessions : InsertUser(r, a, s)
             \/ InsertConflict(r)
             \/ \E a \in Accounts : Login(r, a)
             \/ \E s \in Sessions : CreateSession(r, s)
             \/ \E s \in Sessions, a \in Accounts, wish \in Wishes : UpdateUser(r, s, a, wish)
             \/ ProfileChecked(r)
             \/ update_user_profile(r)
             \/ set_enabled(r)
             \/ update_password(r)
             \/ \E s \in Sessions, a \in Accounts : DeleteUser(r, s, a)
             \/ delete_user(r)
      PROVE  IInv' /\ ChosenKept
  BY <1>1, <1>2, <1>3, <1>4, <1>5
<1>6. ASSUME NEW a \in Accounts, seed_bootstrap_admin(a) \/ ImportRead(a) \/ RotateWritten(a)
      PROVE  IInv' /\ ChosenKept
  BY <1>6, NewAccountSteps, ReadSteps, RotateStep
<1>7. CASE (\E s \in Sessions : Logout(s)) \/ RotateRead
           \/ \E n \in Names, on \in BOOLEAN : ImportWritten(n, on)
  BY <1>7, SessionSteps, ReadSteps, ImportStep
<1>8. CASE Next
  BY <1>5, <1>6, <1>7, <1>8 DEF Next
<1>9. QED
  BY <1>8, InvStutter

LEMMA Invariant == Spec => []IInv
BY InvInit, InvNext, PTL DEF Spec

-----------------------------------------------------------------------------
(* Type correctness (users, password_credentials and sessions keep their     *)
(* columns' types through the statements of dev_auth.rs and migration.rs).   *)
THEOREM TypeCorrect == Spec => []TypeOK
BY Invariant, PTL DEF IInv

(* Disabling an account ends its sessions for good, however many requests    *)
(* overlap it, the stated two apart (set_enabled, dev_auth.rs:360).          *)
THEOREM DisabledLockedOutAlways == Spec => []DisabledLockedOut
<1>1. IInv => DisabledLockedOut
  BY DEF IInv, SessionsSound, DisabledLockedOut
<1>2. QED
  BY <1>1, Invariant, PTL

(* Every session that is good is of an account that is there, whatever       *)
(* overlaps the deletion of the account (create_session_tx, dev_auth.rs:466).*)
THEOREM SessionsOwnedAlways == Spec => []SessionsOwned
<1>1. IInv => SessionsOwned
  BY DEF IInv, SessionsSound, SessionsOwned, Live
<1>2. QED
  BY <1>1, Invariant, PTL

(* Names that lower(username) takes as one are told apart by case, and one   *)
(* of them was written as it was found; the names that requests write race   *)
(* with neither each other nor those (users.username, 0001_initial.sql:9).   *)
THEOREM NamesUniqueAlways == Spec => []NamesUnique
<1>1. IInv => NamesUnique
  <2> SUFFICES ASSUME NamesSound, NEW a \in Accounts, NEW b \in Accounts, a # b,
                      Live(a), Live(b), Lower[account[a].name] = Lower[account[b].name],
                      account[a].name \in Names, account[b].name \in Names
               PROVE  /\ account[a].name # account[b].name
                      /\ \E c \in {a, b} : /\ account[c].name \notin Normal
                                            /\ (c \in Legacy \/ account[c].local)
    BY DEF IInv, NamesUnique, TypeOK, Rows
  <2>1. account[a].name # account[b].name
    BY DEF NamesSound
  <2>2. account[a].name \notin Normal \/ account[b].name \notin Normal
    BY <2>1 DEF Normal
  <2>3. QED
    BY <2>1, <2>2 DEF NamesSound
<1>2. QED
  BY <1>1, Invariant, PTL

(* The migration replaces no password a person chose before it read the      *)
(* credential (migration.rs:383).                                            *)
THEOREM PasswordKeptAlways == Spec => PasswordKept
<1>1. IInv /\ [Next]_vars => ChosenKept
  BY InvNext
<1>2. QED
  BY <1>1, Invariant, PTL DEF Spec, PasswordKept, ChosenKept
==============================================================================
