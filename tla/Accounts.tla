------------------------------ MODULE Accounts -------------------------------
(***************************************************************************)
(* Accounts, their credentials and sessions, and the requests that read one  *)
(* statement and write with another.                                         *)
(* Code: services/api/src/dev_auth.rs; the handlers of                       *)
(* services/api/src/handlers/developer.rs and admin.rs that call it;         *)
(* seed_bootstrap_admin of services/api/src/db.rs; the credential part of    *)
(* services/api/src/migration.rs, a command that may run beside the services.*)
(*                                                                         *)
(* Every statement, or transaction, is an action: between the check of a     *)
(* request and its write any other request can commit.  A request that is    *)
(* refused by its first check changes nothing and is left out.               *)
(***************************************************************************)
EXTENDS Naturals

CONSTANTS
  Accounts,    \* rows of users, by id; the id of a deleted row is not reused
  NoAccount,   \* no account
  Legacy,      \* those the legacy auth file names
  Names,       \* user names, as users.username has them
  Lower,       \* lower(name), by which a name is looked up
  LocalName,   \* local_admin_username of the configuration
  Sessions,    \* session tokens
  Requests,    \* HTTP requests under way
  Wishes,      \* bodies of update_user, each field a value or Keep
  Keep,        \* a field the body leaves out
  MaxRequests  \* bound: requests that write

ASSUME NamesAssumption ==
  /\ LocalName \in Names /\ Keep \notin Names
  /\ Lower \in [Names -> Names] /\ \A n \in Names : Lower[Lower[n]] = Lower[n]
ASSUME NullAssumption == NoAccount \notin Accounts
ASSUME LegacyAssumption == Legacy \subseteq Accounts

(* normalize_username: the names that requests may give an account.  The     *)
(* import and the bootstrap write theirs as they find them.                  *)
Normal == {n \in Names : Lower[n] = n}

Roles == {"admin", "developer"}

ASSUME WishesAssumption ==
  Wishes \subseteq [name : Normal \cup {Keep}, role : Roles \cup {Keep},
                    enabled : BOOLEAN \cup {Keep}, password : BOOLEAN]
ASSUME BoundAssumption == MaxRequests \in Nat

VARIABLES
  account,    \* users with password_credentials
  session,    \* sessions
  request,    \* what each request has read and has yet to write
  migration,  \* the import and the rotation of credentials
  started     \* number of requests that passed their first check

vars == <<account, session, request, migration, started>>

(* A credential is "legacy" until the migration replaces it by a generated,  *)
(* "temporary", password; "chosen" is one a person set.  local is the        *)
(* external id of the configured administrator.                              *)
NoRow == [state |-> "unused", name |-> LocalName, role |-> "developer",
          enabled |-> FALSE, password |-> "legacy", local |-> FALSE]
NewRow(n, role) ==
  [state |-> "live", name |-> n, role |-> role, enabled |-> TRUE,
   password |-> "chosen", local |-> FALSE]
Rows == [state : {"unused", "live", "deleted"}, name : Names, role : Roles,
         enabled : BOOLEAN, password : {"legacy", "temporary", "chosen"},
         local : BOOLEAN]

(* spared: the session may outlive the disabling of its account, since its   *)
(* login overlapped it or the import did it.                                 *)
NoToken == [state |-> "none", of |-> NoAccount, spared |-> FALSE]
Tokens == [state : {"none", "live", "revoked"}, of : Accounts \cup {NoAccount},
           spared : BOOLEAN]

(* on is the account a request is about, wish what it asks; crossed: on was  *)
(* disabled since a login checked it.  A login keeps the row's own id, which *)
(* no row has once the account was deleted.                                  *)
NoWish == [name |-> Keep, role |-> Keep, enabled |-> Keep, password |-> FALSE]
Idle == [op |-> "none", phase |-> "start", on |-> NoAccount, wish |-> NoWish,
         crossed |-> FALSE]
Calls == [op : {"none", "register", "login", "create", "update", "delete"},
          phase : {"start", "checked", "profile", "enabled", "password"},
          on : Accounts \cup {NoAccount},
          wish : [name : Normal \cup {Keep}, role : Roles \cup {Keep},
                  enabled : BOOLEAN \cup {Keep}, password : BOOLEAN],
          crossed : BOOLEAN]

(* left: the accounts of the file still to import; of: the one whose row was *)
(* read, found: there was one, argon: with a credential of the current       *)
(* scheme.  todo: those rotate_non_argon_credentials has read and not        *)
(* written; raced: those given a password since they were read.              *)
TypeOK ==
  /\ account \in [Accounts -> Rows]
  /\ session \in [Sessions -> Tokens]
  /\ request \in [Requests -> Calls]
  /\ migration \in [phase : {"import", "rotate", "done"}, left : SUBSET Legacy,
                    of : Accounts \cup {NoAccount}, found : BOOLEAN, argon : BOOLEAN,
                    todo : SUBSET Accounts, raced : SUBSET Accounts]
  /\ started \in 0..MaxRequests

Live(a) == a \in Accounts /\ account[a].state = "live"

(* users.username is unique, case and all; the lookups are not so exact.     *)
NameTaken(n, but) == \E a \in Accounts \ {but} : Live(a) /\ account[a].name = n
NameKnown(n, but) ==
  \E a \in Accounts \ {but} : Live(a) /\ Lower[account[a].name] = n

(* authorize_admin: the token is not revoked, its account is enabled and an  *)
(* administrator's.                                                          *)
authorize_admin(s) ==
  /\ s \in Sessions /\ session[s].state = "live"
  /\ Live(session[s].of) /\ account[session[s].of].enabled
  /\ account[session[s].of].role = "admin"

(* The requests after a step that gives r the record q: the logins to an     *)
(* account that is disabled now are crossed.                                 *)
Overtaken(q) ==
  [q EXCEPT !.crossed = @ \/ (q.op = "login" /\ q.on \in Accounts
                                             /\ ~account'[q.on].enabled)]
Proceed(r, q) ==
  request' = [x \in Requests |-> Overtaken(IF x = r THEN q ELSE request[x])]
OthersProceed == request' = [x \in Requests |-> Overtaken(request[x])]

Begin(r, q) ==
  /\ request[r] = Idle /\ started < MaxRequests
  /\ started' = started + 1
  /\ request' = [request EXCEPT ![r] = q]
  /\ UNCHANGED <<account, session, migration>>

(* The configured administrator, with a session; of the legacy accounts some *)
(* are there from an earlier import, with the credential of then or a new one.*)
Init ==
  /\ \E a \in Accounts \ Legacy, s \in Sessions, n \in Names \ {LocalName},
        old \in [Legacy -> {"unused", "legacy", "chosen"}] :
       /\ account = [b \in Accounts |->
            IF b = a THEN [NewRow(LocalName, "admin") EXCEPT !.local = TRUE]
            ELSE IF b \notin Legacy \/ old[b] = "unused" THEN NoRow
            ELSE [NewRow(n, "developer") EXCEPT !.password = old[b]]]
       /\ \A b, c \in Legacy : old[b] # "unused" /\ old[c] # "unused" => b = c
       /\ session = [t \in Sessions |->
            IF t = s THEN [state |-> "live", of |-> a, spared |-> FALSE] ELSE NoToken]
  /\ request = [r \in Requests |-> Idle]
  /\ migration = [phase |-> "import", left |-> Legacy, of |-> NoAccount,
                  found |-> FALSE, argon |-> FALSE, todo |-> {}, raced |-> {}]
  /\ started = 0

-----------------------------------------------------------------------------
(* Registration, login and logout.                                           *)

(* register: the name is free. *)
Register(r, n) ==
  /\ ~NameKnown(n, NoAccount)
  /\ Begin(r, [Idle EXCEPT !.op = "register", !.phase = "checked", !.wish.name = n,
                           !.wish.role = "developer"])

(* create_user by an administrator: the same check under another right.      *)
CreateUser(r, s, n, role) ==
  /\ authorize_admin(s)
  /\ Begin(r, [Idle EXCEPT !.op = "create", !.wish.name = n, !.wish.role = role])

CreateChecked(r) ==
  /\ request[r].op = "create" /\ request[r].phase = "start"
  /\ request' = [request EXCEPT ![r] =
       IF NameKnown(@.wish.name, NoAccount) THEN Idle ELSE [@ EXCEPT !.phase = "checked"]]
  /\ UNCHANGED <<account, session, migration, started>>

(* The transaction of both: the row of the account, its credential, and the  *)
(* session of a registration.                                                *)
InsertUser(r, a, s) ==
  LET q == request[r] IN
  /\ q.op \in {"register", "create"} /\ q.phase = "checked"
  /\ a \notin Legacy /\ account[a].state = "unused" /\ session[s].state = "none"
  /\ ~NameTaken(q.wish.name, NoAccount)
  /\ account' = [account EXCEPT ![a] = NewRow(q.wish.name, q.wish.role)]
  /\ session' = IF q.op = "create" THEN session
                ELSE [session EXCEPT ![s] = [state |-> "live", of |-> a, spared |-> FALSE]]
  /\ Proceed(r, Idle)
  /\ UNCHANGED <<migration, started>>

InsertConflict(r) ==
  /\ request[r].op \in {"register", "create"} /\ request[r].phase = "checked"
  /\ NameTaken(request[r].wish.name, NoAccount)
  /\ request' = [request EXCEPT ![r] = Idle]
  /\ UNCHANGED <<account, session, migration, started>>

(* login: the account is enabled and its password, of the current scheme, is *)
(* right.  Of two accounts that the name finds it takes either.              *)
Login(r, a) ==
  /\ Live(a) /\ account[a].enabled /\ account[a].password # "legacy"
  /\ Begin(r, [Idle EXCEPT !.op = "login", !.phase = "checked", !.on = a])

(* Mutant: nothing looks at the account again.                               *)
CreateSession_Mutation(r, s) ==
  LET q == request[r] IN
  /\ q.op = "login" /\ session[s].state = "none"
  /\ session' = [session EXCEPT ![s] = [state |-> "live", of |-> q.on,
                                       spared |-> q.crossed]]
  /\ UNCHANGED <<account, migration, started>>
  /\ Proceed(r, Idle)

(* create_session_tx: only the foreign key looks at the account again.       *)
CreateSession(r, s) ==
  LET q == request[r] IN
  /\ q.op = "login" /\ session[s].state = "none"
  /\ session' = IF Live(q.on)
                THEN [session EXCEPT ![s] = [state |-> "live", of |-> q.on,
                                             spared |-> q.crossed]]
                ELSE session
  /\ UNCHANGED <<account, migration, started>>
  /\ Proceed(r, Idle)

(* logout. *)
Logout(s) ==
  /\ session[s].state = "live"
  /\ session' = [session EXCEPT ![s].state = "revoked"]
  /\ UNCHANGED <<account, migration, started>>
  /\ OthersProceed

-----------------------------------------------------------------------------
(* Administration: a request is authorised once, then writes in several      *)
(* transactions of which each may find the account gone.                     *)

UpdateUser(r, s, a, wish) ==
  /\ authorize_admin(s)
  /\ Begin(r, [Idle EXCEPT !.op = "update", !.on = a, !.wish = wish])

(* update_user_profile, the check of the name; skipped without one.          *)
ProfileChecked(r) ==
  LET q == request[r] IN
  /\ q.op = "update" /\ q.phase = "start"
  /\ request' = [request EXCEPT ![r] =
       IF q.wish.name # Keep /\ NameKnown(q.wish.name, q.on) THEN Idle
       ELSE [q EXCEPT !.phase = "checked"]]
  /\ UNCHANGED <<account, session, migration, started>>

(* Mutant: a field the body leaves out is written as null. *)
Or_Mutation(value, old) == value

(* coalesce. *)
Or(value, old) == IF value = Keep THEN old ELSE value

(* Mutant: the check of the name is trusted. *)
update_user_profile_Mutation(r) ==
  LET q == request[r]
      profile == q.wish.name # Keep \/ q.wish.role # Keep
  IN
  /\ q.op = "update" /\ q.phase = "checked"
  /\ account' = IF profile /\ Live(q.on)
                THEN [account EXCEPT ![q.on].name = Or(q.wish.name, @),
                                     ![q.on].role = Or(q.wish.role, @)]
                ELSE account
  /\ UNCHANGED <<session, migration, started>>
  /\ Proceed(r, IF profile /\ ~Live(q.on) THEN Idle ELSE [q EXCEPT !.phase = "profile"])

(* update_user_profile, its update: the name is unique, the account there.   *)
update_user_profile(r) ==
  LET q == request[r]
      profile == q.wish.name # Keep \/ q.wish.role # Keep
      fails == profile /\ (~Live(q.on) \/ NameTaken(Or(q.wish.name, account[q.on].name), q.on))
  IN
  /\ q.op = "update" /\ q.phase = "checked"
  /\ account' = IF profile /\ ~fails
                THEN [account EXCEPT ![q.on].name = Or(q.wish.name, @),
                                     ![q.on].role = Or(q.wish.role, @)]
                ELSE account
  /\ UNCHANGED <<session, migration, started>>
  /\ Proceed(r, IF fails THEN Idle ELSE [q EXCEPT !.phase = "profile"])

(* Mutant: an account is disabled and its sessions are left. *)
set_enabled_Mutation(r) ==
  LET q == request[r]
      set == q.wish.enabled # Keep /\ Live(q.on)
  IN
  /\ q.op = "update" /\ q.phase = "profile"
  /\ account' = IF set THEN [account EXCEPT ![q.on].enabled = q.wish.enabled] ELSE account
  /\ UNCHANGED <<session, migration, started>>
  /\ Proceed(r, IF q.wish.enabled = Keep \/ set THEN [q EXCEPT !.phase = "enabled"] ELSE Idle)

Revoked(a) ==
  [s \in Sessions |-> IF session[s].of = a /\ session[s].state = "live"
                      THEN [session[s] EXCEPT !.state = "revoked"] ELSE session[s]]

(* set_enabled, one transaction. *)
set_enabled(r) ==
  LET q == request[r]
      set == q.wish.enabled # Keep /\ Live(q.on)
  IN
  /\ q.op = "update" /\ q.phase = "profile"
  /\ account' = IF set THEN [account EXCEPT ![q.on].enabled = q.wish.enabled] ELSE account
  /\ session' = IF set /\ q.wish.enabled = FALSE THEN Revoked(q.on) ELSE session
  /\ UNCHANGED <<migration, started>>
  /\ Proceed(r, IF q.wish.enabled = Keep \/ set THEN [q EXCEPT !.phase = "enabled"] ELSE Idle)

(* update_password: the credential only, the sessions stay. *)
update_password(r) ==
  LET q == request[r]
      set == q.wish.password /\ Live(q.on)
  IN
  /\ q.op = "update" /\ q.phase = "enabled"
  /\ account' = IF set THEN [account EXCEPT ![q.on].password = "chosen"] ELSE account
  /\ migration' = IF set /\ q.on \in migration.todo \cup {migration.of}
                  THEN [migration EXCEPT !.raced = @ \cup {q.on}] ELSE migration
  /\ UNCHANGED <<session, started>>
  /\ Proceed(r, Idle)

DeleteUser(r, s, a) ==
  /\ authorize_admin(s)
  /\ Begin(r, [Idle EXCEPT !.op = "delete", !.on = a])

(* delete_user: the credential and the sessions go with the account, and a   *)
(* login that has read it holds an id of nothing.                            *)
delete_user(r) ==
  LET q == request[r]
      lost(x) == x.op = "login" /\ x.on = q.on
  IN
  /\ q.op = "delete"
  /\ account' = IF Live(q.on) THEN [account EXCEPT ![q.on].state = "deleted"] ELSE account
  /\ session' = IF Live(q.on) THEN Revoked(q.on) ELSE session
  /\ UNCHANGED <<migration, started>>
  /\ request' = [x \in Requests |->
       IF x = r THEN Idle
       ELSE IF lost(request[x]) THEN [request[x] EXCEPT !.on = NoAccount] ELSE request[x]]

-----------------------------------------------------------------------------
(* Start-up and migration.                                                   *)

(* seed_bootstrap_admin, at each run of the bootstrap: the name as it is     *)
(* configured; a user of the very same name makes it fail.                   *)
seed_bootstrap_admin(a) ==
  /\ ~\E b \in Accounts : Live(b) /\ account[b].local
  /\ a \notin Legacy /\ account[a].state = "unused" /\ ~NameTaken(LocalName, NoAccount)
  /\ account' = [account EXCEPT ![a] = [NewRow(LocalName, "admin") EXCEPT !.local = TRUE]]
  /\ UNCHANGED <<session, migration, started>>
  /\ OthersProceed

(* upsert_legacy_account: the row of a developer as it is when it is read.   *)
ImportRead(a) ==
  LET found == Live(a) /\ account[a].role = "developer" IN
  /\ a \in migration.left /\ migration.phase = "import" /\ migration.of = NoAccount
  /\ migration' = [migration EXCEPT !.of = a, !.left = @ \ {a}, !.found = found,
                     !.argon = found /\ account[a].password # "legacy"]
  /\ UNCHANGED <<account, session, request, started>>

(* The rest of the transaction, for the name and the flag of the file.  A    *)
(* row that was found is updated by its id, if it still is there; otherwise  *)
(* one is inserted, the account of an administrator or the name being in the *)
(* way.  An account with a credential of the current scheme keeps it, and    *)
(* its sessions.  A failure ends the command.                                *)
ImportWritten(n, on) ==
  LET a == migration.of
      gone == migration.found /\ ~Live(a)
      fails == ~gone /\ (NameTaken(n, a) \/ (Live(a) /\ ~migration.found))
      row == IF migration.found THEN account[a] ELSE NewRow(n, "developer")
      gives == IF migration.argon THEN account[a].password ELSE "temporary"
  IN
  /\ migration.phase = "import" /\ a # NoAccount
  /\ account' = IF gone \/ fails THEN account
                ELSE [account EXCEPT ![a] = [row EXCEPT !.name = n, !.enabled = on,
                                                        !.password = gives]]
  /\ session' = IF gone \/ fails THEN session
                ELSE IF ~migration.argon THEN Revoked(a)
                ELSE [s \in Sessions |-> [session[s] EXCEPT
                        !.spared = @ \/ (session[s].of = a /\ ~on)]]
  /\ migration' = [migration EXCEPT !.phase = IF fails THEN "done" ELSE @,
                                    !.of = NoAccount, !.raced = @ \ {a}]
  /\ UNCHANGED started
  /\ OthersProceed

(* Mutant: every credential is rotated. *)
RotateRead_Mutation ==
  /\ migration.phase = "import" /\ migration.of = NoAccount
  /\ migration' = [migration EXCEPT !.phase = "rotate", !.raced = {},
                     !.todo = {a \in Accounts : Live(a)}]
  /\ UNCHANGED <<account, session, request, started>>

(* rotate_non_argon_credentials reads the credentials of the old scheme.     *)
RotateRead ==
  /\ migration.phase = "import" /\ migration.of = NoAccount
  /\ migration' = [migration EXCEPT !.phase = "rotate", !.raced = {},
                     !.todo = {a \in Accounts : Live(a) /\ account[a].password = "legacy"}]
  /\ UNCHANGED <<account, session, request, started>>

(* Each is then replaced, whatever it is by now.                             *)
RotateWritten(a) ==
  /\ migration.phase = "rotate" /\ a \in migration.todo
  /\ account' = IF Live(a) THEN [account EXCEPT ![a].password = "temporary"] ELSE account
  /\ session' = IF Live(a) THEN Revoked(a) ELSE session
  /\ migration' = [migration EXCEPT !.todo = @ \ {a}]
  /\ UNCHANGED started
  /\ OthersProceed

-----------------------------------------------------------------------------
Next ==
  \/ \E r \in Requests :
       \/ \E n \in Normal : Register(r, n)
       \/ \E s \in Sessions, n \in Normal, role \in Roles : CreateUser(r, s, n, role)
       \/ CreateChecked(r)
       \/ \E a \in Accounts, s \in Sessions : InsertUser(r, a, s)
       \/ InsertConflict(r)
       \/ \E a \in Accounts : Login(r, a)
       \/ \E s \in Sessions : CreateSession(r, s)
       \/ \E s \in Sessions, a \in Accounts, wish \in Wishes : UpdateUser(r, s, a, wish)
       \/ ProfileChecked(r)
       \/ update_user_profile(r)
       \/ set_enabled(r)
       \/ update_password(r)
       \/ \E s \in Sessions, a \in Accounts : DeleteUser(r, s, a)
       \/ delete_user(r)
  \/ \E s \in Sessions : Logout(s)
  \/ \E a \in Accounts : \/ seed_bootstrap_admin(a)
                         \/ ImportRead(a)
                         \/ RotateWritten(a)
  \/ \E n \in Names, on \in BOOLEAN : ImportWritten(n, on)
  \/ RotateRead

Spec == Init /\ [][Next]_vars

-----------------------------------------------------------------------------
(* Properties.                                                               *)

(* A disabled account has no session left that enabling it again would       *)
(* revive, but for one whose login had been checked before the account was   *)
(* disabled and was recorded after it, and those an import left              *)
(* (set_enabled, dev_auth.rs:360; login, dev_auth.rs:141;                    *)
(* upsert_legacy_account, migration.rs:292).                                 *)
DisabledLockedOut ==
  \A s \in Sessions :
    session[s].state = "live" /\ ~account[session[s].of].enabled => session[s].spared

(* A session that is good belongs to an account that is there: a login that  *)
(* overlaps the deletion of its account gets none, not even when an import   *)
(* has brought the account back by then (create_session_tx, dev_auth.rs:466, *)
(* and the foreign key of sessions, 0001_initial.sql:26).                    *)
SessionsOwned ==
  \A s \in Sessions : session[s].state = "live" => Live(session[s].of)

(* No password a person chose is replaced by the migration, but for one set  *)
(* between the statement that found the old scheme and the one that replaces *)
(* it (migration.rs:383).                                                    *)
PasswordKept ==
  [][\A a \in Accounts :
       account[a].state = "live" /\ account[a].password = "chosen" =>
         account'[a].password = "chosen" \/ a \in migration.raced]_vars

(* A name finds one account, whichever of the statements that write one      *)
(* race, but for a name that was written as it was found: two live accounts  *)
(* that lower(username) takes as one are told apart by case, and one of them *)
(* has its name from the legacy file (migration.rs:293-311) or from the      *)
(* configuration (db.rs:93).  What keeps the others apart is the unique      *)
(* column, not the check before the write (dev_auth.rs:50, 243, 314).        *)
NamesUnique ==
  \A a, b \in Accounts :
    a # b /\ Live(a) /\ Live(b) /\ Lower[account[a].name] = Lower[account[b].name] =>
      /\ account[a].name # account[b].name
      /\ \E c \in {a, b} : /\ account[c].name \notin Normal
                            /\ (c \in Legacy \/ account[c].local)
==============================================================================
