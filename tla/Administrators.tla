---------------------------- MODULE Administrators ----------------------------
(***************************************************************************)
(* Administrators' accounts, permissions and sessions:                     *)
(* backend/app/services/administrator_login.py,                            *)
(* administrator_authentication.py, app/administrator_authorization.py.    *)
(*                                                                         *)
(* Login holds the account row from its first read to its commit.  Every   *)
(* other operation reads without locks; an object a transaction has loaded *)
(* keeps the values of the first read (the identity map of the session),   *)
(* an UPDATE sets the columns whose value changed and nothing else, and it *)
(* is sent before the next query (autoflush), which is what makes the      *)
(* sessions it revokes those of the row it locked.  Lengths, formats and   *)
(* the events that repeat the outcome are left out; a lock or a session    *)
(* runs out at any moment.                                                 *)
(***************************************************************************)
EXTENDS RequestThreads, FiniteSets

CONSTANTS
  Administrators, \* accounts there are or will be
  Permissions,    \* names of permissions, "administrator.manage" among them
  Sessions,       \* bound on sessions: JTIs handed out
  GrantIds,       \* bound on the keys of rows of administrator_permissions
  Passwords,      \* password verifiers
  MaxAttempts,    \* failures that lock an account
  NoAccount,      \* no row
  NoSession       \* no row, or a request from the command line

ASSUME AdministratorsAssumption ==
  /\ "administrator.manage" \in Permissions
  /\ MaxAttempts \in Nat \ {0}
  /\ NoSession \notin Sessions

\* A lock has run out ("elapsed") when its end is past.
AccountRows ==
  [status : {"active", "locked", "disabled"}, failed : 0 .. MaxAttempts,
   locked : {"no", "running", "elapsed"}, disabledAt : BOOLEAN, password : Passwords]

GrantRows == [permission : Permissions, id : GrantIds]

SessionRows ==
  [administrator : Administrators, password : Passwords,
   state : {"open", "revoked", "logged_out", "expired"}]

\* The marks of a missing row are not rows.
ASSUME AccountMarksAssumption == NoAccount \notin AccountRows /\ NoSession \notin SessionRows

VARIABLES
  account,  \* account[a]: administrators
  grants,   \* grants[a]: administrator_permissions
  sessions, \* sessions[s]: administrator_sessions
  seen,     \* seen[t]: what thread t has loaded
  written,  \* written[t]: the account row it has updated and not committed
  wrong     \* history: passwords refused since one was accepted or set, up to
            \* MaxAttempts + 1

administration == <<account, grants, sessions, seen, written, wrong>>

Manage == "administrator.manage"

NewAccount(password) ==
  [status |-> "active", failed |-> 0, locked |-> "no", disabledAt |-> FALSE,
   password |-> password]

NothingSeen ==
  [operator |-> NoAccount, session |-> NoSession, target |-> NoAccount,
   grants |-> {}, sessions |-> {}]

AdministratorsInit(accounts, granted, opened) ==
  /\ account = accounts
  /\ grants = granted
  /\ sessions = opened
  /\ seen = [t \in Threads |-> NothingSeen]
  /\ written = [t \in Threads |-> NoAccount]
  /\ wrong = [a \in Administrators |-> 0]

Target(t) == request[t].target
Has(a, permission) == \E g \in grants[a] : g.permission = permission
AccountRow(a) == <<"account", a>>
OpenSessions(a) ==
  {s \in Sessions : /\ sessions[s] # NoSession
                    /\ sessions[s].administrator = a
                    /\ sessions[s].state = "open"}

\* ck_administrators_lifecycle; the lock of an account must lie in the future
\* of updated_at, which every update sets.
LifecycleCheck(row) ==
  CASE row.status = "active" ->
         row.failed < MaxAttempts /\ row.locked = "no" /\ ~ row.disabledAt
    [] row.status = "locked" ->
         row.failed = MaxAttempts /\ row.locked = "running" /\ ~ row.disabledAt
    [] row.status = "disabled" -> row.locked = "no" /\ row.disabledAt

\* The transaction ends and what it had loaded is expired.
EndRequest(t) ==
  /\ Finish(t)
  /\ seen' = [seen EXCEPT ![t] = NothingSeen]
  /\ written' = [written EXCEPT ![t] = NoAccount]

Fail(t) == EndRequest(t) /\ UNCHANGED <<account, grants, sessions, wrong>>

\* Time: a lock runs out, a session expires.
LockRunsOut(a) ==
  /\ account[a] # NoAccount
  /\ account[a].locked = "running"
  /\ Free(NoThread, AccountRow(a))
  /\ account' = [account EXCEPT ![a].locked = "elapsed"]
  /\ UNCHANGED <<grants, sessions, seen, written, wrong>>

Expire(s) ==
  /\ sessions[s] # NoSession
  /\ sessions[s].state = "open"
  /\ sessions' = [sessions EXCEPT ![s].state = "expired"]
  /\ UNCHANGED <<account, grants, seen, written, wrong>>
-----------------------------------------------------------------------------
\* Mutant: the account is locked one failure late.
FailedLoginLate(row) ==
  LET failed == row.failed + 1 IN
  [row EXCEPT !.failed = failed,
              !.status = IF failed > MaxAttempts THEN "locked" ELSE "active",
              !.locked = IF failed > MaxAttempts THEN "running" ELSE "no"]

\* A wrong password: counted, and the fifth locks the account.
FailedLogin(row) ==
  LET failed == row.failed + 1 IN
  [row EXCEPT !.failed = failed,
              !.status = IF failed = MaxAttempts THEN "locked" ELSE "active",
              !.locked = IF failed = MaxAttempts THEN "running" ELSE "no"]

Refused(t, row) ==
  /\ account' = [account EXCEPT ![Target(t)] = row]
  /\ wrong' = [wrong EXCEPT ![Target(t)] =
                 IF request[t].password = row.password \/ @ > MaxAttempts THEN @ ELSE @ + 1]
  /\ EndRequest(t)
  /\ UNCHANGED <<grants, sessions>>

LoggedIn(t, row) ==
  \E s \in Sessions :
    /\ sessions[s] = NoSession
    /\ sessions' = [sessions EXCEPT ![s] =
                      [administrator |-> Target(t), password |-> row.password,
                       state |-> "open"]]
    /\ account' = [account EXCEPT ![Target(t)] =
                     [row EXCEPT !.status = "active", !.failed = 0, !.locked = "no"]]
    /\ wrong' = [wrong EXCEPT ![Target(t)] = 0]
    /\ EndRequest(t)
    /\ UNCHANGED grants

\* Mutant: a lock that has run out is lifted by whoever tries next.
LoginOf(t, row) ==
  LET valid == request[t].password = row.password IN
  \/ row.status = "disabled" /\ Fail(t)
  \/ row.status = "locked" /\ row.locked = "running" /\ Refused(t, row)
  \/ row.status = "locked" /\ row.locked = "elapsed" /\ ~ valid
     /\ Refused(t, [row EXCEPT !.status = "active", !.failed = 1, !.locked = "no"])
  \/ row.status = "locked" /\ row.locked = "elapsed" /\ valid /\ LoggedIn(t, row)
  \/ row.status = "active" /\ ~ valid /\ Refused(t, FailedLogin(row))
  \/ row.status = "active" /\ valid /\ LoggedIn(t, row)

\* The outcome of a login under the row of the account.  While a lock runs no
\* password is looked at; after it the first wrong one locks again.
LoginWith(t, row) ==
  LET valid == request[t].password = row.password IN
  \/ row.status = "disabled" /\ Fail(t)
  \/ row.status = "locked" /\ row.locked = "running" /\ Fail(t)
  \/ row.status = "locked" /\ row.locked = "elapsed" /\ ~ valid
     /\ Refused(t, [row EXCEPT !.locked = "running"])
  \/ row.status = "locked" /\ row.locked = "elapsed" /\ valid /\ LoggedIn(t, row)
  \/ row.status = "active" /\ ~ valid /\ Refused(t, FailedLogin(row))
  \/ row.status = "active" /\ valid /\ LoggedIn(t, row)

\* authenticate_administrator: SELECT ... FOR UPDATE up to the commit.
Login(t) ==
  /\ pc[t] = "handle"
  /\ Kind(t) = "login"
  /\ Free(t, AccountRow(Target(t)))
  /\ \/ account[Target(t)] = NoAccount /\ Fail(t)
     \/ account[Target(t)] # NoAccount /\ LoginWith(t, account[Target(t)])
-----------------------------------------------------------------------------
\* _load_current_administrator_context.
LoadContext(t) ==
  LET s == request[t].session
      operator == account[sessions[s].administrator]
  IN
  /\ pc[t] = "load"
  /\ \/ /\ \/ sessions[s].state # "open"
           \/ operator.status # "active"
        /\ Fail(t)
     \/ /\ sessions[s].state = "open"
        /\ operator.status = "active"
        /\ seen' = [seen EXCEPT ![t] =
                      [NothingSeen EXCEPT !.operator = operator, !.session = s]]
        /\ Continue(t, IF Kind(t) = "logout" THEN "log_out" ELSE "permit")
        /\ UNCHANGED <<account, grants, sessions, written, wrong>>

\* Who asks: the owner of the session, or whom the command line names.
Operator(t) ==
  IF request[t].session = NoSession THEN request[t].operator
  ELSE sessions[request[t].session].administrator

\* administrator_required(permission).
Permit(t) ==
  /\ pc[t] = "permit"
  /\ \/ ~ Has(Operator(t), request[t].permission) /\ Fail(t)
     \/ /\ Has(Operator(t), request[t].permission)
        /\ Continue(t, "handle")
        /\ UNCHANGED administration

\* logout_administrator: the session is written back as it was loaded, and
\* ck_administrator_sessions_revocation_state refuses a second revoker.
Logout(t) ==
  LET s == request[t].session IN
  /\ pc[t] = "log_out"
  /\ \/ sessions[s].state = "revoked" /\ Fail(t)
     \/ /\ sessions[s].state # "revoked"
        /\ sessions' = [sessions EXCEPT ![s].state = "logged_out"]
        /\ EndRequest(t)
        /\ UNCHANGED <<account, grants, wrong>>

ManagementKinds == {"disable", "reset", "revoke", "permissions", "create"}

\* The operator's account, which a request with a session has loaded before.
OperatorRow(t) ==
  IF request[t].session = NoSession THEN account[Operator(t)] ELSE seen[t].operator

\* authorize_administrator_operator, and the same check in create_administrator:
\* the password once more.
Authorize(t) ==
  LET row == OperatorRow(t)
      authorized == /\ row # NoAccount
                    /\ row.status = "active"
                    /\ Has(Operator(t), Manage)
                    /\ request[t].password = row.password
  IN
  /\ pc[t] = "handle"
  /\ Kind(t) \in ManagementKinds
  /\ \/ ~ authorized /\ Fail(t)
     \/ /\ authorized
        /\ Continue(t, IF Kind(t) = "create" THEN "create" ELSE "find")
        /\ UNCHANGED administration
-----------------------------------------------------------------------------
\* The account as the transaction sees it: loaded before if it is the operator's.
Loaded(t) ==
  IF request[t].session # NoSession /\ Operator(t) = Target(t)
  THEN seen[t].operator
  ELSE account[Target(t)]

Manages(t, row) == row.status = "active" /\ Has(Target(t), Manage)

\* assert_administrator_may_be_disabled guards the route, not the command.
NextStatement(t, row) ==
  CASE Kind(t) = "disable" /\ request[t].session # NoSession /\ Manages(t, row) -> "count"
    [] Kind(t) = "permissions" /\ Manages(t, row) /\ Manage \notin request[t].permissions
         -> "count"
    [] Kind(t) = "permissions"
         /\ ~ (Manages(t, row) /\ Manage \notin request[t].permissions) -> "replace"
    [] Kind(t) = "revoke" -> "sessions"
    [] OTHER -> "update"

\* _find_administrator, and for a replacement the rows of its permissions.
Find(t) ==
  LET row == Loaded(t) IN
  /\ pc[t] = "find"
  /\ \/ /\ \/ row = NoAccount
           \/ Kind(t) = "disable" /\ row.status = "disabled"
        /\ Fail(t)
     \/ /\ row # NoAccount
        /\ ~ (Kind(t) = "disable" /\ row.status = "disabled")
        /\ seen' = [seen EXCEPT ![t].target = row, ![t].grants = grants[Target(t)]]
        /\ Continue(t, NextStatement(t, row))
        /\ UNCHANGED <<account, grants, sessions, written, wrong>>

Managers == {a \in Administrators : account[a] # NoAccount /\ account[a].status = "active"
                                    /\ Has(a, Manage)}

\* _active_administrator_management_count() <= 1 refuses.
CountManagers(t) ==
  /\ pc[t] = "count"
  /\ \/ Cardinality(Managers) <= 1 /\ Fail(t)
     \/ /\ Cardinality(Managers) > 1
        /\ Continue(t, IF Kind(t) = "disable" THEN "update" ELSE "replace")
        /\ UNCHANGED administration

\* The columns that differ from what was loaded, set in the row as it is now.
Disabled(loaded, row) ==
  [row EXCEPT !.status = "disabled",
              !.disabledAt = TRUE,
              !.locked = IF loaded.locked = "no" THEN @ ELSE "no"]

Reset(loaded, row, password) ==
  [row EXCEPT !.password = password,
              !.failed = IF loaded.failed = 0 THEN @ ELSE 0,
              !.locked = IF loaded.locked = "no" THEN @ ELSE "no",
              !.status = IF loaded.status = "locked" THEN "active" ELSE @]

Updated(t) ==
  IF Kind(t) = "disable"
  THEN Disabled(seen[t].target, account[Target(t)])
  ELSE Reset(seen[t].target, account[Target(t)], request[t].newPassword)

\* Mutant: without autoflush the UPDATE waits for the commit.
UpdateUnflushed(t) ==
  /\ pc[t] = "update"
  /\ written' = [written EXCEPT ![t] = Updated(t)]
  /\ Continue(t, "sessions")
  /\ UNCHANGED <<account, grants, sessions, seen, wrong>>

\* The UPDATE, which waits for the row and is checked with it.
UpdateAccount(t) ==
  /\ pc[t] = "update"
  /\ Free(t, AccountRow(Target(t)))
  /\ \/ ~ LifecycleCheck(Updated(t)) /\ Fail(t)
     \/ /\ LifecycleCheck(Updated(t))
        /\ written' = [written EXCEPT ![t] = Updated(t)]
        /\ LockRow(t, AccountRow(Target(t)), "sessions")
        /\ UNCHANGED <<account, grants, sessions, seen, wrong>>

\* _revoke_active_sessions: the query, and the UPDATEs with the commit.
ReadSessions(t) ==
  /\ pc[t] = "sessions"
  /\ seen' = [seen EXCEPT ![t].sessions = OpenSessions(Target(t))]
  /\ Continue(t, "commit")
  /\ UNCHANGED <<account, grants, sessions, written, wrong>>

RevokeSessions(t) ==
  LET revoked == seen[t].sessions IN
  /\ pc[t] = "commit"
  /\ \/ (\E s \in revoked : sessions[s].state = "logged_out") /\ Fail(t)
     \/ /\ \A s \in revoked : sessions[s].state # "logged_out"
        /\ sessions' = [s \in Sessions |->
                          IF s \in revoked THEN [sessions[s] EXCEPT !.state = "revoked"]
                                           ELSE sessions[s]]
        /\ account' = IF written[t] = NoAccount THEN account
                      ELSE [account EXCEPT ![Target(t)] = written[t]]
        /\ wrong' = IF Kind(t) = "reset" THEN [wrong EXCEPT ![Target(t)] = 0] ELSE wrong
        /\ EndRequest(t)
        /\ UNCHANGED grants
-----------------------------------------------------------------------------
UsedIds(a) ==
  {g.id : g \in grants[a]} \union UNION {{g.id : g \in seen[t].grants} : t \in Threads}

\* Rows with keys no other row has: the rows of one insertion differ in their
\* permission, so a key they share is enough.
NewGrants(a, permissions) ==
  LET key == CHOOSE id \in GrantIds : id \notin UsedIds(a)
  IN  [permission : permissions, id : {key}]

KeysLeft(a) == GrantIds \ UsedIds(a) # {}

\* The rows that were loaded are deleted by key and the new ones inserted; a
\* permission that is there under another key is a conflict.
ReplacePermissions(t) ==
  LET a == Target(t)
      rest == grants[a] \ seen[t].grants
      conflict == \E g \in rest : g.permission \in request[t].permissions
  IN
  /\ pc[t] = "replace"
  /\ \/ conflict /\ Fail(t)
     \/ /\ ~ conflict /\ KeysLeft(a)
        /\ grants' = [grants EXCEPT ![a] = rest \union NewGrants(a, request[t].permissions)]
        /\ EndRequest(t)
        /\ UNCHANGED <<account, sessions, wrong>>

\* create_administrator, and the insertion of bootstrap_administrator.
Create(t) ==
  LET a == Target(t) IN
  /\ pc[t] = "create"
  /\ \/ account[a] # NoAccount /\ Fail(t)
     \/ /\ account[a] = NoAccount /\ KeysLeft(a)
        /\ account' = [account EXCEPT ![a] = NewAccount(request[t].newPassword)]
        /\ grants' = [grants EXCEPT ![a] = NewGrants(a, Permissions)]
        /\ EndRequest(t)
        /\ UNCHANGED <<sessions, wrong>>

\* bootstrap_administrator: only while there is no account.
Bootstrap(t) ==
  /\ pc[t] = "handle"
  /\ Kind(t) = "bootstrap"
  /\ \/ (\E a \in Administrators : account[a] # NoAccount) /\ Fail(t)
     \/ /\ \A a \in Administrators : account[a] = NoAccount
        /\ Continue(t, "create")
        /\ UNCHANGED administration

\* Where a request starts: at its session, or in the command line's operation.
FirstStatement(q) ==
  CASE q.kind \in {"login", "bootstrap"} -> "handle"
    [] q.session = NoSession /\ q.kind = "create" -> "handle"
    [] q.session = NoSession /\ q.kind \in ManagementKinds \ {"create"} -> "find"
    [] OTHER -> "load"

AccessStep(t) == LoadContext(t) \/ Permit(t)

AccountStep(t) ==
  \/ Login(t) \/ Logout(t) \/ Authorize(t) \/ Find(t) \/ CountManagers(t)
  \/ UpdateAccount(t) \/ ReadSessions(t) \/ RevokeSessions(t)
  \/ ReplacePermissions(t) \/ Create(t) \/ Bootstrap(t)
-----------------------------------------------------------------------------
\* A session that is open was opened with the present password of an account
\* that is not disabled: no login slips between the change of an account and
\* the query for the sessions that end with it.
OpenSessionsCurrent ==
  \A s \in Sessions :
    sessions[s] # NoSession /\ sessions[s].state = "open" =>
      LET row == account[sessions[s].administrator] IN
      /\ row.status # "disabled"
      /\ row.password = sessions[s].password

\* While passwords are still looked at, those refused since the last success
\* or reset are all counted; a locked account looks at one for each lock that
\* ran out.  Resets, which read without locks, never lose a failure.
FailuresCounted ==
  \A a \in Administrators :
    account[a] # NoAccount /\ account[a].status = "active" =>
      wrong[a] <= account[a].failed /\ account[a].failed < MaxAttempts
=============================================================================
