---------------------------- MODULE Administration ----------------------------
(***************************************************************************)
(* What administrators do with the backend: their own accounts and         *)
(* sessions, policies and the catalogue, the register of devices.  A       *)
(* request of the panel loads its session and account, is permitted by     *)
(* name, and only then handled; the command line has no session, and a     *)
(* device that registers or enrols itself needs none.                      *)
(*                                                                         *)
(* As in DeviceRequests the initial state picks a workload: the rows there *)
(* are, and the requests that arrive any number of times in any order.     *)
(***************************************************************************)
EXTENDS Administrators, PolicyCatalogue, DeviceRegister

CONSTANTS
  Workloads \* records: accounts, grants, sessions, applications and devices
            \* there are, the requests, how many are served at a time, what
            \* happens meanwhile, and the bound on registration events

VARIABLE workload

DeviceKinds == {"register", "enroll", "asset", "correct", "redact", "locate", "relocate"}

\* What a device asks for itself.  DEVICE_ENROLLMENT_MODE says which of the two the
\* route does; here either may come at any time.
OwnKinds == {"register", "enroll"}

SchoolKinds == {"school", "update_school"}

Kinds ==
  {"login", "logout", "bootstrap", "application", "lifecycle"} \union ManagementKinds
    \union PolicyKinds \union DeviceKinds \union SchoolKinds

Requests == UNION {w.requests : w \in Workloads}

\* What the routes and the command line have parsed before a handler begins.
ASSUME RequestsAssumption ==
  /\ NoRequest \notin Requests
  /\ \A q \in Requests :
       /\ q.kind \in Kinds
       /\ q.session \in Sessions \union {NoSession}
       /\ q.session = NoSession =>
            q.kind \in ManagementKinds \union {"login", "bootstrap"} \union OwnKinds
       /\ q.kind \in ManagementKinds \union {"login", "bootstrap"} =>
            q.target \in Administrators
       /\ q.kind \in {"reset", "create", "bootstrap"} => q.newPassword \in Passwords
       /\ q.kind = "permissions" => q.permissions \subseteq Permissions
       /\ q.kind \in PolicyKinds =>
            /\ {"schedules", "applications", "controls", "use"} \subseteq DOMAIN q.payload
            /\ \A s \in q.payload.schedules : s.priority \in Nat
       /\ q.kind \in {"revision", "lifecycle"} => q.policy \in Policies
       /\ q.kind = "lifecycle" => q.status \in Lifecycles
       /\ q.kind \in DeviceKinds => q.device \in Devices
       /\ q.kind \in OwnKinds \union {"asset"} => q.api \in Nat
       /\ q.kind = "enroll" => q.bound \in BOOLEAN
       /\ q.kind \in {"asset", "correct"} => q.asset \in Assets /\ q.lifecycle \in AssetStates
       /\ q.kind \in SchoolKinds => q.name # NoSchool

ASSUME RowsAssumption ==
  ({"account"} \X Administrators) \union ({"policy"} \X Policies)
    \union ({"device", "location"} \X Devices) \subseteq Rows

\* The rows there are at the beginning are such as the program leaves behind.
ASSUME WorkloadsAssumption == \A w \in Workloads :
  /\ w.accounts \in [Administrators -> AccountRows \union {NoAccount}]
  /\ \A a \in Administrators : w.accounts[a] # NoAccount => LifecycleCheck(w.accounts[a])
  /\ w.grants \in [Administrators -> SUBSET GrantRows]
  /\ w.sessions \in [Sessions -> SessionRows \union {NoSession}]
  /\ \A s \in Sessions : w.sessions[s] # NoSession =>
       LET row == w.accounts[w.sessions[s].administrator] IN
       /\ row # NoAccount
       /\ w.sessions[s].state = "open" =>
            row.status # "disabled" /\ row.password = w.sessions[s].password
  /\ \A q \in w.requests : q.session # NoSession => w.sessions[q.session] # NoSession
  /\ w.devices \in [Devices -> DeviceRows \union {NoDevice}]
  /\ \A d \in Devices : w.devices[d] # NoDevice /\ w.devices[d].status = "retired" =>
       w.devices[d].lifecycle = "RETIRED"

vars == <<threads, administration, catalogue, register, workload>>

Init ==
  /\ workload \in Workloads
  /\ ThreadsInit
  /\ AdministratorsInit(workload.accounts, workload.grants, workload.sessions)
  /\ CatalogueInit(workload.applications)
  /\ RegisterInit(workload.devices)

Spare(rows, none) == Cardinality({x \in DOMAIN rows : rows[x] = none}) >= Cardinality(Threads)

\* There is a thread for the request and room for what it may insert.
Bounded(q) ==
  /\ Cardinality({t \in Threads : pc[t] # "idle"}) < workload.parallel
  /\ q.kind = "login" => Spare(sessions, NoSession)
  /\ q.kind = "policy" => Spare(policies, NoPolicy)
  /\ q.kind = "revision" =>
       Cardinality(revisions[q.policy]) + Cardinality(Threads) <= MaxVersion
  /\ q.kind = "register" => Len(registrations[q.device]) < workload.events

Receive(t) ==
  /\ pc[t] = "idle"
  /\ \E q \in workload.requests :
       /\ Bounded(q)
       /\ request' = [request EXCEPT ![t] = q]
       /\ Goto(t, IF q.kind \in OwnKinds THEN "handle" ELSE FirstStatement(q))
  /\ UNCHANGED <<lock, administration, catalogue, register, workload>>

AdministratorStep(t) ==
  (AccessStep(t) \/ AccountStep(t)) /\ UNCHANGED <<catalogue, register, workload>>

SchoolName == IF school = NoSchool THEN NoSection ELSE school

PolicyStep(t) == CatalogueStep(t, SchoolName) /\ UNCHANGED <<administration, register, workload>>

DeviceStep(t) == RegisterStep(t) /\ UNCHANGED <<administration, catalogue, workload>>

\* The database fails or the worker is killed; a revocation dated before the
\* session it revokes was issued, which the clock of another thread can bring
\* about, is refused by the database as well.
Abort(t) ==
  /\ pc[t] # "idle"
  /\ Finish(t)
  /\ seen' = [seen EXCEPT ![t] = NothingSeen]
  /\ written' = [written EXCEPT ![t] = NoAccount]
  /\ ForgetPolicy(t)
  /\ deviceSeen' = [deviceSeen EXCEPT ![t] = NoDevice]
  /\ UNCHANGED <<account, grants, sessions, wrong, policies, revisions, assigned,
                 applications, refusals, devices, registrations, location, school,
                 registered, workload>>

\* Time, and what other components do.
Environment ==
  \/ /\ "time" \in workload.meanwhile
     /\ \/ \E a \in Administrators : LockRunsOut(a)
        \/ \E s \in Sessions : Expire(s)
     /\ UNCHANGED <<catalogue, register>>
  \/ /\ "assignments" \in workload.meanwhile
     /\ \E p \in Policies : \E v \in 1 .. MaxVersion : Assign(p, v)
     /\ UNCHANGED <<administration, register>>
  \/ /\ "retention" \in workload.meanwhile
     /\ \E d \in Devices : Age(d)
     /\ UNCHANGED <<administration, catalogue>>

ThreadStep(t) == AdministratorStep(t) \/ PolicyStep(t) \/ DeviceStep(t)

Next ==
  \/ \E t \in Threads : Receive(t) \/ ThreadStep(t) \/ Abort(t)
  \/ Environment /\ UNCHANGED <<threads, workload>>

Spec == Init /\ [][Next]_vars

\* PostgreSQL queues those who wait for a row.
FairSpec == Spec /\ \A t \in Threads : SF_vars(ThreadStep(t))
-----------------------------------------------------------------------------
TypeOK ==
  /\ request \in [Threads -> workload.requests \union {NoRequest}]
  /\ \A t \in Threads : pc[t] = "idle" <=> request[t] = NoRequest
  /\ lock \in [Rows -> Threads \union {NoThread}]
  /\ account \in [Administrators -> AccountRows \union {NoAccount}]
  /\ \A a \in Administrators : account[a] # NoAccount =>
       LifecycleCheck([account[a] EXCEPT !.locked = IF @ = "elapsed" THEN "running" ELSE @])
  /\ grants \in [Administrators -> SUBSET GrantRows]
  /\ sessions \in [Sessions -> SessionRows \union {NoSession}]
  /\ written \in [Threads -> AccountRows \union {NoAccount}]
  /\ wrong \in [Administrators -> Nat]
  /\ policies \in [Policies -> Lifecycles \union {NoPolicy}]
  /\ \A p \in Policies : assigned[p] \subseteq {r.version : r \in revisions[p]}
  /\ numbered \in [Threads -> Nat]
  /\ devices \in [Devices -> DeviceRows \union {NoDevice}]
  /\ registered \in Nat

\* Row r is locked, written or referred to by the next statement of a thread.
Needs(t, r) ==
  \/ /\ pc[t] = "update" \/ (pc[t] = "handle" /\ Kind(t) = "login")
     /\ r = AccountRow(Target(t))
  \/ /\ pc[t] = "lock_policy" \/ (pc[t] = "handle" /\ Kind(t) = "lifecycle")
     /\ r = PolicyRow(request[t].policy)
  \/ /\ \/ pc[t] \in {"store_event", "store_enrolled", "store_asset", "insert_location",
                      "store_location"}
        \/ pc[t] = "handle" /\ Kind(t) \in {"enroll", "correct", "redact"}
     /\ r = DeviceRow(DeviceOf(t))
  \/ /\ pc[t] = "redact" \/ (pc[t] = "handle" /\ Kind(t) = "relocate")
     /\ r = LocationRow(DeviceOf(t))

\* Its next statement cannot run before the transaction of u ends.
WaitsFor(t, u) == t # u /\ \E r \in Rows : lock[r] = u /\ Needs(t, r)

\* Of any threads one waits for none of the others, unless a redaction and a
\* correction of the location of one device are among them, which lock the two
\* rows of the device in opposite orders.
OneDeadlockOnly ==
  \A S \in (SUBSET Threads) \ {{}} :
    \/ \E t, u \in S : Deadlocked(t, u)
    \/ \E t \in S : \A u \in S : ~ WaitsFor(t, u)

\* No request waits for ever: rows that are locked in opposite orders are found
\* out, and every other order has no cycle.
RequestsEnd == \A t \in Threads : pc[t] # "idle" ~> pc[t] = "idle"
=============================================================================
