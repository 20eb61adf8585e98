---------------------------- MODULE DeviceRequests ----------------------------
(***************************************************************************)
(* The request side of the backend: threads that serve the requests of     *)
(* devices, and administrators' block orders, over one database.  A        *)
(* request passes authentication and then its handler; the handlers share  *)
(* the threads, the device row and the clock, and nothing else.            *)
(*                                                                         *)
(* A workload is a set of requests that arrive any number of times in any  *)
(* order, and how far the clock runs meanwhile; the initial state picks    *)
(* one, so that one run covers several small mixtures.                     *)
(***************************************************************************)
EXTENDS DeviceStatus, DeviceControls, PolicySync

CONSTANTS
  Workloads  \* records: requests, horizon of the clock,
             \* events recorded for a device, what is administered meanwhile

VARIABLE workload

Administrative == {"block", "clear"}

Kinds == StatusKinds \union Administrative \union {"usage", "web_filter", "sync"}

Requests == UNION {w.requests : w \in Workloads}

\* What the routes have parsed before a handler begins.
ASSUME RequestsAssumption ==
  /\ NoRequest \notin Requests
  /\ \A q \in Requests :
       /\ q.device \in Devices
       /\ q.kind \in Kinds
       /\ q.stamp \in Nat
       /\ q.kind \in StatusKinds => q.body.observed \in Nat
       /\ q.kind = "usage" => q.body.day \in Days
       /\ q.kind = "sync" => q.body.revision \in Revisions \union {NoRevision}

ASSUME RowsAssumption ==
  ({"device", "sync_chain"} \union StatusKinds \union Days) \X Devices \subseteq Rows

\* A row of one table is not a row of another.
ASSUME TablesAssumption ==
  Days \intersect ({"device", "sync_chain"} \union StatusKinds) = {}

ASSUME HorizonAssumption == \A w \in Workloads : w.horizon \in Nat

vars == <<threads, authentication, status, controls, synchronization, workload>>

Init ==
  /\ workload \in Workloads
  /\ ThreadsInit
  /\ AuthenticationInit
  /\ StatusInit
  /\ ControlsInit
  /\ PolicySyncInit

Bounded(d) ==
  Len(controlEvents[d]) < workload.events /\ Len(syncEvents[d]) < workload.events

\* A request arrives: for the first time, or again, as nobody numbers copies.
Receive(t) ==
  /\ pc[t] = "idle"
  /\ \E q \in workload.requests :
        /\ Bounded(q.device)
        /\ request' = [request EXCEPT ![t] = q]
        /\ Goto(t, IF q.kind \in Administrative THEN "handle" ELSE "verify")
  /\ UNCHANGED <<lock, authentication, status, controls, synchronization, workload>>

AuthenticationStep(t) ==
  /\ Verify(t) \/ StampNonce(t) \/ RecordNonce(t)
  /\ UNCHANGED <<status, controls, synchronization, workload>>

HandlerStep(t) ==
  \/ StatusStep(t)
     /\ UNCHANGED <<authentication, controls, synchronization, workload>>
  \/ ControlsStep(t)
     /\ UNCHANGED <<authentication, status, synchronization, workload>>
  \/ SyncStep(t)
     /\ UNCHANGED <<authentication, status, controls, workload>>

\* The database fails or the worker is killed: what is not committed is gone.
Abort(t) ==
  /\ pc[t] # "idle"
  /\ Finish(t)
  /\ recordedAt' = [recordedAt EXCEPT ![t] = 0]
  /\ seen' = [seen EXCEPT ![t] = NoReport]
  /\ usageSeen' = [usageSeen EXCEPT ![t] = NoUsage]
  /\ answer' = [answer EXCEPT ![t] = NoAnswer]
  /\ headSeen' = [headSeen EXCEPT ![t] = 0]
  /\ UNCHANGED <<now, credentialStatus, deviceStatus, nonces, accepted, reports,
                 latest, receipts, usage, webEvents, override, controlEvents,
                 assigned, policyStatus, syncEvents, syncHead, workload>>

Environment ==
  \/ /\ now < workload.horizon
     /\ Tick
     /\ UNCHANGED synchronization
  \/ /\ "devices" \in workload.administered
     /\ \/ \E c \in Credentials : RevokeCredential(c)
        \/ \E d \in Registered : SuspendDevice(d)
     /\ UNCHANGED synchronization
  \/ /\ "assignments" \in workload.administered
     /\ \E d \in Registered, r \in Revisions \union {NoRevision} : Reassign(d, r)
     /\ UNCHANGED authentication
  \/ /\ "lifecycles" \in workload.administered
     /\ \E p \in DOMAIN policyStatus, s \in {"active", "inactive", "revoked"} :
          SetLifecycle(p, s)
     /\ UNCHANGED authentication

ThreadStep(t) == AuthenticationStep(t) \/ HandlerStep(t)

Next ==
  \/ \E t \in Threads : Receive(t) \/ ThreadStep(t) \/ Abort(t)
  \/ Environment /\ UNCHANGED <<threads, status, controls, workload>>

Spec == Init /\ [][Next]_vars

\* PostgreSQL queues the waiters of a row, so a statement is not passed over
\* for ever; nothing obliges a request to fail.
FairSpec == Spec /\ \A t \in Threads : SF_vars(ThreadStep(t))
-----------------------------------------------------------------------------
Signers == {q.credential : q \in Requests}

Bodies == {q.body : q \in Requests}

Reports == [device : Devices, credential : Signers, body : Bodies]

Nonces == [credential : Signers, nonce : {q.nonce : q \in Requests}, expires : Nat]

UsageRows ==
  [minutes : 0 .. MinutesOfDay,
   policy : {q.body.policy : q \in {r \in Requests : r.kind = "usage"}}]

\* The marks of a missing row are not rows.
ASSUME MarksAssumption ==
  /\ NoReport \notin Reports
  /\ NoOverride \notin [version : Nat, active : BOOLEAN]
  /\ NoUsage \notin UsageRows

Operations == {"none", "error", "blocked", "no_change", "clear", "apply", "rollback"}

Outcomes ==
  {"none", "invalid_request", "device_not_found", "device_inactive", "no_assignment",
   "success", "policy_revoked", "policy_inactive"}

Desired == Revisions \union {NoRevision}

TypeOK ==
  /\ workload \in Workloads
  /\ pc \in [Threads -> {"idle", "verify", "stamp", "record_nonce", "handle",
                         "insert_report", "read_state", "store_status",
                         "store_usage", "set_override", "read_policy",
                         "lock_device", "lock_chain", "store_event"}]
  /\ request \in [Threads -> workload.requests \union {NoRequest}]
  /\ \A t \in Threads : pc[t] = "idle" <=> request[t] = NoRequest
  /\ lock \in [Rows -> Threads \union {NoThread}]
  /\ now \in 0 .. workload.horizon
  /\ credentialStatus \in [Credentials -> {"active", "revoked"}]
  /\ deviceStatus \in [Devices -> {"active", "suspended"}]
  /\ nonces \subseteq Nonces
  /\ recordedAt \in [Threads -> 0 .. now]
  /\ accepted \in Seq([request : workload.requests, at : 0 .. now])
  /\ reports \in [StatusKinds -> SUBSET Reports]
  /\ latest \in [StatusKinds -> [Devices -> Reports \union {NoReport}]]
  /\ seen \in [Threads -> Reports \union {NoReport}]
  /\ receipts \subseteq [kind : StatusKinds, report : Reports]
  /\ usage \in [Devices -> [Days -> UsageRows \union {NoUsage}]]
  /\ usageSeen \in [Threads -> UsageRows \union {NoUsage}]
  /\ override \in [Devices -> [version : Nat, active : BOOLEAN] \union {NoOverride}]
  /\ controlEvents \in [Devices -> Seq(Administrative)]
  /\ assigned \in [Devices -> Desired]
  /\ policyStatus \in [{PolicyOf[r] : r \in Revisions} -> {"active", "inactive", "revoked"}]
  /\ answer \in [Threads -> [operation : Operations, outcome : Outcomes,
                             desired : Desired, requested : 0 .. now]]
  /\ headSeen \in [Threads -> Nat]
  /\ syncEvents \in [Devices -> Seq([operation : Operations, outcome : Outcomes,
                                    reported : Bodies, desired : Desired,
                                    requested : 0 .. now, previous : Nat])]
  /\ syncHead \in [Devices -> Nat]

\* A nonce is not accepted again while the timestamp it was first accepted with
\* is in the window, although the nonce is looked up some time after the
\* timestamp is checked and expired nonces are deleted in between; only in the
\* very second in which the window closes may the nonce have expired already.
NoReplayInWindow ==
  \A i, j \in 1 .. Len(accepted) :
    /\ i < j
    /\ SameNonce(accepted[i].request, accepted[j].request)
    => accepted[j].at >= accepted[i].request.stamp + ClockSkew

\* Row r is locked by the next statement of a thread.
Locks(t, r) ==
  LET d == DeviceOf(t) IN
  \/ /\ pc[t] = "lock_device" \/ (pc[t] = "handle" /\ Kind(t) \in Administrative)
     /\ d \in Registered
     /\ r = <<"device", d>>
  \/ pc[t] = "lock_chain" /\ r = <<"sync_chain", d>>
  \/ pc[t] = "read_state" /\ latest[Kind(t)][d] # NoReport /\ r = <<Kind(t), d>>
  \/ /\ pc[t] = "handle" /\ Kind(t) = "usage"
     /\ request[t].body.minutes \in 0 .. MinutesOfDay /\ Row(t) # NoUsage
     /\ r = <<request[t].body.day, d>>

\* It inserts a row that refers to the device.
Refers(t) ==
  \/ pc[t] \in {"record_nonce", "insert_report", "store_usage"}
  \/ pc[t] = "handle" /\ Kind(t) = "web_filter"

\* Thread t is at a statement that cannot run before the transaction of u ends.
WaitsFor(t, u) ==
  /\ t # u
  /\ pc[t] # "idle"
  /\ \/ \E r \in Rows : lock[r] = u /\ Locks(t, r)
     \/ HoldsKeyShare(u, DeviceOf(t)) /\ Locks(t, <<"device", DeviceOf(t)>>)
     \/ Refers(t) /\ lock[<<"device", DeviceOf(t)>>] = u
     \/ /\ pc[t] = "insert_report" /\ pc[u] \in {"read_state", "store_status"}
        /\ Kind(u) = Kind(t) /\ SameUuid(ReportOf(u), ReportOf(t))

\* Of any threads one waits for none of the others: rows are locked in an order
\* in which no circle of waiting closes, whoever else is served.
NoCircularWait ==
  \A S \in (SUBSET Threads) \ {{}} : \E t \in S : \A u \in S : ~ WaitsFor(t, u)

\* No request waits for ever: the order in which rows are locked has no cycle.
RequestsEnd == \A t \in Threads : pc[t] # "idle" ~> pc[t] = "idle"
=============================================================================
