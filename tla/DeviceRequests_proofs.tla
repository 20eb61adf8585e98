------------------------ MODULE DeviceRequests_proofs ------------------------
(***************************************************************************)
(* Proofs about DeviceRequests, for any devices, credentials, requests and *)
(* number of threads.                                                      *)
(*                                                                         *)
(* Types and shape: one lemma for each statement of a handler says what    *)
(* the step makes of its own thread and what it leaves to the others       *)
(* (Kept), and every property is proved from these lemmas.                 *)
(***************************************************************************)
EXTENDS DeviceRequests, FiniteSetTheorems, TLAPS

\* A thread is at a statement of the handler its request is for, and a request
\* that has to be signed is past the signature with an issued credential.
ShapeOf(t) ==
  /\ pc[t] \in {"insert_report", "read_state", "store_status"} => Kind(t) \in StatusKinds
  /\ pc[t] = "store_usage" => Kind(t) = "usage" /\ request[t].body.minutes \in 0 .. MinutesOfDay
  /\ pc[t] = "set_override" => Kind(t) \in Administrative
  /\ pc[t] \in {"read_policy", "lock_device", "lock_chain", "store_event"} => Kind(t) = "sync"
  /\ pc[t] = "read_policy" => answer[t].desired \in Revisions

Shape == \A t \in Threads : ShapeOf(t)

\* What a step of thread t leaves to the other threads.
Frame(t) ==
  /\ \A u \in Threads \ {t} :
       /\ pc'[u] = pc[u] /\ request'[u] = request[u]
       /\ seen'[u] = seen[u] /\ usageSeen'[u] = usageSeen[u]
       /\ recordedAt'[u] = recordedAt[u]
       /\ answer'[u] = answer[u] /\ headSeen'[u] = headSeen[u]
  /\ \A r \in Rows :
       \/ lock'[r] = lock[r]
       \/ lock[r] = t /\ lock'[r] = NoThread
       \/ lock[r] = NoThread /\ lock'[r] = t

\* TypeOK by the module that owns the variables.
ThreadsOK ==
  /\ workload \in Workloads
  /\ pc \in [Threads -> {"idle", "verify", "stamp", "record_nonce", "handle",
                         "insert_report", "read_state", "store_status",
                         "store_usage", "set_override", "read_policy",
                         "lock_device", "lock_chain", "store_event"}]
  /\ request \in [Threads -> workload.requests \union {NoRequest}]
  /\ \A t \in Threads : pc[t] = "idle" <=> request[t] = NoRequest
  /\ lock \in [Rows -> Threads \union {NoThread}]

AuthenticationOK ==
  /\ now \in 0 .. workload.horizon
  /\ credentialStatus \in [Credentials -> {"active", "revoked"}]
  /\ deviceStatus \in [Devices -> {"active", "suspended"}]
  /\ nonces \subseteq Nonces
  /\ recordedAt \in [Threads -> 0 .. now]
  /\ accepted \in Seq([request : workload.requests, at : 0 .. now])

StatusOK ==
  /\ reports \in [StatusKinds -> SUBSET Reports]
  /\ latest \in [StatusKinds -> [Devices -> Reports \union {NoReport}]]
  /\ seen \in [Threads -> Reports \union {NoReport}]
  /\ receipts \subseteq [kind : StatusKinds, report : Reports]

ControlsOK ==
  /\ usage \in [Devices -> [Days -> UsageRows \union {NoUsage}]]
  /\ usageSeen \in [Threads -> UsageRows \union {NoUsage}]
  /\ override \in [Devices -> [version : Nat, active : BOOLEAN] \union {NoOverride}]
  /\ controlEvents \in [Devices -> Seq(Administrative)]

PolicySyncOK ==
  /\ assigned \in [Devices -> Desired]
  /\ policyStatus \in [{PolicyOf[r] : r \in Revisions} -> {"active", "inactive", "revoked"}]
  /\ answer \in [Threads -> [operation : Operations, outcome : Outcomes,
                             desired : Desired, requested : 0 .. now]]
  /\ headSeen \in [Threads -> Nat]
  /\ syncEvents \in [Devices -> Seq([operation : Operations, outcome : Outcomes,
                                    reported : Bodies, desired : Desired,
                                    requested : 0 .. now, previous : Nat])]
  /\ syncHead \in [Devices -> Nat]

LEMMA TypeParts ==
  TypeOK <=> ThreadsOK /\ AuthenticationOK /\ StatusOK /\ ControlsOK /\ PolicySyncOK
BY DEF TypeOK, ThreadsOK, AuthenticationOK, StatusOK, ControlsOK, PolicySyncOK

LEMMA TypeWhole ==
  ASSUME ThreadsOK', AuthenticationOK', StatusOK', ControlsOK', PolicySyncOK'
  PROVE  TypeOK'
BY DEF TypeOK, ThreadsOK, AuthenticationOK, StatusOK, ControlsOK, PolicySyncOK

\* A step that leaves the variables of a module alone leaves their types alone.
LEMMA AuthenticationUntouched ==
  ASSUME AuthenticationOK, UNCHANGED authentication, UNCHANGED workload
  PROVE  AuthenticationOK' /\ now' = now /\ recordedAt' = recordedAt
BY DEF AuthenticationOK, authentication

LEMMA StatusUntouched ==
  ASSUME StatusOK, UNCHANGED status
  PROVE  StatusOK' /\ seen' = seen
BY DEF StatusOK, status

LEMMA ControlsUntouched ==
  ASSUME ControlsOK, UNCHANGED controls
  PROVE  ControlsOK' /\ usageSeen' = usageSeen
BY DEF ControlsOK, controls

LEMMA SyncUntouched ==
  ASSUME PolicySyncOK, UNCHANGED synchronization, now' = now
  PROVE  PolicySyncOK' /\ answer' = answer /\ headSeen' = headSeen
BY DEF PolicySyncOK, synchronization
-----------------------------------------------------------------------------
\* A served request is one of those that the routes have parsed.
LEMMA Served ==
  ASSUME ThreadsOK, NEW t \in Threads, pc[t] # "idle"
  PROVE  /\ request[t] \in workload.requests
         /\ request[t] \in Requests
         /\ request[t] # NoRequest
         /\ DeviceOf(t) \in Devices
         /\ Kind(t) \in Kinds
         /\ request[t].stamp \in Nat
         /\ request[t].body \in Bodies
         /\ request[t].credential \in Signers
         /\ Kind(t) \in StatusKinds => request[t].body.observed \in Nat
         /\ Kind(t) = "usage" => request[t].body.day \in Days
<1>1. request[t] \in workload.requests
  BY DEF ThreadsOK
<1>2. request[t] \in Requests
  BY <1>1 DEF ThreadsOK, Requests
<1> QED
  BY <1>1, <1>2, RequestsAssumption DEF DeviceOf, Kind, Bodies, Signers

LEMMA Appended ==
  ASSUME NEW S, NEW s \in Seq(S), NEW e \in S
  PROVE  /\ Append(s, e) \in Seq(S)
         /\ Len(Append(s, e)) = Len(s) + 1
         /\ \A i \in 1 .. Len(s) : Append(s, e)[i] = s[i]
         /\ Append(s, e)[Len(s) + 1] = e
OBVIOUS

\* How the steps of a thread move it: on, on with a row locked, or to the end.
Moved(t) ==
  /\ \A u \in Threads \ {t} : pc'[u] = pc[u] /\ request'[u] = request[u]
  /\ \A r \in Rows :
       \/ lock'[r] = lock[r]
       \/ lock[r] = t /\ lock'[r] = NoThread
       \/ lock[r] = NoThread /\ lock'[r] = t

Statements ==
  {"verify", "stamp", "record_nonce", "handle", "insert_report", "read_state",
   "store_status", "store_usage", "set_override", "read_policy", "lock_device",
   "lock_chain", "store_event"}

LEMMA Continued ==
  ASSUME ThreadsOK, NEW t \in Threads, pc[t] # "idle", NEW l \in Statements,
         Continue(t, l), UNCHANGED workload
  PROVE  /\ ThreadsOK' /\ Moved(t)
         /\ pc'[t] = l /\ request'[t] = request[t] /\ lock' = lock
BY DEF ThreadsOK, Continue, Goto, Moved, Statements

LEMMA Locked ==
  ASSUME ThreadsOK, NEW t \in Threads, pc[t] # "idle", NEW l \in Statements,
         NEW r \in Rows, LockRow(t, r, l), UNCHANGED workload
  PROVE  /\ ThreadsOK' /\ Moved(t)
         /\ pc'[t] = l /\ request'[t] = request[t] /\ lock'[r] = t
         /\ lock[r] \in {NoThread, t}
BY DEF ThreadsOK, LockRow, Goto, Moved, Statements, Free

LEMMA Finished ==
  ASSUME ThreadsOK, NEW t \in Threads, Finish(t), UNCHANGED workload
  PROVE  ThreadsOK' /\ Moved(t) /\ pc'[t] = "idle" /\ request'[t] = NoRequest
BY DEF ThreadsOK, Finish, Moved

\* The rows that handlers lock exist.
LEMMA LockableRows ==
  ASSUME NEW d \in Devices
  PROVE  /\ <<"device", d>> \in Rows
         /\ <<"sync_chain", d>> \in Rows
         /\ \A k \in StatusKinds \union Days : <<k, d>> \in Rows
BY RowsAssumption

\* The shape of the other threads is not touched.
LEMMA ShapeFrame ==
  ASSUME Shape, NEW t \in Threads, Frame(t), ShapeOf(t)'
  PROVE  Shape'
BY DEF Shape, ShapeOf, Frame, Kind
-----------------------------------------------------------------------------
\* One lemma for each statement: types, shape and what the others keep.
Kept(t) == TypeOK' /\ ShapeOf(t)' /\ Frame(t)

LEMMA ReceiveKept ==
  ASSUME TypeOK, NEW t \in Threads, Receive(t)
  PROVE  Kept(t)
<1>1. PICK q \in workload.requests :
        /\ request' = [request EXCEPT ![t] = q]
        /\ Goto(t, IF q.kind \in Administrative THEN "handle" ELSE "verify")
  BY DEF Receive
<1>2. q # NoRequest
  BY TypeParts, RequestsAssumption DEF ThreadsOK, Requests
<1>3. /\ UNCHANGED lock /\ UNCHANGED authentication /\ UNCHANGED status
      /\ UNCHANGED controls /\ UNCHANGED synchronization /\ UNCHANGED workload
  BY DEF Receive
<1>4. ThreadsOK'
  BY <1>1, <1>2, <1>3, TypeParts DEF ThreadsOK, Goto
<1>5. TypeOK'
  BY <1>3, <1>4, TypeParts, TypeWhole, AuthenticationUntouched, StatusUntouched,
     ControlsUntouched, SyncUntouched
<1>6. ShapeOf(t)'
  BY <1>1, TypeParts DEF ThreadsOK, ShapeOf, Goto
<1>7. Frame(t)
  BY <1>1, <1>3, TypeParts, AuthenticationUntouched, StatusUntouched, ControlsUntouched,
     SyncUntouched DEF Frame, Goto, ThreadsOK
<1> QED
  BY <1>5, <1>6, <1>7 DEF Kept

LEMMA VerifyKept ==
  ASSUME TypeOK, NEW t \in Threads, Verify(t),
         UNCHANGED status, UNCHANGED controls, UNCHANGED synchronization, UNCHANGED workload
  PROVE  Kept(t)
<1>1. ThreadsOK' /\ Moved(t) /\ pc'[t] \in {"handle", "stamp", "idle"}
  BY TypeParts, Continued, Finished DEF Verify, Statements
<1>2. UNCHANGED authentication
  BY DEF Verify
<1>3. TypeOK'
  BY <1>1, <1>2, TypeParts, TypeWhole, AuthenticationUntouched, StatusUntouched,
     ControlsUntouched, SyncUntouched
<1>4. Frame(t)
  BY <1>1, <1>2, TypeParts, AuthenticationUntouched, StatusUntouched, ControlsUntouched,
     SyncUntouched DEF Frame, Moved
<1> QED
  BY <1>1, <1>3, <1>4 DEF Kept, ShapeOf

LEMMA StampNonceKept ==
  ASSUME TypeOK, NEW t \in Threads, StampNonce(t),
         UNCHANGED status, UNCHANGED controls, UNCHANGED synchronization, UNCHANGED workload
  PROVE  Kept(t)
<1>1. ThreadsOK' /\ Moved(t) /\ pc'[t] = "record_nonce"
  BY TypeParts, Continued DEF StampNonce, Statements
<1>2. now \in 0 .. now
  BY TypeParts, HorizonAssumption DEF AuthenticationOK, ThreadsOK
<1>3. AuthenticationOK' /\ now' = now
  BY <1>2, TypeParts DEF StampNonce, AuthenticationOK
<1>4. TypeOK'
  BY <1>1, <1>3, TypeParts, TypeWhole, StatusUntouched, ControlsUntouched, SyncUntouched
<1>5. Frame(t)
  BY <1>1, TypeParts, StatusUntouched, ControlsUntouched, SyncUntouched
     DEF StampNonce, Frame, Moved, AuthenticationOK
<1> QED
  BY <1>1, <1>4, <1>5 DEF Kept, ShapeOf

LEMMA RecordNonceKept ==
  ASSUME TypeOK, NEW t \in Threads, RecordNonce(t),
         UNCHANGED status, UNCHANGED controls, UNCHANGED synchronization, UNCHANGED workload
  PROVE  Kept(t)
<1>1. ThreadsOK' /\ Moved(t) /\ pc'[t] \in {"handle", "idle"}
  BY TypeParts, Continued, Finished DEF RecordNonce, Statements
<1>2. CASE UNCHANGED authentication
  BY <1>1, <1>2, TypeParts, TypeWhole, AuthenticationUntouched, StatusUntouched,
     ControlsUntouched, SyncUntouched DEF Kept, ShapeOf, Frame, Moved
<1>3. CASE ~ UNCHANGED authentication
  <2>1. /\ nonces' \in {Unexpired(t), Unexpired(t) \union {NonceRow(t)}}
        /\ accepted' \in {accepted, Append(accepted, [request |-> request[t], at |-> now])}
        /\ recordedAt' = [recordedAt EXCEPT ![t] = 0]
        /\ UNCHANGED <<now, credentialStatus, deviceStatus>>
        /\ pc[t] # "idle"
    BY <1>3 DEF RecordNonce
  <2>2. now \in 0 .. now /\ 0 \in 0 .. now
    BY TypeParts, HorizonAssumption DEF AuthenticationOK, ThreadsOK
  <2>3. /\ request[t] \in workload.requests /\ request[t] \in Requests
        /\ request[t].credential \in Signers
    BY <2>1, TypeParts, Served
  <2>4. NonceRow(t) \in Nonces
    BY <2>3, TypeParts, AuthenticationAssumption DEF NonceRow, Nonces, AuthenticationOK
  <2>5. nonces' \subseteq Nonces
    BY <2>1, <2>4, TypeParts DEF Unexpired, AuthenticationOK
  <2>6. [request |-> request[t], at |-> now] \in [request : workload.requests, at : 0 .. now]
    BY <2>2, <2>3
  <2>7. accepted' \in Seq([request : workload.requests, at : 0 .. now])
    <3> DEFINE S == [request : workload.requests, at : 0 .. now]
               e == [request |-> request[t], at |-> now]
    <3>1. accepted \in Seq(S) /\ e \in S
      BY <2>6, TypeParts DEF AuthenticationOK
    <3>2. accepted' \in {accepted, Append(accepted, e)}
      BY <2>1
    <3> HIDE DEF S, e
    <3>3. accepted' \in Seq(S)
      BY <3>1, <3>2, Appended
    <3> QED
      BY <3>3 DEF S
  <2>8. AuthenticationOK' /\ now' = now
    BY <2>1, <2>2, <2>5, <2>7, TypeParts DEF AuthenticationOK
  <2>9. TypeOK'
    BY <1>1, <2>8, TypeParts, TypeWhole, StatusUntouched, ControlsUntouched, SyncUntouched
  <2>10. Frame(t)
    BY <1>1, <2>1, TypeParts, StatusUntouched, ControlsUntouched, SyncUntouched
       DEF Frame, Moved, AuthenticationOK
  <2> QED
    BY <1>1, <2>9, <2>10 DEF Kept, ShapeOf
<1> QED
  BY <1>2, <1>3
-----------------------------------------------------------------------------
\* The steps of check-ins and acknowledgements.
LEMMA StatusKept ==
  ASSUME TypeOK, Shape, NEW t \in Threads, StatusStep(t),
         UNCHANGED authentication, UNCHANGED controls, UNCHANGED synchronization,
         UNCHANGED workload
  PROVE  Kept(t)
<1> DEFINE k == Kind(t)
           d == DeviceOf(t)
           r == ReportOf(t)
<1>1. pc[t] # "idle" /\ k \in StatusKinds
  BY DEF StatusStep, StartReport, InsertReport, ReadState, StoreStatus, Shape, ShapeOf
<1>2. d \in Devices /\ r \in Reports
  BY <1>1, TypeParts, Served DEF ReportOf, Reports
<1>3. CASE StartReport(t)
  <2>1. ThreadsOK' /\ Moved(t) /\ pc'[t] \in {"idle", "insert_report"}
        /\ (pc'[t] = "insert_report" => request'[t] = request[t])
    BY <1>3, TypeParts, Continued, Finished DEF StartReport, Refuse, ReplayReport, Statements
  <2>2. /\ UNCHANGED <<reports, latest>>
        /\ receipts' \in {receipts, receipts \union {[kind |-> k, report |-> r]}}
        /\ seen' \in {seen, [seen EXCEPT ![t] = NoReport]}
    BY <1>3 DEF StartReport, Refuse, ReplayReport, status
  <2>3. StatusOK'
    BY <1>1, <1>2, <2>2, TypeParts DEF StatusOK
  <2>4. TypeOK'
    BY <2>1, <2>3, TypeParts, TypeWhole, AuthenticationUntouched, ControlsUntouched, SyncUntouched
  <2>5. Frame(t)
    BY <2>1, <2>2, TypeParts, AuthenticationUntouched, ControlsUntouched, SyncUntouched
       DEF Frame, Moved, StatusOK
  <2> QED
    BY <1>1, <2>1, <2>4, <2>5 DEF Kept, ShapeOf, Kind
<1>4. CASE InsertReport(t)
  <2>1. ThreadsOK' /\ Moved(t) /\ pc'[t] \in {"idle", "read_state"}
        /\ (pc'[t] = "read_state" => request'[t] = request[t])
    BY <1>4, TypeParts, Continued, Finished DEF InsertReport, Refuse, Statements
  <2>2. /\ UNCHANGED <<reports, latest, receipts>>
        /\ seen' \in {seen, [seen EXCEPT ![t] = NoReport]}
    BY <1>4 DEF InsertReport, Refuse, status
  <2>3. StatusOK'
    BY <2>2, TypeParts DEF StatusOK
  <2>4. TypeOK'
    BY <2>1, <2>3, TypeParts, TypeWhole, AuthenticationUntouched, ControlsUntouched, SyncUntouched
  <2>5. Frame(t)
    BY <2>1, <2>2, TypeParts, AuthenticationUntouched, ControlsUntouched, SyncUntouched
       DEF Frame, Moved, StatusOK
  <2> QED
    BY <1>1, <2>1, <2>4, <2>5 DEF Kept, ShapeOf, Kind
<1>5. CASE ReadState(t)
  <2>1. <<k, d>> \in Rows
    BY <1>1, <1>2, LockableRows
  <2>2. ThreadsOK' /\ Moved(t) /\ pc'[t] = "store_status" /\ request'[t] = request[t]
    BY <1>5, <2>1, TypeParts, Continued, Locked DEF ReadState, Statements
  <2>3. /\ UNCHANGED <<reports, latest, receipts>>
        /\ seen' = [seen EXCEPT ![t] = latest[k][d]]
    BY <1>5 DEF ReadState
  <2>4. StatusOK'
    BY <1>1, <1>2, <2>3, TypeParts DEF StatusOK
  <2>5. TypeOK'
    BY <2>2, <2>4, TypeParts, TypeWhole, AuthenticationUntouched, ControlsUntouched, SyncUntouched
  <2>6. Frame(t)
    BY <2>2, <2>3, TypeParts, AuthenticationUntouched, ControlsUntouched, SyncUntouched
       DEF Frame, Moved, StatusOK
  <2> QED
    BY <1>1, <2>2, <2>5, <2>6 DEF Kept, ShapeOf, Kind
<1>6. CASE StoreStatus(t)
  <2>1. ThreadsOK' /\ Moved(t) /\ pc'[t] = "idle"
    BY <1>6, TypeParts, Finished DEF StoreStatus, Refuse
  <2>2. /\ reports' \in {reports, [reports EXCEPT ![k] = @ \union {r}]}
        /\ latest' \in {latest, [latest EXCEPT ![k][d] = r]}
        /\ receipts' \in {receipts, receipts \union {[kind |-> k, report |-> r]}}
        /\ seen' = [seen EXCEPT ![t] = NoReport]
    BY <1>6 DEF StoreStatus, Refuse
  <2>3. StatusOK'
    <3>1. reports' \in [StatusKinds -> SUBSET Reports]
      BY <1>1, <1>2, <2>2, TypeParts DEF StatusOK
    <3>2. latest' \in [StatusKinds -> [Devices -> Reports \union {NoReport}]]
      BY <1>1, <1>2, <2>2, TypeParts DEF StatusOK
    <3> QED
      BY <1>1, <1>2, <2>2, <3>1, <3>2, TypeParts DEF StatusOK
  <2>4. TypeOK'
    BY <2>1, <2>3, TypeParts, TypeWhole, AuthenticationUntouched, ControlsUntouched, SyncUntouched
  <2>5. Frame(t)
    BY <2>1, <2>2, TypeParts, AuthenticationUntouched, ControlsUntouched, SyncUntouched
       DEF Frame, Moved, StatusOK
  <2> QED
    BY <2>1, <2>4, <2>5 DEF Kept, ShapeOf
<1> QED
  BY <1>3, <1>4, <1>5, <1>6 DEF StatusStep
-----------------------------------------------------------------------------
\* The steps of usage reports, web filter events and block orders.
LEMMA ControlsKept ==
  ASSUME TypeOK, Shape, NEW t \in Threads, ControlsStep(t),
         UNCHANGED authentication, UNCHANGED status, UNCHANGED synchronization,
         UNCHANGED workload
  PROVE  Kept(t)
<1> DEFINE d == DeviceOf(t)
           day == request[t].body.day
<1>1. pc[t] # "idle" /\ d \in Devices
  BY TypeParts, Served DEF ControlsStep, ReadUsage, RefuseUsage, StoreUsage, StoreWebEvent,
     LockForControl, SetBlock, ClearBlock
<1>2. ASSUME Kind(t) = "usage"
      PROVE  day \in Days /\ request[t].body.policy \in {q.body.policy : q \in {r \in Requests : r.kind = "usage"}}
  BY <1>1, <1>2, TypeParts, Served DEF Kind
<1>3. CASE ReadUsage(t)
  <2>1. Kind(t) = "usage" /\ day \in Days
    BY <1>2, <1>3 DEF ReadUsage, Kind
  <2>2. <<day, d>> \in Rows
    BY <1>1, <2>1, LockableRows
  <2>3. ThreadsOK' /\ Moved(t) /\ pc'[t] = "store_usage" /\ request'[t] = request[t]
    BY <1>3, <1>1, <2>2, TypeParts, Continued, Locked DEF ReadUsage, Statements
  <2>4. usageSeen' = [usageSeen EXCEPT ![t] = usage[d][day]]
        /\ UNCHANGED <<usage, webEvents, override, controlEvents>>
    BY <1>3 DEF ReadUsage, Row
  <2>5. ControlsOK'
    BY <1>1, <2>1, <2>4, TypeParts DEF ControlsOK
  <2>6. TypeOK'
    BY <2>3, <2>5, TypeParts, TypeWhole, AuthenticationUntouched, StatusUntouched, SyncUntouched
  <2>7. Frame(t)
    BY <2>3, <2>4, TypeParts, AuthenticationUntouched, StatusUntouched, SyncUntouched
       DEF Frame, Moved, ControlsOK
  <2> QED
    BY <1>3, <2>1, <2>3, <2>6, <2>7 DEF Kept, ShapeOf, Kind, ReadUsage
<1>4. CASE RefuseUsage(t) \/ StoreUsage(t) \/ StoreWebEvent(t)
  <2>1. ThreadsOK' /\ Moved(t) /\ pc'[t] = "idle"
    BY <1>4, TypeParts, Finished DEF RefuseUsage, StoreUsage, StoreWebEvent, EndUsage
  <2>2. /\ UNCHANGED <<override, controlEvents>>
        /\ usageSeen' \in {usageSeen, [usageSeen EXCEPT ![t] = NoUsage]}
    BY <1>4 DEF RefuseUsage, StoreUsage, StoreWebEvent, EndUsage
  <2>3. usage' \in [Devices -> [Days -> UsageRows \union {NoUsage}]]
    <3>1. CASE UNCHANGED usage
      BY <3>1, TypeParts DEF ControlsOK
    <3>2. CASE ~ UNCHANGED usage
      <4>1. StoreUsage(t)
        BY <1>4, <3>2 DEF RefuseUsage, StoreWebEvent
      <4>2. Kind(t) = "usage"
        BY <4>1 DEF StoreUsage, Shape, ShapeOf
      <4>3. usage' = [usage EXCEPT ![d][day] =
                        [minutes |-> request[t].body.minutes, policy |-> request[t].body.policy]]
        BY <3>2, <4>1 DEF StoreUsage
      <4>4. request[t].body.minutes \in 0 .. MinutesOfDay
        BY <4>1 DEF StoreUsage, Shape, ShapeOf
      <4> QED
        BY <1>1, <1>2, <4>2, <4>3, <4>4, TypeParts DEF ControlsOK, UsageRows
    <3> QED
      BY <3>1, <3>2
  <2>4. ControlsOK'
    BY <2>2, <2>3, TypeParts DEF ControlsOK
  <2>5. TypeOK'
    BY <2>1, <2>4, TypeParts, TypeWhole, AuthenticationUntouched, StatusUntouched, SyncUntouched
  <2>6. Frame(t)
    BY <2>1, <2>2, TypeParts, AuthenticationUntouched, StatusUntouched, SyncUntouched
       DEF Frame, Moved, ControlsOK
  <2> QED
    BY <2>1, <2>5, <2>6 DEF Kept, ShapeOf
<1>5. CASE LockForControl(t)
  <2>1. <<"device", d>> \in Rows
    BY <1>1, LockableRows
  <2>2. /\ ThreadsOK' /\ Moved(t)
        /\ pc'[t] \in {"idle", "set_override"}
        /\ pc'[t] = "set_override" => request'[t] = request[t]
    BY <1>5, <1>1, <2>1, TypeParts, Finished, Locked DEF LockForControl, LockDeviceRow, Statements
  <2>3. UNCHANGED controls
    BY <1>5 DEF LockForControl
  <2>4. TypeOK'
    BY <2>2, <2>3, TypeParts, TypeWhole, AuthenticationUntouched, StatusUntouched,
       ControlsUntouched, SyncUntouched
  <2>5. Frame(t)
    BY <2>2, <2>3, TypeParts, AuthenticationUntouched, StatusUntouched, ControlsUntouched,
       SyncUntouched DEF Frame, Moved
  <2> QED
    BY <1>5, <2>2, <2>4, <2>5 DEF Kept, ShapeOf, Kind, LockForControl, Administrative
<1>6. CASE SetBlock(t) \/ ClearBlock(t)
  <2>1. ThreadsOK' /\ Moved(t) /\ pc'[t] = "idle"
    BY <1>6, TypeParts, Finished DEF SetBlock, ClearBlock
  <2>2. CASE UNCHANGED controls
    BY <2>1, <2>2, TypeParts, TypeWhole, AuthenticationUntouched, StatusUntouched,
       ControlsUntouched, SyncUntouched DEF Frame, Moved, Kept, ShapeOf
  <2>3. CASE ~ UNCHANGED controls
    <3>1. Kind(t) \in Administrative
      BY <1>6 DEF SetBlock, ClearBlock, Kind, Administrative
    <3>2. override[d] \in [version : Nat, active : BOOLEAN] \union {NoOverride}
      BY <1>1, TypeParts DEF ControlsOK
    <3>3. PICK row \in [version : Nat, active : BOOLEAN] : Change(t, row)
      <4>1. CASE SetBlock(t)
        <5>1. Change(t, BlockedRow(d))
          BY <2>3, <4>1 DEF SetBlock
        <5>2. BlockedRow(d) \in [version : Nat, active : BOOLEAN]
          BY <3>2 DEF BlockedRow
        <5> QED
          BY <5>1, <5>2
      <4>2. CASE ClearBlock(t)
        <5>1. Change(t, ClearedRow(d)) /\ Blocked(d)
          BY <2>3, <4>2 DEF ClearBlock
        <5>2. ClearedRow(d) \in [version : Nat, active : BOOLEAN]
          BY <3>2, <5>1 DEF ClearedRow, Blocked
        <5> QED
          BY <5>1, <5>2
      <4> QED
        BY <1>6, <4>1, <4>2
    <3>4. controlEvents' = [controlEvents EXCEPT ![d] = Append(controlEvents[d], Kind(t))]
          /\ override' = [override EXCEPT ![d] = row]
          /\ UNCHANGED <<usage, usageSeen, webEvents>>
      BY <3>3 DEF Change, Kind
    <3>5. Append(controlEvents[d], Kind(t)) \in Seq(Administrative)
      BY <1>1, <3>1, TypeParts, Appended DEF ControlsOK
    <3>6. ControlsOK'
      BY <1>1, <3>3, <3>4, <3>5, TypeParts DEF ControlsOK
    <3>7. TypeOK'
      BY <2>1, <3>6, TypeParts, TypeWhole, AuthenticationUntouched, StatusUntouched, SyncUntouched
    <3>8. Frame(t)
      BY <2>1, <3>4, TypeParts, AuthenticationUntouched, StatusUntouched, SyncUntouched
         DEF Frame, Moved
    <3> QED
      BY <2>1, <3>7, <3>8 DEF Kept, ShapeOf
  <2> QED
    BY <2>2, <2>3
<1> QED
  BY <1>3, <1>4, <1>5, <1>6 DEF ControlsStep
-----------------------------------------------------------------------------
\* The steps of a policy synchronization.
LEMMA DecideTyped ==
  ASSUME TypeOK, NEW t \in Threads, NEW o \in Operations, NEW c \in Outcomes, NEW r \in Desired,
         Decide(t, o, c, r)
  PROVE  /\ answer' \in [Threads -> [operation : Operations, outcome : Outcomes,
                                     desired : Desired, requested : 0 .. now]]
         /\ answer'[t].desired = r
         /\ \A u \in Threads \ {t} : answer'[u] = answer[u]
<1>1. now \in 0 .. now
  BY TypeParts, HorizonAssumption DEF AuthenticationOK, ThreadsOK
<1> QED
  BY <1>1, TypeParts DEF Decide, PolicySyncOK

LEMMA EndSyncTyped ==
  ASSUME TypeOK, NEW t \in Threads, EndSync(t), UNCHANGED workload
  PROVE  /\ ThreadsOK' /\ Moved(t) /\ pc'[t] = "idle"
         /\ answer' \in [Threads -> [operation : Operations, outcome : Outcomes,
                                     desired : Desired, requested : 0 .. now]]
         /\ headSeen' \in [Threads -> Nat]
         /\ \A u \in Threads \ {t} : answer'[u] = answer[u] /\ headSeen'[u] = headSeen[u]
<1>1. 0 \in 0 .. now
  BY TypeParts, HorizonAssumption DEF AuthenticationOK, ThreadsOK
<1>2. NoAnswer \in [operation : Operations, outcome : Outcomes, desired : Desired,
                    requested : 0 .. now]
  BY <1>1 DEF NoAnswer, Operations, Outcomes, Desired
<1> QED
  BY <1>2, TypeParts, Finished DEF EndSync, PolicySyncOK

LEMMA SyncKept ==
  ASSUME TypeOK, Shape, NEW t \in Threads, SyncStep(t),
         UNCHANGED authentication, UNCHANGED status, UNCHANGED controls,
         UNCHANGED workload
  PROVE  Kept(t)
<1> DEFINE d == DeviceOf(t)
<1>1. pc[t] # "idle" /\ d \in Devices /\ Kind(t) = "sync" /\ request[t].body \in Bodies
  <2>1. pc[t] # "idle" /\ Kind(t) = "sync"
    BY DEF SyncStep, ReadAssignment, ReadPolicy, LockSyncDevice, LockChain, StoreSyncEvent,
       Shape, ShapeOf, Kind
  <2> QED
    BY <2>1, TypeParts, Served
<1>2. now' = now
  BY TypeParts, AuthenticationUntouched
<1>3. CASE ReadAssignment(t)
  <2>1. \E o \in Operations, c \in Outcomes, r \in Desired :
          /\ Decide(t, o, c, r)
          /\ \/ Continue(t, "lock_device")
             \/ Continue(t, "read_policy") /\ r \in Revisions
    BY <1>1, <1>3, TypeParts
       DEF ReadAssignment, OperationUnassigned, Operations, Outcomes, Desired, PolicySyncOK
  <2>2. PICK o \in Operations, c \in Outcomes, r \in Desired :
          /\ Decide(t, o, c, r)
          /\ \/ Continue(t, "lock_device")
             \/ Continue(t, "read_policy") /\ r \in Revisions
    BY <2>1
  <2>3. /\ ThreadsOK' /\ Moved(t) /\ request'[t] = request[t]
        /\ pc'[t] \in {"lock_device", "read_policy"}
        /\ pc'[t] = "read_policy" => r \in Revisions
    BY <1>1, <2>2, TypeParts, Continued DEF Statements
  <2>4. /\ answer' \in [Threads -> [operation : Operations, outcome : Outcomes,
                                    desired : Desired, requested : 0 .. now]]
        /\ answer'[t].desired = r
        /\ \A u \in Threads \ {t} : answer'[u] = answer[u]
    BY <2>2, DecideTyped
  <2>5. PolicySyncOK' /\ headSeen' = headSeen
    BY <1>2, <1>3, <2>4, TypeParts DEF ReadAssignment, reading, PolicySyncOK
  <2>6. TypeOK'
    BY <2>3, <2>5, TypeParts, TypeWhole, AuthenticationUntouched, StatusUntouched, ControlsUntouched
  <2>7. Frame(t)
    BY <2>3, <2>4, <2>5, TypeParts, AuthenticationUntouched, StatusUntouched, ControlsUntouched
       DEF Frame, Moved
  <2> QED
    BY <1>1, <2>3, <2>4, <2>6, <2>7 DEF Kept, ShapeOf, Kind
<1>4. CASE ReadPolicy(t)
  <2>1. UNCHANGED <<assigned, policyStatus, syncEvents, syncHead>>
    BY <1>4 DEF ReadPolicy
  <2>2. CASE EndSync(t)
    <3>1. PolicySyncOK'
      BY <1>2, <2>1, <2>2, TypeParts, EndSyncTyped DEF PolicySyncOK
    <3>2. TypeOK'
      BY <2>2, <3>1, TypeParts, TypeWhole, EndSyncTyped, AuthenticationUntouched,
         StatusUntouched, ControlsUntouched
    <3>3. Frame(t)
      BY <2>2, TypeParts, EndSyncTyped, AuthenticationUntouched, StatusUntouched,
         ControlsUntouched DEF Frame, Moved
    <3> QED
      BY <2>2, <3>2, <3>3, EndSyncTyped DEF Kept, ShapeOf
  <2>3. CASE ~ EndSync(t)
    <3>1. answer[t].desired \in Revisions
      BY <1>4 DEF ReadPolicy, Shape, ShapeOf
    <3>2. OperationAssigned(request[t].body, answer[t].desired) \in Operations
      BY DEF OperationAssigned, Operations
    <3>3. \E o \in Operations, c \in Outcomes, r \in Desired : Decide(t, o, c, r)
      BY <1>4, <2>3, <3>1, <3>2 DEF ReadPolicy, Operations, Outcomes, Desired
    <3>4. Continue(t, "lock_device") /\ UNCHANGED headSeen
      BY <1>4, <2>3 DEF ReadPolicy
    <3>5. /\ ThreadsOK' /\ Moved(t) /\ request'[t] = request[t] /\ pc'[t] = "lock_device"
      BY <1>1, <3>4, TypeParts, Continued DEF Statements
    <3>6. /\ answer' \in [Threads -> [operation : Operations, outcome : Outcomes,
                                      desired : Desired, requested : 0 .. now]]
          /\ \A u \in Threads \ {t} : answer'[u] = answer[u]
      BY <3>3, DecideTyped
    <3>7. PolicySyncOK'
      BY <1>2, <2>1, <3>4, <3>6, TypeParts DEF PolicySyncOK
    <3>8. TypeOK'
      BY <3>5, <3>7, TypeParts, TypeWhole, AuthenticationUntouched, StatusUntouched, ControlsUntouched
    <3>9. Frame(t)
      BY <3>4, <3>5, <3>6, TypeParts, AuthenticationUntouched, StatusUntouched, ControlsUntouched
         DEF Frame, Moved
    <3> QED
      BY <1>1, <3>5, <3>8, <3>9 DEF Kept, ShapeOf, Kind
  <2> QED
    BY <2>2, <2>3
<1>5. CASE LockSyncDevice(t)
  <2>1. <<"device", d>> \in Rows
    BY <1>1, LockableRows
  <2>2. /\ ThreadsOK' /\ Moved(t) /\ request'[t] = request[t] /\ pc'[t] = "lock_chain"
    BY <1>1, <1>5, <2>1, TypeParts, Continued, Locked DEF LockSyncDevice, LockDeviceRow, Statements
  <2>3. UNCHANGED synchronization
    BY <1>5 DEF LockSyncDevice
  <2>4. TypeOK'
    BY <1>2, <2>2, <2>3, TypeParts, TypeWhole, AuthenticationUntouched, StatusUntouched,
       ControlsUntouched, SyncUntouched
  <2>5. Frame(t)
    BY <1>2, <2>2, <2>3, TypeParts, AuthenticationUntouched, StatusUntouched,
       ControlsUntouched, SyncUntouched DEF Frame, Moved
  <2> QED
    BY <1>1, <2>2, <2>4, <2>5 DEF Kept, ShapeOf, Kind
<1>6. CASE LockChain(t)
  <2>1. <<"sync_chain", d>> \in Rows
    BY <1>1, LockableRows
  <2>2. /\ ThreadsOK' /\ Moved(t) /\ request'[t] = request[t] /\ pc'[t] = "store_event"
    BY <1>1, <1>6, <2>1, TypeParts, Locked DEF LockChain, Statements
  <2>3. PolicySyncOK' /\ answer' = answer /\ \A u \in Threads \ {t} : headSeen'[u] = headSeen[u]
    BY <1>1, <1>2, <1>6, TypeParts DEF LockChain, PolicySyncOK
  <2>4. TypeOK'
    BY <2>2, <2>3, TypeParts, TypeWhole, AuthenticationUntouched, StatusUntouched, ControlsUntouched
  <2>5. Frame(t)
    BY <2>2, <2>3, TypeParts, AuthenticationUntouched, StatusUntouched, ControlsUntouched
       DEF Frame, Moved
  <2> QED
    BY <1>1, <2>2, <2>4, <2>5 DEF Kept, ShapeOf, Kind
<1>7. CASE StoreSyncEvent(t)
  <2> DEFINE E == [operation : Operations, outcome : Outcomes, reported : Bodies,
                   desired : Desired, requested : 0 .. now, previous : Nat]
             e == [operation |-> answer[t].operation, outcome |-> answer[t].outcome,
                   reported |-> request[t].body, desired |-> answer[t].desired,
                   requested |-> answer[t].requested, previous |-> headSeen[t]]
  <2>1. EndSync(t) /\ UNCHANGED <<assigned, policyStatus>>
    BY <1>7 DEF StoreSyncEvent
  <2>2. /\ syncEvents' \in {syncEvents, [syncEvents EXCEPT ![d] = Append(@, e)]}
        /\ syncHead' \in {syncHead, [syncHead EXCEPT ![d] = Len(syncEvents[d]) + 1]}
    BY <1>7 DEF StoreSyncEvent
  <2>3. e \in E /\ syncEvents \in [Devices -> Seq(E)]
    BY <1>1, TypeParts DEF PolicySyncOK
  <2>4. syncEvents' \in [Devices -> Seq(E)] /\ syncHead' \in [Devices -> Nat]
    <3> HIDE DEF E, e
    <3>1. Append(syncEvents[d], e) \in Seq(E) /\ Len(syncEvents[d]) + 1 \in Nat
      BY <1>1, <2>3, Appended
    <3>2. syncHead \in [Devices -> Nat]
      BY TypeParts DEF PolicySyncOK
    <3>3. syncEvents' \in [Devices -> Seq(E)]
      BY <1>1, <2>2, <2>3, <3>1
    <3>4. syncHead' \in [Devices -> Nat]
      BY <1>1, <2>2, <3>1, <3>2
    <3> QED
      BY <3>3, <3>4
  <2>5. PolicySyncOK'
    BY <1>2, <2>1, <2>4, TypeParts, EndSyncTyped DEF PolicySyncOK
  <2>6. TypeOK'
    BY <2>1, <2>5, TypeParts, TypeWhole, EndSyncTyped, AuthenticationUntouched,
       StatusUntouched, ControlsUntouched
  <2>7. Frame(t)
    BY <2>1, TypeParts, EndSyncTyped, AuthenticationUntouched, StatusUntouched,
       ControlsUntouched DEF Frame, Moved
  <2> QED
    BY <2>1, <2>6, <2>7, EndSyncTyped DEF Kept, ShapeOf
<1> QED
  BY <1>3, <1>4, <1>5, <1>6, <1>7 DEF SyncStep
-----------------------------------------------------------------------------
LEMMA AbortKept ==
  ASSUME TypeOK, NEW t \in Threads, Abort(t)
  PROVE  Kept(t)
<1>1. ThreadsOK' /\ Moved(t) /\ pc'[t] = "idle"
  BY TypeParts, Finished DEF Abort
<1>2. 0 \in 0 .. now
  BY TypeParts, HorizonAssumption DEF AuthenticationOK, ThreadsOK
<1>3. NoAnswer \in [operation : Operations, outcome : Outcomes, desired : Desired,
                    requested : 0 .. now]
  BY <1>2 DEF NoAnswer, Operations, Outcomes, Desired
<1>4. AuthenticationOK'
  BY <1>2, TypeParts DEF Abort, AuthenticationOK
<1>5. StatusOK' /\ ControlsOK'
  BY TypeParts DEF Abort, StatusOK, ControlsOK
<1>6. PolicySyncOK'
  BY <1>3, TypeParts DEF Abort, PolicySyncOK
<1>7. TypeOK'
  BY <1>1, <1>4, <1>5, <1>6, TypeWhole
<1>8. Frame(t)
  BY <1>1, TypeParts DEF Abort, Frame, Moved, AuthenticationOK, StatusOK, ControlsOK, PolicySyncOK
<1> QED
  BY <1>1, <1>7, <1>8 DEF Kept, ShapeOf

LEMMA StepKept ==
  ASSUME TypeOK, Shape, NEW t \in Threads, Receive(t) \/ ThreadStep(t) \/ Abort(t)
  PROVE  Kept(t)
<1>1. CASE AuthenticationStep(t)
  BY <1>1, VerifyKept, StampNonceKept, RecordNonceKept DEF AuthenticationStep
<1>2. CASE HandlerStep(t)
  BY <1>2, StatusKept, ControlsKept, SyncKept DEF HandlerStep
<1> QED
  BY <1>1, <1>2, ReceiveKept, AbortKept DEF ThreadStep
-----------------------------------------------------------------------------
\* What happens besides the threads.
Meanwhile == Environment /\ UNCHANGED <<threads, status, controls, workload>>

LEMMA Widened ==
  ASSUME NEW S, NEW T, S \subseteq T, NEW s \in Seq(S)
  PROVE  s \in Seq(T)
OBVIOUS

LEMMA MeanwhileKeeps ==
  ASSUME TypeOK, Meanwhile
  PROVE  /\ UNCHANGED threads /\ UNCHANGED status /\ UNCHANGED controls /\ UNCHANGED workload
         /\ pc' = pc /\ request' = request /\ lock' = lock
         /\ answer' = answer /\ headSeen' = headSeen
         /\ syncEvents' = syncEvents /\ syncHead' = syncHead
         /\ now' \in {now, now + 1} /\ now' \in 0 .. workload.horizon
         /\ nonces' = nonces /\ recordedAt' = recordedAt /\ accepted' = accepted
<1>1. /\ UNCHANGED threads /\ UNCHANGED status /\ UNCHANGED controls /\ UNCHANGED workload
      /\ pc' = pc /\ request' = request /\ lock' = lock
  BY DEF Meanwhile, threads
<1>2. now \in 0 .. workload.horizon /\ workload.horizon \in Nat
  BY TypeParts, HorizonAssumption DEF AuthenticationOK, ThreadsOK
<1>3. CASE now < workload.horizon /\ Tick /\ UNCHANGED synchronization
  BY <1>1, <1>2, <1>3 DEF Tick, synchronization
<1>4. CASE UNCHANGED synchronization
           /\ (\/ \E c \in Credentials : RevokeCredential(c)
               \/ \E e \in Registered : SuspendDevice(e))
  BY <1>1, <1>2, <1>4 DEF RevokeCredential, SuspendDevice, synchronization
<1>5. CASE UNCHANGED authentication
           /\ (\/ \E e \in Registered, r \in Revisions \union {NoRevision} : Reassign(e, r)
               \/ \E p \in DOMAIN policyStatus, l \in {"active", "inactive", "revoked"} :
                    SetLifecycle(p, l))
  BY <1>1, <1>2, <1>5 DEF Reassign, SetLifecycle, authentication
<1> QED
  BY <1>3, <1>4, <1>5 DEF Meanwhile, Environment

LEMMA MeanwhileKept ==
  ASSUME TypeOK, Shape, Meanwhile
  PROVE  TypeOK' /\ Shape'
<1>1. /\ UNCHANGED threads /\ UNCHANGED status /\ UNCHANGED controls /\ UNCHANGED workload
      /\ pc' = pc /\ request' = request /\ lock' = lock
      /\ answer' = answer /\ headSeen' = headSeen
      /\ syncEvents' = syncEvents /\ syncHead' = syncHead
      /\ now' \in {now, now + 1} /\ now' \in 0 .. workload.horizon
      /\ nonces' = nonces /\ recordedAt' = recordedAt /\ accepted' = accepted
  BY MeanwhileKeeps
<1>2. 0 .. now \subseteq 0 .. now'
  BY <1>1, TypeParts DEF AuthenticationOK
<1>3. ThreadsOK' /\ Shape'
  BY <1>1, TypeParts DEF threads, ThreadsOK, Shape, ShapeOf, Kind
<1>4. StatusOK' /\ ControlsOK'
  BY <1>1, TypeParts, StatusUntouched, ControlsUntouched
<1>5. /\ credentialStatus' \in [Credentials -> {"active", "revoked"}]
      /\ deviceStatus' \in [Devices -> {"active", "suspended"}]
  BY TypeParts, AuthenticationAssumption DEF Meanwhile, Environment, Tick, RevokeCredential,
     SuspendDevice, authentication, AuthenticationOK
<1>6. AuthenticationOK'
  <2> DEFINE S == [request : workload.requests, at : 0 .. now]
             T == [request : workload.requests, at : 0 .. now']
  <2>1. S \subseteq T /\ accepted \in Seq(S)
    BY <1>2, TypeParts DEF AuthenticationOK
  <2>2. accepted' \in Seq(T)
    <3> HIDE DEF S, T
    <3> QED
      BY <1>1, <2>1, Widened
  <2>3. recordedAt' \in [Threads -> 0 .. now']
    BY <1>1, <1>2, TypeParts DEF AuthenticationOK
  <2> QED
    BY <1>1, <1>5, <2>2, <2>3, TypeParts DEF AuthenticationOK
<1>7. /\ assigned' \in [Devices -> Desired]
      /\ policyStatus' \in [{PolicyOf[r] : r \in Revisions} -> {"active", "inactive", "revoked"}]
  BY TypeParts, AuthenticationAssumption DEF Meanwhile, Environment, Reassign, SetLifecycle,
     synchronization, PolicySyncOK, Desired
<1>8. PolicySyncOK'
  <2> DEFINE S == [operation : Operations, outcome : Outcomes, reported : Bodies,
                   desired : Desired, requested : 0 .. now, previous : Nat]
             T == [operation : Operations, outcome : Outcomes, reported : Bodies,
                   desired : Desired, requested : 0 .. now', previous : Nat]
  <2>1. S \subseteq T /\ syncEvents \in [Devices -> Seq(S)]
    BY <1>2, TypeParts DEF PolicySyncOK
  <2>2. syncEvents' \in [Devices -> Seq(T)]
    <3> HIDE DEF S, T
    <3>1. \A d \in Devices : syncEvents[d] \in Seq(T)
      BY <2>1, Widened
    <3> QED
      BY <1>1, <2>1, <3>1
  <2>3. answer' \in [Threads -> [operation : Operations, outcome : Outcomes,
                                desired : Desired, requested : 0 .. now']]
    BY <1>1, <1>2, TypeParts DEF PolicySyncOK
  <2> QED
    BY <1>1, <1>7, <2>2, <2>3, TypeParts DEF PolicySyncOK
<1> QED
  BY <1>3, <1>4, <1>6, <1>8, TypeWhole

LEMMA Stuttering ==
  ASSUME UNCHANGED vars
  PROVE  /\ UNCHANGED threads /\ UNCHANGED authentication /\ UNCHANGED status
         /\ UNCHANGED controls /\ UNCHANGED synchronization /\ UNCHANGED workload
BY DEF vars

LEMMA NextKept ==
  ASSUME TypeOK, Shape, [Next]_vars
  PROVE  TypeOK' /\ Shape'
<1>1. CASE \E t \in Threads : Receive(t) \/ ThreadStep(t) \/ Abort(t)
  BY <1>1, StepKept, ShapeFrame DEF Kept
<1>2. CASE Meanwhile
  BY <1>2, MeanwhileKept
<1>3. CASE UNCHANGED vars
  <2>1. ThreadsOK' /\ Shape'
    BY <1>3, Stuttering, TypeParts, SyncUntouched DEF threads, ThreadsOK, Shape, ShapeOf, Kind,
       synchronization
  <2> QED
    BY <1>3, <2>1, Stuttering, TypeParts, TypeWhole, AuthenticationUntouched, StatusUntouched,
       ControlsUntouched, SyncUntouched
<1> QED
  BY <1>1, <1>2, <1>3 DEF Next, Meanwhile

LEMMA InitKept == Init => TypeOK /\ Shape
<1> SUFFICES ASSUME Init PROVE TypeOK /\ Shape
  OBVIOUS
<1>1. 0 \in 0 .. workload.horizon /\ 0 \in 0 .. now /\ now = 0
  BY HorizonAssumption DEF Init, AuthenticationInit
<1>2. ThreadsOK /\ Shape
  BY DEF Init, ThreadsInit, ThreadsOK, Shape, ShapeOf
<1>3. AuthenticationOK
  BY <1>1 DEF Init, AuthenticationInit, AuthenticationOK
<1>4. StatusOK /\ ControlsOK
  BY DEF Init, StatusInit, StatusOK, ControlsInit, ControlsOK
<1>5. NoAnswer \in [operation : Operations, outcome : Outcomes, desired : Desired,
                    requested : 0 .. now]
  BY <1>1 DEF NoAnswer, Operations, Outcomes, Desired
<1>6. PolicySyncOK
  BY <1>5 DEF Init, PolicySyncInit, PolicySyncOK, Desired
<1> QED
  BY <1>2, <1>3, <1>4, <1>6, TypeParts

\* Types: every thread runs a request it was given, and every row holds what its
\* columns may.
THEOREM Typing == Spec => []TypeOK
<1>1. TypeOK /\ Shape /\ [Next]_vars => TypeOK' /\ Shape'
  BY NextKept
<1> QED
  BY <1>1, InitKept, PTL DEF Spec
=============================================================================
