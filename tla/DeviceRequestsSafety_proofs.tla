--------------------- MODULE DeviceRequestsSafety_proofs ---------------------
(***************************************************************************)
(* The safety properties of DeviceRequests, for any devices, credentials,  *)
(* requests and number of threads.                                         *)
(*                                                                         *)
(* Each rests on what a thread still knows at a later statement: that the  *)
(* row it has locked is as it read it (HeadHeld, StateHeld), that the UUID *)
(* it has inserted is taken by nobody else (UuidHeld), that the operation  *)
(* it is going to store was decided for the identity its client reported   *)
(* (AnswerReaches), and that the timestamp it has compared is not ahead of *)
(* the time it puts on the nonce (StampCompared, NonceKept).               *)
(***************************************************************************)
EXTENDS DeviceRequests_proofs

Step(t) == Receive(t) \/ ThreadStep(t) \/ Abort(t)

\* A row that another thread holds stays with it.
LEMMA LocksStay ==
  ASSUME TypeOK, NEW t \in Threads, Frame(t), NEW u \in Threads \ {t}, NEW r \in Rows,
         lock[r] = u
  PROVE  lock'[r] = u
BY ThreadsAssumption DEF Frame

\* An invariant that Next preserves where types and shape are invariants holds.
LEMMA NextCases ==
  ASSUME [Next]_vars
  PROVE  \/ \E t \in Threads : Step(t)
         \/ Meanwhile
         \/ UNCHANGED vars
BY DEF Next, Step, Meanwhile
-----------------------------------------------------------------------------
\* The evidence of synchronization.
HeadHeld ==
  \A t \in Threads :
    pc[t] = "store_event" =>
      /\ lock[<<"sync_chain", DeviceOf(t)>>] = t
      /\ headSeen[t] = syncHead[DeviceOf(t)]

LEMMA SyncQuiet ==
  ASSUME TypeOK, Shape, NEW t \in Threads, Step(t), ~ LockChain(t), ~ StoreSyncEvent(t)
  PROVE  UNCHANGED <<syncEvents, syncHead>> /\ pc'[t] # "store_event"
<1>0. pc \in [Threads -> Statements \union {"idle"}]
  BY TypeParts DEF ThreadsOK, Statements
<1>1. CASE Receive(t) \/ Abort(t)
  BY <1>0, <1>1 DEF Receive, Abort, Goto, Finish, synchronization
<1>2. CASE AuthenticationStep(t)
  BY <1>0, <1>2 DEF AuthenticationStep, Verify, StampNonce, RecordNonce, Continue, Goto, Finish,
     synchronization
<1>3. CASE StatusStep(t) /\ UNCHANGED synchronization
  BY <1>0, <1>3 DEF StatusStep, StartReport, InsertReport, ReadState, StoreStatus, Refuse,
     ReplayReport, Continue, LockRow, Goto, Finish, synchronization
<1>4. CASE ControlsStep(t) /\ UNCHANGED synchronization
  BY <1>0, <1>4 DEF ControlsStep, ReadUsage, RefuseUsage, StoreUsage, StoreWebEvent, EndUsage,
     LockForControl, LockDeviceRow, SetBlock, ClearBlock, Continue, LockRow, Goto, Finish,
     synchronization
<1>5. CASE ReadAssignment(t) \/ ReadPolicy(t) \/ LockSyncDevice(t)
  BY <1>0, <1>5 DEF ReadAssignment, ReadPolicy, LockSyncDevice, LockDeviceRow, EndSync, Continue,
     LockRow, Goto, Finish, synchronization, reading
<1> QED
  BY <1>1, <1>2, <1>3, <1>4, <1>5 DEF Step, ThreadStep, HandlerStep, SyncStep

LEMMA LinkedKept ==
  ASSUME TypeOK, Shape, SyncEvidenceLinked, HeadHeld, NEW t \in Threads, Step(t)
  PROVE  SyncEvidenceLinked' /\ HeadHeld'
<1> DEFINE d == DeviceOf(t)
<1>1. Kept(t)
  BY StepKept DEF Step
<1>2. ASSUME NEW u \in Threads \ {t}, pc'[u] = "store_event"
      PROVE  /\ pc[u] = "store_event" /\ DeviceOf(u)' = DeviceOf(u) /\ DeviceOf(u) \in Devices
             /\ lock[<<"sync_chain", DeviceOf(u)>>] = u
             /\ lock'[<<"sync_chain", DeviceOf(u)>>] = u
             /\ headSeen'[u] = syncHead[DeviceOf(u)]
  <2>1. pc[u] = "store_event" /\ request'[u] = request[u] /\ headSeen'[u] = headSeen[u]
    BY <1>1, <1>2 DEF Kept, Frame
  <2>2. DeviceOf(u) \in Devices
    BY <2>1, TypeParts, Served
  <2>3. <<"sync_chain", DeviceOf(u)>> \in Rows
    BY <2>2, LockableRows
  <2> QED
    BY <1>1, <2>1, <2>2, <2>3, LocksStay DEF Kept, HeadHeld, DeviceOf
<1>3. CASE ~ LockChain(t) /\ ~ StoreSyncEvent(t)
  <2>1. UNCHANGED <<syncEvents, syncHead>> /\ pc'[t] # "store_event"
    BY <1>3, SyncQuiet
  <2> QED
    BY <1>2, <2>1 DEF SyncEvidenceLinked, HeadHeld
<1>4. CASE LockChain(t)
  <2>1. pc[t] # "idle" /\ d \in Devices /\ <<"sync_chain", d>> \in Rows
    BY <1>4, TypeParts, Served, LockableRows DEF LockChain
  <2>2. /\ UNCHANGED <<syncEvents, syncHead>> /\ DeviceOf(t)' = d
        /\ lock'[<<"sync_chain", d>>] = t /\ headSeen'[t] = syncHead[d]
    BY <1>4, <2>1, TypeParts DEF LockChain, LockRow, ThreadsOK, PolicySyncOK, DeviceOf
  <2> QED
    BY <1>2, <2>2 DEF SyncEvidenceLinked, HeadHeld
<1>5. CASE StoreSyncEvent(t)
  <2>1. pc[t] # "idle" /\ d \in Devices /\ pc'[t] # "store_event"
    BY <1>5, TypeParts, Served DEF StoreSyncEvent, EndSync, Finish, ThreadsOK
  <2>2. /\ headSeen[t] = syncHead[d] /\ syncHead[d] = Len(syncEvents[d])
        /\ lock[<<"sync_chain", d>>] = t
    BY <1>5, <2>1 DEF StoreSyncEvent, HeadHeld, SyncEvidenceLinked
  <2>3. PICK e : /\ syncEvents' = [syncEvents EXCEPT ![d] = Append(@, e)]
                 /\ syncHead' = [syncHead EXCEPT ![d] = Len(syncEvents[d]) + 1]
                 /\ e.previous = headSeen[t]
    BY <1>5, <2>2 DEF StoreSyncEvent
  <2>4. SyncEvidenceLinked'
    <3>1. ASSUME NEW c \in Devices PROVE syncHead'[c] = Len(syncEvents'[c])
      <4>1. syncEvents[c] \in Seq([operation : Operations, outcome : Outcomes,
                                   reported : Bodies, desired : Desired,
                                   requested : 0 .. now, previous : Nat])
        BY TypeParts DEF PolicySyncOK
      <4>2. Len(Append(syncEvents[c], e)) = Len(syncEvents[c]) + 1
        BY <4>1
      <4> QED
        BY <2>1, <2>3, <4>2, TypeParts DEF PolicySyncOK, SyncEvidenceLinked
    <3>2. ASSUME NEW c \in Devices, NEW i \in 1 .. Len(syncEvents'[c])
          PROVE  syncEvents'[c][i].previous = i - 1
      <4>1. syncEvents[c] \in Seq([operation : Operations, outcome : Outcomes,
                                   reported : Bodies, desired : Desired,
                                   requested : 0 .. now, previous : Nat])
        BY TypeParts DEF PolicySyncOK
      <4>2. /\ Len(Append(syncEvents[c], e)) = Len(syncEvents[c]) + 1
            /\ \A j \in 1 .. Len(syncEvents[c]) : Append(syncEvents[c], e)[j] = syncEvents[c][j]
            /\ Append(syncEvents[c], e)[Len(syncEvents[c]) + 1] = e
            /\ Len(syncEvents[c]) \in Nat
        BY <4>1
      <4>3. CASE c # d
        BY <2>3, <3>2, <4>3, TypeParts DEF PolicySyncOK, SyncEvidenceLinked
      <4>4. CASE c = d
        <5>1. syncEvents'[c] = Append(syncEvents[c], e)
          BY <2>3, <4>4, TypeParts DEF PolicySyncOK
        <5>2. CASE i = Len(syncEvents[c]) + 1
          BY <2>2, <2>3, <4>2, <4>4, <5>1, <5>2
        <5>3. CASE i \in 1 .. Len(syncEvents[c])
          BY <4>2, <5>1, <5>3 DEF SyncEvidenceLinked
        <5> QED
          BY <3>2, <4>2, <5>1, <5>2, <5>3
      <4> QED
        BY <4>3, <4>4
    <3> QED
      BY <3>1, <3>2 DEF SyncEvidenceLinked
  <2>5. ASSUME NEW u \in Threads \ {t}, pc'[u] = "store_event"
        PROVE  syncHead'[DeviceOf(u)] = syncHead[DeviceOf(u)]
    <3>1. DeviceOf(u) # d /\ DeviceOf(u) \in Devices
      BY <1>2, <2>2, <2>5
    <3> QED
      BY <2>3, <3>1, TypeParts DEF PolicySyncOK
  <2>6. HeadHeld'
    <3> SUFFICES ASSUME NEW u \in Threads, pc'[u] = "store_event"
                 PROVE  /\ lock'[<<"sync_chain", DeviceOf(u)'>>] = u
                        /\ headSeen'[u] = syncHead'[DeviceOf(u)']
      BY DEF HeadHeld
    <3>1. u \in Threads \ {t}
      BY <2>1
    <3> QED
      BY <1>2, <2>5, <3>1
  <2> QED
    BY <2>4, <2>6
<1> QED
  BY <1>3, <1>4, <1>5

\* Synchronization evidence is one chain per device, whatever runs together.
THEOREM EvidenceStaysLinked == Spec => []SyncEvidenceLinked
<1>1. Init => SyncEvidenceLinked /\ HeadHeld
  BY DEF Init, ThreadsInit, PolicySyncInit, SyncEvidenceLinked, HeadHeld
<1>2. TypeOK /\ Shape /\ SyncEvidenceLinked /\ HeadHeld /\ [Next]_vars
        => SyncEvidenceLinked' /\ HeadHeld'
  <2> SUFFICES ASSUME TypeOK, Shape, SyncEvidenceLinked, HeadHeld, [Next]_vars
               PROVE  SyncEvidenceLinked' /\ HeadHeld'
    OBVIOUS
  <2>1. CASE \E t \in Threads : Step(t)
    BY <2>1, LinkedKept
  <2>2. CASE Meanwhile
    BY <2>2, MeanwhileKeeps DEF SyncEvidenceLinked, HeadHeld, DeviceOf
  <2>3. CASE UNCHANGED vars
    BY <2>3, Stuttering DEF threads, synchronization, SyncEvidenceLinked, HeadHeld, DeviceOf
  <2> QED
    BY <2>1, <2>2, <2>3, NextCases
<1>3. TypeOK /\ Shape /\ [Next]_vars => TypeOK' /\ Shape'
  BY NextKept
<1> QED
  BY <1>1, <1>2, <1>3, InitKept, PTL DEF Spec
-----------------------------------------------------------------------------
\* What a synchronization is about to store takes the client where it should.
Reaches(event) ==
  event.outcome \in {"success", "no_assignment"} /\ Identified(event.reported)
    => Held(event) = event.desired

EventOf(t) ==
  [operation |-> answer[t].operation, outcome |-> answer[t].outcome,
   reported |-> request[t].body, desired |-> answer[t].desired,
   requested |-> answer[t].requested, previous |-> headSeen[t]]

AnswerReaches ==
  \A t \in Threads :
    pc[t] \in {"lock_device", "lock_chain", "store_event"} => Reaches(EventOf(t))

\* The decision of each branch, for a client with any identity.
LEMMA UnassignedReaches ==
  ASSUME NEW client, client.revision \in Revisions \union {NoRevision}, ValidClient(client),
         NEW event, event.operation = OperationUnassigned(client),
         event.reported = client, event.desired = NoRevision
  PROVE  Reaches(event)
<1> SUFFICES ASSUME Identified(client) PROVE Held(event) = NoRevision
  BY DEF Reaches
<1>1. CASE client.revision = NoRevision
  BY <1>1 DEF Held, OperationUnassigned
<1>2. CASE client.revision # NoRevision
  <2>1. client.version \in Nat \ {0}
    BY <1>2, SyncAssumption DEF Identified
  <2>2. OperationUnassigned(client) = "clear"
    BY <1>2, <2>1, SyncAssumption DEF OperationUnassigned
  <2> QED
    BY <2>2 DEF Held
<1> QED
  BY <1>1, <1>2

LEMMA AssignedReaches ==
  ASSUME NEW client, client.revision \in Revisions \union {NoRevision},
         NEW r \in Revisions,
         NEW event, event.operation = OperationAssigned(client, r),
         event.reported = client, event.desired = r
  PROVE  Reaches(event)
<1> SUFFICES ASSUME Identified(client) PROVE Held(event) = r
  BY DEF Reaches
<1>1. client.version # NoVersion /\ VersionOf[r] # 0
  BY SyncAssumption DEF Identified
<1>2. CASE client.revision = r
  BY <1>1, <1>2 DEF Held, OperationAssigned
<1>3. CASE client.revision = NoRevision
  <2>1. client.version = 0
    BY <1>3 DEF Identified
  <2>2. OperationAssigned(client, r) = "apply"
    BY <1>1, <1>3, <2>1, SyncAssumption DEF OperationAssigned
  <2> QED
    BY <2>2 DEF Held
<1>4. CASE client.revision \notin {r, NoRevision}
  <2>1. OperationAssigned(client, r) \in {"apply", "rollback"}
    BY <1>1, <1>4 DEF OperationAssigned
  <2> QED
    BY <2>1 DEF Held
<1> QED
  BY <1>2, <1>3, <1>4

Deciding == {"lock_device", "lock_chain", "store_event"}

LEMMA DecidingQuiet ==
  ASSUME TypeOK, Shape, NEW t \in Threads, Step(t), ~ SyncStep(t)
  PROVE  UNCHANGED <<syncEvents, syncHead>> /\ pc'[t] \notin Deciding
<1>0. pc \in [Threads -> Statements \union {"idle"}]
  BY TypeParts DEF ThreadsOK, Statements
<1>1. CASE Receive(t) \/ Abort(t)
  BY <1>0, <1>1 DEF Receive, Abort, Goto, Finish, synchronization, Deciding
<1>2. CASE AuthenticationStep(t)
  BY <1>0, <1>2 DEF AuthenticationStep, Verify, StampNonce, RecordNonce, Continue, Goto, Finish,
     synchronization, Deciding
<1>3. CASE StatusStep(t) /\ UNCHANGED synchronization
  BY <1>0, <1>3 DEF StatusStep, StartReport, InsertReport, ReadState, StoreStatus, Refuse,
     ReplayReport, Continue, LockRow, Goto, Finish, synchronization, Deciding
<1>4. CASE ControlsStep(t) /\ UNCHANGED synchronization
  BY <1>0, <1>4 DEF ControlsStep, ReadUsage, RefuseUsage, StoreUsage, StoreWebEvent, EndUsage,
     LockForControl, LockDeviceRow, SetBlock, ClearBlock, Continue, LockRow, Goto, Finish,
     synchronization, Deciding
<1> QED
  BY <1>1, <1>2, <1>3, <1>4 DEF Step, ThreadStep, HandlerStep

LEMMA DecisionReaches ==
  ASSUME TypeOK, Shape, AnswerReaches, NEW t \in Threads, SyncStep(t), UNCHANGED workload,
         pc'[t] \in Deciding
  PROVE  Reaches(EventOf(t)')
<1>1. /\ pc[t] # "idle" /\ DeviceOf(t) \in Devices
      /\ request[t].body.revision \in Revisions \union {NoRevision}
  <2>1. pc[t] # "idle" /\ Kind(t) = "sync"
    BY DEF SyncStep, ReadAssignment, ReadPolicy, LockSyncDevice, LockChain, StoreSyncEvent,
       Shape, ShapeOf, Kind
  <2> QED
    BY <2>1, TypeParts, Served, RequestsAssumption DEF Kind
<1>2. request'[t] = request[t]
  BY TypeParts DEF SyncStep, ReadAssignment, ReadPolicy, LockSyncDevice, LockDeviceRow,
     LockChain, StoreSyncEvent, EndSync, Continue, LockRow, Goto, Finish, Deciding, ThreadsOK
<1>3. CASE ReadAssignment(t)
  <2>1. PICK o, c, r :
          /\ Decide(t, o, c, r)
          /\ \/ c \notin {"success", "no_assignment"}
             \/ /\ o = OperationUnassigned(request[t].body)
                /\ ValidClient(request[t].body)
                /\ r = NoRevision
    BY <1>3 DEF ReadAssignment
  <2>2. /\ EventOf(t)'.operation = o /\ EventOf(t)'.outcome = c
        /\ EventOf(t)'.desired = r /\ EventOf(t)'.reported = request[t].body
    BY <1>2, <2>1, TypeParts DEF EventOf, Decide, PolicySyncOK
  <2>3. CASE c \notin {"success", "no_assignment"}
    BY <2>2, <2>3 DEF Reaches
  <2>4. CASE c \in {"success", "no_assignment"}
    BY <1>1, <2>1, <2>2, <2>4, UnassignedReaches
  <2> QED
    BY <2>3, <2>4
<1>4. CASE ReadPolicy(t)
  <2>1. ~ EndSync(t)
    BY <1>4, TypeParts DEF EndSync, Finish, ThreadsOK, Deciding
  <2>2. PICK o, c, r :
          /\ Decide(t, o, c, r)
          /\ r = answer[t].desired
          /\ \/ c \notin {"success", "no_assignment"}
             \/ o = OperationAssigned(request[t].body, r)
    BY <1>4, <2>1 DEF ReadPolicy
  <2>3. /\ EventOf(t)'.operation = o /\ EventOf(t)'.outcome = c
        /\ EventOf(t)'.desired = r /\ EventOf(t)'.reported = request[t].body
    BY <1>2, <2>2, TypeParts DEF EventOf, Decide, PolicySyncOK
  <2>4. r \in Revisions
    BY <1>4, <2>2 DEF ReadPolicy, Shape, ShapeOf
  <2>5. CASE c \notin {"success", "no_assignment"}
    BY <2>3, <2>5 DEF Reaches
  <2>6. CASE c \in {"success", "no_assignment"}
    BY <1>1, <2>2, <2>3, <2>4, <2>6, AssignedReaches
  <2> QED
    BY <2>5, <2>6
<1>5. CASE LockSyncDevice(t) \/ LockChain(t)
  <2>1. pc[t] \in {"lock_device", "lock_chain", "store_event"} /\ answer' = answer
    BY <1>5 DEF LockSyncDevice, LockChain, synchronization
  <2> QED
    BY <1>2, <2>1 DEF AnswerReaches, Reaches, EventOf, Held
<1>6. CASE StoreSyncEvent(t)
  BY <1>6, TypeParts DEF StoreSyncEvent, EndSync, Finish, ThreadsOK, Deciding
<1> QED
  BY <1>3, <1>4, <1>5, <1>6 DEF SyncStep

LEMMA ReachedKept ==
  ASSUME TypeOK, Shape, OperationReachesDesired, AnswerReaches, NEW t \in Threads, Step(t)
  PROVE  OperationReachesDesired' /\ AnswerReaches'
<1> DEFINE d == DeviceOf(t)
<1>1. Kept(t)
  BY StepKept DEF Step
<1>2. ASSUME NEW u \in Threads \ {t}, pc'[u] \in Deciding
      PROVE  Reaches(EventOf(u)')
  <2>1. pc[u] \in Deciding /\ request'[u] = request[u] /\ answer'[u] = answer[u]
    BY <1>1, <1>2 DEF Kept, Frame
  <2>2. Reaches(EventOf(u))
    BY <2>1 DEF AnswerReaches, Deciding
  <2> QED
    BY <2>1, <2>2 DEF Reaches, EventOf, Held
<1>3. CASE ~ SyncStep(t)
  <2>1. UNCHANGED <<syncEvents, syncHead>> /\ pc'[t] \notin Deciding
    BY <1>3, DecidingQuiet
  <2> QED
    BY <1>2, <2>1 DEF OperationReachesDesired, AnswerReaches, Deciding, Held
<1>4. CASE SyncStep(t)
  <2>1. UNCHANGED workload
    BY <1>4 DEF Step, Receive, ThreadStep, AuthenticationStep, HandlerStep, Abort
  <2>2. AnswerReaches'
    <3>1. ASSUME pc'[t] \in Deciding PROVE Reaches(EventOf(t)')
      BY <1>4, <2>1, <3>1, DecisionReaches
    <3> QED
      BY <1>2, <3>1 DEF AnswerReaches, Deciding, Reaches, Held
  <2>3. CASE UNCHANGED syncEvents
    BY <2>2, <2>3 DEF OperationReachesDesired, Held
  <2>4. CASE ~ UNCHANGED syncEvents
    <3>1. StoreSyncEvent(t)
      BY <1>4, <2>4 DEF SyncStep, ReadAssignment, ReadPolicy, LockSyncDevice, LockChain,
         synchronization, reading
    <3>2. Reaches(EventOf(t)) /\ d \in Devices
      BY <3>1, TypeParts, Served DEF StoreSyncEvent, AnswerReaches
    <3>3. syncEvents' = [syncEvents EXCEPT ![d] = Append(@, EventOf(t))]
      BY <2>4, <3>1 DEF StoreSyncEvent, EventOf
    <3>4. ASSUME NEW c \in Devices, NEW i \in 1 .. Len(syncEvents'[c])
          PROVE  Reaches(syncEvents'[c][i])
      <4> DEFINE E == [operation : Operations, outcome : Outcomes, reported : Bodies,
                       desired : Desired, requested : 0 .. now, previous : Nat]
      <4>0. syncEvents[c] \in Seq(E)
        BY TypeParts DEF PolicySyncOK
      <4> HIDE DEF E
      <4>1. syncEvents[c] \in Seq(E) /\ Len(syncEvents[c]) \in Nat
        BY <4>0
      <4>2. \A j \in 1 .. Len(syncEvents[c]) : Reaches(syncEvents[c][j])
        BY DEF OperationReachesDesired, Reaches
      <4>3. CASE syncEvents'[c] = syncEvents[c]
        BY <3>4, <4>2, <4>3
      <4>4. CASE syncEvents'[c] # syncEvents[c]
        <5>1. syncEvents'[c] = Append(syncEvents[c], EventOf(t))
          BY <3>3, <4>4, TypeParts DEF PolicySyncOK
        <5>2. /\ Len(syncEvents'[c]) = Len(syncEvents[c]) + 1
              /\ \A j \in 1 .. Len(syncEvents[c]) : syncEvents'[c][j] = syncEvents[c][j]
              /\ syncEvents'[c][Len(syncEvents[c]) + 1] = EventOf(t)
          BY <4>1, <5>1
        <5>3. i \in 1 .. Len(syncEvents[c]) \/ i = Len(syncEvents[c]) + 1
          BY <3>4, <4>1, <5>2
        <5> QED
          BY <3>2, <4>2, <5>2, <5>3
      <4> QED
        BY <4>3, <4>4
    <3>5. OperationReachesDesired'
      BY <3>4 DEF OperationReachesDesired, Reaches, Held
    <3> QED
      BY <2>2, <3>5
  <2> QED
    BY <2>3, <2>4
<1> QED
  BY <1>3, <1>4

\* A client that says what it holds and does what it is told holds what was
\* assigned when it asked.
THEOREM OperationsReachDesired == Spec => []OperationReachesDesired
<1>1. Init => OperationReachesDesired /\ AnswerReaches
  BY DEF Init, ThreadsInit, PolicySyncInit, OperationReachesDesired, AnswerReaches
<1>2. TypeOK /\ Shape /\ OperationReachesDesired /\ AnswerReaches /\ [Next]_vars
        => OperationReachesDesired' /\ AnswerReaches'
  <2> SUFFICES ASSUME TypeOK, Shape, OperationReachesDesired, AnswerReaches, [Next]_vars
               PROVE  OperationReachesDesired' /\ AnswerReaches'
    OBVIOUS
  <2>1. CASE \E t \in Threads : Step(t)
    BY <2>1, ReachedKept
  <2>2. CASE Meanwhile \/ UNCHANGED vars
    <3>1. pc' = pc /\ request' = request /\ answer' = answer /\ headSeen' = headSeen
          /\ syncEvents' = syncEvents
      BY <2>2, MeanwhileKeeps, Stuttering DEF threads, synchronization
    <3> QED
      BY <3>1 DEF OperationReachesDesired, AnswerReaches, Reaches, EventOf, Held
  <2> QED
    BY <2>1, <2>2, NextCases
<1>3. TypeOK /\ Shape /\ [Next]_vars => TypeOK' /\ Shape'
  BY NextKept
<1> QED
  BY <1>1, <1>2, <1>3, InitKept, PTL DEF Spec
-----------------------------------------------------------------------------
\* What a thread knows of the state of its device when it stores a report, and
\* that the UUID it has inserted is its own.
Storing == {"read_state", "store_status"}

StateHeld ==
  \A t \in Threads :
    pc[t] = "store_status" =>
      \/ seen[t] = NoReport
      \/ /\ seen[t] = latest[Kind(t)][DeviceOf(t)]
         /\ lock[<<Kind(t), DeviceOf(t)>>] = t

ObservedTimes == \A k \in StatusKinds : \A r \in reports[k] : r.body.observed \in Nat

UuidHeld ==
  \A t \in Threads :
    pc[t] \in Storing =>
      /\ Stored(t) = {}
      /\ \A u \in Threads \ {t} :
            pc[u] \in Storing => ~ (Kind(u) = Kind(t) /\ SameUuid(ReportOf(u), ReportOf(t)))

Reported == StateIsLatest /\ StateHeld /\ ObservedTimes

Receipted == ReceiptsHonest /\ UuidHeld

LEMMA StatusQuiet ==
  ASSUME TypeOK, Shape, NEW t \in Threads, Step(t), ~ StatusStep(t)
  PROVE  UNCHANGED <<reports, latest, receipts>> /\ pc'[t] \notin Storing
<1>0. pc \in [Threads -> Statements \union {"idle"}]
  BY TypeParts DEF ThreadsOK, Statements
<1>1. CASE Receive(t) \/ Abort(t)
  BY <1>0, <1>1 DEF Receive, Abort, Goto, Finish, status, Storing
<1>2. CASE AuthenticationStep(t)
  BY <1>0, <1>2 DEF AuthenticationStep, Verify, StampNonce, RecordNonce, Continue, Goto, Finish,
     status, Storing
<1>3. CASE SyncStep(t) /\ UNCHANGED status
  BY <1>0, <1>3 DEF SyncStep, ReadAssignment, ReadPolicy, LockSyncDevice, LockDeviceRow,
     LockChain, StoreSyncEvent, EndSync, Continue, LockRow, Goto, Finish, status, Storing
<1>4. CASE ControlsStep(t) /\ UNCHANGED status
  BY <1>0, <1>4 DEF ControlsStep, ReadUsage, RefuseUsage, StoreUsage, StoreWebEvent, EndUsage,
     LockForControl, LockDeviceRow, SetBlock, ClearBlock, Continue, LockRow, Goto, Finish,
     status, Storing
<1> QED
  BY <1>1, <1>2, <1>3, <1>4 DEF Step, ThreadStep, HandlerStep

\* What the steps of a thread leave to another that stores a report.
LEMMA StoringFrame ==
  ASSUME TypeOK, Shape, NEW t \in Threads, Kept(t), NEW u \in Threads \ {t}, pc'[u] \in Storing
  PROVE  /\ pc[u] = pc'[u] /\ request'[u] = request[u] /\ seen'[u] = seen[u]
         /\ Kind(u)' = Kind(u) /\ DeviceOf(u)' = DeviceOf(u) /\ ReportOf(u)' = ReportOf(u)
         /\ Kind(u) \in StatusKinds /\ DeviceOf(u) \in Devices
         /\ lock[<<Kind(u), DeviceOf(u)>>] = u => lock'[<<Kind(u), DeviceOf(u)>>] = u
<1>1. pc[u] = pc'[u] /\ request'[u] = request[u] /\ seen'[u] = seen[u]
  BY DEF Kept, Frame
<1>2. Kind(u) \in StatusKinds /\ DeviceOf(u) \in Devices
  BY <1>1, TypeParts, Served DEF Shape, ShapeOf, Storing
<1>3. <<Kind(u), DeviceOf(u)>> \in Rows
  BY <1>2, LockableRows
<1> QED
  BY <1>1, <1>2, <1>3, LocksStay DEF Kept, Kind, DeviceOf, ReportOf

\* A report is stored under the conditions StoreStatus states.
LEMMA StoredReport ==
  ASSUME TypeOK, Shape, NEW t \in Threads, StoreStatus(t)
  PROVE  /\ Kind(t) \in StatusKinds /\ DeviceOf(t) \in Devices /\ ReportOf(t) \in Reports
         /\ ReportOf(t).body = request[t].body /\ ReportOf(t).device = DeviceOf(t)
         /\ request[t].body.observed \in Nat
         /\ pc'[t] = "idle"
         /\ \/ /\ UNCHANGED <<reports, latest, receipts>>
               /\ seen[t] = NoReport /\ latest[Kind(t)][DeviceOf(t)] # NoReport
            \/ /\ seen[t] = NoReport => latest[Kind(t)][DeviceOf(t)] = NoReport
               /\ reports' = [reports EXCEPT ![Kind(t)] = @ \union {ReportOf(t)}]
               /\ latest' = IF NotOlder(t)
                            THEN [latest EXCEPT ![Kind(t)][DeviceOf(t)] = ReportOf(t)]
                            ELSE latest
               /\ receipts' = receipts \union {[kind |-> Kind(t), report |-> ReportOf(t)]}
<1>1. pc[t] = "store_status"
  BY DEF StoreStatus
<1>2. Kind(t) \in StatusKinds
  BY <1>1 DEF Shape, ShapeOf
<1>3. DeviceOf(t) \in Devices /\ request[t].body \in Bodies /\ request[t].credential \in Signers
      /\ request[t].body.observed \in Nat
  BY <1>1, <1>2, TypeParts, Served
<1>4. ReportOf(t) \in Reports
  BY <1>3 DEF ReportOf, Reports
<1>5. pc'[t] = "idle"
  BY TypeParts DEF StoreStatus, Refuse, Finish, ThreadsOK
<1> QED
  BY <1>2, <1>3, <1>4, <1>5 DEF StoreStatus, Refuse, ReportOf

LEMMA StateIsLatestKept ==
  ASSUME TypeOK, Shape, StateIsLatest, StateHeld, ObservedTimes, NEW t \in Threads, StoreStatus(t)
  PROVE  StateIsLatest' /\ ObservedTimes'
<1> DEFINE k == Kind(t)
           d == DeviceOf(t)
           r == ReportOf(t)
<1>1. CASE UNCHANGED <<reports, latest>>
  BY <1>1 DEF StateIsLatest, ObservedTimes
<1>2. CASE ~ UNCHANGED <<reports, latest>>
  <2>1. /\ k \in StatusKinds /\ d \in Devices /\ r.body = request[t].body /\ r.device = d
        /\ r.body.observed \in Nat /\ r \in Reports
        /\ seen[t] = NoReport => latest[k][d] = NoReport
        /\ reports' = [reports EXCEPT ![k] = @ \union {r}]
        /\ latest' = IF NotOlder(t) THEN [latest EXCEPT ![k][d] = r] ELSE latest
    BY <1>2, StoredReport
  <2>2. seen[t] = latest[k][d]
    BY <2>1 DEF StoreStatus, StateHeld
  <2>3. ObservedTimes'
    BY <2>1, TypeParts DEF ObservedTimes, StatusOK
  <2>4. ASSUME NEW j \in StatusKinds, NEW c \in Devices
        PROVE  LET ofDevice == {s \in reports'[j] : s.device = c} IN
               IF latest'[j][c] = NoReport
               THEN ofDevice = {}
               ELSE /\ latest'[j][c] \in ofDevice
                    /\ \A s \in ofDevice : s.body.observed <= latest'[j][c].body.observed
    <3> DEFINE old == {s \in reports[j] : s.device = c}
               new == {s \in reports'[j] : s.device = c}
    <3>1. CASE j # k \/ c # d
      <4>1. latest'[j][c] = latest[j][c] /\ new = old
        BY <2>1, <3>1, TypeParts DEF StatusOK
      <4> QED
        BY <4>1 DEF StateIsLatest
    <3>2. CASE j = k /\ c = d
      <4>1. new = old \union {r}
        BY <2>1, <3>2, TypeParts DEF StatusOK
      <4>2. CASE latest[j][c] = NoReport
        <5>1. old = {}
          BY <4>2 DEF StateIsLatest
        <5>2. latest'[j][c] = r
          BY <2>1, <2>2, <3>2, <4>2, TypeParts DEF StatusOK, NotOlder
        <5>3. r # NoReport
          BY <2>1, MarksAssumption
        <5> QED
          BY <2>1, <4>1, <5>1, <5>2, <5>3
      <4>3. CASE latest[j][c] # NoReport
        <5>1. /\ latest[j][c] \in old
              /\ \A s \in old : s.body.observed <= latest[j][c].body.observed
          BY <4>3 DEF StateIsLatest
        <5>2. \A s \in old : s.body.observed \in Nat
          BY DEF ObservedTimes
        <5>3. CASE NotOlder(t)
          <6>1. latest[j][c].body.observed <= r.body.observed
            BY <2>1, <2>2, <3>2, <4>3, <5>3 DEF NotOlder
          <6>2. latest'[j][c] = r
            BY <2>1, <3>2, <5>3, TypeParts DEF StatusOK
          <6>3. \A s \in new : s.body.observed <= r.body.observed
            BY <2>1, <4>1, <5>1, <5>2, <6>1
          <6>4. r # NoReport
            BY <2>1, MarksAssumption
          <6> QED
            BY <4>1, <6>2, <6>3, <6>4
        <5>4. CASE ~ NotOlder(t)
          <6>1. latest'[j][c] = latest[j][c]
            BY <2>1, <5>4
          <6>2. r.body.observed <= latest[j][c].body.observed
            BY <2>1, <2>2, <3>2, <5>1, <5>2, <5>4 DEF NotOlder
          <6> QED
            BY <4>1, <4>3, <5>1, <6>1, <6>2
        <5> QED
          BY <5>3, <5>4
      <4> QED
        BY <4>2, <4>3
    <3> QED
      BY <3>1, <3>2
  <2> QED
    BY <2>3, <2>4 DEF StateIsLatest
<1> QED
  BY <1>1, <1>2

LEMMA ReportedKept ==
  ASSUME TypeOK, Shape, Reported, NEW t \in Threads, Step(t)
  PROVE  Reported'
<1> DEFINE k == Kind(t)
           d == DeviceOf(t)
<1>1. Kept(t)
  BY StepKept DEF Step
<1>2. ASSUME NEW u \in Threads \ {t}, pc'[u] = "store_status", seen[u] # NoReport
      PROVE  /\ seen'[u] = latest[Kind(u)][DeviceOf(u)]
             /\ lock[<<Kind(u), DeviceOf(u)>>] = u
             /\ lock'[<<Kind(u), DeviceOf(u)>>] = u
             /\ Kind(u)' = Kind(u) /\ DeviceOf(u)' = DeviceOf(u)
             /\ Kind(u) \in StatusKinds /\ DeviceOf(u) \in Devices
    BY <1>1, <1>2, StoringFrame DEF Reported, StateHeld, Storing
<1>3. ASSUME NEW u \in Threads \ {t}, pc'[u] = "store_status"
      PROVE  seen'[u] = seen[u]
  BY <1>1, <1>3, StoringFrame DEF Storing
<1>4. CASE ~ StatusStep(t) \/ StartReport(t) \/ InsertReport(t)
  <2>1. UNCHANGED <<reports, latest>> /\ pc'[t] # "store_status"
    BY <1>4, StatusQuiet, TypeParts DEF Storing, StartReport, InsertReport, Refuse, ReplayReport,
       Continue, Goto, Finish, ThreadsOK, status
  <2>2. StateHeld'
    <3> SUFFICES ASSUME NEW u \in Threads, pc'[u] = "store_status", seen'[u] # NoReport
                 PROVE  /\ seen'[u] = latest'[Kind(u)'][DeviceOf(u)']
                        /\ lock'[<<Kind(u)', DeviceOf(u)'>>] = u
      BY DEF StateHeld
    <3> QED
      BY <1>2, <1>3, <2>1
  <2> QED
    BY <2>1, <2>2 DEF Reported, StateIsLatest, ObservedTimes
<1>5. CASE ReadState(t)
  <2>1. k \in StatusKinds /\ d \in Devices /\ <<k, d>> \in Rows
    BY <1>5, TypeParts, Served, LockableRows DEF ReadState, Shape, ShapeOf
  <2>2. /\ UNCHANGED <<reports, latest>> /\ Kind(t)' = k /\ DeviceOf(t)' = d
        /\ seen'[t] = latest[k][d]
        /\ seen'[t] # NoReport => lock'[<<k, d>>] = t
    BY <1>5, <2>1, TypeParts DEF ReadState, Continue, LockRow, Kind, DeviceOf, StatusOK, ThreadsOK
  <2>3. StateHeld'
    <3> SUFFICES ASSUME NEW u \in Threads, pc'[u] = "store_status", seen'[u] # NoReport
                 PROVE  /\ seen'[u] = latest'[Kind(u)'][DeviceOf(u)']
                        /\ lock'[<<Kind(u)', DeviceOf(u)'>>] = u
      BY DEF StateHeld
    <3>1. CASE u = t
      BY <2>2, <3>1
    <3>2. CASE u # t
      BY <1>2, <1>3, <2>2, <3>2
    <3> QED
      BY <3>1, <3>2
  <2> QED
    BY <2>2, <2>3 DEF Reported, StateIsLatest, ObservedTimes
<1>6. CASE StoreStatus(t)
  <2>1. StateIsLatest' /\ ObservedTimes'
    BY <1>6, StateIsLatestKept DEF Reported
  <2>2. k \in StatusKinds /\ d \in Devices /\ pc'[t] = "idle"
    BY <1>6, StoredReport
  <2>3. ASSUME NEW u \in Threads \ {t}, pc'[u] = "store_status", seen[u] # NoReport
        PROVE  latest'[Kind(u)][DeviceOf(u)] = latest[Kind(u)][DeviceOf(u)]
    <3>1. CASE <<Kind(u), DeviceOf(u)>> = <<k, d>>
      <4>1. seen[u] = latest[k][d] /\ lock[<<k, d>>] = u
        BY <1>2, <1>3, <2>3, <3>1
      <4>2. seen[t] = NoReport
        BY <1>6, <4>1 DEF Reported, StateHeld, StoreStatus
      <4>3. latest[k][d] # NoReport
        BY <2>3, <4>1
      <4> QED
        BY <1>6, <4>2, <4>3, StoredReport
    <3>2. CASE <<Kind(u), DeviceOf(u)>> # <<k, d>>
      <4>1. Kind(u) \in StatusKinds /\ DeviceOf(u) \in Devices
        BY <1>2, <2>3
      <4>2. latest' \in {latest, [latest EXCEPT ![k][d] = ReportOf(t)]}
        BY <1>6, StoredReport
      <4> QED
        BY <2>2, <3>2, <4>1, <4>2, TypeParts DEF StatusOK
    <3> QED
      BY <3>1, <3>2
  <2>4. StateHeld'
    <3> SUFFICES ASSUME NEW u \in Threads, pc'[u] = "store_status", seen'[u] # NoReport
                 PROVE  /\ seen'[u] = latest'[Kind(u)'][DeviceOf(u)']
                        /\ lock'[<<Kind(u)', DeviceOf(u)'>>] = u
      BY DEF StateHeld
    <3>1. u \in Threads \ {t} /\ seen[u] # NoReport
      BY <1>3, <2>2
    <3>2. latest'[Kind(u)][DeviceOf(u)] = latest[Kind(u)][DeviceOf(u)]
      BY <2>3, <3>1
    <3>3. /\ seen'[u] = latest[Kind(u)][DeviceOf(u)]
          /\ lock'[<<Kind(u), DeviceOf(u)>>] = u
          /\ Kind(u)' = Kind(u) /\ DeviceOf(u)' = DeviceOf(u)
      BY <1>2, <3>1
    <3> QED
      BY <3>2, <3>3
  <2> QED
    BY <2>1, <2>4 DEF Reported
<1> QED
  BY <1>4, <1>5, <1>6 DEF StatusStep

LEMMA ReceiptedKept ==
  ASSUME TypeOK, Shape, Receipted, NEW t \in Threads, Step(t)
  PROVE  Receipted'
<1> DEFINE k == Kind(t)
           r == ReportOf(t)
<1>1. Kept(t)
  BY StepKept DEF Step
<1>2. ASSUME NEW u \in Threads \ {t}, pc'[u] \in Storing
      PROVE  /\ pc[u] \in Storing /\ Kind(u)' = Kind(u) /\ ReportOf(u)' = ReportOf(u)
             /\ Kind(u) \in StatusKinds
    BY <1>1, <1>2, StoringFrame
<1>3. ASSUME NEW u \in Threads \ {t}, pc'[u] \in Storing,
             NEW v \in Threads \ {t, u}, pc'[v] \in Storing
      PROVE  ~ (Kind(u)' = Kind(v)' /\ SameUuid(ReportOf(u)', ReportOf(v)'))
  <2>1. pc[u] \in Storing /\ pc[v] \in Storing
    BY <1>2, <1>3
  <2>2. ~ (Kind(u) = Kind(v) /\ SameUuid(ReportOf(u), ReportOf(v)))
    BY <2>1 DEF Receipted, UuidHeld
  <2>3. Kind(u)' = Kind(u) /\ ReportOf(u)' = ReportOf(u)
    BY <1>2, <1>3
  <2>4. Kind(v)' = Kind(v) /\ ReportOf(v)' = ReportOf(v)
    BY <1>2, <1>3
  <2> QED
    BY <2>2, <2>3, <2>4
<1>4. CASE ~ StatusStep(t) \/ StartReport(t)
  <2>1. UNCHANGED reports /\ pc'[t] \notin Storing
    BY <1>4, StatusQuiet, TypeParts DEF Storing, StartReport, Refuse, ReplayReport,
       Continue, Goto, Finish, ThreadsOK, status
  <2>2. \/ receipts' = receipts
        \/ /\ receipts' = receipts \union {[kind |-> k, report |-> r]}
           /\ r \in reports[k]
    BY <1>4, StatusQuiet DEF StartReport, Refuse, ReplayReport, status, Stored
  <2>3. ReceiptsHonest'
    BY <2>1, <2>2 DEF Receipted, ReceiptsHonest, SameUuid
  <2>4. UuidHeld'
    <3> SUFFICES ASSUME NEW u \in Threads, pc'[u] \in Storing
                 PROVE  /\ Stored(u)' = {}
                        /\ \A v \in Threads \ {u} :
                              pc'[v] \in Storing
                              => ~ (Kind(v)' = Kind(u)' /\ SameUuid(ReportOf(v)', ReportOf(u)'))
      BY DEF UuidHeld, SameUuid
    <3>1. u # t
      BY <2>1
    <3>2. Stored(u)' = {}
      BY <1>2, <2>1, <3>1 DEF Receipted, UuidHeld, Stored, SameUuid
    <3> QED
      BY <1>3, <2>1, <3>1, <3>2
  <2> QED
    BY <2>3, <2>4 DEF Receipted
<1>5. CASE InsertReport(t) \/ ReadState(t)
  <2>1. UNCHANGED <<reports, receipts>>
    BY <1>5 DEF InsertReport, ReadState, Refuse, status
  <2>2. ASSUME pc'[t] \in Storing
        PROVE  /\ Kind(t)' = k /\ ReportOf(t)' = r /\ Stored(t) = {}
               /\ \A u \in Threads \ {t} :
                     pc[u] \in Storing => ~ (Kind(u) = k /\ SameUuid(ReportOf(u), r))
    BY <1>5, <2>2, TypeParts DEF InsertReport, ReadState, Refuse, Continue, LockRow, Goto, Finish,
       Storing, Kind, DeviceOf, ReportOf, ThreadsOK, Receipted, UuidHeld
  <2>3. UuidHeld'
    <3> SUFFICES ASSUME NEW u \in Threads, pc'[u] \in Storing
                 PROVE  /\ Stored(u)' = {}
                        /\ \A v \in Threads \ {u} :
                              pc'[v] \in Storing
                              => ~ (Kind(v)' = Kind(u)' /\ SameUuid(ReportOf(v)', ReportOf(u)'))
      BY DEF UuidHeld, SameUuid
    <3>1. CASE u = t
      <4>1. Stored(u)' = {}
        BY <2>1, <2>2, <3>1 DEF Stored, SameUuid
      <4> QED
        BY <1>2, <2>2, <3>1, <4>1
    <3>2. CASE u # t
      <4>1. Stored(u)' = {}
        BY <1>2, <2>1, <3>2 DEF Receipted, UuidHeld, Stored, SameUuid
      <4>2. ASSUME pc'[t] \in Storing
            PROVE  ~ (Kind(t)' = Kind(u)' /\ SameUuid(ReportOf(t)', ReportOf(u)'))
        <5>1. ~ (Kind(u) = k /\ SameUuid(ReportOf(u), r))
          BY <1>2, <2>2, <3>2, <4>2
        <5>2. Kind(u)' = Kind(u) /\ ReportOf(u)' = ReportOf(u)
          BY <1>2, <3>2
        <5> QED
          BY <2>2, <4>2, <5>1, <5>2 DEF SameUuid
      <4> QED
        BY <1>3, <3>2, <4>1, <4>2
    <3> QED
      BY <3>1, <3>2
  <2> QED
    BY <2>1, <2>3 DEF Receipted, ReceiptsHonest, SameUuid
<1>6. CASE StoreStatus(t)
  <2>1. k \in StatusKinds /\ pc'[t] \notin Storing /\ Stored(t) = {}
    BY <1>6, StoredReport DEF Storing, Receipted, UuidHeld, StoreStatus
  <2>2. \/ UNCHANGED <<reports, receipts>>
        \/ /\ reports' = [reports EXCEPT ![k] = @ \union {r}]
           /\ receipts' = receipts \union {[kind |-> k, report |-> r]}
    BY <1>6, StoredReport
  <2>3. ReceiptsHonest'
    <3>1. \A s \in reports[k] : ~ SameUuid(s, r)
      BY <2>1 DEF Stored
    <3>2. CASE UNCHANGED <<reports, receipts>>
      BY <3>2 DEF Receipted, ReceiptsHonest, SameUuid
    <3>3. CASE ~ UNCHANGED <<reports, receipts>>
      <4>1. /\ reports' = [reports EXCEPT ![k] = @ \union {r}]
            /\ receipts' = receipts \union {[kind |-> k, report |-> r]}
        BY <2>2, <3>3
      <4>2. \A j \in StatusKinds : reports[j] \subseteq reports'[j]
        BY <2>1, <4>1, TypeParts DEF StatusOK
      <4>3. r \in reports'[k]
        BY <2>1, <4>1, TypeParts DEF StatusOK
      <4>4. \A c \in receipts' : c.report \in reports'[c.kind]
        BY <4>1, <4>2, <4>3, TypeParts DEF Receipted, ReceiptsHonest, StatusOK
      <4>5. ASSUME NEW j \in StatusKinds, NEW a \in reports'[j], NEW b \in reports'[j],
                   SameUuid(a, b)
            PROVE  a = b
        <5>1. CASE j # k
          BY <4>1, <4>5, <5>1, TypeParts DEF Receipted, ReceiptsHonest, StatusOK
        <5>2. CASE j = k
          <6>1. a \in reports[k] \union {r} /\ b \in reports[k] \union {r}
            BY <2>1, <4>1, <5>2, TypeParts DEF StatusOK
          <6> QED
            BY <2>1, <3>1, <4>5, <6>1 DEF Receipted, ReceiptsHonest, SameUuid
        <5> QED
          BY <5>1, <5>2
      <4> QED
        BY <4>4, <4>5 DEF ReceiptsHonest, SameUuid
    <3> QED
      BY <3>2, <3>3
  <2>4. UuidHeld'
    <3> SUFFICES ASSUME NEW u \in Threads, pc'[u] \in Storing
                 PROVE  /\ Stored(u)' = {}
                        /\ \A v \in Threads \ {u} :
                              pc'[v] \in Storing
                              => ~ (Kind(v)' = Kind(u)' /\ SameUuid(ReportOf(v)', ReportOf(u)'))
      BY DEF UuidHeld, SameUuid
    <3>1. u # t
      BY <2>1
    <3>2. /\ pc[u] \in Storing /\ Kind(u)' = Kind(u) /\ ReportOf(u)' = ReportOf(u)
          /\ Kind(u) \in StatusKinds
      BY <1>2, <3>1
    <3>3. /\ Stored(u) = {}
          /\ ~ (Kind(t) = Kind(u) /\ SameUuid(ReportOf(t), ReportOf(u)))
      BY <1>6, <3>1, <3>2 DEF Receipted, UuidHeld, StoreStatus, Storing
    <3>4. Stored(u)' = {}
      BY <2>1, <2>2, <3>2, <3>3, TypeParts DEF Stored, SameUuid, StatusOK
    <3> QED
      BY <1>3, <2>1, <3>1, <3>4
  <2> QED
    BY <2>3, <2>4 DEF Receipted
<1> QED
  BY <1>4, <1>5, <1>6 DEF StatusStep

\* What happens besides the threads does not touch the reports.
LEMMA ReportsLeft ==
  ASSUME TypeOK, Meanwhile \/ UNCHANGED vars, Reported, Receipted
  PROVE  Reported' /\ Receipted'
<1>1. /\ pc' = pc /\ request' = request /\ lock' = lock
      /\ reports' = reports /\ latest' = latest /\ seen' = seen /\ receipts' = receipts
  BY MeanwhileKeeps, Stuttering DEF threads, status
<1> QED
  BY <1>1 DEF Reported, Receipted, StateIsLatest, StateHeld, ObservedTimes, ReceiptsHonest,
     UuidHeld, SameUuid, Stored, ReportOf, Kind, DeviceOf

LEMMA ReportsStart == Init => Reported /\ Receipted
BY DEF Init, ThreadsInit, StatusInit, Reported, Receipted, StateIsLatest, StateHeld,
   ObservedTimes, ReceiptsHonest, UuidHeld, Storing

LEMMA ReportsKept ==
  ASSUME TypeOK, Shape, Reported, Receipted, [Next]_vars
  PROVE  Reported' /\ Receipted'
<1>1. CASE \E t \in Threads : Step(t)
  BY <1>1, ReportedKept, ReceiptedKept
<1> QED
  BY <1>1, ReportsLeft, NextCases

\* The state kept for a device is its latest report, in whatever order reports
\* come and whichever are stored at once.
THEOREM LatestReportKept == Spec => []StateIsLatest
<1>1. TypeOK /\ Shape /\ Reported /\ Receipted /\ [Next]_vars => Reported' /\ Receipted'
  BY ReportsKept
<1>2. TypeOK /\ Shape /\ [Next]_vars => TypeOK' /\ Shape'
  BY NextKept
<1>3. Reported => StateIsLatest
  BY DEF Reported
<1> QED
  BY <1>1, <1>2, <1>3, InitKept, ReportsStart, PTL DEF Spec

\* A confirmed report is stored as it was sent, once for its UUID.
THEOREM ReceiptsAreHonest == Spec => []ReceiptsHonest
<1>1. TypeOK /\ Shape /\ Reported /\ Receipted /\ [Next]_vars => Reported' /\ Receipted'
  BY ReportsKept
<1>2. TypeOK /\ Shape /\ [Next]_vars => TypeOK' /\ Shape'
  BY NextKept
<1>3. Receipted => ReceiptsHonest
  BY DEF Receipted
<1> QED
  BY <1>1, <1>2, <1>3, InitKept, ReportsStart, PTL DEF Spec
-----------------------------------------------------------------------------
\* The block override.
LEMMA CountAppended ==
  ASSUME NEW S, NEW s \in Seq(S), NEW e \in S, NEW x
  PROVE  /\ Count(s, x) \in Nat
         /\ Count(Append(s, e), x) = Count(s, x) + (IF e = x THEN 1 ELSE 0)
<1> DEFINE n == Len(s)
           old == {i \in 1 .. n : s[i] = x}
           all == {i \in 1 .. n + 1 : Append(s, e)[i] = x}
<1>1. n \in Nat
  OBVIOUS
<1>2. /\ Len(Append(s, e)) = n + 1
      /\ \A i \in 1 .. n : Append(s, e)[i] = s[i]
      /\ Append(s, e)[n + 1] = e
  BY Appended
<1>3. IsFiniteSet(1 .. n)
  BY <1>1, FS_Interval
<1>4. IsFiniteSet(old)
  BY <1>3, FS_Subset
<1>5. Count(s, x) = Cardinality(old) /\ Count(Append(s, e), x) = Cardinality(all)
  BY <1>2 DEF Count
<1>6. Cardinality(old) \in Nat
  BY <1>4, FS_CardinalityType
<1>7. CASE e = x
  <2>1. all = old \union {n + 1}
    BY <1>1, <1>2, <1>7
  <2>2. n + 1 \notin old
    BY <1>1
  <2>3. Cardinality(old \union {n + 1}) = Cardinality(old) + 1
    <3> HIDE DEF old
    <3> QED
      BY <1>4, <2>2, FS_AddElement
  <2> HIDE DEF old, all
  <2> QED
    BY <1>5, <1>6, <1>7, <2>1, <2>3
<1>8. CASE e # x
  <2>1. all = old
    BY <1>1, <1>2, <1>8
  <2> HIDE DEF old, all
  <2> QED
    BY <1>5, <1>6, <1>8, <2>1
<1> QED
  BY <1>7, <1>8

LEMMA CountEmpty ==
  ASSUME NEW x
  PROVE  Count(<< >>, x) = 0
<1>1. {i \in 1 .. Len(<< >>) : << >>[i] = x} = {}
  OBVIOUS
<1> QED
  BY <1>1, FS_EmptySet DEF Count

\* What OverrideExplained says of one history and its row.
Explains(history, row) ==
  /\ \A i \in 1 .. Len(history) : history[i] = IF i % 2 = 1 THEN "block" ELSE "clear"
  /\ IF history = << >>
     THEN row = NoOverride
     ELSE row = [version |-> Count(history, "block"),
                 active |-> history[Len(history)] = "block"]

LEMMA Explained ==
  ASSUME NEW history \in Seq(Administrative), NEW row, Explains(history, row),
         NEW order \in Administrative, NEW next,
         order = "block" => /\ ~ (row # NoOverride /\ row.active)
                            /\ next = [version |-> IF row = NoOverride THEN 1
                                                   ELSE row.version + 1,
                                       active |-> TRUE],
         order = "clear" => /\ row # NoOverride /\ row.active
                            /\ next = [row EXCEPT !.active = FALSE]
  PROVE  Explains(Append(history, order), next)
<1> DEFINE n == Len(history)
           longer == Append(history, order)
<1>1. n \in Nat /\ (history = << >> <=> n = 0)
  OBVIOUS
<1>2. /\ Len(longer) = n + 1 /\ longer # << >>
      /\ \A i \in 1 .. n : longer[i] = history[i]
      /\ longer[n + 1] = order
  BY Appended
<1>3. /\ Count(history, "block") \in Nat
      /\ Count(longer, "block") = Count(history, "block") + (IF order = "block" THEN 1 ELSE 0)
  BY CountAppended
<1>4. ASSUME history # << >>
      PROVE  /\ row # NoOverride
             /\ row.version = Count(history, "block")
             /\ row.active <=> history[n] = "block"
             /\ row = [version |-> row.version, active |-> row.active]
             /\ row.active \in BOOLEAN
  <2>1. row = [version |-> Count(history, "block"), active |-> history[n] = "block"]
    BY <1>4 DEF Explains
  <2>2. (history[n] = "block") \in BOOLEAN
    OBVIOUS
  <2>3. row \in [version : Nat, active : BOOLEAN]
    BY <1>3, <2>1, <2>2
  <2> QED
    BY <2>1, <2>2, <2>3, MarksAssumption
<1>5. CASE order = "block"
  <2>1. (n + 1) % 2 = 1
    <3>1. CASE n = 0
      BY <3>1
    <3>2. CASE n # 0
      <4>1. ~ row.active /\ history[n] # "block"
        BY <1>1, <1>4, <1>5, <3>2
      <4>2. n % 2 # 1
        BY <1>1, <3>2, <4>1 DEF Explains
      <4> QED
        BY <1>1, <4>2
    <3> QED
      BY <3>1, <3>2
  <2>2. next = [version |-> Count(longer, "block"), active |-> TRUE]
    <3>1. CASE n = 0
      BY <1>1, <1>3, <1>5, <3>1, CountEmpty DEF Explains
    <3>2. CASE n # 0
      BY <1>1, <1>3, <1>4, <1>5, <3>2 DEF Explains
    <3> QED
      BY <3>1, <3>2
  <2>3. \A i \in 1 .. n + 1 : longer[i] = IF i % 2 = 1 THEN "block" ELSE "clear"
    BY <1>1, <1>2, <1>5, <2>1 DEF Explains
  <2> QED
    BY <1>2, <1>5, <2>2, <2>3 DEF Explains
<1>6. CASE order = "clear"
  <2>1. n # 0
    BY <1>1, <1>6 DEF Explains
  <2>2. history[n] = "block"
    BY <1>1, <1>4, <1>6, <2>1
  <2>3. n % 2 = 1
    BY <1>1, <2>1, <2>2 DEF Explains
  <2>4. (n + 1) % 2 # 1
    BY <1>1, <2>3
  <2>5. next = [version |-> Count(longer, "block"), active |-> FALSE]
    BY <1>1, <1>3, <1>4, <1>6, <2>1
  <2>6. \A i \in 1 .. n + 1 : longer[i] = IF i % 2 = 1 THEN "block" ELSE "clear"
    BY <1>1, <1>2, <1>6, <2>4 DEF Explains
  <2> QED
    BY <1>2, <1>6, <2>5, <2>6 DEF Explains
<1> QED
  BY <1>5, <1>6 DEF Administrative

LEMMA ControlQuiet ==
  ASSUME TypeOK, Shape, NEW t \in Threads, Step(t), ~ SetBlock(t), ~ ClearBlock(t)
  PROVE  UNCHANGED <<override, controlEvents>>
<1>1. CASE Receive(t) \/ Abort(t) \/ AuthenticationStep(t)
  BY <1>1 DEF Receive, Abort, AuthenticationStep, controls
<1>2. CASE UNCHANGED controls
  BY <1>2 DEF controls
<1>3. CASE ControlsStep(t)
  BY <1>3 DEF ControlsStep, ReadUsage, RefuseUsage, StoreUsage, StoreWebEvent, EndUsage,
     LockForControl, controls
<1> QED
  BY <1>1, <1>2, <1>3 DEF Step, ThreadStep, HandlerStep

LEMMA OverrideKept ==
  ASSUME TypeOK, Shape, OverrideExplained, NEW t \in Threads, Step(t)
  PROVE  OverrideExplained'
<1> DEFINE d == DeviceOf(t)
<1>1. \A c \in Devices : Explains(controlEvents[c], override[c])
  BY DEF OverrideExplained, Explains
<1>2. CASE UNCHANGED <<override, controlEvents>>
  BY <1>2 DEF OverrideExplained
<1>3. CASE ~ UNCHANGED <<override, controlEvents>>
  <2>1. SetBlock(t) \/ ClearBlock(t)
    BY <1>3, ControlQuiet
  <2>2. pc[t] = "set_override" /\ d \in Devices
    BY <2>1, TypeParts, Served DEF SetBlock, ClearBlock
  <2>3. controlEvents[d] \in Seq(Administrative) /\ request[t].kind \in Administrative
    BY <2>1, <2>2, TypeParts DEF ControlsOK, SetBlock, ClearBlock, Administrative
  <2>4. PICK row :
          /\ Change(t, row)
          /\ request[t].kind = "block" => ~ Blocked(d) /\ row = BlockedRow(d)
          /\ request[t].kind = "clear" => Blocked(d) /\ row = ClearedRow(d)
    BY <1>3, <2>1 DEF SetBlock, ClearBlock, controls
  <2>5. Explains(Append(controlEvents[d], request[t].kind), row)
    BY <1>1, <2>2, <2>3, <2>4, Explained DEF Blocked, BlockedRow, ClearedRow
  <2>6. \A c \in Devices : Explains(controlEvents'[c], override'[c])
    BY <1>1, <2>2, <2>4, <2>5, TypeParts DEF Change, ControlsOK
  <2> QED
    BY <2>6 DEF OverrideExplained, Explains, Count
<1> QED
  BY <1>2, <1>3

\* The override of a device is what its evidence replays to, however orders to
\* block and to clear overlap.
THEOREM OverrideIsExplained == Spec => []OverrideExplained
<1>1. Init => OverrideExplained
  BY DEF Init, ControlsInit, OverrideExplained
<1>2. TypeOK /\ Shape /\ OverrideExplained /\ [Next]_vars => OverrideExplained'
  <2> SUFFICES ASSUME TypeOK, Shape, OverrideExplained, [Next]_vars PROVE OverrideExplained'
    OBVIOUS
  <2>1. CASE \E t \in Threads : Step(t)
    BY <2>1, OverrideKept
  <2>2. CASE Meanwhile \/ UNCHANGED vars
    <3>1. override' = override /\ controlEvents' = controlEvents
      BY <2>2, MeanwhileKeeps, Stuttering DEF controls
    <3> QED
      BY <3>1 DEF OverrideExplained
  <2> QED
    BY <2>1, <2>2, NextCases
<1>3. TypeOK /\ Shape /\ [Next]_vars => TypeOK' /\ Shape'
  BY NextKept
<1> QED
  BY <1>1, <1>2, <1>3, InitKept, PTL DEF Spec
-----------------------------------------------------------------------------
\* A nonce outlives the window of the timestamp it came with.
StampCompared ==
  \A t \in Threads :
    /\ pc[t] \in {"stamp", "record_nonce"} => request[t].stamp <= now + ClockSkew
    /\ pc[t] = "record_nonce" => request[t].stamp <= recordedAt[t] + ClockSkew

KeptIn(set, q, time) ==
  \/ \E n \in set : SameNonce(n, q) /\ n.expires >= q.stamp + ClockSkew
  \/ time >= q.stamp + ClockSkew

NonceKept ==
  \A i \in 1 .. Len(accepted) :
    /\ accepted[i].request.stamp \in Nat
    /\ KeptIn(nonces, accepted[i].request, now)

Windowed == NoReplayInWindow /\ StampCompared /\ NonceKept

LEMMA ClockTyped ==
  ASSUME TypeOK
  PROVE  /\ now \in Nat /\ ClockSkew \in Nat /\ NonceTtl \in Nat /\ NonceTtl >= 2 * ClockSkew
         /\ \A t \in Threads : recordedAt[t] \in Nat /\ recordedAt[t] <= now
         /\ \A n \in nonces : n.expires \in Nat
BY TypeParts, HorizonAssumption, AuthenticationAssumption
   DEF ThreadsOK, AuthenticationOK, Nonces

LEMMA NonceQuiet ==
  ASSUME TypeOK, Shape, NEW t \in Threads, Step(t),
         ~ Verify(t), ~ StampNonce(t), ~ RecordNonce(t)
  PROVE  UNCHANGED <<now, nonces, accepted>> /\ pc'[t] \notin {"stamp", "record_nonce"}
<1>0. pc \in [Threads -> Statements \union {"idle"}]
  BY TypeParts DEF ThreadsOK, Statements
<1>1. CASE Receive(t) \/ Abort(t)
  BY <1>0, <1>1 DEF Receive, Abort, Goto, Finish, authentication
<1>2. CASE StatusStep(t) /\ UNCHANGED authentication
  BY <1>0, <1>2 DEF StatusStep, StartReport, InsertReport, ReadState, StoreStatus, Refuse,
     ReplayReport, Continue, LockRow, Goto, Finish, authentication
<1>3. CASE SyncStep(t) /\ UNCHANGED authentication
  BY <1>0, <1>3 DEF SyncStep, ReadAssignment, ReadPolicy, LockSyncDevice, LockDeviceRow,
     LockChain, StoreSyncEvent, EndSync, Continue, LockRow, Goto, Finish, authentication
<1>4. CASE ControlsStep(t) /\ UNCHANGED authentication
  BY <1>0, <1>4 DEF ControlsStep, ReadUsage, RefuseUsage, StoreUsage, StoreWebEvent, EndUsage,
     LockForControl, LockDeviceRow, SetBlock, ClearBlock, Continue, LockRow, Goto, Finish,
     authentication
<1> QED
  BY <1>1, <1>2, <1>3, <1>4 DEF Step, ThreadStep, HandlerStep, AuthenticationStep

\* What a step leaves of another thread's timestamp.
LEMMA StampFrame ==
  ASSUME TypeOK, StampCompared, NEW t \in Threads, Frame(t), now' = now,
         NEW u \in Threads \ {t}
  PROVE  /\ pc'[u] \in {"stamp", "record_nonce"} => request'[u].stamp <= now' + ClockSkew
         /\ pc'[u] = "record_nonce" => request'[u].stamp <= recordedAt'[u] + ClockSkew
BY DEF Frame, StampCompared

LEMMA WindowedKept ==
  ASSUME TypeOK, Shape, Windowed, NEW t \in Threads, Step(t)
  PROVE  Windowed'
<1>1. Kept(t) /\ Frame(t)
  BY StepKept DEF Step, Kept
<1>2. CASE ~ Verify(t) /\ ~ StampNonce(t) /\ ~ RecordNonce(t)
  <2>1. UNCHANGED <<now, nonces, accepted>> /\ pc'[t] \notin {"stamp", "record_nonce"}
    BY <1>2, NonceQuiet
  <2>2. StampCompared'
    BY <1>1, <2>1, StampFrame DEF Windowed, StampCompared
  <2> QED
    BY <2>1, <2>2 DEF Windowed, NoReplayInWindow, NonceKept, KeptIn
<1>3. CASE Verify(t)
  <2>1. UNCHANGED <<now, nonces, accepted, recordedAt>>
    BY <1>3 DEF Verify, authentication
  <2>2. pc'[t] # "record_nonce"
    BY <1>3, TypeParts DEF Verify, Continue, Goto, Finish, ThreadsOK
  <2>3. pc'[t] = "stamp" => request'[t] = request[t] /\ request[t].stamp <= now + ClockSkew
    BY <1>3, TypeParts DEF Verify, SignatureAccepted, TimestampInWindow, Continue, Goto, Finish,
       ThreadsOK
  <2>4. StampCompared'
    BY <1>1, <2>1, <2>2, <2>3, StampFrame DEF Windowed, StampCompared
  <2> QED
    BY <2>1, <2>4 DEF Windowed, NoReplayInWindow, NonceKept, KeptIn
<1>4. CASE StampNonce(t)
  <2>1. UNCHANGED <<now, nonces, accepted>> /\ request'[t] = request[t]
        /\ recordedAt'[t] = now /\ pc[t] = "stamp"
    BY <1>4, TypeParts DEF StampNonce, Continue, AuthenticationOK
  <2>2. StampCompared'
    BY <1>1, <2>1, StampFrame DEF Windowed, StampCompared
  <2> QED
    BY <2>1, <2>2 DEF Windowed, NoReplayInWindow, NonceKept, KeptIn
<1>5. CASE RecordNonce(t)
  <2>1. now' = now /\ pc[t] = "record_nonce" /\ pc'[t] \notin {"stamp", "record_nonce"}
    BY <1>5, TypeParts DEF RecordNonce, Continue, Goto, Finish, ThreadsOK, authentication
  <2>2. StampCompared'
    BY <1>1, <2>1, StampFrame DEF Windowed, StampCompared
  <2>3. CASE UNCHANGED <<nonces, accepted>>
    BY <2>1, <2>2, <2>3 DEF Windowed, NoReplayInWindow, NonceKept, KeptIn
  <2>4. CASE ~ UNCHANGED <<nonces, accepted>>
    <3> DEFINE q == request[t]
               e == [request |-> q, at |-> now]
               R == [request : workload.requests, at : 0 .. now]
               n == Len(accepted)
    <3>1. /\ ~ \E m \in Unexpired(t) : SameNonce(m, NonceRow(t))
          /\ \/ nonces' = Unexpired(t) /\ accepted' = accepted
             \/ /\ nonces' = Unexpired(t) \union {NonceRow(t)}
                /\ accepted' = Append(accepted, e)
      BY <1>5, <2>4 DEF RecordNonce, authentication
    <3>2. /\ now \in Nat /\ ClockSkew \in Nat /\ NonceTtl \in Nat
          /\ NonceTtl >= 2 * ClockSkew
          /\ recordedAt[t] \in Nat /\ recordedAt[t] <= now
          /\ \A m \in nonces : m.expires \in Nat
      BY ClockTyped
    <3>3. q.stamp \in Nat /\ q \in workload.requests /\ q.stamp <= recordedAt[t] + ClockSkew
      BY <2>1, TypeParts, Served DEF Windowed, StampCompared
    <3>4. ASSUME NEW i \in 1 .. n
          PROVE  KeptIn(Unexpired(t), accepted[i].request, now)
      <4>1. accepted[i].request.stamp \in Nat /\ KeptIn(nonces, accepted[i].request, now)
        BY DEF Windowed, NonceKept
      <4>2. CASE now >= accepted[i].request.stamp + ClockSkew
        BY <4>2 DEF KeptIn
      <4>3. CASE ~ now >= accepted[i].request.stamp + ClockSkew
        <5>1. PICK m \in nonces : /\ SameNonce(m, accepted[i].request)
                                  /\ m.expires >= accepted[i].request.stamp + ClockSkew
          BY <4>1, <4>3 DEF KeptIn
        <5>2. m.expires > recordedAt[t]
          BY <3>2, <4>1, <4>3, <5>1
        <5> QED
          BY <5>1, <5>2 DEF KeptIn, Unexpired
      <4> QED
        BY <4>2, <4>3
    <3>5. NonceRow(t).expires >= q.stamp + ClockSkew /\ SameNonce(NonceRow(t), q)
      BY <3>2, <3>3 DEF NonceRow, SameNonce
    <3>6. ASSUME NEW i \in 1 .. n, SameNonce(accepted[i].request, q)
          PROVE  now >= accepted[i].request.stamp + ClockSkew
      BY <3>1, <3>4, <3>6 DEF KeptIn, SameNonce, NonceRow
    <3>7. CASE accepted' = accepted /\ nonces' = Unexpired(t)
      BY <2>1, <2>2, <3>4, <3>7 DEF Windowed, NoReplayInWindow, NonceKept, KeptIn
    <3>8. CASE accepted' = Append(accepted, e) /\ nonces' = Unexpired(t) \union {NonceRow(t)}
      <4>1. accepted \in Seq(R) /\ e \in R
        BY <3>2, <3>3, TypeParts DEF AuthenticationOK
      <4>2. n \in Nat
        BY <4>1
      <4>3. /\ Len(accepted') = n + 1
            /\ \A i \in 1 .. n : accepted'[i] = accepted[i]
            /\ accepted'[n + 1].request = q /\ accepted'[n + 1].at = now
        <5> HIDE DEF R
        <5>1. /\ Len(accepted') = n + 1
              /\ \A i \in 1 .. n : accepted'[i] = accepted[i]
              /\ accepted'[n + 1] = e
          BY <3>8, <4>1, Appended
        <5> QED
          BY <5>1
      <4>4. NonceKept'
        <5> SUFFICES ASSUME NEW i \in 1 .. n + 1
                     PROVE  /\ accepted'[i].request.stamp \in Nat
                            /\ KeptIn(nonces', accepted'[i].request, now)
          BY <2>1, <4>3 DEF NonceKept, KeptIn
        <5>1. CASE i = n + 1
          BY <3>3, <3>5, <3>8, <4>3, <5>1 DEF KeptIn
        <5>2. CASE i \in 1 .. n
          BY <3>4, <3>8, <4>3, <5>2 DEF Windowed, NonceKept, KeptIn
        <5> QED
          BY <4>2, <5>1, <5>2
      <4>5. NoReplayInWindow'
        <5> SUFFICES ASSUME NEW i \in 1 .. n + 1, NEW j \in 1 .. n + 1, i < j,
                            SameNonce(accepted'[i].request, accepted'[j].request)
                     PROVE  accepted'[j].at >= accepted'[i].request.stamp + ClockSkew
          BY <4>3 DEF NoReplayInWindow, SameNonce
        <5>1. i \in 1 .. n
          BY <4>2
        <5>2. CASE j = n + 1
          <6>1. accepted'[i] = accepted[i] /\ accepted'[j].request = q /\ accepted'[j].at = now
            BY <4>3, <5>1, <5>2
          <6>2. SameNonce(accepted[i].request, q)
            BY <6>1
          <6> QED
            BY <3>6, <5>1, <6>1, <6>2
        <5>3. CASE j \in 1 .. n
          BY <4>3, <5>1, <5>3 DEF Windowed, NoReplayInWindow
        <5> QED
          BY <4>2, <5>2, <5>3
      <4> QED
        BY <2>2, <4>4, <4>5 DEF Windowed
    <3> QED
      BY <3>1, <3>7, <3>8
  <2> QED
    BY <2>3, <2>4
<1> QED
  BY <1>2, <1>3, <1>4, <1>5

\* No nonce is accepted twice while the timestamp it came with is in the window.
THEOREM NoReplay == Spec => []NoReplayInWindow
<1>1. Init => Windowed
  BY DEF Init, ThreadsInit, AuthenticationInit, Windowed, NoReplayInWindow, StampCompared,
     NonceKept
<1>2. TypeOK /\ Shape /\ Windowed /\ [Next]_vars => Windowed'
  <2> SUFFICES ASSUME TypeOK, Shape, Windowed, [Next]_vars PROVE Windowed'
    OBVIOUS
  <2>1. CASE \E t \in Threads : Step(t)
    BY <2>1, WindowedKept
  <2>2. CASE Meanwhile \/ UNCHANGED vars
    <3>1. /\ pc' = pc /\ request' = request /\ now' \in {now, now + 1}
          /\ nonces' = nonces /\ accepted' = accepted /\ recordedAt' = recordedAt
      BY <2>2, MeanwhileKeeps, Stuttering DEF threads, authentication
    <3>2. StampCompared'
      <4> SUFFICES ASSUME NEW t \in Threads, pc[t] \in {"stamp", "record_nonce"}
                   PROVE  /\ request[t].stamp <= now' + ClockSkew
                          /\ pc[t] = "record_nonce"
                             => request[t].stamp <= recordedAt[t] + ClockSkew
        BY <3>1 DEF StampCompared
      <4>1. request[t].stamp \in Nat
        BY TypeParts, Served
      <4> QED
        BY <3>1, <4>1, ClockTyped DEF Windowed, StampCompared
    <3>3. NonceKept'
      BY <3>1, ClockTyped DEF Windowed, NonceKept, KeptIn
    <3> QED
      BY <3>1, <3>2, <3>3 DEF Windowed, NoReplayInWindow
  <2> QED
    BY <2>1, <2>2, NextCases
<1>3. TypeOK /\ Shape /\ [Next]_vars => TypeOK' /\ Shape'
  BY NextKept
<1>4. Windowed => NoReplayInWindow
  BY DEF Windowed
<1> QED
  BY <1>1, <1>2, <1>3, <1>4, InitKept, PTL DEF Spec
-----------------------------------------------------------------------------
\* The usage of a day.
UsageHeld ==
  \A t \in Threads :
    pc[t] = "store_usage" =>
      \/ usageSeen[t] = NoUsage
      \/ /\ usageSeen[t] = Row(t)
         /\ lock[<<request[t].body.day, DeviceOf(t)>>] = t

LEMMA MinutesCompared ==
  ASSUME NEW m \in 0 .. MinutesOfDay
  PROVE  /\ m >= m
         /\ \A n \in 0 .. MinutesOfDay : ~ (m > n) => n >= m
BY DEF MinutesOfDay

LEMMA MinutesTyped ==
  ASSUME TypeOK, NEW d \in Devices, NEW y \in Days, usage[d][y] # NoUsage
  PROVE  usage[d][y].minutes \in 0 .. MinutesOfDay /\ usage[d][y].minutes >= usage[d][y].minutes
<1>1. usage[d][y] \in UsageRows
  BY TypeParts DEF ControlsOK
<1>2. usage[d][y].minutes \in 0 .. MinutesOfDay
  BY <1>1 DEF UsageRows
<1> QED
  BY <1>2, MinutesCompared

LEMMA UsageQuiet ==
  ASSUME TypeOK, Shape, NEW t \in Threads, Step(t), ~ ReadUsage(t), ~ StoreUsage(t)
  PROVE  usage' = usage /\ pc'[t] # "store_usage"
<1>0. pc \in [Threads -> Statements \union {"idle"}]
  BY TypeParts DEF ThreadsOK, Statements
<1>1. CASE Receive(t) \/ Abort(t)
  BY <1>0, <1>1 DEF Receive, Abort, Goto, Finish, controls
<1>2. CASE AuthenticationStep(t)
  BY <1>0, <1>2 DEF AuthenticationStep, Verify, StampNonce, RecordNonce, Continue, Goto, Finish,
     controls
<1>3. CASE StatusStep(t) /\ UNCHANGED controls
  BY <1>0, <1>3 DEF StatusStep, StartReport, InsertReport, ReadState, StoreStatus, Refuse,
     ReplayReport, Continue, LockRow, Goto, Finish, controls
<1>4. CASE SyncStep(t) /\ UNCHANGED controls
  BY <1>0, <1>4 DEF SyncStep, ReadAssignment, ReadPolicy, LockSyncDevice, LockDeviceRow,
     LockChain, StoreSyncEvent, EndSync, Continue, LockRow, Goto, Finish, controls
<1>5. CASE RefuseUsage(t) \/ StoreWebEvent(t) \/ LockForControl(t) \/ SetBlock(t) \/ ClearBlock(t)
  BY <1>0, <1>5 DEF RefuseUsage, StoreWebEvent, EndUsage, LockForControl, LockDeviceRow, SetBlock,
     ClearBlock, Change, LockRow, Goto, Finish, controls
<1> QED
  BY <1>1, <1>2, <1>3, <1>4, <1>5 DEF Step, ThreadStep, HandlerStep, ControlsStep

\* What a report that is stored finds: no row, or one it may replace.
LEMMA UsageStored ==
  ASSUME TypeOK, Shape, UsageHeld, NEW t \in Threads, StoreUsage(t), usage' # usage
  PROVE  LET d == DeviceOf(t)
             y == request[t].body.day
             row == [minutes |-> request[t].body.minutes, policy |-> request[t].body.policy]
         IN
         /\ d \in Devices /\ y \in Days /\ row \in UsageRows
         /\ usage' = [usage EXCEPT ![d][y] = row]
         /\ usage[d][y] # NoUsage =>
              /\ lock[<<y, d>>] = t
              /\ row.minutes >= usage[d][y].minutes
              /\ row.policy = usage[d][y].policy
<1> DEFINE d == DeviceOf(t)
           y == request[t].body.day
           row == [minutes |-> request[t].body.minutes, policy |-> request[t].body.policy]
<1>1. /\ pc[t] = "store_usage" /\ ~ UsageConflicts(t)
      /\ usage' = [usage EXCEPT ![d][y] = row]
  BY DEF StoreUsage
<1>2. Kind(t) = "usage" /\ request[t].body.minutes \in 0 .. MinutesOfDay
  BY <1>1 DEF Shape, ShapeOf
<1>3. d \in Devices /\ y \in Days /\ request[t] \in Requests
  BY <1>1, <1>2, TypeParts, Served
<1>4. row \in UsageRows
  BY <1>2, <1>3 DEF UsageRows, Kind
<1>5. ASSUME usage[d][y] # NoUsage
      PROVE  /\ lock[<<y, d>>] = t
             /\ row.minutes >= usage[d][y].minutes
             /\ row.policy = usage[d][y].policy
  <2>1. usageSeen[t] = usage[d][y] /\ lock[<<y, d>>] = t
    BY <1>1, <1>5 DEF UsageConflicts, UsageHeld, Row
  <2>2. ~ (usage[d][y].minutes > row.minutes) /\ usage[d][y].policy = row.policy
    BY <1>1, <1>5, <2>1 DEF UsageConflicts
  <2>3. usage[d][y].minutes \in 0 .. MinutesOfDay
    BY <1>3, <1>5, MinutesTyped
  <2>4. row.minutes >= usage[d][y].minutes
    BY <1>2, <2>2, <2>3, MinutesCompared
  <2> QED
    BY <2>1, <2>2, <2>4
<1> QED
  BY <1>1, <1>3, <1>4, <1>5

LEMMA UsageOfDayGrows ==
  ASSUME TypeOK, Shape, UsageHeld, NEW t \in Threads, Step(t)
  PROVE  UsageGrows
<1>1. CASE usage' = usage
  BY <1>1, MinutesTyped DEF UsageGrows
<1>2. CASE usage' # usage
  <2>1. StoreUsage(t)
    BY <1>2, UsageQuiet DEF ReadUsage
  <2> DEFINE d == DeviceOf(t)
             y == request[t].body.day
             row == [minutes |-> request[t].body.minutes, policy |-> request[t].body.policy]
  <2>2. /\ d \in Devices /\ y \in Days /\ row \in UsageRows
        /\ usage' = [usage EXCEPT ![d][y] = row]
        /\ usage[d][y] # NoUsage =>
             row.minutes >= usage[d][y].minutes /\ row.policy = usage[d][y].policy
    BY <1>2, <2>1, UsageStored
  <2> HIDE DEF d, y, row
  <2>3. ASSUME NEW c \in Devices, NEW z \in Days, usage[c][z] # NoUsage
        PROVE  /\ usage'[c][z] # NoUsage
               /\ usage'[c][z].minutes >= usage[c][z].minutes
               /\ usage'[c][z].policy = usage[c][z].policy
    <3>1. CASE c = d /\ z = y
      <4>1. usage'[c][z] = row
        BY <2>2, <3>1, TypeParts DEF ControlsOK
      <4> QED
        BY <2>2, <2>3, <3>1, <4>1, MarksAssumption
    <3>2. CASE ~ (c = d /\ z = y)
      <4>1. usage'[c][z] = usage[c][z]
        BY <2>2, <3>2, TypeParts DEF ControlsOK
      <4> QED
        BY <2>3, <4>1, MinutesTyped
    <3> QED
      BY <3>1, <3>2
  <2> QED
    BY <2>3 DEF UsageGrows
<1> QED
  BY <1>1, <1>2

LEMMA UsageHeldKept ==
  ASSUME TypeOK, Shape, UsageHeld, NEW t \in Threads, Step(t)
  PROVE  UsageHeld'
<1>1. Kept(t)
  BY StepKept DEF Step
<1>2. ASSUME NEW u \in Threads \ {t}, pc'[u] = "store_usage", usageSeen'[u] # NoUsage
      PROVE  /\ usageSeen'[u] = Row(u)'
             /\ lock'[<<request[u].body.day, DeviceOf(u)>>'] = u
  <2> DEFINE e == DeviceOf(u)
             z == request[u].body.day
  <2>1. pc[u] = "store_usage" /\ request'[u] = request[u] /\ usageSeen'[u] = usageSeen[u]
    BY <1>1, <1>2 DEF Kept, Frame
  <2>2. e \in Devices /\ z \in Days
    BY <2>1, TypeParts, Served DEF Shape, ShapeOf
  <2>3. usageSeen[u] = usage[e][z] /\ lock[<<z, e>>] = u
    BY <1>2, <2>1 DEF UsageHeld, Row
  <2>4. lock'[<<z, e>>] = u
    BY <1>1, <2>2, <2>3, LocksStay, LockableRows DEF Kept
  <2>5. usage'[e][z] = usage[e][z]
    <3>1. CASE usage' # usage
      <4>1. StoreUsage(t)
        BY <3>1, UsageQuiet DEF ReadUsage
      <4> DEFINE d == DeviceOf(t)
                 y == request[t].body.day
                 row == [minutes |-> request[t].body.minutes, policy |-> request[t].body.policy]
      <4>2. /\ usage' = [usage EXCEPT ![d][y] = row]
            /\ usage[d][y] # NoUsage => lock[<<y, d>>] = t
        BY <3>1, <4>1, UsageStored
      <4>3. ~ (d = e /\ y = z)
        BY <1>2, <2>1, <2>3, <4>2
      <4> QED
        BY <2>2, <4>2, <4>3, TypeParts DEF ControlsOK
    <3> QED
      BY <3>1
  <2>6. DeviceOf(u)' = e /\ request'[u].body.day = z
    BY <2>1 DEF DeviceOf
  <2> QED
    BY <2>1, <2>3, <2>4, <2>5, <2>6 DEF Row
<1>3. ASSUME pc'[t] = "store_usage", usageSeen'[t] # NoUsage
      PROVE  /\ usageSeen'[t] = Row(t)'
             /\ lock'[<<request[t].body.day, DeviceOf(t)>>'] = t
  <2>1. ReadUsage(t)
    BY <1>3, UsageQuiet, TypeParts DEF StoreUsage, EndUsage, Finish, ThreadsOK
  <2>2. pc[t] # "idle" /\ DeviceOf(t) \in Devices /\ request[t].body.day \in Days
    BY <2>1, TypeParts, Served DEF ReadUsage, Kind
  <2>3. <<request[t].body.day, DeviceOf(t)>> \in Rows
    BY <2>2, LockableRows
  <2>4. usageSeen'[t] = Row(t) /\ usage' = usage /\ request' = request /\ Row(t) # NoUsage
    BY <1>3, <2>1, TypeParts DEF ReadUsage, Continue, LockRow, ControlsOK
  <2>5. lock'[<<request[t].body.day, DeviceOf(t)>>] = t
    BY <2>1, <2>3, <2>4, TypeParts DEF ReadUsage, LockRow, ThreadsOK
  <2> QED
    BY <2>4, <2>5 DEF Row, DeviceOf
<1> QED
  BY <1>2, <1>3 DEF UsageHeld

\* The total of a day never shrinks and keeps its policy, for any number of
\* reports of the day that are handled together.
THEOREM UsageNeverShrinks == Spec => [][UsageGrows]_vars
<1>1. Init => UsageHeld
  BY DEF Init, ThreadsInit, UsageHeld
<1>2. TypeOK /\ Shape /\ UsageHeld /\ [Next]_vars => UsageHeld'
  <2> SUFFICES ASSUME TypeOK, Shape, UsageHeld, [Next]_vars PROVE UsageHeld'
    OBVIOUS
  <2>1. CASE \E t \in Threads : Step(t)
    BY <2>1, UsageHeldKept
  <2>2. CASE Meanwhile \/ UNCHANGED vars
    <3>1. UNCHANGED <<pc, request, lock, usage, usageSeen>>
      BY <2>2, MeanwhileKeeps, Stuttering DEF controls, threads
    <3> QED
      BY <3>1 DEF UsageHeld, Row, DeviceOf
  <2> QED
    BY <2>1, <2>2, NextCases
<1>3. TypeOK /\ Shape /\ UsageHeld /\ [Next]_vars => [UsageGrows]_vars
  <2> SUFFICES ASSUME TypeOK, Shape, UsageHeld, [Next]_vars PROVE [UsageGrows]_vars
    OBVIOUS
  <2>1. CASE \E t \in Threads : Step(t)
    BY <2>1, UsageOfDayGrows
  <2>2. CASE Meanwhile
    <3>1. usage' = usage
      BY <2>2, MeanwhileKeeps DEF controls
    <3> QED
      BY <3>1, MinutesTyped DEF UsageGrows
  <2> QED
    BY <2>1, <2>2, NextCases
<1>4. TypeOK /\ Shape /\ [Next]_vars => TypeOK' /\ Shape'
  BY NextKept
<1> QED
  BY <1>1, <1>2, <1>3, <1>4, InitKept, PTL DEF Spec
-----------------------------------------------------------------------------
\* Who waits for whom.
Holding == {"set_override", "lock_chain", "store_event", "store_status", "store_usage"}

\* The statement at which a thread holds a row.
HoldsAt(u, d) ==
  /\ lock[<<"device", d>>] = u => pc[u] \in {"set_override", "lock_chain", "store_event"}
  /\ lock[<<"sync_chain", d>>] = u => pc[u] = "store_event"
  /\ \A k \in StatusKinds : lock[<<k, d>>] = u => pc[u] = "store_status"
  /\ \A y \in Days : lock[<<y, d>>] = u => pc[u] = "store_usage"

LockHolders == \A u \in Threads, d \in Devices : HoldsAt(u, d)

\* The row that a step takes, at the statement it is taken at.
Takes(t, r) ==
  /\ lock' = [lock EXCEPT ![r] = t]
  /\ \/ /\ pc[t] \in {"handle", "lock_device"} /\ pc'[t] \in {"set_override", "lock_chain"}
        /\ r = <<"device", DeviceOf(t)>>
     \/ /\ pc[t] = "lock_chain" /\ pc'[t] = "store_event"
        /\ r = <<"sync_chain", DeviceOf(t)>>
     \/ /\ pc[t] = "read_state" /\ pc'[t] = "store_status"
        /\ r = <<Kind(t), DeviceOf(t)>>
     \/ /\ pc[t] = "handle" /\ pc'[t] = "store_usage" /\ Kind(t) = "usage"
        /\ r = <<request[t].body.day, DeviceOf(t)>>

LEMMA StepLocks ==
  ASSUME TypeOK, Shape, NEW t \in Threads, Step(t)
  PROVE  \/ Finish(t)
         \/ lock' = lock /\ pc[t] \notin Holding
         \/ \E r : Takes(t, r)
<1>0. pc \in [Threads -> Statements \union {"idle"}]
  BY TypeParts DEF ThreadsOK, Statements
<1>1. CASE Receive(t) \/ Abort(t)
  BY <1>1 DEF Receive, Abort, Holding
<1>2. CASE AuthenticationStep(t)
  BY <1>2 DEF AuthenticationStep, Verify, StampNonce, RecordNonce, Continue, Holding
<1>3. CASE StatusStep(t)
  <2>1. CASE StartReport(t) \/ InsertReport(t) \/ StoreStatus(t)
    BY <2>1 DEF StartReport, InsertReport, StoreStatus, Refuse, ReplayReport, Continue, Holding
  <2>2. CASE ReadState(t)
    BY <1>0, <2>2 DEF ReadState, Continue, LockRow, Goto, Takes, Holding
  <2> QED
    BY <1>3, <2>1, <2>2 DEF StatusStep
<1>4. CASE ControlsStep(t)
  <2>1. CASE ReadUsage(t)
    BY <1>0, <2>1 DEF ReadUsage, Continue, LockRow, Goto, Takes, Holding, Kind
  <2>2. CASE LockForControl(t)
    BY <1>0, <2>2 DEF LockForControl, LockDeviceRow, LockRow, Goto, Takes
  <2> QED
    BY <1>4, <2>1, <2>2 DEF ControlsStep, RefuseUsage, StoreUsage, StoreWebEvent, EndUsage,
       SetBlock, ClearBlock
<1>5. CASE SyncStep(t)
  <2>1. CASE ReadAssignment(t) \/ ReadPolicy(t) \/ StoreSyncEvent(t)
    BY <2>1 DEF ReadAssignment, ReadPolicy, StoreSyncEvent, EndSync, Continue, Holding
  <2>2. CASE LockSyncDevice(t) \/ LockChain(t)
    BY <1>0, <2>2 DEF LockSyncDevice, LockChain, LockDeviceRow, LockRow, Continue, Goto, Takes,
       Holding
  <2> QED
    BY <1>5, <2>1, <2>2 DEF SyncStep
<1> QED
  BY <1>1, <1>2, <1>3, <1>4, <1>5 DEF Step, ThreadStep, HandlerStep

LEMMA LockHoldersKept ==
  ASSUME TypeOK, Shape, LockHolders, NEW t \in Threads, Step(t)
  PROVE  LockHolders'
<1>1. Kept(t) /\ lock \in [Rows -> Threads \union {NoThread}]
  BY StepKept, TypeParts DEF Step, ThreadsOK
<1> SUFFICES ASSUME NEW u \in Threads, NEW d \in Devices PROVE HoldsAt(u, d)'
  BY DEF LockHolders
<1>2. HoldsAt(u, d)
  BY DEF LockHolders
<1>3. /\ <<"device", d>> \in Rows /\ <<"sync_chain", d>> \in Rows
      /\ \A k \in StatusKinds \union Days : <<k, d>> \in Rows
  BY LockableRows
<1>4. CASE u # t
  <2>1. pc'[u] = pc[u] /\ \A r \in Rows : lock'[r] = u => lock[r] = u
    BY <1>1, <1>4, ThreadsAssumption DEF Kept, Frame
  <2> QED
    BY <1>2, <1>3, <2>1 DEF HoldsAt
<1>5. CASE u = t
  <2>1. CASE Finish(t)
    <3>1. \A r \in Rows : lock'[r] # t
      BY <1>1, <2>1, ThreadsAssumption DEF Finish
    <3> QED
      BY <1>3, <1>5, <3>1 DEF HoldsAt
  <2>2. CASE lock' = lock /\ pc[t] \notin Holding
    BY <1>2, <1>5, <2>2 DEF HoldsAt, Holding
  <2>3. ASSUME NEW r, Takes(t, r) PROVE HoldsAt(u, d)'
    <3>1. \A q \in Rows : lock'[q] = t => q = r \/ lock[q] = t
      BY <1>1, <2>3 DEF Takes
    <3>2. CASE pc[t] \in {"handle", "lock_device"} /\ pc'[t] \in {"set_override", "lock_chain"}
               /\ r = <<"device", DeviceOf(t)>>
      <4>1. \A k \in StatusKinds \union Days \union {"sync_chain"} : r # <<k, d>>
        BY <3>2, TablesAssumption DEF StatusKinds
      <4> QED
        BY <1>2, <1>3, <1>5, <3>1, <3>2, <4>1 DEF HoldsAt
    <3>3. CASE pc[t] = "lock_chain" /\ pc'[t] = "store_event"
               /\ r = <<"sync_chain", DeviceOf(t)>>
      <4>1. \A k \in StatusKinds \union Days \union {"device"} : r # <<k, d>>
        BY <3>3, TablesAssumption DEF StatusKinds
      <4> QED
        BY <1>2, <1>3, <1>5, <3>1, <3>3, <4>1 DEF HoldsAt
    <3>4. CASE pc[t] = "read_state" /\ pc'[t] = "store_status" /\ r = <<Kind(t), DeviceOf(t)>>
      <4>1. Kind(t) \in StatusKinds
        BY <3>4 DEF Shape, ShapeOf
      <4>2. \A k \in Days \union {"device", "sync_chain"} : r # <<k, d>>
        BY <3>4, <4>1, TablesAssumption DEF StatusKinds
      <4> QED
        BY <1>2, <1>3, <1>5, <3>1, <3>4, <4>2 DEF HoldsAt
    <3>5. CASE pc[t] = "handle" /\ pc'[t] = "store_usage" /\ Kind(t) = "usage"
               /\ r = <<request[t].body.day, DeviceOf(t)>>
      <4>1. request[t].body.day \in Days
        BY <3>5, TypeParts, Served
      <4>2. \A k \in StatusKinds \union {"device", "sync_chain"} : r # <<k, d>>
        BY <3>5, <4>1, TablesAssumption
      <4> QED
        BY <1>2, <1>3, <1>5, <3>1, <3>5, <4>2 DEF HoldsAt
    <3> QED
      BY <2>3, <3>2, <3>3, <3>4, <3>5 DEF Takes
  <2> QED
    BY <2>1, <2>2, <2>3, StepLocks
<1> QED
  BY <1>4, <1>5

\* How far a thread has come in the order in which rows are locked.
Rank(t) ==
  CASE pc[t] \in {"store_status", "store_event", "set_override"} -> 3
    [] pc[t] \in {"read_state", "lock_chain"} -> 2
    [] pc[t] = "handle" /\ Kind(t) = "usage" -> 0
    [] OTHER -> 1

LEMMA WaitsUpwards ==
  ASSUME TypeOK, Shape, LockHolders, NEW t \in Threads, NEW u \in Threads, WaitsFor(t, u)
  PROVE  Rank(t) < Rank(u)
<1>1. /\ pc[t] # "idle" /\ DeviceOf(t) \in Devices
      /\ Kind(t) = "usage" => request[t].body.day \in Days
  BY TypeParts, Served DEF WaitsFor
<1>2. HoldsAt(u, DeviceOf(t))
  BY <1>1 DEF LockHolders
<1>3. lock[<<"device", DeviceOf(t)>>] = u \/ HoldsKeyShare(u, DeviceOf(t)) => Rank(u) \in {2, 3}
  BY <1>2 DEF HoldsAt, HoldsKeyShare, Rank
<1>4. ASSUME NEW r \in Rows, lock[r] = u, Locks(t, r) PROVE Rank(t) < Rank(u)
  <2>1. CASE /\ pc[t] = "lock_device" \/ (pc[t] = "handle" /\ Kind(t) \in Administrative)
             /\ r = <<"device", DeviceOf(t)>>
    <3>1. Rank(t) = 1
      BY <2>1 DEF Rank, Administrative
    <3> QED
      BY <1>3, <1>4, <2>1, <3>1
  <2>2. CASE pc[t] = "lock_chain" /\ r = <<"sync_chain", DeviceOf(t)>>
    <3>1. Rank(t) = 2 /\ Rank(u) = 3
      BY <1>2, <1>4, <2>2 DEF Rank, HoldsAt
    <3> QED
      BY <3>1
  <2>3. CASE pc[t] = "read_state" /\ r = <<Kind(t), DeviceOf(t)>>
    <3>1. Kind(t) \in StatusKinds
      BY <2>3 DEF Shape, ShapeOf
    <3>2. Rank(t) = 2 /\ Rank(u) = 3
      BY <1>2, <1>4, <2>3, <3>1 DEF Rank, HoldsAt
    <3> QED
      BY <3>2
  <2>4. CASE pc[t] = "handle" /\ Kind(t) = "usage" /\ r = <<request[t].body.day, DeviceOf(t)>>
    <3>1. pc[u] = "store_usage"
      BY <1>1, <1>2, <1>4, <2>4 DEF HoldsAt
    <3>2. Rank(t) = 0 /\ Rank(u) = 1
      BY <2>4, <3>1 DEF Rank
    <3> QED
      BY <3>2
  <2> QED
    BY <1>4, <2>1, <2>2, <2>3, <2>4 DEF Locks
<1>5. CASE HoldsKeyShare(u, DeviceOf(t)) /\ Locks(t, <<"device", DeviceOf(t)>>)
  <2>1. ~ (pc[t] = "read_state" /\ Kind(t) = "device")
    BY DEF Shape, ShapeOf, StatusKinds
  <2>2. pc[t] \in {"lock_device", "handle"}
    BY <1>5, <2>1 DEF Locks
  <2>3. Rank(t) \in {0, 1}
    BY <2>2 DEF Rank
  <2> QED
    BY <1>3, <1>5, <2>3
<1>6. CASE Refers(t) /\ lock[<<"device", DeviceOf(t)>>] = u
  <2>1. Rank(t) = 1
    BY <1>6 DEF Refers, Rank
  <2> QED
    BY <1>3, <1>6, <2>1
<1>7. CASE pc[t] = "insert_report" /\ pc[u] \in {"read_state", "store_status"}
  <2>1. Rank(t) = 1 /\ Rank(u) \in {2, 3}
    BY <1>7 DEF Rank
  <2> QED
    BY <2>1
<1> QED
  BY <1>4, <1>5, <1>6, <1>7 DEF WaitsFor

LEMMA SomeoneRuns ==
  ASSUME TypeOK, Shape, LockHolders
  PROVE  NoCircularWait
<1> SUFFICES ASSUME NEW S \in SUBSET Threads, S # {}
             PROVE  \E t \in S : \A u \in S : ~ WaitsFor(t, u)
  BY DEF NoCircularWait
<1>1. \A t \in S : Rank(t) \in 0 .. 3
  BY DEF Rank
<1>2. PICK t \in S : \A u \in S : Rank(u) <= Rank(t)
  <2>1. CASE \E t \in S : Rank(t) = 3
    BY <1>1, <2>1
  <2>2. CASE (\A t \in S : Rank(t) # 3) /\ \E t \in S : Rank(t) = 2
    BY <1>1, <2>2
  <2>3. CASE (\A t \in S : Rank(t) \notin {2, 3}) /\ \E t \in S : Rank(t) = 1
    BY <1>1, <2>3
  <2>4. CASE \A t \in S : Rank(t) \notin {1, 2, 3}
    BY <1>1, <2>4
  <2> QED
    BY <2>1, <2>2, <2>3, <2>4
<1>3. \A u \in S : ~ (Rank(t) < Rank(u))
  BY <1>1, <1>2
<1> QED
  BY <1>3, WaitsUpwards

\* No circle of waiting closes, for any number of threads: of those that wait
\* for a row, for a reference to a device, or for an uncommitted UUID, one is
\* the last in the order in which every handler locks.
THEOREM NoDeadlock == Spec => []NoCircularWait
<1>1. Init => LockHolders
  <2> SUFFICES ASSUME Init, NEW u \in Threads, NEW d \in Devices PROVE HoldsAt(u, d)
    BY DEF LockHolders
  <2>1. \A r \in Rows : lock[r] # u
    BY ThreadsAssumption DEF Init, ThreadsInit
  <2> QED
    BY <2>1, LockableRows DEF HoldsAt
<1>2. TypeOK /\ Shape /\ LockHolders /\ [Next]_vars => LockHolders'
  <2> SUFFICES ASSUME TypeOK, Shape, LockHolders, [Next]_vars PROVE LockHolders'
    OBVIOUS
  <2>1. CASE \E t \in Threads : Step(t)
    BY <2>1, LockHoldersKept
  <2>2. CASE Meanwhile \/ UNCHANGED vars
    <3>1. pc' = pc /\ lock' = lock
      BY <2>2, MeanwhileKeeps, Stuttering DEF threads
    <3>2. ASSUME NEW u \in Threads, NEW d \in Devices PROVE HoldsAt(u, d)'
      <4>1. HoldsAt(u, d)
        BY DEF LockHolders
      <4> QED
        BY <3>1, <4>1 DEF HoldsAt
    <3> QED
      BY <3>2 DEF LockHolders
  <2> QED
    BY <2>1, <2>2, NextCases
<1>3. TypeOK /\ Shape /\ [Next]_vars => TypeOK' /\ Shape'
  BY NextKept
<1>4. TypeOK /\ Shape /\ LockHolders => NoCircularWait
  BY SomeoneRuns
<1> QED
  BY <1>1, <1>2, <1>3, <1>4, InitKept, PTL DEF Spec
=============================================================================
