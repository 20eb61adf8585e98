----------------------- MODULE PolicyAssignment_proofs -----------------------
(***************************************************************************)
(* Proofs about PolicyAssignment for any devices, threads and revisions.   *)
(*                                                                         *)
(* What makes the invariants inductive is what a thread knows between its  *)
(* statements: it holds the device row (LockHeld), so the assignment it    *)
(* read is still the active one (CurrentIsActive); it holds nothing on the *)
(* policy, and knows only that it left "draft" for good (PolicyLeftDraft). *)
(* The device it holds was enrolled when it was locked and retires only    *)
(* when it is free (HeldIsEnrolled).  The evidence is dated under the same *)
(* lock (EvidenceDated), so the order of the dates, in which it is         *)
(* verified, is the order of the chain (EvidenceLinked).                   *)
(***************************************************************************)
EXTENDS PolicyAssignment, TLAPS

\* Between the device lock and the end of the request the row is held.
LockHeld ==
  \A t \in Threads :
    pc[t] \in {"read_policy", "read_current", "decide"} => lock[request[t].device] = t

\* The assignment a deciding thread has read is the one in force.
CurrentIsActive ==
  \A t \in Threads :
    pc[t] = "decide" => ActiveRows(request[t].device) = {current[t]} \ {0}

\* The policy of a revision that passed the check is no longer a draft.
PolicyLeftDraft ==
  \A t \in Threads :
    pc[t] \in {"read_current", "decide"} /\ ~ IsClear(t) =>
      policyStatus[PolicyOf[request[t].revision]] # "draft"

\* Every event names the one stored before it, and the chain head the last.
EvidenceLinked ==
  \A d \in Devices :
    /\ head[d] = Len(events[d])
    /\ \A k \in 1 .. Len(events[d]) : events[d][k].link = k - 1

\* No event is dated before one stored before it, nor after the present.
EvidenceDated ==
  \A d \in Devices : \A k \in 1 .. Len(events[d]) :
    /\ events[d][k].at <= clock
    /\ \A i \in 1 .. k : events[d][i].at <= events[d][k].at

History ==
  /\ AtMostOneActive /\ EvidenceExplainsState /\ NoDraftAssigned
  /\ EvidenceLinked /\ EvidenceDated

IInv == TypeOK /\ History /\ LockHeld /\ CurrentIsActive /\ PolicyLeftDraft

\* Superseding a row, if there is one, changes its status and nothing else.
LEMMA SupersededRow ==
  ASSUME NEW h \in Seq(Rows), NEW i \in Nat
  PROVE  /\ Superseded(h, i) \in Seq(Rows)
         /\ Len(Superseded(h, i)) = Len(h)
         /\ \A j \in 1 .. Len(h) :
              /\ Superseded(h, i)[j].revision = h[j].revision
              /\ Superseded(h, i)[j].status = IF j = i THEN "superseded" ELSE h[j].status
<1>1. \A j \in 1 .. Len(h) : h[j] \in Rows
  OBVIOUS
<1>2. \A j \in 1 .. Len(h) : [revision |-> h[j].revision, status |-> "superseded"] \in Rows
  BY <1>1 DEF Rows
<1>3. Superseded(h, i) \in [1 .. Len(h) -> Rows]
  BY <1>1, <1>2 DEF Superseded
<1>4. Superseded(h, i) \in Seq(Rows) /\ Len(Superseded(h, i)) = Len(h)
  BY <1>3
<1>5. \A j \in 1 .. Len(h) : Superseded(h, i)[j] =
        IF j = i THEN [revision |-> h[j].revision, status |-> "superseded"] ELSE h[j]
  BY DEF Superseded
<1>6. ASSUME NEW j \in 1 .. Len(h)
      PROVE  /\ Superseded(h, i)[j].revision = h[j].revision
             /\ Superseded(h, i)[j].status = IF j = i THEN "superseded" ELSE h[j].status
  <2>1. CASE j = i
    <3>1. Superseded(h, i)[j] = [revision |-> h[j].revision, status |-> "superseded"]
      BY <1>5, <2>1
    <3> QED
      BY <2>1, <3>1
  <2>2. CASE j # i
    BY <1>5, <2>2
  <2> QED
    BY <2>1, <2>2
<1> QED
  BY <1>4, <1>6

\* The initial state satisfies the inductive invariant.
LEMMA InitIInv == Init => IInv
<1> SUFFICES ASSUME Init PROVE IInv
  OBVIOUS
<1>1. TypeOK
  BY DEF Init, TypeOK
<1>2. \A d \in Devices : rows[d] = << >> /\ events[d] = << >> /\ head[d] = 0 /\ ActiveRows(d) = {}
  <2>1. \A d \in Devices : rows[d] = << >> /\ events[d] = << >> /\ head[d] = 0
    BY DEF Init
  <2>2. 1 .. Len(<< >>) = {}
    OBVIOUS
  <2> QED
    BY <2>1, <2>2 DEF ActiveRows
<1>3. History
  BY <1>2 DEF History, AtMostOneActive, EvidenceExplainsState, EvidenceLinked, EvidenceDated,
              NoDraftAssigned, InForce
<1>4. LockHeld /\ CurrentIsActive /\ PolicyLeftDraft
  BY DEF Init, LockHeld, CurrentIsActive, PolicyLeftDraft
<1> QED
  BY <1>1, <1>3, <1>4 DEF IInv

\* Ending a request keeps the types of what it touches.
LEMMA FinishTypes ==
  ASSUME TypeOK, NEW t \in Threads, Finish(t)
  PROVE  /\ pc' \in [Threads -> {"idle", "lock_device", "read_policy", "read_current", "decide"}]
         /\ request' \in [Threads -> Requests \union {NoRequest}]
         /\ \A u \in Threads : request'[u] = NoRequest <=> pc'[u] = "idle"
         /\ current' \in [Threads -> Nat]
         /\ lock' \in [Devices -> Threads \union {NoThread}]
BY DEF Finish, TypeOK

\* ... and what the other threads know, as long as their devices stay put.
LEMMA FinishKeeps ==
  ASSUME IInv, NEW t \in Threads, Finish(t), UNCHANGED policyStatus,
         \A d \in Devices : lock[d] # t => rows'[d] = rows[d]
  PROVE  LockHeld' /\ CurrentIsActive' /\ PolicyLeftDraft'
<1>1. ASSUME NEW u \in Threads, pc'[u] # "idle"
      PROVE  /\ u # t /\ pc'[u] = pc[u] /\ request'[u] = request[u] /\ current'[u] = current[u]
             /\ request[u] \in Requests /\ request[u].device \in Devices
  BY <1>1 DEF Finish, IInv, TypeOK, Requests
<1>2. LockHeld'
  BY <1>1 DEF LockHeld, IInv, Finish
<1>3. CurrentIsActive'
  <2> SUFFICES ASSUME NEW u \in Threads, pc'[u] = "decide"
               PROVE  ActiveRows(request[u].device)' = {current'[u]} \ {0}
    BY DEF CurrentIsActive
  <2>1. u # t /\ pc[u] = "decide" /\ request'[u] = request[u] /\ current'[u] = current[u]
        /\ request[u].device \in Devices
    BY <1>1
  <2>2. lock[request[u].device] = u
    BY <2>1 DEF IInv, LockHeld
  <2>3. rows'[request[u].device] = rows[request[u].device]
    BY <2>1, <2>2
  <2> QED
    BY <2>1, <2>3 DEF IInv, CurrentIsActive, ActiveRows
<1>4. PolicyLeftDraft'
  BY <1>1 DEF PolicyLeftDraft, IInv, IsClear
<1> QED
  BY <1>2, <1>3, <1>4

\* The history of a device is as good as before if its tables are.
LEMMA HistoryUnchanged ==
  ASSUME History, UNCHANGED <<rows, events, head, policyStatus, clock>>
  PROVE  History'
BY DEF History, AtMostOneActive, EvidenceExplainsState, EvidenceLinked, EvidenceDated,
       NoDraftAssigned, InForce, ActiveRows

\* Type correctness of every step, given that the current row is a row.
LEMMA TypeStep == IInv /\ [Next]_vars => TypeOK'
<1> SUFFICES ASSUME IInv, [Next]_vars PROVE TypeOK'
  OBVIOUS
<1>t. TypeOK
  BY DEF IInv
<1>1. ASSUME NEW t \in Threads, Answer(t) PROVE TypeOK'
  BY <1>1, <1>t, FinishTypes DEF Answer, database, TypeOK
<1>2. ASSUME NEW t \in Threads, Request(t) PROVE TypeOK'
  BY <1>2, <1>t, AssignmentAssumption DEF Request, database, TypeOK
<1>3. ASSUME NEW t \in Threads, LockDevice(t) PROVE TypeOK'
  BY <1>3, <1>t DEF LockDevice, database, TypeOK, Requests
<1>4. ASSUME NEW t \in Threads, ReadPolicy(t) PROVE TypeOK'
  BY <1>4, <1>t DEF ReadPolicy, database, TypeOK
<1>5. ASSUME NEW t \in Threads, ReadCurrent(t) PROVE TypeOK'
  <2> DEFINE d == request[t].device
             i == IF ActiveRows(d) = {} THEN 0 ELSE CHOOSE i \in ActiveRows(d) : TRUE
  <2>1. i \in Nat
    <3>1. ActiveRows(d) \subseteq Nat
      BY DEF ActiveRows
    <3> QED
      BY <3>1
  <2>2. current' = [current EXCEPT ![t] = i]
    BY <1>5 DEF ReadCurrent
  <2> HIDE DEF i
  <2>3. current' \in [Threads -> Nat]
    BY <1>t, <2>1, <2>2 DEF TypeOK
  <2> QED
    BY <1>5, <1>t, <2>3 DEF ReadCurrent, database, TypeOK
<1>6. ASSUME NEW t \in Threads, pc[t] = "decide"
      PROVE  /\ request[t] \in Requests /\ request[t].device \in Devices
             /\ current[t] \in Nat
             /\ rows[request[t].device] \in Seq(Rows)
             /\ events[request[t].device] \in Seq(Events)
             /\ head[request[t].device] \in Nat
             /\ Superseded(rows[request[t].device], current[t]) \in Seq(Rows)
  <2>1. /\ request[t] \in Requests /\ request[t].device \in Devices /\ current[t] \in Nat
    BY <1>6, <1>t DEF TypeOK, Requests
  <2>2. /\ rows[request[t].device] \in Seq(Rows)
        /\ events[request[t].device] \in Seq(Events)
        /\ head[request[t].device] \in Nat
    BY <2>1, <1>t DEF TypeOK
  <2> QED
    BY <2>1, <2>2, SupersededRow
<1>7. ASSUME NEW t \in Threads, NEW op \in {"assign", "replace", "clear"}, NEW a \in Nat,
             pc[t] = "decide", Record(t, op, a)
      PROVE  events' \in [Devices -> Seq(Events)] /\ head' \in [Devices -> Nat]
  <2> DEFINE d == request[t].device
             e == [operation |-> op, assignment |-> a, previous |-> current[t],
                  link |-> head[d], at |-> clock]
  <2>0. /\ op \in {"assign", "replace", "clear"} /\ a \in Nat
        /\ current[t] \in Nat /\ head[d] \in Nat /\ clock \in Nat
    BY <1>6, <1>7, <1>t DEF TypeOK
  <2>1. e \in Events
    BY <2>0 DEF Events
  <2>2. events' = [events EXCEPT ![d] = Append(events[d], e)] /\ head' = [head EXCEPT ![d] = Len(events[d]) + 1]
    BY <1>7 DEF Record
  <2>3. Append(events[d], e) \in Seq(Events) /\ Len(events[d]) + 1 \in Nat
    BY <1>6, <1>7, <2>1
  <2> QED
    BY <1>t, <2>2, <2>3 DEF TypeOK
<1>8. ASSUME NEW t \in Threads, Assign(t) PROVE TypeOK'
  <2> DEFINE d == request[t].device
             h == Superseded(rows[d], current[t])
             row == [revision |-> request[t].revision, status |-> "active"]
  <2>1. pc[t] = "decide" /\ ~ IsClear(t)
    BY <1>8 DEF Assign
  <2>2. row \in Rows
    BY <1>6, <2>1 DEF IsClear, Requests, Rows
  <2>3. Append(h, row) \in Seq(Rows)
    BY <1>6, <2>1, <2>2
  <2>4. rows' = [rows EXCEPT ![d] = Append(h, row)]
    BY <1>8 DEF Assign
  <2>5. Len(rows[d]) + 1 \in Nat
    BY <1>6, <2>1
  <2>6. events' \in [Devices -> Seq(Events)] /\ head' \in [Devices -> Nat]
    BY <1>7, <1>8, <2>1, <2>5 DEF Assign
  <2>7. Finish(t) /\ UNCHANGED <<enrolled, policyStatus, clock>>
    BY <1>8 DEF Assign
  <2>8. rows' \in [Devices -> Seq(Rows)]
    BY <1>t, <2>3, <2>4 DEF TypeOK
  <2> QED
    BY <1>t, <2>6, <2>7, <2>8, FinishTypes DEF TypeOK
<1>9. ASSUME NEW t \in Threads, Clear(t) PROVE TypeOK'
  <2>1. pc[t] = "decide"
    BY <1>9 DEF Clear
  <2>2. events' \in [Devices -> Seq(Events)] /\ head' \in [Devices -> Nat]
    BY <1>7, <1>9, <2>1 DEF Clear
  <2>3. rows' = [rows EXCEPT ![request[t].device] = Superseded(rows[request[t].device], current[t])]
        /\ Finish(t) /\ UNCHANGED <<enrolled, policyStatus, clock>>
    BY <1>9 DEF Clear
  <2>4. rows' \in [Devices -> Seq(Rows)]
    BY <1>6, <1>t, <2>1, <2>3 DEF TypeOK
  <2> QED
    BY <1>t, <2>2, <2>3, <2>4, FinishTypes DEF TypeOK
<1>10. ASSUME NEW p \in Policies, SetLifecycle(p) PROVE TypeOK'
  BY <1>10, <1>t DEF SetLifecycle, TypeOK
<1>11. ASSUME NEW d \in Devices, Retire(d) PROVE TypeOK'
  BY <1>11, <1>t DEF Retire, TypeOK
<1>12. CASE UNCHANGED vars
  BY <1>12, <1>t DEF vars, TypeOK
<1>13. CASE Tick
  BY <1>13, <1>t DEF Tick, TypeOK
<1> QED
  BY <1>1, <1>2, <1>3, <1>4, <1>5, <1>8, <1>9, <1>10, <1>11, <1>12, <1>13
  DEF Next, Wait, Proceed, RefuseRetired, RefusePolicy, AnswerUnchanged, RefuseNothingToClear, Abort

\* What a deciding thread may rely on about its device.
LEMMA DecideFacts ==
  ASSUME IInv, NEW t \in Threads, pc[t] = "decide"
  PROVE  \E d \in Devices :
           /\ d = request[t].device /\ request[t] \in Requests
           /\ current[t] \in Nat
           /\ rows[d] \in Seq(Rows) /\ events[d] \in Seq(Events)
           /\ ActiveRows(d) = {current[t]} \ {0}
           /\ lock[d] = t
           /\ InForce(d, Len(events[d])) = current[t]
<1>1. request[t].device \in Devices /\ request[t] \in Requests /\ current[t] \in Nat
  BY DEF IInv, TypeOK, Requests
<1>2. PICK d \in Devices : d = request[t].device
  BY <1>1
<1>3. rows[d] \in Seq(Rows) /\ events[d] \in Seq(Events)
  BY DEF IInv, TypeOK
<1>4. ActiveRows(d) = {current[t]} \ {0} /\ lock[d] = t
  BY <1>2 DEF IInv, CurrentIsActive, LockHeld
<1>5. ActiveRows(d) = {InForce(d, Len(events[d]))} \ {0}
  BY DEF IInv, History, EvidenceExplainsState
<1>6. InForce(d, Len(events[d])) = current[t]
  BY <1>4, <1>5
<1> QED
  BY <1>1, <1>2, <1>3, <1>4, <1>6

\* Recording an event that starts from the assignment in force extends the
\* evidence without a break.
LEMMA RecordExtends ==
  ASSUME IInv, NEW t \in Threads, pc[t] = "decide",
         NEW op, NEW a \in Nat, Record(t, op, a), UNCHANGED clock,
         current[t] = 0 => op = "assign"
  PROVE  /\ EvidenceLinked' /\ EvidenceDated'
         /\ \A d \in Devices :
              /\ InForce(d, Len(events[d]))' =
                   IF d = request[t].device THEN a ELSE InForce(d, Len(events[d]))
              /\ \A k \in 1 .. Len(events'[d]) :
                   /\ events'[d][k].previous = InForce(d, k - 1)'
                   /\ events'[d][k].previous = 0 => events'[d][k].operation = "assign"
<1>0. PICK e \in Devices :
        /\ e = request[t].device /\ events[e] \in Seq(Events)
        /\ InForce(e, Len(events[e])) = current[t]
  BY DecideFacts
<1>1. PICK n \in Nat : n = Len(events[e])
  BY <1>0
<1> DEFINE new == [operation |-> op, assignment |-> a, previous |-> current[t], link |-> head[e],
                   at |-> clock]
<1>2. /\ events'[e] = Append(events[e], new) /\ head'[e] = n + 1
      /\ \A d \in Devices \ {e} : events'[d] = events[d] /\ head'[d] = head[d]
  BY <1>0, <1>1 DEF Record, IInv, TypeOK
<1>3. /\ Len(events'[e]) = n + 1
      /\ events'[e][n + 1] = new
      /\ \A k \in 1 .. n : events'[e][k] = events[e][k]
  BY <1>0, <1>1, <1>2
<1>4. head[e] = n
  BY <1>1 DEF IInv, History, EvidenceLinked
<1>5. EvidenceLinked'
  <2> SUFFICES ASSUME NEW d \in Devices
               PROVE  /\ head'[d] = Len(events'[d])
                      /\ \A k \in 1 .. Len(events'[d]) : events'[d][k].link = k - 1
    BY DEF EvidenceLinked
  <2>1. CASE d # e
    BY <2>1, <1>2 DEF IInv, History, EvidenceLinked
  <2>2. CASE d = e
    <3>1. \A k \in 1 .. n : events'[e][k].link = k - 1
      BY <1>1, <1>3 DEF IInv, History, EvidenceLinked
    <3>2. events'[e][n + 1].link = n
      BY <1>3, <1>4
    <3> QED
      BY <2>2, <3>1, <3>2, <1>1, <1>2, <1>3
  <2> QED
    BY <2>1, <2>2
<1>7. EvidenceDated'
  <2> SUFFICES ASSUME NEW d \in Devices, NEW k \in 1 .. Len(events'[d]), NEW i \in 1 .. k
               PROVE  events'[d][k].at <= clock /\ events'[d][i].at <= events'[d][k].at
    BY DEF EvidenceDated
  <2>0. events[d] \in Seq(Events) /\ clock \in Nat
    BY DEF IInv, TypeOK
  <2>1. CASE d # e
    BY <2>0, <2>1, <1>2 DEF IInv, History, EvidenceDated
  <2>2. CASE d = e /\ k \in 1 .. n
    <3>1. i \in 1 .. n
      BY <2>2
    <3>2. events'[d][k] = events[d][k] /\ events'[d][i] = events[d][i]
      BY <1>3, <2>2, <3>1
    <3> QED
      BY <1>1, <2>2, <3>2 DEF IInv, History, EvidenceDated
  <2>3. CASE d = e /\ k = n + 1
    <3>1. events'[d][k].at = clock
      BY <1>3, <2>3
    <3>2. CASE i = n + 1
      BY <2>0, <2>3, <3>1, <3>2
    <3>3. CASE i \in 1 .. n
      <4>1. events'[d][i].at = events[d][i].at /\ events[d][i].at <= clock
        BY <1>1, <1>3, <2>3, <3>3 DEF IInv, History, EvidenceDated
      <4> QED
        BY <2>0, <3>1, <4>1
    <3> QED
      BY <2>3, <3>2, <3>3
  <2> QED
    BY <1>1, <1>2, <1>3, <2>1, <2>2, <2>3
<1>6. ASSUME NEW d \in Devices, NEW k \in 0 .. Len(events[d])
      PROVE  InForce(d, k)' = InForce(d, k)
  <2>1. CASE d # e
    BY <2>1, <1>2 DEF InForce
  <2>2. CASE d = e
    BY <2>2, <1>1, <1>3 DEF InForce
  <2> QED
    BY <2>1, <2>2
<1>8. ASSUME NEW d \in Devices
      PROVE  InForce(d, Len(events[d]))' =
               IF d = e THEN a ELSE InForce(d, Len(events[d]))
  <2>1. CASE d # e
    <3>1. events[d] \in Seq(Events)
      BY DEF IInv, TypeOK
    <3> QED
      BY <2>1, <3>1, <1>2 DEF InForce
  <2>2. CASE d = e
    <3>1. InForce(d, Len(events[d]))' = events'[e][n + 1].assignment
      <4>1. n + 1 # 0
        OBVIOUS
      <4> QED
        BY <2>2, <1>3, <4>1 DEF InForce
    <3> QED
      BY <2>2, <1>3, <3>1
  <2> QED
    BY <2>1, <2>2
<1>9. ASSUME NEW d \in Devices, NEW k \in 1 .. Len(events'[d])
      PROVE  /\ events'[d][k].previous = InForce(d, k - 1)'
             /\ events'[d][k].previous = 0 => events'[d][k].operation = "assign"
  <2>0. events[d] \in Seq(Events)
    BY DEF IInv, TypeOK
  <2>1. CASE d # e
    <3>1. k \in 1 .. Len(events[d]) /\ events'[d][k] = events[d][k] /\ k - 1 \in 0 .. Len(events[d])
      BY <2>0, <2>1, <1>2
    <3> QED
      BY <3>1, <1>6 DEF IInv, History, EvidenceExplainsState
  <2>2. CASE d = e /\ k \in 1 .. n
    <3>1. events'[d][k] = events[d][k] /\ k - 1 \in 0 .. Len(events[d])
      BY <1>1, <1>3, <2>2
    <3> QED
      BY <2>2, <3>1, <1>1, <1>6 DEF IInv, History, EvidenceExplainsState
  <2>3. CASE d = e /\ k = n + 1
    <3>1. k - 1 = n /\ n \in 0 .. Len(events[d])
      BY <1>1, <2>3
    <3>2. InForce(d, k - 1)' = current[t]
      BY <3>1, <1>0, <1>1, <1>6, <2>3
    <3>3. events'[d][k].previous = current[t] /\ events'[d][k].operation = op
      BY <1>3, <2>3
    <3> QED
      BY <3>2, <3>3
  <2> QED
    BY <2>1, <2>2, <2>3, <1>1, <1>3
<1> QED
  BY <1>0, <1>5, <1>7, <1>8, <1>9

\* Assigning keeps the history of every device consistent with its evidence.
LEMMA AssignHistory ==
  ASSUME IInv, NEW t \in Threads, Assign(t)
  PROVE  History'
<1>1. pc[t] = "decide" /\ UNCHANGED policyStatus /\ UNCHANGED clock /\ ~ IsClear(t)
  BY DEF Assign
<1>0. PICK e \in Devices :
        /\ e = request[t].device /\ request[t] \in Requests /\ current[t] \in Nat
        /\ rows[e] \in Seq(Rows) /\ ActiveRows(e) = {current[t]} \ {0}
  BY <1>1, DecideFacts
<1>2. PICK n \in Nat : n = Len(rows[e])
  BY <1>0
<1> DEFINE h == Superseded(rows[e], current[t])
           row == [revision |-> request[t].revision, status |-> "active"]
<1>3. /\ rows'[e] = Append(h, row)
      /\ \A d \in Devices \ {e} : rows'[d] = rows[d]
  BY <1>0 DEF Assign, IInv, TypeOK
<1>4. /\ h \in Seq(Rows) /\ Len(h) = n
      /\ \A j \in 1 .. n :
           /\ h[j].revision = rows[e][j].revision
           /\ h[j].status = IF j = current[t] THEN "superseded" ELSE rows[e][j].status
  BY <1>0, <1>2, SupersededRow
<1>5. /\ Len(rows'[e]) = n + 1
      /\ rows'[e][n + 1] = row
      /\ \A j \in 1 .. n : rows'[e][j] = h[j]
  BY <1>0, <1>2, <1>3, <1>4
<1>6. ActiveRows(e)' = {n + 1}
  <2>1. \A j \in 1 .. n : rows'[e][j].status # "active"
    <3> SUFFICES ASSUME NEW j \in 1 .. n PROVE rows'[e][j].status # "active"
      OBVIOUS
    <3>1. rows'[e][j].status = IF j = current[t] THEN "superseded" ELSE rows[e][j].status
      BY <1>4, <1>5
    <3>2. rows[e][j].status = "active" => j = current[t]
      BY <1>0, <1>2 DEF ActiveRows
    <3> QED
      BY <3>1, <3>2
  <2>2. rows'[e][n + 1].status = "active"
    BY <1>5
  <2>3. \A i : i \in ActiveRows(e)' <=> i \in 1 .. n + 1 /\ rows'[e][i].status = "active"
    BY <1>5 DEF ActiveRows
  <2> QED
    BY <2>1, <2>2, <2>3
<1>7. \A d \in Devices \ {e} : ActiveRows(d)' = ActiveRows(d)
  BY <1>3 DEF ActiveRows
<1>8. PICK op : Record(t, op, n + 1) /\ (current[t] = 0 => op = "assign")
  BY <1>0, <1>2 DEF Assign
<1>9. n + 1 \in Nat /\ n + 1 # 0
  OBVIOUS
<1>10. /\ EvidenceLinked' /\ EvidenceDated'
       /\ \A d \in Devices :
            /\ InForce(d, Len(events[d]))' = IF d = e THEN n + 1 ELSE InForce(d, Len(events[d]))
            /\ \A k \in 1 .. Len(events'[d]) :
                 /\ events'[d][k].previous = InForce(d, k - 1)'
                 /\ events'[d][k].previous = 0 => events'[d][k].operation = "assign"
  BY <1>0, <1>1, <1>8, <1>9, RecordExtends
<1>11. AtMostOneActive'
  <2> SUFFICES ASSUME NEW d \in Devices PROVE \A i, j \in ActiveRows(d)' : i = j
    BY DEF AtMostOneActive
  <2> QED
    BY <1>6, <1>7 DEF AtMostOneActive, IInv, History
<1>12. EvidenceExplainsState'
  <2> SUFFICES ASSUME NEW d \in Devices
               PROVE  ActiveRows(d)' = {InForce(d, Len(events[d]))'} \ {0}
    BY <1>10 DEF EvidenceExplainsState
  <2>1. CASE d = e
    BY <2>1, <1>6, <1>9, <1>10
  <2>2. CASE d # e
    BY <2>2, <1>7, <1>10 DEF IInv, History, EvidenceExplainsState
  <2> QED
    BY <2>1, <2>2
<1>13. NoDraftAssigned'
  <2> SUFFICES ASSUME NEW d \in Devices, NEW i \in 1 .. Len(rows'[d])
               PROVE  policyStatus[PolicyOf[rows'[d][i].revision]] # "draft"
    BY <1>1 DEF NoDraftAssigned
  <2>1. CASE d # e
    BY <2>1, <1>3 DEF IInv, History, NoDraftAssigned
  <2>2. CASE d = e /\ i \in 1 .. n
    <3>1. rows'[d][i].revision = rows[d][i].revision
      BY <2>2, <1>4, <1>5
    <3> QED
      BY <2>2, <3>1, <1>2 DEF IInv, History, NoDraftAssigned
  <2>3. CASE d = e /\ i = n + 1
    BY <2>3, <1>0, <1>1, <1>5 DEF IInv, PolicyLeftDraft
  <2> QED
    BY <2>1, <2>2, <2>3, <1>2, <1>5
<1> QED
  BY <1>10, <1>11, <1>12, <1>13 DEF History

\* ... and so does clearing.
LEMMA ClearHistory ==
  ASSUME IInv, NEW t \in Threads, Clear(t)
  PROVE  History'
<1>1. pc[t] = "decide" /\ UNCHANGED <<policyStatus, clock>> /\ current[t] # 0
  BY DEF Clear
<1>0. PICK e \in Devices :
        /\ e = request[t].device /\ current[t] \in Nat
        /\ rows[e] \in Seq(Rows) /\ ActiveRows(e) = {current[t]} \ {0}
  BY <1>1, DecideFacts
<1>2. PICK n \in Nat : n = Len(rows[e])
  BY <1>0
<1> DEFINE h == Superseded(rows[e], current[t])
<1>3. /\ rows'[e] = h
      /\ \A d \in Devices \ {e} : rows'[d] = rows[d]
  BY <1>0 DEF Clear, IInv, TypeOK
<1>4. /\ Len(h) = n
      /\ \A j \in 1 .. n :
           /\ h[j].revision = rows[e][j].revision
           /\ h[j].status = IF j = current[t] THEN "superseded" ELSE rows[e][j].status
  BY <1>0, <1>2, SupersededRow
<1>5. ActiveRows(e)' = {}
  <2> SUFFICES ASSUME NEW j \in 1 .. n PROVE rows'[e][j].status # "active"
    BY <1>3, <1>4 DEF ActiveRows
  <2>1. rows'[e][j].status = IF j = current[t] THEN "superseded" ELSE rows[e][j].status
    BY <1>3, <1>4
  <2>2. rows[e][j].status = "active" => j = current[t]
    BY <1>0, <1>2 DEF ActiveRows
  <2> QED
    BY <2>1, <2>2
<1>6. \A d \in Devices \ {e} : ActiveRows(d)' = ActiveRows(d)
  BY <1>3 DEF ActiveRows
<1>7. Record(t, "clear", 0)
  BY DEF Clear
<1>8. /\ EvidenceLinked' /\ EvidenceDated'
      /\ \A d \in Devices :
           /\ InForce(d, Len(events[d]))' = IF d = e THEN 0 ELSE InForce(d, Len(events[d]))
           /\ \A k \in 1 .. Len(events'[d]) :
                /\ events'[d][k].previous = InForce(d, k - 1)'
                /\ events'[d][k].previous = 0 => events'[d][k].operation = "assign"
  BY <1>0, <1>1, <1>7, RecordExtends
<1>9. AtMostOneActive'
  <2> SUFFICES ASSUME NEW d \in Devices PROVE \A i, j \in ActiveRows(d)' : i = j
    BY DEF AtMostOneActive
  <2> QED
    BY <1>5, <1>6 DEF AtMostOneActive, IInv, History
<1>10. EvidenceExplainsState'
  <2> SUFFICES ASSUME NEW d \in Devices
               PROVE  ActiveRows(d)' = {InForce(d, Len(events[d]))'} \ {0}
    BY <1>8 DEF EvidenceExplainsState
  <2>1. CASE d = e
    BY <2>1, <1>5, <1>8
  <2>2. CASE d # e
    BY <2>2, <1>6, <1>8 DEF IInv, History, EvidenceExplainsState
  <2> QED
    BY <2>1, <2>2
<1>11. NoDraftAssigned'
  <2> SUFFICES ASSUME NEW d \in Devices, NEW i \in 1 .. Len(rows'[d])
               PROVE  policyStatus[PolicyOf[rows'[d][i].revision]] # "draft"
    BY <1>1 DEF NoDraftAssigned
  <2>1. CASE d # e
    BY <2>1, <1>3 DEF IInv, History, NoDraftAssigned
  <2>2. CASE d = e
    <3>1. i \in 1 .. n /\ rows'[d][i].revision = rows[d][i].revision
      BY <2>2, <1>3, <1>4
    <3> QED
      BY <2>2, <3>1, <1>2 DEF IInv, History, NoDraftAssigned
  <2> QED
    BY <2>1, <2>2
<1> QED
  BY <1>8, <1>9, <1>10, <1>11 DEF History

\* The inductive invariant survives every step.
LEMMA NextIInv == IInv /\ [Next]_vars => IInv'
<1> SUFFICES ASSUME IInv, [Next]_vars PROVE IInv'
  OBVIOUS
<1>t. TypeOK /\ TypeOK'
  BY TypeStep DEF IInv
<1>k. ASSUME UNCHANGED <<rows, events, head, policyStatus, clock>>,
             LockHeld', CurrentIsActive', PolicyLeftDraft'
      PROVE  IInv'
  BY <1>k, <1>t, HistoryUnchanged DEF IInv
<1>1. ASSUME NEW t \in Threads, Answer(t) PROVE IInv'
  <2>1. LockHeld' /\ CurrentIsActive' /\ PolicyLeftDraft'
    BY <1>1, FinishKeeps DEF Answer, database
  <2> QED
    BY <1>1, <1>k, <2>1 DEF Answer, database
<1>2. ASSUME NEW t \in Threads, Request(t) PROVE IInv'
  <2>1. \A u \in Threads : pc'[u] \in {"read_policy", "read_current", "decide"} =>
           pc[u] = pc'[u] /\ request'[u] = request[u]
    BY <1>2, <1>t DEF Request, TypeOK
  <2>2. LockHeld' /\ PolicyLeftDraft'
    BY <1>2, <2>1 DEF Request, database, IInv, LockHeld, PolicyLeftDraft, IsClear
  <2>3. CurrentIsActive'
    BY <1>2, <2>1 DEF Request, database, IInv, CurrentIsActive, ActiveRows
  <2> QED
    BY <1>2, <1>k, <2>2, <2>3 DEF Request, database
<1>3. ASSUME NEW t \in Threads, LockDevice(t) PROVE IInv'
  <2>1. request[t].device \in Devices
    BY <1>3, <1>t DEF LockDevice, TypeOK, Requests
  <2>2. \A u \in Threads \ {t} : pc'[u] = pc[u]
    BY <1>3, <1>t DEF LockDevice, TypeOK
  <2>3. pc'[t] = IF IsClear(t) THEN "read_current" ELSE "read_policy"
    BY <1>3, <1>t DEF LockDevice, TypeOK
  <2>4. LockHeld'
    <3> SUFFICES ASSUME NEW u \in Threads, pc'[u] \in {"read_policy", "read_current", "decide"}
                 PROVE  lock'[request[u].device] = u
      BY <1>3 DEF LockHeld, LockDevice
    <3>1. CASE u = t
      BY <1>3, <1>t, <2>1, <3>1 DEF LockDevice, TypeOK
    <3>2. CASE u # t
      <4>1. lock[request[u].device] = u /\ pc[u] # "idle"
        BY <2>2, <3>2 DEF IInv, LockHeld
      <4>2. request[u].device \in Devices
        BY <1>t, <4>1 DEF TypeOK, Requests
      <4>3. request[u].device # request[t].device
        BY <1>3, <4>1, AssignmentAssumption DEF LockDevice
      <4> QED
        BY <1>3, <1>t, <4>1, <4>2, <4>3 DEF LockDevice, TypeOK
    <3> QED
      BY <3>1, <3>2
  <2>5. CurrentIsActive'
    <3>1. \A u \in Threads : pc'[u] = "decide" => pc[u] = "decide"
      BY <2>2, <2>3
    <3> QED
      BY <1>3, <3>1 DEF LockDevice, database, IInv, CurrentIsActive, ActiveRows
  <2>6. PolicyLeftDraft'
    BY <1>3, <2>2, <2>3 DEF LockDevice, database, IInv, PolicyLeftDraft, IsClear
  <2> QED
    BY <1>3, <1>k, <2>4, <2>5, <2>6 DEF LockDevice, database
<1>4. ASSUME NEW t \in Threads, ReadPolicy(t) PROVE IInv'
  <2>1. /\ \A u \in Threads \ {t} : pc'[u] = pc[u]
        /\ pc[t] = "read_policy" /\ pc'[t] = "read_current"
    BY <1>4, <1>t DEF ReadPolicy, TypeOK
  <2>2. LockHeld'
    BY <1>4, <2>1 DEF ReadPolicy, IInv, LockHeld
  <2>3. CurrentIsActive'
    <3>1. \A u \in Threads : pc'[u] = "decide" => pc[u] = "decide"
      BY <2>1
    <3> QED
      BY <1>4, <3>1 DEF ReadPolicy, database, IInv, CurrentIsActive, ActiveRows
  <2>4. PolicyLeftDraft'
    BY <1>4, <2>1 DEF ReadPolicy, database, IInv, PolicyLeftDraft, IsClear
  <2> QED
    BY <1>4, <1>k, <2>2, <2>3, <2>4 DEF ReadPolicy, database
<1>5. ASSUME NEW t \in Threads, ReadCurrent(t) PROVE IInv'
  <2>1. /\ \A u \in Threads \ {t} : pc'[u] = pc[u] /\ current'[u] = current[u]
        /\ pc[t] = "read_current" /\ pc'[t] = "decide"
    BY <1>5, <1>t DEF ReadCurrent, TypeOK
  <2>2. LockHeld'
    BY <1>5, <2>1 DEF ReadCurrent, IInv, LockHeld
  <2>3. CurrentIsActive'
    <3> SUFFICES ASSUME NEW u \in Threads, pc'[u] = "decide"
                 PROVE  ActiveRows(request[u].device) = {current'[u]} \ {0}
      BY <1>5 DEF ReadCurrent, database, CurrentIsActive, ActiveRows
    <3>1. CASE u # t
      BY <2>1, <3>1 DEF IInv, CurrentIsActive
    <3>2. CASE u = t
      <4>1. PICK d \in Devices : d = request[t].device
        BY <1>t, <2>1 DEF TypeOK, Requests
      <4>2. current'[t] = IF ActiveRows(d) = {} THEN 0 ELSE CHOOSE i \in ActiveRows(d) : TRUE
        BY <1>5, <1>t, <4>1 DEF ReadCurrent, TypeOK
      <4>3. \A i, j \in ActiveRows(d) : i = j
        BY DEF IInv, History, AtMostOneActive
      <4>4. \A i \in ActiveRows(d) : i # 0
        BY DEF ActiveRows
      <4>5. ActiveRows(d) = {current'[t]} \ {0}
        <5>1. CASE ActiveRows(d) = {}
          BY <4>2, <5>1
        <5>2. CASE ActiveRows(d) # {}
          <6>1. current'[t] \in ActiveRows(d)
            BY <4>2, <5>2
          <6> QED
            BY <4>3, <4>4, <6>1
        <5> QED
          BY <5>1, <5>2
      <4> QED
        BY <3>2, <4>1, <4>5
    <3> QED
      BY <3>1, <3>2
  <2>4. PolicyLeftDraft'
    BY <1>5, <2>1 DEF ReadCurrent, database, IInv, PolicyLeftDraft, IsClear
  <2> QED
    BY <1>5, <1>k, <2>2, <2>3, <2>4 DEF ReadCurrent, database
<1>6. ASSUME NEW t \in Threads, pc[t] = "decide", Finish(t), UNCHANGED policyStatus,
             \A d \in Devices : d # request[t].device => rows'[d] = rows[d], History'
      PROVE  IInv'
  <2>1. \A d \in Devices : lock[d] # t => rows'[d] = rows[d]
    BY <1>6, DecideFacts
  <2>2. LockHeld' /\ CurrentIsActive' /\ PolicyLeftDraft'
    BY <1>6, <2>1, FinishKeeps
  <2> QED
    BY <1>6, <1>t, <2>2 DEF IInv
<1>7. ASSUME NEW t \in Threads, Assign(t) PROVE IInv'
  <2>1. \A d \in Devices : d # request[t].device => rows'[d] = rows[d]
    BY <1>7, <1>t DEF Assign, TypeOK
  <2>2. pc[t] = "decide" /\ Finish(t) /\ UNCHANGED policyStatus
    BY <1>7 DEF Assign
  <2> QED
    BY <1>6, <1>7, <2>1, <2>2, AssignHistory
<1>8. ASSUME NEW t \in Threads, Clear(t) PROVE IInv'
  <2>1. \A d \in Devices : d # request[t].device => rows'[d] = rows[d]
    BY <1>8, <1>t DEF Clear, TypeOK
  <2>2. pc[t] = "decide" /\ Finish(t) /\ UNCHANGED policyStatus
    BY <1>8 DEF Clear
  <2> QED
    BY <1>6, <1>8, <2>1, <2>2, ClearHistory
<1>9. ASSUME NEW p \in Policies, SetLifecycle(p) PROVE IInv'
  <2>1. \A q \in Policies : policyStatus[q] # "draft" => policyStatus'[q] # "draft"
    BY <1>9, <1>t DEF SetLifecycle, TypeOK
  <2>2. NoDraftAssigned'
    <3> SUFFICES ASSUME NEW d \in Devices, NEW i \in 1 .. Len(rows[d])
                 PROVE  policyStatus'[PolicyOf[rows[d][i].revision]] # "draft"
      BY <1>9 DEF SetLifecycle, NoDraftAssigned
    <3>1. rows[d] \in Seq(Rows)
      BY <1>t DEF TypeOK
    <3>2. rows[d][i] \in Rows
      BY <3>1
    <3>3. PolicyOf[rows[d][i].revision] \in Policies
      BY <3>2 DEF Rows, Policies
    <3> QED
      BY <2>1, <3>3 DEF IInv, History, NoDraftAssigned
  <2>3. History'
    BY <1>9, <2>2 DEF SetLifecycle, IInv, History, AtMostOneActive, EvidenceExplainsState,
       EvidenceLinked, EvidenceDated, InForce, ActiveRows
  <2>4. LockHeld' /\ CurrentIsActive'
    BY <1>9 DEF SetLifecycle, IInv, LockHeld, CurrentIsActive, ActiveRows
  <2>5. PolicyLeftDraft'
    <3> SUFFICES ASSUME NEW u \in Threads, pc[u] \in {"read_current", "decide"}, ~ IsClear(u)
                 PROVE  policyStatus'[PolicyOf[request[u].revision]] # "draft"
      BY <1>9 DEF SetLifecycle, PolicyLeftDraft, IsClear
    <3>1. PolicyOf[request[u].revision] \in Policies
      BY <1>t DEF TypeOK, Requests, IsClear, Policies
    <3> QED
      BY <2>1, <3>1 DEF IInv, PolicyLeftDraft
  <2> QED
    BY <1>t, <2>3, <2>4, <2>5 DEF IInv
<1>10. ASSUME UNCHANGED <<policyStatus, rows, events, head, clock, pc, request, current, lock>>
       PROVE IInv'
  <2>1. LockHeld' /\ CurrentIsActive' /\ PolicyLeftDraft'
    BY <1>10 DEF IInv, LockHeld, CurrentIsActive, PolicyLeftDraft, IsClear, ActiveRows
  <2> QED
    BY <1>10, <1>k, <2>1
<1>11. CASE Tick
  <2>1. EvidenceDated'
    <3> SUFFICES ASSUME NEW d \in Devices, NEW k \in 1 .. Len(events[d])
                 PROVE  /\ events[d][k].at <= clock'
                        /\ \A i \in 1 .. k : events[d][i].at <= events[d][k].at
      BY <1>11 DEF Tick, EvidenceDated
    <3>1. events[d] \in Seq(Events) /\ clock \in Nat /\ clock' = clock + 1
      BY <1>11, <1>t DEF Tick, TypeOK
    <3>2. events[d][k] \in Events
      BY <3>1
    <3>3. events[d][k].at \in Nat
      BY <3>2 DEF Events
    <3> QED
      BY <3>1, <3>3 DEF IInv, History, EvidenceDated
  <2>2. History'
    BY <1>11, <2>1 DEF Tick, IInv, History, AtMostOneActive, EvidenceExplainsState, EvidenceLinked,
       NoDraftAssigned, InForce, ActiveRows
  <2>3. LockHeld' /\ CurrentIsActive' /\ PolicyLeftDraft'
    BY <1>11 DEF Tick, IInv, LockHeld, CurrentIsActive, PolicyLeftDraft, IsClear, ActiveRows
  <2> QED
    BY <1>t, <2>2, <2>3 DEF IInv
<1> QED
  BY <1>1, <1>2, <1>3, <1>4, <1>5, <1>7, <1>8, <1>9, <1>10, <1>11
  DEF Next, Wait, Proceed, RefuseRetired, RefusePolicy, AnswerUnchanged, RefuseNothingToClear,
      Abort, Retire, vars

\* The inductive invariant holds of every reachable state.
LEMMA Inductive == Spec => []IInv
BY InitIInv, NextIInv, PTL DEF Spec

\* Rows, evidence, locks and the requests in flight always have their types.
THEOREM TypeCorrect == Spec => []TypeOK
<1>1. IInv => TypeOK
  BY DEF IInv
<1> QED
  BY <1>1, Inductive, PTL

\* The row lock alone keeps a device from having two active assignments; the
\* partial unique index is never needed.
THEOREM OneActive == Spec => []AtMostOneActive
<1>1. IInv => AtMostOneActive
  BY DEF IInv, History
<1> QED
  BY <1>1, Inductive, PTL

\* The evidence alone tells what is assigned, now and at every earlier point.
THEOREM EvidenceSufficient == Spec => []EvidenceExplainsState
<1>1. IInv => EvidenceExplainsState
  BY DEF IInv, History
<1> QED
  BY <1>1, Inductive, PTL

\* What is linked in the order in which it was stored, and dated in that order,
\* is linked in the order of the dates.
LEMMA DatedChainVerifies == IInv => EvidenceVerifies
<1> SUFFICES ASSUME IInv, NEW d \in Devices PROVE ChainVerifies(d)
  BY DEF EvidenceVerifies
<1>1. PICK n \in Nat : n = Len(events[d])
  BY DEF IInv, TypeOK
<1>2. \A k \in 1 .. n : events[d][k].at \in Nat
  <2> SUFFICES ASSUME NEW k \in 1 .. n PROVE events[d][k].at \in Nat
    OBVIOUS
  <2>1. events[d] \in Seq(Events)
    BY DEF IInv, TypeOK
  <2>2. events[d][k] \in Events
    BY <1>1, <2>1
  <2> QED
    BY <2>2 DEF Events
<1>3. /\ head[d] = n
      /\ \A k \in 1 .. n : events[d][k].link = k - 1
      /\ \A k \in 1 .. n : \A i \in 1 .. k : events[d][i].at <= events[d][k].at
  BY <1>1 DEF IInv, History, EvidenceLinked, EvidenceDated
<1>4. \A i, k \in 1 .. n : ReadBefore(d, i, k) <=> i < k
  <2> SUFFICES ASSUME NEW i \in 1 .. n, NEW k \in 1 .. n PROVE ReadBefore(d, i, k) <=> i < k
    OBVIOUS
  <2>1. events[d][i].at \in Nat /\ events[d][k].at \in Nat
    BY <1>2
  <2>2. i <= k => events[d][i].at <= events[d][k].at
    BY <1>3
  <2>3. k <= i => events[d][k].at <= events[d][i].at
    BY <1>3
  <2> QED
    BY <2>1, <2>2, <2>3 DEF ReadBefore
<1>5. ASSUME NEW k \in 1 .. n
      PROVE  IsLast(d, events[d][k].link, {i \in 1 .. n : ReadBefore(d, i, k)})
  <2> DEFINE before == {i \in 1 .. n : ReadBefore(d, i, k)}
  <2>1. before = {i \in 1 .. n : i < k} /\ events[d][k].link = k - 1
    BY <1>3, <1>4
  <2>2. CASE k = 1
    BY <2>1, <2>2 DEF IsLast
  <2>3. CASE k # 1
    <3>1. k - 1 \in before /\ \A i \in before \ {k - 1} : i \in 1 .. n /\ i < k - 1
      BY <2>1, <2>3
    <3> QED
      BY <1>4, <2>1, <3>1 DEF IsLast
  <2> QED
    BY <2>2, <2>3
<1>6. IsLast(d, n, 1 .. n)
  <2>1. CASE n = 0
    BY <2>1 DEF IsLast
  <2>2. CASE n # 0
    <3>1. n \in 1 .. n /\ \A i \in (1 .. n) \ {n} : i < n
      BY <2>2
    <3> QED
      BY <1>4, <3>1 DEF IsLast
  <2> QED
    BY <2>1, <2>2
<1> QED
  BY <1>1, <1>3, <1>5, <1>6 DEF ChainVerifies

\* The administrative evidence of a device always passes its verification, which
\* reads it by date: it is dated under the lock that orders the chain.
THEOREM EvidenceChained == Spec => []EvidenceVerifies
BY DatedChainVerifies, Inductive, PTL

\* The unlocked policy check never lets a draft be assigned.
THEOREM DraftsNeverAssigned == Spec => []NoDraftAssigned
<1>1. IInv => NoDraftAssigned
  BY DEF IInv, History
<1> QED
  BY <1>1, Inductive, PTL

\* The device a thread holds is enrolled: its status was read with the lock.
HeldIsEnrolled ==
  \A t \in Threads :
    pc[t] \in {"read_policy", "read_current", "decide"} => enrolled[request[t].device]

LEMMA HeldStep == IInv /\ HeldIsEnrolled /\ [Next]_vars => HeldIsEnrolled'
<1> SUFFICES ASSUME IInv, HeldIsEnrolled, [Next]_vars PROVE HeldIsEnrolled'
  OBVIOUS
<1> USE DEF HeldIsEnrolled
<1>t. TypeOK
  BY DEF IInv
<1>1. ASSUME NEW t \in Threads, Finish(t), UNCHANGED enrolled PROVE HeldIsEnrolled'
  BY <1>1, <1>t DEF Finish, TypeOK
<1>2. ASSUME NEW t \in Threads, Request(t) PROVE HeldIsEnrolled'
  BY <1>2, <1>t DEF Request, database, TypeOK
<1>3. ASSUME NEW t \in Threads, LockDevice(t) PROVE HeldIsEnrolled'
  BY <1>3, <1>t DEF LockDevice, database, TypeOK
<1>4. ASSUME NEW t \in Threads, ReadPolicy(t) \/ ReadCurrent(t) PROVE HeldIsEnrolled'
  <2>1. pc[t] \in {"read_policy", "read_current"} /\ UNCHANGED <<enrolled, request>>
    BY <1>4 DEF ReadPolicy, ReadCurrent, database
  <2>2. \A u \in Threads \ {t} : pc'[u] = pc[u]
    BY <1>4, <1>t DEF ReadPolicy, ReadCurrent, TypeOK
  <2> QED
    BY <2>1, <2>2
<1>5. ASSUME NEW d \in Devices, Retire(d) PROVE HeldIsEnrolled'
  <2> SUFFICES ASSUME NEW t \in Threads, pc[t] \in {"read_policy", "read_current", "decide"}
               PROVE  enrolled'[request[t].device]
    BY <1>5 DEF Retire
  <2>1. lock[request[t].device] = t /\ t # NoThread
    BY AssignmentAssumption DEF IInv, LockHeld
  <2>2. request[t].device # d
    BY <1>5, <2>1 DEF Retire
  <2> QED
    BY <1>5, <1>t, <2>2 DEF Retire, TypeOK
<1>6. ASSUME UNCHANGED <<enrolled, pc, request>> PROVE HeldIsEnrolled'
  BY <1>6
<1> QED
  BY <1>1, <1>2, <1>3, <1>4, <1>5, <1>6
  DEF Next, Wait, Proceed, RefuseRetired, RefusePolicy, AnswerUnchanged, RefuseNothingToClear,
      Abort, Answer, Assign, Clear, SetLifecycle, Tick, database, vars

\* Only a thread that holds a device, which is then enrolled, adds to its history.
LEMMA ClosedStep ==
  IInv /\ HeldIsEnrolled /\ [Next]_vars =>
    \A d \in Devices : ~ enrolled[d] => rows'[d] = rows[d] /\ events'[d] = events[d]
<1> SUFFICES ASSUME IInv, HeldIsEnrolled, [Next]_vars, NEW d \in Devices, ~ enrolled[d]
             PROVE  rows'[d] = rows[d] /\ events'[d] = events[d]
  OBVIOUS
<1>1. ASSUME NEW t \in Threads, Assign(t) \/ Clear(t)
      PROVE  rows'[d] = rows[d] /\ events'[d] = events[d]
  <2>1. pc[t] = "decide"
    BY <1>1 DEF Assign, Clear
  <2>2. request[t].device # d
    BY <2>1 DEF HeldIsEnrolled
  <2>3. rows \in [Devices -> Seq(Rows)] /\ events \in [Devices -> Seq(Events)]
    BY DEF IInv, TypeOK
  <2> QED
    BY <1>1, <2>2, <2>3 DEF Assign, Clear, Record
<1>2. ASSUME UNCHANGED <<rows, events>>
      PROVE  rows'[d] = rows[d] /\ events'[d] = events[d]
  BY <1>2
<1> QED
  BY <1>1, <1>2
  DEF Next, Wait, Proceed, Request, LockDevice, RefuseRetired, ReadPolicy, RefusePolicy,
      ReadCurrent, AnswerUnchanged, RefuseNothingToClear, Abort, Answer, SetLifecycle, Retire,
      Tick, database, vars

\* Once a device is retired no request adds to its assignments or its evidence,
\* also one that had passed all its checks but the lock when it was retired.
THEOREM RetiredStaysClosed == Spec => RetiredIsClosed
<1>1. Init => HeldIsEnrolled
  BY DEF Init, HeldIsEnrolled
<1>2. Spec => []HeldIsEnrolled
  BY <1>1, HeldStep, Inductive, PTL DEF Spec
<1>3. Spec => [][\A d \in Devices :
                  ~ enrolled[d] => rows'[d] = rows[d] /\ events'[d] = events[d]]_vars
  BY <1>2, ClosedStep, Inductive, PTL DEF Spec
<1> QED
  BY <1>3 DEF RetiredIsClosed
=============================================================================
