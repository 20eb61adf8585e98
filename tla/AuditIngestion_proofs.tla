------------------------ MODULE AuditIngestion_proofs ------------------------
(***************************************************************************)
(* Proofs about AuditIngestion for any devices, threads and payloads.      *)
(*                                                                         *)
(* Chained is not inductive alone: a thread stores what it verified    *)
(* against the head it read some statements ago.  SeenIsCurrent adds why   *)
(* that is still the head: either the thread holds the row lock, or it     *)
(* found no row, and then the unique key over sequence numbers rejects the *)
(* batch as soon as anyone else has stored a first batch.                  *)
(***************************************************************************)
EXTENDS AuditIngestion, TLAPS

\* A head read from an existing row is locked by its reader and unchanged.
SeenIsCurrent ==
  \A t \in Threads :
    pc[t] = "store" /\ seen[t] # NoHead =>
      /\ lock[request[t].device] = t
      /\ head[request[t].device] = seen[t]

\* A batch about to be confirmed is in the database.
RepliesBacked ==
  \A t \in Threads : pc[t] = "reply" => request[t].batch \in batches

\* The batches of a device follow each other without gap or overlap.
Chained == NoGap /\ NoFork /\ HashLinked /\ HeadIsTip

\* What is stored passed the contract.
StoredValid == \A b \in batches : ValidBatch(b)

\* No event is stored twice, by its UUID or by its hash.
EventsUnique ==
  \A b, c \in batches : \A i \in 1 .. Len(b.events), j \in 1 .. Len(c.events) :
    SameKey(b.events[i], c.events[j]) => b = c /\ i = j

IInv ==
  /\ TypeOK
  /\ Chained /\ StoredValid /\ EventsUnique
  /\ SeenIsCurrent /\ RepliesBacked /\ ReceiptsBacked

\* Sequence numbers of a valid batch are positive naturals, first to last, and
\* its events carry them in order.
LEMMA BatchRange ==
  ASSUME NEW b \in Payloads, ValidBatch(b)
  PROVE  /\ b.device \in Devices
         /\ b.first \in Nat /\ 1 <= b.first
         /\ b.last \in Nat
         /\ b.first <= b.last
         /\ Len(b.events) = b.last - b.first + 1
         /\ b.final \in {c.final : c \in Payloads} \union {NoHash}
         /\ b.final # NoHash
<1>1. Len(b.events) \in Nat /\ 1 <= Len(b.events) /\ b.device \in Devices
  BY PayloadsAssumption, LimitsAssumption DEF ValidBatch
<1>2. ValidEvent(b.events[1]) /\ b.first = b.events[1].sequence
  BY <1>1 DEF ValidBatch
<1>3. b.first \in Nat /\ 1 <= b.first
  BY <1>2, LimitsAssumption DEF ValidEvent
<1>4. b.last = b.first + Len(b.events) - 1
  BY <1>1 DEF ValidBatch
<1>5. b.final = Digest(Content(b.events[Len(b.events)]))
  BY <1>1 DEF ValidBatch, ValidEvent
<1>6. b.final # NoHash
  BY <1>1, <1>5, PayloadsAssumption
<1> QED
  BY <1>1, <1>3, <1>4, <1>6

\* The same of what is stored.
LEMMA StoredRange ==
  ASSUME TypeOK, StoredValid, NEW b \in batches
  PROVE  /\ b \in Payloads /\ b.device \in Devices /\ b \in BatchesOf(b.device)
         /\ b.first \in Nat /\ 1 <= b.first
         /\ b.last \in Nat
         /\ b.first <= b.last
         /\ Len(b.events) = b.last - b.first + 1
         /\ b.final # NoHash
<1>1. b \in Payloads /\ ValidBatch(b)
  BY DEF TypeOK, StoredValid
<1> QED
  BY <1>1, BatchRange DEF BatchesOf

\* The initial state satisfies the inductive invariant.
LEMMA InitIInv == Init => IInv
<1> SUFFICES ASSUME Init PROVE IInv
  OBVIOUS
<1>1. TypeOK
  BY DEF Init, TypeOK, Heads, NoHead
<1>2. Chained
  BY DEF Init, Chained, NoGap, NoFork, HashLinked, HeadIsTip, BatchesOf, NoHead
<1>3. SeenIsCurrent /\ RepliesBacked /\ ReceiptsBacked /\ StoredValid /\ EventsUnique
  BY DEF Init, SeenIsCurrent, RepliesBacked, ReceiptsBacked, StoredValid, EventsUnique
<1> QED
  BY <1>1, <1>2, <1>3 DEF IInv

\* Type correctness of every step needs nothing but the types.
LEMMA TypeStep == TypeOK /\ [Next]_vars => TypeOK'
<1> SUFFICES ASSUME TypeOK, [Next]_vars PROVE TypeOK'
  OBVIOUS
<1> USE DEF TypeOK
<1>f. ASSUME NEW t \in Threads, Finish(t)
      PROVE  /\ pc' \in [Threads -> {"idle", "lookup", "read_head", "store", "reply"}]
             /\ request' \in [Threads -> Requests \union {NoRequest}]
             /\ \A u \in Threads : request'[u] = NoRequest <=> pc'[u] = "idle"
             /\ seen' \in [Threads -> Heads]
             /\ lock' \in [Devices -> Threads \union {NoThread}]
  BY <1>f DEF Finish, Unlock, Heads, NoHead
<1>r. ASSUME NEW t \in Threads, Reject(t) PROVE TypeOK'
  BY <1>r, <1>f DEF Reject
<1>1. ASSUME NEW t \in Threads, Upload(t) PROVE TypeOK'
  BY <1>1, NoneAssumption DEF Upload
<1>2. ASSUME NEW t \in Threads,
             RefuseInactive(t) \/ RefuseReusedUuid(t) \/ RefuseContract(t)
               \/ RefuseConflict(t) \/ Abort(t)
      PROVE  TypeOK'
  BY <1>2, <1>r DEF RefuseInactive, RefuseReusedUuid, RefuseContract, RefuseConflict, Abort
<1>3. ASSUME NEW t \in Threads, ReplayReceipt(t) PROVE TypeOK'
  BY <1>3, <1>f DEF ReplayReceipt
<1>4. ASSUME NEW t \in Threads, LookUpMiss(t) PROVE TypeOK'
  BY <1>4 DEF LookUpMiss
<1>5. ASSUME NEW t \in Threads, ReadHead(t) PROVE TypeOK'
  <2>1. request[t] \in Requests
    BY <1>5 DEF ReadHead
  <2>2. request[t].device \in Devices
    BY <2>1 DEF Requests
  <2> QED
    BY <1>5, <2>2 DEF ReadHead
<1>6. ASSUME NEW t \in Threads, Store(t) PROVE TypeOK'
  <2> DEFINE b == request[t].batch
  <2>1. b \in Payloads /\ ValidBatch(b)
    BY <1>6 DEF Store, Accepted, Requests
  <2>2. [last |-> b.last, hash |-> b.final] \in Heads
    BY <2>1, BatchRange DEF Heads
  <2>3. lock' \in [Devices -> Threads \union {NoThread}]
    BY <1>6 DEF Store, Unlock
  <2> QED
    BY <1>6, <2>1, <2>2, <2>3 DEF Store
<1>7. ASSUME NEW t \in Threads, Reply(t) PROVE TypeOK'
  <2>1. request[t].batch \in Payloads
    BY <1>7 DEF Reply, Requests
  <2> QED
    BY <1>7, <1>f, <2>1 DEF Reply
<1>8. ASSUME NEW d \in Devices, Deactivate(d) PROVE TypeOK'
  BY <1>8 DEF Deactivate
<1>9. CASE UNCHANGED vars
  BY <1>9 DEF vars
<1> QED
  BY <1>1, <1>2, <1>3, <1>4, <1>5, <1>6, <1>7, <1>8, <1>9 DEF Next, Handle

\* What Store has verified and what the unique keys rule out amount to this:
\* the batch continues the chain head as it is now, not only as it was read.
LEMMA StoreContinuesHead ==
  ASSUME IInv, NEW t \in Threads, Store(t)
  PROVE  LET b == request[t].batch
         IN  /\ b \in Payloads /\ ValidBatch(b)
             /\ b.device = request[t].device
             /\ Continues(b, head[b.device])
<1> DEFINE b == request[t].batch
           d == request[t].device
<1>1. b \in Payloads /\ ValidBatch(b) /\ d \in Devices /\ b.device = d
  BY DEF IInv, TypeOK, Store, Accepted, Requests, Owned
<1>2. Continues(b, seen[t])
  BY DEF Store, Accepted
<1>3. CASE seen[t] # NoHead
  BY <1>1, <1>2, <1>3 DEF IInv, SeenIsCurrent, Store
<1>4. CASE seen[t] = NoHead
  <2>1. b.first = 1
    BY <1>2, <1>4 DEF Continues, NoHead
  <2>2. BatchesOf(d) = {}
    <3> SUFFICES ASSUME NEW s \in BatchesOf(d) PROVE FALSE
      OBVIOUS
    <3>1. s \in batches /\ s.device = d
      BY DEF BatchesOf
    <3>2. 1 <= head[d].last
      BY <1>1, <3>1, StoredRange DEF IInv, Chained, NoFork, TypeOK, Heads
    <3>3. PICK c \in BatchesOf(d) : Covers(c, 1)
      BY <1>1, <3>2 DEF IInv, Chained, NoGap, TypeOK, Heads
    <3>4. c \in batches /\ c.device = d
      BY DEF BatchesOf
    <3>5. Apart(c, b)
      BY <1>1, <3>4 DEF Store, NoKeyConflict
    <3> QED
      BY <1>1, <2>1, <3>3, <3>4, <3>5, BatchRange, StoredRange DEF IInv, Apart, Covers
  <2>3. head[d] = NoHead
    BY <1>1, <2>2 DEF IInv, Chained, HeadIsTip
  <2> QED
    BY <1>1, <1>2, <1>4, <2>3
<1> QED
  BY <1>1, <1>3, <1>4

\* Storing a batch that continues the head keeps the chain unbroken.
LEMMA StoreKeepsChain ==
  ASSUME IInv, NEW t \in Threads, Store(t)
  PROVE  Chained'
<1> DEFINE b == request[t].batch
           e == b.device
<1>1. b \in Payloads /\ ValidBatch(b) /\ e \in Devices
  BY StoreContinuesHead, BatchRange
<1>2. b.prev = head[e].hash /\ b.first = head[e].last + 1
  BY StoreContinuesHead DEF Continues
<1>3. batches' = batches \union {b}
  BY DEF Store
<1>4. /\ head'[e] = [last |-> b.last, hash |-> b.final]
      /\ \A d \in Devices \ {e} : head'[d] = head[d]
  BY <1>1 DEF Store, IInv, TypeOK
<1>5. \A d \in Devices : BatchesOf(d)' = IF d = e THEN BatchesOf(d) \union {b} ELSE BatchesOf(d)
  BY <1>3 DEF BatchesOf
<1>6. b.first \in Nat /\ b.last \in Nat /\ 1 <= b.first /\ b.first <= b.last
  BY <1>1, BatchRange
<1>7. \A d \in Devices : head[d].last \in Nat
  BY DEF IInv, TypeOK, Heads
<1>8. \A c \in BatchesOf(e) :
        c \in batches /\ c.last \in Nat /\ 1 <= c.last /\ c.last <= head[e].last
  BY <1>1, StoredRange DEF IInv, Chained, NoFork, BatchesOf
<1>9. NoGap'
  <2> SUFFICES ASSUME NEW d \in Devices, NEW i \in 1 .. head'[d].last
               PROVE  \E c \in BatchesOf(d)' : Covers(c, i)
    BY DEF NoGap, Covers
  <2>1. CASE d # e
    BY <2>1, <1>4, <1>5 DEF IInv, Chained, NoGap
  <2>2. CASE d = e /\ i <= head[e].last
    BY <2>2, <1>1, <1>5, <1>7 DEF IInv, Chained, NoGap
  <2>3. CASE d = e /\ i > head[e].last
    BY <2>3, <1>2, <1>4, <1>5, <1>6, <1>7 DEF Covers
  <2> QED
    BY <2>1, <2>2, <2>3, <1>7
<1>10. NoFork'
  <2> SUFFICES ASSUME NEW d \in Devices, NEW c \in BatchesOf(d)'
               PROVE  /\ c.last <= head'[d].last
                      /\ \A s \in BatchesOf(d)' : c = s \/ Apart(c, s)
    BY DEF NoFork, Apart
  <2>1. CASE d # e
    BY <2>1, <1>4, <1>5 DEF IInv, Chained, NoFork
  <2>2. CASE d = e
    <3>1. \A s \in BatchesOf(e) : s.last \in Nat /\ s.last < b.first
      BY <1>2, <1>6, <1>7, <1>1, <1>8
    <3>2. c.last <= head'[d].last
      BY <2>2, <3>1, <1>4, <1>5, <1>6
    <3>3. \A s \in BatchesOf(d)' : c = s \/ Apart(c, s)
      BY <2>2, <3>1, <1>1, <1>5 DEF IInv, Chained, NoFork, Apart
    <3> QED
      BY <3>2, <3>3
  <2> QED
    BY <2>1, <2>2
<1>11. HashLinked'
  <2>0. IF b.first = 1 THEN b.prev = NoHash
        ELSE \E p \in BatchesOf(e) : p.last + 1 = b.first /\ p.final = b.prev
    <3>1. CASE BatchesOf(e) = {}
      BY <3>1, <1>1, <1>2 DEF IInv, Chained, HeadIsTip, NoHead
    <3>2. CASE BatchesOf(e) # {}
      <4>1. PICK p \in BatchesOf(e) : head[e] = [last |-> p.last, hash |-> p.final]
        BY <3>2, <1>1 DEF IInv, Chained, HeadIsTip
      <4>2. p.last \in Nat /\ 1 <= p.last
        BY <1>8
      <4> QED
        BY <4>1, <4>2, <1>2
    <3> QED
      BY <3>1, <3>2
  <2> SUFFICES ASSUME NEW c \in batches'
               PROVE  IF c.first = 1 THEN c.prev = NoHash
                      ELSE \E p \in BatchesOf(c.device)' :
                              p.last + 1 = c.first /\ p.final = c.prev
    BY DEF HashLinked
  <2>1. CASE c = b
    BY <2>0, <2>1, <1>1, <1>5
  <2>2. CASE c \in batches
    <3>1. c.device \in Devices
      BY <2>2, StoredRange DEF IInv
    <3> QED
      BY <2>2, <3>1, <1>5 DEF IInv, Chained, HashLinked
  <2> QED
    BY <2>1, <2>2, <1>3
<1>12. HeadIsTip'
  <2> SUFFICES ASSUME NEW d \in Devices
               PROVE  IF BatchesOf(d)' = {} THEN head'[d] = NoHead
                      ELSE \E c \in BatchesOf(d)' :
                             head'[d] = [last |-> c.last, hash |-> c.final]
    BY DEF HeadIsTip, NoHead
  <2>1. CASE d = e
    BY <2>1, <1>4, <1>5
  <2>2. CASE d # e
    BY <2>2, <1>4, <1>5 DEF IInv, Chained, HeadIsTip
  <2> QED
    BY <2>1, <2>2
<1> QED
  BY <1>9, <1>10, <1>11, <1>12 DEF Chained

\* Steps that touch neither stored batches nor heads keep the chain.
LEMMA ChainUnchanged ==
  ASSUME Chained, StoredValid, EventsUnique, UNCHANGED <<head, batches>>
  PROVE  Chained' /\ StoredValid' /\ EventsUnique'
<1>1. Chained'
  BY DEF Chained, NoGap, NoFork, HashLinked, HeadIsTip, BatchesOf, NoHead, Covers, Apart
<1>2. StoredValid' /\ EventsUnique'
  BY DEF StoredValid, EventsUnique
<1> QED
  BY <1>1, <1>2

\* The unique keys keep every event once, and only valid batches get in.
LEMMA StoreKeepsEvents ==
  ASSUME IInv, NEW t \in Threads, Store(t)
  PROVE  StoredValid' /\ EventsUnique'
<1> DEFINE b == request[t].batch
<1>1. batches' = batches \union {b} /\ ValidBatch(b) /\ NoKeyConflict(b)
  BY StoreContinuesHead DEF Store
<1>2. StoredValid'
  BY <1>1 DEF IInv, StoredValid
<1>3. \A i, j \in 1 .. Len(b.events) : SameKey(b.events[i], b.events[j]) => i = j
  BY <1>1 DEF NoKeyConflict, EventKeysFree
<1>4. \A c \in batches : \A i \in 1 .. Len(c.events), j \in 1 .. Len(b.events) :
         ~ SameKey(c.events[i], b.events[j]) /\ ~ SameKey(b.events[j], c.events[i])
  BY <1>1 DEF NoKeyConflict, EventKeysFree, EventsOf, SameKey
<1>5. EventsUnique'
  <2> SUFFICES ASSUME NEW c \in batches', NEW s \in batches',
                      NEW i \in 1 .. Len(c.events), NEW j \in 1 .. Len(s.events),
                      SameKey(c.events[i], s.events[j])
               PROVE  c = s /\ i = j
    BY DEF EventsUnique, SameKey
  <2>1. CASE c \in batches /\ s \in batches
    BY <2>1 DEF IInv, EventsUnique
  <2>2. CASE c = b /\ s = b
    BY <2>2, <1>3
  <2>3. CASE (c \in batches /\ s = b) \/ (c = b /\ s \in batches)
    BY <2>3, <1>4
  <2> QED
    BY <2>1, <2>2, <2>3, <1>1
<1> QED
  BY <1>2, <1>5

\* Receipts stay backed when evidence only grows.
LEMMA ReceiptsStayBacked ==
  ASSUME TypeOK, TypeOK', StoredValid, ReceiptsBacked, batches \subseteq batches',
         \A d \in Devices : head[d].last <= head'[d].last,
         \A r \in receipts' \ receipts : \E b \in batches :
           Receipt(b) = r /\ r.through <= head[r.device].last
  PROVE  ReceiptsBacked'
<1> SUFFICES ASSUME NEW r \in receipts'
             PROVE  \E b \in batches' : Receipt(b) = r /\ r.through <= head'[r.device].last
  BY DEF ReceiptsBacked, Receipt
<1>1. PICK b \in batches : Receipt(b) = r /\ r.through <= head[r.device].last
  BY DEF ReceiptsBacked
<1>2. r.through = b.last /\ r.device = b.device
  BY <1>1 DEF Receipt
<1>3. r.device \in Devices /\ r.through \in Nat
  BY <1>2, StoredRange
<1>4. head[r.device].last \in Nat /\ head'[r.device].last \in Nat
  BY <1>3 DEF TypeOK, Heads
<1>5. r.through <= head'[r.device].last
  BY <1>1, <1>3, <1>4
<1> QED
  BY <1>1, <1>5

\* Evidence is append-only in every step.
LEMMA EvidenceGrows ==
  ASSUME IInv, [Next]_vars
  PROVE  /\ batches \subseteq batches'
         /\ \A d \in Devices : head[d].last <= head'[d].last
<1>0. \A d \in Devices : head[d].last \in Nat
  BY DEF IInv, TypeOK, Heads
<1>1. ASSUME NEW t \in Threads, Store(t)
      PROVE  /\ batches \subseteq batches'
             /\ \A d \in Devices : head[d].last <= head'[d].last
  <2> DEFINE b == request[t].batch
  <2>1. b \in Payloads /\ b.device \in Devices /\ b.last \in Nat
        /\ b.first <= b.last /\ b.first = head[b.device].last + 1 /\ b.first \in Nat
    BY <1>1, StoreContinuesHead, BatchRange DEF Continues
  <2>2. head' = [head EXCEPT ![b.device] = [last |-> b.last, hash |-> b.final]]
    BY <1>1 DEF Store
  <2>3. \A d \in Devices : head'[d].last = IF d = b.device THEN b.last ELSE head[d].last
    BY <2>1, <2>2 DEF IInv, TypeOK
  <2> QED
    BY <1>0, <1>1, <2>1, <2>3 DEF Store
<1>2. ASSUME UNCHANGED <<head, batches>>
      PROVE  /\ batches \subseteq batches'
             /\ \A d \in Devices : head[d].last <= head'[d].last
  BY <1>0, <1>2
<1> QED
  BY <1>1, <1>2 DEF Next, Handle, vars, Upload, RefuseInactive, ReplayReceipt, RefuseReusedUuid,
     LookUpMiss, ReadHead, RefuseContract, RefuseConflict, Reply, Abort, Deactivate, Reject

\* The inductive invariant survives every step.
LEMMA NextIInv == IInv /\ [Next]_vars => IInv'
<1> SUFFICES ASSUME IInv, [Next]_vars PROVE IInv'
  OBVIOUS
<1>t. TypeOK /\ TypeOK'
  BY TypeStep DEF IInv
<1>g. /\ batches \subseteq batches'
      /\ \A d \in Devices : head[d].last <= head'[d].last
  BY EvidenceGrows
<1>k. ASSUME UNCHANGED <<head, batches, receipts>>, SeenIsCurrent', RepliesBacked'
      PROVE  IInv'
  <2>1. Chained' /\ StoredValid' /\ EventsUnique'
    BY <1>k, ChainUnchanged DEF IInv
  <2>2. ReceiptsBacked'
    BY <1>k, <1>t, <1>g, ReceiptsStayBacked DEF IInv
  <2> QED
    BY <1>k, <1>t, <2>1, <2>2 DEF IInv
<1>f. ASSUME NEW t \in Threads, Finish(t), UNCHANGED head
      PROVE  SeenIsCurrent' /\ RepliesBacked'
  <2>1. SeenIsCurrent'
    <3> SUFFICES ASSUME NEW u \in Threads, pc'[u] = "store", seen'[u] # NoHead
                 PROVE  /\ lock'[request'[u].device] = u
                        /\ head'[request'[u].device] = seen'[u]
      BY DEF SeenIsCurrent, NoHead
    <3>1. u # t
      BY <1>f, <1>t DEF Finish, TypeOK
    <3>2. pc[u] = "store" /\ seen[u] # NoHead /\ request'[u] = request[u] /\ seen'[u] = seen[u]
      BY <1>f, <1>t, <3>1 DEF Finish, TypeOK
    <3>3. request[u].device \in Devices
      BY <1>t, <3>2 DEF TypeOK, Requests
    <3> QED
      BY <1>f, <3>1, <3>2, <3>3 DEF Finish, Unlock, IInv, SeenIsCurrent
  <2>2. RepliesBacked'
    <3> SUFFICES ASSUME NEW u \in Threads, pc'[u] = "reply"
                 PROVE  request'[u].batch \in batches'
      BY DEF RepliesBacked
    <3>1. u # t /\ pc[u] = "reply" /\ request'[u] = request[u]
      BY <1>f, <1>t DEF Finish, TypeOK
    <3> QED
      BY <3>1, <1>g DEF IInv, RepliesBacked
  <2> QED
    BY <2>1, <2>2
<1>1. ASSUME NEW t \in Threads, Upload(t) PROVE IInv'
  <2>1. \A u \in Threads : pc'[u] \in {"store", "reply"} =>
           pc[u] = pc'[u] /\ request'[u] = request[u]
    BY <1>1, <1>t DEF Upload, TypeOK
  <2>2. SeenIsCurrent' /\ RepliesBacked'
    BY <1>1, <2>1 DEF Upload, IInv, SeenIsCurrent, RepliesBacked, NoHead
  <2> QED
    BY <1>1, <1>k, <2>2 DEF Upload
<1>2. ASSUME NEW t \in Threads, Reject(t) PROVE IInv'
  BY <1>2, <1>f, <1>k DEF Reject
<1>3. ASSUME NEW t \in Threads, ReplayReceipt(t) PROVE IInv'
  <2>1. SeenIsCurrent' /\ RepliesBacked'
    BY <1>3, <1>f DEF ReplayReceipt
  <2>2. Chained' /\ StoredValid' /\ EventsUnique'
    BY <1>3, ChainUnchanged DEF ReplayReceipt, IInv
  <2>3. PICK s \in batches : receipts' = receipts \union {Receipt(s)}
    BY <1>3 DEF ReplayReceipt
  <2>4. s \in BatchesOf(s.device) /\ s.device \in Devices
    BY <1>t, StoredRange DEF IInv
  <2>5. s.last <= head[s.device].last
    BY <2>4 DEF IInv, Chained, NoFork
  <2>6. Receipt(s).through <= head[Receipt(s).device].last
    BY <2>5 DEF Receipt
  <2>7. \A r \in receipts' \ receipts : \E b \in batches :
           Receipt(b) = r /\ r.through <= head[r.device].last
    BY <2>3, <2>6
  <2>8. ReceiptsBacked'
    BY <1>t, <1>g, <2>7, ReceiptsStayBacked DEF IInv
  <2> QED
    BY <1>t, <2>1, <2>2, <2>8 DEF IInv
<1>4. ASSUME NEW t \in Threads, LookUpMiss(t) PROVE IInv'
  <2>1. \A u \in Threads : pc'[u] \in {"store", "reply"} => pc[u] = pc'[u]
    BY <1>4, <1>t DEF LookUpMiss, TypeOK
  <2>2. SeenIsCurrent' /\ RepliesBacked'
    BY <1>4, <2>1 DEF LookUpMiss, IInv, SeenIsCurrent, RepliesBacked, NoHead
  <2> QED
    BY <1>4, <1>k, <2>2 DEF LookUpMiss
<1>5. ASSUME NEW t \in Threads, ReadHead(t) PROVE IInv'
  <2> DEFINE d == request[t].device
  <2>0. d \in Devices
    BY <1>5, <1>t DEF ReadHead, TypeOK, Requests
  <2>1. SeenIsCurrent'
    <3> SUFFICES ASSUME NEW u \in Threads, pc'[u] = "store", seen'[u] # NoHead
                 PROVE  /\ lock'[request[u].device] = u
                        /\ head[request[u].device] = seen'[u]
      BY <1>5 DEF ReadHead, SeenIsCurrent, NoHead
    <3>1. CASE u = t
      BY <1>5, <1>t, <2>0, <3>1 DEF ReadHead, TypeOK
    <3>2. CASE u # t
      <4>1. pc[u] = "store" /\ seen[u] # NoHead /\ seen'[u] = seen[u]
        BY <1>5, <1>t, <3>2 DEF ReadHead, TypeOK
      <4>2. lock[request[u].device] = u /\ head[request[u].device] = seen[u]
        BY <4>1 DEF IInv, SeenIsCurrent
      <4>3. u # NoThread
        BY NoneAssumption
      <4>4. lock'[request[u].device] = lock[request[u].device]
        <5>1. CASE request[u].device = d
          BY <1>5, <4>2, <4>3, <5>1 DEF ReadHead
        <5>2. CASE request[u].device # d
          <6>1. request[u].device \in Devices
            BY <1>t, <4>1 DEF TypeOK, Requests
          <6>2. UNCHANGED lock \/ lock' = [lock EXCEPT ![d] = t]
            BY <1>5 DEF ReadHead
          <6> QED
            BY <1>t, <5>2, <6>1, <6>2 DEF TypeOK
        <5> QED
          BY <5>1, <5>2
      <4> QED
        BY <4>1, <4>2, <4>4
    <3> QED
      BY <3>1, <3>2
  <2>2. RepliesBacked'
    BY <1>5, <1>t DEF ReadHead, IInv, RepliesBacked, TypeOK
  <2> QED
    BY <1>5, <1>k, <2>1, <2>2 DEF ReadHead
<1>6. ASSUME NEW t \in Threads, Store(t) PROVE IInv'
  <2> DEFINE b == request[t].batch
  <2>0. /\ b \in Payloads /\ b.device \in Devices
        /\ head' = [head EXCEPT ![b.device] = [last |-> b.last, hash |-> b.final]]
        /\ batches' = batches \union {b}
        /\ b.device = request[t].device /\ Continues(b, head[b.device])
    BY <1>6, StoreContinuesHead, BatchRange DEF Store
  <2>1. Chained' /\ StoredValid' /\ EventsUnique'
    BY <1>6, StoreKeepsChain, StoreKeepsEvents
  <2>2. SeenIsCurrent'
    <3> SUFFICES ASSUME NEW u \in Threads, pc'[u] = "store", seen'[u] # NoHead
                 PROVE  /\ lock'[request[u].device] = u
                        /\ head'[request[u].device] = seen[u]
      BY <1>6 DEF Store, SeenIsCurrent, NoHead
    <3>1. u # t /\ pc[u] = "store" /\ seen[u] # NoHead
      BY <1>6, <1>t DEF Store, TypeOK
    <3>2. lock[request[u].device] = u /\ head[request[u].device] = seen[u]
      BY <3>1 DEF IInv, SeenIsCurrent
    <3>3. request[u].device \in Devices
      BY <1>t, <3>1 DEF TypeOK, Requests
    <3>4. request[u].device # b.device
      <4> SUFFICES ASSUME request[u].device = b.device PROVE FALSE
        OBVIOUS
      <4>1. seen[t] = NoHead
        BY <1>6, <2>0, <3>1, <3>2 DEF Store, IInv, SeenIsCurrent
      <4>2. b.first = 1
        BY <1>6, <4>1 DEF Store, Accepted, Continues, NoHead
      <4>3. head[b.device].last = 0 /\ head[b.device] # NoHead
        <5>1. head[b.device].last \in Nat
          BY <2>0, <1>t DEF TypeOK, Heads
        <5>2. b.first = head[b.device].last + 1
          BY <2>0 DEF Continues
        <5> QED
          BY <4>2, <5>1, <5>2, <3>1, <3>2
      <4>4. PICK c \in BatchesOf(b.device) : head[b.device] = [last |-> c.last, hash |-> c.final]
        BY <2>0, <4>3 DEF IInv, Chained, HeadIsTip
      <4>5. c \in batches
        BY DEF BatchesOf
      <4> QED
        BY <1>t, <4>3, <4>4, <4>5, StoredRange DEF IInv
    <3> QED
      BY <1>6, <1>t, <2>0, <3>1, <3>2, <3>3, <3>4 DEF Store, Unlock, TypeOK
  <2>3. RepliesBacked'
    BY <1>6, <1>t DEF Store, IInv, RepliesBacked, TypeOK
  <2>4. ReceiptsBacked'
    BY <1>6, <1>t, <1>g, ReceiptsStayBacked DEF Store, IInv
  <2> QED
    BY <1>t, <2>1, <2>2, <2>3, <2>4 DEF IInv
<1>7. ASSUME NEW t \in Threads, Reply(t) PROVE IInv'
  <2> DEFINE b == request[t].batch
  <2>1. SeenIsCurrent' /\ RepliesBacked'
    BY <1>7, <1>f DEF Reply
  <2>2. Chained' /\ StoredValid' /\ EventsUnique'
    BY <1>7, ChainUnchanged DEF Reply, IInv
  <2>3. b \in batches /\ b \in BatchesOf(b.device) /\ b.device \in Devices
    BY <1>7, <1>t, StoredRange DEF Reply, IInv, RepliesBacked
  <2>4. b.last <= head[b.device].last
    BY <2>3 DEF IInv, Chained, NoFork
  <2>5. Receipt(b).through <= head[Receipt(b).device].last
    BY <2>4 DEF Receipt
  <2>6. \A r \in receipts' \ receipts : \E c \in batches :
           Receipt(c) = r /\ r.through <= head[r.device].last
    BY <1>7, <2>3, <2>5 DEF Reply
  <2>7. ReceiptsBacked'
    BY <1>t, <1>g, <2>6, ReceiptsStayBacked DEF IInv
  <2> QED
    BY <1>t, <2>1, <2>2, <2>7 DEF IInv
<1>8. ASSUME UNCHANGED <<head, batches, receipts, pc, request, seen, lock>> PROVE IInv'
  <2>1. SeenIsCurrent' /\ RepliesBacked'
    BY <1>8 DEF IInv, SeenIsCurrent, RepliesBacked, NoHead
  <2> QED
    BY <1>8, <2>1, <1>k
<1> QED
  BY <1>1, <1>2, <1>3, <1>4, <1>5, <1>6, <1>7, <1>8
  DEF Next, Handle, vars, RefuseInactive, RefuseReusedUuid, RefuseContract, RefuseConflict, Abort, Deactivate

\* The inductive invariant holds of every reachable state.
LEMMA Inductive == Spec => []IInv
BY InitIInv, NextIInv, PTL DEF Spec

\* Rows, receipts, locks and the requests in flight always have their types.
THEOREM TypeCorrect == Spec => []TypeOK
<1>1. IInv => TypeOK
  BY DEF IInv
<1> QED
  BY <1>1, Inductive, PTL

\* A sequence number belongs to one stored batch only, so that the row it names
\* is an event of that batch.
RowsDetermined ==
  \A d \in Devices : \A b \in BatchesOf(d) : \A i \in Nat :
    Covers(b, i) => Recorded(d, i) = b.events[i - b.first + 1]

LEMMA RecordedIn == IInv => RowsDetermined
<1> SUFFICES ASSUME IInv, NEW d \in Devices, NEW b \in BatchesOf(d), NEW i \in Nat, Covers(b, i)
             PROVE  Recorded(d, i) = b.events[i - b.first + 1]
  BY DEF RowsDetermined
<1>1. \A s \in BatchesOf(d) : Covers(s, i) => s = b
  <2> SUFFICES ASSUME NEW s \in BatchesOf(d), Covers(s, i) PROVE s = b
    OBVIOUS
  <2>1. s = b \/ Apart(s, b)
    BY DEF IInv, Chained, NoFork
  <2>2. s \in batches /\ b \in batches
    BY DEF BatchesOf
  <2> QED
    BY <2>1, <2>2, StoredRange DEF IInv, Apart, Covers
<1>2. (CHOOSE s \in BatchesOf(d) : Covers(s, i)) = b
  BY <1>1
<1> QED
  BY <1>2 DEF Recorded

\* A chain of valid batches is a chain of events.
LEMMA ChainOfEvents == IInv => EventsLinked
<1> SUFFICES ASSUME IInv, NEW d \in Devices, NEW i \in 1 .. head[d].last
             PROVE  LET e == Recorded(d, i) IN
                    /\ e.sequence = i
                    /\ e.hash = Digest(Content(e))
                    /\ e.previous = IF i = 1 THEN NoHash ELSE Recorded(d, i - 1).hash
                    /\ i = head[d].last => e.hash = head[d].hash
                    /\ e.code = "web_filter_blocked" => e.metadata = {"domain_hash"}
  BY DEF EventsLinked
<1>0. head[d].last \in Nat /\ i \in Nat /\ 1 <= i
  BY DEF IInv, TypeOK, Heads
<1>1. PICK b \in BatchesOf(d) : Covers(b, i)
  BY DEF IInv, Chained, NoGap
<1>2. b \in batches /\ b \in Payloads /\ b.device = d /\ ValidBatch(b)
  BY DEF BatchesOf, IInv, TypeOK, StoredValid
<1>3. /\ b.first \in Nat /\ 1 <= b.first /\ b.last \in Nat
      /\ Len(b.events) = b.last - b.first + 1
  BY <1>2, BatchRange
<1> DEFINE k == i - b.first + 1
           e == b.events[k]
<1>4. k \in 1 .. Len(b.events) /\ 1 \in 1 .. Len(b.events)
  BY <1>0, <1>1, <1>3 DEF Covers
<1>5. Recorded(d, i) = e
  BY <1>0, <1>1, RecordedIn DEF RowsDetermined
<1>6. ValidEvent(e) /\ e.sequence = b.events[1].sequence + k - 1 /\ b.first = b.events[1].sequence
  BY <1>2, <1>4 DEF ValidBatch
<1>7. e.sequence = i
  BY <1>0, <1>3, <1>6
<1>8. e.hash = Digest(Content(e)) /\ (e.code = "web_filter_blocked" => e.metadata = {"domain_hash"})
  BY <1>6 DEF ValidEvent
<1>9. e.previous = IF i = 1 THEN NoHash ELSE Recorded(d, i - 1).hash
  <2>1. CASE k > 1
    <3>1. e.previous = b.events[k - 1].hash
      BY <2>1, <1>2, <1>4 DEF ValidBatch
    <3>2. i - 1 \in Nat /\ Covers(b, i - 1) /\ i # 1 /\ (i - 1) - b.first + 1 = k - 1
      BY <2>1, <1>0, <1>1, <1>3 DEF Covers
    <3>3. Recorded(d, i - 1) = b.events[k - 1]
      BY <3>2, RecordedIn DEF RowsDetermined
    <3> QED
      BY <3>1, <3>2, <3>3
  <2>2. CASE k = 1
    <3>0. i = b.first
      BY <2>2, <1>0, <1>3
    <3>1. e.previous = b.prev
      <4>1. b.prev = b.events[1].previous
        BY <1>2 DEF ValidBatch
      <4> QED
        BY <2>2, <4>1
    <3>2. CASE b.first = 1
      BY <3>0, <3>1, <3>2, <1>2 DEF IInv, Chained, HashLinked
    <3>3. CASE b.first # 1
      <4>1. PICK p \in BatchesOf(d) : p.last + 1 = b.first /\ p.final = b.prev
        BY <3>3, <1>2 DEF IInv, Chained, HashLinked
      <4>2. p \in batches /\ p \in Payloads /\ ValidBatch(p)
        BY DEF BatchesOf, IInv, TypeOK, StoredValid
      <4>3. /\ p.first \in Nat /\ p.last \in Nat /\ p.first <= p.last
            /\ Len(p.events) = p.last - p.first + 1
        BY <4>2, BatchRange
      <4>4. i - 1 = p.last /\ Covers(p, i - 1) /\ i - 1 \in Nat
        BY <3>0, <4>1, <4>3, <1>0, <1>3 DEF Covers
      <4>5. Recorded(d, i - 1) = p.events[Len(p.events)]
        BY <4>3, <4>4, RecordedIn DEF RowsDetermined
      <4>6. p.final = p.events[Len(p.events)].hash
        BY <4>2 DEF ValidBatch
      <4> QED
        BY <3>0, <3>1, <3>3, <4>1, <4>5, <4>6
    <3> QED
      BY <3>2, <3>3
  <2> QED
    BY <2>1, <2>2, <1>0, <1>3, <1>4
<1>10. i = head[d].last => e.hash = head[d].hash
  <2> SUFFICES ASSUME i = head[d].last PROVE e.hash = head[d].hash
    OBVIOUS
  <2>1. PICK c \in BatchesOf(d) : head[d] = [last |-> c.last, hash |-> c.final]
    BY <1>1 DEF IInv, Chained, HeadIsTip
  <2>2. c \in batches /\ c \in Payloads /\ ValidBatch(c)
    BY DEF BatchesOf, IInv, TypeOK, StoredValid
  <2>3. /\ c.first \in Nat /\ c.last \in Nat /\ c.first <= c.last
        /\ Len(c.events) = c.last - c.first + 1
    BY <2>2, BatchRange
  <2>4. i = c.last /\ Covers(c, i)
    BY <2>1, <2>3 DEF Covers
  <2>5. Recorded(d, i) = c.events[Len(c.events)]
    BY <1>0, <2>3, <2>4, RecordedIn DEF RowsDetermined
  <2>6. c.final = c.events[Len(c.events)].hash
    BY <2>2 DEF ValidBatch
  <2> QED
    BY <1>5, <2>1, <2>5, <2>6
<1> QED
  BY <1>5, <1>7, <1>8, <1>9, <1>10

\* The stored evidence of every device is one unbroken hash chain, of batches
\* and of events, ending in its chain head, for any number of racing uploads of
\* any payloads.
THEOREM ChainNeverBroken == Spec => []ChainIntact
<1>1. IInv => ChainIntact
  BY ChainOfEvents DEF IInv, Chained, ChainIntact
<1> QED
  BY <1>1, Inductive, PTL

\* What a device was told is durable is in the database from then on.
THEOREM ReceiptsTruthful == Spec => []ReceiptsBacked
<1>1. IInv => ReceiptsBacked
  BY DEF IInv
<1> QED
  BY <1>1, Inductive, PTL

\* No step withdraws evidence or moves a chain head back.
THEOREM AppendOnly == Spec => EvidenceAppendOnly
<1> DEFINE Grows == /\ batches \subseteq batches'
                    /\ \A d \in Devices : head[d].last <= head'[d].last
<1>1. IInv /\ [Next]_vars => [Grows]_vars
  BY EvidenceGrows
<1>2. IInv /\ [Next]_vars => Grows
  BY EvidenceGrows
<1>3. Spec => [][Grows]_vars
  BY <1>1, Inductive, PTL DEF Spec
<1> QED
  BY <1>3 DEF EvidenceAppendOnly

-----------------------------------------------------------------------------
(***************************************************************************)
(* The refinement of AuditLog.                                             *)
(***************************************************************************)

\* A sequence that agrees with a longer one wherever it is defined is a prefix.
LEMMA PrefixByIndex ==
  ASSUME NEW S, NEW s \in Seq(S), NEW r \in Seq(S), Len(s) < Len(r),
         \A i \in 1 .. Len(s) : s[i] = r[i]
  PROVE  Log!IsStrictPrefix(s, r)
<1>1. SubSeq(s, 1, Len(s)) = SubSeq(r, 1, Len(s))
  OBVIOUS
<1> QED
  BY <1>1 DEF Log!IsStrictPrefix, Log!IsPrefix

LEMMA RowsDeterminedNext == IInv' => RowsDetermined'
BY RecordedIn, PTL

\* The log of a device has one entry for each number up to its chain head.
LEMMA LogRange ==
  ASSUME TypeOK, NEW d \in Devices
  PROVE  /\ head[d].last \in Nat
         /\ Len(RecordedLog[d]) = head[d].last
         /\ \A i \in 1 .. head[d].last : RecordedLog[d][i] = Recorded(d, i).uuid
BY DEF TypeOK, Heads, RecordedLog

\* Initially no log holds anything.
LEMMA InitMapped == Init => Log!Init
<1> SUFFICES ASSUME Init PROVE Log!Init
  OBVIOUS
<1>1. RecordedLog = [d \in Devices |-> << >>]
  <2>1. \A d \in Devices : head[d].last = 0
    BY DEF Init, NoHead
  <2>2. ASSUME NEW d \in Devices
        PROVE  [i \in 1 .. head[d].last |-> Recorded(d, i).uuid] = << >>
    <3> DEFINE f == [i \in 1 .. 0 |-> Recorded(d, i).uuid]
    <3>1. f \in Seq({}) /\ Len(f) = 0
      OBVIOUS
    <3>2. f = << >>
      BY <3>1
    <3> QED
      BY <2>1, <3>2
  <2> QED
    BY <2>2 DEF RecordedLog
<1>2. Confirmed = {}
  BY DEF Init, Confirmed
<1> QED
  BY <1>1, <1>2 DEF Log!Init

\* A stored batch becomes a Record step: its events extend the log of its
\* device, which keeps what it had, and none of them was recorded before.
LEMMA StoreRecords ==
  ASSUME IInv, IInv', NEW d \in Devices, NEW b \in Payloads, b.device = d,
         ValidBatch(b), Continues(b, head[d]), NoKeyConflict(b),
         NEW m, m = head[d].last, NEW n, n = b.last,
         batches' = batches \union {b},
         head' = [head EXCEPT ![d] = [last |-> n, hash |-> b.final]],
         UNCHANGED receipts
  PROVE  Log!Record(d)
<1>1. /\ b.first \in Nat /\ 1 <= b.first /\ n \in Nat /\ b.first <= n
      /\ Len(b.events) = n - b.first + 1 /\ b.last = n
  BY BatchRange
<1>2. m \in Nat /\ b.first = m + 1 /\ m < n
  BY <1>1 DEF Continues, IInv, TypeOK, Heads
<1>3. batches' = batches \union {b} /\ NoKeyConflict(b)
  OBVIOUS
<1>4. /\ head'[d] = [last |-> n, hash |-> b.final]
      /\ \A e \in Devices \ {d} : head'[e] = head[e]
  BY DEF IInv, TypeOK
<1>5. /\ b \in BatchesOf(d)' /\ b \notin batches
      /\ \A e \in Devices : BatchesOf(e) \subseteq BatchesOf(e)'
  BY <1>3 DEF BatchesOf, NoKeyConflict
<1>6. /\ RowsDetermined /\ RowsDetermined'
      /\ TypeOK /\ TypeOK' /\ EventsUnique'
  BY RecordedIn, RowsDeterminedNext DEF IInv
<1>7. ASSUME NEW e \in Devices, NEW i \in 1 .. head[e].last
      PROVE  \E s \in BatchesOf(e) :
               /\ s \in batches
               /\ i - s.first + 1 \in 1 .. Len(s.events)
               /\ Recorded(e, i) = s.events[i - s.first + 1]
               /\ Recorded(e, i)' = s.events[i - s.first + 1]
  <2>1. PICK s \in BatchesOf(e) : Covers(s, i)
    BY <1>7 DEF IInv, Chained, NoGap
  <2>2. s \in batches /\ s \in BatchesOf(e)'
    BY <1>5 DEF BatchesOf
  <2>3. s.first \in Nat /\ s.last \in Nat /\ Len(s.events) = s.last - s.first + 1 /\ i \in Nat
    BY <2>2, <1>6, <1>7, StoredRange, LogRange DEF IInv
  <2>4. Recorded(e, i) = s.events[i - s.first + 1]
    BY <1>6, <2>1, <2>3 DEF RowsDetermined
  <2>5. Recorded(e, i)' = s.events[i - s.first + 1]
    BY <1>6, <2>1, <2>2, <2>3 DEF RowsDetermined, Covers
  <2> QED
    BY <2>1, <2>2, <2>3, <2>4, <2>5 DEF Covers
<1>8. ASSUME NEW i \in (m + 1) .. n
      PROVE  /\ i - b.first + 1 \in 1 .. Len(b.events)
             /\ Recorded(d, i)' = b.events[i - b.first + 1]
  <2>0. i \in Nat /\ m + 1 <= i /\ i <= n
    BY <1>1, <1>2
  <2>1. Covers(b, i)
    BY <1>1, <1>2, <2>0 DEF Covers
  <2>2. i - b.first + 1 \in 1 .. (n - b.first + 1)
    <3>1. b.first <= i
      BY <1>2, <2>0
    <3>2. ASSUME NEW f \in Nat, f <= i PROVE i - f + 1 \in 1 .. (n - f + 1)
      BY <1>1, <2>0, <3>2
    <3> QED
      BY <1>1, <3>1, <3>2
  <2>3. i - b.first + 1 \in 1 .. Len(b.events)
    BY <1>1, <2>2
  <2> QED
    BY <1>5, <1>6, <2>0, <2>1, <2>3 DEF RowsDetermined, Covers
<1>9. \A e \in Devices :
        /\ head[e].last \in Nat /\ Len(RecordedLog[e]) = head[e].last
        /\ \A i \in 1 .. head[e].last : RecordedLog[e][i] = Recorded(e, i).uuid
  BY <1>6, LogRange
<1>10. \A e \in Devices :
        /\ head'[e].last \in Nat /\ Len(RecordedLog'[e]) = head'[e].last
        /\ \A i \in 1 .. head'[e].last : RecordedLog'[e][i] = (Recorded(e, i)').uuid
  BY <1>6 DEF TypeOK, Heads, RecordedLog
<1>d. /\ Len(RecordedLog[d]) = m /\ \A i \in 1 .. m : RecordedLog[d][i] = Recorded(d, i).uuid
      /\ Len(RecordedLog'[d]) = n
      /\ \A i \in 1 .. n : RecordedLog'[d][i] = (Recorded(d, i)').uuid
  <2>1. head'[d].last = n
    BY <1>4
  <2> QED
    BY <2>1, <1>9, <1>10
<1>11. UNCHANGED Confirmed
  BY DEF Confirmed
<1>12. Log!IsStrictPrefix(RecordedLog[d], RecordedLog'[d])
  <2> DEFINE S == {Recorded(d, i).uuid : i \in 1 .. m} \union {(Recorded(d, i)').uuid : i \in 1 .. n}
  <2>1. RecordedLog[d] \in Seq(S) /\ RecordedLog'[d] \in Seq(S)
    <3>1. RecordedLog[d] = [i \in 1 .. m |-> Recorded(d, i).uuid]
      BY DEF RecordedLog
    <3>2. RecordedLog'[d] = [i \in 1 .. n |-> (Recorded(d, i)').uuid]
      BY <1>4 DEF RecordedLog
    <3>3. \A i \in 1 .. m : Recorded(d, i).uuid \in S
      OBVIOUS
    <3>4. \A i \in 1 .. n : (Recorded(d, i)').uuid \in S
      OBVIOUS
    <3> HIDE DEF S
    <3>5. [i \in 1 .. m |-> Recorded(d, i).uuid] \in Seq(S)
      BY <1>2, <3>3
    <3>6. [i \in 1 .. n |-> (Recorded(d, i)').uuid] \in Seq(S)
      BY <1>1, <3>4
    <3> QED
      BY <3>1, <3>2, <3>5, <3>6
  <2>2. Len(RecordedLog[d]) = m /\ Len(RecordedLog'[d]) = n /\ m < n
    BY <1>2, <1>d
  <2>3. ASSUME NEW i \in 1 .. m PROVE RecordedLog[d][i] = RecordedLog'[d][i]
    <3>1. Recorded(d, i) = Recorded(d, i)'
      BY <1>7
    <3>2. i \in 1 .. n
      BY <1>1, <1>2
    <3> QED
      BY <1>d, <3>1, <3>2
  <2> QED
    BY <2>1, <2>2, <2>3, PrefixByIndex
<1>13. ASSUME NEW e \in Devices \ {d} PROVE RecordedLog'[e] = RecordedLog[e]
  BY <1>4, <1>7 DEF RecordedLog
<1>14. ASSUME NEW i \in (m + 1) .. n, NEW e \in Devices, NEW j \in 1 .. head[e].last
       PROVE  RecordedLog[e][j] # RecordedLog'[d][i]
  <2>1. PICK s \in batches : /\ j - s.first + 1 \in 1 .. Len(s.events)
                             /\ Recorded(e, j) = s.events[j - s.first + 1]
    BY <1>7
  <2>2. RecordedLog'[d][i] = b.events[i - b.first + 1].uuid
    <3>1. i \in 1 .. n
      BY <1>1, <1>2
    <3> QED
      BY <1>8, <1>d, <3>1
  <2>3. s # b /\ s \in batches' /\ b \in batches'
    BY <1>3, <1>5
  <2>4. i - b.first + 1 \in 1 .. Len(b.events)
    BY <1>8
  <2>5. ~ SameKey(s.events[j - s.first + 1], b.events[i - b.first + 1])
    BY <1>6, <2>1, <2>3, <2>4 DEF EventsUnique
  <2>6. RecordedLog[e][j] = s.events[j - s.first + 1].uuid
    BY <1>9, <2>1
  <2> QED
    BY <2>2, <2>5, <2>6 DEF SameKey
<1>15. ASSUME NEW i \in (m + 1) .. n, NEW j \in (m + 1) .. n, RecordedLog'[d][i] = RecordedLog'[d][j]
       PROVE  i = j
  <2>1. b.events[i - b.first + 1].uuid = b.events[j - b.first + 1].uuid
    <3>1. i \in 1 .. n /\ j \in 1 .. n
      BY <1>1, <1>2
    <3> QED
      BY <1>8, <1>d, <1>15, <3>1
  <2>2. i - b.first + 1 = j - b.first + 1
    BY <1>3, <1>6, <1>8, <2>1 DEF EventsUnique, SameKey
  <2>3. i \in Nat /\ j \in Nat
    BY <1>1, <1>2
  <2> QED
    BY <1>1, <2>2, <2>3
<1>16. \A i \in (Len(RecordedLog[d]) + 1) .. Len(RecordedLog'[d]) :
         /\ \A e \in Devices : \A j \in 1 .. Len(RecordedLog[e]) : RecordedLog[e][j] # RecordedLog'[d][i]
         /\ \A j \in (Len(RecordedLog[d]) + 1) .. Len(RecordedLog'[d]) :
              RecordedLog'[d][i] = RecordedLog'[d][j] => i = j
  BY <1>d, <1>9, <1>14, <1>15
<1> QED
  BY <1>11, <1>12, <1>13, <1>16 DEF Log!Record

\* A receipt for stored evidence is a Confirm step.
LEMMA ReceiptConfirms ==
  ASSUME IInv, NEW b \in batches, receipts' = receipts \union {Receipt(b)},
         UNCHANGED <<head, batches>>
  PROVE  Log!Confirm(b.device)
<1>1. b.device \in Devices /\ b \in BatchesOf(b.device) /\ b.last \in Nat /\ 1 <= b.last
  BY StoredRange DEF IInv
<1>2. b.last <= head[b.device].last
  BY <1>1 DEF IInv, Chained, NoFork
<1>3. b.last \in 1 .. Len(RecordedLog[b.device])
  BY <1>1, <1>2, LogRange DEF IInv
<1>4. UNCHANGED RecordedLog
  BY DEF RecordedLog, Recorded, BatchesOf, Covers
<1>5. Confirmed' = Confirmed \union {<<b.device, b.last>>}
  <2>1. Receipt(b).device = b.device /\ Receipt(b).through = b.last
    BY DEF Receipt
  <2>2. \A r, R : {<<s.device, s.through>> : s \in R \union {r}}
                  = {<<s.device, s.through>> : s \in R} \union {<<r.device, r.through>>}
    OBVIOUS
  <2>3. Confirmed' = {<<s.device, s.through>> : s \in receipts \union {Receipt(b)}}
    BY DEF Confirmed
  <2> QED
    BY <2>1, <2>2, <2>3 DEF Confirmed
<1> QED
  BY <1>3, <1>4, <1>5 DEF Log!Confirm

\* Every step of the server is a step of the log or changes nothing of it.
LEMMA StepMapped == IInv /\ IInv' /\ [Next]_vars => [Log!Next]_Log!vars
<1> SUFFICES ASSUME IInv, IInv', [Next]_vars PROVE [Log!Next]_Log!vars
  OBVIOUS
<1>1. ASSUME NEW t \in Threads, Store(t) PROVE Log!Next
  <2> DEFINE b == request[t].batch
  <2>1. b \in Payloads /\ ValidBatch(b) /\ b.device \in Devices /\ Continues(b, head[b.device])
    BY <1>1, StoreContinuesHead, BatchRange
  <2>2. /\ NoKeyConflict(b) /\ batches' = batches \union {b}
        /\ head' = [head EXCEPT ![b.device] = [last |-> b.last, hash |-> b.final]]
        /\ UNCHANGED receipts
    BY <1>1 DEF Store
  <2> HIDE DEF b
  <2>3. Log!Record(b.device)
    BY <2>1, <2>2, StoreRecords
  <2> QED
    BY <2>1, <2>3 DEF Log!Next
<1>2. ASSUME NEW t \in Threads, ReplayReceipt(t) PROVE Log!Next
  <2>1. PICK s \in batches : receipts' = receipts \union {Receipt(s)}
    BY <1>2 DEF ReplayReceipt
  <2>2. Log!Confirm(s.device)
    BY <1>2, <2>1, ReceiptConfirms DEF ReplayReceipt
  <2> QED
    BY <2>2, StoredRange DEF Log!Next, IInv
<1>3. ASSUME NEW t \in Threads, Reply(t) PROVE Log!Next
  <2>1. request[t].batch \in batches /\ receipts' = receipts \union {Receipt(request[t].batch)}
    BY <1>3 DEF Reply, IInv, RepliesBacked
  <2>2. PICK s \in batches : receipts' = receipts \union {Receipt(s)}
    BY <2>1
  <2>3. Log!Confirm(s.device)
    BY <1>3, <2>2, ReceiptConfirms DEF Reply
  <2> QED
    BY <2>3, StoredRange DEF Log!Next, IInv
<1>4. ASSUME UNCHANGED <<head, batches, receipts>> PROVE UNCHANGED Log!vars
  BY <1>4 DEF Log!vars, RecordedLog, Recorded, BatchesOf, Covers, Confirmed
<1> QED
  BY <1>1, <1>2, <1>3, <1>4
  DEF Next, Handle, vars, Upload, RefuseInactive, RefuseReusedUuid, LookUpMiss, ReadHead,
      RefuseContract, RefuseConflict, Abort, Deactivate, Reject

\* Racing uploads of any payloads implement an append-only log a device, in which
\* an event is recorded at most once anywhere and nothing is confirmed that is
\* not recorded.
THEOREM AuditLogImplemented == Spec => ImplementsAuditLog
<1>1. Spec => Log!Init
  BY InitMapped DEF Spec
<1>2. Spec => [][Log!Next]_Log!vars
  BY StepMapped, Inductive, PTL DEF Spec
<1> QED
  BY <1>1, <1>2 DEF ImplementsAuditLog, Log!Spec
=============================================================================
