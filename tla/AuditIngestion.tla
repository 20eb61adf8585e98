--------------------------- MODULE AuditIngestion ---------------------------
(***************************************************************************)
(* The server side of device audit evidence:                               *)
(* backend/app/services/device_audit_ingestion.py, run by the threads of   *)
(* the web worker against PostgreSQL at READ COMMITTED.                    *)
(*                                                                         *)
(* One request is: read the credential and look the batch UUID up, lock    *)
(* the device's chain head if it has one, check the batch against it, and  *)
(* store batch, events and head in one commit, then reply.  Threads        *)
(* interleave between those statements; a row lock lasts until commit or   *)
(* rollback.                                                               *)
(*                                                                         *)
(* A payload is anything a device may post: it claims a range of sequence  *)
(* numbers and the chain hash before and after it, and carries events that *)
(* the contract of backend/app/device_audit_contract.py checks.  Digest is *)
(* SHA-256 over the canonical form of an event; names, times and counters  *)
(* that no check relates to anything else are left out of an event.        *)
(***************************************************************************)
EXTENDS Naturals, Sequences

CONSTANTS
  Devices,      \* devices, each enrolled with one credential
  Threads,      \* request threads of the server
  Payloads,     \* batches that may be uploaded, any number of times
  EventCodes,   \* EVENT_CODES of the contract
  MaxEvents,    \* MAX_EVENTS_PER_BATCH
  MaxSequence,  \* the largest sequence number, 2^63 - 1 in the code
  Digest(_),    \* the hash of an event without its own hash
  NoHash,       \* the previous hash of a first batch (None)
  NoIdentity,   \* an event that names no policy, no revision (None)
  NoThread,     \* nobody holds the row lock
  NoRequest     \* the thread serves no upload

\* What an event hash commits to: everything but itself.
Content(e) ==
  [uuid |-> e.uuid, sequence |-> e.sequence, code |-> e.code, policy |-> e.policy,
   revision |-> e.revision, metadata |-> e.metadata, previous |-> e.previous]

\* A payload names some device and holds a list; a digest is never None.
ASSUME PayloadsAssumption ==
  \A b \in Payloads :
    /\ b.device \in Devices
    /\ Len(b.events) \in Nat
    /\ \A i \in 1 .. Len(b.events) : Digest(Content(b.events[i])) # NoHash

ASSUME LimitsAssumption == MaxEvents \in Nat /\ MaxSequence \in Nat

Requests == [device : Devices, batch : Payloads]

ASSUME NoneAssumption == NoThread \notin Threads /\ NoRequest \notin Requests

VARIABLES
  active,     \* active[d]: device and credential status are both "active"
  head,       \* head[d]: the device_audit_chain_heads row, last = 0 if none
  batches,    \* rows of device_audit_batches with their events
  receipts,   \* replies sent: which batch was confirmed up to where
  pc,         \* pc[t]: the statement thread t runs next
  request,    \* request[t]: the authenticated device and its payload
  seen,       \* seen[t]: the chain head read by thread t
  lock        \* lock[d]: the thread holding the row lock on d's head

vars == <<active, head, batches, receipts, pc, request, seen, lock>>

-----------------------------------------------------------------------------
\* No sequence number belongs to both batches.
Apart(b, c) == b.last < c.first \/ c.last < b.first

Covers(b, i) == b.first <= i /\ i <= b.last

BatchesOf(d) == {b \in batches : b.device = d}

NoHead == [last |-> 0, hash |-> NoHash]

Heads == [last : Nat, hash : {b.final : b \in Payloads} \union {NoHash}]

EventsOf(b) == {b.events[i] : i \in 1 .. Len(b.events)}

\* validate_audit_event: an event names a policy with its revision or neither,
\* shows of a blocked domain only the hash, and carries its own digest.
ValidEvent(e) ==
  /\ e.code \in EventCodes
  /\ e.sequence \in 1 .. MaxSequence
  /\ e.policy = NoIdentity <=> e.revision = NoIdentity
  /\ e.code = "web_filter_blocked" => e.metadata = {"domain_hash"}
  /\ e.hash = Digest(Content(e))

\* build_audit_batch and _validate_batch: each event has the next sequence
\* number and the hash of the one before it, and the claims are what the
\* events say.
ValidBatch(b) ==
  LET n == Len(b.events) IN
  /\ n \in 1 .. MaxEvents
  /\ \A i \in 1 .. n :
       /\ ValidEvent(b.events[i])
       /\ b.events[i].sequence = b.events[1].sequence + i - 1
       /\ i > 1 => b.events[i].previous = b.events[i - 1].hash
  /\ b.first = b.events[1].sequence /\ b.last = b.events[n].sequence
  /\ b.prev = b.events[1].previous /\ b.final = b.events[n].hash

\* verify_audit_batch: the batch starts exactly where the chain ended.
Continues(b, h) ==
  /\ b.prev = h.hash
  /\ b.first = h.last + 1

\* The signature verifies under the key of the credential that authenticated.
Signed(t) == request[t].batch.signer = request[t].device

\* The batch names the device and the credential that authenticated.
Owned(t) == request[t].batch.device = request[t].device

Accepted(t) ==
  LET b == request[t].batch IN ValidBatch(b) /\ Continues(b, seen[t]) /\ Signed(t) /\ Owned(t)

\* Event rows are unique by event UUID and by event hash.
SameKey(e, f) == e.uuid = f.uuid \/ e.hash = f.hash

\* No event of b twice, and none that another stored batch of S holds.
EventKeysFree(b, S) ==
  /\ \A i, j \in 1 .. Len(b.events) : SameKey(b.events[i], b.events[j]) => i = j
  /\ \A s \in S : \A e \in EventsOf(s), f \in EventsOf(b) : ~ SameKey(e, f)

\* Mutant: no unique key over the sequence numbers of a device.
NoKeyConflictAnySequence(b) ==
  EventKeysFree(b, batches) /\ \A s \in batches : s.uuid # b.uuid

\* Mutant: event keys are unique within a device only.
NoKeyConflictPerDevice(b) ==
  /\ EventKeysFree(b, BatchesOf(b.device))
  /\ \A s \in batches : s.uuid # b.uuid /\ (s.device = b.device => Apart(s, b))

\* Unique keys of device_audit_batches and device_security_events.
NoKeyConflict(b) ==
  /\ EventKeysFree(b, batches)
  /\ \A s \in batches : s.uuid # b.uuid /\ (s.device = b.device => Apart(s, b))

Receipt(b) ==
  [uuid |-> b.uuid, device |-> b.device, through |-> b.last, chain_head |-> b.final]

\* Commit and rollback both drop the row locks of the transaction.
Unlock(t) == lock' = [d \in Devices |-> IF lock[d] = t THEN NoThread ELSE lock[d]]

\* Mutant: the finished request stays bound to the thread.
FinishKeepingRequest(t) ==
  /\ pc' = [pc EXCEPT ![t] = "idle"]
  /\ seen' = [seen EXCEPT ![t] = NoHead]
  /\ Unlock(t)
  /\ UNCHANGED request

\* The request is over.
Finish(t) ==
  /\ pc' = [pc EXCEPT ![t] = "idle"]
  /\ request' = [request EXCEPT ![t] = NoRequest]
  /\ seen' = [seen EXCEPT ![t] = NoHead]
  /\ Unlock(t)

Reject(t) ==
  /\ Finish(t)
  /\ UNCHANGED <<active, head, batches, receipts>>
-----------------------------------------------------------------------------
Init ==
  /\ active = [d \in Devices |-> TRUE]
  /\ head = [d \in Devices |-> NoHead]
  /\ batches = {}
  /\ receipts = {}
  /\ pc = [t \in Threads |-> "idle"]
  /\ request = [t \in Threads |-> NoRequest]
  /\ seen = [t \in Threads |-> NoHead]
  /\ lock = [d \in Devices |-> NoThread]

\* An authenticated upload reaches the handler: first delivery, a retry after
\* a lost reply, or a payload that another device or an older client made.
Upload(t) ==
  /\ pc[t] = "idle"
  /\ \E r \in Requests : request' = [request EXCEPT ![t] = r]
  /\ pc' = [pc EXCEPT ![t] = "lookup"]
  /\ UNCHANGED <<active, head, batches, receipts, seen, lock>>

\* Refused because the device or the credential is no longer active.
RefuseInactive(t) ==
  /\ pc[t] = "lookup"
  /\ ~ active[request[t].device]
  /\ Reject(t)

\* Mutant: a stored UUID is confirmed without comparing the content.
ReplayAnyContent(t) ==
  /\ pc[t] = "lookup"
  /\ active[request[t].device]
  /\ \E s \in batches : s.uuid = request[t].batch.uuid
  /\ receipts' = receipts \union {Receipt(request[t].batch)}
  /\ Finish(t)
  /\ UNCHANGED <<active, head, batches>>

\* The batch UUID is stored: the same receipt if everything is the same ...
ReplayReceipt(t) ==
  /\ pc[t] = "lookup"
  /\ active[request[t].device]
  /\ \E s \in batches :
        /\ s.uuid = request[t].batch.uuid
        /\ s.device = request[t].device
        /\ s = request[t].batch
        /\ receipts' = receipts \union {Receipt(s)}
  /\ Finish(t)
  /\ UNCHANGED <<active, head, batches>>

\* ... and a conflict if the UUID was used for anything else.
RefuseReusedUuid(t) ==
  /\ pc[t] = "lookup"
  /\ active[request[t].device]
  /\ \E s \in batches :
        /\ s.uuid = request[t].batch.uuid
        /\ s.device # request[t].device \/ s # request[t].batch
  /\ Reject(t)

LookUpMiss(t) ==
  /\ pc[t] = "lookup"
  /\ active[request[t].device]
  /\ \A s \in batches : s.uuid # request[t].batch.uuid
  /\ pc' = [pc EXCEPT ![t] = "read_head"]
  /\ UNCHANGED <<active, head, batches, receipts, request, seen, lock>>

\* SELECT ... FOR UPDATE: waits for the lock on an existing row and reads the
\* version committed by its last holder; a missing row is neither waited for
\* nor locked.
ReadHead(t) ==
  LET d == request[t].device IN
  /\ pc[t] = "read_head"
  /\ IF head[d] = NoHead
     THEN UNCHANGED lock
     ELSE lock[d] = NoThread /\ lock' = [lock EXCEPT ![d] = t]
  /\ seen' = [seen EXCEPT ![t] = head[d]]
  /\ pc' = [pc EXCEPT ![t] = "store"]
  /\ UNCHANGED <<active, head, batches, receipts, request>>

\* The contract, the stored head, the signature or the identity refuses the
\* batch: nothing is stored.
RefuseContract(t) ==
  /\ pc[t] = "store"
  /\ ~ Accepted(t)
  /\ Reject(t)

\* Another upload committed one of the unique keys first.
RefuseConflict(t) ==
  /\ pc[t] = "store"
  /\ Accepted(t)
  /\ ~ NoKeyConflict(request[t].batch)
  /\ Reject(t)

Store(t) ==
  LET b == request[t].batch IN
  /\ pc[t] = "store"
  /\ Accepted(t)
  /\ NoKeyConflict(b)
  /\ batches' = batches \union {b}
  /\ head' = [head EXCEPT ![b.device] = [last |-> b.last, hash |-> b.final]]
  /\ pc' = [pc EXCEPT ![t] = "reply"]
  /\ Unlock(t)
  /\ UNCHANGED <<active, receipts, request, seen>>

\* The commit is confirmed to the device.
Reply(t) ==
  /\ pc[t] = "reply"
  /\ receipts' = receipts \union {Receipt(request[t].batch)}
  /\ Finish(t)
  /\ UNCHANGED <<active, head, batches>>

\* The database fails or the worker is killed: an open transaction is rolled
\* back, a committed one goes unconfirmed.
Abort(t) ==
  /\ pc[t] # "idle"
  /\ Reject(t)

\* An administrator revokes the credential while uploads are in flight.
Deactivate(d) ==
  /\ active[d]
  /\ active' = [active EXCEPT ![d] = FALSE]
  /\ UNCHANGED <<head, batches, receipts, pc, request, seen, lock>>

Handle(t) ==
  \/ RefuseInactive(t) \/ ReplayReceipt(t) \/ RefuseReusedUuid(t)
  \/ LookUpMiss(t) \/ ReadHead(t)
  \/ RefuseContract(t) \/ RefuseConflict(t) \/ Store(t) \/ Reply(t)

Next ==
  \/ \E t \in Threads : Upload(t) \/ Handle(t) \/ Abort(t)
  \/ \E d \in Devices : Deactivate(d)

Spec == Init /\ [][Next]_vars
-----------------------------------------------------------------------------
TypeOK ==
  /\ active \in [Devices -> BOOLEAN]
  /\ head \in [Devices -> Heads]
  /\ batches \subseteq Payloads
  /\ receipts \subseteq {Receipt(b) : b \in Payloads}
  /\ pc \in [Threads -> {"idle", "lookup", "read_head", "store", "reply"}]
  /\ request \in [Threads -> Requests \union {NoRequest}]
  /\ \A t \in Threads : request[t] = NoRequest <=> pc[t] = "idle"
  /\ seen \in [Threads -> Heads]
  /\ lock \in [Devices -> Threads \union {NoThread}]

\* The stored batches of a device cover 1 .. last_sequence, ...
NoGap ==
  \A d \in Devices : \A i \in 1 .. head[d].last : \E b \in BatchesOf(d) : Covers(b, i)

\* ... none of them twice and none beyond it, ...
NoFork ==
  \A d \in Devices : \A b \in BatchesOf(d) :
    /\ b.last <= head[d].last
    /\ \A c \in BatchesOf(d) : b = c \/ Apart(b, c)

\* ... each one linked to the hash of the one before it, ...
HashLinked ==
  \A b \in batches :
    IF b.first = 1
    THEN b.prev = NoHash
    ELSE \E p \in BatchesOf(b.device) : p.last + 1 = b.first /\ p.final = b.prev

\* ... and the chain head is the end of the last of them.
HeadIsTip ==
  \A d \in Devices :
    IF BatchesOf(d) = {}
    THEN head[d] = NoHead
    ELSE \E b \in BatchesOf(d) : head[d] = [last |-> b.last, hash |-> b.final]

\* The event row of device d with sequence number i.
Recorded(d, i) ==
  LET b == CHOOSE s \in BatchesOf(d) : Covers(s, i) IN b.events[i - b.first + 1]

\* Read back row by row, each event has its number, a hash that commits to its
\* content and to the event before it, whatever batches they came in, and no
\* more of a blocked domain than its hash.
EventsLinked ==
  \A d \in Devices : \A i \in 1 .. head[d].last :
    LET e == Recorded(d, i) IN
    /\ e.sequence = i
    /\ e.hash = Digest(Content(e))
    /\ e.previous = IF i = 1 THEN NoHash ELSE Recorded(d, i - 1).hash
    /\ i = head[d].last => e.hash = head[d].hash
    /\ e.code = "web_filter_blocked" => e.metadata = {"domain_hash"}

\* The evidence of a device is one unbroken hash chain, batch by batch and
\* event by event, however uploads race: two first batches that both found no
\* head to lock, a retry of a batch that another thread is committing, a batch
\* rebuilt with other boundaries, claims that the events do not bear out.
ChainIntact == NoGap /\ NoFork /\ HashLinked /\ HeadIsTip /\ EventsLinked

\* A device that was told its events up to n are durable, in a first reply or
\* a replay, finds them in the database at any later time.
ReceiptsBacked ==
  \A r \in receipts : \E b \in batches :
    Receipt(b) = r /\ r.through <= head[r.device].last

\* Stored evidence is never withdrawn, and the chain head never moves back.
EvidenceAppendOnly ==
  [][ /\ batches \subseteq batches'
      /\ \A d \in Devices : head[d].last <= head'[d].last ]_vars

-----------------------------------------------------------------------------
\* The append-only log that the rows stand for, an event being its UUID.
RecordedLog == [d \in Devices |-> [i \in 1 .. head[d].last |-> Recorded(d, i).uuid]]

Confirmed == {<<r.device, r.through>> : r \in receipts}

Log == INSTANCE AuditLog WITH log <- RecordedLog, confirmed <- Confirmed

\* Racing uploads implement an append-only log that confirms only what it holds.
ImplementsAuditLog == Log!Spec
=============================================================================
