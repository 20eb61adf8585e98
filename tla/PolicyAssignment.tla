-------------------------- MODULE PolicyAssignment --------------------------
(***************************************************************************)
(* Administrative policy assignment:                                       *)
(* backend/app/services/policy_assignments.py with the policy lifecycle of *)
(* policy_administration.py and asset retirement of                        *)
(* device_asset_privacy.py.                                                *)
(*                                                                         *)
(* An assign or clear request locks the device row, reads the policy       *)
(* status without a lock, reads the active assignment, and commits the     *)
(* superseded row, the new row, the evidence and the chain head together.  *)
(* Other requests run between these statements.  Assignment ids are        *)
(* positions in the device's history, event hashes positions in its        *)
(* evidence; administrators and reasons are left out.  All server threads  *)
(* read one clock, which never goes back.                                  *)
(***************************************************************************)
EXTENDS Naturals, Sequences

CONSTANTS
  Devices,    \* registered devices
  Threads,    \* request threads of the server
  Revisions,  \* immutable policy revisions
  PolicyOf,   \* the policy a revision belongs to
  NoRevision, \* a clear request names no revision
  NoThread,   \* nobody holds the row lock
  NoRequest,  \* the thread serves no assignment request
  MaxEvents,  \* bound: no request starts on a device with more evidence
  MaxTime     \* bound on the clock

Policies == {PolicyOf[r] : r \in Revisions}

Requests == [device : Devices, revision : Revisions \union {NoRevision}]

ASSUME AssignmentAssumption ==
  /\ PolicyOf \in [Revisions -> Policies]
  /\ NoRevision \notin Revisions
  /\ NoThread \notin Threads
  /\ NoRequest \notin Requests
  /\ MaxEvents \in Nat
  /\ MaxTime \in Nat

VARIABLES
  enrolled,     \* enrolled[d]: the device status is "active", not "retired"
  policyStatus, \* lifecycle status of each policy
  rows,         \* rows[d]: device_policy_assignments of d, oldest first
  events,       \* events[d]: policy_assignment_events of d, oldest first
  head,         \* head[d]: the event the chain head names, 0 if there is none
  clock,        \* utc_now
  pc,           \* pc[t]: the statement thread t runs next
  request,      \* request[t]: the device and the revision, or a clear
  current,      \* current[t]: the active assignment thread t has read, 0 for none
  lock          \* lock[d]: the thread holding the row lock on device d

vars == <<enrolled, policyStatus, rows, events, head, clock, pc, request, current, lock>>
database == <<enrolled, policyStatus, rows, events, head, clock>>
-----------------------------------------------------------------------------
Rows == [revision : Revisions, status : {"active", "superseded"}]

Events == [operation : {"assign", "replace", "clear"},
           assignment : Nat, previous : Nat, link : Nat, at : Nat]

ActiveRows(d) == {i \in 1 .. Len(rows[d]) : rows[d][i].status = "active"}

IsClear(t) == request[t].revision = NoRevision

\* The request ends and its transaction, if any, releases the device.
Finish(t) ==
  /\ pc' = [pc EXCEPT ![t] = "idle"]
  /\ request' = [request EXCEPT ![t] = NoRequest]
  /\ current' = [current EXCEPT ![t] = 0]
  /\ lock' = [d \in Devices |-> IF lock[d] = t THEN NoThread ELSE lock[d]]

\* Mutant: the answered request stays bound to the thread.
AnswerKeepingRequest(t) ==
  /\ pc' = [pc EXCEPT ![t] = "idle"]
  /\ current' = [current EXCEPT ![t] = 0]
  /\ lock' = [d \in Devices |-> IF lock[d] = t THEN NoThread ELSE lock[d]]
  /\ UNCHANGED <<database, request>>

Answer(t) == Finish(t) /\ UNCHANGED database
-----------------------------------------------------------------------------
Init ==
  /\ enrolled = [d \in Devices |-> TRUE]
  /\ policyStatus = [p \in Policies |-> "draft"]
  /\ rows = [d \in Devices |-> << >>]
  /\ events = [d \in Devices |-> << >>]
  /\ head = [d \in Devices |-> 0]
  /\ clock = 0
  /\ pc = [t \in Threads |-> "idle"]
  /\ request = [t \in Threads |-> NoRequest]
  /\ current = [t \in Threads |-> 0]
  /\ lock = [d \in Devices |-> NoThread]

\* An authorized administrator asks to assign a revision or to clear.
Request(t) ==
  /\ pc[t] = "idle"
  /\ \E q \in Requests :
        /\ Len(events[q.device]) <= MaxEvents
        /\ request' = [request EXCEPT ![t] = q]
  /\ pc' = [pc EXCEPT ![t] = "lock_device"]
  /\ UNCHANGED <<database, current, lock>>

\* Mutant: the device row is read without FOR UPDATE.
ReadDeviceUnlocked(t) ==
  /\ pc[t] = "lock_device"
  /\ enrolled[request[t].device]
  /\ pc' = [pc EXCEPT ![t] = IF IsClear(t) THEN "read_current" ELSE "read_policy"]
  /\ UNCHANGED <<database, request, current, lock>>

\* SELECT device ... FOR UPDATE, then the status check.
LockDevice(t) ==
  LET d == request[t].device IN
  /\ pc[t] = "lock_device"
  /\ lock[d] = NoThread
  /\ enrolled[d]
  /\ lock' = [lock EXCEPT ![d] = t]
  /\ pc' = [pc EXCEPT ![t] = IF IsClear(t) THEN "read_current" ELSE "read_policy"]
  /\ UNCHANGED <<database, request, current>>

RefuseRetired(t) ==
  /\ pc[t] = "lock_device"
  /\ lock[request[t].device] = NoThread
  /\ ~ enrolled[request[t].device]
  /\ Answer(t)

\* Mutant: only a revoked policy is refused.
ReadUnlessRevoked(t) ==
  /\ pc[t] = "read_policy"
  /\ policyStatus[PolicyOf[request[t].revision]] # "revoked"
  /\ pc' = [pc EXCEPT ![t] = "read_current"]
  /\ UNCHANGED <<database, request, current, lock>>

\* The revision must belong to a policy that is active now.
ReadPolicy(t) ==
  /\ pc[t] = "read_policy"
  /\ policyStatus[PolicyOf[request[t].revision]] = "active"
  /\ pc' = [pc EXCEPT ![t] = "read_current"]
  /\ UNCHANGED <<database, request, current, lock>>

RefusePolicy(t) ==
  /\ pc[t] = "read_policy"
  /\ policyStatus[PolicyOf[request[t].revision]] # "active"
  /\ Answer(t)

\* The active assignment is read; the request is then decided.
ReadCurrent(t) ==
  LET d == request[t].device IN
  /\ pc[t] = "read_current"
  /\ current' = [current EXCEPT ![t] =
       IF ActiveRows(d) = {} THEN 0 ELSE CHOOSE i \in ActiveRows(d) : TRUE]
  /\ pc' = [pc EXCEPT ![t] = "decide"]
  /\ UNCHANGED <<database, request, lock>>

\* Assigning the active revision again changes nothing and records nothing.
Unchanged(t) ==
  /\ current[t] # 0
  /\ rows[request[t].device][current[t]].revision = request[t].revision

AnswerUnchanged(t) ==
  /\ pc[t] = "decide"
  /\ ~ IsClear(t) /\ Unchanged(t)
  /\ Answer(t)

RefuseNothingToClear(t) ==
  /\ pc[t] = "decide"
  /\ IsClear(t) /\ current[t] = 0
  /\ Answer(t)

\* The history with row i, if there is one, superseded.
Superseded(history, i) ==
  [j \in 1 .. Len(history) |->
    IF j = i THEN [revision |-> history[j].revision, status |-> "superseded"] ELSE history[j]]

\* Mutant: the chain head row, once created, is never updated.
RecordStaleHead(t, operation, assignment) ==
  LET d == request[t].device IN
  /\ events' = [events EXCEPT ![d] = Append(@,
       [operation |-> operation, assignment |-> assignment,
        previous |-> current[t], link |-> head[d], at |-> clock])]
  /\ head' = [head EXCEPT ![d] = 1]

\* _append_assignment_event: the evidence names what was replaced by what, is
\* linked to the event that the locked chain head names, and is dated then.
Record(t, operation, assignment) ==
  LET d == request[t].device IN
  /\ events' = [events EXCEPT ![d] = Append(@,
       [operation |-> operation, assignment |-> assignment,
        previous |-> current[t], link |-> head[d], at |-> clock])]
  /\ head' = [head EXCEPT ![d] = Len(events[d]) + 1]

Assign(t) ==
  LET d == request[t].device
      row == [revision |-> request[t].revision, status |-> "active"]
  IN  /\ pc[t] = "decide"
      /\ ~ IsClear(t) /\ ~ Unchanged(t)
      /\ rows' = [rows EXCEPT ![d] = Append(Superseded(@, current[t]), row)]
      /\ Record(t, IF current[t] = 0 THEN "assign" ELSE "replace", Len(rows[d]) + 1)
      /\ Finish(t)
      /\ UNCHANGED <<enrolled, policyStatus, clock>>

\* Mutant: clearing records the cleared assignment as the one now in force.
ClearNamingOld(t) ==
  LET d == request[t].device IN
  /\ pc[t] = "decide"
  /\ IsClear(t) /\ current[t] # 0
  /\ rows' = [rows EXCEPT ![d] = Superseded(@, current[t])]
  /\ Record(t, "clear", current[t])
  /\ Finish(t)
  /\ UNCHANGED <<enrolled, policyStatus, clock>>

Clear(t) ==
  LET d == request[t].device IN
  /\ pc[t] = "decide"
  /\ IsClear(t) /\ current[t] # 0
  /\ rows' = [rows EXCEPT ![d] = Superseded(@, current[t])]
  /\ Record(t, "clear", 0)
  /\ Finish(t)
  /\ UNCHANGED <<enrolled, policyStatus, clock>>

\* The database fails or the worker is killed: the transaction is rolled back.
Abort(t) == pc[t] # "idle" /\ Answer(t)

\* set_lifecycle: one update of the policy row, which no assignment locks.
SetLifecycle(p) ==
  /\ \E s \in {"active", "inactive", "revoked"} :
        policyStatus' = [policyStatus EXCEPT ![p] = s]
  /\ UNCHANGED <<enrolled, rows, events, head, clock, pc, request, current, lock>>

\* correct_device_asset with RETIRED: takes the device row lock as well.
Retire(d) ==
  /\ enrolled[d]
  /\ lock[d] = NoThread
  /\ enrolled' = [enrolled EXCEPT ![d] = FALSE]
  /\ UNCHANGED <<policyStatus, rows, events, head, clock, pc, request, current, lock>>

Tick ==
  /\ clock < MaxTime
  /\ clock' = clock + 1
  /\ UNCHANGED <<enrolled, policyStatus, rows, events, head, pc, request, current, lock>>

Wait(t) == LockDevice(t) \/ RefuseRetired(t)

Proceed(t) ==
  \/ ReadPolicy(t) \/ RefusePolicy(t) \/ ReadCurrent(t)
  \/ AnswerUnchanged(t) \/ RefuseNothingToClear(t) \/ Assign(t) \/ Clear(t)

Next ==
  \/ \E t \in Threads : Request(t) \/ Wait(t) \/ Proceed(t) \/ Abort(t)
  \/ \E p \in Policies : SetLifecycle(p)
  \/ \E d \in Devices : Retire(d)
  \/ Tick

Spec == Init /\ [][Next]_vars
-----------------------------------------------------------------------------
TypeOK ==
  /\ enrolled \in [Devices -> BOOLEAN]
  /\ policyStatus \in [Policies -> {"draft", "active", "inactive", "revoked"}]
  /\ rows \in [Devices -> Seq(Rows)]
  /\ events \in [Devices -> Seq(Events)]
  /\ head \in [Devices -> Nat]
  /\ clock \in Nat
  /\ pc \in [Threads -> {"idle", "lock_device", "read_policy", "read_current", "decide"}]
  /\ request \in [Threads -> Requests \union {NoRequest}]
  /\ \A t \in Threads : request[t] = NoRequest <=> pc[t] = "idle"
  /\ current \in [Threads -> Nat]
  /\ lock \in [Devices -> Threads \union {NoThread}]

\* However requests race, a device never has two active assignments.
AtMostOneActive ==
  \A d \in Devices : \A i, j \in ActiveRows(d) : i = j

\* The assignment in force after the first k events, according to them.
InForce(d, k) == IF k = 0 THEN 0 ELSE events[d][k].assignment

\* The evidence alone tells the assignment in force, at every point of the
\* history: it ends with the active row, and every event starts from the
\* assignment that the one before it put in force.
EvidenceExplainsState ==
  \A d \in Devices :
    /\ ActiveRows(d) = {InForce(d, Len(events[d]))} \ {0}
    /\ \A k \in 1 .. Len(events[d]) :
         /\ events[d][k].previous = InForce(d, k - 1)
         /\ events[d][k].previous = 0 => events[d][k].operation = "assign"

\* verify_policy_assignment_chain reads the evidence of a device by created_at
\* and id: every event must name the one read before it, the head the last.
ReadBefore(d, i, j) ==
  \/ events[d][i].at < events[d][j].at
  \/ events[d][i].at = events[d][j].at /\ i < j

IsLast(d, k, read) ==
  IF read = {} THEN k = 0
  ELSE k \in read /\ \A i \in read \ {k} : ReadBefore(d, i, k)

ChainVerifies(d) ==
  LET all == 1 .. Len(events[d]) IN
  /\ \A k \in all : IsLast(d, events[d][k].link, {i \in all : ReadBefore(d, i, k)})
  /\ IsLast(d, head[d], all)

\* The verification finds no fault with the evidence the server itself wrote:
\* read by date, it is one chain that ends where the head says.
EvidenceVerifies == \A d \in Devices : ChainVerifies(d)

\* A policy that was never activated is never assigned: the lifecycle does not
\* return to "draft", so reading it before the commit, unlocked, is enough.
NoDraftAssigned ==
  \A d \in Devices : \A i \in 1 .. Len(rows[d]) :
    policyStatus[PolicyOf[rows[d][i].revision]] # "draft"

\* Once a device is retired its assignment history is closed, even to requests
\* that were under way when it was retired.
RetiredIsClosed ==
  [][ \A d \in Devices :
        ~ enrolled[d] => rows'[d] = rows[d] /\ events'[d] = events[d] ]_vars

=============================================================================
