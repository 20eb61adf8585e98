----------------------------- MODULE PolicySync -----------------------------
(***************************************************************************)
(* The policy synchronization route with its evidence:                     *)
(* backend/app/services/policy_sync.py and backend/app/routes/sync.py.     *)
(*                                                                         *)
(* The desired state is read in two statements without locks; then one     *)
(* transaction locks the device, takes the advisory lock of the device's   *)
(* pseudonym, reads the chain head, and commits the event with the new     *)
(* head.  A device that is not registered has evidence and no row to lock. *)
(* Event hashes are positions; an assignment whose rows are corrupt is     *)
(* left out, as nothing in the program produces one.                       *)
(***************************************************************************)
EXTENDS DeviceAuthentication

CONSTANTS
  Revisions,  \* policy revisions
  PolicyOf,   \* the policy a revision belongs to
  VersionOf,  \* its version, counted from 1 in each policy
  Documented, \* revisions whose payload lists blocked applications, which those
              \* of the third schema do not
  NoRevision, \* no assignment, or no identity reported
  NoVersion   \* the request of a client that sends no current_version

ASSUME SyncAssumption ==
  /\ PolicyOf \in [Revisions -> {PolicyOf[r] : r \in Revisions}]
  /\ VersionOf \in [Revisions -> Nat \ {0}]
  /\ NoRevision \notin Revisions
  /\ NoVersion \notin Nat

VARIABLES
  assigned,     \* assigned[d]: revision of the active assignment of device d
  policyStatus, \* policyStatus[p]: "active", "inactive" or "revoked"
  answer,       \* answer[t]: what thread t is going to answer
  headSeen,     \* headSeen[t]: the chain head thread t has read, 0 for none
  syncEvents,   \* syncEvents[d]: policy_synchronization_events of a pseudonym
  syncHead      \* syncHead[d]: the event its chain head names, 0 for none

synchronization == <<assigned, policyStatus, answer, headSeen, syncEvents, syncHead>>
reading == <<assigned, policyStatus, headSeen, syncEvents, syncHead>>

NoAnswer ==
  [operation |-> "none", outcome |-> "none", desired |-> NoRevision, requested |-> 0]

PolicySyncInit ==
  /\ assigned = [d \in Devices |-> NoRevision]
  /\ policyStatus = [p \in {PolicyOf[r] : r \in Revisions} |-> "active"]
  /\ answer = [t \in Threads |-> NoAnswer]
  /\ headSeen = [t \in Threads |-> 0]
  /\ syncEvents = [d \in Devices |-> << >>]
  /\ syncHead = [d \in Devices |-> 0]

\* Administration, as far as synchronization sees it.
Reassign(d, r) ==
  /\ assigned[d] # r
  /\ lock[<<"device", d>>] = NoThread
  /\ assigned' = [assigned EXCEPT ![d] = r]
  /\ UNCHANGED <<policyStatus, answer, headSeen, syncEvents, syncHead>>

SetLifecycle(p, lifecycle) ==
  /\ policyStatus[p] # lifecycle
  /\ policyStatus' = [policyStatus EXCEPT ![p] = lifecycle]
  /\ UNCHANGED <<assigned, answer, headSeen, syncEvents, syncHead>>
-----------------------------------------------------------------------------
\* Mutant: versions are compared without comparing the policies.
OperationByVersion(client, r) ==
  CASE client.revision = r -> "no_change"
    [] client.revision # r /\ client.version > VersionOf[r] -> "rollback"
    [] client.revision # r /\ client.version = VersionOf[r] -> "no_change"
    [] OTHER -> "apply"

\* Without an assignment the client keeps nothing; a client that sends no
\* version gets the document whenever there is one.
OperationUnassigned(client) ==
  IF \/ client.version = NoVersion
     \/ client.version = 0 /\ client.revision = NoRevision
  THEN "no_change" ELSE "clear"

OperationAssigned(client, r) ==
  CASE client.version = NoVersion -> "apply"
    [] client.revision = r -> "no_change"
    [] /\ client.revision \notin {r, NoRevision}
       /\ PolicyOf[client.revision] = PolicyOf[r]
       /\ client.version > VersionOf[r] -> "rollback"
    [] client.revision = NoRevision /\ client.version = VersionOf[r] -> "no_change"
    [] OTHER -> "apply"

\* A client that reports an identity without a version is refused.
ValidClient(client) == client.version = NoVersion => client.revision = NoRevision

\* The event is dated when the decision is made, before any lock is waited for.
Decide(t, operation, outcome, r) ==
  answer' = [answer EXCEPT ![t] =
               [operation |-> operation, outcome |-> outcome, desired |-> r,
                requested |-> now]]

\* The device and its active assignment.
ReadAssignment(t) ==
  LET d == DeviceOf(t)
      refused == Continue(t, "lock_device")
  IN
  /\ pc[t] = "handle"
  /\ request[t].kind = "sync"
  /\ \/ /\ ~ ValidClient(request[t].body)
        /\ Decide(t, "error", "invalid_request", NoRevision) /\ refused
     \/ /\ ValidClient(request[t].body)
        /\ d \notin Registered
        /\ Decide(t, "error", "device_not_found", NoRevision) /\ refused
     \/ /\ ValidClient(request[t].body)
        /\ d \in Registered
        /\ deviceStatus[d] # "active"
        /\ Decide(t, "blocked", "device_inactive", NoRevision) /\ refused
     \/ /\ ValidClient(request[t].body)
        /\ d \in Registered
        /\ deviceStatus[d] = "active"
        /\ assigned[d] = NoRevision
        /\ Decide(t, OperationUnassigned(request[t].body), "no_assignment", NoRevision)
        /\ refused
     \/ /\ ValidClient(request[t].body)
        /\ d \in Registered
        /\ deviceStatus[d] = "active"
        /\ assigned[d] # NoRevision
        /\ Decide(t, "none", "none", assigned[d])
        /\ Continue(t, "read_policy")
  /\ UNCHANGED reading

EndSync(t) ==
  /\ answer' = [answer EXCEPT ![t] = NoAnswer]
  /\ headSeen' = [headSeen EXCEPT ![t] = 0]
  /\ Finish(t)

\* The revision and its policy, a statement later.  The document is written out
\* for every operation, and the request fails, without evidence, when the
\* payload has no blocked applications to put in it.
ReadPolicy(t) ==
  LET r == answer[t].desired
      policy == policyStatus[PolicyOf[r]]
  IN
  /\ pc[t] = "read_policy"
  /\ \/ /\ policy = "active" /\ r \in Documented
        /\ Decide(t, OperationAssigned(request[t].body, r), "success", r)
        /\ Continue(t, "lock_device")
        /\ UNCHANGED headSeen
     \/ /\ policy = "active" /\ r \notin Documented
        /\ EndSync(t)
     \/ /\ policy # "active"
        /\ Decide(t, "blocked",
                  IF policy = "revoked" THEN "policy_revoked" ELSE "policy_inactive", r)
        /\ Continue(t, "lock_device")
        /\ UNCHANGED headSeen
  /\ UNCHANGED <<assigned, policyStatus, syncEvents, syncHead>>

\* The evidence: the device row, if there is one, then the advisory lock.
LockSyncDevice(t) ==
  /\ pc[t] = "lock_device"
  /\ IF DeviceOf(t) \in Registered THEN LockDeviceRow(t, "lock_chain")
                                   ELSE Continue(t, "lock_chain")
  /\ UNCHANGED synchronization

\* Mutant: neither the advisory lock nor the head row is waited for.
ReadHeadUnlocked(t) ==
  /\ pc[t] = "lock_chain"
  /\ headSeen' = [headSeen EXCEPT ![t] = syncHead[DeviceOf(t)]]
  /\ Continue(t, "store_event")
  /\ UNCHANGED <<assigned, policyStatus, answer, syncEvents, syncHead>>

LockChain(t) ==
  /\ pc[t] = "lock_chain"
  /\ LockRow(t, <<"sync_chain", DeviceOf(t)>>, "store_event")
  /\ headSeen' = [headSeen EXCEPT ![t] = syncHead[DeviceOf(t)]]
  /\ UNCHANGED <<assigned, policyStatus, answer, syncEvents, syncHead>>

\* Event and head; the primary key refuses a second first head.
StoreSyncEvent(t) ==
  LET d == DeviceOf(t)
      keyConflict == headSeen[t] = 0 /\ syncHead[d] # 0
      event == [operation |-> answer[t].operation, outcome |-> answer[t].outcome,
                reported |-> request[t].body, desired |-> answer[t].desired,
                requested |-> answer[t].requested, previous |-> headSeen[t]]
  IN
  /\ pc[t] = "store_event"
  /\ IF keyConflict
     THEN UNCHANGED <<syncEvents, syncHead>>
     ELSE /\ syncEvents' = [syncEvents EXCEPT ![d] = Append(@, event)]
          /\ syncHead' = [syncHead EXCEPT ![d] = Len(syncEvents[d]) + 1]
  /\ EndSync(t)
  /\ UNCHANGED <<assigned, policyStatus>>

SyncStep(t) ==
  ReadAssignment(t) \/ ReadPolicy(t) \/ LockSyncDevice(t) \/ LockChain(t)
    \/ StoreSyncEvent(t)
-----------------------------------------------------------------------------
\* The evidence of a device is one chain, also that of a device nobody has
\* registered, for which there is no row to lock.
SyncEvidenceLinked ==
  \A d \in Devices :
    /\ syncHead[d] = Len(syncEvents[d])
    /\ \A i \in 1 .. Len(syncEvents[d]) : syncEvents[d][i].previous = i - 1

\* The order in which backend/app/services/audit_verification.py reads events.
Before(d, i, j) ==
  LET events == syncEvents[d] IN
  \/ events[i].requested < events[j].requested
  \/ events[i].requested = events[j].requested /\ i < j

\* verify_policy_synchronization_chain: each event names the one read before
\* it, and the head is the one read last.
VerifyChain(d) ==
  LET ids == DOMAIN syncEvents[d]
      earlier(i) == {j \in ids : Before(d, j, i)}
  IN
  /\ \A i \in ids :
       IF earlier(i) = {}
       THEN syncEvents[d][i].previous = 0
       ELSE \E j \in earlier(i) :
              syncEvents[d][i].previous = j /\ \A k \in earlier(i) : ~ Before(d, j, k)
  /\ IF ids = {}
     THEN syncHead[d] = 0
     ELSE \E i \in ids : syncHead[d] = i /\ \A j \in ids : ~ Before(d, i, j)

\* The evidence that the server itself wrote passes the check an auditor runs
\* before the database is moved, in whatever order requests were served.
EvidenceVerifies == \A d \in Devices : VerifyChain(d)

\* What a client holds once it has done what it was told.
Held(event) ==
  CASE event.operation \in {"apply", "rollback"} -> event.desired
    [] event.operation = "clear" -> NoRevision
    [] OTHER -> event.reported.revision

\* A client says what it holds if it reports both identities, or holds nothing.
Identified(client) ==
  \/ client.revision # NoRevision /\ client.version = VersionOf[client.revision]
  \/ client.revision = NoRevision /\ client.version = 0

\* Doing what it is told brings a client that says what it holds to what was
\* assigned when it asked, whichever policy and version it comes from.
OperationReachesDesired ==
  \A d \in Devices : \A i \in 1 .. Len(syncEvents[d]) :
    LET event == syncEvents[d][i] IN
    /\ event.outcome \in {"success", "no_assignment"}
    /\ Identified(event.reported)
    => Held(event) = event.desired
=============================================================================
