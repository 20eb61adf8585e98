--------------------------- MODULE PolicyDelivery ---------------------------
(***************************************************************************)
(* A policy on its way from the administrator to the device: the v3 state  *)
(* route sync_v3 of routes/dpc_controls.py, the sync worker SyncWorker.kt, *)
(* the activator of module PolicyActivator, and the acknowledgement that   *)
(* device_status.py takes back.                                            *)
(*                                                                         *)
(* The server is seen from outside: the active assignment (its own races   *)
(* are PolicyAssignment's), the block override, and the reported policy    *)
(* state.  A sync fetches the desired state, has it activated and          *)
(* acknowledges it; assignments change while it is under way.              *)
(***************************************************************************)
EXTENDS PolicyActivator

CONSTANTS
  MaxChanges, \* bound: administrative changes
  MaxMishaps  \* bound: failed activations and crashes of the device

ASSUME DeliveryAssumption == MaxChanges \in Nat /\ MaxMishaps \in Nat

VARIABLES
  assigned, \* the revision of the active assignment, NoRevision if there is none
  blocked,  \* the block override is active
  reported, \* device_policy_states: the revision reported as applied
  identity, \* state of the row in table device_identity
  changes,  \* administrative changes so far
  mishaps   \* failures and crashes so far

server == <<assigned, blocked, reported>>
deliveryVars == <<vars, server, identity, changes, mishaps>>
-----------------------------------------------------------------------------
DeliveryInit ==
  /\ Init
  /\ assigned = NoRevision
  /\ blocked = FALSE
  /\ reported = NoRevision
  /\ identity = "ACTIVE"
  /\ changes = 0
  /\ mishaps = 0

\* An administrator assigns a revision or clears the assignment ...
ChangeAssignment ==
  /\ changes < MaxChanges
  /\ changes' = changes + 1
  /\ \E r \in RevisionOrNone \ {assigned} : assigned' = r
  /\ UNCHANGED <<vars, blocked, reported, identity, mishaps>>

\* ... or sets or clears the block override.
ChangeBlock ==
  /\ changes < MaxChanges
  /\ changes' = changes + 1
  /\ blocked' = ~ blocked
  /\ UNCHANGED <<vars, assigned, reported, identity, mishaps>>

\* Mutant: a revision is offered only if it is not the one in force.
OperationOfChange ==
  IF blocked THEN "blocked"
  ELSE IF assigned \notin {NoRevision, policyState.revision} THEN "apply"
  ELSE "no_change"

\* sync_v3: there is no answer but these three.
ServerOperation ==
  IF blocked THEN "blocked"
  ELSE IF assigned # NoRevision THEN "apply" ELSE "no_change"

\* The worker has work for the activator.
FetchPolicy(w) ==
  /\ identity = "ACTIVE"
  /\ ServerOperation = "apply"
  /\ \E m \in scenario.modes : Begin(w, [operation |-> "apply", revision |-> assigned, mode |-> m])
  /\ UNCHANGED <<server, identity, changes, mishaps, scenario>>

\* "no_change" and "blocked" do nothing on the device but acknowledge.
FetchNothing(w) ==
  /\ identity = "ACTIVE"
  /\ Starts(w)
  /\ ServerOperation # "apply"
  /\ order' = [order EXCEPT ![w].operation = ServerOperation]
  /\ result' = [result EXCEPT ![w] = "active"]
  /\ Goes(w, "done")
  /\ UNCHANGED <<device, active, step, refused, observer, scenario, server, identity, changes, mishaps>>

\* Any 401 or 403, a skewed clock or a failed nonce check as much as a revoked
\* credential, revokes the identity and cancels all work for good.
FetchRefused(w) ==
  /\ identity = "ACTIVE"
  /\ pc[w] = "idle"
  /\ identity' = "REVOKED"
  /\ mishaps < MaxMishaps
  /\ mishaps' = mishaps + 1
  /\ UNCHANGED <<vars, server, changes>>

\* The keys of the acknowledgement: JSONObject.put drops a null value.
AcknowledgedKeys(o) ==
  {"outcome"}
    \union (IF o.revision # NoRevision THEN {"policy_uuid", "revision_uuid"} ELSE {})
    \union (IF o.operation = "blocked" THEN {"error_code"} ELSE {})

\* validate_policy_acknowledgement wants every key, and a time in whole seconds.
ContractAccepts(o, wholeSecond) ==
  /\ AcknowledgedKeys(o) = {"outcome", "policy_uuid", "revision_uuid", "error_code"}
  /\ wholeSecond

\* Whether it is accepted or not, a sync that is due again starts anew.
Acknowledge(w) ==
  /\ result[w] = "active"
  /\ Return(w)
  /\ \E wholeSecond \in BOOLEAN :
       reported' = IF ContractAccepts(order[w], wholeSecond) THEN order[w].revision
                   ELSE reported
  /\ UNCHANGED <<assigned, blocked, identity, changes, mishaps, scenario>>

\* A quarantined activation is reported to nobody.
EndQuarantined(w) ==
  /\ result[w] = "quarantined"
  /\ Return(w)
  /\ UNCHANGED <<server, identity, changes, mishaps, scenario>>

DeviceWork(w) == Work(w) /\ UNCHANGED <<server, identity, changes, mishaps, scenario>>

Mishap ==
  /\ mishaps < MaxMishaps
  /\ mishaps' = mishaps + 1
  /\ Crash \/ \E w \in Workers : Fail(w)
  /\ UNCHANGED <<server, identity, changes>>

Sync(w) ==
  \/ FetchPolicy(w) \/ FetchNothing(w) \/ DeviceWork(w)
  \/ Acknowledge(w) \/ EndQuarantined(w)

DeliveryNext ==
  \/ ChangeAssignment \/ ChangeBlock
  \/ Mishap /\ UNCHANGED scenario
  \/ \E w \in Workers : Sync(w) \/ FetchRefused(w)
  \/ \E o \in scenario.observers :
       Observe(o) /\ UNCHANGED <<server, identity, changes, mishaps, scenario>>

\* WorkManager runs a due worker while the network is there, and again after a
\* failure or a restart.
DeliverySpec ==
  DeliveryInit /\ [][DeliveryNext]_deliveryVars
    /\ \A w \in Workers : WF_deliveryVars(Sync(w))
-----------------------------------------------------------------------------
InForce(r) ==
  /\ ActiveRevisions = {r}
  /\ policyState.revision = r
  /\ \A c \in Controls : enforced[c] = r
  /\ Blocked[r][policyState.mode] \ (Released \union UNION Range(refused)) \subseteq suspended

\* Once the assignment no longer changes, the device comes to enforce it,
\* whatever failed or died before, and whatever was assigned meanwhile.
AssignedIsEnforced ==
  \A r \in Revisions :
    <>[](assigned = r /\ ~ blocked /\ identity = "ACTIVE") => []<>InForce(r)

\* Claimed: removing a policy produces "clear".  Once the assignment is cleared
\* for good, the device ends up without an active policy.
ClearedIsLiftedOnDevice ==
  <>[](assigned = NoRevision /\ ~ blocked /\ identity = "ACTIVE")
    => <>[](ActiveRevisions = {})

\* Claimed: the device acknowledges what it applies.  Once the assignment no
\* longer changes, the server comes to know that it is applied.
AppliedIsReported ==
  \A r \in Revisions :
    <>[](assigned = r /\ ~ blocked /\ identity = "ACTIVE") => <>(reported = r)
=============================================================================
