--------------------------- MODULE PolicyCatalogue ---------------------------
(***************************************************************************)
(* Policies, their immutable revisions and the catalogue of applications:  *)
(* backend/app/services/policy_administration.py and                       *)
(* app/routes/managed_applications.py.                                     *)
(*                                                                         *)
(* Applications are read without locks while a payload is materialised,    *)
(* and a new policy looks for its code among all revisions without one; a  *)
(* further revision holds the row of its policy from the first read to the *)
(* commit.  Payloads of the first schema, which have no modes and no       *)
(* schedules, are left out.                                                *)
(***************************************************************************)
EXTENDS RequestThreads, PolicyContract, FiniteSetsExt

CONSTANTS
  Policies,     \* policies there may be
  Applications, \* rows of managed_applications
  MaxVersion,   \* bound on the revisions of a policy
  NoPolicy,     \* no row
  NoPayload     \* nothing materialised

Lifecycles == {"draft", "active", "inactive", "revoked"}

ASSUME CatalogueAssumption == NoPolicy \notin Lifecycles

VARIABLES
  policies,      \* policies[p]: its lifecycle
  revisions,     \* revisions[p]: its rows of policy_revisions
  assigned,      \* assigned[p]: versions of it that are assigned to devices
  applications,  \* applications[a]: managed_applications
  materialized,  \* materialized[t]: the payload thread t has prepared
  numbered,      \* numbered[t]: the version it is about to insert
  refusals       \* history: why writers of revisions were refused

catalogue == <<policies, revisions, assigned, applications, materialized, numbered, refusals>>

CatalogueInit(listed) ==
  /\ policies = [p \in Policies |-> NoPolicy]
  /\ revisions = [p \in Policies |-> {}]
  /\ assigned = [p \in Policies |-> {}]
  /\ applications = listed
  /\ materialized = [t \in Threads |-> NoPayload]
  /\ numbered = [t \in Threads |-> 0]
  /\ refusals = {}

PolicyRow(p) == <<"policy", p>>

ForgetPolicy(t) ==
  /\ materialized' = [materialized EXCEPT ![t] = NoPayload]
  /\ numbered' = [numbered EXCEPT ![t] = 0]

Leave(t) == Finish(t) /\ ForgetPolicy(t)

Refuse(t) == Leave(t) /\ UNCHANGED <<policies, revisions, assigned, applications, refusals>>
-----------------------------------------------------------------------------
\* _materialize_policy_payload: names become the packages of approved rows, the
\* packages of the file-sharing category are listed with the controls, and the
\* school is named as it is registered, or not at all.
Approved(a) ==
  /\ applications[a].status = "enabled"
  /\ applications[a].educational
  /\ ~ applications[a].blocked

FileSharing == {applications[a].package : a \in
                  {x \in Applications : applications[x].category = "file_sharing"}}

Materialized(p, schoolName) ==
  LET rows == {[uuid |-> c.uuid, package |-> applications[c.uuid].package,
                required |-> c.required, kiosk |-> c.kiosk] : c \in p.applications}
  IN [p EXCEPT !.applications = IF @ = NoSection THEN NoSection ELSE rows,
               !.controls = IF @ = NoSection THEN NoSection
                            ELSE [allow |-> @.allow, sharing |-> FileSharing],
               !.use = IF @ = NoSection THEN NoSection
                       ELSE [@ EXCEPT !.school = IF p.use.shown THEN schoolName
                                                 ELSE NoSection]]

Materializable(p) ==
  p.applications # NoSection => \A c \in p.applications : Approved(c.uuid)

PolicyKinds == {"policy", "revision"}

\* Materialise and validate, before anything is locked.
Materialize(t, schoolName) ==
  LET p == request[t].payload
      payload == Materialized(p, schoolName)
  IN
  /\ pc[t] = "handle"
  /\ Kind(t) \in PolicyKinds
  /\ \/ ~ (Materializable(p) /\ ValidPolicy(payload)) /\ Refuse(t)
     \/ /\ Materializable(p)
        /\ ValidPolicy(payload)
        /\ materialized' = [materialized EXCEPT ![t] = payload]
        /\ Continue(t, IF Kind(t) = "policy" THEN "check_code" ELSE "lock_policy")
        /\ UNCHANGED <<policies, revisions, assigned, applications, numbered, refusals>>

Payloads(p) == {r.payload : r \in revisions[p]}
Codes == {r.payload.code : r \in UNION {revisions[p] : p \in Policies}}

\* _ensure_policy_code_unique.
CheckCode(t) ==
  LET code == materialized[t].code IN
  /\ pc[t] = "check_code"
  /\ \/ code # NoSection /\ code \in Codes /\ Refuse(t)
     \/ /\ code = NoSection \/ code \notin Codes
        /\ Continue(t, "store_policy")
        /\ UNCHANGED catalogue

\* The draft and its first revision are committed together.
StorePolicy(t) ==
  /\ pc[t] = "store_policy"
  /\ \E p \in Policies :
       /\ policies[p] = NoPolicy
       /\ policies' = [policies EXCEPT ![p] = "draft"]
       /\ revisions' = [revisions EXCEPT ![p] =
                          {[version |-> 1, payload |-> materialized[t]]}]
  /\ Leave(t)
  /\ UNCHANGED <<assigned, applications, refusals>>
-----------------------------------------------------------------------------
\* Mutant: the policy is read, not locked.
ReadPolicy(t) ==
  /\ pc[t] = "lock_policy"
  /\ \/ policies[request[t].policy] = NoPolicy /\ Refuse(t)
     \/ /\ policies[request[t].policy] # NoPolicy
        /\ Continue(t, "check_required")
        /\ UNCHANGED catalogue

\* add_revision: SELECT ... FOR UPDATE.
LockPolicy(t) ==
  /\ pc[t] = "lock_policy"
  /\ Free(t, PolicyRow(request[t].policy))
  /\ \/ policies[request[t].policy] = NoPolicy /\ Refuse(t)
     \/ /\ policies[request[t].policy] # NoPolicy
        /\ LockRow(t, PolicyRow(request[t].policy), "check_required")
        /\ UNCHANGED catalogue

Required(payload) ==
  IF payload.applications = NoSection THEN {}
  ELSE {a.package : a \in {x \in payload.applications : x.required}}

\* _ensure_required_applications_remain.
CheckRequired(t) ==
  LET kept == \A r \in revisions[request[t].policy] :
                r.version \in assigned[request[t].policy] =>
                  Required(r.payload) \subseteq Required(materialized[t])
  IN
  /\ pc[t] = "check_required"
  /\ \/ ~ kept /\ Refuse(t)
     \/ kept /\ Continue(t, "number") /\ UNCHANGED catalogue

\* max(version) + 1.
Number(t) ==
  LET versions == {r.version : r \in revisions[request[t].policy]} IN
  /\ pc[t] = "number"
  /\ numbered' = [numbered EXCEPT ![t] = Max(versions) + 1]
  /\ Continue(t, "store_revision")
  /\ UNCHANGED <<policies, revisions, assigned, applications, materialized, refusals>>

\* The INSERT under the two unique constraints of policy_revisions.
StoreRevision(t) ==
  LET p == request[t].policy
      conflict == {why \in {"version", "content"} :
        \E r \in revisions[p] :
          \/ why = "version" /\ r.version = numbered[t]
          \/ why = "content" /\ r.payload = materialized[t]}
  IN
  /\ pc[t] = "store_revision"
  /\ \/ /\ conflict # {}
        /\ refusals' = refusals \union {conflict}
        /\ UNCHANGED revisions
     \/ /\ conflict = {}
        /\ revisions' = [revisions EXCEPT ![p] = @ \union
                           {[version |-> numbered[t], payload |-> materialized[t]]}]
        /\ UNCHANGED refusals
  /\ Leave(t)
  /\ UNCHANGED <<policies, assigned, applications>>

\* set_lifecycle: any of the three, from any state.
SetLifecycle(t) ==
  LET p == request[t].policy IN
  /\ pc[t] = "handle"
  /\ Kind(t) = "lifecycle"
  /\ Free(t, PolicyRow(p))
  /\ policies' = IF policies[p] = NoPolicy THEN policies
                 ELSE [policies EXCEPT ![p] = request[t].status]
  /\ Leave(t)
  /\ UNCHANGED <<revisions, assigned, applications, refusals>>

\* update_managed_application: a package names one row.
UpdateApplication(t) ==
  LET a == request[t].application
      taken == \E b \in Applications \ {a} : applications[b].package = request[t].row.package
  IN
  /\ pc[t] = "handle"
  /\ Kind(t) = "application"
  /\ applications' = IF taken THEN applications
                     ELSE [applications EXCEPT ![a] = request[t].row]
  /\ Leave(t)
  /\ UNCHANGED <<policies, revisions, assigned, refusals>>

\* Meanwhile a revision of an active policy is assigned or released
\* (PolicyAssignment).
Assign(p, version) ==
  /\ policies[p] = "active"
  /\ version \in {r.version : r \in revisions[p]}
  /\ assigned' = [assigned EXCEPT ![p] = IF version \in @ THEN @ \ {version}
                                         ELSE @ \union {version}]
  /\ UNCHANGED <<policies, revisions, applications, materialized, numbered, refusals>>

CatalogueStep(t, schoolName) ==
  \/ Materialize(t, schoolName) \/ CheckCode(t) \/ StorePolicy(t) \/ LockPolicy(t)
  \/ CheckRequired(t) \/ Number(t) \/ StoreRevision(t) \/ SetLifecycle(t)
  \/ UpdateApplication(t)
-----------------------------------------------------------------------------
\* Whatever was stored, from whichever catalogue it was materialised, a device
\* is in the mode its schedule means at every minute of the week, the
\* restrictions of its sections do not undo each other, and no section is one
\* on which the device gives up.
PoliciesHonoured ==
  \A p \in Policies : \A r \in revisions[p] :
    /\ ScheduleHonoured(r.payload)
    /\ SectionsHonoured(r.payload)
    /\ ReadByDevices(r.payload)

\* The revisions of a policy are numbered without a gap and differ, and the
\* author of one was refused because its content was there already, never
\* because somebody else was given its number.
RevisionsNumbered ==
  /\ \A p \in Policies :
       /\ {r.version : r \in revisions[p]} = 1 .. Cardinality(revisions[p])
       /\ Cardinality(Payloads(p)) = Cardinality(revisions[p])
  /\ \A conflict \in refusals : conflict = {"content"}
=============================================================================
