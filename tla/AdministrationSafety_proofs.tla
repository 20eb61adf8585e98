---------------------- MODULE AdministrationSafety_proofs ----------------------
(***************************************************************************)
(* Proofs about policies and accounts, over the threads of                 *)
(* Administration_proofs: CatalogueOK for the revisions of policies,       *)
(* AccountsOK for accounts and sessions, and with RegisterOK the types of  *)
(* everything.                                                             *)
(***************************************************************************)
EXTENDS Administration_proofs

Honoured(payload) ==
  ScheduleHonoured(payload) /\ SectionsHonoured(payload) /\ ReadByDevices(payload)

Versions(p) == {r.version : r \in revisions[p]}

\* The revisions of one policy.
Numbering(p) ==
  /\ policies[p] = NoPolicy <=> revisions[p] = {}
  /\ IsFiniteSet(revisions[p]) /\ IsFiniteSet(Payloads(p))
  /\ Versions(p) = 1 .. Cardinality(revisions[p])
  /\ Cardinality(Payloads(p)) = Cardinality(revisions[p])
  /\ assigned[p] \subseteq Versions(p)
  /\ \A r \in revisions[p] : Honoured(r.payload)

\* The rows, apart from the threads.
PoliciesOK ==
  /\ policies \in [Policies -> Lifecycles \union {NoPolicy}]
  /\ revisions = [p \in Policies |-> revisions[p]]
  /\ assigned = [p \in Policies |-> assigned[p]]
  /\ refusals \subseteq {{"content"}}
  /\ \A p \in Policies : Numbering(p)

\* The author of a revision holds the policy from the first read on, and the
\* number it has read is still the next.
Author(t) ==
  LET p == request[t].policy IN
  /\ pc[t] \in PolicyLabels => Honoured(materialized[t])
  /\ pc[t] \in {"check_required", "number", "store_revision"} =>
       lock[PolicyRow(p)] = t /\ policies[p] # NoPolicy
  /\ pc[t] = "store_revision" => numbered[t] = Cardinality(revisions[p]) + 1

CatalogueOK ==
  /\ PoliciesOK
  /\ materialized = [t \in Threads |-> materialized[t]]
  /\ numbered \in [Threads -> Nat]
  /\ \A t \in Threads : Author(t)

LEMMA PoliciesUntouched ==
  ASSUME PoliciesOK, UNCHANGED policies, UNCHANGED revisions, UNCHANGED assigned,
         refusals' \subseteq {{"content"}}
  PROVE  PoliciesOK'
<1>1. \A p \in Policies : Numbering(p)'
  BY DEF PoliciesOK, Numbering, Versions, Payloads, Honoured, ScheduleHonoured,
         SectionsHonoured, ReadByDevices
<1> QED BY <1>1 DEF PoliciesOK


\* A revision that is not there yet, under the next number.
LEMMA Numbered ==
  ASSUME PoliciesOK, NEW p \in Policies, NEW payload, Honoured(payload),
         payload \notin Payloads(p),
         revisions' = [revisions EXCEPT ![p] = @ \union
                         {[version |-> Cardinality(revisions[p]) + 1, payload |-> payload]}],
         policies' \in [Policies -> Lifecycles \union {NoPolicy}],
         policies'[p] # NoPolicy,
         \A q \in Policies \ {p} : policies'[q] = policies[q],
         UNCHANGED assigned, UNCHANGED refusals
  PROVE  PoliciesOK'
<1> DEFINE n == Cardinality(revisions[p])
           row == [version |-> n + 1, payload |-> payload]
<1>1. /\ IsFiniteSet(revisions[p]) /\ IsFiniteSet(Payloads(p))
      /\ Versions(p) = 1 .. n /\ Cardinality(Payloads(p)) = n
      /\ assigned[p] \subseteq Versions(p)
      /\ \A r \in revisions[p] : Honoured(r.payload)
  BY DEF PoliciesOK, Numbering
<1>2. n \in Nat
  BY <1>1, FS_CardinalityType
<1>3. row \notin revisions[p] /\ row.version = n + 1 /\ row.payload = payload
  BY DEF Payloads
<1> HIDE DEF row
<1>4. revisions = [q \in Policies |-> revisions[q]]
  BY DEF PoliciesOK
<1>5. /\ revisions'[p] = revisions[p] \union {row}
      /\ \A q \in Policies \ {p} : revisions'[q] = revisions[q]
      /\ revisions' = [q \in Policies |-> revisions'[q]]
  BY <1>4 DEF row
<1>6. IsFiniteSet(revisions'[p]) /\ Cardinality(revisions'[p]) = n + 1
  BY <1>1, <1>3, <1>5, FS_AddElement
<1>7. Payloads(p)' = Payloads(p) \union {payload}
  BY <1>3, <1>5 DEF Payloads
<1>8. IsFiniteSet(Payloads(p)') /\ Cardinality(Payloads(p)') = n + 1
  BY <1>1, <1>7, FS_AddElement
<1>9. Versions(p)' = Versions(p) \union {n + 1}
  BY <1>3, <1>5 DEF Versions
<1>10. Versions(p)' = 1 .. n + 1 /\ assigned'[p] \subseteq Versions(p)'
  BY <1>1, <1>2, <1>9
<1>11. \A r \in revisions'[p] : Honoured(r.payload)
  BY <1>1, <1>3, <1>5
<1>12. Numbering(p)'
  BY <1>3, <1>5, <1>6, <1>8, <1>10, <1>11
     DEF Numbering, Honoured, ScheduleHonoured, SectionsHonoured, ReadByDevices
<1>13. ASSUME NEW q \in Policies \ {p}
       PROVE  Numbering(q)'
  BY <1>5 DEF PoliciesOK, Numbering, Versions, Payloads, Honoured, ScheduleHonoured,
              SectionsHonoured, ReadByDevices
<1> QED BY <1>5, <1>12, <1>13 DEF PoliciesOK

\* What a step of thread t leaves to the authors.
PoliciesLeft(t) ==
  \A p \in Policies :
    /\ policies[p] # NoPolicy => policies'[p] # NoPolicy
    /\ \A u \in Threads \ {t} :
         policies[p] # NoPolicy /\ lock[PolicyRow(p)] = u => revisions'[p] = revisions[p]

LEMMA PolicyRows ==
  ASSUME ThreadsOK, CatalogueOK, NEW t \in Threads, NEW name, CatalogueStep(t, name)
  PROVE  PoliciesOK' /\ PoliciesLeft(t)
<1> DEFINE p == request[t].policy
<1>1. PoliciesOK /\ Author(t)
  BY DEF CatalogueOK
<1>2. pc[t] # "idle" => Fits(request[t], pc[t])
  BY DEF ThreadsOK
<1>3. ASSUME UNCHANGED policies, UNCHANGED revisions, UNCHANGED assigned,
             refusals' \subseteq {{"content"}}
      PROVE  PoliciesOK' /\ PoliciesLeft(t)
  BY <1>1, <1>3, PoliciesUntouched DEF PoliciesLeft
<1>4. refusals \subseteq {{"content"}}
  BY <1>1 DEF PoliciesOK
<1>5. ASSUME Refuse(t) \/ UNCHANGED catalogue
      PROVE  PoliciesOK' /\ PoliciesLeft(t)
  BY <1>3, <1>4, <1>5 DEF Refuse, catalogue
<1>6. CASE Materialize(t, name)
  BY <1>3, <1>4, <1>5, <1>6 DEF Materialize
<1>7. CASE CheckCode(t)
  BY <1>5, <1>7 DEF CheckCode
<1>8. CASE StorePolicy(t)
  <2>1. PICK c \in Policies :
          /\ policies[c] = NoPolicy
          /\ policies' = [policies EXCEPT ![c] = "draft"]
          /\ revisions' = [revisions EXCEPT ![c] =
                             {[version |-> 1, payload |-> materialized[t]]}]
    BY <1>8 DEF StorePolicy
  <2>2. revisions[c] = {} /\ Payloads(c) = {} /\ Cardinality(revisions[c]) = 0
    BY <1>1, <2>1, FS_EmptySet DEF PoliciesOK, Numbering, Payloads
  <2>3. revisions' = [revisions EXCEPT ![c] = @ \union
                        {[version |-> Cardinality(revisions[c]) + 1, payload |-> materialized[t]]}]
    <3> DEFINE row == [version |-> 1, payload |-> materialized[t]]
    <3>1. [version |-> Cardinality(revisions[c]) + 1, payload |-> materialized[t]] = row
      BY <2>2
    <3> HIDE DEF row
    <3>2. revisions[c] \union {row} = {row}
      BY <2>2
    <3> QED BY <2>1, <3>1, <3>2 DEF row
  <2>4. Honoured(materialized[t])
    BY <1>1, <1>8 DEF Author, StorePolicy, PolicyLabels
  <2>5. "draft" \in Lifecycles /\ "draft" # NoPolicy
    BY CatalogueAssumption DEF Lifecycles
  <2>6. /\ policies' \in [Policies -> Lifecycles \union {NoPolicy}]
        /\ policies'[c] # NoPolicy
        /\ \A d \in Policies \ {c} : policies'[d] = policies[d]
    BY <1>1, <2>1, <2>5 DEF PoliciesOK
  <2>7. PoliciesOK'
    BY <1>1, <1>8, <2>2, <2>3, <2>4, <2>6, Numbered DEF StorePolicy
  <2>8. PoliciesLeft(t)
    BY <1>1, <2>1, <2>6 DEF PoliciesLeft, PoliciesOK
  <2> QED BY <2>7, <2>8
<1>9. CASE LockPolicy(t)
  BY <1>5, <1>9 DEF LockPolicy
<1>10. CASE CheckRequired(t)
  BY <1>5, <1>10 DEF CheckRequired
<1>11. CASE Number(t)
  BY <1>3, <1>4, <1>11 DEF Number
<1>12. CASE StoreRevision(t)
  <2>1. pc[t] = "store_revision" /\ Kind(t) = "revision"
    BY <1>2, <1>12 DEF StoreRevision, Fits, Kind
  <2>2. p \in Policies
    BY <2>1, Parsed
  <2>3. /\ Honoured(materialized[t]) /\ lock[PolicyRow(p)] = t /\ policies[p] # NoPolicy
        /\ numbered[t] = Cardinality(revisions[p]) + 1
    BY <1>1, <2>1 DEF Author, PolicyLabels
  <2>4. Cardinality(revisions[p]) \in Nat /\ Versions(p) = 1 .. Cardinality(revisions[p])
    BY <1>1, <2>2, FS_CardinalityType DEF PoliciesOK, Numbering
  <2>5. \A r \in revisions[p] : r.version # numbered[t]
    BY <2>3, <2>4 DEF Versions
  <2> DEFINE conflict == {why \in {"version", "content"} :
               \E r \in revisions[p] :
                 \/ why = "version" /\ r.version = numbered[t]
                 \/ why = "content" /\ r.payload = materialized[t]}
  <2>6. conflict \in {{}, {"content"}}
    BY <2>5
  <2>7. CASE materialized[t] \in Payloads(p)
    <3>1. conflict = {"content"}
      BY <2>6, <2>7 DEF Payloads
    <3> HIDE DEF conflict
    <3>2. UNCHANGED revisions /\ refusals' = refusals \union {conflict}
          /\ UNCHANGED policies /\ UNCHANGED assigned
      BY <1>12, <3>1 DEF StoreRevision, conflict
    <3> QED BY <1>3, <1>4, <3>1, <3>2
  <2>8. CASE materialized[t] \notin Payloads(p)
    <3>1. conflict = {}
      BY <2>6, <2>8 DEF Payloads
    <3> HIDE DEF conflict
    <3>2. /\ UNCHANGED refusals /\ UNCHANGED policies /\ UNCHANGED assigned
          /\ revisions' = [revisions EXCEPT ![p] = @ \union
                             {[version |-> numbered[t], payload |-> materialized[t]]}]
      BY <1>12, <3>1 DEF StoreRevision, conflict
    <3>3. policies' \in [Policies -> Lifecycles \union {NoPolicy}]
      BY <1>1, <3>2 DEF PoliciesOK
    <3>4. PoliciesOK'
      BY <1>1, <2>2, <2>3, <2>8, <3>2, <3>3, Numbered
    <3>5. \A c \in Policies \ {p} : revisions'[c] = revisions[c]
      BY <1>1, <3>2 DEF PoliciesOK
    <3>6. \A u \in Threads \ {t} : lock[PolicyRow(p)] # u
      BY <2>3
    <3> QED BY <3>2, <3>4, <3>5, <3>6 DEF PoliciesLeft
  <2> QED BY <2>7, <2>8
<1>13. CASE SetLifecycle(t)
  <2>1. pc[t] # "idle" /\ Kind(t) = "lifecycle"
    BY <1>13 DEF SetLifecycle
  <2>2. p \in Policies /\ request[t].status \in Lifecycles /\ request[t].status # NoPolicy
    BY <2>1, Parsed, CatalogueAssumption
  <2>3. /\ policies' \in [Policies -> Lifecycles \union {NoPolicy}]
        /\ \A c \in Policies : policies'[c] = NoPolicy <=> policies[c] = NoPolicy
        /\ UNCHANGED revisions /\ UNCHANGED assigned /\ UNCHANGED refusals
    BY <1>1, <1>13, <2>2 DEF SetLifecycle, PoliciesOK
  <2>4. \A c \in Policies : Numbering(c)'
    BY <1>1, <2>3 DEF PoliciesOK, Numbering, Versions, Payloads, Honoured, ScheduleHonoured,
       SectionsHonoured, ReadByDevices
  <2>5. PoliciesOK'
    BY <1>1, <2>3, <2>4 DEF PoliciesOK
  <2> QED BY <2>3, <2>5 DEF PoliciesLeft
<1>14. CASE UpdateApplication(t)
  BY <1>3, <1>4, <1>14 DEF UpdateApplication
<1> QED
  BY <1>6, <1>7, <1>8, <1>9, <1>10, <1>11, <1>12, <1>13, <1>14 DEF CatalogueStep


\* The author a step of another thread leaves alone.
LEMMA AuthorLeft ==
  ASSUME ThreadsOK, NEW t \in Threads, NEW u \in Threads \ {t}, Others(t), Author(u),
         PoliciesLeft(t), materialized'[u] = materialized[u], numbered'[u] = numbered[u]
  PROVE  Author(u)'
<1>1. pc'[u] = pc[u] /\ request'[u] = request[u]
  BY DEF Others
<1>2. Honoured(materialized'[u]) <=> Honoured(materialized[u])
  BY DEF Honoured, ScheduleHonoured, SectionsHonoured, ReadByDevices
<1>3. Honoured(materialized[u])' <=> Honoured(materialized'[u])
  BY DEF Honoured, ScheduleHonoured, SectionsHonoured, ReadByDevices
<1>4. CASE pc[u] \notin {"check_required", "number", "store_revision"}
  BY <1>1, <1>2, <1>3, <1>4 DEF Author
<1>5. CASE pc[u] \in {"check_required", "number", "store_revision"}
  <2>1. request[u].policy \in Policies
    BY <1>5, Parsed DEF Fits, Kind
  <2>2. lock'[PolicyRow(request[u].policy)] = u
    BY <1>5, <2>1, RowsLockable DEF Author, Others
  <2>3. /\ policies'[request[u].policy] # NoPolicy
        /\ revisions'[request[u].policy] = revisions[request[u].policy]
    BY <1>5, <2>1 DEF Author, PoliciesLeft
  <2> QED BY <1>1, <1>2, <1>3, <1>5, <2>2, <2>3 DEF Author, PolicyRow
<1> QED BY <1>4, <1>5

\* What thread t has prepared, after a step of its own.
LEMMA AuthorKept ==
  ASSUME ThreadsOK, CatalogueOK, NEW t \in Threads, NEW name, CatalogueStep(t, name)
  PROVE  /\ Author(t)'
         /\ materialized' = [u \in Threads |-> materialized'[u]]
         /\ numbered' \in [Threads -> Nat]
         /\ \A u \in Threads \ {t} : materialized'[u] = materialized[u] /\ numbered'[u] = numbered[u]
<1> DEFINE p == request[t].policy
           Kept == /\ materialized' = [u \in Threads |-> materialized'[u]]
                   /\ numbered' \in [Threads -> Nat]
                   /\ \A u \in Threads \ {t} :
                        materialized'[u] = materialized[u] /\ numbered'[u] = numbered[u]
<1>1. /\ Author(t) /\ PoliciesOK /\ numbered \in [Threads -> Nat]
      /\ materialized = [u \in Threads |-> materialized[u]]
  BY DEF CatalogueOK
<1>2. pc[t] # "idle" => Fits(request[t], pc[t])
  BY DEF ThreadsOK
<1>3. pc \in [Threads -> Labels] /\ request \in [Threads -> workload.requests \union {NoRequest}]
  BY DEF ThreadsOK
<1>4. ASSUME Leave(t)
      PROVE  Author(t)' /\ Kept
  <2>1. pc'[t] = "idle" /\ "idle" \notin PolicyLabels
    BY <1>3, <1>4 DEF Leave, Finish, PolicyLabels
  <2>2. Author(t)'
    BY <2>1 DEF Author
  <2> QED BY <1>1, <1>4, <2>2 DEF Leave, ForgetPolicy
<1>5. ASSUME Refuse(t)
      PROVE  Author(t)' /\ Kept
  BY <1>4, <1>5 DEF Refuse
<1>6. ASSUME UNCHANGED materialized, UNCHANGED numbered
      PROVE  Kept /\ Honoured(materialized[t])' = Honoured(materialized[t])
  BY <1>1, <1>6 DEF Honoured, ScheduleHonoured, SectionsHonoured, ReadByDevices
<1>7. CASE Materialize(t, name) /\ ~ Refuse(t)
  <2> DEFINE payload == request[t].payload
             label == IF Kind(t) = "policy" THEN "check_code" ELSE "lock_policy"
  <2>1. /\ pc[t] = "handle" /\ Kind(t) \in PolicyKinds
        /\ ValidPolicy(Materialized(payload, name))
        /\ materialized' = [materialized EXCEPT ![t] = Materialized(payload, name)]
        /\ Continue(t, label) /\ UNCHANGED numbered
    BY <1>7 DEF Materialize
  <2>2. \A s \in payload.schedules : s.priority \in Nat
    BY <2>1, Parsed
  <2>3. Materialized(payload, name).schedules = payload.schedules
    BY <2>1, Parsed DEF Materialized
  <2>4. Honoured(Materialized(payload, name))
    <3> DEFINE m == Materialized(payload, name)
    <3>1. \A s \in m.schedules : s.priority \in Int
      BY <2>2, <2>3
    <3> HIDE DEF m
    <3>2. ValidPolicy(m)
      BY <2>1 DEF m
    <3>3. Honoured(m)
      BY <3>1, <3>2, SchedulesAreHonoured, SectionsAreHonoured, AcceptedIsRead DEF Honoured
    <3> QED BY <3>3 DEF m
  <2>5. materialized'[t] = Materialized(payload, name) /\ Kept
    BY <1>1, <2>1
  <2>6. Honoured(materialized[t])'
    BY <2>4, <2>5 DEF Honoured, ScheduleHonoured, SectionsHonoured, ReadByDevices
  <2>7. pc'[t] \in {"check_code", "lock_policy"}
    BY <1>3, <2>1 DEF Continue, Goto
  <2> QED BY <2>5, <2>6, <2>7 DEF Author
<1>8. CASE CheckCode(t) /\ ~ Refuse(t)
  <2>1. pc'[t] = "store_policy" /\ UNCHANGED materialized /\ UNCHANGED numbered
    BY <1>3, <1>8 DEF CheckCode, Continue, Goto, catalogue
  <2>2. Honoured(materialized[t])
    BY <1>1, <1>8 DEF Author, CheckCode, PolicyLabels
  <2> QED BY <1>6, <2>1, <2>2 DEF Author
<1>9. CASE LockPolicy(t) /\ ~ Refuse(t)
  <2>1. /\ pc[t] = "lock_policy" /\ policies[p] # NoPolicy
        /\ LockRow(t, PolicyRow(p), "check_required")
        /\ UNCHANGED policies /\ UNCHANGED materialized /\ UNCHANGED numbered
    BY <1>9 DEF LockPolicy, catalogue
  <2>2. p \in Policies /\ PolicyRow(p) \in Rows
    BY <1>2, <2>1, Parsed, RowsLockable DEF Fits, Kind
  <2>3. lock'[PolicyRow(p)] = t /\ pc'[t] = "check_required" /\ request'[t] = request[t]
    BY <2>1, <2>2, Held
  <2>4. Honoured(materialized[t])
    BY <1>1, <2>1 DEF Author, PolicyLabels
  <2> QED BY <1>6, <2>1, <2>3, <2>4 DEF Author, PolicyRow
<1>10. CASE CheckRequired(t) /\ ~ Refuse(t)
  <2>1. /\ pc[t] = "check_required" /\ pc'[t] = "number" /\ UNCHANGED request /\ UNCHANGED lock
        /\ UNCHANGED policies /\ UNCHANGED materialized /\ UNCHANGED numbered
    BY <1>3, <1>10 DEF CheckRequired, Continue, Goto, catalogue
  <2>2. Honoured(materialized[t]) /\ lock[PolicyRow(p)] = t /\ policies[p] # NoPolicy
    BY <1>1, <2>1 DEF Author, PolicyLabels
  <2> QED BY <1>6, <2>1, <2>2 DEF Author, PolicyRow
<1>11. CASE Number(t)
  <2> DEFINE n == Cardinality(revisions[p])
             versions == {r.version : r \in revisions[p]}
  <2>1. /\ pc[t] = "number" /\ pc'[t] = "store_revision" /\ UNCHANGED request /\ UNCHANGED lock
        /\ UNCHANGED policies /\ UNCHANGED revisions /\ UNCHANGED materialized
        /\ numbered' = [numbered EXCEPT ![t] = Max(versions) + 1]
    BY <1>3, <1>11 DEF Number, Continue, Goto
  <2>2. p \in Policies
    BY <1>2, <2>1, Parsed DEF Fits, Kind
  <2>3. Honoured(materialized[t]) /\ lock[PolicyRow(p)] = t /\ policies[p] # NoPolicy
    BY <1>1, <2>1 DEF Author, PolicyLabels
  <2>4. n \in Nat /\ n # 0 /\ versions = 1 .. n
    <3>1. IsFiniteSet(revisions[p]) /\ revisions[p] # {} /\ versions = 1 .. n
      BY <1>1, <2>2, <2>3 DEF PoliciesOK, Numbering, Versions
    <3> QED BY <3>1, FS_CardinalityType, FS_EmptySet
  <2> HIDE DEF versions
  <2>5. Max(versions) = n
    <3>1. n \in versions /\ \A y \in versions : n >= y
      BY <2>4
    <3>2. \A x \in versions : (\A y \in versions : x >= y) => x = n
      BY <2>4
    <3> QED BY <3>1, <3>2 DEF Max
  <2>6. numbered'[t] = n + 1 /\ numbered' \in [Threads -> Nat]
        /\ \A u \in Threads \ {t} : numbered'[u] = numbered[u]
    BY <1>1, <2>1, <2>4, <2>5
  <2>7. Honoured(materialized[t])'
    BY <2>1, <2>3 DEF Honoured, ScheduleHonoured, SectionsHonoured, ReadByDevices
  <2> QED BY <1>1, <2>1, <2>3, <2>6, <2>7 DEF Author, PolicyRow
<1>12. CASE StorePolicy(t) \/ StoreRevision(t) \/ SetLifecycle(t) \/ UpdateApplication(t)
            \/ Refuse(t)
  BY <1>4, <1>12 DEF StorePolicy, StoreRevision, SetLifecycle, UpdateApplication, Refuse
<1>13. Author(t)' /\ Kept
  BY <1>7, <1>8, <1>9, <1>10, <1>11, <1>12 DEF CatalogueStep
<1> QED BY <1>13

\* Steps of other parts, and the end of a request.
LEMMA CatalogueQuiet ==
  ASSUME ThreadsOK, CatalogueOK, NEW t \in Threads, Others(t), pc'[t] \notin PolicyLabels,
         UNCHANGED policies, UNCHANGED revisions, UNCHANGED assigned, UNCHANGED refusals,
         materialized' \in {materialized, [materialized EXCEPT ![t] = NoPayload]},
         numbered' \in {numbered, [numbered EXCEPT ![t] = 0]}
  PROVE  CatalogueOK'
<1>1. PoliciesOK' /\ PoliciesLeft(t)
  BY PoliciesUntouched DEF CatalogueOK, PoliciesOK, PoliciesLeft
<1>2. Author(t)'
  BY DEF Author, PolicyLabels
<1>3. /\ materialized' = [u \in Threads |-> materialized'[u]]
      /\ numbered' \in [Threads -> Nat]
      /\ \A u \in Threads \ {t} : materialized'[u] = materialized[u] /\ numbered'[u] = numbered[u]
  BY DEF CatalogueOK
<1>4. \A u \in Threads \ {t} : Author(u)'
  BY <1>1, <1>3, AuthorLeft DEF CatalogueOK
<1> QED BY <1>1, <1>2, <1>3, <1>4 DEF CatalogueOK


LEMMA CatalogueKept ==
  ASSUME ThreadsOK, CatalogueOK, [Next]_vars
  PROVE  CatalogueOK'
<1>1. ASSUME NEW t \in Threads, NEW name, CatalogueStep(t, name), Others(t)
      PROVE  CatalogueOK'
  <2>1. PoliciesOK' /\ PoliciesLeft(t)
    BY <1>1, PolicyRows
  <2>2. /\ Author(t)'
        /\ materialized' = [u \in Threads |-> materialized'[u]]
        /\ numbered' \in [Threads -> Nat]
        /\ \A u \in Threads \ {t} :
             materialized'[u] = materialized[u] /\ numbered'[u] = numbered[u]
    BY <1>1, AuthorKept
  <2>3. \A u \in Threads \ {t} : Author(u)'
    BY <1>1, <2>1, <2>2, AuthorLeft DEF CatalogueOK
  <2> QED BY <2>1, <2>2, <2>3 DEF CatalogueOK
<1>2. ASSUME NEW t \in Threads, Others(t), pc'[t] \notin PolicyLabels, UNCHANGED catalogue
      PROVE  CatalogueOK'
  BY <1>2, CatalogueQuiet DEF catalogue
<1>3. ASSUME NEW t \in Threads, ThreadStep(t)
      PROVE  CatalogueOK'
  <2>1. CASE AdministratorStep(t)
    BY <1>2, <2>1, AccountServed, ServedKept
       DEF AdministratorStep, Parts, AccountLabels, PolicyLabels
  <2>2. CASE PolicyStep(t)
    BY <1>1, <2>2, PolicyServed, ServedKept DEF PolicyStep, Parts
  <2>3. CASE DeviceStep(t)
    BY <1>2, <2>3, DeviceServed, ServedKept DEF DeviceStep, Parts, DeviceLabels, PolicyLabels
  <2> QED BY <1>3, <2>1, <2>2, <2>3 DEF ThreadStep
<1>4. ASSUME NEW t \in Threads, Receive(t)
      PROVE  CatalogueOK'
  BY <1>2, <1>4, Received DEF PolicyLabels
<1>5. ASSUME NEW t \in Threads, Abort(t)
      PROVE  CatalogueOK'
  <2>1. "idle" \notin PolicyLabels
    BY DEF PolicyLabels
  <2> QED BY <1>5, <2>1, Aborted, CatalogueQuiet DEF Abort, ForgetPolicy
<1>6. ASSUME UNCHANGED pc, UNCHANGED request, UNCHANGED lock, UNCHANGED policies,
             UNCHANGED revisions, UNCHANGED materialized, UNCHANGED numbered, PoliciesOK'
      PROVE  CatalogueOK'
  <2>1. \A t \in Threads : Author(t)'
    BY <1>6 DEF CatalogueOK, Author, PolicyRow, Honoured, ScheduleHonoured,
       SectionsHonoured, ReadByDevices
  <2> QED BY <1>6, <2>1 DEF CatalogueOK
<1>7. ASSUME UNCHANGED threads, UNCHANGED catalogue
      PROVE  CatalogueOK'
  BY <1>6, <1>7, PoliciesUntouched DEF threads, catalogue, CatalogueOK, PoliciesOK
<1>8. ASSUME NEW p \in Policies, NEW v, Assign(p, v), UNCHANGED threads
      PROVE  CatalogueOK'
  <2>1. /\ UNCHANGED policies /\ UNCHANGED revisions /\ UNCHANGED refusals
        /\ v \in Versions(p)
        /\ assigned' = [assigned EXCEPT ![p] = IF v \in @ THEN @ \ {v} ELSE @ \union {v}]
    BY <1>8 DEF Assign, Versions
  <2>2. PoliciesOK /\ assigned[p] \subseteq Versions(p)
    BY DEF CatalogueOK, PoliciesOK, Numbering
  <2>3. /\ assigned'[p] \subseteq Versions(p)
        /\ \A q \in Policies \ {p} : assigned'[q] = assigned[q]
        /\ assigned' = [q \in Policies |-> assigned'[q]]
    BY <2>1, <2>2 DEF PoliciesOK
  <2>4. \A q \in Policies : Numbering(q)'
    BY <2>1, <2>2, <2>3 DEF PoliciesOK, Numbering, Versions, Payloads, Honoured,
       ScheduleHonoured, SectionsHonoured, ReadByDevices
  <2>5. PoliciesOK'
    BY <2>1, <2>2, <2>3, <2>4 DEF PoliciesOK
  <2> QED BY <1>6, <1>8, <2>1, <2>5 DEF threads, Assign
<1>9. CASE Environment /\ UNCHANGED <<threads, workload>>
  BY <1>7, <1>8, <1>9 DEF Environment
<1> QED BY <1>3, <1>4, <1>5, <1>7, <1>9 DEF Next, vars

LEMMA CatalogueStart == Init => CatalogueOK
<1> SUFFICES ASSUME Init PROVE CatalogueOK
  OBVIOUS
<1>1. /\ policies = [p \in Policies |-> NoPolicy]
      /\ revisions = [p \in Policies |-> {}]
      /\ assigned = [p \in Policies |-> {}]
      /\ materialized = [t \in Threads |-> NoPayload]
      /\ numbered = [t \in Threads |-> 0]
      /\ refusals = {}
      /\ \A t \in Threads : pc[t] = "idle"
  BY DEF Init, CatalogueInit, ThreadsInit
<1>2. ASSUME NEW p \in Policies
      PROVE  Numbering(p)
  <2>1. Versions(p) = {} /\ Payloads(p) = {} /\ revisions[p] = {}
    BY <1>1 DEF Versions, Payloads
  <2>2. 1 .. 0 = {}
    OBVIOUS
  <2> QED BY <1>1, <2>1, <2>2, FS_EmptySet DEF Numbering
<1>3. PoliciesOK
  BY <1>1, <1>2 DEF PoliciesOK
<1>4. \A t \in Threads : Author(t)
  BY <1>1 DEF Author, PolicyLabels
<1> QED BY <1>1, <1>3, <1>4 DEF CatalogueOK

LEMMA CatalogueAlways == Spec => [](ThreadsOK /\ CatalogueOK)
<1>1. Init => ThreadsOK /\ CatalogueOK
  BY ThreadsStart, CatalogueStart
<1>2. ThreadsOK /\ CatalogueOK /\ [Next]_vars => (ThreadsOK /\ CatalogueOK)'
  BY ThreadsKept, CatalogueKept
<1> QED BY <1>1, <1>2, PTL DEF Spec

\* The revisions of a policy are numbered without a gap and differ, and no
\* author loses a number to another: add_revision holds the policy from before
\* it reads the last version until the commit.
THEOREM RevisionsAreNumbered == Spec => []RevisionsNumbered
<1>1. CatalogueOK => RevisionsNumbered
  BY DEF CatalogueOK, PoliciesOK, Numbering, Versions, RevisionsNumbered
<1> QED BY <1>1, CatalogueAlways, PTL

\* Whatever catalogue a payload was materialised from, a device does what the
\* stored revision says: what create_policy and add_revision store has passed
\* validate_policy_v3.
THEOREM PoliciesAreHonoured == Spec => []PoliciesHonoured
<1>1. CatalogueOK => PoliciesHonoured
  BY DEF CatalogueOK, PoliciesOK, Numbering, Honoured, PoliciesHonoured
<1> QED BY <1>1, CatalogueAlways, PTL


-----------------------------------------------------------------------------
(* Accounts and sessions *)

\* An account as the database lets it be, whether its lock has run out or not.
Lawful(row) == LifecycleCheck([row EXCEPT !.locked = IF @ = "elapsed" THEN "running" ELSE @])

\* The rows, apart from the threads.
AccessOK ==
  /\ account \in [Administrators -> AccountRows \union {NoAccount}]
  /\ \A a \in Administrators : account[a] # NoAccount => Lawful(account[a])
  /\ grants \in [Administrators -> SUBSET GrantRows]
  /\ sessions \in [Sessions -> SessionRows \union {NoSession}]
  /\ \A s \in Sessions :
       sessions[s] # NoSession => account[sessions[s].administrator] # NoAccount
  /\ \A q \in workload.requests : q.session # NoSession =>
       q.session \in Sessions /\ sessions[q.session] # NoSession
  /\ wrong \in [Administrators -> Nat]
  /\ \A a \in Administrators : account[a] = NoAccount => wrong[a] = 0
  /\ OpenSessionsCurrent
  /\ FailuresCounted

Views ==
  [operator : AccountRows \union {NoAccount}, session : Sessions \union {NoSession},
   target : AccountRows \union {NoAccount}, grants : SUBSET GrantRows,
   sessions : SUBSET Sessions]

\* Who changes an account holds its row from the UPDATE on, and has read every
\* session that was open then.
Changing(t) ==
  /\ pc[t] \in {"count", "update", "sessions", "commit", "replace"} =>
       account[Target(t)] # NoAccount
  /\ written[t] # NoAccount =>
       /\ pc[t] \in {"sessions", "commit"} /\ Kind(t) \in {"disable", "reset"}
       /\ lock[AccountRow(Target(t))] = t
       /\ LifecycleCheck(written[t])
       /\ Kind(t) = "disable" => written[t].status = "disabled"
  /\ pc[t] = "commit" =>
       /\ \A s \in seen[t].sessions : sessions[s] # NoSession
       /\ written[t] # NoAccount => OpenSessions(Target(t)) \subseteq seen[t].sessions

AccountsOK ==
  /\ AccessOK
  /\ seen \in [Threads -> Views]
  /\ written \in [Threads -> AccountRows \union {NoAccount}]
  /\ \A t \in Threads : Changing(t)

\* A session keeps its owner and password and is not opened again.
Ended(row, later) ==
  /\ later # NoSession
  /\ later.administrator = row.administrator /\ later.password = row.password
  /\ later.state = "open" => row.state = "open"

\* An account is entered or changed, with sessions that agree with it.
LEMMA AccountChanges ==
  ASSUME AccessOK, UNCHANGED workload, NEW a \in Administrators, NEW row \in AccountRows,
         Lawful(row), account' = [account EXCEPT ![a] = row],
         grants' \in [Administrators -> SUBSET GrantRows],
         sessions' \in [Sessions -> SessionRows \union {NoSession}],
         \A s \in Sessions : sessions[s] # NoSession => Ended(sessions[s], sessions'[s]),
         \A s \in Sessions : sessions[s] = NoSession /\ sessions'[s] # NoSession =>
           sessions'[s].administrator = a,
         \A s \in Sessions :
           sessions'[s] # NoSession /\ sessions'[s].state = "open"
             /\ sessions'[s].administrator = a =>
               row.status # "disabled" /\ row.password = sessions'[s].password,
         wrong' \in [Administrators -> Nat],
         \A b \in Administrators \ {a} : wrong'[b] \in {0, wrong[b]},
         row.status = "active" => wrong'[a] <= row.failed
  PROVE  AccessOK'
<1> USE DEF AccessOK
<1>1. row # NoAccount
  BY AccountMarksAssumption
<1>2. /\ account'[a] = row
      /\ \A b \in Administrators \ {a} : account'[b] = account[b]
      /\ account' \in [Administrators -> AccountRows \union {NoAccount}]
  OBVIOUS
<1>3. \A b \in Administrators : account'[b] # NoAccount => Lawful(account'[b])
  BY <1>2
<1>4. (\A b \in Administrators : account[b] # NoAccount => Lawful(account[b]))'
  BY <1>3 DEF Lawful, LifecycleCheck
<1>5. ASSUME NEW s \in Sessions, sessions'[s] # NoSession
      PROVE  account'[sessions'[s].administrator] # NoAccount
  <2>1. CASE sessions[s] = NoSession
    BY <1>1, <1>2, <1>5, <2>1
  <2>2. CASE sessions[s] # NoSession
    <3>1. /\ sessions'[s].administrator = sessions[s].administrator
          /\ account[sessions[s].administrator] # NoAccount
          /\ sessions[s].administrator \in Administrators
      BY <2>2 DEF Ended, SessionRows
    <3> QED BY <1>1, <1>2, <3>1
  <2> QED BY <2>1, <2>2
<1>6. \A q \in workload.requests : q.session # NoSession =>
        q.session \in Sessions /\ sessions'[q.session] # NoSession
  BY DEF Ended
<1>7. \A b \in Administrators : account'[b] = NoAccount => wrong'[b] = 0
  BY <1>1, <1>2
<1>8. OpenSessionsCurrent'
  <2> SUFFICES ASSUME NEW s \in Sessions, sessions'[s] # NoSession, sessions'[s].state = "open"
               PROVE  /\ account'[sessions'[s].administrator].status # "disabled"
                      /\ account'[sessions'[s].administrator].password = sessions'[s].password
    BY DEF OpenSessionsCurrent
  <2>1. CASE sessions'[s].administrator = a
    BY <1>2, <2>1
  <2>2. CASE sessions'[s].administrator # a
    <3>1. sessions[s] # NoSession /\ Ended(sessions[s], sessions'[s])
      BY <2>2
    <3>2. sessions[s].administrator \in Administrators \ {a} /\ sessions[s].state = "open"
      BY <2>2, <3>1 DEF Ended, SessionRows
    <3> QED BY <1>2, <3>1, <3>2 DEF Ended, OpenSessionsCurrent
  <2> QED BY <2>1, <2>2
<1>9. FailuresCounted'
  <2> SUFFICES ASSUME NEW b \in Administrators, account'[b] # NoAccount,
                      account'[b].status = "active"
               PROVE  wrong'[b] <= account'[b].failed /\ account'[b].failed < MaxAttempts
    BY DEF FailuresCounted
  <2>1. CASE b = a
    <3>1. row.failed < MaxAttempts
      BY <1>2, <2>1 DEF Lawful, LifecycleCheck, AccountRows
    <3> QED BY <1>2, <2>1, <3>1
  <2>2. CASE b # a
    <3>1. account[b] \in AccountRows /\ wrong[b] <= account[b].failed
          /\ account[b].failed < MaxAttempts /\ account[b].failed \in Nat
      BY <1>2, <2>2 DEF FailuresCounted, AccountRows
    <3>2. wrong'[b] = 0 \/ wrong'[b] = wrong[b]
      BY <2>2
    <3> QED BY <1>2, <2>2, <3>1, <3>2
  <2> QED BY <2>1, <2>2
<1> QED BY <1>2, <1>4, <1>5, <1>6, <1>7, <1>8, <1>9

\* No account changes, and sessions at most end.
LEMMA SessionsEnd ==
  ASSUME AccessOK, UNCHANGED workload, UNCHANGED account,
         grants' \in [Administrators -> SUBSET GrantRows],
         sessions' \in [Sessions -> SessionRows \union {NoSession}],
         \A s \in Sessions : sessions[s] # NoSession => Ended(sessions[s], sessions'[s]),
         \A s \in Sessions : sessions[s] = NoSession => sessions'[s] = NoSession,
         wrong' \in [Administrators -> Nat],
         \A b \in Administrators : wrong'[b] \in {0, wrong[b]}
  PROVE  AccessOK'
<1> USE DEF AccessOK
<1>1. (\A b \in Administrators : account[b] # NoAccount => Lawful(account[b]))'
  BY DEF Lawful, LifecycleCheck
<1>2. ASSUME NEW s \in Sessions, sessions'[s] # NoSession
      PROVE  account'[sessions'[s].administrator] # NoAccount
  BY <1>2 DEF Ended
<1>3. \A q \in workload.requests : q.session # NoSession =>
        q.session \in Sessions /\ sessions'[q.session] # NoSession
  BY DEF Ended
<1>4. OpenSessionsCurrent'
  BY DEF OpenSessionsCurrent, Ended
<1>5. FailuresCounted'
  <2> SUFFICES ASSUME NEW b \in Administrators, account[b] # NoAccount,
                      account[b].status = "active"
               PROVE  wrong'[b] <= account[b].failed /\ account[b].failed < MaxAttempts
    BY DEF FailuresCounted
  <2>1. account[b] \in AccountRows /\ wrong[b] <= account[b].failed
        /\ account[b].failed < MaxAttempts /\ account[b].failed \in Nat
    BY DEF FailuresCounted, AccountRows
  <2> QED BY <2>1
<1> QED BY <1>1, <1>2, <1>3, <1>4, <1>5


LEMMA CheckedIsLawful ==
  ASSUME NEW row \in AccountRows, LifecycleCheck(row)
  PROVE  Lawful(row)
<1>1. row.locked # "elapsed"
  BY DEF LifecycleCheck, AccountRows
<1>2. [row EXCEPT !.locked = IF row.locked = "elapsed" THEN "running" ELSE row.locked] = row
  BY <1>1 DEF AccountRows
<1> QED BY <1>2 DEF Lawful

\* What a step of thread t leaves to the others.
AccountsLeft(t) ==
  /\ \A a \in Administrators : account[a] # NoAccount => account'[a] # NoAccount
  /\ \A s \in Sessions : sessions[s] # NoSession => Ended(sessions[s], sessions'[s])
  /\ \A s \in Sessions : sessions[s] = NoSession /\ sessions'[s] # NoSession =>
       \A u \in Threads \ {t} : lock[AccountRow(sessions'[s].administrator)] # u

\* The rows a login leaves behind.
LEMMA LoginRows ==
  ASSUME AccessOK, NEW a \in Administrators, account[a] # NoAccount,
         account[a].status \in {"active", "locked"}
  PROVE  LET row == account[a]
             failed == FailedLogin(row)
             accepted == [row EXCEPT !.status = "active", !.failed = 0, !.locked = "no"]
             again == [row EXCEPT !.locked = "running"]
         IN /\ row \in AccountRows
            /\ accepted \in AccountRows /\ Lawful(accepted) /\ accepted.password = row.password
            /\ accepted.status = "active"
            /\ row.status = "locked" =>
                 /\ again \in AccountRows /\ Lawful(again) /\ again.password = row.password
                 /\ again.status = "locked"
            /\ row.status = "active" =>
                 /\ failed \in AccountRows /\ Lawful(failed) /\ failed.password = row.password
                 /\ failed.status # "disabled"
                 /\ wrong[a] <= row.failed /\ row.failed < MaxAttempts
                 /\ failed.failed = row.failed + 1
<1> DEFINE row == account[a]
           failed == FailedLogin(row)
           accepted == [row EXCEPT !.status = "active", !.failed = 0, !.locked = "no"]
           again == [row EXCEPT !.locked = "running"]
<1>1. row \in AccountRows /\ Lawful(row) /\ MaxAttempts \in Nat \ {0}
  BY AdministratorsAssumption DEF AccessOK
<1>2. LifecycleCheck([row EXCEPT !.locked = IF row.locked = "elapsed" THEN "running" ELSE row.locked])
  BY <1>1 DEF Lawful
<1>3. ~ row.disabledAt /\ (row.status = "locked" => row.failed = MaxAttempts)
  BY <1>1, <1>2 DEF LifecycleCheck, AccountRows
<1>4. /\ accepted \in AccountRows /\ accepted.password = row.password
      /\ accepted.status = "active" /\ LifecycleCheck(accepted)
  <2>1. /\ accepted \in AccountRows /\ accepted.password = row.password
        /\ accepted.status = "active" /\ accepted.failed = 0 /\ accepted.locked = "no"
        /\ accepted.disabledAt = row.disabledAt
    <3>1. 0 \in 0 .. MaxAttempts
      BY <1>1
    <3>2. row \in [status : {"active", "locked", "disabled"}, failed : 0 .. MaxAttempts,
                   locked : {"no", "running", "elapsed"}, disabledAt : BOOLEAN,
                   password : Passwords]
      BY <1>1 DEF AccountRows
    <3> HIDE DEF row
    <3> QED BY <3>1, <3>2 DEF AccountRows
  <2> HIDE DEF accepted
  <2>2. accepted.failed < MaxAttempts
    BY <1>1, <2>1
  <2> QED BY <1>3, <2>1, <2>2 DEF LifecycleCheck
<1>5. ASSUME row.status = "locked"
      PROVE  /\ again \in AccountRows /\ again.password = row.password
             /\ again.status = "locked" /\ LifecycleCheck(again)
  BY <1>1, <1>3, <1>5 DEF AccountRows, LifecycleCheck
<1>6. ASSUME row.status = "active"
      PROVE  /\ failed \in AccountRows /\ failed.password = row.password
             /\ failed.status # "disabled" /\ LifecycleCheck(failed)
             /\ wrong[a] <= row.failed /\ row.failed < MaxAttempts
             /\ failed.failed = row.failed + 1
  <2>1. wrong[a] <= row.failed /\ row.failed < MaxAttempts /\ row.failed \in Nat
    BY <1>1, <1>6 DEF AccessOK, FailuresCounted, AccountRows
  <2>2. row.failed + 1 \in 0 .. MaxAttempts
    BY <1>1, <2>1
  <2>3. failed \in AccountRows /\ failed.password = row.password
        /\ failed.failed = row.failed + 1
        /\ failed.status \in {"active", "locked"} /\ failed.disabledAt = row.disabledAt
        /\ failed.status = (IF row.failed + 1 = MaxAttempts THEN "locked" ELSE "active")
        /\ failed.locked = (IF row.failed + 1 = MaxAttempts THEN "running" ELSE "no")
    BY <1>1, <2>2 DEF FailedLogin, AccountRows
  <2>4. row.failed + 1 # MaxAttempts => row.failed + 1 < MaxAttempts
    BY <1>1, <2>1
  <2>5. LifecycleCheck(failed)
    <3> HIDE DEF failed
    <3>1. CASE row.failed + 1 = MaxAttempts
      BY <1>3, <2>3, <3>1 DEF LifecycleCheck
    <3>2. CASE row.failed + 1 # MaxAttempts
      BY <1>3, <2>3, <2>4, <3>2 DEF LifecycleCheck
    <3> QED BY <3>1, <3>2
  <2> QED BY <2>1, <2>3, <2>5
<1> HIDE DEF row, failed, accepted, again
<1>7. /\ row \in AccountRows
      /\ accepted \in AccountRows /\ Lawful(accepted) /\ accepted.password = row.password
      /\ accepted.status = "active"
      /\ row.status = "locked" =>
           /\ again \in AccountRows /\ Lawful(again) /\ again.password = row.password
           /\ again.status = "locked"
      /\ row.status = "active" =>
           /\ failed \in AccountRows /\ Lawful(failed) /\ failed.password = row.password
           /\ failed.status # "disabled"
           /\ wrong[a] <= row.failed /\ row.failed < MaxAttempts
           /\ failed.failed = row.failed + 1
  BY <1>1, <1>4, <1>5, <1>6, CheckedIsLawful
<1> QED BY <1>7 DEF row, failed, accepted, again

LEMMA RefusedKept ==
  ASSUME AccessOK, UNCHANGED workload, NEW t \in Threads, Target(t) \in Administrators,
         NEW row \in AccountRows, Lawful(row), account[Target(t)] # NoAccount,
         row.password = account[Target(t)].password, row.status # "disabled",
         Refused(t, row),
         row.status = "active" => /\ wrong[Target(t)] < row.failed
                                  /\ row.failed <= MaxAttempts
  PROVE  AccessOK' /\ AccountsLeft(t)
<1> DEFINE a == Target(t)
<1>1. /\ account' = [account EXCEPT ![a] = row]
      /\ UNCHANGED grants /\ UNCHANGED sessions
      /\ wrong' = [wrong EXCEPT ![a] =
                     IF request[t].password = row.password \/ wrong[a] > MaxAttempts
                     THEN wrong[a] ELSE wrong[a] + 1]
  BY DEF Refused, AccessOK
<1>2. wrong \in [Administrators -> Nat] /\ sessions \in [Sessions -> SessionRows \union {NoSession}]
      /\ row.failed \in Nat
  BY DEF AccessOK, AccountRows
<1>3. /\ wrong' \in [Administrators -> Nat] /\ wrong'[a] <= wrong[a] + 1
      /\ \A b \in Administrators \ {a} : wrong'[b] = wrong[b]
  BY <1>1, <1>2
<1>4. row.status = "active" => wrong'[a] <= row.failed
  BY <1>2, <1>3
<1>5. \A s \in Sessions : sessions[s] # NoSession => Ended(sessions[s], sessions'[s])
  BY <1>1 DEF Ended
<1>6. \A s \in Sessions :
        sessions'[s] # NoSession /\ sessions'[s].state = "open"
          /\ sessions'[s].administrator = a =>
            row.status # "disabled" /\ row.password = sessions'[s].password
  BY <1>1 DEF AccessOK, OpenSessionsCurrent
<1>7. AccessOK'
  <2>1. grants' \in [Administrators -> SUBSET GrantRows]
        /\ sessions' \in [Sessions -> SessionRows \union {NoSession}]
    BY <1>1 DEF AccessOK
  <2> QED BY <1>1, <1>3, <1>4, <1>5, <1>6, <2>1, AccountChanges
<1>8. AccountsLeft(t)
  <2>1. row # NoAccount
    BY AccountMarksAssumption
  <2> QED BY <1>1, <1>5, <2>1 DEF AccountsLeft, AccessOK
<1> QED BY <1>7, <1>8


LEMMA LoggedInKept ==
  ASSUME AccessOK, UNCHANGED workload, NEW t \in Threads, Target(t) \in Administrators,
         account[Target(t)] # NoAccount, account[Target(t)].status \in {"active", "locked"},
         Free(t, AccountRow(Target(t))), NoThread \notin Threads,
         LoggedIn(t, account[Target(t)])
  PROVE  AccessOK' /\ AccountsLeft(t)
<1> DEFINE a == Target(t)
           before == account[a]
           row == [before EXCEPT !.status = "active", !.failed = 0, !.locked = "no"]
<1>1. PICK s \in Sessions :
        /\ sessions[s] = NoSession
        /\ sessions' = [sessions EXCEPT ![s] =
                          [administrator |-> a, password |-> before.password, state |-> "open"]]
        /\ account' = [account EXCEPT ![a] = row]
        /\ wrong' = [wrong EXCEPT ![a] = 0]
        /\ UNCHANGED grants
  BY DEF LoggedIn
<1>2. /\ before \in AccountRows /\ row \in AccountRows /\ Lawful(row)
      /\ row.password = before.password /\ row.status = "active"
  BY LoginRows
<1>3. row.failed \in Nat /\ row # NoAccount /\ before.status # "disabled"
      /\ before.password \in Passwords
  BY <1>2, AccountMarksAssumption DEF AccountRows
<1> DEFINE opened == [administrator |-> a, password |-> before.password, state |-> "open"]
<1>4. opened \in SessionRows /\ opened.administrator = a /\ opened.password = before.password
  BY <1>3 DEF SessionRows
<1>5. opened # NoSession
  BY <1>4, AccountMarksAssumption
<1> HIDE DEF row, opened, before
<1>6. /\ sessions' = [sessions EXCEPT ![s] = opened] /\ account' = [account EXCEPT ![a] = row]
  BY <1>1 DEF opened, row, before
<1>7. /\ sessions' \in [Sessions -> SessionRows \union {NoSession}]
      /\ sessions'[s] = opened
      /\ \A r \in Sessions \ {s} : sessions'[r] = sessions[r]
  BY <1>4, <1>6 DEF AccessOK
<1>8. \A r \in Sessions : sessions[r] # NoSession => Ended(sessions[r], sessions'[r])
  BY <1>1, <1>7 DEF Ended
<1>9. \A r \in Sessions : sessions[r] = NoSession /\ sessions'[r] # NoSession =>
        sessions'[r].administrator = a
  BY <1>4, <1>7
<1>10. \A r \in Sessions :
         sessions'[r] # NoSession /\ sessions'[r].state = "open"
           /\ sessions'[r].administrator = a =>
             row.status # "disabled" /\ row.password = sessions'[r].password
  <2>1. \A r \in Sessions : sessions[r] # NoSession /\ sessions[r].state = "open"
          /\ sessions[r].administrator = a => sessions[r].password = before.password
    BY DEF AccessOK, OpenSessionsCurrent, before
  <2> QED BY <1>2, <1>4, <1>7, <2>1
<1>11. /\ wrong' \in [Administrators -> Nat] /\ wrong'[a] = 0
       /\ \A b \in Administrators \ {a} : wrong'[b] = wrong[b]
  BY <1>1 DEF AccessOK
<1>12. row.status = "active" => wrong'[a] <= row.failed
  BY <1>3, <1>11
<1>13. AccessOK'
  <2>1. grants' \in [Administrators -> SUBSET GrantRows]
    BY <1>1 DEF AccessOK
  <2>2. \A b \in Administrators \ {a} : wrong'[b] \in {0, wrong[b]}
    BY <1>11
  <2>3. a \in Administrators /\ account' = [account EXCEPT ![a] = row]
    BY <1>6
  <2>4. /\ wrong' \in [Administrators -> Nat]
        /\ sessions' \in [Sessions -> SessionRows \union {NoSession}]
    BY <1>7, <1>11
  <2> HIDE DEF a
  <2> QED BY <1>2, <1>8, <1>9, <1>10, <1>12, <2>1, <2>2, <2>3, <2>4, AccountChanges
<1>14. AccountsLeft(t)
  BY <1>3, <1>6, <1>8, <1>9 DEF AccountsLeft, AccessOK, Free
<1> QED BY <1>13, <1>14

\* The end of a change: the account that was written and the sessions read.
LEMMA RevokedKept ==
  ASSUME AccountsOK, UNCHANGED workload, NEW t \in Threads, Target(t) \in Administrators,
         RevokeSessions(t)
  PROVE  AccessOK' /\ AccountsLeft(t)
<1> DEFINE a == Target(t)
           revoked == seen[t].sessions
<1>1. AccessOK /\ Changing(t) /\ seen[t] \in Views
  BY DEF AccountsOK
<1>2. CASE Fail(t)
  <2>1. UNCHANGED account /\ UNCHANGED grants /\ UNCHANGED sessions /\ UNCHANGED wrong
    BY <1>2 DEF Fail
  <2>2. \A s \in Sessions : sessions[s] # NoSession => Ended(sessions[s], sessions'[s])
    BY <2>1 DEF Ended
  <2>3. AccessOK'
    BY <1>1, <2>1, <2>2, SessionsEnd DEF AccessOK
  <2> QED BY <2>1, <2>2, <2>3 DEF AccountsLeft
<1>3. CASE ~ Fail(t)
  <2>1. /\ pc[t] = "commit"
        /\ sessions' = [s \in Sessions |->
                          IF s \in revoked THEN [sessions[s] EXCEPT !.state = "revoked"]
                                           ELSE sessions[s]]
        /\ account' = IF written[t] = NoAccount THEN account
                      ELSE [account EXCEPT ![a] = written[t]]
        /\ wrong' = IF Kind(t) = "reset" THEN [wrong EXCEPT ![a] = 0] ELSE wrong
        /\ UNCHANGED grants
    BY <1>3 DEF RevokeSessions
  <2>2. \A s \in revoked : s \in Sessions /\ sessions[s] # NoSession
    BY <1>1, <2>1 DEF Changing, Views
  <2>3. ASSUME NEW s \in revoked
        PROVE  /\ sessions'[s] \in SessionRows
               /\ Ended(sessions[s], sessions'[s]) /\ sessions'[s].state = "revoked"
    <3>1. sessions[s] \in SessionRows
      BY <1>1, <2>2 DEF AccessOK
    <3>2. sessions'[s] = [sessions[s] EXCEPT !.state = "revoked"]
      BY <2>1, <2>2
    <3>3. /\ sessions'[s] \in SessionRows /\ sessions'[s].state = "revoked"
          /\ sessions'[s].administrator = sessions[s].administrator
          /\ sessions'[s].password = sessions[s].password
      BY <3>1, <3>2 DEF SessionRows
    <3> QED BY <3>3, AccountMarksAssumption DEF Ended
  <2>4. \A s \in Sessions \ revoked : sessions'[s] = sessions[s]
    BY <2>1
  <2>5. sessions' \in [Sessions -> SessionRows \union {NoSession}]
    <3>1. \A s \in Sessions : sessions'[s] \in SessionRows \union {NoSession}
      BY <1>1, <2>3, <2>4 DEF AccessOK
    <3>2. sessions' = [s \in Sessions |-> sessions'[s]]
      BY <2>1
    <3> QED BY <3>1, <3>2
  <2>6. \A s \in Sessions : sessions[s] # NoSession => Ended(sessions[s], sessions'[s])
    BY <2>3, <2>4 DEF Ended
  <2>7. \A s \in Sessions : sessions[s] = NoSession => sessions'[s] = NoSession
    BY <2>2, <2>4
  <2>8. /\ wrong' \in [Administrators -> Nat]
        /\ \A b \in Administrators : wrong'[b] \in {0, wrong[b]}
        /\ \A b \in Administrators \ {a} : wrong'[b] = wrong[b]
        /\ Kind(t) = "reset" => wrong'[a] = 0
    BY <1>1, <2>1 DEF AccessOK
  <2>9. grants' \in [Administrators -> SUBSET GrantRows]
    BY <1>1, <2>1 DEF AccessOK
  <2>10. CASE written[t] = NoAccount
    <3>1. UNCHANGED account
      BY <2>1, <2>10
    <3>2. AccessOK'
      BY <1>1, <2>5, <2>6, <2>7, <2>8, <2>9, <3>1, SessionsEnd
    <3> QED BY <2>6, <2>7, <3>1, <3>2 DEF AccountsLeft
  <2>11. CASE written[t] # NoAccount
    <3> DEFINE row == written[t]
    <3>1. /\ row \in AccountRows /\ LifecycleCheck(row) /\ Kind(t) \in {"disable", "reset"}
          /\ Kind(t) = "disable" => row.status = "disabled"
          /\ OpenSessions(a) \subseteq revoked
      BY <1>1, <2>1, <2>11 DEF AccountsOK, Changing
    <3>2. Lawful(row) /\ row.failed \in Nat
      BY <3>1, CheckedIsLawful DEF AccountRows
    <3>3. account' = [account EXCEPT ![a] = row]
      BY <2>1, <2>11
    <3> HIDE DEF row
    <3>4. row.status = "active" => wrong'[a] <= row.failed
      <4>1. row.status = "active" => wrong'[a] = 0
        BY <2>8, <3>1
      <4> QED BY <3>2, <4>1
    <3>5. \A s \in Sessions :
            ~ (sessions'[s] # NoSession /\ sessions'[s].state = "open"
                 /\ sessions'[s].administrator = a)
      <4> SUFFICES ASSUME NEW s \in Sessions, sessions'[s] # NoSession,
                          sessions'[s].state = "open", sessions'[s].administrator = a
                   PROVE  FALSE
        OBVIOUS
      <4>1. s \notin revoked
        BY <2>3
      <4>2. s \in OpenSessions(a)
        BY <2>4, <4>1 DEF OpenSessions
      <4> QED BY <3>1, <4>1, <4>2
    <3>6. AccessOK'
      <4>1. \A s \in Sessions : sessions[s] = NoSession /\ sessions'[s] # NoSession =>
              sessions'[s].administrator = a
        BY <2>7
      <4> QED BY <1>1, <2>5, <2>6, <2>8, <2>9, <3>1, <3>2, <3>3, <3>4, <3>5, <4>1, AccountChanges
    <3>7. row # NoAccount
      BY <2>11 DEF row
    <3> QED BY <1>1, <2>6, <2>7, <3>3, <3>6, <3>7 DEF AccountsLeft, AccessOK
  <2> QED BY <2>10, <2>11
<1> QED BY <1>2, <1>3


LEMMA AccessUntouched ==
  ASSUME AccessOK, UNCHANGED workload, NEW t \in Threads, UNCHANGED account,
         UNCHANGED sessions, UNCHANGED wrong,
         grants' \in [Administrators -> SUBSET GrantRows]
  PROVE  AccessOK' /\ AccountsLeft(t)
<1>1. \A s \in Sessions : sessions[s] # NoSession => Ended(sessions[s], sessions'[s])
  BY DEF Ended
<1>2. AccessOK'
  BY <1>1, SessionsEnd DEF AccessOK
<1> QED BY <1>1, <1>2 DEF AccountsLeft

LEMMA GrantsFresh ==
  ASSUME NEW a \in Administrators, KeysLeft(a), NEW permissions \in SUBSET Permissions
  PROVE  NewGrants(a, permissions) \subseteq GrantRows
<1> DEFINE key == CHOOSE id \in GrantIds : id \notin UsedIds(a)
<1>1. key \in GrantIds
  BY DEF KeysLeft
<1> HIDE DEF key
<1>2. [permission : permissions, id : {key}] \subseteq [permission : Permissions, id : GrantIds]
  BY <1>1
<1> QED BY <1>2 DEF NewGrants, GrantRows, key

LEMMA AccessRows ==
  ASSUME ThreadsOK, AccountsOK, UNCHANGED workload, NEW t \in Threads,
         AccessStep(t) \/ AccountStep(t)
  PROVE  AccessOK' /\ AccountsLeft(t)
<1> DEFINE a == Target(t)
<1>1. AccessOK
  BY DEF AccountsOK
<1>2. pc[t] # "idle" => Fits(request[t], pc[t])
  BY DEF ThreadsOK
<1>3. ASSUME UNCHANGED account, UNCHANGED grants, UNCHANGED sessions, UNCHANGED wrong
      PROVE  AccessOK' /\ AccountsLeft(t)
  BY <1>1, <1>3, AccessUntouched DEF AccessOK
<1>4. ASSUME Fail(t)
      PROVE  AccessOK' /\ AccountsLeft(t)
  BY <1>3, <1>4 DEF Fail
<1>5. CASE AccessStep(t)
  BY <1>3, <1>4, <1>5 DEF AccessStep, LoadContext, Permit, administration
<1>6. CASE Login(t)
  <2>1. Kind(t) = "login" /\ a \in Administrators /\ Free(t, AccountRow(a))
    BY <1>6, Parsed DEF Login
  <2>2. CASE Fail(t)
    BY <1>4, <2>2
  <2>3. CASE account[a] # NoAccount /\ LoginWith(t, account[a]) /\ ~ Fail(t)
    <3> DEFINE row == account[a]
    <3>1. row \in AccountRows
      BY <1>1, <2>1, <2>3 DEF AccessOK
    <3>2. CASE row.status \in {"active", "locked"} /\ LoggedIn(t, row)
      BY <1>1, <2>1, <2>3, <3>2, LoggedInKept, ThreadsAssumption
    <3>3. CASE row.status = "locked" /\ Refused(t, [row EXCEPT !.locked = "running"])
      <4> DEFINE again == [row EXCEPT !.locked = "running"]
      <4>1. /\ again \in AccountRows /\ Lawful(again) /\ again.password = row.password
            /\ again.status = "locked"
        BY <1>1, <2>1, <2>3, <3>3, LoginRows
      <4> HIDE DEF again
      <4>2. Refused(t, again)
        BY <3>3 DEF again
      <4> QED BY <1>1, <2>1, <2>3, <4>1, <4>2, RefusedKept
    <3>4. CASE row.status = "active" /\ Refused(t, FailedLogin(row))
      <4> DEFINE failed == FailedLogin(row)
      <4>1. /\ failed \in AccountRows /\ Lawful(failed) /\ failed.password = row.password
            /\ failed.status # "disabled"
            /\ wrong[a] <= row.failed /\ row.failed < MaxAttempts
            /\ failed.failed = row.failed + 1
        BY <1>1, <2>1, <2>3, <3>4, LoginRows
      <4>2. row.failed \in Nat /\ MaxAttempts \in Nat /\ wrong[a] \in Nat
        BY <1>1, <2>1, <3>1, AdministratorsAssumption DEF AccountRows, AccessOK
      <4>3. wrong[a] < failed.failed /\ failed.failed <= MaxAttempts
        BY <4>1, <4>2
      <4> HIDE DEF failed
      <4>4. Refused(t, failed)
        BY <3>4 DEF failed
      <4> QED BY <1>1, <2>1, <2>3, <4>1, <4>3, <4>4, RefusedKept
    <3> QED BY <2>3, <3>2, <3>3, <3>4 DEF LoginWith
  <2> QED BY <1>6, <2>2, <2>3 DEF Login
<1>7. CASE Logout(t)
  <2> DEFINE s == request[t].session
  <2>1. pc[t] = "log_out" /\ s \in Sessions /\ request[t] \in workload.requests
    BY <1>2, <1>7, Asked DEF Logout, Fits
  <2>2. sessions[s] \in SessionRows
    BY <1>1, <2>1, AdministratorsAssumption DEF AccessOK
  <2>3. CASE sessions' = [sessions EXCEPT ![s].state = "logged_out"]
             /\ UNCHANGED account /\ UNCHANGED grants /\ UNCHANGED wrong
    <3> DEFINE row == [sessions[s] EXCEPT !.state = "logged_out"]
    <3>1. /\ row \in SessionRows /\ row.administrator = sessions[s].administrator
          /\ row.password = sessions[s].password /\ row.state = "logged_out"
      BY <2>2 DEF SessionRows
    <3>2. sessions' = [sessions EXCEPT ![s] = row]
      BY <2>3
    <3> HIDE DEF row
    <3>3. Ended(sessions[s], row) /\ sessions[s] # NoSession
      BY <2>2, <3>1, AccountMarksAssumption DEF Ended
    <3>4. /\ sessions' \in [Sessions -> SessionRows \union {NoSession}]
          /\ \A r \in Sessions : sessions[r] # NoSession => Ended(sessions[r], sessions'[r])
          /\ \A r \in Sessions : sessions[r] = NoSession => sessions'[r] = NoSession
      BY <1>1, <2>1, <3>1, <3>2, <3>3 DEF AccessOK, Ended
    <3>5. AccessOK'
      BY <1>1, <2>3, <3>4, SessionsEnd DEF AccessOK
    <3> QED BY <2>3, <3>4, <3>5 DEF AccountsLeft
  <2> QED BY <1>4, <1>7, <2>3 DEF Logout
<1>8. CASE RevokeSessions(t)
  <2>1. a \in Administrators
    BY <1>2, <1>8, Parsed DEF RevokeSessions, Fits, Kind, ManagementKinds
  <2> QED BY <1>8, <2>1, RevokedKept
<1>9. CASE ReplacePermissions(t)
  <2>1. Kind(t) = "permissions" /\ pc[t] # "idle"
    BY <1>2, <1>9 DEF ReplacePermissions, Fits, Kind
  <2>2. a \in Administrators /\ request[t].permissions \in SUBSET Permissions
    BY <2>1, Parsed DEF ManagementKinds
  <2>3. CASE /\ KeysLeft(a)
             /\ grants' = [grants EXCEPT ![a] = (grants[a] \ seen[t].grants) \union
                             NewGrants(a, request[t].permissions)]
             /\ UNCHANGED account /\ UNCHANGED sessions /\ UNCHANGED wrong
    <3>1. grants' \in [Administrators -> SUBSET GrantRows]
      BY <1>1, <2>2, <2>3, GrantsFresh DEF AccessOK
    <3> QED BY <1>1, <2>3, <3>1, AccessUntouched
  <2> QED BY <1>4, <1>9, <2>3 DEF ReplacePermissions
<1>10. CASE Create(t)
  <2>1. Kind(t) \in {"create", "bootstrap"} /\ pc[t] # "idle"
    BY <1>2, <1>10 DEF Create, Fits, Kind
  <2>2. a \in Administrators /\ request[t].newPassword \in Passwords
    BY <2>1, Parsed DEF ManagementKinds
  <2>3. CASE /\ account[a] = NoAccount /\ KeysLeft(a)
             /\ account' = [account EXCEPT ![a] = NewAccount(request[t].newPassword)]
             /\ grants' = [grants EXCEPT ![a] = NewGrants(a, Permissions)]
             /\ UNCHANGED sessions /\ UNCHANGED wrong
    <3> DEFINE row == NewAccount(request[t].newPassword)
    <3>1. row \in AccountRows /\ LifecycleCheck(row) /\ row.failed = 0
      BY <2>2, AdministratorsAssumption DEF NewAccount, AccountRows, LifecycleCheck
    <3>2. Lawful(row) /\ row # NoAccount
      BY <3>1, CheckedIsLawful, AccountMarksAssumption
    <3> HIDE DEF row
    <3>3. account' = [account EXCEPT ![a] = row]
      BY <2>3 DEF row
    <3>4. grants' \in [Administrators -> SUBSET GrantRows]
      BY <1>1, <2>2, <2>3, GrantsFresh DEF AccessOK
    <3>5. /\ \A s \in Sessions : sessions[s] # NoSession => Ended(sessions[s], sessions'[s])
          /\ \A s \in Sessions : ~ (sessions'[s] # NoSession /\ sessions'[s].administrator = a)
          /\ sessions' \in [Sessions -> SessionRows \union {NoSession}]
      BY <1>1, <2>3 DEF AccessOK, Ended
    <3>6. /\ wrong' \in [Administrators -> Nat] /\ wrong'[a] <= row.failed
          /\ \A b \in Administrators \ {a} : wrong'[b] \in {0, wrong[b]}
      BY <1>1, <2>2, <2>3, <3>1 DEF AccessOK
    <3>7. a \in Administrators
      BY <2>2
    <3>8. UNCHANGED sessions
      BY <2>3
    <3> HIDE DEF a
    <3>9. AccessOK'
      BY <1>1, <3>1, <3>2, <3>3, <3>4, <3>5, <3>6, <3>7, <3>8, AccountChanges
    <3> QED BY <1>1, <3>2, <3>3, <3>5, <3>7, <3>8, <3>9 DEF AccountsLeft, AccessOK
  <2> QED BY <1>4, <1>10, <2>3 DEF Create
<1>11. CASE Authorize(t) \/ Find(t) \/ CountManagers(t) \/ UpdateAccount(t)
            \/ ReadSessions(t) \/ Bootstrap(t)
  BY <1>3, <1>4, <1>11 DEF Authorize, Find, CountManagers, UpdateAccount, ReadSessions,
     Bootstrap, administration
<1> QED BY <1>5, <1>6, <1>7, <1>8, <1>9, <1>10, <1>11 DEF AccountStep


\* Where the account of a request is known to be there.
LEMMA TargetKnown ==
  ASSUME ThreadsOK, NEW t \in Threads,
         pc[t] \in {"find", "count", "update", "sessions", "commit", "replace"}
  PROVE  Target(t) \in Administrators /\ Kind(t) \in ManagementKinds /\ AccountRow(Target(t)) \in Rows
<1>1. Kind(t) \in ManagementKinds
  BY Parsed DEF Fits, Kind, ManagementKinds
<1> QED BY <1>1, Parsed, RowsLockable

\* Who changes an account is left alone by a step of another thread.
LEMMA ChangingLeft ==
  ASSUME ThreadsOK, AccessOK, NEW t \in Threads, NEW u \in Threads \ {t}, Others(t), Changing(u),
         AccountsLeft(t), seen'[u] = seen[u], written'[u] = written[u],
         seen[u] \in Views
  PROVE  Changing(u)'
<1> DEFINE a == Target(u)
<1>1. /\ pc'[u] = pc[u] /\ request'[u] = request[u]
      /\ Target(u)' = a /\ Kind(u)' = Kind(u) /\ AccountRow(Target(u))' = AccountRow(a)
  BY DEF Others, Target, Kind, AccountRow
<1>2. CASE pc[u] \notin {"count", "update", "sessions", "commit", "replace"}
  BY <1>1, <1>2 DEF Changing
<1>3. CASE pc[u] \in {"count", "update", "sessions", "commit", "replace"}
  <2>1. a \in Administrators /\ AccountRow(a) \in Rows
    BY <1>3, TargetKnown
  <2>2. account'[a] # NoAccount
    BY <1>3, <2>1 DEF Changing, AccountsLeft
  <2>3. lock[AccountRow(a)] = u => lock'[AccountRow(a)] = u
    BY <2>1 DEF Others
  <2>4. ASSUME lock[AccountRow(a)] = u, NEW s \in Sessions, s \in OpenSessions(Target(u))'
        PROVE  s \in OpenSessions(a)
    <3>1. sessions'[s] # NoSession /\ sessions'[s].administrator = a /\ sessions'[s].state = "open"
      BY <1>1, <2>4 DEF OpenSessions
    <3>2. sessions[s] # NoSession
      BY <2>4, <3>1 DEF AccountsLeft
    <3> QED BY <3>1, <3>2 DEF AccountsLeft, Ended, OpenSessions
  <2>5. LifecycleCheck(written[u]) => LifecycleCheck(written'[u])
    OBVIOUS
  <2>6. LifecycleCheck(written'[u]) => LifecycleCheck(written[u])'
    BY DEF LifecycleCheck
  <2>7. \A s \in seen[u].sessions : sessions[s] # NoSession => sessions'[s] # NoSession
    BY DEF AccountsLeft, Ended, Views
  <2>8. OpenSessions(Target(u))' \subseteq Sessions
    BY DEF OpenSessions
  <2>9. written[u] # NoAccount /\ pc[u] = "commit" =>
          OpenSessions(Target(u))' \subseteq seen'[u].sessions
    BY <2>4, <2>8 DEF Changing
  <2> QED BY <1>1, <1>3, <2>2, <2>3, <2>5, <2>6, <2>7, <2>9 DEF Changing
<1> QED BY <1>2, <1>3

\* The row an UPDATE writes.
LEMMA UpdatedTyped ==
  ASSUME ThreadsOK, AccountsOK, NEW t \in Threads, pc[t] = "update"
  PROVE  /\ Updated(t) \in AccountRows
         /\ Kind(t) \in {"disable", "reset"}
         /\ Kind(t) = "disable" => Updated(t).status = "disabled"
<1> DEFINE row == account[Target(t)]
           loaded == seen[t].target
<1>1. Kind(t) \in {"disable", "reset"} /\ Target(t) \in Administrators
  BY TargetKnown, Parsed DEF Fits, Kind
<1>2. row \in AccountRows
  BY <1>1 DEF AccountsOK, AccessOK, Changing
<1>3. CASE Kind(t) = "disable"
  <2>1. Updated(t) = Disabled(loaded, row)
    BY <1>3 DEF Updated
  <2>2. Disabled(loaded, row) \in AccountRows /\ Disabled(loaded, row).status = "disabled"
    BY <1>2 DEF Disabled, AccountRows
  <2> QED BY <1>3, <2>1, <2>2
<1>4. CASE Kind(t) = "reset"
  <2>1. Updated(t) = Reset(loaded, row, request[t].newPassword)
    BY <1>4 DEF Updated
  <2>2. request[t].newPassword \in Passwords
    BY <1>4, Parsed
  <2>3. 0 \in 0 .. MaxAttempts
    BY AdministratorsAssumption
  <2>4. Reset(loaded, row, request[t].newPassword) \in AccountRows
    BY <1>2, <2>2, <2>3 DEF Reset, AccountRows
  <2> QED BY <1>4, <2>1, <2>4
<1> QED BY <1>1, <1>3, <1>4


\* What thread t has loaded and written, after a step of its own.
LEMMA ChangingKept ==
  ASSUME ThreadsOK, AccountsOK, NEW t \in Threads, AccessStep(t) \/ AccountStep(t)
  PROVE  /\ Changing(t)'
         /\ seen' \in [Threads -> Views]
         /\ written' \in [Threads -> AccountRows \union {NoAccount}]
         /\ \A u \in Threads \ {t} : seen'[u] = seen[u] /\ written'[u] = written[u]
<1> DEFINE a == Target(t)
           Kept == /\ seen' \in [Threads -> Views]
                   /\ written' \in [Threads -> AccountRows \union {NoAccount}]
                   /\ \A u \in Threads \ {t} : seen'[u] = seen[u] /\ written'[u] = written[u]
<1>1. /\ AccessOK /\ Changing(t) /\ seen \in [Threads -> Views]
      /\ written \in [Threads -> AccountRows \union {NoAccount}]
      /\ pc \in [Threads -> Labels]
  BY DEF AccountsOK, ThreadsOK
<1>2. pc[t] # "idle" => Fits(request[t], pc[t])
  BY DEF ThreadsOK
<1>3. NothingSeen \in Views
  BY DEF NothingSeen, Views
<1>4. ASSUME EndRequest(t)
      PROVE  Changing(t)' /\ Kept
  <2>1. /\ seen' = [seen EXCEPT ![t] = NothingSeen]
        /\ written' = [written EXCEPT ![t] = NoAccount] /\ pc'[t] = "idle"
    BY <1>1, <1>4 DEF EndRequest, Finish
  <2>2. Kept /\ written'[t] = NoAccount
    BY <1>1, <1>3, <2>1
  <2> QED BY <2>1, <2>2 DEF Changing
<1>5. ASSUME Fail(t)
      PROVE  Changing(t)' /\ Kept
  BY <1>4, <1>5 DEF Fail
<1>6. ASSUME pc[t] \notin {"sessions", "commit"}
      PROVE  written[t] = NoAccount
  BY <1>1, <1>6 DEF Changing
<1>7. ASSUME UNCHANGED written, pc[t] \notin {"sessions", "commit"},
             pc'[t] \in {"permit", "log_out", "handle", "find", "create"}
      PROVE  Changing(t)'
  BY <1>6, <1>7 DEF Changing
<1>8. ASSUME UNCHANGED seen, UNCHANGED written
      PROVE  Kept
  BY <1>1, <1>8
<1>9. CASE LoadContext(t) /\ ~ Fail(t)
  <2> DEFINE s == request[t].session
             operator == account[sessions[s].administrator]
             view == [NothingSeen EXCEPT !.operator = operator, !.session = s]
  <2>1. /\ pc[t] = "load" /\ UNCHANGED written
        /\ seen' = [seen EXCEPT ![t] = view]
        /\ Continue(t, IF Kind(t) = "logout" THEN "log_out" ELSE "permit")
    BY <1>9 DEF LoadContext
  <2>2. s \in Sessions /\ sessions[s] # NoSession
    BY <1>1, <1>2, <2>1, Asked, AdministratorsAssumption DEF Fits, AccessOK
  <2>3. operator \in AccountRows \union {NoAccount}
    BY <1>1, <2>2 DEF AccessOK, SessionRows
  <2>4. view \in Views
    BY <1>3, <2>2, <2>3 DEF Views
  <2>5. pc'[t] \in {"log_out", "permit"}
    BY <1>1, <2>1 DEF Continue, Goto
  <2> HIDE DEF view
  <2>6. Kept
    BY <1>1, <2>1, <2>4
  <2> QED BY <1>7, <2>1, <2>5, <2>6
<1>10. CASE (Permit(t) \/ Authorize(t) \/ Bootstrap(t)) /\ ~ Fail(t)
  <2>1. /\ pc[t] \in {"permit", "handle"} /\ UNCHANGED seen /\ UNCHANGED written
        /\ pc'[t] \in {"handle", "create", "find"}
    BY <1>1, <1>10 DEF Permit, Authorize, Bootstrap, Continue, Goto, administration
  <2> QED BY <1>7, <1>8, <2>1
<1>11. CASE Find(t) /\ ~ Fail(t)
  <2> DEFINE row == Loaded(t)
  <2>1. /\ pc[t] = "find" /\ row # NoAccount
        /\ seen' = [seen EXCEPT ![t].target = row, ![t].grants = grants[a]]
        /\ Continue(t, NextStatement(t, row))
        /\ UNCHANGED account /\ UNCHANGED written
    BY <1>11 DEF Find
  <2>2. a \in Administrators /\ request[t] \in workload.requests
    BY <2>1, TargetKnown, Asked
  <2>3. row \in AccountRows \union {NoAccount} /\ account[a] # NoAccount
    <3>1. CASE request[t].session # NoSession /\ Operator(t) = a
      <4>1. request[t].session \in Sessions /\ sessions[request[t].session] # NoSession
        BY <1>1, <2>2, <3>1 DEF AccessOK
      <4>2. account[a] # NoAccount
        BY <1>1, <3>1, <4>1 DEF AccessOK, Operator
      <4>3. row = seen[t].operator
        BY <3>1 DEF Loaded
      <4> QED BY <1>1, <4>2, <4>3 DEF Views
    <3>2. CASE ~ (request[t].session # NoSession /\ Operator(t) = a)
      <4>1. row = account[a]
        BY <3>2 DEF Loaded
      <4> QED BY <1>1, <2>1, <2>2, <4>1 DEF AccessOK
    <3> QED BY <3>1, <3>2
  <2>4. grants[a] \in SUBSET GrantRows
    BY <1>1, <2>2 DEF AccessOK
  <2>5. pc'[t] \in {"count", "replace", "sessions", "update"} /\ UNCHANGED request
    BY <1>1, <2>1 DEF Continue, Goto, NextStatement
  <2> HIDE DEF row
  <2>6. Kept
    <3> DEFINE granted == grants[a]
               view == [seen[t] EXCEPT !.target = row, !.grants = granted]
    <3>1. view \in Views
      BY <1>1, <2>3, <2>4 DEF Views
    <3>2. seen' = [seen EXCEPT ![t] = view]
      BY <1>1, <2>1
    <3> HIDE DEF view
    <3> QED BY <1>1, <2>1, <3>1, <3>2
  <2>7. written'[t] = NoAccount
    BY <1>6, <2>1
  <2>8. account'[Target(t)'] # NoAccount
    BY <2>1, <2>3, <2>5 DEF Target
  <2>9. Changing(t)'
    BY <2>5, <2>7, <2>8 DEF Changing
  <2> QED BY <2>6, <2>9
<1>12. CASE CountManagers(t) /\ ~ Fail(t)
  <2>1. /\ pc[t] = "count" /\ UNCHANGED seen /\ UNCHANGED written /\ UNCHANGED account
        /\ pc'[t] \in {"update", "replace"} /\ UNCHANGED request
    BY <1>1, <1>12 DEF CountManagers, Continue, Goto, administration
  <2>2. written'[t] = NoAccount /\ account[a] # NoAccount
    BY <1>1, <1>6, <2>1 DEF Changing
  <2> QED BY <1>8, <2>1, <2>2 DEF Changing, Target
<1>13. CASE UpdateAccount(t) /\ ~ Fail(t)
  <2>1. /\ pc[t] = "update" /\ LifecycleCheck(Updated(t))
        /\ written' = [written EXCEPT ![t] = Updated(t)]
        /\ LockRow(t, AccountRow(a), "sessions")
        /\ UNCHANGED account /\ UNCHANGED seen
    BY <1>13 DEF UpdateAccount
  <2>2. /\ a \in Administrators /\ AccountRow(a) \in Rows /\ account[a] # NoAccount
    BY <1>1, <2>1, TargetKnown DEF Changing
  <2>3. /\ Updated(t) \in AccountRows /\ Kind(t) \in {"disable", "reset"}
        /\ Kind(t) = "disable" => Updated(t).status = "disabled"
    BY <2>1, UpdatedTyped
  <2>4. lock'[AccountRow(a)] = t /\ pc'[t] = "sessions" /\ request'[t] = request[t]
    BY <2>1, <2>2, Held
  <2>5. /\ Kept /\ written'[t] = Updated(t)
    BY <1>1, <2>1, <2>3
  <2>6. LifecycleCheck(written'[t]) /\ (Kind(t) = "disable" => written'[t].status = "disabled")
    BY <2>1, <2>3, <2>5
  <2>7. LifecycleCheck(written[t])'
    BY <2>6 DEF LifecycleCheck
  <2>8. /\ Target(t)' = a /\ Kind(t)' = Kind(t) /\ AccountRow(Target(t))' = AccountRow(a)
    BY <2>4 DEF Target, Kind, AccountRow
  <2>9. Changing(t)'
    BY <2>1, <2>2, <2>3, <2>4, <2>6, <2>7, <2>8 DEF Changing
  <2> QED BY <2>5, <2>9
<1>14. CASE ReadSessions(t)
  <2>1. /\ pc[t] = "sessions" /\ pc'[t] = "commit"
        /\ seen' = [seen EXCEPT ![t].sessions = OpenSessions(a)]
        /\ UNCHANGED request /\ UNCHANGED lock /\ UNCHANGED account
        /\ UNCHANGED sessions /\ UNCHANGED written
    BY <1>1, <1>14 DEF ReadSessions, Continue, Goto
  <2> DEFINE open == OpenSessions(a)
             view == [seen[t] EXCEPT !.sessions = open]
  <2>2. open \in SUBSET Sessions /\ \A s \in open : sessions[s] # NoSession
    BY DEF OpenSessions
  <2>3. /\ Target(t)' = a /\ Kind(t)' = Kind(t) /\ AccountRow(Target(t))' = AccountRow(a)
        /\ OpenSessions(Target(t))' = open
    BY <2>1 DEF Target, Kind, AccountRow, OpenSessions
  <2> HIDE DEF open
  <2>4. view \in Views /\ view.sessions = open
    BY <1>1, <2>2 DEF Views
  <2>5. seen' = [seen EXCEPT ![t] = view]
    BY <1>1, <2>1 DEF open
  <2> HIDE DEF view
  <2>6. Kept /\ seen'[t].sessions = open
    BY <1>1, <2>1, <2>4, <2>5
  <2>7. LifecycleCheck(written[t]) => LifecycleCheck(written[t])'
    BY <2>1 DEF LifecycleCheck
  <2>8. Changing(t)'
    BY <1>1, <2>1, <2>2, <2>3, <2>6, <2>7 DEF Changing
  <2> QED BY <2>6, <2>8
<1>15. CASE Login(t)
  <2>1. ASSUME NEW row, LoginWith(t, row)
        PROVE  EndRequest(t)
    BY <2>1 DEF LoginWith, Refused, LoggedIn, Fail
  <2> QED BY <1>4, <1>5, <1>15, <2>1 DEF Login
<1>16. CASE Logout(t) \/ RevokeSessions(t) \/ ReplacePermissions(t) \/ Create(t) \/ Fail(t)
  BY <1>4, <1>5, <1>16 DEF Logout, RevokeSessions, ReplacePermissions, Create
<1>17. Changing(t)' /\ Kept
  BY <1>9, <1>10, <1>11, <1>12, <1>13, <1>14, <1>15, <1>16 DEF AccessStep, AccountStep
<1> QED BY <1>17


\* Steps of other parts, and the end of a request.
LEMMA AccountsQuiet ==
  ASSUME ThreadsOK, AccountsOK, UNCHANGED workload, NEW t \in Threads, Others(t),
         pc[t] \notin {"sessions", "commit"} \/ written'[t] = NoAccount,
         pc'[t] \notin {"count", "update", "sessions", "commit", "replace"},
         UNCHANGED account, UNCHANGED grants, UNCHANGED sessions, UNCHANGED wrong,
         seen' \in {seen, [seen EXCEPT ![t] = NothingSeen]},
         written' \in {written, [written EXCEPT ![t] = NoAccount]}
  PROVE  AccountsOK'
<1>1. AccessOK' /\ AccountsLeft(t)
  BY AccessUntouched DEF AccountsOK, AccessOK
<1>2. NothingSeen \in Views
  BY DEF NothingSeen, Views
<1>3. /\ seen' \in [Threads -> Views]
      /\ written' \in [Threads -> AccountRows \union {NoAccount}]
      /\ \A u \in Threads \ {t} : seen'[u] = seen[u] /\ written'[u] = written[u]
  BY <1>2 DEF AccountsOK
<1>4. written'[t] = NoAccount
  BY DEF AccountsOK, Changing
<1>5. Changing(t)'
  BY <1>4 DEF Changing
<1>6. \A u \in Threads \ {t} : Changing(u)'
  BY <1>1, <1>3, ChangingLeft DEF AccountsOK
<1> QED BY <1>1, <1>3, <1>5, <1>6 DEF AccountsOK

\* Steps of nobody's: the rows change, the threads do not.
LEMMA AccountsElsewhere ==
  ASSUME ThreadsOK, AccountsOK, AccessOK', UNCHANGED pc, UNCHANGED request, UNCHANGED lock,
         UNCHANGED seen, UNCHANGED written,
         \A a \in Administrators : account[a] # NoAccount => account'[a] # NoAccount,
         \A s \in Sessions : sessions[s] # NoSession => Ended(sessions[s], sessions'[s]),
         \A s \in Sessions : sessions[s] = NoSession => sessions'[s] = NoSession
  PROVE  AccountsOK'
<1>1. ASSUME NEW u \in Threads
      PROVE  Changing(u)'
  <2> DEFINE a == Target(u)
  <2>1. /\ Target(u)' = a /\ Kind(u)' = Kind(u) /\ AccountRow(Target(u))' = AccountRow(a)
    BY DEF Target, Kind, AccountRow
  <2>2. pc[u] \in {"count", "update", "sessions", "commit", "replace"} =>
          a \in Administrators
    BY TargetKnown
  <2>3. \A s \in OpenSessions(Target(u))' : s \in OpenSessions(a)
    BY <2>1 DEF OpenSessions, Ended
  <2>4. LifecycleCheck(written[u]) => LifecycleCheck(written[u])'
    BY DEF LifecycleCheck
  <2>5. Changing(u) /\ seen[u] \in Views
    BY DEF AccountsOK
  <2>6. \A s \in seen[u].sessions : sessions[s] # NoSession => sessions'[s] # NoSession
    BY <2>5 DEF Ended, Views
  <2> QED BY <2>1, <2>2, <2>3, <2>4, <2>5, <2>6 DEF Changing
<1> QED BY <1>1 DEF AccountsOK

LEMMA TimePasses ==
  ASSUME ThreadsOK, AccountsOK, UNCHANGED threads, UNCHANGED workload,
         \/ \E a \in Administrators : LockRunsOut(a)
         \/ \E s \in Sessions : Expire(s)
  PROVE  AccountsOK'
<1>1. AccessOK
  BY DEF AccountsOK
<1>2. ASSUME NEW a \in Administrators, LockRunsOut(a)
      PROVE  AccountsOK'
  <2> DEFINE before == account[a]
             row == [before EXCEPT !.locked = "elapsed"]
  <2>1. before \in AccountRows /\ Lawful(before) /\ before.locked = "running"
        /\ before # NoAccount
    BY <1>1, <1>2 DEF LockRunsOut, AccessOK
  <2>2. /\ row \in AccountRows /\ row.status = before.status /\ row.password = before.password
        /\ row.failed = before.failed
    BY <2>1 DEF AccountRows
  <2>3. Lawful(row)
    <3>1. [row EXCEPT !.locked = IF row.locked = "elapsed" THEN "running" ELSE row.locked] = before
      BY <2>1 DEF AccountRows
    <3>2. LifecycleCheck(before)
      <4>1. [before EXCEPT !.locked = IF before.locked = "elapsed" THEN "running"
                                      ELSE before.locked] = before
        BY <2>1 DEF AccountRows
      <4> QED BY <2>1, <4>1 DEF Lawful
    <3> QED BY <3>1, <3>2 DEF Lawful
  <2>4. account' = [account EXCEPT ![a] = row] /\ UNCHANGED grants /\ UNCHANGED sessions
        /\ UNCHANGED wrong /\ UNCHANGED seen /\ UNCHANGED written
    BY <1>1, <1>2 DEF LockRunsOut, AccessOK
  <2>5. row # NoAccount
    BY <2>2, AccountMarksAssumption
  <2>6. row.status = "active" => wrong'[a] <= row.failed
    BY <1>1, <2>1, <2>2, <2>4 DEF AccessOK, FailuresCounted
  <2>7. \A s \in Sessions :
          sessions'[s] # NoSession /\ sessions'[s].state = "open"
            /\ sessions'[s].administrator = a =>
              row.status # "disabled" /\ row.password = sessions'[s].password
    BY <1>1, <2>2, <2>4 DEF AccessOK, OpenSessionsCurrent
  <2>8. \A s \in Sessions : sessions[s] # NoSession => Ended(sessions[s], sessions'[s])
    BY <2>4 DEF Ended
  <2>9. /\ grants' \in [Administrators -> SUBSET GrantRows]
        /\ sessions' \in [Sessions -> SessionRows \union {NoSession}]
        /\ wrong' \in [Administrators -> Nat]
        /\ \A b \in Administrators \ {a} : wrong'[b] \in {0, wrong[b]}
    BY <1>1, <2>4 DEF AccessOK
  <2> HIDE DEF row, before
  <2>10. AccessOK'
    BY <1>1, <2>2, <2>3, <2>4, <2>6, <2>7, <2>8, <2>9, AccountChanges
  <2>11. \A b \in Administrators : account[b] # NoAccount => account'[b] # NoAccount
    BY <1>1, <2>4, <2>5 DEF AccessOK
  <2>12. UNCHANGED pc /\ UNCHANGED request /\ UNCHANGED lock
    BY DEF threads
  <2> QED BY <2>4, <2>8, <2>10, <2>11, <2>12, AccountsElsewhere
<1>3. ASSUME NEW s \in Sessions, Expire(s)
      PROVE  AccountsOK'
  <2> DEFINE row == [sessions[s] EXCEPT !.state = "expired"]
  <2>1. sessions[s] \in SessionRows /\ sessions[s] # NoSession
    BY <1>1, <1>3 DEF Expire, AccessOK
  <2>2. /\ row \in SessionRows /\ row.administrator = sessions[s].administrator
        /\ row.password = sessions[s].password /\ row.state = "expired"
    BY <2>1 DEF SessionRows
  <2>3. /\ sessions' = [sessions EXCEPT ![s] = row] /\ UNCHANGED account /\ UNCHANGED grants
        /\ UNCHANGED wrong /\ UNCHANGED seen /\ UNCHANGED written
    BY <1>1, <1>3 DEF Expire, AccessOK
  <2> HIDE DEF row
  <2>4. Ended(sessions[s], row)
    BY <2>2, AccountMarksAssumption DEF Ended
  <2>5. /\ sessions' \in [Sessions -> SessionRows \union {NoSession}]
        /\ \A r \in Sessions : sessions[r] # NoSession => Ended(sessions[r], sessions'[r])
        /\ \A r \in Sessions : sessions[r] = NoSession => sessions'[r] = NoSession
    BY <1>1, <2>1, <2>2, <2>3, <2>4 DEF AccessOK, Ended
  <2>6. AccessOK'
    BY <1>1, <2>3, <2>5, SessionsEnd DEF AccessOK
  <2>7. UNCHANGED pc /\ UNCHANGED request /\ UNCHANGED lock
    BY DEF threads
  <2> QED BY <2>3, <2>5, <2>6, <2>7, AccountsElsewhere
<1> QED BY <1>2, <1>3

LEMMA AccountsKept ==
  ASSUME ThreadsOK, AccountsOK, [Next]_vars
  PROVE  AccountsOK'
<1>1. ASSUME NEW t \in Threads, AccessStep(t) \/ AccountStep(t), Others(t), UNCHANGED workload
      PROVE  AccountsOK'
  <2>1. AccessOK' /\ AccountsLeft(t)
    BY <1>1, AccessRows
  <2>2. /\ Changing(t)'
        /\ seen' \in [Threads -> Views]
        /\ written' \in [Threads -> AccountRows \union {NoAccount}]
        /\ \A u \in Threads \ {t} : seen'[u] = seen[u] /\ written'[u] = written[u]
    BY <1>1, ChangingKept
  <2>3. \A u \in Threads \ {t} : Changing(u)'
    BY <1>1, <2>1, <2>2, ChangingLeft DEF AccountsOK
  <2> QED BY <2>1, <2>2, <2>3 DEF AccountsOK
<1>2. ASSUME NEW t \in Threads, Others(t), UNCHANGED administration, UNCHANGED workload,
             pc[t] \notin {"sessions", "commit"},
             pc'[t] \notin {"count", "update", "sessions", "commit", "replace"}
      PROVE  AccountsOK'
  BY <1>2, AccountsQuiet DEF administration
<1>3. ASSUME NEW t \in Threads, ThreadStep(t)
      PROVE  AccountsOK'
  <2>1. CASE AdministratorStep(t)
    BY <1>1, <2>1, AccountServed, ServedKept DEF AdministratorStep, Parts
  <2>2. CASE PolicyStep(t)
    BY <1>2, <2>2, PolicyServed, ServedKept DEF PolicyStep, Parts, PolicyLabels, Served
  <2>3. CASE DeviceStep(t)
    BY <1>2, <2>3, DeviceServed, ServedKept DEF DeviceStep, Parts, DeviceLabels, Served
  <2> QED BY <1>3, <2>1, <2>2, <2>3 DEF ThreadStep
<1>4. ASSUME NEW t \in Threads, Receive(t)
      PROVE  AccountsOK'
  BY <1>2, <1>4, Received
<1>5. ASSUME NEW t \in Threads, Abort(t)
      PROVE  AccountsOK'
  <2>1. written'[t] = NoAccount
    BY <1>5 DEF Abort, AccountsOK
  <2> QED BY <1>5, <2>1, Aborted, AccountsQuiet DEF Abort
<1>6. ASSUME UNCHANGED threads, UNCHANGED administration, UNCHANGED workload
      PROVE  AccountsOK'
  <2>1. /\ \A s \in Sessions : sessions[s] # NoSession => Ended(sessions[s], sessions'[s])
        /\ UNCHANGED account /\ UNCHANGED sessions /\ UNCHANGED wrong /\ UNCHANGED grants
        /\ UNCHANGED seen /\ UNCHANGED written
    BY <1>6 DEF administration, Ended
  <2>2. AccessOK'
    BY <1>6, <2>1, SessionsEnd DEF AccountsOK, AccessOK
  <2> QED BY <1>6, <2>1, <2>2, AccountsElsewhere DEF threads
<1>7. CASE Environment /\ UNCHANGED <<threads, workload>>
  BY <1>6, <1>7, TimePasses DEF Environment
<1> QED BY <1>3, <1>4, <1>5, <1>6, <1>7 DEF Next, vars


LEMMA AccountsStart == Init => AccountsOK
<1> SUFFICES ASSUME Init PROVE AccountsOK
  OBVIOUS
<1> DEFINE w == workload
<1>1. /\ w \in Workloads /\ account = w.accounts /\ grants = w.grants /\ sessions = w.sessions
      /\ seen = [t \in Threads |-> NothingSeen] /\ written = [t \in Threads |-> NoAccount]
      /\ wrong = [a \in Administrators |-> 0] /\ \A t \in Threads : pc[t] = "idle"
  BY DEF Init, AdministratorsInit, ThreadsInit
<1>2. /\ account \in [Administrators -> AccountRows \union {NoAccount}]
      /\ \A a \in Administrators : account[a] # NoAccount => LifecycleCheck(account[a])
      /\ grants \in [Administrators -> SUBSET GrantRows]
      /\ sessions \in [Sessions -> SessionRows \union {NoSession}]
      /\ \A s \in Sessions : sessions[s] # NoSession =>
           LET row == account[sessions[s].administrator] IN
           /\ row # NoAccount
           /\ sessions[s].state = "open" =>
                row.status # "disabled" /\ row.password = sessions[s].password
      /\ \A q \in w.requests : q.session # NoSession => sessions[q.session] # NoSession
  BY <1>1, WorkloadsAssumption
<1>3. \A q \in w.requests : q.session \in Sessions \union {NoSession}
  BY <1>1, RequestsAssumption DEF Requests
<1>4. ASSUME NEW a \in Administrators, account[a] # NoAccount
      PROVE  /\ Lawful(account[a])
             /\ account[a].status = "active" =>
                  wrong[a] <= account[a].failed /\ account[a].failed < MaxAttempts
  <2>1. account[a] \in AccountRows /\ LifecycleCheck(account[a]) /\ account[a].failed \in Nat
    BY <1>2, <1>4 DEF AccountRows
  <2>2. account[a].status = "active" => account[a].failed < MaxAttempts
    BY <2>1 DEF LifecycleCheck
  <2> QED BY <1>1, <2>1, <2>2, CheckedIsLawful
<1>5. AccessOK
  <2>1. OpenSessionsCurrent
    BY <1>2 DEF OpenSessionsCurrent
  <2>2. FailuresCounted
    BY <1>4 DEF FailuresCounted
  <2> QED BY <1>1, <1>2, <1>3, <1>4, <2>1, <2>2 DEF AccessOK
<1>6. NothingSeen \in Views
  BY DEF NothingSeen, Views
<1>7. \A t \in Threads : Changing(t)
  BY <1>1 DEF Changing
<1> QED BY <1>1, <1>5, <1>6, <1>7 DEF AccountsOK

LEMMA AccountsAlways == Spec => [](ThreadsOK /\ AccountsOK)
<1>1. Init => ThreadsOK /\ AccountsOK
  BY ThreadsStart, AccountsStart
<1>2. ThreadsOK /\ AccountsOK /\ [Next]_vars => (ThreadsOK /\ AccountsOK)'
  BY ThreadsKept, AccountsKept
<1> QED BY <1>1, <1>2, PTL DEF Spec

\* No open session outlives the password or the account it was opened with:
\* the UPDATE that changes the account locks it before the open sessions are
\* read, and a login holds it from its first read on.
THEOREM SessionsAreCurrent == Spec => []OpenSessionsCurrent
<1>1. AccountsOK => OpenSessionsCurrent
  BY DEF AccountsOK, AccessOK
<1> QED BY <1>1, AccountsAlways, PTL

\* Every refused password is counted until the account is locked, whatever
\* resets and disablings, which read the account without a lock, write between.
THEOREM FailuresAreCounted == Spec => []FailuresCounted
<1>1. AccountsOK => FailuresCounted
  BY DEF AccountsOK, AccessOK
<1> QED BY <1>1, AccountsAlways, PTL

\* Every part keeps its types and the database its checks.
THEOREM Typing == Spec => []TypeOK
<1>1. ThreadsOK /\ RegisterOK /\ CatalogueOK /\ AccountsOK => TypeOK
  <2> SUFFICES ASSUME ThreadsOK, RegisterOK, CatalogueOK, AccountsOK
               PROVE  TypeOK
    OBVIOUS
  <2>1. /\ account \in [Administrators -> AccountRows \union {NoAccount}]
        /\ \A a \in Administrators : account[a] # NoAccount =>
             LifecycleCheck([account[a] EXCEPT !.locked = IF @ = "elapsed" THEN "running" ELSE @])
        /\ grants \in [Administrators -> SUBSET GrantRows]
        /\ sessions \in [Sessions -> SessionRows \union {NoSession}]
        /\ wrong \in [Administrators -> Nat]
        /\ written \in [Threads -> AccountRows \union {NoAccount}]
    BY DEF AccountsOK, AccessOK, Lawful
  <2>2. /\ policies \in [Policies -> Lifecycles \union {NoPolicy}]
        /\ \A p \in Policies : assigned[p] \subseteq {r.version : r \in revisions[p]}
        /\ numbered \in [Threads -> Nat]
    BY DEF CatalogueOK, PoliciesOK, Numbering, Versions
  <2>3. devices \in [Devices -> DeviceRows \union {NoDevice}] /\ registered \in Nat
    BY DEF RegisterOK, RowsOK
  <2> QED BY <2>1, <2>2, <2>3 DEF TypeOK, ThreadsOK
<1> QED BY <1>1, RegisterAlways, CatalogueAlways, AccountsAlways, PTL
-----------------------------------------------------------------------------
(* Who waits for whom *)

AccountHolding == {"sessions", "commit"}
PolicyHolding == {"check_required", "number", "store_revision"}
DeviceHolding == {"store_enrolled", "store_asset", "redact"}

\* The statement at which a thread holds a row.
HoldsAt(u) ==
  /\ \A a \in Administrators : lock[AccountRow(a)] = u => pc[u] \in AccountHolding
  /\ \A p \in Policies : lock[PolicyRow(p)] = u => pc[u] \in PolicyHolding
  /\ \A d \in Devices :
       /\ lock[DeviceRow(d)] = u => pc[u] \in DeviceHolding /\ DeviceOf(u) = d
       /\ lock[LocationRow(d)] = u => pc[u] = "store_location" /\ DeviceOf(u) = d

LockHolders == \A u \in Threads : HoldsAt(u)

\* The row that a step takes, at the statement it is taken at.
Takes(t, r) ==
  /\ lock' = [lock EXCEPT ![r] = t]
  /\ \/ pc[t] = "update" /\ pc'[t] = "sessions" /\ r = AccountRow(Target(t))
     \/ pc[t] = "lock_policy" /\ pc'[t] = "check_required" /\ r = PolicyRow(request[t].policy)
     \/ pc[t] = "handle" /\ pc'[t] \in DeviceHolding /\ r = DeviceRow(DeviceOf(t))
     \/ pc[t] = "handle" /\ pc'[t] = "store_location" /\ r = LocationRow(DeviceOf(t))

\* A step without a lock, at a statement without one or between two with it.
Passes(t) ==
  /\ lock' = lock
  /\ \/ pc[t] \notin AccountHolding \union PolicyHolding \union DeviceHolding
                     \union {"store_location"}
     \/ pc[t] \in AccountHolding /\ pc'[t] \in AccountHolding
     \/ pc[t] \in PolicyHolding /\ pc'[t] \in PolicyHolding

Locking(t) ==
  Finish(t) \/ (UNCHANGED request /\ (Passes(t) \/ \E r : Takes(t, r)))

LEMMA AccountLocks ==
  ASSUME ThreadsOK, NEW t \in Threads, AccessStep(t) \/ AccountStep(t)
  PROVE  Locking(t)
<1> USE DEF AccountHolding, PolicyHolding, DeviceHolding, Locking, Passes, Takes
<1>0. pc \in [Threads -> Labels]
  BY DEF ThreadsOK
<1>1. CASE AccessStep(t)
  BY <1>1 DEF AccessStep, LoadContext, Permit, Fail, EndRequest, Continue
<1>2. CASE Login(t)
  BY <1>2 DEF Login, LoginWith, Refused, LoggedIn, Fail, EndRequest
<1>3. CASE Logout(t) \/ Authorize(t) \/ Find(t) \/ CountManagers(t)
  BY <1>3 DEF Logout, Authorize, Find, CountManagers, Fail, EndRequest, Continue
<1>4. CASE UpdateAccount(t)
  BY <1>0, <1>4 DEF UpdateAccount, Fail, EndRequest, LockRow, Goto
<1>5. CASE ReadSessions(t)
  BY <1>0, <1>5 DEF ReadSessions, Continue, Goto
<1>6. CASE RevokeSessions(t) \/ ReplacePermissions(t) \/ Create(t) \/ Bootstrap(t)
  BY <1>6 DEF RevokeSessions, ReplacePermissions, Create, Bootstrap, Fail, EndRequest, Continue
<1> QED
  BY <1>1, <1>2, <1>3, <1>4, <1>5, <1>6 DEF AccountStep

LEMMA PolicyLocks ==
  ASSUME ThreadsOK, NEW t \in Threads, PolicyStep(t)
  PROVE  Locking(t)
<1> USE DEF AccountHolding, PolicyHolding, DeviceHolding, Locking, Passes, Takes, Refuse, Leave
<1>0. pc \in [Threads -> Labels]
  BY DEF ThreadsOK
<1>1. CASE Materialize(t, SchoolName) \/ CheckCode(t) \/ StorePolicy(t)
  BY <1>1 DEF Materialize, CheckCode, StorePolicy, Continue
<1>2. CASE LockPolicy(t)
  BY <1>0, <1>2 DEF LockPolicy, LockRow, Goto
<1>3. CASE CheckRequired(t) \/ Number(t)
  BY <1>0, <1>3 DEF CheckRequired, Number, Continue, Goto
<1>4. CASE StoreRevision(t) \/ SetLifecycle(t) \/ UpdateApplication(t)
  BY <1>4 DEF StoreRevision, SetLifecycle, UpdateApplication
<1> QED
  BY <1>1, <1>2, <1>3, <1>4 DEF PolicyStep, CatalogueStep

LEMMA DeviceLocks ==
  ASSUME ThreadsOK, NEW t \in Threads, RegisterStep(t)
  PROVE  Locking(t)
<1> USE DEF AccountHolding, PolicyHolding, DeviceHolding, Locking, Passes, Takes, GiveUp, Close
<1>0. pc \in [Threads -> Labels]
  BY DEF ThreadsOK
<1>1. CASE FindDevice(t) \/ InsertDevice(t) \/ StoreEvent(t) \/ RegisterAsset(t)
  BY <1>1 DEF FindDevice, InsertDevice, StoreEvent, RegisterAsset, CompleteExisting, Continue
<1>2. CASE LockEnrolled(t) \/ LockAsset(t) \/ LockRetired(t)
  BY <1>0, <1>2 DEF LockEnrolled, LockAsset, LockRetired, LockRow, Continue, Goto
<1>3. CASE StoreAsset(t) \/ Redact(t) \/ InsertLocation(t) \/ StoreLocation(t) \/ DeadlockVictim(t)
  BY <1>3 DEF StoreAsset, Redact, InsertLocation, StoreLocation, DeadlockVictim
<1>6. CASE InsertEnrolled(t) \/ StoreEnrolled(t)
  BY <1>6 DEF InsertEnrolled, StoreEnrolled
<1>4. CASE LockLocation(t)
  BY <1>0, <1>4 DEF LockLocation, LockRow, Goto
<1>5. CASE FindLocated(t) \/ FindSchool(t) \/ InsertSchool(t) \/ UpdateSchool(t)
  BY <1>5 DEF FindLocated, FindSchool, InsertSchool, UpdateSchool, Continue
<1> QED
  BY <1>1, <1>2, <1>3, <1>4, <1>5, <1>6 DEF RegisterStep

\* What a step leaves to the other threads, and how it moves its own.
LEMMA StepLocks ==
  ASSUME ThreadsOK, NEW t \in Threads, Receive(t) \/ ThreadStep(t) \/ Abort(t)
  PROVE  /\ Others(t)
         /\ Finish(t) \/ Passes(t) \/ (UNCHANGED request /\ \E r : Takes(t, r))
<1>1. CASE Receive(t)
  BY <1>1, Received DEF Receive, Passes, AccountHolding, PolicyHolding, DeviceHolding
<1>2. CASE Abort(t)
  BY <1>2, Aborted DEF Abort
<1>3. CASE AdministratorStep(t)
  BY <1>3, AccountServed, ServedKept, AccountLocks DEF AdministratorStep, Parts, Locking
<1>4. CASE PolicyStep(t)
  BY <1>4, PolicyServed, ServedKept, PolicyLocks DEF PolicyStep, Parts, Locking
<1>5. CASE DeviceStep(t)
  BY <1>5, DeviceServed, ServedKept, DeviceLocks DEF DeviceStep, Parts, Locking
<1> QED
  BY <1>1, <1>2, <1>3, <1>4, <1>5 DEF ThreadStep

LEMMA LockHoldersKept ==
  ASSUME ThreadsOK, LockHolders, NEW t \in Threads, Receive(t) \/ ThreadStep(t) \/ Abort(t)
  PROVE  LockHolders'
<1>1. /\ Others(t)
      /\ Finish(t) \/ Passes(t) \/ (UNCHANGED request /\ \E r : Takes(t, r))
  BY StepLocks
<1>2. /\ \A a \in Administrators : AccountRow(a)' = AccountRow(a)
      /\ \A p \in Policies : PolicyRow(p)' = PolicyRow(p)
      /\ \A d \in Devices : DeviceRow(d)' = DeviceRow(d) /\ LocationRow(d)' = LocationRow(d)
  BY DEF AccountRow, PolicyRow, DeviceRow, LocationRow
<1>3. ASSUME NEW u \in Threads \ {t}
      PROVE  HoldsAt(u)'
  <2>1. pc'[u] = pc[u] /\ DeviceOf(u)' = DeviceOf(u) /\ \A r \in Rows : lock'[r] = u <=> lock[r] = u
    BY <1>1 DEF Others, DeviceOf
  <2>2. HoldsAt(u)
    BY DEF LockHolders
  <2> QED
    BY <2>1, <2>2, RowsLockable DEF HoldsAt, AccountRow, PolicyRow, DeviceRow, LocationRow
<1>4. HoldsAt(t)'
  <2>1. HoldsAt(t) /\ lock \in [Rows -> Threads \union {NoThread}]
    BY DEF LockHolders, ThreadsOK
  <2>2. CASE Finish(t)
    <3>1. \A r \in Rows : lock'[r] # t
      BY <2>1, <2>2, ThreadsAssumption DEF Finish
    <3> QED
      BY <3>1, RowsLockable DEF HoldsAt, AccountRow, PolicyRow, DeviceRow, LocationRow
  <2>3. CASE Passes(t)
    <3>1. \A d \in Devices : lock'[DeviceRow(d)] # t /\ lock'[LocationRow(d)] # t
      BY <2>1, <2>3 DEF HoldsAt, Passes, AccountHolding, PolicyHolding, DeviceHolding
    <3>2. /\ \A a \in Administrators : lock'[AccountRow(a)] = t => pc'[t] \in AccountHolding
          /\ \A p \in Policies : lock'[PolicyRow(p)] = t => pc'[t] \in PolicyHolding
      BY <2>1, <2>3 DEF HoldsAt, Passes, AccountHolding, PolicyHolding
    <3> QED
      BY <3>1, <3>2 DEF HoldsAt, AccountRow, PolicyRow, DeviceRow, LocationRow
  <2>4. ASSUME UNCHANGED request, NEW r, Takes(t, r)
        PROVE  HoldsAt(t)'
    <3>1. \A q \in Rows : lock'[q] = t => q = r \/ lock[q] = t
      BY <2>1, <2>4 DEF Takes
    <3>2. \A q \in Rows : q \in {AccountRow(a) : a \in Administrators}
                             \union {PolicyRow(p) : p \in Policies}
                             \union {DeviceRow(d) : d \in Devices}
                             \union {LocationRow(d) : d \in Devices} => lock[q] # t
      BY <2>1, <2>4 DEF Takes, HoldsAt, AccountHolding, PolicyHolding, DeviceHolding
    <3>3. /\ \A a \in Administrators : lock'[AccountRow(a)] = t => AccountRow(a) = r
          /\ \A p \in Policies : lock'[PolicyRow(p)] = t => PolicyRow(p) = r
          /\ \A d \in Devices : lock'[DeviceRow(d)] = t => DeviceRow(d) = r
          /\ \A d \in Devices : lock'[LocationRow(d)] = t => LocationRow(d) = r
      BY <3>1, <3>2, RowsLockable
    <3>4. DeviceOf(t)' = DeviceOf(t)
      BY <2>4 DEF DeviceOf
    <3> QED
      BY <2>4, <3>3, <3>4 DEF Takes, HoldsAt, AccountRow, PolicyRow, DeviceRow, LocationRow,
         AccountHolding, PolicyHolding, DeviceHolding
  <2> QED
    BY <1>1, <2>2, <2>3, <2>4
<1> QED
  BY <1>3, <1>4 DEF LockHolders

\* How far a thread has come in the order in which rows are locked.
Rank(t) ==
  CASE pc[t] \in AccountHolding \union PolicyHolding \union DeviceHolding -> 2
    [] pc[t] = "store_location" -> 1
    [] OTHER -> 0

\* Apart from the one deadlock, whoever is waited for has come further.
LEMMA WaitsUpwards ==
  ASSUME ThreadsOK, RegisterOK, LockHolders, NEW t \in Threads, NEW u \in Threads,
         WaitsFor(t, u), ~ Deadlocked(t, u)
  PROVE  Rank(t) < Rank(u)
<1>1. PICK r \in Rows : lock[r] = u /\ Needs(t, r) /\ t # u
  BY DEF WaitsFor
<1>2. HoldsAt(u) /\ HoldsAt(t) /\ AssetHeld(t)
  BY DEF LockHolders, RegisterOK
<1>3. pc[t] # "idle"
  BY <1>1 DEF Needs
<1>4. CASE /\ pc[t] = "update" \/ (pc[t] = "handle" /\ Kind(t) = "login")
           /\ r = AccountRow(Target(t))
  <2>1. Target(t) \in Administrators
    BY <1>3, <1>4, Parsed DEF Fits, Kind, ManagementKinds
  <2>2. Rank(t) = 0 /\ Rank(u) = 2
    BY <1>1, <1>2, <1>4, <2>1 DEF Rank, HoldsAt, AccountHolding, PolicyHolding, DeviceHolding
  <2> QED
    BY <2>2
<1>5. CASE /\ pc[t] = "lock_policy" \/ (pc[t] = "handle" /\ Kind(t) = "lifecycle")
           /\ r = PolicyRow(request[t].policy)
  <2>1. request[t].policy \in Policies
    BY <1>3, <1>5, Parsed DEF Fits, Kind
  <2>2. Rank(t) = 0 /\ Rank(u) = 2
    BY <1>1, <1>2, <1>5, <2>1 DEF Rank, HoldsAt, AccountHolding, PolicyHolding, DeviceHolding
  <2> QED
    BY <2>2
<1>6. CASE /\ \/ pc[t] \in {"store_event", "store_enrolled", "store_asset", "insert_location",
                          "store_location"}
              \/ pc[t] = "handle" /\ Kind(t) \in {"enroll", "correct", "redact"}
           /\ r = DeviceRow(DeviceOf(t))
  <2>1. DeviceOf(t) \in Devices
    BY <1>3, <1>6, Parsed DEF Fits, Kind, DeviceKinds
  <2>2. pc[t] \notin {"store_enrolled", "store_asset"}
    BY <1>1, <1>2, <1>6 DEF AssetHeld, Claiming
  <2>3. Rank(t) \in {0, 1} /\ Rank(u) = 2
    BY <1>1, <1>2, <1>6, <2>1, <2>2 DEF Rank, HoldsAt, AccountHolding, PolicyHolding, DeviceHolding
  <2> QED
    BY <2>3
<1>7. CASE /\ pc[t] = "redact" \/ (pc[t] = "handle" /\ Kind(t) = "relocate")
           /\ r = LocationRow(DeviceOf(t))
  <2>1. DeviceOf(t) \in Devices
    BY <1>3, <1>7, Parsed DEF Fits, Kind, DeviceKinds
  <2>2. pc[u] = "store_location" /\ DeviceOf(u) = DeviceOf(t)
    BY <1>1, <1>2, <1>7, <2>1 DEF HoldsAt
  <2>3. pc[t] # "redact"
    BY <1>1, <1>2, <1>7, <2>2 DEF AssetHeld, Claiming, Deadlocked
  <2>4. Rank(t) = 0 /\ Rank(u) = 1
    BY <1>7, <2>2, <2>3 DEF Rank, AccountHolding, PolicyHolding, DeviceHolding
  <2> QED
    BY <2>4
<1> QED
  BY <1>1, <1>4, <1>5, <1>6, <1>7 DEF Needs

LEMMA SomeoneRuns ==
  ASSUME ThreadsOK, RegisterOK, LockHolders
  PROVE  OneDeadlockOnly
<1> SUFFICES ASSUME NEW S \in (SUBSET Threads) \ {{}}, \A t, u \in S : ~ Deadlocked(t, u)
             PROVE  \E t \in S : \A u \in S : ~ WaitsFor(t, u)
  BY DEF OneDeadlockOnly
<1>1. \A t \in S : Rank(t) \in 0 .. 2
  BY DEF Rank
<1>2. PICK t \in S : \A u \in S : Rank(u) <= Rank(t)
  <2>1. CASE \E t \in S : Rank(t) = 2
    BY <1>1, <2>1
  <2>2. CASE (\A t \in S : Rank(t) # 2) /\ \E t \in S : Rank(t) = 1
    BY <1>1, <2>2
  <2>3. CASE \A t \in S : Rank(t) \notin {1, 2}
    BY <1>1, <2>3
  <2> QED
    BY <2>1, <2>2, <2>3
<1>3. \A u \in S : ~ (Rank(t) < Rank(u))
  BY <1>1, <1>2
<1> QED
  BY <1>3, WaitsUpwards

\* No circle of waiting closes among any number of requests, but for the one of
\* redact_retired_device and correct_location_assignment, which the database
\* finds and DeadlockVictim ends.
THEOREM NoOtherDeadlock == Spec => []OneDeadlockOnly
<1>1. Init => LockHolders
  <2> SUFFICES ASSUME Init PROVE LockHolders
    OBVIOUS
  <2>1. \A u \in Threads, r \in Rows : lock[r] # u
    BY ThreadsAssumption DEF Init, ThreadsInit
  <2>2. ASSUME NEW u \in Threads PROVE HoldsAt(u)
    BY <2>1, RowsLockable DEF HoldsAt
  <2> QED
    BY <2>2 DEF LockHolders
<1>2. ThreadsOK /\ LockHolders /\ [Next]_vars => LockHolders'
  <2> SUFFICES ASSUME ThreadsOK, LockHolders, [Next]_vars PROVE LockHolders'
    OBVIOUS
  <2>1. CASE \E t \in Threads : Receive(t) \/ ThreadStep(t) \/ Abort(t)
    BY <2>1, LockHoldersKept
  <2>2. CASE UNCHANGED threads
    <3>1. ASSUME NEW u \in Threads PROVE HoldsAt(u)'
      <4>1. HoldsAt(u) /\ DeviceOf(u)' = DeviceOf(u) /\ UNCHANGED <<pc, lock>>
        BY <2>2 DEF LockHolders, threads, DeviceOf
      <4> QED
        BY <4>1 DEF HoldsAt, AccountRow, PolicyRow, DeviceRow, LocationRow
    <3> QED
      BY <3>1 DEF LockHolders
  <2> QED
    BY <2>1, <2>2 DEF Next, vars
<1>3. ThreadsOK /\ RegisterOK /\ LockHolders => OneDeadlockOnly
  BY SomeoneRuns
<1> QED
  BY <1>1, <1>2, <1>3, RegisterAlways, PTL DEF Spec
=============================================================================
