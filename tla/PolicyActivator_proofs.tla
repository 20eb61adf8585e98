-------------------------- MODULE PolicyActivator_proofs --------------------------
(***************************************************************************)
(* What the tables of a device, and the reports of its activator, say is   *)
(* true.                                                                   *)
(*                                                                         *)
(* The types and what the state row claims hold whatever runs together.    *)
(* SyncScheduler.kt lets two sync workers run at once, so the rest is said *)
(* of what ran alone, which history variables record and the invariant     *)
(* Alone explains.  An operation that no other ran beside sets, or clears, *)
(* the controls one after the other (ControlPhase), keeps what is blocked  *)
(* suspended (PackagePhase), and the uninstalls and the location as it set *)
(* them (SettingPhase), whatever ran before it.  What the tables say holds *)
(* until two operations overlapped for the first time: a worker that has   *)
(* read the active envelope finds it as it was when it supersedes or       *)
(* clears it, and no envelope is active from then to the end of the        *)
(* activation (TablePhase).  Failures and crashes leave the table as it is *)
(* and are covered by these invariants at every step.                      *)
(***************************************************************************)
EXTENDS PolicyActivator, SequenceTheorems, WellFoundedInduction, TLAPS

\* The groups of variables stand for their members throughout.
USE DEF tables, settings, device, report, history, sync, vars

Enforcing ==
  {"pending", "suspend", "controls", "filter", "screen_time", "mark_active"}

ActivationLabels == Enforcing \union {"read_active", "supersede", "insert"}

ClearingLabels ==
  {"clear_network", "clear_filter", "clear_read", "clear_packages", "clear_controls",
   "clear_screen_time", "clear_envelope", "clear_state"}

RollbackLabels == {"rollback_read", "rollback_choose"}

Labels == ActivationLabels \union ClearingLabels \union RollbackLabels \union {"idle", "done"}

\* What worker w was asked for fits what it does.
OrderFits(w) ==
  /\ pc[w] \in Labels
  /\ pc[w] # "idle" => order[w] \in Orders
  /\ pc[w] \in ActivationLabels => order[w].revision \in Revisions
  /\ pc[w] \in ClearingLabels \union RollbackLabels => order[w].revision = NoRevision
  /\ pc[w] = "controls" => step[w] \in 1 .. Len(ActivationSteps)
  /\ pc[w] = "clear_controls" => step[w] \in 1 .. Len(ClearingSteps)
  /\ scenario.operations = {"apply"} => pc[w] \notin ClearingLabels \union RollbackLabels

Observers ==
  [pc : {"idle", "read_state", "adjust", "write", "reconcile"}, revision : RevisionOrNone,
   mode : Modes \union {"none"}, state : PolicyStates]

ObserverFits(o) == observer[o].pc # "idle" => observer[o].revision \in Revisions

\* The primary key of policy_envelope.
UniqueRows(table) ==
  \A i, j \in DOMAIN table : PolicyOf[table[i].revision] = PolicyOf[table[j].revision] => i = j

TableTypes ==
  /\ envelopes \in Seq(Envelopes)
  /\ UniqueRows(envelopes)

DeviceTypes ==
  /\ policyState \in PolicyStates
  /\ suspended \in SUBSET Packages
  /\ enforced \in [Controls -> RevisionOrNone]
  /\ kept \in SUBSET Packages
  /\ locationOff \in BOOLEAN
  /\ filter \in Filtering \union {NoRevision}
  /\ proven \in SUBSET Revisions

\* A worker that is not in beside has had no other busy since it began.
Alone ==
  /\ \A w \in Workers \ beside : pc[w] # "idle" =>
       \A u \in Workers \ {w} : pc[u] = "idle"
  /\ ~ overlapped => beside = {}

SyncTypes ==
  /\ pc \in [Workers -> Labels]
  /\ order \in [Workers -> Orders \union {NoOrder}]
  /\ active \in [Workers -> RevisionOrNone]
  /\ step \in [Workers -> 0 .. Len(ActivationSteps)]
  /\ result \in [Workers -> {"none", "active", "quarantined"}]
  /\ refused \in [Workers -> SUBSET Packages]
  /\ beside \in SUBSET Workers
  /\ overlapped \in BOOLEAN
  /\ \A w \in Workers : pc[w] = "idle" => order[w] = NoOrder /\ result[w] = "none"
  /\ \A w \in Workers : OrderFits(w)
  /\ scenario \in Scenarios

ObserverTypes ==
  /\ observer \in [AllObservers -> Observers]
  /\ \A o \in AllObservers : ObserverFits(o)

TypeInv == TableTypes /\ DeviceTypes /\ SyncTypes /\ ObserverTypes /\ Alone

\* A state that was read and may be written back claims only what was proven.
ClaimsProven ==
  /\ StateClaimsProven
  /\ \A o \in AllObservers :
       observer[o].pc \in {"adjust", "write"} /\ observer[o].state.applyState = "ACTIVE" =>
         observer[o].state.revision \in proven

\* The envelope worker w has read is the active one until w changes its status;
\* from then on no envelope is active and that of the new revision is stored.
TablePhase(w) ==
  /\ pc[w] \in {"supersede", "rollback_choose", "clear_packages", "clear_controls",
                "clear_screen_time", "clear_envelope"} => ReadsActive(active[w])
  /\ pc[w] \in Enforcing \union {"insert", "clear_state"} => ActiveRevisions = {}
  /\ pc[w] \in Enforcing =>
       \E i \in DOMAIN envelopes : envelopes[i].revision = order[w].revision

RowsProven ==
  \A i \in DOMAIN envelopes :
    envelopes[i].status \in {"ACTIVE", "SUPERSEDED"} => envelopes[i].revision \in proven

OneActive ==
  \A i, j \in DOMAIN envelopes :
    envelopes[i].status = "ACTIVE" /\ envelopes[j].status = "ACTIVE" => i = j

WaysProven ==
  \A w \in Workers :
    order[w].operation = "rollback" /\ order[w].revision # NoRevision =>
      order[w].revision \in proven

TableInv ==
  /\ OneActive
  /\ RowsProven
  /\ WaysProven
  /\ \A w \in Workers : TablePhase(w)

TableSafe == ~ overlapped => TableInv

\* The controls no periodic worker of the scenario changes.
Unshared == IF scenario.observers = {} THEN Controls ELSE Controls \ {"lock_task"}

\* The controls that are set, or cleared, for good before step s.
SetBefore(s) ==
  {c \in Controls : \/ c = "lock_task" /\ s > 1
                    \/ c = "application" /\ s > 5
                    \/ c = "device" /\ s > 6
                    \/ c = "screen_lock" /\ s > 8}

ClearedBefore(s) ==
  {c \in Controls : \/ c = "network"
                    \/ c = "lock_task" /\ s > 1
                    \/ c = "application" /\ s > 2
                    \/ c = "device" /\ s > 3}

ControlPhase(w) ==
  /\ pc[w] = "controls" =>
       \A c \in Unshared : c \in SetBefore(step[w]) => enforced[c] = order[w].revision
  /\ pc[w] \in {"filter", "screen_time", "mark_active"} =>
       \A c \in Unshared : enforced[c] = order[w].revision
  /\ pc[w] \in {"clear_filter", "clear_read", "clear_packages"} =>
       enforced["network"] = NoRevision
  /\ pc[w] = "clear_controls" =>
       \A c \in Unshared : c \in ClearedBefore(step[w]) => enforced[c] = NoRevision
  /\ pc[w] \in {"clear_screen_time", "clear_envelope", "clear_state"} =>
       \A c \in Unshared : enforced[c] = NoRevision
  /\ pc[w] \in {"clear_read", "clear_packages", "clear_controls", "clear_screen_time",
                "clear_envelope", "clear_state"} => filter = NoRevision

PackagePhase(w) ==
  scenario.observers = {} /\ pc[w] \in {"controls", "filter", "screen_time", "mark_active"} =>
    Blocked[order[w].revision][order[w].mode] \ (Released \union refused[w]) \subseteq suspended

\* The uninstalls and the location, once the control that changes them is passed.
SettingPhase(w) ==
  LET settled == pc[w] \in {"filter", "screen_time", "mark_active"}
      lifted == pc[w] \in {"clear_screen_time", "clear_envelope", "clear_state"}
  IN  /\ settled \/ (pc[w] = "controls" /\ step[w] > 5) => UninstallInForce(order[w].revision)
      /\ settled \/ (pc[w] = "controls" /\ step[w] > 6) => LocationInForce(order[w].revision)
      /\ lifted \/ (pc[w] = "clear_controls" /\ step[w] > 2) =>
           ApplicationOf(active[w]).approved \intersect kept = {}

Phases(w) == ControlPhase(w) /\ PackagePhase(w) /\ SettingPhase(w)

ControlInv == \A w \in Workers \ beside : Phases(w)
-----------------------------------------------------------------------------
Statuses == {"PENDING", "ACTIVE", "SUPERSEDED", "CLEARED"}

LEMMA StatusTable ==
  ASSUME NEW table \in Seq(Envelopes), NEW r, NEW status \in Statuses
  PROVE  /\ WithStatus(table, r, status) \in Seq(Envelopes)
         /\ DOMAIN WithStatus(table, r, status) = DOMAIN table
         /\ \A i \in DOMAIN table :
              /\ WithStatus(table, r, status)[i].revision = table[i].revision
              /\ WithStatus(table, r, status)[i].status =
                   IF PolicyOf[table[i].revision] = PolicyOf[r] THEN status
                   ELSE table[i].status
<1> DEFINE new == WithStatus(table, r, status)
<1>1. \A i \in DOMAIN table : table[i] \in Envelopes
  OBVIOUS
<1>2. DOMAIN table = 1 .. Len(table) /\ Len(table) \in Nat
  OBVIOUS
<1>3. \A i \in DOMAIN table :
        /\ new[i] \in Envelopes
        /\ new[i].revision = table[i].revision
        /\ new[i].status = IF PolicyOf[table[i].revision] = PolicyOf[r] THEN status
                           ELSE table[i].status
  BY <1>1 DEF WithStatus, Envelopes, Statuses
<1>4. DOMAIN new = DOMAIN table
  BY DEF WithStatus
<1>5. new = [i \in 1 .. Len(table) |-> new[i]]
  BY <1>2 DEF WithStatus
<1>6. new \in Seq(Envelopes)
  <2> HIDE DEF new
  <2> QED BY <1>2, <1>3, <1>5
<1> QED BY <1>3, <1>4, <1>6

LEMMA RemovedRow ==
  ASSUME NEW S, NEW s \in Seq(S), NEW k \in 1 .. Len(s)
  PROVE  /\ RemoveAt(s, k) \in Seq(S)
         /\ Len(RemoveAt(s, k)) = Len(s) - 1
         /\ \A i \in 1 .. Len(s) - 1 :
              RemoveAt(s, k)[i] = IF i < k THEN s[i] ELSE s[i + 1]
<1> DEFINE a == SubSeq(s, 1, k - 1)
           b == SubSeq(s, k + 1, Len(s))
<1>1. /\ a \in Seq(S) /\ Len(a) = k - 1
      /\ \A i \in 1 .. k - 1 : a[i] = s[i]
  <2>1. \A i \in 1 .. k - 1 : s[i] \in S
    OBVIOUS
  <2> QED BY <2>1, SubSeqProperties
<1>2. /\ b \in Seq(S) /\ Len(b) = Len(s) - k
      /\ \A i \in 1 .. Len(s) - k : b[i] = s[k + i]
  <2>1. \A i \in k + 1 .. Len(s) : s[i] \in S
    OBVIOUS
  <2>2. Len(s) \in Int /\ k + 1 \in Int
    OBVIOUS
  <2> QED BY <2>1, <2>2, SubSeqProperties
<1> HIDE DEF a, b
<1>3. /\ a \o b \in Seq(S)
      /\ Len(a \o b) = Len(a) + Len(b)
      /\ \A i \in 1 .. Len(a) + Len(b) : (a \o b)[i] = IF i <= Len(a) THEN a[i] ELSE b[i - Len(a)]
  BY <1>1, <1>2, ConcatProperties
<1> DEFINE c == a \o b
<1>4. RemoveAt(s, k) = c
  BY DEF RemoveAt, a, b
<1> HIDE DEF c
<1>5. ASSUME NEW i \in 1 .. Len(s) - 1
      PROVE  c[i] = IF i < k THEN s[i] ELSE s[i + 1]
  <2>1. i \in Int /\ k \in Int /\ Len(s) \in Int
    OBVIOUS
  <2>2. c[i] = IF i <= Len(a) THEN a[i] ELSE b[i - Len(a)]
    BY <1>1, <1>2, <1>3 DEF c
  <2>3. CASE i < k
    <3>1. i \in 1 .. k - 1 /\ i <= Len(a)
      BY <2>1, <2>3, <1>1
    <3> QED BY <3>1, <2>2, <2>3, <1>1
  <2>4. CASE ~ (i < k)
    <3>1. i - Len(a) \in 1 .. Len(s) - k /\ k + (i - Len(a)) = i + 1 /\ ~ (i <= Len(a))
      BY <2>1, <2>4, <1>1
    <3> QED BY <3>1, <2>2, <2>4, <1>2
  <2> QED BY <2>3, <2>4
<1>6. c \in Seq(S) /\ Len(c) = Len(s) - 1
  <2>1. Len(a) + Len(b) = Len(s) - 1
    BY <1>1, <1>2
  <2> QED BY <1>3, <2>1 DEF c
<1> QED BY <1>4, <1>5, <1>6

\* What insertPolicyEnvelope leaves: the rows of the other policies as they are,
\* and one row of this policy.
LEMMA EnvelopeTable ==
  ASSUME NEW table \in Seq(Envelopes), UniqueRows(table), NEW r \in Revisions
  PROVE  LET new == WithEnvelope(table, r) IN
         /\ new \in Seq(Envelopes)
         /\ UniqueRows(new)
         /\ \E i \in DOMAIN new : new[i].revision = r
         /\ \A i \in DOMAIN new :
              \/ new[i] = [revision |-> r, status |-> "PENDING"]
              \/ \E j \in DOMAIN table : new[i] = table[j]
<1> DEFINE rest == Without(table, r)
           row == [revision |-> r, status |-> "PENDING"]
           held == {i \in DOMAIN table : PolicyOf[table[i].revision] = PolicyOf[r]}
           k == CHOOSE i \in held : TRUE
<1>1. row \in Envelopes /\ row.revision = r
  BY DEF Envelopes
<1>2. /\ rest \in Seq(Envelopes)
      /\ \E f \in [1 .. Len(rest) -> 1 .. Len(table)] :
           /\ \A i, j \in 1 .. Len(rest) : f[i] = f[j] => i = j
           /\ \A i \in 1 .. Len(rest) : /\ rest[i] = table[f[i]]
                                        /\ PolicyOf[table[f[i]].revision] # PolicyOf[r]
  <2>1. CASE held = {}
    <3>1. rest = table
      BY <2>1 DEF Without
    <3>2. \A i \in 1 .. Len(table) : PolicyOf[table[i].revision] # PolicyOf[r]
      BY <2>1
    <3> DEFINE f == [i \in 1 .. Len(rest) |-> i]
    <3>3. f \in [1 .. Len(rest) -> 1 .. Len(table)] /\ rest \in Seq(Envelopes)
      BY <3>1
    <3>4. \A i \in 1 .. Len(rest) : f[i] = i
      OBVIOUS
    <3> HIDE DEF f, rest
    <3> QED BY <3>1, <3>2, <3>3, <3>4
  <2>2. CASE held # {}
    <3>1. k \in 1 .. Len(table) /\ PolicyOf[table[k].revision] = PolicyOf[r]
      BY <2>2
    <3>2. rest = RemoveAt(table, k)
      BY <2>2 DEF Without
    <3> HIDE DEF k
    <3>3. /\ rest \in Seq(Envelopes)
          /\ Len(rest) = Len(table) - 1
          /\ \A i \in 1 .. Len(table) - 1 : rest[i] = IF i < k THEN table[i] ELSE table[i + 1]
      BY <3>1, <3>2, RemovedRow
    <3> HIDE DEF rest
    <3>4. \A i \in 1 .. Len(table) : i # k => PolicyOf[table[i].revision] # PolicyOf[r]
      BY <3>1 DEF UniqueRows
    <3> DEFINE f == [i \in 1 .. Len(rest) |-> IF i < k THEN i ELSE i + 1]
    <3>5. f \in [1 .. Len(rest) -> 1 .. Len(table)]
      BY <3>1, <3>3
    <3>6. \A i, j \in 1 .. Len(rest) : f[i] = f[j] => i = j
      BY <3>1
    <3>7. \A i \in 1 .. Len(rest) : /\ rest[i] = table[f[i]]
                                    /\ PolicyOf[table[f[i]].revision] # PolicyOf[r]
      BY <3>1, <3>3, <3>4
    <3> QED BY <3>3, <3>5, <3>6, <3>7
  <2> QED BY <2>1, <2>2
<1> DEFINE new == Append(rest, row)
<1>3. WithEnvelope(table, r) = new
  BY DEF WithEnvelope
<1> HIDE DEF rest, row
<1>4. /\ new \in Seq(Envelopes) /\ Len(new) = Len(rest) + 1
      /\ \A i \in 1 .. Len(rest) : new[i] = rest[i]
      /\ new[Len(rest) + 1] = row
  BY <1>1, <1>2, AppendProperties
<1>5. PICK f \in [1 .. Len(rest) -> 1 .. Len(table)] :
        /\ \A i, j \in 1 .. Len(rest) : f[i] = f[j] => i = j
        /\ \A i \in 1 .. Len(rest) : /\ rest[i] = table[f[i]]
                                     /\ PolicyOf[table[f[i]].revision] # PolicyOf[r]
  BY <1>2
<1> HIDE DEF new
<1>6. DOMAIN new = 1 .. Len(rest) + 1 /\ Len(rest) \in Nat
  BY <1>2, <1>4
<1>7. \A i \in DOMAIN new : i = Len(rest) + 1 \/ i \in 1 .. Len(rest)
  BY <1>6
<1>8. \A i \in 1 .. Len(rest) : new[i] = table[f[i]] /\ f[i] \in DOMAIN table
  BY <1>4, <1>5
<1>9. UniqueRows(new)
  <2> SUFFICES ASSUME NEW i \in DOMAIN new, NEW j \in DOMAIN new,
                      PolicyOf[new[i].revision] = PolicyOf[new[j].revision]
               PROVE  i = j
    BY DEF UniqueRows
  <2>1. CASE i \in 1 .. Len(rest) /\ j \in 1 .. Len(rest)
    <3>1. f[i] = f[j]
      BY <2>1, <1>8 DEF UniqueRows
    <3> QED BY <3>1, <2>1, <1>5
  <2>2. CASE i \in 1 .. Len(rest) /\ j = Len(rest) + 1
    BY <2>2, <1>1, <1>4, <1>5
  <2>3. CASE i = Len(rest) + 1 /\ j \in 1 .. Len(rest)
    BY <2>3, <1>1, <1>4, <1>5
  <2> QED BY <2>1, <2>2, <2>3, <1>7
<1>10. \A i \in DOMAIN new : new[i] = row \/ \E j \in DOMAIN table : new[i] = table[j]
  BY <1>4, <1>7, <1>8
<1>11. \E i \in DOMAIN new : new[i].revision = r
  BY <1>1, <1>4, <1>6
<1> QED BY <1>3, <1>4, <1>9, <1>10, <1>11 DEF row

LEMMA Newer ==
  ASSUME NEW n \in Nat, NEW S \in SUBSET (1 .. n), S # {}
  PROVE  Max(S) \in S
<1> DEFINE T == {n - i : i \in S}
<1>1. T \subseteq Nat /\ T # {}
  <2>1. \A i \in S : i \in 1 .. n /\ n - i \in Nat
    OBVIOUS
  <2> QED BY <2>1
<1>2. PICK x \in T : \A y \in T : ~ (<<y, x>> \in OpToRel(<, Nat))
  BY <1>1, WFMin, NatLessThanWellFounded
<1>3. PICK i \in S : x = n - i
  OBVIOUS
<1>4. ASSUME NEW j \in S PROVE i >= j
  <2>1. n - j \in T
    OBVIOUS
  <2>2. ~ (n - j < x)
    BY <2>1, <1>1, <1>2 DEF OpToRel
  <2> QED BY <2>2, <1>3
<1> QED BY <1>4 DEF Max

\* A way back is a row of the table that was once in force.
LEMMA RollbackRow ==
  ASSUME NEW table \in Seq(Envelopes), NEW r,
         RollbackEnvelope(table, r) # NoRevision
  PROVE  \E i \in DOMAIN table : /\ table[i].revision = RollbackEnvelope(table, r)
                                 /\ table[i].status \in {"ACTIVE", "SUPERSEDED"}
<1> DEFINE ways == {i \in DOMAIN table : /\ PolicyOf[table[i].revision] # PolicyOf[r]
                                         /\ table[i].status \in {"ACTIVE", "SUPERSEDED"}}
<1>1. ways # {} /\ RollbackEnvelope(table, r) = table[Max(ways)].revision
  BY DEF RollbackEnvelope, Newest
<1>2. Max(ways) \in ways
  <2>1. ways \in SUBSET (1 .. Len(table)) /\ Len(table) \in Nat
    OBVIOUS
  <2> HIDE DEF ways
  <2> QED BY <1>1, <2>1, Newer
<1> QED BY <1>1, <1>2
-----------------------------------------------------------------------------
LEMMA StepCounts == Len(ActivationSteps) = 9 /\ Len(ClearingSteps) = 4
  BY DEF ActivationSteps, ClearingSteps

LEMMA TypeInvInitial == ASSUME Init PROVE TypeInv
<1> USE ActivatorAssumption
<1>1. TableTypes
  <2>1. << >> \in Seq(Envelopes) /\ DOMAIN << >> = {}
    OBVIOUS
  <2> QED BY <2>1 DEF Init, TableTypes, UniqueRows
<1>2. DeviceTypes
  BY DEF Init, DeviceTypes, NoState, PolicyStates, RevisionOrNone
<1>3. SyncTypes
  <2>1. \A w \in Workers : pc[w] = "idle" /\ order[w] = NoOrder /\ result[w] = "none"
    BY DEF Init
  <2>2. \A w \in Workers : OrderFits(w)
    BY <2>1 DEF OrderFits, Labels, ActivationLabels, Enforcing, ClearingLabels, RollbackLabels
  <2>3. pc \in [Workers -> Labels] /\ step \in [Workers -> 0 .. Len(ActivationSteps)]
    BY StepCounts DEF Init, Labels
  <2> QED BY <2>1, <2>2, <2>3 DEF Init, SyncTypes, RevisionOrNone
<1>5. Alone
  BY DEF Init, Alone
<1>4. ObserverTypes
  BY DEF Init, ObserverTypes, Observers, ObserverFits, IdleObserver, NoState, PolicyStates,
         RevisionOrNone
<1> QED BY <1>1, <1>2, <1>3, <1>4, <1>5 DEF TypeInv

LEMMA SyncTypesStep ==
  ASSUME TypeInv, Next
  PROVE  SyncTypes'
<1> USE ActivatorAssumption, StepCounts DEF TypeInv, SyncTypes, OrderFits, Goes
<1> USE DEF Labels, ActivationLabels, Enforcing, ClearingLabels, RollbackLabels
<1>0. UNCHANGED scenario
  BY DEF Next
<1>1. ASSUME NEW w \in Workers, NEW q \in Requested, Begin(w, q)
      PROVE  SyncTypes'
  BY <1>0, <1>1 DEF Begin, Starts, Requested, Orders, AllOperations, RevisionOrNone
<1>2. ASSUME NEW w \in Workers, ReadActive(w)
      PROVE  SyncTypes'
  BY <1>0, <1>2 DEF ReadActive
<1>3. ASSUME NEW w \in Workers, Supersede(w)
      PROVE  SyncTypes'
  BY <1>0, <1>3 DEF Supersede
<1>4. ASSUME NEW w \in Workers, Insert(w)
      PROVE  SyncTypes'
  BY <1>0, <1>4 DEF Insert
<1>5. ASSUME NEW w \in Workers, Pending(w)
      PROVE  SyncTypes'
  BY <1>0, <1>5 DEF Pending
<1>6. ASSUME NEW w \in Workers, Suspend(w)
      PROVE  SyncTypes'
  <2>1. PICK refusal \in SUBSET Packages : refused' = [refused EXCEPT ![w] = refusal]
    BY <1>6 DEF Suspend
  <2>2. /\ step' = [step EXCEPT ![w] = 1] /\ pc' = [pc EXCEPT ![w] = "controls"]
        /\ pc[w] = "suspend"
        /\ UNCHANGED <<order, active, result, beside, overlapped>>
    BY <1>6 DEF Suspend
  <2> QED BY <1>0, <2>1, <2>2
<1>7. ASSUME NEW w \in Workers, ApplyControl(w)
      PROVE  SyncTypes'
  <2>1. /\ pc[w] = "controls"
        /\ IF step[w] < Len(ActivationSteps)
           THEN step' = [step EXCEPT ![w] = step[w] + 1] /\ pc' = pc
           ELSE step' = [step EXCEPT ![w] = 0] /\ pc' = [pc EXCEPT ![w] = "filter"]
        /\ order' = order /\ active' = active /\ result' = result /\ refused' = refused
        /\ beside' = beside /\ overlapped' = overlapped
    BY <1>7 DEF ApplyControl, NextControl
  <2>2. step[w] \in 1 .. Len(ActivationSteps)
    BY <2>1
  <2>3. CASE step[w] < Len(ActivationSteps)
    <3>1. step' = [step EXCEPT ![w] = step[w] + 1] /\ pc' = pc
      BY <2>1, <2>3
    <3>2. step[w] + 1 \in 1 .. Len(ActivationSteps)
      BY <2>2, <2>3
    <3> QED BY <1>0, <2>1, <3>1, <3>2
  <2>4. CASE ~ (step[w] < Len(ActivationSteps))
    <3>1. step' = [step EXCEPT ![w] = 0] /\ pc' = [pc EXCEPT ![w] = "filter"]
      BY <2>1, <2>4
    <3> QED BY <1>0, <2>1, <3>1
  <2> QED BY <2>3, <2>4
<1>8. ASSUME NEW w \in Workers, ConfigureFilter(w)
      PROVE  SyncTypes'
  BY <1>0, <1>8 DEF ConfigureFilter
<1>9. ASSUME NEW w \in Workers, ReconcileScreenTime(w)
      PROVE  SyncTypes'
  BY <1>0, <1>9 DEF ReconcileScreenTime
<1>10. ASSUME NEW w \in Workers, MarkActive(w)
      PROVE  SyncTypes'
  BY <1>0, <1>10 DEF MarkActive, Returns
<1>11. ASSUME NEW w \in Workers, ClearState(w)
      PROVE  SyncTypes'
  BY <1>0, <1>11 DEF ClearState, Returns
<1>12. ASSUME NEW w \in Workers, Fail(w)
      PROVE  SyncTypes'
  BY <1>0, <1>12 DEF Fail, Returns
<1>13. ASSUME NEW w \in Workers, ClearNetwork(w)
      PROVE  SyncTypes'
  BY <1>0, <1>13 DEF ClearNetwork
<1>14. ASSUME NEW w \in Workers, ClearFilter(w)
      PROVE  SyncTypes'
  BY <1>0, <1>14 DEF ClearFilter
<1>15. ASSUME NEW w \in Workers, ClearScreenTime(w)
      PROVE  SyncTypes'
  BY <1>0, <1>15 DEF ClearScreenTime
<1>16. ASSUME NEW w \in Workers, ClearEnvelope(w)
      PROVE  SyncTypes'
  BY <1>0, <1>16 DEF ClearEnvelope
<1>17. ASSUME NEW w \in Workers, ClearRead(w)
      PROVE  SyncTypes'
  BY <1>0, <1>17 DEF ClearRead
<1>18. ASSUME NEW w \in Workers, ClearPackages(w)
      PROVE  SyncTypes'
  BY <1>0, <1>18 DEF ClearPackages
<1>19. ASSUME NEW w \in Workers, ClearControl(w)
      PROVE  SyncTypes'
  <2>1. /\ pc[w] = "clear_controls"
        /\ IF step[w] < Len(ClearingSteps)
           THEN step' = [step EXCEPT ![w] = step[w] + 1] /\ pc' = pc
           ELSE step' = [step EXCEPT ![w] = 0] /\ pc' = [pc EXCEPT ![w] = "clear_screen_time"]
        /\ order' = order /\ active' = active /\ result' = result /\ refused' = refused
        /\ beside' = beside /\ overlapped' = overlapped
    BY <1>19 DEF ClearControl, NextControl
  <2>2. step[w] \in 1 .. Len(ClearingSteps)
    BY <2>1
  <2>3. CASE step[w] < Len(ClearingSteps)
    <3>1. step' = [step EXCEPT ![w] = step[w] + 1] /\ pc' = pc
      BY <2>1, <2>3
    <3>2. step[w] + 1 \in 1 .. Len(ClearingSteps)
      BY <2>2, <2>3
    <3> QED BY <1>0, <2>1, <3>1, <3>2
  <2>4. CASE ~ (step[w] < Len(ClearingSteps))
    <3>1. step' = [step EXCEPT ![w] = 0] /\ pc' = [pc EXCEPT ![w] = "clear_screen_time"]
      BY <2>1, <2>4
    <3> QED BY <1>0, <2>1, <3>1
  <2> QED BY <2>3, <2>4
<1>20. ASSUME NEW w \in Workers, RollbackRead(w)
      PROVE  SyncTypes'
  BY <1>0, <1>20 DEF RollbackRead
<1>21. ASSUME NEW w \in Workers, RollbackChoose(w)
      PROVE  SyncTypes'
  <2> DEFINE r == IF active[w] = NoRevision THEN NoRevision
                  ELSE RollbackEnvelope(envelopes, active[w])
  <2>1. r # NoRevision => r \in Revisions
    <3>1. \A i \in DOMAIN envelopes : envelopes[i].revision \in Revisions
      <4>1. \A i \in DOMAIN envelopes : envelopes[i] \in Envelopes
        BY DEF TableTypes
      <4> QED BY <4>1 DEF Envelopes
    <3>2. r # NoRevision => \E i \in DOMAIN envelopes : envelopes[i].revision = r
      BY RollbackRow DEF TableTypes
    <3> QED BY <3>1, <3>2
  <2>2. /\ pc[w] = "rollback_choose"
        /\ order' = IF r = NoRevision THEN order
                    ELSE [order EXCEPT ![w].revision = r, ![w].mode = DefaultMode[r]]
        /\ pc' = [pc EXCEPT ![w] = IF r = NoRevision THEN "clear_network" ELSE "read_active"]
        /\ active' = active /\ step' = step /\ result' = result /\ refused' = refused
        /\ beside' = beside /\ overlapped' = overlapped
    BY <1>21 DEF RollbackChoose
  <2> HIDE DEF r
  <2>3. CASE r = NoRevision
    BY <1>0, <2>2, <2>3
  <2>4. CASE r # NoRevision
    <3>1. order[w] \in Orders /\ order[w].operation \in AllOperations
      BY <2>2 DEF Orders
    <3>2. [order[w] EXCEPT !.revision = r, !.mode = DefaultMode[r]] \in Orders
      BY <2>1, <2>4, <3>1 DEF Orders, RevisionOrNone
    <3>3. [order[w] EXCEPT !.revision = r, !.mode = DefaultMode[r]].revision = r
      BY <3>1 DEF Orders
    <3> DEFINE q == [order[w] EXCEPT !.revision = r, !.mode = DefaultMode[r]]
    <3>4. order' = [order EXCEPT ![w] = q] /\ pc' = [pc EXCEPT ![w] = "read_active"]
      BY <2>2, <2>4
    <3> HIDE DEF q
    <3> QED BY <1>0, <2>1, <2>2, <2>4, <3>2, <3>3, <3>4 DEF q
  <2> QED BY <2>3, <2>4
<1>22. ASSUME NEW w \in Workers, Return(w)
      PROVE  SyncTypes'
  BY <1>0, <1>22 DEF Return, RevisionOrNone, NoOrder
<1>23. ASSUME NEW o \in AllObservers, Observe(o)
      PROVE  SyncTypes'
  BY <1>0, <1>23 DEF Observe, ObserveEnvelope, ObserveState, Reconcile, GiveUp, SwitchMode,
                     KeepMode, WriteMode, sync
<1>24. ASSUME Crash
      PROVE  SyncTypes'
  BY <1>0, <1>24 DEF Crash, Forget, RevisionOrNone, NoOrder
<1>25. scenario.observers \subseteq AllObservers /\ scenario.workers \subseteq Workers
  OBVIOUS
<1> QED
  BY <1>1, <1>2, <1>3, <1>4, <1>5, <1>6, <1>7, <1>8, <1>9, <1>10, <1>11, <1>12, <1>13, <1>14, <1>15, <1>16, <1>17, <1>18, <1>19, <1>20, <1>21, <1>22, <1>23, <1>24, <1>25
     DEF Next, Work, Activate, Clear, Rollback

LEMMA RowsTyped ==
  ASSUME NEW table \in Seq(Envelopes), NEW i \in DOMAIN table
  PROVE  table[i] \in Envelopes /\ table[i].revision \in Revisions /\ table[i].status \in Statuses
<1>1. table[i] \in Envelopes
  OBVIOUS
<1> QED BY <1>1 DEF Envelopes, Statuses

LEMMA TableTypesStep ==
  ASSUME TypeInv, Next
  PROVE  TableTypes'
<1>1. ASSUME NEW r, NEW status \in Statuses, envelopes' = WithStatus(envelopes, r, status)
      PROVE  TableTypes'
  <2>1. /\ envelopes' \in Seq(Envelopes)
        /\ DOMAIN envelopes' = DOMAIN envelopes
        /\ \A i \in DOMAIN envelopes : envelopes'[i].revision = envelopes[i].revision
    BY <1>1, StatusTable DEF TypeInv, TableTypes
  <2> QED BY <2>1 DEF TypeInv, TableTypes, UniqueRows
<1>2. ASSUME NEW w \in Workers, Supersede(w) \/ MarkActive(w) \/ ClearEnvelope(w)
      PROVE  TableTypes'
  <2>1. \/ UNCHANGED envelopes
        \/ \E r : envelopes' = WithStatus(envelopes, r, "SUPERSEDED")
        \/ \E r : envelopes' = WithStatus(envelopes, r, "ACTIVE")
        \/ \E r : envelopes' = WithStatus(envelopes, r, "CLEARED")
    BY <1>2 DEF Supersede, MarkActive, ClearEnvelope
  <2> QED BY <1>1, <2>1 DEF TypeInv, TableTypes, Statuses
<1>3. ASSUME NEW w \in Workers, Insert(w)
      PROVE  TableTypes'
  <2>1. order[w].revision \in Revisions /\ envelopes' = WithEnvelope(envelopes, order[w].revision)
    BY <1>3 DEF Insert, TypeInv, SyncTypes, OrderFits, ActivationLabels
  <2> QED BY <2>1, EnvelopeTable DEF TypeInv, TableTypes
<1>4. ASSUME UNCHANGED envelopes
      PROVE  TableTypes'
  BY <1>4 DEF TypeInv, TableTypes
<1>5. ASSUME NEW w \in Workers, Work(w) \/ Fail(w) \/ Return(w) \/ \E q \in Requested : Begin(w, q)
      PROVE  UNCHANGED envelopes \/ Supersede(w) \/ MarkActive(w) \/ ClearEnvelope(w) \/ Insert(w)
  BY <1>5
     DEF Work, Activate, Clear, Rollback, Begin, ReadActive, Pending, Suspend, ApplyControl,
       ClearControl, NextControl, ConfigureFilter, ReconcileScreenTime, Fail, ClearNetwork,
       ClearFilter, ClearRead, ClearPackages, ClearScreenTime, ClearState, RollbackRead,
       RollbackChoose, Return
<1>6. ASSUME Crash \/ \E o \in AllObservers : Observe(o)
      PROVE  UNCHANGED envelopes
  BY <1>6
     DEF Observe, ObserveEnvelope, ObserveState, Reconcile, GiveUp, SwitchMode, KeepMode,
       WriteMode, Crash
<1>7. scenario.workers \subseteq Workers /\ scenario.observers \subseteq AllObservers
  BY ActivatorAssumption DEF TypeInv, SyncTypes
<1> QED BY <1>2, <1>3, <1>4, <1>5, <1>6, <1>7 DEF Next

LEMMA ActiveTyped ==
  ASSUME TableTypes
  PROVE  ActiveRevisions \subseteq Revisions
<1>1. \A i \in DOMAIN envelopes : envelopes[i].revision \in Revisions
  BY RowsTyped DEF TableTypes
<1> QED BY <1>1 DEF ActiveRevisions, ToSet

LEMMA ObserverTypesStep ==
  ASSUME TypeInv, Next
  PROVE  ObserverTypes'
<1> USE DEF TypeInv, ObserverTypes, Observers, ObserverFits
<1>1. CASE UNCHANGED observer
  BY <1>1
<1>2. ASSUME NEW o \in AllObservers, ObserveEnvelope(o)
      PROVE  ObserverTypes'
  <2>1. PICK r \in ActiveRevisions :
          observer' = [observer EXCEPT ![o].pc = "read_state", ![o].revision = r]
    BY <1>2 DEF ObserveEnvelope
  <2>2. r \in Revisions
    BY ActiveTyped
  <2> QED BY <2>1, <2>2 DEF RevisionOrNone
<1>3. ASSUME NEW o \in AllObservers, ObserveState(o)
      PROVE  ObserverTypes'
  BY <1>3 DEF ObserveState, DeviceTypes
<1>4. ASSUME NEW o \in AllObservers, Rest(o)
      PROVE  ObserverTypes'
  BY <1>4 DEF Rest, IdleObserver, NoState, PolicyStates, RevisionOrNone
<1>5. ASSUME SwitchMode
      PROVE  ObserverTypes'
  <2>1. scenario.modes \subseteq Modes /\ "schedule" \in AllObservers
    BY ActivatorAssumption DEF SyncTypes, AllObservers
  <2>2. PICK m \in Modes : observer' =
          [observer EXCEPT !["schedule"].pc = "write", !["schedule"].mode = m]
    BY <1>5, <2>1 DEF SwitchMode
  <2>3. observer["schedule"].pc = "adjust"
    BY <1>5 DEF SwitchMode
  <2> QED BY <2>1, <2>2, <2>3
<1>6. ASSUME WriteMode
      PROVE  ObserverTypes'
  BY <1>6 DEF WriteMode, AllObservers
<1>7. ASSUME Forget
      PROVE  ObserverTypes'
  BY <1>7 DEF Forget, IdleObserver, NoState, PolicyStates, RevisionOrNone
<1>8. \/ UNCHANGED observer
      \/ \E o \in AllObservers : ObserveEnvelope(o) \/ ObserveState(o) \/ Rest(o)
      \/ SwitchMode \/ WriteMode \/ Forget
  <2>1. /\ scenario.observers \subseteq AllObservers /\ "schedule" \in AllObservers
        /\ scenario.workers \subseteq Workers
    BY ActivatorAssumption DEF SyncTypes, AllObservers
  <2>2. (\E w \in Workers : (\E q \in Requested : Begin(w, q)) \/ Work(w) \/ Fail(w) \/ Return(w))
          => UNCHANGED observer
    BY DEF Work, Activate, Clear, Rollback, Begin, ReadActive, Supersede, Insert, Pending,
         Suspend, ApplyControl, ClearControl, NextControl, ConfigureFilter, ReconcileScreenTime,
         MarkActive, Fail, ClearNetwork, ClearFilter, ClearRead, ClearPackages, ClearScreenTime,
         ClearEnvelope, ClearState, RollbackRead, RollbackChoose, Return
  <2>3. ASSUME NEW o \in AllObservers, Observe(o)
        PROVE  ObserveEnvelope(o) \/ ObserveState(o) \/ Rest(o) \/ Rest("schedule") \/ SwitchMode \/ WriteMode
    BY <2>3 DEF Observe, Reconcile, GiveUp, KeepMode
  <2>4. Crash => Forget
    BY DEF Crash
  <2> HIDE DEF TypeInv, ObserverTypes, Observers, ObserverFits
  <2> QED BY <2>1, <2>2, <2>3, <2>4 DEF Next
<1> QED BY <1>1, <1>2, <1>3, <1>4, <1>5, <1>6, <1>7, <1>8

\* What the steps of one worker touch, for the proofs that go through Next.
LEMMA Steps ==
  ASSUME TypeInv, Next
  PROVE  /\ UNCHANGED scenario
         /\ \/ \E w \in Workers :
                 \/ \E q \in Requested : Begin(w, q)
                 \/ Activate(w) \/ Clear(w) \/ Rollback(w) \/ Fail(w) \/ Return(w)
            \/ \E o \in AllObservers : o \in scenario.observers /\ Observe(o)
            \/ Crash
<1>1. scenario.observers \subseteq AllObservers /\ scenario.workers \subseteq Workers
  BY ActivatorAssumption DEF TypeInv, SyncTypes
<1> QED BY <1>1 DEF Next, Work

LEMMA RevisionData ==
  ASSUME NEW r \in Revisions, NEW m \in Modes
  PROVE  /\ Blocked[r][m] \subseteq Packages /\ Targets[r] \subseteq Packages
         /\ Application[r].files \subseteq Packages /\ DefaultMode[r] \in Modes
         /\ Application[r].approved \subseteq Packages
         /\ Store \subseteq Packages
  BY ActivatorAssumption

\* The files and the approved packages of any revision, or of none, are packages.
LEMMA ApplicationData ==
  ASSUME NEW r
  PROVE  ApplicationOf(r).files \subseteq Packages /\ ApplicationOf(r).approved \subseteq Packages
  BY ActivatorAssumption DEF ApplicationOf

\* What Android refuses only makes the change smaller.
LEMMA Adjusted ==
  ASSUME NEW before, NEW packages
  PROVE  /\ \A s \in Suspending(before, packages) : before \subseteq s /\ s \subseteq before \union packages
         /\ \A s \in Releasing(before, packages) : s \subseteq before /\ before \ packages \subseteq s
         /\ \A s \in Mixtures(before, packages) : s \subseteq before \union packages
  BY DEF Suspending, Releasing, Mixtures

LEMMA ControlNames ==
  /\ \A i \in 1 .. Len(ActivationSteps) : ActivationSteps[i].control \in Controls
  /\ \A i \in 1 .. Len(ClearingSteps) : ClearingSteps[i].control \in Controls
  /\ \A i \in 1 .. Len(ClearingSteps) : ~ ClearingSteps[i].on
  BY DEF ActivationSteps, ClearingSteps, Set, Drop, Controls

\* Every set a step may leave suspended is of packages.
LEMMA ScreenTimeTyped ==
  ASSUME TypeInv, NEW r \in Revisions, NEW b
  PROVE  \A s \in ScreenTimeOutcomes(r, b) : s \subseteq Packages
<1>1. Targets[r] \ b \subseteq Packages /\ suspended \subseteq Packages
  BY ActivatorAssumption DEF TypeInv, DeviceTypes
<1>2. \A s \in Suspending(suspended, Targets[r] \ b) : s \subseteq Packages
  BY <1>1, Adjusted
<1> QED BY <1>1, <1>2 DEF ScreenTimeOutcomes

LEMMA ApplicationTyped ==
  ASSUME TypeInv, NEW w \in Workers, order[w].revision \in Revisions
  PROVE  \A s \in StoreSet(w) \union ApplicationSet(w) : s \subseteq Packages
<1> DEFINE app == Application[order[w].revision]
<1>1. app.files \subseteq Packages /\ Store \subseteq Packages /\ suspended \subseteq Packages
  BY ActivatorAssumption DEF TypeInv, DeviceTypes
<1>2. \A s \in StoreSet(w) : s \subseteq Packages
  <2>1. StoreSet(w) \in {{suspended \ (Store \union app.files)}, Suspending(suspended, Store)}
    BY DEF StoreSet
  <2> QED BY <1>1, <2>1, Adjusted
<1>3. ASSUME NEW s \in ApplicationSet(w) PROVE s \subseteq Packages
  <2>1. CASE s = suspended
    BY <1>1, <2>1
  <2>2. CASE s # suspended
    <3>1. PICK x \in StoreSet(w) : s \in IF app.sharing THEN {x \ app.files} ELSE Suspending(x, app.files)
      BY <2>2 DEF ApplicationSet
    <3>2. x \subseteq Packages
      BY <1>2
    <3>3. s = x \ app.files \/ s \in Suspending(x, app.files)
      BY <3>1
    <3> QED BY <1>1, <3>2, <3>3, Adjusted
  <2> QED BY <2>1, <2>2
<1> QED BY <1>2, <1>3

LEMMA MeantTyped ==
  ASSUME TypeInv, NEW w \in Workers, pc[w] \notin {"idle", "done"}
  PROVE  \A s \in PackagesMeant(w) : s \subseteq Packages
<1> USE DEF TypeInv, SyncTypes, DeviceTypes
<1>0. ASSUME pc[w] \in {"screen_time", "clear_screen_time"}
      PROVE  ControlNow(w) # Set("application")
  <2>1. ControlNow(w) = Drop("none")
    BY <1>0 DEF ControlNow
  <2> QED BY <2>1 DEF Set, Drop
<1>1. CASE pc[w] = "screen_time"
  <2>1. order[w].revision \in Revisions
    BY <1>1 DEF OrderFits, ActivationLabels, Enforcing
  <2>2. PackagesMeant(w) =
          ScreenTimeOutcomes(order[w].revision, Blocked[order[w].revision][order[w].mode])
    BY <1>1, <1>0 DEF PackagesMeant
  <2> QED BY <2>1, <2>2, ScreenTimeTyped
<1>2. CASE pc[w] = "clear_screen_time"
  <2>1. PackagesMeant(w) = {suspended \ TargetsOf(active[w])}
    BY <1>2, <1>0 DEF PackagesMeant
  <2> QED BY <2>1
<1>3. CASE pc[w] \notin {"screen_time", "clear_screen_time"}
  <2>1. CASE ControlNow(w) = Set("application")
    <3>1. pc[w] = "controls"
      <4>1. pc[w] = "controls" \/ ~ ControlNow(w).on
        BY ControlNames DEF ControlNow, OrderFits, Drop
      <4> QED BY <2>1, <4>1 DEF Set
    <3>2. order[w].revision \in Revisions
      BY <3>1 DEF OrderFits, ActivationLabels, Enforcing
    <3>3. PackagesMeant(w) = StoreSet(w) \union ApplicationSet(w)
      BY <1>3, <2>1 DEF PackagesMeant
    <3> QED BY <3>2, <3>3, ApplicationTyped
  <2>2. CASE ControlNow(w) # Set("application")
    <3>1. PackagesMeant(w) = PackagesAfter(w, ControlNow(w))
      BY <1>3, <2>2 DEF PackagesMeant
    <3>2. \A s \in PackagesAfter(w, ControlNow(w)) : s \subseteq suspended
      BY <2>2 DEF PackagesAfter, ApplicationCleared
    <3> QED BY <3>1, <3>2
  <2> QED BY <2>1, <2>2
<1> QED BY <1>1, <1>2, <1>3

LEMMA KeptTyped ==
  ASSUME TypeInv, NEW w, NEW c
  PROVE  KeptAfter(w, c) \subseteq Packages
<1> DEFINE app == ApplicationOf(IF c.on THEN order[w].revision ELSE active[w])
<1>1. app.approved \subseteq Packages
  BY ApplicationData
<1>2. kept \subseteq Packages
  BY DEF TypeInv, DeviceTypes
<1>3. KeptAfter(w, c) \in {kept, kept \union app.approved, kept \ app.approved}
  BY DEF KeptAfter
<1> HIDE DEF app
<1> QED BY <1>1, <1>2, <1>3

LEMMA SuspendedStep ==
  ASSUME TypeInv, Next
  PROVE  suspended' \subseteq Packages
<1> USE DEF TypeInv, DeviceTypes, SyncTypes
<1>1. CASE suspended' \subseteq suspended
  BY <1>1
<1>2. ASSUME NEW w \in Workers, pc[w] \in ActivationLabels
      PROVE  /\ order[w].revision \in Revisions /\ order[w].mode \in Modes
             /\ Blocked[order[w].revision][order[w].mode] \subseteq Packages
             /\ Targets[order[w].revision] \subseteq Packages
             /\ Application[order[w].revision].files \subseteq Packages
             /\ Store \subseteq Packages
  <2>1. order[w].revision \in Revisions /\ order[w].mode \in Modes
    BY <1>2 DEF OrderFits, Orders, Labels, ActivationLabels, Enforcing
  <2> QED BY <2>1, RevisionData
<1>3. ASSUME NEW w \in Workers, Activate(w)
      PROVE  suspended' \subseteq Packages
  <2>1. CASE UNCHANGED suspended
    BY <2>1
  <2>2. CASE Suspend(w)
    BY <2>2, <1>2 DEF Suspend, ActivationLabels, Enforcing
  <2>3. CASE ApplyControl(w)
    <3>1. suspended' \in ApplicationSet(w) \union {suspended, ApplicationCleared(w)}
      BY <2>3 DEF ApplyControl, NextControl, PackagesAfter
    <3>2. \A x \in ApplicationSet(w) : x \subseteq Packages
      BY <2>3, <1>2, ApplicationTyped DEF ApplyControl, ActivationLabels, Enforcing
    <3>3. ApplicationCleared(w) \subseteq suspended
      BY DEF ApplicationCleared
    <3> QED BY <3>1, <3>2, <3>3
  <2>4. CASE ReconcileScreenTime(w)
    <3>1. order[w].revision \in Revisions
      BY <2>4, <1>2 DEF ReconcileScreenTime, ActivationLabels, Enforcing
    <3> QED BY <2>4, <3>1, ScreenTimeTyped DEF ReconcileScreenTime
  <2> QED
    BY <1>3, <2>1, <2>2, <2>3, <2>4
       DEF Activate, ReadActive, Supersede, Insert, Pending, ConfigureFilter, MarkActive, device
<1>4. ASSUME NEW w \in Workers, Clear(w)
      PROVE  suspended' \subseteq suspended
  <2>1. CASE UNCHANGED suspended
    BY <2>1
  <2>2. CASE ClearPackages(w)
    BY <2>2, Adjusted DEF ClearPackages
  <2>3. CASE ClearControl(w)
    <3>1. ~ ClearingSteps[step[w]].on
      BY <2>3, ControlNames DEF ClearControl, OrderFits
    <3>2. ClearingSteps[step[w]] # Set("application")
      BY <3>1 DEF Set
    <3>3. suspended' \in {suspended, ApplicationCleared(w)}
      BY <2>3, <3>2 DEF ClearControl, NextControl, PackagesAfter
    <3> QED BY <3>3 DEF ApplicationCleared
  <2>4. CASE ClearScreenTime(w)
    BY <2>4 DEF ClearScreenTime
  <2> QED
    BY <1>4, <2>1, <2>2, <2>3, <2>4
       DEF Clear, ClearNetwork, ClearFilter, ClearRead, ClearEnvelope, ClearState, device
<1>5. ASSUME NEW o \in AllObservers, observer[o].pc # "idle"
      PROVE  /\ observer[o].revision \in Revisions
             /\ Targets[observer[o].revision] \subseteq Packages
             /\ \A m : m \in Modes => Blocked[observer[o].revision][m] \subseteq Packages
  BY <1>5, ActivatorAssumption DEF ObserverTypes, ObserverFits
<1>6. ASSUME NEW o \in AllObservers, Reconcile(o)
      PROVE  suspended' \subseteq Packages
  <2>1. observer[o].revision \in Revisions
    BY <1>5, <1>6 DEF Reconcile, Reconciles
  <2>2. PICK b : suspended' \in ScreenTimeOutcomes(observer[o].revision, b)
    BY <1>6 DEF Reconcile, Reconciled
  <2> QED BY <2>1, <2>2, ScreenTimeTyped
<1>7. ASSUME SwitchMode
      PROVE  suspended' \subseteq Packages
  <2>1. "schedule" \in AllObservers /\ observer["schedule"].pc # "idle"
    BY <1>7 DEF SwitchMode, AllObservers
  <2>2. scenario.modes \subseteq Modes
    BY ActivatorAssumption
  <2>3. PICK m \in Modes : \E b : \E x \in Releasing(suspended, b) :
             suspended' \in Suspending(x, Blocked[observer["schedule"].revision][m])
    BY <1>7, <2>2 DEF SwitchMode
  <2> QED BY <1>5, <2>1, <2>3, Adjusted
<1>8. ASSUME NEW o \in AllObservers, GiveUp(o)
      PROVE  suspended' \subseteq Packages
  <2>1. observer[o].revision \in Revisions
    BY <1>5, <1>8 DEF GiveUp
  <2>2. \/ suspended' = suspended
        \/ \E s \in Reconciled(o) : suspended' \in Mixtures(suspended, s)
    BY <1>8 DEF GiveUp
  <2>3. \A s \in Reconciled(o) : s \subseteq Packages
    BY <2>1, ScreenTimeTyped DEF Reconciled
  <2> QED BY <2>2, <2>3, Adjusted
<1>9. ASSUME NEW o \in AllObservers, Observe(o)
      PROVE  suspended' \subseteq Packages
  BY <1>6, <1>7, <1>8, <1>9 DEF Observe, ObserveEnvelope, ObserveState, KeepMode, WriteMode
<1>10. ASSUME NEW w \in Workers, Fail(w)
       PROVE  suspended' \subseteq Packages
  <2>1. PICK s \in PackagesMeant(w) : suspended' \in Mixtures(suspended, s)
    BY <1>10 DEF Fail
  <2>2. s \subseteq Packages
    BY <1>10, <2>1, MeantTyped DEF Fail
  <2> QED BY <2>1, <2>2, Adjusted
<1> QED
  BY <1>1, <1>3, <1>4, <1>9, <1>10, Steps
     DEF Rollback, RollbackRead, RollbackChoose, Begin, Return, Crash

LEMMA KeptStep ==
  ASSUME TypeInv, Next
  PROVE  kept' \subseteq Packages /\ locationOff' \in BOOLEAN
<1> USE DEF TypeInv, DeviceTypes
<1>1. CASE UNCHANGED <<kept, locationOff>>
  BY <1>1
<1>2. ASSUME NEW w \in Workers, ApplyControl(w) \/ ClearControl(w)
      PROVE  kept' \subseteq Packages /\ locationOff' \in BOOLEAN
  <2>1. PICK c : kept' = KeptAfter(w, c) /\ locationOff' = LocationAfter(w, c)
    BY <1>2 DEF ApplyControl, ClearControl, NextControl
  <2>2. LocationAfter(w, c) \in BOOLEAN
    BY DEF LocationAfter
  <2> QED BY <2>1, <2>2, KeptTyped
<1>3. ASSUME NEW w \in Workers, Fail(w)
      PROVE  kept' \subseteq Packages /\ locationOff' \in BOOLEAN
  <2>1. kept' \in Mixtures(kept, KeptAfter(w, ControlNow(w))) /\ locationOff' = locationOff
    BY <1>3 DEF Fail
  <2> QED BY <2>1, KeptTyped, Adjusted
<1> QED
  BY <1>1, <1>2, <1>3, Steps
     DEF Activate, Clear, Rollback, Begin, ReadActive, Supersede, Insert, Pending, Suspend,
       ConfigureFilter, ReconcileScreenTime, MarkActive, ClearNetwork, ClearFilter, ClearRead,
       ClearPackages, ClearScreenTime, ClearEnvelope, ClearState, RollbackRead, RollbackChoose,
       Return, Observe, ObserveEnvelope, ObserveState, Reconcile, GiveUp, SwitchMode, KeepMode,
       WriteMode, Crash

LEMMA DeviceTypesStep ==
  ASSUME TypeInv, Next
  PROVE  DeviceTypes'
<1> USE DEF TypeInv, DeviceTypes, SyncTypes
<1>1. scenario.modes \subseteq Modes
  BY ActivatorAssumption
<1>2. ASSUME NEW w \in Workers, pc[w] \in ActivationLabels
      PROVE  order[w].revision \in Revisions
  BY <1>2 DEF OrderFits
<1>3. policyState' \in PolicyStates
  <2>1. CASE UNCHANGED policyState
    BY <2>1
  <2>2. ASSUME NEW w \in Workers, Pending(w) \/ MarkActive(w) \/ ClearState(w)
        PROVE  policyState' \in PolicyStates
    <3>1. CASE Pending(w)
      BY <1>1, <3>1 DEF Pending, PolicyStates, RevisionOrNone
    <3>2. CASE MarkActive(w)
      <4>1. order[w].revision \in Revisions
        BY <1>2, <3>2 DEF MarkActive, ActivationLabels, Enforcing
      <4> QED BY <3>2, <4>1 DEF MarkActive, PolicyStates, RevisionOrNone
    <3>3. CASE ClearState(w)
      BY <3>3 DEF ClearState, PolicyStates, RevisionOrNone
    <3> QED BY <2>2, <3>1, <3>2, <3>3
  <2>3. ASSUME WriteMode
        PROVE  policyState' \in PolicyStates
    <3>1. /\ observer["schedule"].state \in PolicyStates
          /\ observer["schedule"].mode \in Modes \union {"none"}
      BY DEF ObserverTypes, Observers, AllObservers
    <3>2. policyState' = [observer["schedule"].state EXCEPT !.mode = observer["schedule"].mode]
      BY <2>3 DEF WriteMode
    <3> QED BY <3>1, <3>2 DEF PolicyStates
  <2> QED
    BY <2>1, <2>2, <2>3, Steps
       DEF Activate, Clear, Rollback, Begin, ReadActive, Supersede, Insert, Suspend,
         ApplyControl, ClearControl, NextControl, ConfigureFilter, ReconcileScreenTime, Fail,
         ClearNetwork, ClearFilter, ClearRead, ClearPackages, ClearScreenTime, ClearEnvelope,
         RollbackRead, RollbackChoose, Return, Observe, ObserveEnvelope, ObserveState,
         Reconcile, GiveUp, SwitchMode, KeepMode, Crash, device
<1>4. enforced' \in [Controls -> RevisionOrNone]
  <2>1. CASE UNCHANGED enforced
    BY <2>1
  <2>2. CASE \E c \in Controls, r \in RevisionOrNone : enforced' = [enforced EXCEPT ![c] = r]
    BY <2>2
  <2>3. ASSUME NEW w \in Workers, ApplyControl(w) \/ ClearControl(w) \/ ClearNetwork(w)
        PROVE  \E c \in Controls, r \in RevisionOrNone : enforced' = [enforced EXCEPT ![c] = r]
    <3>1. CASE ApplyControl(w)
      <4>1. ActivationSteps[step[w]].control \in Controls
        BY <3>1, ControlNames DEF ApplyControl, OrderFits
      <4>2. order[w].revision \in Revisions
        BY <1>2, <3>1 DEF ApplyControl, ActivationLabels, Enforcing
      <4> QED BY <3>1, <4>1, <4>2 DEF ApplyControl, NextControl, RevisionOrNone
    <3>2. CASE ClearControl(w)
      <4>1. ClearingSteps[step[w]].control \in Controls /\ ~ ClearingSteps[step[w]].on
        BY <3>2, ControlNames DEF ClearControl, OrderFits
      <4> QED BY <3>2, <4>1 DEF ClearControl, NextControl, RevisionOrNone
    <3>3. CASE ClearNetwork(w)
      BY <3>3 DEF ClearNetwork, Controls, RevisionOrNone
    <3> QED BY <2>3, <3>1, <3>2, <3>3
  <2>4. ASSUME SwitchMode
        PROVE  \E c \in Controls, r \in RevisionOrNone : enforced' = [enforced EXCEPT ![c] = r]
    BY <2>4 DEF SwitchMode, Controls, AllObservers, ObserverTypes, Observers
  <2> QED
    BY <2>1, <2>2, <2>3, <2>4, Steps
       DEF Activate, Clear, Rollback, Begin, ReadActive, Supersede, Insert, Pending, Suspend,
         ConfigureFilter, ReconcileScreenTime, MarkActive, Fail, ClearFilter, ClearRead,
         ClearPackages, ClearScreenTime, ClearEnvelope, ClearState, RollbackRead,
         RollbackChoose, Return, Observe, ObserveEnvelope, ObserveState, Reconcile, GiveUp,
         KeepMode, WriteMode, Crash, device
<1>5. filter' \in Filtering \union {NoRevision}
  <2>1. CASE filter' \in {filter, NoRevision}
    BY <2>1
  <2>2. ASSUME NEW w \in Workers, ConfigureFilter(w)
        PROVE  filter' \in Filtering \union {NoRevision}
    BY <2>2 DEF ConfigureFilter, Started
  <2> QED
    BY <2>1, <2>2, Steps
       DEF Activate, Clear, Rollback, Begin, ReadActive, Supersede, Insert, Pending, Suspend,
         ApplyControl, ClearControl, NextControl, ReconcileScreenTime, MarkActive, Fail,
         ClearNetwork, ClearFilter, ClearRead, ClearPackages, ClearScreenTime, ClearEnvelope,
         ClearState, RollbackRead, RollbackChoose, Return, Observe, ObserveEnvelope,
         ObserveState, Reconcile, GiveUp, SwitchMode, KeepMode, WriteMode, Crash, device
<1>6. proven' \subseteq Revisions
  <2>1. CASE UNCHANGED proven
    BY <2>1
  <2>2. ASSUME NEW w \in Workers, MarkActive(w)
        PROVE  proven' \subseteq Revisions
    BY <1>2, <2>2 DEF MarkActive, ActivationLabels, Enforcing
  <2> QED
    BY <2>1, <2>2, Steps
       DEF Activate, Clear, Rollback, Begin, ReadActive, Supersede, Insert, Pending, Suspend,
         ApplyControl, ClearControl, NextControl, ConfigureFilter, ReconcileScreenTime, Fail,
         ClearNetwork, ClearFilter, ClearRead, ClearPackages, ClearScreenTime, ClearEnvelope,
         ClearState, RollbackRead, RollbackChoose, Return, Observe, ObserveEnvelope,
         ObserveState, Reconcile, GiveUp, SwitchMode, KeepMode, WriteMode, Crash, device
<1> QED BY <1>3, <1>4, <1>5, <1>6, SuspendedStep, KeptStep

\* What the steps of a worker do to what it does and to the history.
LEMMA BusySteps ==
  ASSUME TypeInv, Next
  PROVE  \/ \E w \in Workers :
              /\ pc[w] = "idle" /\ Starts(w)
              /\ \A u \in Workers \ {w} : pc'[u] = pc[u]
         \/ \E w \in Workers :
              /\ pc[w] # "idle" /\ UNCHANGED history
              /\ \A u \in Workers \ {w} : pc'[u] = pc[u]
         \/ \E w \in Workers :
              /\ pc[w] = "done" /\ pc' = [pc EXCEPT ![w] = "idle"]
              /\ beside' = beside \ {w} /\ overlapped' = overlapped
         \/ UNCHANGED <<pc, history>>
         \/ /\ \A w \in Workers : pc'[w] = "idle"
            /\ beside' = {} /\ overlapped' = overlapped
<1> USE DEF Goes, TypeInv, SyncTypes
<1>1. ASSUME NEW w \in Workers, NEW q \in Requested, Begin(w, q)
      PROVE  /\ pc[w] = "idle" /\ Starts(w)
             /\ \A u \in Workers \ {w} : pc'[u] = pc[u]
  BY <1>1 DEF Begin, Starts
<1>2. ASSUME NEW w \in Workers, Activate(w) \/ Clear(w) \/ Rollback(w) \/ Fail(w)
      PROVE  /\ pc[w] # "idle" /\ UNCHANGED history
             /\ \A u \in Workers \ {w} : pc'[u] = pc[u]
  BY <1>2
     DEF Activate, ReadActive, Supersede, Insert, Pending, Suspend, ApplyControl, NextControl,
       ConfigureFilter, ReconcileScreenTime, MarkActive, Fail, Returns, Clear, ClearNetwork,
       ClearFilter, ClearRead, ClearPackages, ClearControl, ClearScreenTime, ClearEnvelope,
       ClearState, Rollback, RollbackRead, RollbackChoose
<1>3. ASSUME NEW w \in Workers, Return(w)
      PROVE  /\ pc[w] = "done" /\ pc' = [pc EXCEPT ![w] = "idle"]
             /\ beside' = beside \ {w} /\ overlapped' = overlapped
  BY <1>3 DEF Return
<1>4. ASSUME NEW o \in AllObservers, Observe(o)
      PROVE  UNCHANGED <<pc, history>>
  BY <1>4 DEF Observe, ObserveEnvelope, ObserveState, Reconcile, GiveUp, SwitchMode, KeepMode, WriteMode
<1>5. ASSUME Crash
      PROVE  /\ \A w \in Workers : pc'[w] = "idle"
             /\ beside' = {} /\ overlapped' = overlapped
  BY <1>5 DEF Crash, Forget
<1> QED BY <1>1, <1>2, <1>3, <1>4, <1>5, Steps

LEMMA AloneStep ==
  ASSUME TypeInv, Next
  PROVE  Alone'
<1> USE DEF TypeInv, SyncTypes, Alone
<1>1. ASSUME NEW w \in Workers, pc[w] = "idle", Starts(w), \A u \in Workers \ {w} : pc'[u] = pc[u]
      PROVE  Alone'
  <2> DEFINE busy == {u \in Workers : pc[u] # "idle"}
  <2>1. CASE busy = {}
    BY <1>1, <2>1 DEF Starts
  <2>2. CASE busy # {}
    <3>1. beside' = beside \union busy \union {w} /\ overlapped'
      BY <1>1, <2>2 DEF Starts
    <3> QED BY <1>1, <3>1
  <2> QED BY <2>1, <2>2
<1>2. ASSUME NEW w \in Workers, pc[w] # "idle", UNCHANGED history,
             \A u \in Workers \ {w} : pc'[u] = pc[u]
      PROVE  Alone'
  BY <1>2
<1>3. ASSUME NEW w \in Workers, pc[w] = "done", pc' = [pc EXCEPT ![w] = "idle"],
             beside' = beside \ {w}, overlapped' = overlapped
      PROVE  Alone'
  BY <1>3
<1>4. ASSUME UNCHANGED <<pc, history>>
      PROVE  Alone'
  BY <1>4
<1>5. ASSUME \A w \in Workers : pc'[w] = "idle", beside' = {}, overlapped' = overlapped
      PROVE  Alone'
  BY <1>5
<1> QED BY <1>1, <1>2, <1>3, <1>4, <1>5, BusySteps

LEMMA TypeInvStep == TypeInv /\ [Next]_vars => TypeInv'
<1>1. ASSUME TypeInv, Next PROVE TypeInv'
  BY <1>1, TableTypesStep, DeviceTypesStep, SyncTypesStep, ObserverTypesStep, AloneStep DEF TypeInv
<1>2. ASSUME TypeInv, UNCHANGED vars PROVE TypeInv'
  BY <1>2
     DEF Alone, TypeInv, TableTypes, UniqueRows, DeviceTypes, SyncTypes, OrderFits,
       ObserverTypes, ObserverFits
<1> QED BY <1>1, <1>2

THEOREM Invariance == Spec => []TypeInv
<1>1. Init => TypeInv
  BY TypeInvInitial
<1> QED BY <1>1, TypeInvStep, PTL DEF Spec

\* The tables, the device and what each worker has read are of their types, for
\* any number of sync workers and whatever fails or dies between two steps.
THEOREM Types == Spec => []TypeOK
<1>1. TypeInv => TypeOK
  <2> SUFFICES ASSUME TypeInv PROVE TypeOK
    OBVIOUS
  <2>1. \A o \in AllObservers :
          /\ observer[o].pc \in {"idle", "read_state", "adjust", "write", "reconcile"}
          /\ observer[o].revision \in RevisionOrNone
          /\ observer[o].state \in PolicyStates
    BY DEF TypeInv, ObserverTypes, Observers
  <2> QED BY <2>1 DEF TypeInv, TableTypes, DeviceTypes, SyncTypes, TypeOK
<1> QED BY <1>1, Invariance, PTL
-----------------------------------------------------------------------------
LEMMA ProvenGrows ==
  ASSUME TypeInv, Next
  PROVE  proven \subseteq proven'
<1>1. CASE UNCHANGED proven
  BY <1>1
<1>2. CASE \E w \in Workers : MarkActive(w)
  BY <1>2 DEF MarkActive
<1> QED
  BY <1>1, <1>2, Steps
     DEF Activate, Clear, Rollback, Begin, ReadActive, Supersede, Insert, Pending, Suspend,
       ApplyControl, ClearControl, NextControl, ConfigureFilter, ReconcileScreenTime, Fail,
       ClearNetwork, ClearFilter, ClearRead, ClearPackages, ClearScreenTime, ClearEnvelope,
       ClearState, RollbackRead, RollbackChoose, Return, Observe, ObserveEnvelope,
       ObserveState, Reconcile, GiveUp, SwitchMode, KeepMode, WriteMode, Crash, device

LEMMA ClaimsProvenStep ==
  ASSUME TypeInv, ClaimsProven, Next
  PROVE  ClaimsProven'
<1> USE DEF ClaimsProven, StateClaimsProven
<1>1. proven \subseteq proven'
  BY ProvenGrows
<1>2. ASSUME policyState' = policyState,
             \A o \in AllObservers :
               \/ observer'[o].pc \notin {"adjust", "write"}
               \/ observer[o].pc \in {"adjust", "write"} /\ observer'[o].state = observer[o].state
               \/ observer'[o].state = policyState
      PROVE  ClaimsProven'
  BY <1>1, <1>2
<1>3. ASSUME NEW w \in Workers, Pending(w) \/ ClearState(w)
      PROVE  ClaimsProven'
  BY <1>1, <1>3 DEF Pending, ClearState
<1>4. ASSUME NEW w \in Workers, MarkActive(w)
      PROVE  ClaimsProven'
  BY <1>1, <1>4 DEF MarkActive, TypeInv, DeviceTypes, PolicyStates
<1>5. ASSUME WriteMode
      PROVE  ClaimsProven'
  <2>1. "schedule" \in AllObservers /\ observer["schedule"].state \in PolicyStates
    BY DEF AllObservers, TypeInv, ObserverTypes, Observers
  <2>2. /\ policyState' = [observer["schedule"].state EXCEPT !.mode = observer["schedule"].mode]
        /\ observer["schedule"].pc = "write"
        /\ observer' = [observer EXCEPT !["schedule"].pc = "reconcile"]
    BY <1>5 DEF WriteMode
  <2>3. /\ policyState'.applyState = observer["schedule"].state.applyState
        /\ policyState'.revision = observer["schedule"].state.revision
    BY <2>1, <2>2 DEF PolicyStates
  <2>4. ASSUME NEW o \in AllObservers, observer'[o].pc \in {"adjust", "write"}
        PROVE  observer[o].pc \in {"adjust", "write"} /\ observer'[o].state = observer[o].state
    BY <2>2, <2>4 DEF TypeInv, ObserverTypes, Observers
  <2> QED BY <1>1, <2>1, <2>2, <2>3, <2>4
<1>6. ASSUME NEW o \in AllObservers, ObserveEnvelope(o) \/ ObserveState(o) \/ Rest(o),
             UNCHANGED policyState
      PROVE  ClaimsProven'
  <2>1. \A p \in AllObservers :
          \/ observer'[p].pc \notin {"adjust", "write"}
          \/ observer[p].pc \in {"adjust", "write"} /\ observer'[p].state = observer[p].state
          \/ observer'[p].state = policyState
    BY <1>6 DEF ObserveEnvelope, ObserveState, Rest, IdleObserver, TypeInv, ObserverTypes, Observers
  <2> QED BY <1>2, <1>6, <2>1
<1>7. ASSUME SwitchMode
      PROVE  ClaimsProven'
  <2>1. \A p \in AllObservers :
          \/ observer'[p].pc \notin {"adjust", "write"}
          \/ observer[p].pc \in {"adjust", "write"} /\ observer'[p].state = observer[p].state
    BY <1>7 DEF SwitchMode, TypeInv, ObserverTypes, Observers
  <2> QED BY <1>2, <1>7, <2>1 DEF SwitchMode
<1>8. ASSUME Crash
      PROVE  ClaimsProven'
  <2>1. \A p \in AllObservers : observer'[p].pc \notin {"adjust", "write"}
    BY <1>8 DEF Crash, Forget, IdleObserver
  <2> QED BY <1>2, <1>8, <2>1 DEF Crash
<1>9. CASE UNCHANGED <<policyState, observer>>
  BY <1>2, <1>9 
<1> QED
  BY <1>3, <1>4, <1>5, <1>6, <1>7, <1>8, <1>9, Steps
     DEF Activate, Clear, Rollback, Begin, ReadActive, Supersede, Insert, Suspend,
       ApplyControl, ClearControl, NextControl, ConfigureFilter, ReconcileScreenTime, Fail,
       ClearNetwork, ClearFilter, ClearRead, ClearPackages, ClearScreenTime, ClearEnvelope,
       RollbackRead, RollbackChoose, Return, Observe, ObserveEnvelope, ObserveState,
       Reconcile, GiveUp, KeepMode, device

\* A state row that says ACTIVE names a revision whose activation ran to the end,
\* although a periodic worker may write back a row it has read long before.
THEOREM StateIsProven == Spec => []StateClaimsProven
<1>1. Init => ClaimsProven
  BY DEF Init, ClaimsProven, StateClaimsProven, NoState, IdleObserver
<1>2. TypeInv /\ ClaimsProven /\ [Next]_vars => ClaimsProven'
  <2>1. ASSUME TypeInv, ClaimsProven, Next PROVE ClaimsProven'
    BY <2>1, ClaimsProvenStep
  <2>2. ASSUME ClaimsProven, UNCHANGED vars PROVE ClaimsProven'
    BY <2>2 DEF vars, device, ClaimsProven, StateClaimsProven
  <2> QED BY <2>1, <2>2
<1>3. ClaimsProven => StateClaimsProven
  BY DEF ClaimsProven
<1> QED BY <1>1, <1>2, <1>3, Invariance, PTL DEF Spec
-----------------------------------------------------------------------------
\* Nobody but worker w does anything in this step.
Only(w) ==
  \A u \in Workers \ {w} : pc[u] = "idle" /\ pc'[u] = "idle" /\ order'[u] = NoOrder

\* A worker that has been alone so far is alone in this step.
LEMMA OnlyOne ==
  ASSUME TypeInv, Next, NEW w \in Workers, w \notin beside', pc'[w] # "idle"
  PROVE  Only(w) /\ w \notin beside
<1> USE DEF TypeInv, Alone
<1>1. \A u \in Workers : pc'[u] = "idle" => order'[u] = NoOrder
  BY SyncTypesStep DEF SyncTypes
<1>2. ASSUME \A u \in Workers \ {w} : pc[u] = "idle" /\ pc'[u] = "idle"
      PROVE  Only(w)
  BY <1>1, <1>2 DEF Only
<1>3. ASSUME NEW v \in Workers, pc[v] = "idle", Starts(v), \A u \in Workers \ {v} : pc'[u] = pc[u]
      PROVE  Only(w) /\ w \notin beside
  <2> DEFINE busy == {u \in Workers : pc[u] # "idle"}
  <2>1. busy = {} \/ beside' = beside \union busy \union {v}
    BY <1>3 DEF Starts
  <2>2. beside \subseteq beside'
    BY <1>3 DEF Starts
  <2>3. v = w
    <3>1. v # w => w \in busy
      BY <1>3
    <3> QED BY <2>1, <3>1
  <2>4. busy = {}
    BY <2>1, <2>3
  <2> QED BY <1>2, <1>3, <2>2, <2>3, <2>4
<1>4. ASSUME NEW v \in Workers, pc[v] # "idle", UNCHANGED history,
             \A u \in Workers \ {v} : pc'[u] = pc[u]
      PROVE  Only(w) /\ w \notin beside
  <2>1. w \notin beside
    BY <1>4
  <2>2. v = w
    BY <1>4, <2>1
  <2> QED BY <1>2, <1>4, <2>1, <2>2
<1>5. ASSUME NEW v \in Workers, pc[v] = "done", pc' = [pc EXCEPT ![v] = "idle"],
             beside' = beside \ {v}
      PROVE  Only(w) /\ w \notin beside
  <2>1. v # w /\ pc[w] # "idle"
    BY <1>5 DEF SyncTypes
  <2> QED BY <1>5, <2>1
<1>6. ASSUME UNCHANGED <<pc, history>>
      PROVE  Only(w) /\ w \notin beside
  BY <1>2, <1>6
<1> QED BY <1>3, <1>4, <1>5, <1>6, BusySteps

\* Until two operations overlap, some worker is the only one that does anything.
LEMMA OneBusy ==
  ASSUME TypeInv, Next, ~ overlapped', Workers # {}
  PROVE  ~ overlapped /\ \E w \in Workers : Only(w)
<1> USE DEF TypeInv, Alone
<1>1. ~ overlapped
  BY BusySteps DEF Starts
<1>2. beside = {} /\ beside' = {}
  BY <1>1, AloneStep
<1>3. CASE \E w \in Workers : pc'[w] # "idle"
  BY <1>1, <1>2, <1>3, OnlyOne
<1>4. CASE \A w \in Workers : pc'[w] = "idle"
  <2>1. \E w \in Workers : \A u \in Workers \ {w} : pc[u] = "idle"
    BY <1>2
  <2>2. \A u \in Workers : order'[u] = NoOrder
    BY <1>4, SyncTypesStep DEF SyncTypes
  <2> QED BY <1>1, <1>4, <2>1, <2>2 DEF Only
<1> QED BY <1>3, <1>4

LEMMA StepOf ==
  ASSUME TypeInv, Next, NEW w \in Workers, Only(w)
  PROVE  /\ UNCHANGED scenario
         /\ \/ \E q \in Requested : Begin(w, q)
            \/ Activate(w) \/ Clear(w) \/ Rollback(w) \/ Fail(w) \/ Return(w)
            \/ \E o \in AllObservers : o \in scenario.observers /\ Observe(o)
            \/ Crash
<1>1. ASSUME NEW v \in Workers, pc[v] # "idle" PROVE v = w
  BY <1>1 DEF Only
<1>2. ASSUME NEW v \in Workers, NEW q \in Requested, Begin(v, q) PROVE v = w
  <2>1. q.operation \in {"apply", "clear", "rollback"}
    BY ActivatorAssumption DEF Requested, AllOperations, TypeInv, SyncTypes
  <2>2. pc'[v] # "idle"
    BY <1>2, <2>1 DEF Begin, Goes, TypeInv, SyncTypes
  <2> QED BY <2>2 DEF Only
<1>3. ASSUME NEW v \in Workers, Activate(v) \/ Clear(v) \/ Rollback(v) \/ Fail(v) \/ Return(v)
      PROVE  pc[v] # "idle"
  BY <1>3
     DEF Activate, ReadActive, Supersede, Insert, Pending, Suspend, ApplyControl, ConfigureFilter,
       ReconcileScreenTime, MarkActive, Fail, Return, Clear, ClearNetwork, ClearFilter, ClearRead,
       ClearPackages, ClearControl, ClearScreenTime, ClearEnvelope, ClearState, Rollback,
       RollbackRead, RollbackChoose
<1> QED BY <1>1, <1>2, <1>3, Steps
-----------------------------------------------------------------------------
\* The steps that leave the table as it is: what was read is still true.
LEMMA TableKept ==
  ASSUME TypeInv, TableInv, Next, NEW w \in Workers, Only(w),
         ~ (Supersede(w) \/ Insert(w) \/ MarkActive(w) \/ ClearEnvelope(w))
  PROVE  TableInv'
<1> USE DEF TypeInv, SyncTypes, TableInv, Goes
<1>0. UNCHANGED envelopes
  BY StepOf
     DEF Activate, Clear, Rollback, Begin, ReadActive, Pending, Suspend, ApplyControl,
       ClearControl, NextControl, ConfigureFilter, ReconcileScreenTime, Fail, ClearNetwork,
       ClearFilter, ClearRead, ClearPackages, ClearScreenTime, ClearState, RollbackRead,
       RollbackChoose, Return, Observe, ObserveEnvelope, ObserveState, Reconcile, GiveUp,
       SwitchMode, KeepMode, WriteMode, Crash, device
<1>1. ActiveRevisions' = ActiveRevisions /\ proven \subseteq proven'
  BY <1>0, ProvenGrows DEF ActiveRevisions
<1>2. RowsProven' /\ OneActive'
  BY <1>0, <1>1 DEF RowsProven, OneActive
<1>3. ASSUME TablePhase(w)',
             order'[w].operation = "rollback" /\ order'[w].revision # NoRevision =>
               order'[w].revision \in proven'
      PROVE  TableInv'
  <2>1. \A u \in Workers \ {w} : TablePhase(u)'
    BY DEF Only, TablePhase, Enforcing
  <2>2. \A u \in Workers \ {w} : order'[u].operation # "rollback"
    BY DEF Only, NoOrder
  <2> QED BY <1>2, <1>3, <2>1, <2>2 DEF WaysProven
<1>4. TablePhase(w)
  OBVIOUS
<1>5. order[w].operation = "rollback" /\ order[w].revision # NoRevision =>
        order[w].revision \in proven'
  BY <1>1 DEF WaysProven
<1> USE DEF Enforcing
<1>6. CASE UNCHANGED sync
  BY <1>0, <1>1, <1>3, <1>4, <1>5, <1>6 DEF TablePhase, ReadsActive, sync
<1>7. ASSUME NEW q \in Requested, Begin(w, q)
      PROVE  TableInv'
  <2>1. pc'[w] \in {"read_active", "clear_network", "rollback_read"} /\ order'[w] = q
    <3>1. q.operation \in AllOperations
      BY ActivatorAssumption DEF Requested
    <3>2. q.operation = "apply" \/ q.operation = "clear" \/ q.operation = "rollback"
      BY <3>1 DEF AllOperations
    <3> QED BY <1>7, <3>2 DEF Begin
  <2>2. TablePhase(w)'
    BY <2>1 DEF TablePhase
  <2> QED BY <1>3, <2>1, <2>2 DEF Requested
<1>8. ASSUME ReadActive(w) \/ ClearRead(w) \/ RollbackRead(w)
      PROVE  TableInv'
  <2>1. /\ ReadsActive(active'[w]) /\ order' = order
        /\ pc'[w] \in {"supersede", "clear_packages", "rollback_choose"}
    BY <1>8 DEF ReadActive, ClearRead, RollbackRead
  <2>2. TablePhase(w)'
    BY <1>1, <2>1 DEF TablePhase, ReadsActive
  <2> QED BY <1>3, <1>5, <2>1, <2>2
<1>9. ASSUME Pending(w) \/ Suspend(w) \/ ApplyControl(w) \/ ConfigureFilter(w) \/ ReconcileScreenTime(w)
      PROVE  TableInv'
  <2>1. pc[w] \in Enforcing /\ pc'[w] \in Enforcing /\ order' = order
    BY <1>9 DEF Pending, Suspend, ApplyControl, NextControl, ConfigureFilter, ReconcileScreenTime
  <2>2. TablePhase(w)'
    BY <1>0, <1>1, <1>4, <2>1 DEF TablePhase
  <2> QED BY <1>3, <1>5, <2>1, <2>2
<1>10. ASSUME ClearNetwork(w) \/ ClearFilter(w) \/ ClearState(w) \/ Fail(w) \/ Return(w)
       PROVE  TableInv'
  <2>1. /\ pc'[w] \in {"clear_filter", "clear_read", "done", "idle"}
        /\ order' = order \/ order'[w] = NoOrder
    BY <1>10 DEF ClearNetwork, ClearFilter, ClearState, Fail, Return, Returns
  <2>2. TablePhase(w)'
    BY <2>1 DEF TablePhase
  <2> QED BY <1>3, <1>5, <2>1, <2>2 DEF NoOrder
<1>11. ASSUME ClearPackages(w) \/ ClearControl(w) \/ ClearScreenTime(w)
       PROVE  TableInv'
  <2>1. /\ pc[w] \in {"clear_packages", "clear_controls", "clear_screen_time"}
        /\ pc'[w] \in {"clear_controls", "clear_screen_time", "clear_envelope"}
        /\ order' = order /\ active' = active
    BY <1>11 DEF ClearPackages, ClearControl, NextControl, ClearScreenTime
  <2>2. TablePhase(w)'
    BY <1>1, <1>4, <2>1 DEF TablePhase, ReadsActive
  <2> QED BY <1>3, <1>5, <2>1, <2>2
<1>12. ASSUME RollbackChoose(w)
       PROVE  TableInv'
  <2> DEFINE r == IF active[w] = NoRevision THEN NoRevision
                  ELSE RollbackEnvelope(envelopes, active[w])
  <2>1. r # NoRevision => r \in proven
    <3>1. r # NoRevision => \E i \in DOMAIN envelopes :
                              /\ envelopes[i].revision = r
                              /\ envelopes[i].status \in {"ACTIVE", "SUPERSEDED"}
      BY RollbackRow DEF TableTypes
    <3> QED BY <3>1 DEF RowsProven
  <2>2. /\ pc'[w] \in {"clear_network", "read_active"} /\ pc[w] = "rollback_choose"
        /\ order' = IF r = NoRevision THEN order
                    ELSE [order EXCEPT ![w].revision = r, ![w].mode = DefaultMode[r]]
    BY <1>12 DEF RollbackChoose
  <2>3. TablePhase(w)'
    BY <2>2 DEF TablePhase
  <2> HIDE DEF r
  <2>4. order[w] \in Orders
    BY <2>2 DEF OrderFits
  <2>5. order'[w].revision \in {order[w].revision, r}
    BY <2>2, <2>4 DEF Orders
  <2>6. order[w].revision = NoRevision
    BY <2>2 DEF OrderFits, RollbackLabels
  <2> QED BY <1>1, <1>3, <2>1, <2>3, <2>5, <2>6
<1>13. ASSUME Crash
       PROVE  TableInv'
  <2>1. pc'[w] = "idle" /\ order'[w] = NoOrder
    BY <1>13 DEF Crash, Forget
  <2> QED BY <1>3, <2>1 DEF TablePhase, NoOrder
<1>14. ASSUME NEW o \in AllObservers, Observe(o)
       PROVE  UNCHANGED sync
  BY <1>14 DEF Observe, ObserveEnvelope, ObserveState, Reconcile, GiveUp, SwitchMode, KeepMode, WriteMode
<1> QED
  BY <1>6, <1>7, <1>8, <1>9, <1>10, <1>11, <1>12, <1>13, <1>14, StepOf
     DEF Activate, Clear, Rollback

\* Taking the status of an active envelope away leaves none.
LEMMA ActiveTaken ==
  ASSUME TypeInv, TableInv, NEW r \in RevisionOrNone, ReadsActive(r),
         NEW status \in {"SUPERSEDED", "CLEARED"}, proven \subseteq proven',
         envelopes' = IF r = NoRevision THEN envelopes ELSE WithStatus(envelopes, r, status)
  PROVE  /\ \A i \in DOMAIN envelopes' : envelopes'[i].status # "ACTIVE"
         /\ RowsProven'
<1> USE DEF TypeInv, TableTypes, TableInv
<1>1. CASE r = NoRevision
  <2>1. ActiveRevisions = {}
    BY <1>1, ActiveTyped, ActivatorAssumption DEF ReadsActive
  <2>2. \A i \in DOMAIN envelopes : envelopes[i].status # "ACTIVE"
    BY <2>1 DEF ActiveRevisions, ToSet
  <2> QED BY <1>1, <2>2 DEF RowsProven
<1>2. CASE r # NoRevision
  <2>1. r \in ActiveRevisions
    BY <1>2 DEF ReadsActive
  <2>2. PICK i \in DOMAIN envelopes : envelopes[i].status = "ACTIVE" /\ envelopes[i].revision = r
    BY <2>1 DEF ActiveRevisions, ToSet
  <2>3. /\ DOMAIN envelopes' = DOMAIN envelopes
        /\ \A j \in DOMAIN envelopes :
             /\ envelopes'[j].revision = envelopes[j].revision
             /\ envelopes'[j].status = IF PolicyOf[envelopes[j].revision] = PolicyOf[r]
                                       THEN status ELSE envelopes[j].status
    <3>1. status \in Statuses /\ envelopes' = WithStatus(envelopes, r, status)
      BY <1>2 DEF Statuses
    <3> QED BY <3>1, StatusTable
  <2>4. \A j \in DOMAIN envelopes :
          /\ PolicyOf[envelopes[j].revision] = PolicyOf[r] => j = i
          /\ envelopes[j].status = "ACTIVE" => j = i
    BY <2>2 DEF UniqueRows, OneActive
  <2>5. \A j \in DOMAIN envelopes : envelopes'[j].status # "ACTIVE"
    BY <2>2, <2>3, <2>4
  <2>6. r \in proven
    BY <2>2 DEF RowsProven
  <2>7. ASSUME NEW j \in DOMAIN envelopes', envelopes'[j].status \in {"ACTIVE", "SUPERSEDED"}
        PROVE  envelopes'[j].revision \in proven
    BY <2>2, <2>3, <2>4, <2>6, <2>7 DEF RowsProven
  <2> QED BY <2>3, <2>5, <2>7 DEF RowsProven
<1> QED BY <1>1, <1>2

LEMMA NoneActive ==
  ActiveRevisions = {} <=> \A i \in DOMAIN envelopes : envelopes[i].status # "ACTIVE"
  BY DEF ActiveRevisions, ToSet

LEMMA TableChanged ==
  ASSUME TypeInv, TableInv, Next, NEW w \in Workers, Only(w),
         Supersede(w) \/ Insert(w) \/ MarkActive(w) \/ ClearEnvelope(w)
  PROVE  TableInv'
<1> USE DEF TypeInv, TableTypes, SyncTypes, TableInv, Goes
<1>0. \A u \in Workers \ {w} : TablePhase(u)'
  BY DEF Only, TablePhase, Enforcing
<1>1. proven \subseteq proven' /\ order' = order
  BY ProvenGrows DEF Supersede, Insert, MarkActive, ClearEnvelope, Returns
<1>2. WaysProven'
  BY <1>1 DEF WaysProven
<1>3. ASSUME RowsProven', TablePhase(w)',
             \A i \in DOMAIN envelopes' : envelopes'[i].status # "ACTIVE"
      PROVE  TableInv'
  BY <1>0, <1>2, <1>3 DEF OneActive
<1>4. ASSUME \A i \in DOMAIN envelopes' : envelopes'[i].status # "ACTIVE"
      PROVE  ActiveRevisions' = {}
  BY <1>4 DEF ActiveRevisions, ToSet
<1>5. active[w] \in RevisionOrNone /\ TablePhase(w)
  OBVIOUS
<1>6. CASE Supersede(w) \/ ClearEnvelope(w)
  <2>1. ReadsActive(active[w])
    BY <1>5, <1>6 DEF Supersede, ClearEnvelope, TablePhase
  <2>2. \E status \in {"SUPERSEDED", "CLEARED"} :
          envelopes' = IF active[w] = NoRevision THEN envelopes
                       ELSE WithStatus(envelopes, active[w], status)
    BY <1>6 DEF Supersede, ClearEnvelope
  <2>3. RowsProven' /\ \A i \in DOMAIN envelopes' : envelopes'[i].status # "ACTIVE"
    BY <1>1, <1>5, <2>1, <2>2, ActiveTaken
  <2>4. pc'[w] \in {"insert", "clear_state"}
    BY <1>6 DEF Supersede, ClearEnvelope
  <2>5. TablePhase(w)'
    BY <1>4, <2>3, <2>4 DEF TablePhase, Enforcing
  <2> QED BY <1>3, <2>3, <2>5
<1>7. CASE Insert(w)
  <2> DEFINE r == order[w].revision
  <2>1. pc[w] = "insert" /\ pc'[w] = "pending" /\ envelopes' = WithEnvelope(envelopes, r)
    BY <1>7 DEF Insert
  <2>2. r \in Revisions
    BY <2>1 DEF OrderFits, ActivationLabels
  <2>3. \A i \in DOMAIN envelopes : envelopes[i].status # "ACTIVE"
    <3>1. ActiveRevisions = {}
      BY <1>5, <2>1 DEF TablePhase
    <3> QED BY <3>1, NoneActive
  <2>4. /\ \E i \in DOMAIN envelopes' : envelopes'[i].revision = r
        /\ \A i \in DOMAIN envelopes' :
             \/ envelopes'[i] = [revision |-> r, status |-> "PENDING"]
             \/ \E j \in DOMAIN envelopes : envelopes'[i] = envelopes[j]
    <3>1. envelopes \in Seq(Envelopes) /\ UniqueRows(envelopes)
      OBVIOUS
    <3> HIDE DEF TypeInv, TableTypes, SyncTypes, TableInv, Goes, r
    <3> QED BY <2>1, <2>2, <3>1, EnvelopeTable
  <2> HIDE DEF r
  <2>5. \A i \in DOMAIN envelopes' : envelopes'[i].status # "ACTIVE"
    BY <2>3, <2>4
  <2>6. RowsProven'
    BY <1>1, <2>4 DEF RowsProven
  <2>7. TablePhase(w)'
    BY <1>1, <1>4, <2>1, <2>4, <2>5 DEF TablePhase, Enforcing, r
  <2> QED BY <1>3, <2>5, <2>6, <2>7
<1>8. CASE MarkActive(w)
  <2> DEFINE r == order[w].revision
  <2>1. /\ pc[w] = "mark_active" /\ pc'[w] = "done"
        /\ envelopes' = WithStatus(envelopes, r, "ACTIVE")
        /\ proven' = proven \union {r}
    BY <1>8 DEF MarkActive, Returns
  <2>2. /\ \A i \in DOMAIN envelopes : envelopes[i].status # "ACTIVE"
        /\ \E i \in DOMAIN envelopes : envelopes[i].revision = r
    <3>1. ActiveRevisions = {}
      BY <1>5, <2>1 DEF TablePhase, Enforcing
    <3>2. \E i \in DOMAIN envelopes : envelopes[i].revision = r
      BY <1>5, <2>1 DEF TablePhase, Enforcing
    <3> QED BY <3>1, <3>2, NoneActive
  <2>3. /\ DOMAIN envelopes' = DOMAIN envelopes
        /\ \A j \in DOMAIN envelopes :
             /\ envelopes'[j].revision = envelopes[j].revision
             /\ envelopes'[j].status = IF PolicyOf[envelopes[j].revision] = PolicyOf[r]
                                       THEN "ACTIVE" ELSE envelopes[j].status
    <3>1. envelopes \in Seq(Envelopes) /\ "ACTIVE" \in Statuses
      BY DEF Statuses
    <3> HIDE DEF TypeInv, TableTypes, SyncTypes, TableInv, Goes, r
    <3> QED BY <2>1, <3>1, StatusTable
  <2> HIDE DEF r
  <2>4. PICK i \in DOMAIN envelopes : envelopes[i].revision = r
    BY <2>2
  <2>5. \A j \in DOMAIN envelopes : PolicyOf[envelopes[j].revision] = PolicyOf[r] => j = i
    BY <2>4 DEF UniqueRows
  <2>6. OneActive'
    BY <2>2, <2>3, <2>5 DEF OneActive
  <2>7. RowsProven'
    <3> SUFFICES ASSUME NEW j \in DOMAIN envelopes', envelopes'[j].status \in {"ACTIVE", "SUPERSEDED"}
                 PROVE  envelopes'[j].revision \in proven'
      BY DEF RowsProven
    <3> QED BY <2>1, <2>3, <2>4, <2>5 DEF RowsProven
  <2>8. TablePhase(w)'
    BY <2>1 DEF TablePhase, Enforcing
  <2> QED BY <1>0, <1>2, <2>6, <2>7, <2>8
<1> QED BY <1>6, <1>7, <1>8

LEMMA TableSafeStep ==
  ASSUME TypeInv, TableSafe, Next
  PROVE  TableSafe'
<1> SUFFICES ASSUME ~ overlapped' PROVE TableInv'
  BY DEF TableSafe
<1>1. CASE Workers = {}
  <2>1. UNCHANGED <<envelopes, overlapped>>
    BY <1>1, Steps
       DEF Observe, ObserveEnvelope, ObserveState, Reconcile, GiveUp, SwitchMode, KeepMode,
         WriteMode, Crash, Forget
  <2> QED
    BY <1>1, <2>1, ProvenGrows DEF TableSafe, TableInv, OneActive, RowsProven, WaysProven
<1>2. CASE Workers # {}
  <2>1. ~ overlapped /\ \E w \in Workers : Only(w)
    BY <1>2, OneBusy
  <2> QED BY <2>1, TableKept, TableChanged DEF TableSafe
<1> QED BY <1>1, <1>2

LEMMA TableInvariance == Spec => []TableSafe
<1>1. Init => TableSafe
  BY DEF Init, TableSafe, TableInv, OneActive, RowsProven, WaysProven, TablePhase, NoOrder, Enforcing
<1>2. TypeInv /\ TableSafe /\ [Next]_vars => TableSafe'
  <2>1. ASSUME TableSafe, UNCHANGED vars PROVE TableSafe'
    BY <2>1
       DEF TableSafe, TableInv, OneActive, RowsProven, WaysProven, TablePhase, ReadsActive,
         ActiveRevisions
  <2> QED BY <2>1, TableSafeStep
<1> QED BY <1>1, <1>2, Invariance, PTL DEF Spec

\* However an activation, a clear or a rollback ends, failed, or died with the
\* process: until two operations overlap, at most one envelope is active.
THEOREM OneEnvelope == Spec => []OneActiveEnvelope
<1>1. TableSafe => OneActiveEnvelope
  BY DEF TableSafe, TableInv, OneActive, OneActiveEnvelope
<1> QED BY <1>1, TableInvariance, PTL

\* Until two operations overlap, a rollback goes only to what was once activated
\* to the end.
THEOREM WayBackProven == Spec => []RollbackTargetsProven
<1>1. TableSafe => RollbackTargetsProven
  BY DEF TableSafe, TableInv, WaysProven, RollbackTargetsProven
<1> QED BY <1>1, TableInvariance, PTL
-----------------------------------------------------------------------------
\* The order of ActivationSteps: a control that was set for good is not dropped
\* again, and with the last step all are set.
LEMMA SettingOrder ==
  /\ SetBefore(1) = {}
  /\ \A s \in 1 .. Len(ActivationSteps) : \A c \in SetBefore(s + 1) :
       \/ ActivationSteps[s] = Set(c)
       \/ ActivationSteps[s].control # c /\ c \in SetBefore(s)
  /\ \A c \in Controls :
       \/ ActivationSteps[Len(ActivationSteps)] = Set(c)
       \/ /\ ActivationSteps[Len(ActivationSteps)].control # c
          /\ c \in SetBefore(Len(ActivationSteps))
<1>1. \A s \in 1 .. 9 : s = 1 \/ s = 2 \/ s = 3 \/ s = 4 \/ s = 5 \/ s = 6 \/ s = 7 \/ s = 8 \/ s = 9
  OBVIOUS
<1>2. /\ ActivationSteps[1] = Set("lock_task") /\ ActivationSteps[2] = Drop("application")
      /\ ActivationSteps[3] = Drop("network") /\ ActivationSteps[4] = Drop("device")
      /\ ActivationSteps[5] = Set("application") /\ ActivationSteps[6] = Set("device")
      /\ ActivationSteps[7] = Drop("screen_lock") /\ ActivationSteps[8] = Set("screen_lock")
      /\ ActivationSteps[9] = Set("network")
  BY DEF ActivationSteps
<1>3. \A c : Set(c).control = c /\ Drop(c).control = c
  BY DEF Set, Drop
<1>4. SetBefore(1) = {}
  BY DEF SetBefore
<1>5. ASSUME NEW s \in 1 .. 9, NEW c \in SetBefore(s + 1)
      PROVE  ActivationSteps[s] = Set(c) \/ (ActivationSteps[s].control # c /\ c \in SetBefore(s))
  BY <1>1, <1>2, <1>3 DEF SetBefore
<1>6. ASSUME NEW c \in Controls
      PROVE  ActivationSteps[9] = Set(c) \/ (ActivationSteps[9].control # c /\ c \in SetBefore(9))
  BY <1>2, <1>3 DEF SetBefore, Controls
<1> QED BY <1>4, <1>5, <1>6, StepCounts

LEMMA ClearingOrder ==
  /\ ClearedBefore(1) = {"network"}
  /\ \A s \in 1 .. Len(ClearingSteps) : \A c \in ClearedBefore(s + 1) :
       ClearingSteps[s].control = c \/ c \in ClearedBefore(s)
  /\ \A c \in Controls :
       ClearingSteps[Len(ClearingSteps)].control = c \/ c \in ClearedBefore(Len(ClearingSteps))
<1>1. \A s \in 1 .. 4 : s = 1 \/ s = 2 \/ s = 3 \/ s = 4
  OBVIOUS
<1>2. /\ ClearingSteps[1] = Drop("lock_task") /\ ClearingSteps[2] = Drop("application")
      /\ ClearingSteps[3] = Drop("device") /\ ClearingSteps[4] = Drop("screen_lock")
  BY DEF ClearingSteps
<1>3. \A c : Drop(c).control = c
  BY DEF Drop
<1>4. ClearedBefore(1) = {"network"}
  BY DEF ClearedBefore, Controls
<1>5. ASSUME NEW s \in 1 .. 4, NEW c \in ClearedBefore(s + 1)
      PROVE  ClearingSteps[s].control = c \/ c \in ClearedBefore(s)
  BY <1>1, <1>2, <1>3 DEF ClearedBefore
<1>6. ASSUME NEW c \in Controls
      PROVE  ClearingSteps[4].control = c \/ c \in ClearedBefore(4)
  BY <1>2, <1>3 DEF ClearedBefore, Controls
<1> QED BY <1>4, <1>5, <1>6, StepCounts

\* Neither the application controls nor the screen time release what the mode
\* blocks and Android did not refuse.
LEMMA BlockedKept ==
  ASSUME TypeInv, NEW w \in Workers, order[w].revision \in Revisions,
         NEW held, held \intersect Released = {}, held \subseteq suspended,
         held \subseteq Blocked[order[w].revision][order[w].mode]
  PROVE  /\ \A s \in ApplicationSet(w) : held \subseteq s
         /\ held \subseteq ApplicationCleared(w)
         /\ \A s \in ScreenTimeOutcomes(order[w].revision, Blocked[order[w].revision][order[w].mode]) :
              held \subseteq s
<1> DEFINE r == order[w].revision
           app == Application[r]
<1>1. Store \subseteq Released /\ \A x \in Revisions : Application[x].files \subseteq Released
  BY DEF Released
<1>2. held \intersect (Store \union app.files) = {}
  BY <1>1
<1>3. ASSUME NEW s \in StoreSet(w) PROVE held \subseteq s
  <2>1. s = suspended \ (Store \union app.files) \/ s \in Suspending(suspended, Store)
    BY DEF StoreSet
  <2> QED BY <1>2, <2>1, Adjusted
<1>4. ASSUME NEW s \in ApplicationSet(w) PROVE held \subseteq s
  <2>1. CASE s = suspended
    BY <2>1
  <2>2. CASE s # suspended
    <3>1. PICK x \in StoreSet(w) : s \in IF app.sharing THEN {x \ app.files} ELSE Suspending(x, app.files)
      BY <2>2 DEF ApplicationSet
    <3>2. s = x \ app.files \/ s \in Suspending(x, app.files)
      BY <3>1
    <3> QED BY <1>2, <1>3, <3>2, Adjusted
  <2> QED BY <2>1, <2>2
<1>5. held \subseteq ApplicationCleared(w)
  <2>1. ApplicationOf(active[w]).files \subseteq Released
    BY <1>1 DEF ApplicationOf
  <2> QED BY <1>1, <2>1 DEF ApplicationCleared
<1>6. \A s \in ScreenTimeOutcomes(r, Blocked[r][order[w].mode]) : held \subseteq s
  <2> DEFINE targets == Targets[r] \ Blocked[r][order[w].mode]
  <2>1. \A s \in Suspending(suspended, targets) : held \subseteq s
    BY Adjusted
  <2>2. held \subseteq suspended \ targets
    OBVIOUS
  <2> QED BY <2>1, <2>2 DEF ScreenTimeOutcomes
<1> QED BY <1>4, <1>5, <1>6

\* Which steps change the uninstalls and the location.
LEMMA SettingSteps ==
  /\ ActivationSteps[5] = Set("application") /\ ActivationSteps[6] = Set("device")
  /\ \A s \in 6 .. 9 : ActivationSteps[s].control # "application"
  /\ \A s \in 7 .. 9 : ActivationSteps[s] # Set("device")
  /\ ClearingSteps[2] = Drop("application")
  /\ \A s \in 3 .. 4 : ClearingSteps[s].control # "application"
<1>1. \A s \in 6 .. 9 : s = 6 \/ s = 7 \/ s = 8 \/ s = 9
  OBVIOUS
<1>2. \A s \in 7 .. 9 : s = 7 \/ s = 8 \/ s = 9
  OBVIOUS
<1>3. \A s \in 3 .. 4 : s = 3 \/ s = 4
  OBVIOUS
<1> QED BY <1>1, <1>2, <1>3 DEF ActivationSteps, ClearingSteps, Set, Drop

LEMMA UninstallSet ==
  ASSUME NEW w, NEW r \in Revisions, order[w].revision = r, kept' = KeptAfter(w, Set("application"))
  PROVE  UninstallInForce(r)'
  BY DEF KeptAfter, Set, ApplicationOf, UninstallInForce

LEMMA LocationSet ==
  ASSUME NEW w, NEW r \in Revisions, order[w].revision = r, UNCHANGED scenario,
         locationOff' = LocationAfter(w, Set("device"))
  PROVE  LocationInForce(r)'
  BY DEF LocationAfter, LocationInForce

\* The labels at which every control is set, or lifted, and those the phases speak of.
Settled == {"filter", "screen_time", "mark_active"}
Lifted == {"clear_screen_time", "clear_envelope", "clear_state"}
Tracked ==
  Settled \union Lifted \union {"controls", "clear_filter", "clear_read", "clear_packages",
                                "clear_controls"}

\* The steps after which worker w is in none of the phases.
LEMMA Untracked ==
  ASSUME TypeInv, NEW w \in Workers,
         \/ (\E q \in Requested : Begin(w, q)) \/ Fail(w) \/ Return(w) \/ Rollback(w) \/ Crash
         \/ ReadActive(w) \/ Supersede(w) \/ Insert(w) \/ Pending(w) \/ MarkActive(w)
         \/ ClearState(w)
  PROVE  Phases(w)'
<1> USE DEF TypeInv, SyncTypes, Goes, Settled, Lifted, Tracked
<1>1. \A q \in Requested : q.operation \in {"apply", "clear", "rollback"}
  BY ActivatorAssumption DEF Requested, AllOperations
<1>2. pc'[w] \notin Tracked
  BY <1>1
     DEF Begin, Fail, Return, Returns, Rollback, RollbackRead, RollbackChoose, Crash, Forget,
       ReadActive, Supersede, Insert, Pending, MarkActive, ClearState
<1> QED BY <1>2 DEF Phases, ControlPhase, PackagePhase, SettingPhase

LEMMA ControlPhaseStep ==
  ASSUME TypeInv, NEW w \in Workers, Phases(w), Next, Only(w)
  PROVE  ControlPhase(w)'
<1> USE DEF TypeInv, SyncTypes, Goes, Settled, Lifted
<1>1. ControlPhase(w)
  BY DEF Phases
<1>2. UNCHANGED scenario /\ Unshared' = Unshared
  BY Steps DEF Unshared
<1>3. Unshared \subseteq Controls
  BY DEF Unshared
<1>4. enforced \in [Controls -> RevisionOrNone]
  BY DEF DeviceTypes
<1>5. ASSUME Suspend(w)
      PROVE  ControlPhase(w)'
  <2>1. pc'[w] = "controls" /\ step'[w] = 1
    BY <1>5 DEF Suspend
  <2> QED BY <2>1, SettingOrder DEF ControlPhase
<1>6. ASSUME ApplyControl(w)
      PROVE  ControlPhase(w)'
  <2> DEFINE s == step[w]
             r == order[w].revision
             c == ActivationSteps[s].control
  <2>1. pc[w] = "controls" /\ order' = order /\ s \in 1 .. Len(ActivationSteps)
    BY <1>6 DEF ApplyControl, NextControl, OrderFits
  <2>2. /\ enforced' = [enforced EXCEPT ![c] = IF ActivationSteps[s].on THEN r ELSE NoRevision]
        /\ IF s < Len(ActivationSteps)
           THEN step' = [step EXCEPT ![w] = s + 1] /\ pc' = pc
           ELSE pc' = [pc EXCEPT ![w] = "filter"]
    BY <1>6 DEF ApplyControl, NextControl
  <2>3. ASSUME NEW d \in Unshared,
               ActivationSteps[s] = Set(d) \/ (c # d /\ d \in SetBefore(s))
        PROVE  enforced'[d] = r
    BY <1>1, <1>3, <1>4, <2>1, <2>2, <2>3 DEF ControlPhase, Set
  <2>4. CASE s < Len(ActivationSteps)
    <3>1. pc'[w] = "controls" /\ step'[w] = s + 1
      BY <2>1, <2>2, <2>4
    <3>2. \A d \in Unshared : d \in SetBefore(s + 1) => enforced'[d] = r
      BY <2>1, <2>3, SettingOrder
    <3> HIDE DEF s, r
    <3> QED BY <1>2, <2>1, <3>1, <3>2 DEF ControlPhase, r
  <2>5. CASE ~ (s < Len(ActivationSteps))
    <3>1. pc'[w] = "filter" /\ s = Len(ActivationSteps)
      BY <2>1, <2>2, <2>5, StepCounts
    <3>2. \A d \in Unshared : enforced'[d] = r
      BY <1>3, <2>3, <3>1, SettingOrder
    <3> HIDE DEF s, r
    <3> QED BY <1>2, <2>1, <3>1, <3>2 DEF ControlPhase, r
  <2> QED BY <2>4, <2>5
<1>7. ASSUME ConfigureFilter(w) \/ ReconcileScreenTime(w)
      PROVE  ControlPhase(w)'
  <2>1. /\ pc[w] \in Settled /\ pc'[w] \in Settled /\ order' = order /\ enforced' = enforced
    BY <1>7 DEF ConfigureFilter, ReconcileScreenTime
  <2> QED BY <1>1, <1>2, <2>1 DEF ControlPhase
<1>8. ASSUME ClearNetwork(w) \/ ClearFilter(w) \/ ClearRead(w)
      PROVE  ControlPhase(w)'
  <2>1. "network" \in Controls
    BY DEF Controls
  <2> QED BY <1>1, <1>4, <1>8, <2>1 DEF ControlPhase, ClearNetwork, ClearFilter, ClearRead
<1>9. ASSUME ClearPackages(w)
      PROVE  ControlPhase(w)'
  <2>1. /\ pc[w] = "clear_packages" /\ pc'[w] = "clear_controls" /\ step'[w] = 1
        /\ enforced' = enforced /\ filter' = filter
    BY <1>9 DEF ClearPackages
  <2> QED BY <1>1, <2>1, ClearingOrder DEF ControlPhase
<1>10. ASSUME ClearControl(w)
       PROVE  ControlPhase(w)'
  <2> DEFINE s == step[w]
             c == ClearingSteps[s].control
  <2>1. /\ pc[w] = "clear_controls" /\ s \in 1 .. Len(ClearingSteps)
        /\ ~ ClearingSteps[s].on /\ filter' = filter /\ filter = NoRevision
    BY <1>1, <1>10, ControlNames DEF ClearControl, NextControl, OrderFits, ControlPhase
  <2>2. /\ enforced' = [enforced EXCEPT ![c] = NoRevision]
        /\ IF s < Len(ClearingSteps)
           THEN step' = [step EXCEPT ![w] = s + 1] /\ pc' = pc
           ELSE pc' = [pc EXCEPT ![w] = "clear_screen_time"]
    BY <1>10, <2>1 DEF ClearControl, NextControl
  <2>3. ASSUME NEW d \in Unshared, c = d \/ d \in ClearedBefore(s)
        PROVE  enforced'[d] = NoRevision
    BY <1>1, <1>3, <1>4, <2>1, <2>2, <2>3 DEF ControlPhase
  <2>4. CASE s < Len(ClearingSteps)
    <3>1. pc'[w] = "clear_controls" /\ step'[w] = s + 1
      BY <2>1, <2>2, <2>4
    <3>2. \A d \in Unshared : d \in ClearedBefore(s + 1) => enforced'[d] = NoRevision
      BY <2>1, <2>3, ClearingOrder
    <3> HIDE DEF s
    <3> QED BY <1>2, <2>1, <3>1, <3>2 DEF ControlPhase
  <2>5. CASE ~ (s < Len(ClearingSteps))
    <3>1. pc'[w] = "clear_screen_time" /\ s = Len(ClearingSteps)
      BY <2>1, <2>2, <2>5, StepCounts
    <3>2. \A d \in Unshared : enforced'[d] = NoRevision
      BY <1>3, <2>3, <3>1, ClearingOrder
    <3> HIDE DEF s
    <3> QED BY <1>2, <2>1, <3>1, <3>2 DEF ControlPhase
  <2> QED BY <2>4, <2>5
<1>11. ASSUME ClearScreenTime(w) \/ ClearEnvelope(w)
       PROVE  ControlPhase(w)'
  <2>1. pc[w] \in Lifted /\ pc'[w] \in Lifted /\ enforced' = enforced /\ filter' = filter
    BY <1>11 DEF ClearScreenTime, ClearEnvelope
  <2> QED BY <1>1, <1>2, <2>1 DEF ControlPhase
<1>12. ASSUME NEW o \in AllObservers, o \in scenario.observers, Observe(o)
       PROVE  ControlPhase(w)'
  <2>1. Unshared = Controls \ {"lock_task"} /\ "network" \in Unshared
    BY <1>12 DEF Unshared, Controls
  <2>2. /\ UNCHANGED sync /\ filter' = filter
        /\ \A c \in Unshared : enforced'[c] = enforced[c]
    BY <1>4, <1>12, <2>1
       DEF Observe, ObserveEnvelope, ObserveState, Reconcile, GiveUp, SwitchMode, KeepMode,
         WriteMode
  <2> QED BY <1>1, <1>2, <2>1, <2>2 DEF ControlPhase
<1> QED
  BY <1>5, <1>6, <1>7, <1>8, <1>9, <1>10, <1>11, <1>12, StepOf, Untracked
     DEF Activate, Clear, Phases

\* What the mode blocks and neither Android refused nor an application control
\* of some revision may release.
Held(w) == Blocked[order[w].revision][order[w].mode] \ (Released \union refused[w])

LEMMA PackagePhaseStep ==
  ASSUME TypeInv, NEW w \in Workers, Phases(w), Next, Only(w)
  PROVE  PackagePhase(w)'
<1> USE DEF TypeInv, SyncTypes, Goes, Settled
<1>1. scenario.observers = {} /\ pc[w] \in Settled \union {"controls"} => Held(w) \subseteq suspended
  BY DEF Phases, PackagePhase, Held
<1>2. UNCHANGED scenario
  BY Steps
<1>3. ASSUME pc[w] \in Settled \union {"controls"}, order' = order, refused' = refused,
             Held(w) \subseteq suspended => Held(w) \subseteq suspended'
      PROVE  PackagePhase(w)'
  BY <1>1, <1>2, <1>3 DEF PackagePhase, Held
<1>4. ASSUME pc[w] \in Settled \union {"controls"}
      PROVE  /\ order[w].revision \in Revisions
             /\ Held(w) \intersect Released = {}
             /\ Held(w) \subseteq Blocked[order[w].revision][order[w].mode]
  BY <1>4 DEF OrderFits, ActivationLabels, Enforcing, Held
<1>5. ASSUME Suspend(w)
      PROVE  PackagePhase(w)'
  <2>1. PICK refusal \in SUBSET Blocked[order[w].revision][order[w].mode] :
          /\ refused' = [refused EXCEPT ![w] = refusal]
          /\ suspended' = suspended \union (Blocked[order[w].revision][order[w].mode] \ refusal)
    BY <1>5 DEF Suspend
  <2>2. order' = order /\ refused'[w] = refusal
    BY <1>5, <2>1 DEF Suspend
  <2> QED BY <2>1, <2>2 DEF PackagePhase
<1>6. ASSUME ApplyControl(w)
      PROVE  PackagePhase(w)'
  <2>1. /\ pc[w] = "controls" /\ order' = order /\ refused' = refused
        /\ suspended' \in ApplicationSet(w) \union {suspended, ApplicationCleared(w)}
    BY <1>6 DEF ApplyControl, NextControl, PackagesAfter
  <2>2. ASSUME Held(w) \subseteq suspended PROVE Held(w) \subseteq suspended'
    <3>1. (\A s \in ApplicationSet(w) : Held(w) \subseteq s) /\ Held(w) \subseteq ApplicationCleared(w)
      <4> HIDE DEF TypeInv
      <4> QED BY <1>4, <2>1, <2>2, BlockedKept
    <3> QED BY <2>1, <2>2, <3>1
  <2> QED BY <1>3, <2>1, <2>2
<1>7. ASSUME ConfigureFilter(w)
      PROVE  PackagePhase(w)'
  BY <1>3, <1>7 DEF ConfigureFilter
<1>8. ASSUME ReconcileScreenTime(w)
      PROVE  PackagePhase(w)'
  <2>1. /\ pc[w] = "screen_time" /\ order' = order /\ refused' = refused
        /\ suspended' \in
             ScreenTimeOutcomes(order[w].revision, Blocked[order[w].revision][order[w].mode])
    BY <1>8 DEF ReconcileScreenTime
  <2>2. ASSUME Held(w) \subseteq suspended PROVE Held(w) \subseteq suspended'
    BY <1>4, <2>1, <2>2, BlockedKept
  <2> QED BY <1>3, <2>1, <2>2
<1>9. ASSUME Clear(w) /\ ~ ClearState(w)
      PROVE  PackagePhase(w)'
  <2>1. pc'[w] \in ClearingLabels
    BY <1>9
       DEF Clear, ClearNetwork, ClearFilter, ClearRead, ClearPackages, ClearControl, NextControl,
         ClearScreenTime, ClearEnvelope, ClearingLabels
  <2> QED BY <2>1 DEF PackagePhase, ClearingLabels
<1>10. ASSUME NEW o \in AllObservers, o \in scenario.observers
       PROVE  PackagePhase(w)'
  BY <1>2, <1>10 DEF PackagePhase
<1> QED
  BY <1>5, <1>6, <1>7, <1>8, <1>9, <1>10, StepOf, Untracked DEF Activate, Phases

LEMMA SettingPhaseStep ==
  ASSUME TypeInv, NEW w \in Workers, Phases(w), Next, Only(w)
  PROVE  SettingPhase(w)'
<1> USE DEF TypeInv, SyncTypes, Goes, Settled, Lifted
<1>1. SettingPhase(w)
  BY DEF Phases
<1>2. UNCHANGED scenario
  BY Steps
<1>3. ASSUME UNCHANGED <<kept, locationOff, order, active>>,
             \/ UNCHANGED <<pc, step>>
             \/ pc[w] \in Settled /\ pc'[w] \in Settled
             \/ pc[w] \in Lifted /\ pc'[w] \in Lifted
      PROVE  SettingPhase(w)'
  BY <1>1, <1>2, <1>3 DEF SettingPhase, UninstallInForce, LocationInForce
<1>4. ASSUME \/ pc'[w] \in {"clear_filter", "clear_read", "clear_packages"}
             \/ pc'[w] \in {"controls", "clear_controls"} /\ step'[w] = 1
      PROVE  SettingPhase(w)'
  BY <1>4 DEF SettingPhase
<1>5. ASSUME ApplyControl(w)
      PROVE  SettingPhase(w)'
  <2> DEFINE s == step[w]
  <2>0. PICK r \in Revisions : order[w].revision = r
    BY <1>5 DEF ApplyControl, OrderFits, ActivationLabels, Enforcing
  <2>1. /\ pc[w] = "controls" /\ order' = order /\ s \in 1 .. 9
        /\ kept' = KeptAfter(w, ActivationSteps[s])
        /\ locationOff' = LocationAfter(w, ActivationSteps[s])
        /\ \/ pc'[w] = "controls" /\ step'[w] = s + 1
           \/ pc'[w] = "filter" /\ s = 9
    BY <1>5, StepCounts DEF ApplyControl, NextControl, OrderFits
  <2>2. ASSUME s > 4 PROVE UninstallInForce(r)'
    <3>1. CASE s = 5
      BY <2>0, <2>1, <3>1, SettingSteps, UninstallSet
    <3>2. CASE s # 5
      <4>1. s \in 6 .. 9
        BY <2>1, <2>2, <3>2
      <4>2. kept' = kept
        BY <2>1, <4>1, SettingSteps DEF KeptAfter
      <4>3. UninstallInForce(r)
        BY <1>1, <2>0, <2>1, <4>1 DEF SettingPhase
      <4> QED BY <4>2, <4>3 DEF UninstallInForce
    <3> QED BY <3>1, <3>2
  <2>3. ASSUME s > 5 PROVE LocationInForce(r)'
    <3>1. CASE s = 6
      BY <1>2, <2>0, <2>1, <3>1, SettingSteps, LocationSet
    <3>2. CASE s # 6
      <4>1. s \in 7 .. 9
        BY <2>1, <2>3, <3>2
      <4>2. locationOff' = locationOff
        BY <2>1, <4>1, SettingSteps DEF LocationAfter, DeviceTypes
      <4>3. LocationInForce(r)
        BY <1>1, <2>0, <2>1, <4>1 DEF SettingPhase
      <4> QED BY <1>2, <4>2, <4>3 DEF LocationInForce
    <3> QED BY <3>1, <3>2
  <2>4. /\ pc'[w] \in Settled \/ (pc'[w] = "controls" /\ step'[w] > 5) => s > 4
        /\ pc'[w] \in Settled \/ (pc'[w] = "controls" /\ step'[w] > 6) => s > 5
        /\ pc'[w] \notin Lifted \union {"clear_controls"}
    BY <2>1
  <2>5. order'[w].revision = r
    BY <2>0, <2>1
  <2> HIDE DEF s
  <2> QED BY <2>2, <2>3, <2>4, <2>5 DEF SettingPhase, UninstallInForce, LocationInForce
<1>6. ASSUME ClearControl(w)
      PROVE  SettingPhase(w)'
  <2> DEFINE s == step[w]
             approved == ApplicationOf(active[w]).approved
  <2>1. /\ pc[w] = "clear_controls" /\ active' = active /\ s \in 1 .. 4
        /\ kept' = KeptAfter(w, ClearingSteps[s])
        /\ \/ pc'[w] = "clear_controls" /\ step'[w] = s + 1
           \/ pc'[w] = "clear_screen_time" /\ s = 4
    BY <1>6, StepCounts DEF ClearControl, NextControl, OrderFits
  <2>2. ASSUME s > 1 PROVE approved \intersect kept' = {}
    <3>1. CASE s = 2
      <4>1. kept' = KeptAfter(w, Drop("application"))
        BY <2>1, <3>1, SettingSteps
      <4>2. kept' = kept \ approved
        BY <4>1 DEF KeptAfter, Drop
      <4> QED BY <4>2
    <3>2. CASE s # 2
      <4>1. s \in 3 .. 4
        BY <2>1, <2>2, <3>2
      <4>2. kept' = kept
        BY <2>1, <4>1, SettingSteps DEF KeptAfter
      <4>3. approved \intersect kept = {}
        BY <1>1, <2>1, <4>1 DEF SettingPhase
      <4> QED BY <4>2, <4>3
    <3> QED BY <3>1, <3>2
  <2>3. /\ pc'[w] \in Lifted \/ (pc'[w] = "clear_controls" /\ step'[w] > 2) => s > 1
        /\ pc'[w] \notin Settled \union {"controls"}
    BY <2>1
  <2>4. (ApplicationOf(active[w]).approved)' = approved
    BY <2>1 DEF ApplicationOf
  <2> HIDE DEF s, approved
  <2> QED BY <2>2, <2>3, <2>4 DEF SettingPhase
<1>7. ASSUME Suspend(w) \/ ClearNetwork(w) \/ ClearFilter(w) \/ ClearRead(w) \/ ClearPackages(w)
      PROVE  SettingPhase(w)'
  BY <1>4, <1>7 DEF Suspend, ClearNetwork, ClearFilter, ClearRead, ClearPackages
<1>8. ASSUME ConfigureFilter(w) \/ ReconcileScreenTime(w) \/ ClearScreenTime(w) \/ ClearEnvelope(w)
      PROVE  SettingPhase(w)'
  BY <1>3, <1>8 DEF ConfigureFilter, ReconcileScreenTime, ClearScreenTime, ClearEnvelope
<1>9. ASSUME NEW o \in AllObservers, Observe(o)
      PROVE  SettingPhase(w)'
  BY <1>3, <1>9
     DEF Observe, ObserveEnvelope, ObserveState, Reconcile, GiveUp, SwitchMode, KeepMode, WriteMode
<1> QED
  BY <1>5, <1>6, <1>7, <1>8, <1>9, StepOf, Untracked DEF Activate, Clear, Phases

LEMMA ControlInvStep ==
  ASSUME TypeInv, ControlInv, Next
  PROVE  ControlInv'
<1> SUFFICES ASSUME NEW w \in Workers, w \notin beside' PROVE Phases(w)'
  BY DEF ControlInv
<1>1. CASE pc'[w] = "idle"
  BY <1>1 DEF Phases, ControlPhase, PackagePhase, SettingPhase
<1>2. CASE pc'[w] # "idle"
  <2>1. Only(w) /\ w \notin beside
    BY <1>2, OnlyOne
  <2>2. Phases(w)
    BY <2>1 DEF ControlInv
  <2> QED BY <2>1, <2>2, ControlPhaseStep, PackagePhaseStep, SettingPhaseStep DEF Phases
<1> QED BY <1>1, <1>2

LEMMA ControlInvariance == Spec => []ControlInv
<1>1. Init => ControlInv
  BY DEF Init, ControlInv, Phases, ControlPhase, PackagePhase, SettingPhase
<1>2. TypeInv /\ ControlInv /\ [Next]_vars => ControlInv'
  <2>1. ASSUME ControlInv, UNCHANGED vars PROVE ControlInv'
    <3>1. ASSUME NEW w \in Workers, w \notin beside' PROVE Phases(w)'
      BY <2>1, <3>1
         DEF ControlInv, Phases, ControlPhase, PackagePhase, SettingPhase, Unshared,
           UninstallInForce, LocationInForce, ApplicationOf
    <3> QED BY <3>1 DEF ControlInv
  <2> QED BY <2>1, ControlInvStep
<1> QED BY <1>1, <1>2, Invariance, PTL DEF Spec
-----------------------------------------------------------------------------
\* The transaction at the end of an activation.
LEMMA MarkedActive ==
  ASSUME TypeInv, TableInv, NEW w \in Workers, MarkActive(w)
  PROVE  ActiveRevisions' = {order[w].revision}
<1> DEFINE r == order[w].revision
<1>1. pc[w] = "mark_active" /\ envelopes' = WithStatus(envelopes, r, "ACTIVE")
  BY DEF MarkActive
<1>2. ActiveRevisions = {} /\ \E i \in DOMAIN envelopes : envelopes[i].revision = r
  BY <1>1 DEF TableInv, TablePhase, Enforcing
<1>3. /\ DOMAIN envelopes' = DOMAIN envelopes
      /\ \A j \in DOMAIN envelopes :
           /\ envelopes'[j].revision = envelopes[j].revision
           /\ envelopes'[j].status = IF PolicyOf[envelopes[j].revision] = PolicyOf[r]
                                     THEN "ACTIVE" ELSE envelopes[j].status
  <2>1. envelopes \in Seq(Envelopes) /\ "ACTIVE" \in Statuses
    BY DEF TypeInv, TableTypes, Statuses
  <2> HIDE DEF r
  <2> QED BY <1>1, <2>1, StatusTable
<1> HIDE DEF r
<1>4. PICK i \in DOMAIN envelopes : envelopes[i].revision = r
  BY <1>2
<1>5. \A j \in DOMAIN envelopes : PolicyOf[envelopes[j].revision] = PolicyOf[r] => j = i
  BY <1>4 DEF TypeInv, TableTypes, UniqueRows
<1>6. \A j \in DOMAIN envelopes : envelopes[j].status # "ACTIVE"
  BY <1>2, NoneActive
<1>7. envelopes'[i].status = "ACTIVE" /\ envelopes'[i].revision = r
  BY <1>3, <1>4
<1>8. \A j \in DOMAIN envelopes' : envelopes'[j].status = "ACTIVE" => j = i
  BY <1>3, <1>5, <1>6
<1>9. ActiveRevisions' = {r}
  BY <1>3, <1>7, <1>8 DEF ActiveRevisions, ToSet
<1> QED BY <1>9 DEF r

LEMMA ActiveIsEnforcedStep ==
  ASSUME TypeInv, TableInv, TableInv', ControlInv, ActiveIsEnforced, Next,
         NEW w \in Workers, Only(w), ~ overlapped
  PROVE  ActiveIsEnforced'
<1> USE DEF TypeInv, SyncTypes, Goes
<1>1. UNCHANGED scenario
  BY Steps
<1>2. CASE ActiveRevisions' = {}
  BY <1>2 DEF ActiveIsEnforced
<1>3. ASSUME ActiveRevisions' = ActiveRevisions,
             \A c \in Controls \ {"lock_task"} : enforced'[c] = enforced[c]
      PROVE  ActiveIsEnforced'
  BY <1>1, <1>3 DEF ActiveIsEnforced
<1>4. ASSUME pc'[w] \in Enforcing \union {"insert"}
      PROVE  ActiveRevisions' = {}
  BY <1>4 DEF TableInv, TablePhase
<1>5. ASSUME MarkActive(w)
      PROVE  ActiveIsEnforced'
  <2>1. ActiveRevisions' = {order[w].revision}
    BY <1>5, MarkedActive
  <2>2. pc[w] = "mark_active" /\ enforced' = enforced
    BY <1>5 DEF MarkActive
  <2>3. w \notin beside
    BY DEF Alone
  <2>4. \A c \in Controls \ {"lock_task"} : enforced[c] = order[w].revision
    BY <2>2, <2>3 DEF ControlInv, Phases, ControlPhase, Unshared
  <2> QED BY <2>1, <2>2, <2>4 DEF ActiveIsEnforced
<1>6. ASSUME Supersede(w) \/ Insert(w) \/ Pending(w) \/ Suspend(w)
      PROVE  ActiveIsEnforced'
  BY <1>2, <1>4, <1>6 DEF Supersede, Insert, Pending, Suspend, Enforcing
<1>7. ASSUME ApplyControl(w) \/ ConfigureFilter(w) \/ ReconcileScreenTime(w)
      PROVE  ActiveIsEnforced'
  <2>1. pc'[w] \in Enforcing
    BY <1>7 DEF ApplyControl, NextControl, ConfigureFilter, ReconcileScreenTime, Enforcing
  <2> QED BY <1>2, <1>4, <2>1
<1>8. ASSUME Clear(w) \/ Rollback(w)
      PROVE  ActiveIsEnforced'
  <2>1. pc[w] \in ClearingLabels \union RollbackLabels
    BY <1>8
       DEF Clear, Rollback, ClearNetwork, ClearFilter, ClearRead, ClearPackages, ClearControl,
         ClearScreenTime, ClearEnvelope, ClearState, RollbackRead, RollbackChoose,
         ClearingLabels, RollbackLabels
  <2>2. scenario.operations # {"apply"}
    BY <2>1 DEF OrderFits
  <2> QED BY <1>1, <2>2 DEF ActiveIsEnforced
<1>9. ASSUME NEW o \in AllObservers, Observe(o)
      PROVE  ActiveIsEnforced'
  <2>1. envelopes' = envelopes /\ \A c \in Controls \ {"lock_task"} : enforced'[c] = enforced[c]
    BY <1>9
       DEF DeviceTypes, Observe, ObserveEnvelope, ObserveState, Reconcile, GiveUp, SwitchMode,
         KeepMode, WriteMode
  <2> QED BY <1>3, <2>1 DEF ActiveRevisions
<1>10. ASSUME (\E q \in Requested : Begin(w, q)) \/ ReadActive(w) \/ Fail(w) \/ Return(w) \/ Crash
       PROVE  ActiveIsEnforced'
  <2>1. envelopes' = envelopes /\ enforced' = enforced
    BY <1>10 DEF Begin, ReadActive, Fail, Return, Crash
  <2> QED BY <1>3, <2>1 DEF ActiveRevisions
<1> QED
  BY <1>5, <1>6, <1>7, <1>8, <1>9, <1>10, StepOf DEF Activate

\* No worker, or one at a time until two operations overlap.
LEMMA ActiveInvariance == Spec => []ActiveIsEnforced
<1>1. Init => ActiveIsEnforced
  BY DEF Init, ActiveIsEnforced, ActiveRevisions, ToSet
<1>2. TypeInv /\ TableSafe /\ TableSafe' /\ ControlInv /\ ActiveIsEnforced /\ [Next]_vars
        => ActiveIsEnforced'
  <2>1. ASSUME TypeInv, TableSafe, TableSafe', ControlInv, ActiveIsEnforced, Next
        PROVE  ActiveIsEnforced'
    <3>1. CASE overlapped'
      BY <3>1 DEF ActiveIsEnforced
    <3>2. CASE ~ overlapped' /\ Workers = {}
      <4>1. /\ UNCHANGED <<envelopes, scenario, overlapped>>
            /\ \A c \in Controls \ {"lock_task"} : enforced'[c] = enforced[c]
        BY <2>1, <3>2, Steps
           DEF TypeInv, DeviceTypes, Observe, ObserveEnvelope, ObserveState, Reconcile, GiveUp,
             SwitchMode, KeepMode, WriteMode, Crash, Forget
      <4>2. ActiveRevisions' = ActiveRevisions
        BY <4>1 DEF ActiveRevisions
      <4> QED BY <2>1, <4>1, <4>2 DEF ActiveIsEnforced
    <3>3. CASE ~ overlapped' /\ Workers # {}
      <4>1. ~ overlapped /\ \E w \in Workers : Only(w)
        BY <2>1, <3>3, OneBusy
      <4>2. TableInv /\ TableInv'
        BY <2>1, <3>3, <4>1 DEF TableSafe
      <4> QED BY <2>1, <4>1, <4>2, ActiveIsEnforcedStep
    <3> QED BY <3>1, <3>2, <3>3
  <2>2. ASSUME ActiveIsEnforced, UNCHANGED vars PROVE ActiveIsEnforced'
    BY <2>2 DEF ActiveIsEnforced, ActiveRevisions
  <2> QED BY <2>1, <2>2
<1> QED BY <1>1, <1>2, Invariance, TableInvariance, ControlInvariance, PTL DEF Spec

\* What the worker of an operation that ran alone and reports success may say.
AppliedBy(w) ==
  LET r == order[w].revision IN
  Undisturbed(w) /\ pc[w] = "done" /\ result[w] = "active" /\ r # NoRevision =>
    /\ ~ overlapped => ActiveRevisions = {r}
    /\ policyState.revision = r /\ policyState.applyState = "ACTIVE"
    /\ \A c \in Controls : enforced[c] = r
    /\ UninstallInForce(r) /\ LocationInForce(r)
    /\ Blocked[r][order[w].mode] \ (Released \union refused[w]) \subseteq suspended

ClearedBy(w) ==
  Undisturbed(w) /\ pc[w] = "done" /\ result[w] = "active" /\ policyState.applyState = "CLEARED" =>
    /\ ~ overlapped => ActiveRevisions = {}
    /\ filter = NoRevision
    /\ \A c \in Controls : enforced[c] = NoRevision
    /\ ApplicationOf(active[w]).approved \intersect kept = {}

ReportInv == \A w \in Workers : AppliedBy(w) /\ ClearedBy(w)

\* Only the last step of an activation or of a clear reports success.
LEMMA ReportsStep ==
  ASSUME TypeInv, TableSafe, Next, NEW w \in Workers, Phases(w), Only(w)
  PROVE  AppliedBy(w)' /\ ClearedBy(w)'
<1> USE DEF TypeInv, SyncTypes, Goes
<1>1. UNCHANGED scenario
  BY Steps
<1>2. ASSUME scenario.observers # {} \/ pc'[w] # "done" \/ result'[w] # "active"
      PROVE  AppliedBy(w)' /\ ClearedBy(w)'
  BY <1>1, <1>2 DEF AppliedBy, ClearedBy, Undisturbed
<1>3. ASSUME MarkActive(w)
      PROVE  AppliedBy(w)' /\ ClearedBy(w)'
  <2> DEFINE r == order[w].revision
  <2>1. /\ pc[w] = "mark_active" /\ UNCHANGED <<suspended, settings, order, refused, overlapped>>
        /\ policyState' = [policyState EXCEPT !.revision = r, !.applyState = "ACTIVE"]
    BY <1>3 DEF MarkActive, Returns
  <2>2. policyState'.revision = r /\ policyState'.applyState = "ACTIVE"
    BY <2>1 DEF DeviceTypes, PolicyStates
  <2>3. ~ overlapped => ActiveRevisions' = {r}
    BY <1>3, MarkedActive DEF TableSafe
  <2>4. UninstallInForce(r) /\ LocationInForce(r)
    BY <2>1 DEF Phases, SettingPhase
  <2>5. ASSUME scenario.observers = {}
        PROVE  /\ \A c \in Controls : enforced[c] = r
               /\ Blocked[r][order[w].mode] \ (Released \union refused[w]) \subseteq suspended
    BY <2>1, <2>5 DEF Phases, ControlPhase, PackagePhase, Unshared
  <2>6. UninstallInForce(r)' /\ LocationInForce(r)'
    BY <1>1, <2>1, <2>4 DEF UninstallInForce, LocationInForce
  <2>7. AppliedBy(w)'
    BY <1>1, <2>1, <2>2, <2>3, <2>5, <2>6 DEF AppliedBy, Undisturbed, UninstallInForce, LocationInForce
  <2>8. ClearedBy(w)'
    BY <2>2 DEF ClearedBy
  <2> QED BY <2>7, <2>8
<1>4. ASSUME ClearState(w)
      PROVE  AppliedBy(w)' /\ ClearedBy(w)'
  <2>1. /\ pc[w] = "clear_state"
        /\ UNCHANGED <<suspended, settings, filter, envelopes, order, active, overlapped>>
    BY <1>4 DEF ClearState, Returns
  <2>2. order[w].revision = NoRevision
    BY <2>1 DEF OrderFits, ClearingLabels
  <2>3. ~ overlapped => ActiveRevisions' = {}
    BY <2>1 DEF TableSafe, TableInv, TablePhase, ActiveRevisions
  <2>4. /\ filter = NoRevision
        /\ scenario.observers = {} => \A c \in Controls : enforced[c] = NoRevision
    BY <2>1 DEF Phases, ControlPhase, Unshared
  <2>5. ApplicationOf(active[w]).approved \intersect kept = {}
    BY <2>1 DEF Phases, SettingPhase
  <2>6. AppliedBy(w)'
    BY <2>1, <2>2 DEF AppliedBy
  <2>7. ClearedBy(w)'
    BY <1>1, <2>1, <2>3, <2>4, <2>5 DEF ClearedBy, Undisturbed, ApplicationOf
  <2> QED BY <2>6, <2>7
<1>5. ASSUME Fail(w)
      PROVE  AppliedBy(w)' /\ ClearedBy(w)'
  <2>1. result'[w] # "active"
    BY <1>5 DEF Fail, Returns
  <2> QED BY <1>2, <2>1
<1>6. ASSUME Crash
      PROVE  AppliedBy(w)' /\ ClearedBy(w)'
  <2>1. pc'[w] # "done"
    BY <1>6 DEF Crash, Forget
  <2> QED BY <1>2, <2>1
<1>7. ASSUME NEW o \in AllObservers, o \in scenario.observers, Observe(o)
      PROVE  AppliedBy(w)' /\ ClearedBy(w)'
  BY <1>2, <1>7
<1>8. ASSUME \/ \E q \in Requested : Begin(w, q)
             \/ Return(w)
             \/ Activate(w) /\ ~ MarkActive(w)
             \/ Clear(w) /\ ~ ClearState(w)
             \/ Rollback(w)
      PROVE  AppliedBy(w)' /\ ClearedBy(w)'
  <2>1. \A q \in Requested : q.operation \in {"apply", "clear", "rollback"}
    BY ActivatorAssumption DEF Requested, AllOperations
  <2>2. pc'[w] # "done"
    BY <1>8, <2>1
       DEF Begin, Return, Activate, ReadActive, Supersede, Insert, Pending, Suspend, ApplyControl,
         NextControl, ConfigureFilter, ReconcileScreenTime, Clear, ClearNetwork, ClearFilter,
         ClearRead, ClearPackages, ClearControl, ClearScreenTime, ClearEnvelope, Rollback,
         RollbackRead, RollbackChoose
  <2> QED BY <1>2, <2>2
<1> QED BY <1>3, <1>4, <1>5, <1>6, <1>7, <1>8, StepOf

LEMMA ReportInvariance == Spec => []ReportInv
<1>1. Init => ReportInv
  BY DEF Init, ReportInv, AppliedBy, ClearedBy
<1>2. TypeInv /\ TableSafe /\ ControlInv /\ ReportInv /\ [Next]_vars => ReportInv'
  <2>1. ASSUME TypeInv, TableSafe, ControlInv, Next, NEW w \in Workers
        PROVE  AppliedBy(w)' /\ ClearedBy(w)'
    <3>1. CASE w \in beside' \/ pc'[w] = "idle"
      BY <3>1 DEF AppliedBy, ClearedBy, Undisturbed
    <3>2. CASE w \notin beside' /\ pc'[w] # "idle"
      <4>1. Only(w) /\ w \notin beside
        BY <2>1, <3>2, OnlyOne
      <4>2. Phases(w)
        BY <2>1, <4>1 DEF ControlInv
      <4> QED BY <2>1, <4>1, <4>2, ReportsStep
    <3> QED BY <3>1, <3>2
  <2>2. ASSUME ReportInv, UNCHANGED vars, NEW w \in Workers
        PROVE  AppliedBy(w)' /\ ClearedBy(w)'
    <3>1. AppliedBy(w) /\ ClearedBy(w)
      BY <2>2 DEF ReportInv
    <3>2. AppliedBy(w)'
      BY <2>2, <3>1
         DEF AppliedBy, Undisturbed, UninstallInForce, LocationInForce, ActiveRevisions
    <3>3. ClearedBy(w)'
      BY <2>2, <3>1 DEF ClearedBy, Undisturbed, ApplicationOf, ActiveRevisions
    <3> QED BY <3>2, <3>3
  <2> QED BY <2>1, <2>2 DEF ReportInv
<1> QED BY <1>1, <1>2, Invariance, TableInvariance, ControlInvariance, PTL DEF Spec

\* While only activations are asked for and no two have overlapped, the envelope
\* that is called active is in force in every control no periodic worker changes.
THEOREM ActiveEnforced == Spec => []ActiveIsEnforced
  BY ActiveInvariance

\* An activation that no other operation ran beside and that reports success is
\* in force: in the state row, in every control, in the uninstalls and the
\* location, and for every package that no application control may release and
\* Android did not refuse.  What ran before it does not matter.
THEOREM AppliedEnforced == Spec => []AppliedIsEnforced
<1>1. ReportInv => AppliedIsEnforced
  BY DEF ReportInv, AppliedBy, AppliedIsEnforced
<1> QED BY <1>1, ReportInvariance, PTL

\* A clear that no other operation ran beside and that reports success has lifted
\* every control and the filter, and the uninstall blocks of the envelope it read.
THEOREM ClearedLifted == Spec => []ClearedIsLifted
<1>1. ReportInv => ClearedIsLifted
  BY DEF ReportInv, ClearedBy, ClearedIsLifted
<1> QED BY <1>1, ReportInvariance, PTL
=============================================================================
