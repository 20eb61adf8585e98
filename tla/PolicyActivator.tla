--------------------------- MODULE PolicyActivator ---------------------------
(***************************************************************************)
(* The device side of a policy: AtomicPolicyActivator.kt, the controls of  *)
(* DevicePolicyController.kt it sets, the Room tables of DpcDao.kt, and    *)
(* the two periodic workers that adjust packages on their own.             *)
(*                                                                         *)
(* An activation is a sequence of database calls and device controls, not  *)
(* one transaction: each of them may throw, the process may die between    *)
(* any two, and the workers of WorkManager interleave with it, another     *)
(* sync worker with an activation of its own among them.  A control is the *)
(* revision whose restrictions are completely in force, NoRevision when    *)
(* there is none, so one that fails half-way leaves a value that the       *)
(* control had before or has after it; packages are left in any mixture of *)
(* the two.  What outlives a control, the blocked uninstalls and the       *)
(* location, is kept apart from it.  The payload of a revision is reduced  *)
(* to the packages it blocks in each mode, its application controls, what  *)
(* it makes of the location, the packages its screen time governs and      *)
(* whether it filters the web; the mode a schedule resolves to may change  *)
(* between any two looks at the clock.                                     *)
(*                                                                         *)
(* The application is device owner from provisioning on, before enrolment  *)
(* schedules the first worker; the checks of DevicePolicyController for it *)
(* pass.  Android still refuses single packages: setPackagesSuspended says *)
(* which, and its callers do or do not look.                               *)
(*                                                                         *)
(* The initial state picks a scenario: the sync workers that run, the      *)
(* operations asked for, the periodic workers, the revisions, the modes    *)
(* and the Android version.                                                *)
(***************************************************************************)
EXTENDS Naturals, Sequences, SequencesExt, FiniteSetsExt

CONSTANTS
  Workers,     \* sync workers: the immediate and the periodic one
  Revisions,   \* immutable policy revisions
  PolicyOf,    \* the policy a revision belongs to
  Modes,       \* mode ids
  Packages,    \* applications that can be suspended
  Refusable,   \* packages Android may refuse to suspend or to release
  Blocked,     \* Blocked[r][m]: packages revision r blocks in mode m
  DefaultMode, \* DefaultMode[r]: the mode r is in when no schedule matches
  Store,       \* the package of the Play Store
  Application, \* Application[r]: the application controls of r, the packages they
               \* list for file sharing and those they approve
  Location,    \* Location[r]: what the device restrictions of r make of the location
  Targets,     \* Targets[r]: packages under the screen time of r
  Filtering,   \* revisions whose web filter names a browser
  Scenarios,   \* records: workers, operations, observers (of "schedule" and
               \* "screen_time"), revisions, modes, whether Android is 11 or later
  NoRevision   \* no revision

AllOperations == {"apply", "clear", "rollback"}
AllObservers == {"schedule", "screen_time"}

ASSUME ActivatorAssumption ==
  /\ Scenarios \subseteq [workers : SUBSET Workers,
                          operations : SUBSET AllOperations,
                          observers : SUBSET AllObservers,
                          revisions : SUBSET Revisions,
                          modes : SUBSET Modes,
                          android_11 : BOOLEAN]
  /\ Blocked \in [Revisions -> [Modes -> SUBSET Packages]]
  /\ DefaultMode \in [Revisions -> Modes]
  /\ Store \in SUBSET Packages
  /\ Refusable \in SUBSET Packages
  /\ Application \in [Revisions -> [controlled : BOOLEAN, store : BOOLEAN,
                                    sharing : BOOLEAN, files : SUBSET Packages,
                                    uninstall : BOOLEAN, approved : SUBSET Packages]]
  /\ \A r \in Revisions : ~ Application[r].controlled =>
       Application[r].files = {} /\ Application[r].approved = {}
  /\ Location \in [Revisions -> {"unmanaged", "on", "off"}]
  /\ Targets \in [Revisions -> SUBSET Packages]
  /\ Filtering \subseteq Revisions
  /\ NoRevision \notin Revisions

VARIABLES
  envelopes,   \* table policy_envelope, one row a policy, oldest verifiedAt first
  policyState, \* the row of table policy_state
  suspended,   \* packages Android holds suspended
  enforced,    \* enforced[c]: the revision whose restrictions control c has in force
  kept,        \* packages whose uninstall is blocked
  locationOff, \* the location was switched off and not on again
  filter,      \* the revision whose rules the running VPN applies
  pc,          \* pc[w]: what sync worker w does next
  order,       \* order[w]: the operation, the revision and the mode it resolved
  active,      \* active[w]: the active envelope worker w has read
  step,        \* step[w]: the next of the controls to set
  result,      \* result[w]: what the activator has returned
  refused,     \* refused[w]: the packages Android refused worker w to suspend
  proven,      \* history: the revisions that were activated to the end
  beside,      \* history: workers whose operation ran at the same time as another
  overlapped,  \* history: two operations ran at the same time
  observer,    \* observer[o]: what a periodic worker does and has read
  scenario     \* what may happen

tables == <<envelopes, policyState, proven>>
settings == <<enforced, kept, locationOff>>
device == <<tables, suspended, settings, filter>>
report == <<result, refused>>
history == <<beside, overlapped>>
sync == <<pc, order, active, step, report, history>>
vars == <<device, sync, observer, scenario>>
-----------------------------------------------------------------------------
Controls == {"lock_task", "application", "network", "device", "screen_lock"}

RevisionOrNone == Revisions \union {NoRevision}

Envelopes ==
  [revision : Revisions, status : {"PENDING", "ACTIVE", "SUPERSEDED", "CLEARED"}]

PolicyStates ==
  [mode : Modes \union {"none"}, revision : RevisionOrNone,
   applyState : {"none", "PENDING_APPLY", "ACTIVE", "CLEARED"}]

Orders ==
  [operation : AllOperations, revision : RevisionOrNone, mode : Modes]

NoOrder == [operation |-> "none", revision |-> NoRevision, mode |-> "none"]

\* activate lines 84-95 and clear lines 135-148: which control, set or cleared.
Set(c) == [control |-> c, on |-> TRUE]
Drop(c) == [control |-> c, on |-> FALSE]

ActivationSteps ==
  << Set("lock_task"), Drop("application"), Drop("network"), Drop("device"),
     Set("application"), Set("device"), Drop("screen_lock"), Set("screen_lock"),
     Set("network") >>

ClearingSteps ==
  << Drop("lock_task"), Drop("application"), Drop("device"), Drop("screen_lock") >>

\* getActivePolicyEnvelope: LIMIT 1 names any of the rows with that status.
ActiveRevisions == {e.revision : e \in {x \in ToSet(envelopes) : x.status = "ACTIVE"}}

ReadsActive(r) ==
  IF ActiveRevisions = {} THEN r = NoRevision ELSE r \in ActiveRevisions

\* updatePolicyStatus: the row is found by its policy, whatever its revision.
WithStatus(table, r, status) ==
  [i \in DOMAIN table |->
    IF PolicyOf[table[i].revision] = PolicyOf[r]
    THEN [table[i] EXCEPT !.status = status] ELSE table[i]]

\* The row of a policy, the primary key, goes if there is one.
Without(table, r) ==
  LET held == {i \in DOMAIN table : PolicyOf[table[i].revision] = PolicyOf[r]}
  IN  IF held = {} THEN table ELSE RemoveAt(table, CHOOSE i \in held : TRUE)

\* Mutant: the new envelope is stored as the active one at once.
WithActiveEnvelope(table, r) ==
  Append(Without(table, r), [revision |-> r, status |-> "ACTIVE"])

\* insertPolicyEnvelope with REPLACE: the row of the policy is the newest.
WithEnvelope(table, r) ==
  Append(Without(table, r), [revision |-> r, status |-> "PENDING"])

Newest(table, indices) ==
  IF indices = {} THEN NoRevision ELSE table[Max(indices)].revision

\* Mutant: the envelope that was never activated may be rolled back to.
RollbackToAny(table, r) ==
  Newest(table, {i \in DOMAIN table : PolicyOf[table[i].revision] # PolicyOf[r]})

\* getRollbackEnvelope: the newest of another policy that was once in force.
RollbackEnvelope(table, r) ==
  Newest(table, {i \in DOMAIN table : /\ PolicyOf[table[i].revision] # PolicyOf[r]
                                      /\ table[i].status \in {"ACTIVE", "SUPERSEDED"}})

\* dpm.setPackagesSuspended leaves out the packages it returns.  suspendPackages
\* and clearManagedPackages go on without them, unsuspendPackages throws.
Suspending(before, packages) ==
  {before \union (packages \ refusal) : refusal \in SUBSET (packages \intersect Refusable)}

Releasing(before, packages) ==
  {before \ (packages \ refusal) : refusal \in SUBSET (packages \intersect Refusable)}

\* What a step that throws half-way leaves of a set it was changing.
Mixtures(before, after) ==
  {mix \in SUBSET (before \union after) : before \intersect after \subseteq mix}

\* ScreenTimeEnforcer.reconcile: the packages it governs and that are not blocked
\* are suspended or released, or left alone if their usage cannot be read.
ScreenTimeOutcomes(r, blocked) ==
  {suspended, suspended \ (Targets[r] \ blocked)}
    \union Suspending(suspended, Targets[r] \ blocked)

\* The application controls of the payload, none when there is no envelope.
ApplicationOf(r) ==
  IF r \in Revisions THEN Application[r]
  ELSE [controlled |-> FALSE, store |-> FALSE, sharing |-> FALSE, files |-> {},
        uninstall |-> FALSE, approved |-> {}]

TargetsOf(r) == IF r \in Revisions THEN Targets[r] ELSE {}

NoState == [mode |-> "none", revision |-> NoRevision, applyState |-> "none"]

IdleObserver ==
  [pc |-> "idle", revision |-> NoRevision, mode |-> "none", state |-> NoState]

Init ==
  /\ envelopes = << >>
  /\ policyState = NoState
  /\ suspended = {}
  /\ enforced = [c \in Controls |-> NoRevision]
  /\ kept = {}
  /\ locationOff = FALSE
  /\ filter = NoRevision
  /\ proven = {}
  /\ pc = [w \in Workers |-> "idle"]
  /\ order = [w \in Workers |-> NoOrder]
  /\ active = [w \in Workers |-> NoRevision]
  /\ step = [w \in Workers |-> 0]
  /\ result = [w \in Workers |-> "none"]
  /\ refused = [w \in Workers |-> {}]
  /\ beside = {}
  /\ overlapped = FALSE
  /\ observer = [o \in AllObservers |-> IdleObserver]
  /\ scenario \in Scenarios
-----------------------------------------------------------------------------
Goes(w, label) == pc' = [pc EXCEPT ![w] = label]

\* Nothing keeps the immediate and the periodic sync worker from running together.
Starts(w) ==
  LET busy == {u \in Workers : pc[u] # "idle"} IN
  /\ pc[w] = "idle"
  /\ beside' = IF busy = {} THEN beside ELSE beside \union busy \union {w}
  /\ overlapped' = (overlapped \/ busy # {})

\* A sync worker calls activate(), clear() or rollback().
Begin(w, q) ==
  /\ Starts(w)
  /\ order' = [order EXCEPT ![w] = q]
  /\ Goes(w, CASE q.operation = "apply" -> "read_active"
               [] q.operation = "clear" -> "clear_network"
               [] q.operation = "rollback" -> "rollback_read")
  /\ UNCHANGED <<device, active, step, report, observer>>

\* activate, lines 56-57: the active envelope is read (the second call, which
\* names the envelope to supersede, and the first, whose application controls are
\* dropped later, are one step here) ...
ReadActive(w) ==
  /\ pc[w] = "read_active"
  /\ \E r \in RevisionOrNone : ReadsActive(r) /\ active' = [active EXCEPT ![w] = r]
  /\ Goes(w, "supersede")
  /\ UNCHANGED <<device, order, step, report, history, observer>>

\* Mutant: the active envelope is left as it is.
SupersedeNothing(w) ==
  /\ pc[w] = "supersede"
  /\ Goes(w, "insert")
  /\ UNCHANGED <<device, order, active, step, report, history, observer>>

\* ... and superseded, before the new one is known to be enforceable.
Supersede(w) ==
  /\ pc[w] = "supersede"
  /\ envelopes' = IF active[w] = NoRevision THEN envelopes
                  ELSE WithStatus(envelopes, active[w], "SUPERSEDED")
  /\ Goes(w, "insert")
  /\ UNCHANGED <<policyState, proven, suspended, settings, filter, order, active, step, report, history, observer>>

Insert(w) ==
  /\ pc[w] = "insert"
  /\ envelopes' = WithEnvelope(envelopes, order[w].revision)
  /\ Goes(w, "pending")
  /\ UNCHANGED <<policyState, proven, suspended, settings, filter, order, active, step, report, history, observer>>

\* Mutant: the state names the new revision before its controls are set.
PendingAsActive(w) ==
  /\ pc[w] = "pending"
  /\ \E m \in scenario.modes : policyState' =
        [mode |-> m, revision |-> order[w].revision, applyState |-> "ACTIVE"]
  /\ Goes(w, "suspend")
  /\ UNCHANGED <<envelopes, proven, suspended, settings, filter, order, active, step, report, history, observer>>

\* The mode is resolved again, from a clock that has moved on.
Pending(w) ==
  /\ pc[w] = "pending"
  /\ \E m \in scenario.modes :
        policyState' = [mode |-> m, revision |-> NoRevision, applyState |-> "PENDING_APPLY"]
  /\ Goes(w, "suspend")
  /\ UNCHANGED <<envelopes, proven, suspended, settings, filter, order, active, step, report, history, observer>>

\* Line 83: what Android refuses to suspend is returned, and dropped by activate.
Suspend(w) ==
  LET packages == Blocked[order[w].revision][order[w].mode] IN
  /\ pc[w] = "suspend"
  /\ \E refusal \in SUBSET (packages \intersect Refusable) :
        /\ refused' = [refused EXCEPT ![w] = refusal]
        /\ suspended' = suspended \union (packages \ refusal)
  /\ step' = [step EXCEPT ![w] = 1]
  /\ Goes(w, "controls")
  /\ UNCHANGED <<tables, settings, filter, order, active, result, history, observer>>

\* clearApplicationRestrictions releases the Play Store and what the envelope that
\* was read lists for file sharing, whether or not the mode blocks them ...
ApplicationCleared(w) == suspended \ (Store \union ApplicationOf(active[w]).files)

\* ... and applyApplicationRestrictions suspends or releases them again: the Play
\* Store first, then the packages for file sharing.
StoreSet(w) ==
  LET app == Application[order[w].revision] IN
  IF app.store THEN {suspended \ (Store \union app.files)} ELSE Suspending(suspended, Store)

ApplicationSet(w) ==
  LET app == Application[order[w].revision] IN
  IF ~ app.controlled THEN {suspended}
  ELSE UNION {IF app.sharing THEN {s \ app.files} ELSE Suspending(s, app.files) :
                s \in StoreSet(w)}

PackagesAfter(w, c) ==
  IF c = Set("application") THEN ApplicationSet(w)
  ELSE IF c = Drop("application") THEN {ApplicationCleared(w)} ELSE {suspended}

\* setUninstallBlocked, for the approved packages of the revision that is set, or
\* of the envelope that was read: without one, no block is lifted.
KeptAfter(w, c) ==
  LET app == ApplicationOf(IF c.on THEN order[w].revision ELSE active[w]) IN
  IF c.control # "application" THEN kept
  ELSE IF c.on /\ ~ app.uninstall THEN kept \union app.approved ELSE kept \ app.approved

\* applyDeviceRestrictions switches the location off, and on only from Android 11;
\* clearDeviceRestrictions leaves it.
LocationAfter(w, c) ==
  LET wanted == IF c = Set("device") THEN Location[order[w].revision] ELSE "unmanaged" IN
  \/ wanted = "off"
  \/ locationOff /\ ~ (wanted = "on" /\ scenario.android_11)

\* Set or clear the next control; after the last one worker w goes on to label.
NextControl(w, steps, label) ==
  LET c == steps[step[w]] IN
  /\ suspended' \in PackagesAfter(w, c)
  /\ kept' = KeptAfter(w, c)
  /\ locationOff' = LocationAfter(w, c)
  /\ enforced' = [enforced EXCEPT ![c.control] = IF c.on THEN order[w].revision ELSE NoRevision]
  /\ IF step[w] < Len(steps)
     THEN step' = [step EXCEPT ![w] = @ + 1] /\ UNCHANGED pc
     ELSE step' = [step EXCEPT ![w] = 0] /\ Goes(w, label)
  /\ UNCHANGED <<tables, filter, order, active, report, history, observer>>

\* Mutant: the network settings, the last control, are not set.
ApplyControlButLast(w) ==
  /\ pc[w] = "controls"
  /\ NextControl(w, Front(ActivationSteps), "filter")

ApplyControl(w) == pc[w] = "controls" /\ NextControl(w, ActivationSteps, "filter")

\* EduFilteringVpnService.onStartCommand: a tunnel that is up keeps the rules it
\* was started with, one that cannot be established fails without an exception.
Started(r) == IF filter # NoRevision THEN {filter} ELSE {r, NoRevision}

\* configureWebFilteringVpn.
ConfigureFilter(w) ==
  LET r == order[w].revision IN
  /\ pc[w] = "filter"
  /\ filter' \in IF r \in Filtering THEN Started(r) ELSE {NoRevision}
  /\ Goes(w, "screen_time")
  /\ UNCHANGED <<tables, suspended, settings, order, active, step, report, history, observer>>

ReconcileScreenTime(w) ==
  LET r == order[w].revision IN
  /\ pc[w] = "screen_time"
  /\ suspended' \in ScreenTimeOutcomes(r, Blocked[r][order[w].mode])
  /\ Goes(w, "mark_active")
  /\ UNCHANGED <<tables, settings, filter, order, active, step, report, history, observer>>

\* The activator returns to the sync worker.
Returns(w, value) ==
  /\ Goes(w, "done")
  /\ result' = [result EXCEPT ![w] = value]
  /\ step' = [step EXCEPT ![w] = 0]
  /\ UNCHANGED <<order, active, refused, history>>

MarkActive(w) ==
  /\ pc[w] = "mark_active"
  /\ envelopes' = WithStatus(envelopes, order[w].revision, "ACTIVE")
  /\ policyState' = [policyState EXCEPT !.revision = order[w].revision, !.applyState = "ACTIVE"]
  /\ proven' = proven \union {order[w].revision}
  /\ Returns(w, "active")
  /\ UNCHANGED <<suspended, settings, filter, observer>>

ControlNow(w) ==
  CASE pc[w] = "controls" -> ActivationSteps[step[w]]
    [] pc[w] = "clear_controls" -> ClearingSteps[step[w]]
    [] OTHER -> Drop("none")

\* The sets of packages the step of worker w is to leave suspended.
PackagesMeant(w) ==
  LET r == order[w].revision IN
  CASE pc[w] = "screen_time" -> ScreenTimeOutcomes(r, Blocked[r][order[w].mode])
    [] pc[w] = "clear_screen_time" -> {suspended \ TargetsOf(active[w])}
    [] ControlNow(w) = Set("application") -> StoreSet(w) \union ApplicationSet(w)
    [] OTHER -> PackagesAfter(w, ControlNow(w))

\* A check, a control or a database call throws: nothing is put back, and of the
\* packages that were being adjusted any part is.
Fail(w) ==
  /\ pc[w] \notin {"idle", "done"}
  /\ suspended' \in UNION {Mixtures(suspended, s) : s \in PackagesMeant(w)}
  /\ kept' \in Mixtures(kept, KeptAfter(w, ControlNow(w)))
  /\ Returns(w, "quarantined")
  /\ UNCHANGED <<tables, enforced, locationOff, filter, observer>>
-----------------------------------------------------------------------------
\* clear, lines 125-127: network controls and filter go, then the active
\* envelope is read.
ClearNetwork(w) ==
  /\ pc[w] = "clear_network"
  /\ enforced' = [enforced EXCEPT !["network"] = NoRevision]
  /\ Goes(w, "clear_filter")
  /\ UNCHANGED <<tables, suspended, kept, locationOff, filter, order, active, step, report, history, observer>>

ClearFilter(w) ==
  /\ pc[w] = "clear_filter"
  /\ filter' = NoRevision
  /\ Goes(w, "clear_read")
  /\ UNCHANGED <<tables, suspended, settings, order, active, step, report, history, observer>>

ClearRead(w) ==
  /\ pc[w] = "clear_read"
  /\ \E r \in RevisionOrNone : ReadsActive(r) /\ active' = [active EXCEPT ![w] = r]
  /\ Goes(w, "clear_packages")
  /\ UNCHANGED <<device, order, step, report, history, observer>>

\* clearManagedPackages releases what the default mode of the active revision
\* blocks, but for what Android refuses; without an active envelope it releases nothing.
ClearPackages(w) ==
  /\ pc[w] = "clear_packages"
  /\ suspended' \in Releasing(suspended, IF active[w] = NoRevision THEN {}
                                         ELSE Blocked[active[w]][DefaultMode[active[w]]])
  /\ step' = [step EXCEPT ![w] = 1]
  /\ Goes(w, "clear_controls")
  /\ UNCHANGED <<tables, settings, filter, order, active, report, history, observer>>

ClearControl(w) ==
  pc[w] = "clear_controls" /\ NextControl(w, ClearingSteps, "clear_screen_time")

ClearScreenTime(w) ==
  /\ pc[w] = "clear_screen_time"
  /\ suspended' = suspended \ TargetsOf(active[w])
  /\ Goes(w, "clear_envelope")
  /\ UNCHANGED <<tables, settings, filter, order, active, step, report, history, observer>>

\* Mutant: the cleared envelope keeps its status.
ClearNoEnvelope(w) ==
  /\ pc[w] = "clear_envelope"
  /\ Goes(w, "clear_state")
  /\ UNCHANGED <<device, order, active, step, report, history, observer>>

ClearEnvelope(w) ==
  /\ pc[w] = "clear_envelope"
  /\ envelopes' = IF active[w] = NoRevision THEN envelopes
                  ELSE WithStatus(envelopes, active[w], "CLEARED")
  /\ Goes(w, "clear_state")
  /\ UNCHANGED <<policyState, proven, suspended, settings, filter, order, active, step, report, history, observer>>

ClearState(w) ==
  /\ pc[w] = "clear_state"
  /\ policyState' = [mode |-> "none", revision |-> NoRevision, applyState |-> "CLEARED"]
  /\ Returns(w, "active")
  /\ UNCHANGED <<envelopes, proven, suspended, settings, filter, observer>>

\* rollback: back to the newest envelope of another policy, or clear.
RollbackRead(w) ==
  /\ pc[w] = "rollback_read"
  /\ \E r \in RevisionOrNone : ReadsActive(r) /\ active' = [active EXCEPT ![w] = r]
  /\ Goes(w, "rollback_choose")
  /\ UNCHANGED <<device, order, step, report, history, observer>>

RollbackChoose(w) ==
  LET r == IF active[w] = NoRevision THEN NoRevision
           ELSE RollbackEnvelope(envelopes, active[w])
  IN  /\ pc[w] = "rollback_choose"
      /\ order' = IF r = NoRevision THEN order
                  ELSE [order EXCEPT ![w].revision = r, ![w].mode = DefaultMode[r]]
      /\ Goes(w, IF r = NoRevision THEN "clear_network" ELSE "read_active")
      /\ UNCHANGED <<device, active, step, report, history, observer>>
-----------------------------------------------------------------------------
\* reconcileScheduledMode and ScreenTimeWorker: the active envelope ...
ObserveEnvelope(o) ==
  /\ observer[o].pc = "idle"
  /\ \E r \in ActiveRevisions :
        observer' = [observer EXCEPT ![o].pc = "read_state", ![o].revision = r]
  /\ UNCHANGED <<device, sync>>

\* ... then, in a second call, the state, which may be of another revision.
ObserveState(o) ==
  /\ observer[o].pc = "read_state"
  /\ observer' = [observer EXCEPT ![o].pc = "adjust", ![o].state = policyState]
  /\ UNCHANGED <<device, sync>>

BlockedIn(r, m) == IF m \in Modes THEN Blocked[r][m] ELSE {}

Rest(o) == observer' = [observer EXCEPT ![o] = IdleObserver]

\* reconcileScheduledMode: the schedule now resolves to mode m; the packages,
\* but for what Android refuses, and the lock task of the envelope that was read are adjusted to it ...
SwitchMode ==
  LET o == observer["schedule"] IN
  /\ o.pc = "adjust"
  /\ \E m \in scenario.modes \ {o.state.mode} :
        /\ suspended' \in UNION {Suspending(s, Blocked[o.revision][m]) :
                                   s \in Releasing(suspended, BlockedIn(o.revision, o.state.mode))}
        /\ observer' = [observer EXCEPT !["schedule"].pc = "write", !["schedule"].mode = m]
  /\ enforced' = [enforced EXCEPT !["lock_task"] = o.revision]
  /\ UNCHANGED <<tables, kept, locationOff, filter, sync>>

KeepMode ==
  /\ observer["schedule"].pc = "adjust"
  /\ observer["schedule"].state.mode \in Modes
  /\ Rest("schedule")
  /\ UNCHANGED <<device, sync>>

\* ... the state that was read is written back with the new mode ...
WriteMode ==
  LET o == observer["schedule"] IN
  /\ o.pc = "write"
  /\ policyState' = [o.state EXCEPT !.mode = o.mode]
  /\ observer' = [observer EXCEPT !["schedule"].pc = "reconcile"]
  /\ UNCHANGED <<envelopes, proven, suspended, settings, filter, sync>>

\* ... and the screen time is reconciled.  ScreenTimeWorker does only this,
\* with the packages the envelope it read blocks in the mode of the state it read.
Reconciles(o) == observer[o].pc = IF o = "schedule" THEN "reconcile" ELSE "adjust"

Reconciled(o) ==
  LET seen == observer[o]
      mode == IF o = "schedule" THEN seen.mode ELSE seen.state.mode
  IN  ScreenTimeOutcomes(seen.revision, BlockedIn(seen.revision, mode))

Reconcile(o) ==
  /\ Reconciles(o)
  /\ suspended' \in Reconciled(o)
  /\ Rest(o)
  /\ UNCHANGED <<tables, settings, filter, sync>>

\* A control or a database call of the worker throws; it is tried again later.
GiveUp(o) ==
  /\ observer[o].pc # "idle"
  /\ suspended' \in IF Reconciles(o) THEN UNION {Mixtures(suspended, s) : s \in Reconciled(o)}
                    ELSE {suspended}
  /\ Rest(o)
  /\ UNCHANGED <<tables, settings, filter, sync>>

Observe(o) ==
  \/ ObserveEnvelope(o) \/ ObserveState(o) \/ Reconcile(o) \/ GiveUp(o)
  \/ o = "schedule" /\ (SwitchMode \/ KeepMode \/ WriteMode)
-----------------------------------------------------------------------------
Forget ==
  /\ pc' = [w \in Workers |-> "idle"]
  /\ order' = [w \in Workers |-> NoOrder]
  /\ active' = [w \in Workers |-> NoRevision]
  /\ step' = [w \in Workers |-> 0]
  /\ result' = [w \in Workers |-> "none"]
  /\ refused' = [w \in Workers |-> {}]
  /\ beside' = {}
  /\ UNCHANGED overlapped
  /\ observer' = [o \in AllObservers |-> IdleObserver]

\* The process dies or the device reboots.  Tables and device controls persist;
\* the VPN service is restarted without its rules and stops.
Crash ==
  /\ Forget
  /\ filter' = NoRevision
  /\ UNCHANGED <<tables, suspended, settings>>

\* Mutant: the result is kept for the next order.
ReturnKeepingResult(w) ==
  /\ pc[w] = "done"
  /\ Goes(w, "idle")
  /\ order' = [order EXCEPT ![w] = NoOrder]
  /\ active' = [active EXCEPT ![w] = NoRevision]
  /\ refused' = [refused EXCEPT ![w] = {}]
  /\ beside' = beside \ {w}
  /\ UNCHANGED <<device, step, result, overlapped, observer>>

\* The sync worker has taken the result; what it then does is PolicyDelivery's.
Return(w) ==
  /\ pc[w] = "done"
  /\ Goes(w, "idle")
  /\ order' = [order EXCEPT ![w] = NoOrder]
  /\ active' = [active EXCEPT ![w] = NoRevision]
  /\ result' = [result EXCEPT ![w] = "none"]
  /\ refused' = [refused EXCEPT ![w] = {}]
  /\ beside' = beside \ {w}
  /\ UNCHANGED <<device, step, overlapped, observer>>

Activate(w) ==
  \/ ReadActive(w) \/ Supersede(w) \/ Insert(w) \/ Pending(w) \/ Suspend(w)
  \/ ApplyControl(w) \/ ConfigureFilter(w) \/ ReconcileScreenTime(w) \/ MarkActive(w)

Clear(w) ==
  \/ ClearNetwork(w) \/ ClearFilter(w) \/ ClearRead(w) \/ ClearPackages(w)
  \/ ClearControl(w) \/ ClearScreenTime(w) \/ ClearEnvelope(w) \/ ClearState(w)

Rollback(w) == RollbackRead(w) \/ RollbackChoose(w)

Work(w) == Activate(w) \/ Clear(w) \/ Rollback(w)

\* Every apply names a revision; clear and rollback name none.
Requested ==
  {q \in [operation : scenario.operations,
          revision : scenario.revisions \union {NoRevision},
          mode : scenario.modes] :
     /\ q.operation = "apply" <=> q.revision # NoRevision
     /\ q.operation # "apply" => q.mode = CHOOSE m \in scenario.modes : TRUE}

Next ==
  /\ \/ \E w \in scenario.workers :
                            \/ \E q \in Requested : Begin(w, q)
                            \/ Work(w) \/ Fail(w) \/ Return(w)
     \/ \E o \in scenario.observers : Observe(o)
     \/ Crash
  /\ UNCHANGED scenario

Spec == Init /\ [][Next]_vars
-----------------------------------------------------------------------------
TypeOK ==
  /\ envelopes \in Seq(Envelopes)
  /\ policyState \in PolicyStates
  /\ suspended \in SUBSET Packages
  /\ enforced \in [Controls -> RevisionOrNone]
  /\ kept \in SUBSET Packages
  /\ locationOff \in BOOLEAN
  /\ filter \in Filtering \union {NoRevision}
  /\ proven \in SUBSET Revisions
  /\ order \in [Workers -> Orders \union {NoOrder}]
  /\ active \in [Workers -> RevisionOrNone]
  /\ step \in [Workers -> 0 .. Len(ActivationSteps)]
  /\ result \in [Workers -> {"none", "active", "quarantined"}]
  /\ refused \in [Workers -> SUBSET Packages]
  /\ beside \in SUBSET Workers
  /\ overlapped \in BOOLEAN
  /\ \A w \in Workers : pc[w] = "idle" => order[w] = NoOrder /\ result[w] = "none"
  /\ scenario \in Scenarios
  /\ \A o \in AllObservers :
       /\ observer[o].pc \in {"idle", "read_state", "adjust", "write", "reconcile"}
       /\ observer[o].revision \in RevisionOrNone
       /\ observer[o].state \in PolicyStates

AllIdle == /\ \A w \in Workers : pc[w] = "idle"
           /\ \A o \in AllObservers : observer[o].pc = "idle"

\* Until two sync workers have run together, at most one envelope is active:
\* neither a failure nor a crash between the steps of one leaves two.
OneActiveEnvelope ==
  ~ overlapped =>
    \A i, j \in DOMAIN envelopes :
      envelopes[i].status = "ACTIVE" /\ envelopes[j].status = "ACTIVE" => i = j

\* What the application controls of some revision may release again although
\* the mode blocks it.
Released == Store \union UNION {Application[r].files : r \in Revisions}

\* No other sync worker ran during the operation of w, and no periodic worker.
Undisturbed(w) == scenario.observers = {} /\ w \notin beside

UninstallInForce(r) ==
  LET app == Application[r] IN
  IF app.uninstall THEN app.approved \intersect kept = {} ELSE app.approved \subseteq kept

LocationInForce(r) ==
  /\ Location[r] = "off" => locationOff
  /\ Location[r] = "on" /\ scenario.android_11 => ~ locationOff

\* An activation that ran undisturbed and reports success is in force: what the
\* sync worker then acknowledges is true of the state row, of every control, of
\* the approved packages and the location, and of the packages the application
\* controls do not know, but for those Android refused, which nobody is told of.
\* If no two activations ever ran together, it is the one active envelope.
AppliedIsEnforced ==
  \A w \in Workers :
    LET r == order[w].revision IN
    Undisturbed(w) /\ pc[w] = "done" /\ result[w] = "active" /\ r # NoRevision =>
      /\ ~ overlapped => ActiveRevisions = {r}
      /\ policyState.revision = r /\ policyState.applyState = "ACTIVE"
      /\ \A c \in Controls : enforced[c] = r
      /\ UninstallInForce(r) /\ LocationInForce(r)
      /\ Blocked[r][order[w].mode] \ (Released \union refused[w]) \subseteq suspended

\* While nothing but "apply" is asked for and no two workers have run together,
\* the envelope that is called active is in force in every control the periodic
\* workers do not share, whatever failed or died on the way.
ActiveIsEnforced ==
  scenario.operations = {"apply"} /\ ~ overlapped =>
    \A r \in ActiveRevisions : \A c \in Controls \ {"lock_task"} : enforced[c] = r

\* Until two workers have run together, a policy is rolled back only to a
\* revision that was once activated to the end: what was quarantined or
\* interrupted never becomes a way back.
RollbackTargetsProven ==
  ~ overlapped =>
    \A w \in Workers :
      order[w].operation = "rollback" /\ order[w].revision # NoRevision =>
        order[w].revision \in proven

\* A clear that ran undisturbed and reports success has lifted the restrictions
\* of every control and the filter, and leaves no envelope that a periodic worker
\* would enforce again.  The uninstalls of approved packages are free again only
\* if there was an envelope to read them from, and the location stays off.
ClearedIsLifted ==
  \A w \in Workers :
    Undisturbed(w) /\ pc[w] = "done" /\ result[w] = "active"
      /\ policyState.applyState = "CLEARED" =>
      /\ ~ overlapped => ActiveRevisions = {}
      /\ filter = NoRevision
      /\ \A c \in Controls : enforced[c] = NoRevision
      /\ ApplicationOf(active[w]).approved \intersect kept = {}

\* Whatever the periodic workers have read and write back late, the state row
\* never calls a revision active that was not activated to the end.
StateClaimsProven ==
  policyState.applyState = "ACTIVE" => policyState.revision \in proven

\* Claimed: the device keeps enforcing the last policy it activated.  At rest,
\* once a policy was activated and nobody asked to clear it, every control is
\* of one revision that was activated to the end.
LastPolicyKept ==
  AllIdle /\ proven # {} =>
    \E r \in proven : \A c \in Controls : enforced[c] = r
=============================================================================
