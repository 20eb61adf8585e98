# EduGD in TLA+

EduGD lets a school own the Android devices it hands out: administrators write
policies in a web frontend, a Flask backend (`src/backend/app`) keeps them in
PostgreSQL, and a device policy controller, the DPC (`src/android-dpc`), fetches
the policy of its device, enforces it through Android's `DevicePolicyManager`,
and uploads evidence of what happened.

These modules model the parts where steps of several actors interleave, where a
process may die half-way, or where a promise of the documentation takes several
steps to keep. Below, `B/` is `src/backend/app/`, `D/` is
`src/android-dpc/app/src/main/java/io/github/sun808ey/edugd/dpc/`.

## 1. Inventory

### Server

The backend runs one gunicorn worker with four threads and a timeout of 30 s
(`src/backend/gunicorn.conf.py`). A request is served by one thread, which uses
PostgreSQL transactions at READ COMMITTED: a statement sees what was committed
before it began, `FOR UPDATE` waits for the holder of a row and then reads the
row again. Threads share nothing but the database.

| component | state | operations | what is hard | what makes it correct |
|---|---|---|---|---|
| Audit ingestion (`B/services/device_audit_ingestion.py`) | batches, events, one chain head a device | upload a batch | two uploads of one device; the first one has no head row to lock; a retry racing its original; a lost reply | one unbroken hash chain a device; a receipt is never given for what is not stored; nothing is withdrawn |
| Policy assignment (`B/services/policy_assignments.py`) | assignments, policy and device status, administrative evidence chain | assign, clear, retire, change the lifecycle of a policy | several administrators at one device; policy status read without a lock | one active assignment a device; the evidence replays to the assignment; a draft is never assigned, a retired device gets nothing |
| Credentials and tokens (`B/services/device_enrollment.py`) | pairing tokens, credentials, devices | issue and revoke a token, enrol, rotate, revoke a credential | a token presented twice; wrong proofs counted concurrently; rotation racing revocation | a token enrols once; guesses are bounded; one active credential; revocation is final |
| Request authentication (`B/services/device_authentication.py`) | nonces, credential status | authenticate a signed request | the clock moves on between the check of the timestamp and the nonce; the answer is stale once the handler runs | a nonce is not accepted twice in the window of its timestamp |
| Check-ins and acknowledgements (`B/services/device_status.py`, `B/device_status_contract.py`) | reports, state row a device | accept a report | late, repeated and concurrent ones; the first has no state row to lock | the state is that of the latest report; a receipt is honest |
| State route and legacy sync (`B/routes/dpc_controls.py`, `B/services/policy_sync.py`) | sync evidence | choose the operation, chain the evidence | the client says what it has by version only; a device without a row | a device is told to do what brings it to its assignment; one chain a pseudonym |
| Block override, usage, web events (`B/services/device_controls.py`) | override row, usage totals | block, unblock, report | first insert without a row to lock | the evidence replays to the override; totals do not shrink |
| Administrators (`B/services/administrator_*.py`, `B/administrator_authorization.py`) | accounts, permissions, sessions | log in, authorise, log out, disable, reset, revoke, grant, create, bootstrap | reads without locks; objects a transaction has loaded are stale; lockout counters | an open session has the present password of an enabled account; no failure is lost from the count |
| Policies and catalogue (`B/services/policy_administration.py`, `B/policy_contract*.py`, `B/routes/managed_applications.py`) | policies, revisions, applications | create, revise, change lifecycle, approve applications | two authors of one policy; the catalogue changes while a payload is materialised | revisions are numbered without gaps; what is stored is what a device then does |
| Device register (`B/services/device_registration.py`, `device_asset_privacy.py`, `school_*.py`, and the row of the device in `device_enrollment.py`) | devices, locations, the school | register, enrol, correct, redact, locate | concurrent first registrations; corrections and enrolments racing retirement; rows locked in opposite orders | one registration a device; no correction undoes a retirement; no request waits for ever |

### Device

The DPC is one process. WorkManager runs an immediate and a periodic sync
worker, a schedule worker and a screen-time worker, each by a name of its own
(`D/sync/SyncScheduler.kt`), so they overlap. State is in Room tables, in
`SharedPreferences`, and in Android's own device policy settings; nothing spans
these stores atomically, and the process may be killed between any two calls.

| component | state | operations | what is hard | what makes it correct |
|---|---|---|---|---|
| Policy activator (`D/policy/AtomicPolicyActivator.kt`) | envelopes, state row, device controls | activate, clear, roll back, reconcile the scheduled mode | about fifteen effects in a row, any of which may fail or be the last before a crash; workers adjust the same packages | one active envelope; success means in force; a roll back only to what was in force once |
| Delivery (`D/sync/SyncWorker.kt`, `BackendIntegrationClient.kt`) | identity, work queue | fetch, activate, acknowledge | retries, lost acknowledgements, 401s | the device comes to enforce what is assigned, and says so |
| Screen time, schedules (`D/policy/*.kt`) | usage, mode | resolve the mode, suspend | windows past midnight and past the end of the week | the device is in the mode the server's contract means |
| VPN filter (`D/vpn/*.kt`) | rules in memory | start, stop, filter | service restarted without rules | the rules are those of the active policy |
| Audit chain and outbox (`D/audit/AuditChain.kt`, `D/sync/AuditOutbox.kt`) | event preferences, outbox rows | append, batch, upload, mark | several chain objects over one file; crash between upload and marker | no event is lost or sent twice; the chain verifies |
| Enrolment bootstrap (`D/enrollment/*.kt`) | provisional UUID, identity row, key | enrol on first start | the reply is lost after the token was consumed | a device can always end up enrolled |

### How they interact

- administrator -> backend: HTTPS; each request is one or more transactions.
- backend -> database: the row locks and unique keys are the only coordination.
- DPC -> backend: signed requests (DEVICE-AUTH v1): fetch state, acknowledge,
  check in, report usage, upload audit batches, rotate. Replies may be lost and
  requests repeated.
- workers -> activator: direct calls within the process.
- activator -> Android: `DevicePolicyManager` calls that persist by themselves.

The list of hazards, with the line where each one bites and the properties that
cover it, is in `PROJECT.json`.

## 2. Modules

| module | models | relation |
|---|---|---|
| `RequestThreads` | threads, the requests they serve, the row locks their transactions hold | extended by all below that share it |
| `AuditLog` | the promise of audit ingestion: an append-only log a device and confirmations that never run ahead of it | abstract |
| `AuditIngestion` | `ingest_audit_batch`, statement by statement | implements `AuditLog` by `INSTANCE ... WITH` (`ImplementsAuditLog`) |
| `PolicyAssignment` | `assign_policy_revision`, `clear_policy_assignment`, retiring a device, `set_lifecycle` | |
| `CredentialLifecycle` | tokens, enrolment, rotation, revocation, and the authentication a rotation passes first | |
| `DeviceAuthentication` | `authenticate_device_request` | over `RequestThreads` |
| `DeviceStatus`, `DeviceControls`, `PolicySync` | check-ins and acknowledgements; block orders, usage and web events; legacy sync and its evidence | over `DeviceAuthentication` |
| `DeviceRequests` | one server that serves all of these | composes the four above |
| `Administrators` | accounts, permissions and sessions, for the panel and the command line | over `RequestThreads` |
| `PolicyContract` | what the contract accepts and what a device makes of it, as operators | |
| `PolicyCatalogue` | policies, revisions, managed applications | over `RequestThreads` and `PolicyContract` |
| `DeviceRegister` | self-registration, what an enrolment writes of a device, school assets, corrections, redaction, locations, the school | over `RequestThreads` |
| `Administration` | one server that serves administrators and the devices that register or enrol | composes the three above |
| `PolicyActivator` | the activator, its tables and controls, the periodic workers, process death | |
| `PolicyDelivery` | server's choice of operation, sync worker, acknowledgement | extends and composes `PolicyActivator` |
| `*_proofs` | theorems about the module of that name | see 4 |
| `MC*` | instances for TLC | see 3 |

### RequestThreads

`pc[t]` names the statement thread `t` runs next, `lock[r]` the holder of a row.
A statement is one step; what a transaction writes is visible with its commit,
so the last write and the commit are one step, and what it has read meanwhile is
kept in variables of the thread. A missing row is neither waited for nor locked.
`AuditIngestion`, `PolicyAssignment` and `CredentialLifecycle` are built the same
way with threads of their own.

### AuditIngestion

A thread goes `idle -> lookup -> read_head -> store -> reply -> idle`: the
look-up of credential and batch UUID, `SELECT ... FOR UPDATE` of the head, the
inserts with their commit, the reply. `seen[t]` is what the thread read of the
head, `lock[d]` the holder of the row. Without a head row only the unique keys
(`NoKeyConflict`) keep two first batches apart. A payload is what a device may
post: claims and a list of events. `ValidEvent` and `ValidBatch` are the checks of
`device_audit_contract.py`, `Digest` an opaque function of what a hash covers, and
`Signed` says whose key verifies the signature. `Abort` is a failing database or a killed worker in any
state, so a reply may be lost after the commit, and `Upload` lets any payload
come again at any time.

### PolicyAssignment

One request locks the device, reads the policy without a lock, reads the
current assignment, and records its event and its rows with the commit. The
numbered events are the administrative evidence; `EvidenceExplainsState`
replays them and compares the outcome with the table, now and before every
event. `EvidenceVerifies` is `verify_policy_assignment_chain`, which reads them by
date: an event is dated when it is recorded, under the lock, so `clock` moves on
between any two statements. The clock is one for all threads and never goes back,
as on a server whose clock is slewed and not set. Policies move between draft,
active and archived at any time.

### CredentialLifecycle

`pc[h]` walks through the statements of `enroll_device`
(`token -> device -> store`), `rotate_device_credential`
(`authenticate -> supersede -> replace`) and `revoke_device_credential`
(`select -> revoke`). Which rows are locked follows from where the threads are
(`TokenLocked`, `DeviceLocked`, `KeyLocked`). A key stands for its credential,
since its fingerprint is unique. `root` (the token the line of a credential
began with), `guesses` (wrong proofs answered) and `lapses` (those of them whose
count was lost) are history variables: `_record_failed_enrollment` swallows the
error of a failing commit and answers as ever (`CountLost`, beside
`CountFailure`), so the bound on guesses has to allow for these. A
revocation selects the active credential in the snapshot of its statement and
checks the condition again on the row it waited for: that is how READ COMMITTED
treats an `UPDATE`d row, and `SelectActive` and `RevokeCredential` are these two
halves.

### DeviceAuthentication and the handlers

A signed request is verified against the credential and the clock
(`Verify`), dated once more (`StampNonce`), and its nonce recorded after the
expired ones are deleted (`RecordNonce`), with time passing in between; then the
handler runs in a transaction of its own and reads the credential anew
(`StillActive`). A request is a record and may arrive any number of times:
copies, retries and replays are the same thing. The legacy modes of the
enrolment setting are in `LegacyAccepted`.

`DeviceStatus` has check-ins and acknowledgements, which are built alike: look
for the UUID, insert the report (a UUID that is being inserted by another
transaction is waited for), lock the state row if there is one, and write it
unless it is newer. Between the insertion and the commit a report holds the
device `FOR KEY SHARE`, which is what an administrator's block order waits for.
`DeviceControls` has block orders under the device lock, usage under the lock of
the day's row if there is one, and web events. `PolicySync` decides the
operation from two unlocked reads, then locks the device and the advisory lock
of the pseudonym and chains its event; a revision of the third schema ends the
request without evidence, as it does in the code.

### Administrators

Login holds the account row from its first read to its commit. Everything else
reads without locks, and keeps what its transaction has loaded: `seen[t]` is the
identity map of the session, `written[t]` the row a transaction has updated and
not committed. `UpdateAccount` sends the changed columns of the row as it was
loaded to the row as it is (autoflush, before the query for the sessions), so a
reset that loaded an old failure count does not write it back. A lock and a
session run out at any moment (`LockRunsOut`, `Expire`). `wrong[a]` is history:
passwords refused since one was accepted or set.

### PolicyContract and PolicyCatalogue

A payload is reduced to modes, schedules and sections; one operator for each
validator of `policy_contract_v3.py` (`ValidScreenTime` to `ValidDeviceUse`) says
which values and combinations of them are accepted.
`Occupied` is the minute table of `validate_policy_v2`, `Matches` and
`ResolveMode` are `ScheduleResolver.kt`, `AndroidRestrictions` is the order in
which the activator applies the sections, with the restrictions each asks for as
in `DevicePolicyController.kt` and `NetworkSettings.kt`, and `DeviceReads` what the
device's parsers demand before they give effect to a section. `Covers` is a reference neither side
uses: minutes counted from the start of the week, modulo the week.
`ScheduleHonoured`, `SectionsHonoured` and `ReadByDevices` compare the two sides.
`SectionsHonoured` is an equality: what is in force once the activator has applied
all sections is what `RestrictionsAsked` collects from them, no more and no less.
That is said of the sections the device reads. Nothing on it reads
`network_controls`: the contract makes two of them, tethering and VPN, agree with
`network_settings`, so those two are in force when settings come with them, and a
policy with `network_controls` alone restricts nothing. `telephony_controls` and
the `device_controls` of a mode are accepted by the contract and read by nothing.
The catalogue materialises a payload from the applications and the name of the
school, which it reads without locks, validates it, and stores it: a new policy after looking for its code, a revision under the
lock of its policy. `refusals` is history: which constraint refused an author.

### DeviceRegister

A device registers itself without a lock; the loser of two first insertions
reads the winner's row and becomes a comparison (`InsertDevice`,
`CompleteExisting`). Assets are corrected under the device lock, retired devices
redacted under it after the retention period (`Age`). A correction of a location
locks the location and then needs the device for its event; a redaction holds the
device and deletes the locations: PostgreSQL finds the cycle and rolls one back
(`DeadlockVictim`).

An enrolment writes the same row: it creates it (`InsertEnrolled`), without an
event of registration, or holds it and raises its API level and sets an asset to
ENROLLED, whatever its status (`LockEnrolled`, `StoreEnrolled`). What else an
enrolment checks and stores is `CredentialLifecycle`, so here any may be refused.
A comparison with an existing row is dated by what it has read; its event waits,
by its foreign key, for whoever holds the device, and the level may have risen
by then (`StoreEvent`). `RetiredIsFinal` and `RegistrationExplained` are stated
with these writers: the lifecycle of a retired device changes to ENROLLED and to
nothing else, and each event names a level the row has had since the device
registered. The setting `DEVICE_ENROLLMENT_MODE` makes the route register or
enrol; the model lets both come at any time.

### DeviceRequests and Administration

Both are one server: `Next` is a thread receiving a request, running a statement
or being killed, or something that happens elsewhere (`Environment`: time,
revocations, assignments). The parts share threads, locks and clock and nothing
else. The initial state picks a *workload*, a set of requests that may arrive any
number of times in any order and the rows that are there, so that one run has
many small mixtures instead of one that TLC cannot finish.

### PolicyActivator

Every database call and every control of `activate`, `clear` and `rollback` is
an action, in the order of the code. `enforced[c]` is the revision whose
restrictions are completely in force in control `c`; a control that fails half-way
counts as before or after, as it is set again as a whole by the next sync. The
envelope table is a sequence in the order of `verifiedAt`, keyed by policy as
in the code, so a new revision replaces the row of the old one. The mode a
schedule resolves to is chosen anew at every look at the clock. Starting the VPN
is synchronous but may fail without an exception; a tunnel that is up keeps its
rules. Screen time may suspend, release or leave the packages it governs, and
the application controls suspend and release packages of their own. The schedule
worker reads the envelope and the state in two calls and writes back the state it
read. `Fail` throws from any step, `Crash` loses everything in memory and keeps
tables and controls. `proven` is history: revisions activated to the end. The
initial state picks a scenario: workers, operations, periodic workers, revisions,
modes and the Android version.

Android may refuse single packages (`Refusable`): `setPackagesSuspended` returns
them, `activate` and `clearManagedPackages` drop what it returns and go on,
`suspendPackages` goes on without them, `unsuspendPackages` throws, which is
`Fail`. `refused[w]` is what the activation of `w` dropped, so that
`AppliedIsEnforced` can say what a reported success leaves out. Two settings
outlive the control that made them and are variables of their own: `kept`, the
packages whose uninstall is blocked, which are free again only if the envelope
that listed them is read (`KeptAfter`), and `locationOff`, which only a policy
that wants the location on restores, and only from Android 11 (`LocationAfter`).

Two sync workers may be in the activator at once, as nothing in
`SyncScheduler.kt` keeps the immediate one from the periodic one. `beside` are the
workers whose operation ran at the same time as another, `overlapped` says that
this ever happened; properties that two workers break are stated until then, or of
operations no other ran beside.

### PolicyDelivery

Adds the server: `ServerOperation` is the branch of `sync_v3`, and
`AcknowledgedKeys` against `ContractAccepts` is the acknowledgement the client
builds against the one `validate_policy_acknowledgement` takes. The assignment
and the block override change a bounded number of times (`MaxChanges`), failures,
crashes and refusals happen a bounded number of times (`MaxMishaps`).

## 3. What TLC checks

| run | question | instance and why it is enough |
|---|---|---|
| `audit_ingestion` | do racing uploads keep one chain and honest receipts, and implement `AuditLog`? | two threads; two devices; twelve payloads that cover regular uploads, the same evidence cut differently, a fresh chain, a reused UUID, a repeated event, an event of another device, and one for each way the contract refuses a batch. Locks and keys are pairwise matters, so two threads meet every conflict; a third only adds waiters. |
| `assignment` | is there one active assignment, evidence that explains it and an auditor who accepts the evidence, whoever races? | one device (devices share nothing but policies), three threads, two revisions of two policies, four events, two instants, so that events are recorded in one instant and across one |
| `credentials` | is a token used once, are guesses bounded by the limit and the counts that were lost, is one credential active, revocation final, and everyone answered? | one lost count a token; three plans: two devices with every flaw, so that a bound token meets the wrong one; three keys, so that two rotations of one credential race; two tokens, so that there is a recovery |
| `credentials_lineage` | violation, see 5 | |
| `device_requests` | do late, repeated and concurrent reports, block orders, syncs and replays leave the latest state, honest receipts, one chain, an explained override, and an end for each request? | two threads; eight workloads, each with the requests that touch the same rows: reports with equal and with different times, one UUID with two contents, an unknown revision; usage of one day under two policies; every way a client can say what it holds against every assignment; an unregistered device; one signed request sent again and again over four instants with a skew of one, which is every position in the window |
| `device_requests_dated` | violation, see 5 | |
| `administration` | are open sessions current, failures counted, revisions numbered and honoured, retirements final but for enrolments, registrations explained, and does every request end? | two threads; two accounts, two attempts before a lock; five workloads of accounts, six of the register and its schools, with enrolments before, during and after a registration, a retirement and a redaction, three of revisions, and some two thousand policies one at a time: every pair of schedules on at most two days of a week of three days of three minutes, the least with a window past midnight, one past the end of the week and a day adjacent to neither, and every combination of the sections between which the contract has rules; every other section with its values at and beyond their limits |
| `activator` | does reported success mean in force, and can nothing unproven become active or a way back? | two revisions of one policy and one of another, so that rows are replaced and superseded; one scenario with all three operations, one with `apply`, two modes and the schedule worker at any time, one with two sync workers; a package Android may refuse, approved packages, the location on and off; failure and crash anywhere |
| `activator_kept` | violation, see 5 | |
| `delivery_converges` | does a device come to enforce its assignment after failures and changes? | two revisions, three changes, two mishaps, the screen-time worker interfering |
| `delivery_cleared`, `delivery_reported` | violations, see 5 | |

Deadlock is checked except in three passing runs: in `delivery_converges` the
device really stops once a refused request has revoked its identity and the
bounded changes are used up; in `device_requests` and `administration` the
requests of a workload are used up when its bound on events or rows is reached.
There `RequestsEnd`, a liveness property, says that no request is left waiting.

**Bounds.** `MaxLapses` in `CredentialLifecycle` bounds the counts of wrong proofs
that are lost, `MaxEvents` in `PolicyAssignment` bounds the evidence a device
collects, `MaxTime` its clock; `MaxChanges` and `MaxMishaps` in `PolicyDelivery` bound changes and
failures; `horizon` and `events` of a workload bound the clock and the evidence;
`Sessions`, `GrantIds` and `MaxVersion` bound rows, with room left for every
thread (`Spare`, `Bounded`); `parallel` is how many requests are served at once;
`wrong` stops one above `MaxAttempts`. `MaxFailures`, `MaxAttempts`,
`MinutesPerDay` and `DaysPerWeek` are numbers of the code. Everything else is
finite by itself: batches, tokens, keys and UUIDs are used once.

**Fairness.** A gunicorn thread runs until it has answered, and a thread that
waits for a row gets it, as PostgreSQL queues the waiters of a row: strong
fairness of the steps of each thread, since a row may be taken again in between.
That is no assumption that requests succeed: refusing and rolling back are steps
too, and a thread that waits for one that waits for it would wait for ever.
WorkManager runs a due worker whenever its constraints hold and again after a
failure, which is weak fairness of the sync worker in `PolicyDelivery`. Nothing is
assumed of administrators, of the periodic workers, of time, or of failures,
except that the latter are finitely many in `PolicyDelivery`: a device that
crashes for ever never applies anything.

Every property has a mutant in `PROJECT.json`, a definition changed the way a
plausible bug would change the code, under which TLC finds it violated. The
mutated definitions stand in the modules, each marked "Mutant".

## 4. What is proved

The theorems hold for any number of devices, threads, keys, tokens, accounts,
revisions and payloads, and any workload, under the `ASSUME`s of the modules:

- sentinel values are not members of the sets they extend (`NoneAssumption`,
  `ThreadsAssumption`, `MarksAssumption`, `AccountMarksAssumption`,
  `DeviceMarksAssumption`, `CatalogueAssumption`, `SyncAssumption`);
- a request that reaches a handler was parsed (`PayloadsAssumption`, the
  `RequestsAssumption`s), and the rows a statement locks are among `Rows`
  (the `RowsAssumption`s), where rows of different tables differ
  (`TablesAssumption`);
- settings have their range (`MaxFailures` and `MaxAttempts` positive; a nonce is
  kept at least twice the clock skew, 600 s and 300 s in `B/config.py`);
- the rows there are at the beginning satisfy the constraints of the tables
  (`WorkloadsAssumption`).

| module | theorems |
|---|---|
| `AuditIngestion_proofs` | `ChainNeverBroken`, `ReceiptsTruthful`, `AppendOnly`, `AuditLogImplemented`, `TypeCorrect` |
| `PolicyAssignment_proofs` | `OneActive`, `EvidenceSufficient`, `EvidenceChained`, `DraftsNeverAssigned`, `RetiredStaysClosed`, `TypeCorrect` |
| `CredentialLifecycle_proofs` | `OneActive`, `SingleUse`, `GuessesLimited`, `RevocationFinal`, `TypeCorrect` |
| `DeviceRequests_proofs` | `Typing` |
| `DeviceRequestsSafety_proofs` | `EvidenceStaysLinked`, `OperationsReachDesired`, `LatestReportKept`, `ReceiptsAreHonest`, `OverrideIsExplained`, `UsageNeverShrinks`, `NoReplay`, `NoDeadlock` |
| `PolicyActivator_proofs` | `Types`, `StateIsProven`, `AppliedEnforced`, `ClearedLifted`, and until two sync workers have run together `OneEnvelope`, `WayBackProven`, `ActiveEnforced`; all for any number of sync workers |
| `Administration_proofs` | `RetirementIsFinal`, `RegistrationsAreExplained`; of `PolicyContract`, `SchedulesAreHonoured`, `SectionsAreHonoured` and `AcceptedIsRead`, for every payload, and days and weeks of any length |
| `AdministrationSafety_proofs` | `RevisionsAreNumbered`, `PoliciesAreHonoured`, `SessionsAreCurrent`, `FailuresAreCounted`, `NoOtherDeadlock`, `Typing` |

The argument is the same in each: the property is not inductive as it stands,
because it says nothing of threads half-way through.

- *AuditIngestion.* The invariant adds `SeenIsCurrent`: a thread about to store,
  if it read a head row, holds its lock and what it read is still the head. A
  thread that found no row has no lock, and then the unique keys do: if a head
  came to be since, the batch numbered 1 meets the stored batch numbered 1 and
  is refused. `RepliesBacked` carries the receipt from the commit to the reply.
  `StoredValid` and `EventsUnique` say of the rows what the contract and the keys
  said of each batch. With them every step of the ingestion is mapped to a step of
  `AuditLog` or to a stutter: the commit of a batch appends its evidence, a reply
  is a confirmation, and nothing else touches rows or receipts.
- *PolicyAssignment.* `LockHeld` says that the threads between their lock and
  their commit are the holders of the device row, `CurrentIsActive` that what
  such a thread read is still the active assignment, `History` relates the
  evidence and the rows, `PolicyLeftDraft` that a policy read as active was
  activated and, as no policy goes back to draft, is none now. `EvidenceDated`
  says that the dates of the evidence do not decrease and are not past the clock,
  and `DatedChainVerifies` that a chain so dated is read back in its order: of two
  events of one instant the identifiers decide. `HeldIsEnrolled`, that a thread
  past its lock holds an enrolled device, which retiring waits for, gives
  `RetiredStaysClosed`.
- *CredentialLifecycle.* `TokenHeld` (one thread at most holds a token, and it
  found it active), `Counted` (the count the thread loaded is the one in the
  row, and covers every guess but the `lapses`, those whose commit failed and
  which were answered like any other, lemma `CountLostKeeps`), `RotationHeld` (a credential in the middle of a
  rotation is not revoked, as its row is locked) and `UnusedBlank`.
- *DeviceRequests.* Each part has its invariant over `TypeOK`, and a lemma
  (`...Quiet`) that the statements of the other parts leave it alone. `HeadHeld`:
  a thread about to chain its event holds the advisory lock, and the head it read
  is the head. `AnswerReaches`: the answer a thread carries already brings the
  client to what it names. `StateHeld`: a thread about to write the state row
  holds its lock, or found no row and then a row that came to be since refuses
  its insertion. `UuidHeld`: two threads are never past the insertion of one UUID.
  `StampCompared` and `NonceKept`: an accepted nonce is in the table with an
  expiry past its window, or the window is past. `UsageHeld`: a thread about to
  store the usage of a day holds the row it read, or read none and then a row that
  came to be since refuses it. `NoDeadlock` is the safety half of `RequestsEnd`, for
  any number of threads: `WaitsFor` spells out what each blocking guard waits
  for, `LockHolders` at which statements which rows are held, and the `Rank` of
  whoever is waited for is higher, so of any threads one waits for none of them.
- *PolicyActivator.* Nothing is assumed of the number of workers. `TypeInv`
  includes `UniqueRows`, the primary key of the envelope table, and `Alone`, what
  the history says: a worker that is not in `beside` is the only busy one.
  `ClaimsProven` follows a claim from the order of a worker, or from what the
  schedule worker has read, to the state row, and holds whatever runs together.
  `TableSafe` is what the tables say until two operations have `overlapped`: one
  envelope is active, active and superseded ones were proven, and `TablePhase`,
  that the envelope a worker has read stays the active one until that worker
  supersedes or clears it, and none is active from then to `mark_active`. What two
  workers leave in the tables may outlast them, so this is not claimed afterwards.
  `ControlInv` needs no such past: of an operation no other ran beside,
  `ControlPhase` says that the controls before `step` are set to the revision, or
  lifted, `PackagePhase` that what is blocked and was not refused stays suspended
  while application controls release other packages, and `SettingPhase` that
  uninstalls and location are as the revision wants them, or as a clear that read
  an envelope leaves them. `ReportInv` carries this to the report, and with
  `TableSafe` it gives `ActiveIsEnforced`. The `scenario` is part of the invariants, since what
  periodic workers touch is excepted where they run.
- *PolicyContract.* `WindowOfDay` shows that "minutes since the window began,
  modulo the week, are fewer than its length" is what the device's comparison of
  minutes on a day and on the day before says, for the same day, the day before
  and any other; `MatchedIsOccupied` ties it to the server's table. Overlaps of
  equal priority were refused, so the mode of the highest priority is unique.
- *Administration.* `ThreadsOK` with `Served`, what a statement may do to the
  threads, is shared; over it `RegisterOK` (a thread about to write a device, those in
  `Claiming`, still sees it as it is, as it holds the row; one about to store the
  event of a registration holds nothing and may find the level risen, but rows
  stay and levels do not fall, `Grown`, so that what it read lies between the
  first registered level and the one there is), `CatalogueOK` (the author who numbered a revision
  holds the policy, so the number is free) and `AccountsOK` (a thread that has
  updated an account holds its row until it has revoked the sessions it found,
  and whoever logs in meanwhile waits for that row). `NoOtherDeadlock` goes the way
  of `NoDeadlock`: `LockHolders` says at which statements which rows are held, and
  who waits does so for a thread of a higher `Rank`, unless both are about the
  location of one device. `redact_retired_device` locks the device and then its
  location, `correct_location_assignment` the location and then, by the foreign
  key of the event, the device: those two may wait for each other, which
  `DeadlockVictim` ends, and no other circle closes among any number of requests.

## 5. Where the code and its documents disagree

Each is a run in which TLC finds the documented claim violated by the code.

- `activator_kept` / `LastPolicyKept`: the last activated policy is said to stay
  in force; an activation supersedes it before it sets the first control, and
  nothing is put back when a later one fails.
- `delivery_cleared` / `ClearedIsLiftedOnDevice`: removing a policy is said to
  produce `clear`; the state route has no such answer.
- `delivery_reported` / `AppliedIsReported`: the device is said to acknowledge
  what it applies; the acknowledgement lacks a key the contract requires and is
  refused whenever it is sent.
- `credentials_lineage` / `RevokedStaysOut`: a revoked device is said to be out
  at once; a rotation authenticated before rotates a superseded credential
  once more and brings the device back.
- `device_requests_dated` / `EvidenceVerifies`: the evidence of synchronizations
  is said to verify; events are dated before they wait for the chain, and the
  verifier reads them by date.

Met while reading, and not the subject of a run.

On the device:

- The audit uploads of a device are refused for ever: the first batch names an
  all-zero hash as its predecessor (`D/sync/AuditOutbox.kt:51,63`) where the server
  expects none (`B/device_audit_contract.py:324`), `occurred_at` has fractions of a
  second (`D/audit/AuditChain.kt:69`) where whole ones are required
  (`B/device_audit_contract.py:114-126`), and a refused batch stays at the head
  of the queue (`D/sync/AuditOutbox.kt:47`).
- `appendEvent` is synchronized per object (`D/audit/AuditChain.kt:65`), the
  marker of an upload is written asynchronously before the durable deletion, and
  two workers may enqueue one first sequence.
- Two sync workers at once supersede and insert side by side, and two envelopes
  are active; the immediate and the periodic work have different names
  (`D/sync/SyncScheduler.kt:23-24`). The run `activator` has a scenario with two;
  its properties of the tables end where they overlap.
- Packages Android refuses to suspend are returned by `suspendPackages`
  (`D/policy/DevicePolicyController.kt:279-284`) and dropped by `activate`
  (`D/policy/AtomicPolicyActivator.kt:83`), which reports `Active` all the same.
  `AppliedIsEnforced` therefore excepts what was refused.
- A clear that finds no active envelope passes no settings on
  (`D/policy/AtomicPolicyActivator.kt:143-148`) and leaves the uninstalls an
  earlier, failed activation has blocked (`D/policy/DevicePolicyController.kt:337-339`);
  no clear turns on the location again (`:351-366`). Both report success.
  `ClearedIsLifted` says what a clear does lift.
- The mode is resolved twice in one sync (`D/sync/SyncWorker.kt:71`,
  `D/policy/AtomicPolicyActivator.kt:73`), so that the state row may name a
  mode whose packages were not suspended; the schedule worker then sees nothing
  to change. With a schedule worker between the steps of an activation,
  `AppliedIsEnforced` does not hold, which is why it is stated without one.
- Packages a replaced policy suspended are released by nothing but the schedule
  worker or a clear; a tunnel that is up keeps the rules it started with
  (`D/vpn/EduFilteringVpnService.kt:41`). The application controls release the
  Play Store and listed file-sharing packages even if the mode blocks them.
- `network_controls`, `telephony_controls` and the `device_controls` of a mode
  are read by nothing on the device, and `exhausted_mode_id` is ignored.
- `reconcilePendingApplyAtBoot` is called from nowhere.
- The device key has one fixed alias (`D/crypto/DeviceKeyStore.kt`), and the
  fingerprint of a key is unique on the server, so a device that enrols again
  without a reset is refused by the key.

On the server:

- A wrong proof whose count fails to be committed is rolled back and answered
  like a counted one (`B/services/device_enrollment.py:460-464`); `GuessesBounded`
  adds those to the limit.
- An enrolment sets an asset to ENROLLED whatever the status of the device
  (`B/services/device_enrollment.py:298-299`), where a correction says that
  "retired devices cannot be reactivated" (`B/services/device_asset_privacy.py:83-84`).
- A revocation that waits for a rotation answers 404 although a credential is
  active (`B/services/device_enrollment.py:397-407`).
- The nonce is committed before the protected change
  (`B/services/device_authentication.py:196`); the design asks for one
  transaction (`src/backend/docs/device-enrollment-authentication-design.md:376`).
- A nonce kept exactly twice the skew may have expired in the very second in
  which its timestamp still counts; `NoReplayInWindow` excepts that second.
- A revision of the third schema ends a legacy synchronization in a `KeyError`
  without evidence (`B/services/policy_sync.py:352`), where every handled attempt
  is said to append an event (`src/backend/docs/policy-synchronization-v1.md:59`).
- A client that sends only a version is told `no_change` whenever the numbers
  agree (`B/services/policy_sync.py:181-186`).
- The usage of a day is in conflict for the rest of the day once the policy
  changes (`B/services/device_controls.py:159-164`); a device whose clock was ahead
  once has its later reports ignored (`B/services/device_status.py:106,204`).
- The guard of the last manager counts without locks
  (`B/services/administrator_authentication.py:195-213`): two managers who disable
  each other at once leave none. The command line has no such guard, and two
  bootstraps of different names may both succeed.
- A change of permissions revokes no session, which
  `administrator-authentication-design.md:106` says it does; two concurrent
  changes can merge.
- A disabling or a reset that races a login which locks the account fails on
  `ck_administrators_lifecycle`; a log out that races a disabling rolls it back.
- Policy codes are compared without a lock, and not at all for a revision; the
  check of the catalogue has no lock either, nor has that of required applications
  against an assignment; a revoked policy can be activated again.
- A redaction is said to be irreversible
  (`data-protection-and-retention.md:41`), but a correction of the retired device,
  or a new location for it, writes personal data again.
- `create_policy_revision` (`B/services/policy_revisions.py`) is called by nothing.

## 6. What is only model-checked, and what is not modelled

Every safety invariant and action property of a passing run, and the refinement, is
a theorem. Liveness (`RequestAnswered`, `RequestsEnd` twice, and
`AssignedIsEnforced`, which is all `PolicyDelivery` is asked) is checked by TLC
only, as it rests on fairness, which is out of the prover's reach. Of each
`RequestsEnd`, that nobody waits in a circle is proved (`NoDeadlock`, and
`NoOtherDeadlock`, where one circle does close and PostgreSQL ends it); that the
one who can run is served, and served in the end, is what the fairness adds.

Not modelled:

- the device's audit chain and outbox, and its enrolment bootstrap, for the
  reasons given in `PROJECT.json`;
- the document checks at the top of `activate`, which come before its first effect;
- signatures, hashes and canonical JSON, which are assumed to identify what they
  are computed from; types, lengths and formats of what requests carry;
- policies of the first schema in the catalogue; physical certification;
- Android itself, beyond that a call takes effect, throws, or refuses packages;
- violation reports, which only read, and incidents, whose changing routes answer
  410; read models, the frontend, translation, configuration, probes, migrations,
  scripts and the template app.

## 7. Plan

What would come next: the properties of the activator without the exception for
two sync workers, once the code excludes one from the other; the outbox composed
with `AuditIngestion` once the device and the contract agree on what a batch is.
