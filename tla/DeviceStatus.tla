---------------------------- MODULE DeviceStatus ----------------------------
(***************************************************************************)
(* Check-ins and policy acknowledgements of devices:                       *)
(* backend/app/services/device_status.py with device_status_contract.py.   *)
(*                                                                         *)
(* Both handlers have one shape: validate, look the UUID up, insert the    *)
(* report, lock the state of the device, replace it unless the report is   *)
(* older, commit.  A state row that does not exist is not locked, so its   *)
(* primary key decides between two first reports.  The content of a report *)
(* stands for its hash; receipt times, among them devices.last_sync_at,    *)
(* are left out.                                                           *)
(***************************************************************************)
EXTENDS DeviceAuthentication

CONSTANTS
  NoReport, \* no state row
  NoPolicy, \* the report names no policy
  NoError   \* the report has no error code

StatusKinds == {"check_in", "acknowledgement"}

VARIABLES
  reports,  \* reports[k]: device_check_ins, policy_application_events
  latest,   \* latest[k][d]: the report the state row of device d holds
  seen,     \* seen[t]: the state row as thread t has read it
  receipts  \* history: the reports confirmed to their device

status == <<reports, latest, seen, receipts>>

StatusInit ==
  /\ reports = [k \in StatusKinds |-> {}]
  /\ latest = [k \in StatusKinds |-> [d \in Devices |-> NoReport]]
  /\ seen = [t \in Threads |-> NoReport]
  /\ receipts = {}
-----------------------------------------------------------------------------
CheckInStatuses == {"none", "verified", "applied", "stale", "recovery"}

AcknowledgementOutcomes ==
  {"verified", "applied", "failed", "rejected", "rolled_back", "cleared"}

\* Keys, formats and ranges aside: the members that must agree with each other.
ValidCheckIn(body) ==
  /\ body.outcome \in CheckInStatuses
  /\ body.outcome = "none" <=> body.policy = NoPolicy

ValidAcknowledgement(body) ==
  /\ body.outcome \in AcknowledgementOutcomes
  /\ body.outcome = "cleared" <=> body.policy = NoPolicy
  /\ body.outcome \in {"failed", "rejected"} <=> body.error # NoError

\* A check-in must report the Android version of the enrolment.
Admitted(t) ==
  /\ StillActive(t)
  /\ \/ Kind(t) = "check_in"
        /\ ValidCheckIn(request[t].body)
        /\ request[t].body.sameAndroid
     \/ Kind(t) = "acknowledgement" /\ ValidAcknowledgement(request[t].body)

ReportOf(t) ==
  [device |-> DeviceOf(t), credential |-> request[t].credential,
   body |-> request[t].body]

SameUuid(r, s) == r.body.uuid = s.body.uuid

Stored(t) == {r \in reports[Kind(t)] : SameUuid(r, ReportOf(t))}

\* The database reports a conflict of keys, or the handler refuses.
Refuse(t) ==
  /\ seen' = [seen EXCEPT ![t] = NoReport]
  /\ Finish(t)
  /\ UNCHANGED <<reports, latest, receipts>>

\* Mutant: the UUID alone decides what a replay is.
ReplayByUuid(t) ==
  /\ Stored(t) # {}
  /\ receipts' = receipts \union {[kind |-> Kind(t), report |-> ReportOf(t)]}
  /\ Finish(t)
  /\ UNCHANGED <<reports, latest, seen>>

\* _exact_replay: device, credential and content must be those stored.
ReplayReport(t) ==
  /\ Stored(t) # {}
  /\ receipts' = IF ReportOf(t) \in Stored(t)
                 THEN receipts \union {[kind |-> Kind(t), report |-> ReportOf(t)]}
                 ELSE receipts
  /\ Finish(t)
  /\ UNCHANGED <<reports, latest, seen>>

\* An acknowledged revision must exist.
KnownRevision(t) ==
  \/ Kind(t) = "check_in"
  \/ request[t].body.policy = NoPolicy
  \/ request[t].body.known

\* The checks before the first write, and the look-up of the UUID.
StartReport(t) ==
  /\ pc[t] = "handle"
  /\ Kind(t) \in StatusKinds
  /\ \/ ~ Admitted(t) /\ Refuse(t)
     \/ Admitted(t) /\ ReplayReport(t)
     \/ Admitted(t) /\ Stored(t) = {} /\ ~ KnownRevision(t) /\ Refuse(t)
     \/ /\ Admitted(t)
        /\ Stored(t) = {}
        /\ KnownRevision(t)
        /\ Continue(t, "insert_report")
        /\ UNCHANGED status

\* The insertion waits for one of the same UUID that is not committed yet.
InsertReport(t) ==
  /\ pc[t] = "insert_report"
  /\ MayReferTo(t, DeviceOf(t))
  /\ \A u \in Threads \ {t} :
        pc[u] \in {"read_state", "store_status"} =>
          ~ (Kind(u) = Kind(t) /\ SameUuid(ReportOf(u), ReportOf(t)))
  /\ \/ Stored(t) # {} /\ Refuse(t)
     \/ Stored(t) = {} /\ Continue(t, "read_state") /\ UNCHANGED status

\* Mutant: the state row is read without FOR UPDATE.
ReadStateUnlocked(t) ==
  /\ pc[t] = "read_state"
  /\ seen' = [seen EXCEPT ![t] = latest[Kind(t)][DeviceOf(t)]]
  /\ Continue(t, "store_status")
  /\ UNCHANGED <<reports, latest, receipts>>

\* Mutant: the device row is locked, after the report has been inserted.
ReadStateOfDevice(t) ==
  /\ pc[t] = "read_state"
  /\ seen' = [seen EXCEPT ![t] = latest[Kind(t)][DeviceOf(t)]]
  /\ LockDeviceRow(t, "store_status")
  /\ UNCHANGED <<reports, latest, receipts>>

\* SELECT state ... FOR UPDATE; a missing row is neither waited for nor locked.
ReadState(t) ==
  /\ pc[t] = "read_state"
  /\ seen' = [seen EXCEPT ![t] = latest[Kind(t)][DeviceOf(t)]]
  /\ IF latest[Kind(t)][DeviceOf(t)] = NoReport
     THEN Continue(t, "store_status")
     ELSE LockRow(t, <<Kind(t), DeviceOf(t)>>, "store_status")
  /\ UNCHANGED <<reports, latest, receipts>>

\* A report as old as the one stored replaces it.
NotOlder(t) ==
  \/ seen[t] = NoReport
  \/ request[t].body.observed >= seen[t].body.observed

\* Flush of the state row and commit.
StoreStatus(t) ==
  LET k == Kind(t)
      keyConflict == seen[t] = NoReport /\ latest[k][DeviceOf(t)] # NoReport
  IN
  /\ pc[t] = "store_status"
  /\ \/ keyConflict /\ Refuse(t)
     \/ /\ ~ keyConflict
        /\ reports' = [reports EXCEPT ![k] = @ \union {ReportOf(t)}]
        /\ latest' = IF NotOlder(t)
                     THEN [latest EXCEPT ![k][DeviceOf(t)] = ReportOf(t)]
                     ELSE latest
        /\ receipts' = receipts \union {[kind |-> k, report |-> ReportOf(t)]}
        /\ seen' = [seen EXCEPT ![t] = NoReport]
        /\ Finish(t)

StatusStep(t) ==
  StartReport(t) \/ InsertReport(t) \/ ReadState(t) \/ StoreStatus(t)
-----------------------------------------------------------------------------
\* The state kept for a device is the report that was observed last among all
\* its reports, in whatever order they arrived and whichever ran together.
StateIsLatest ==
  \A k \in StatusKinds, d \in Devices :
    LET ofDevice == {r \in reports[k] : r.device = d} IN
    IF latest[k][d] = NoReport
    THEN ofDevice = {}
    ELSE /\ latest[k][d] \in ofDevice
         /\ \A r \in ofDevice : r.body.observed <= latest[k][d].body.observed

\* A report told to be recorded is recorded with what the device sent, and a
\* UUID names one report, however often it was sent.
ReceiptsHonest ==
  /\ \A c \in receipts : c.report \in reports[c.kind]
  /\ \A k \in StatusKinds : \A r, s \in reports[k] : SameUuid(r, s) => r = s
=============================================================================
