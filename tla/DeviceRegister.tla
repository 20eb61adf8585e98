---------------------------- MODULE DeviceRegister ----------------------------
(***************************************************************************)
(* The register of devices: a device that registers itself                 *)
(* (backend/app/services/device_registration.py), what an enrolment writes *)
(* of its row (device_enrollment.py, the rest of which is                  *)
(* CredentialLifecycle), the asset an administrator enters, corrects and   *)
(* redacts (school_device_assets.py, device_asset_privacy.py), where it is *)
(* (routes/devices.py) and the school it belongs to                        *)
(* (school_registration.py).                                               *)
(*                                                                         *)
(* An enrolment or a correction holds the row of the device and sets the   *)
(* columns that differ; a redaction holds it and deletes the locations;    *)
(* the correction of a location holds the location and then needs the      *)
(* device for the foreign key of its event.  The last two wait for each    *)
(* other, and PostgreSQL ends one.  An asset is its number; the other      *)
(* columns and the events that repeat a change are left out, as is a       *)
(* location that was returned, which no code records.                      *)
(***************************************************************************)
EXTENDS RequestThreads

CONSTANTS
  Devices,    \* device UUIDs
  Assets,     \* numbers of assets
  NoDevice,   \* no row
  NoAsset,    \* the columns of an asset are null
  NoLocation, \* no row
  NoSchool    \* no row

VARIABLES
  devices,       \* devices[d]: the row of devices
  registrations, \* registrations[d]: its device_registration_events
  location,      \* location[d]: its device_location_assignments
  school,        \* the row of schools
  deviceSeen,    \* deviceSeen[t]: the row as thread t has read it
  registered     \* history: how many were told that they registered the school

register == <<devices, registrations, location, school, deviceSeen, registered>>

RegisterInit(rows) ==
  /\ devices = rows
  /\ registrations = [d \in Devices |-> << >>]
  /\ location = [d \in Devices |-> NoLocation]
  /\ school = NoSchool
  /\ deviceSeen = [t \in Threads |-> NoDevice]
  /\ registered = 0

AssetStates ==
  {"REGISTERED", "READY_FOR_PROVISIONING", "PROVISIONING", "ENROLLED", "COMPLIANT",
   "ASSIGNED", "RETURNED", "RETIRED", "PROVISIONING_FAILED", "NON_COMPLIANT", "MISSING",
   "DAMAGED"}

DeviceRows ==
  [status : {"active", "suspended", "retired"}, api : Nat, asset : Assets \union {NoAsset},
   lifecycle : AssetStates \union {NoAsset}, aged : BOOLEAN]

\* The mark of a missing row is not a row.
ASSUME DeviceMarksAssumption == NoDevice \notin DeviceRows

DeviceRow(d) == <<"device", d>>
LocationRow(d) == <<"location", d>>
DeviceOf(t) == request[t].device

\* Mutant: the session is neither committed nor rolled back.
CloseLeakingLocks(t) ==
  /\ pc' = [pc EXCEPT ![t] = "idle"]
  /\ request' = [request EXCEPT ![t] = NoRequest]
  /\ deviceSeen' = [deviceSeen EXCEPT ![t] = NoDevice]
  /\ UNCHANGED lock

Close(t) ==
  /\ Finish(t)
  /\ deviceSeen' = [deviceSeen EXCEPT ![t] = NoDevice]

GiveUp(t) == Close(t) /\ UNCHANGED <<devices, registrations, location, school, registered>>

\* The API levels a device may be used with; a device with another one does not
\* register itself, but its asset can be entered.
SupportedApis == 29 .. 35

\* A row no asset was entered for.
NewDevice(status, api, asset, lifecycle) ==
  [status |-> status, api |-> api, asset |-> asset, lifecycle |-> lifecycle,
   aged |-> FALSE]

Event(type, stored, reported) == [type |-> type, stored |-> stored, reported |-> reported]
-----------------------------------------------------------------------------
\* _complete_existing_registration.
EventType(stored, reported) ==
  CASE stored < reported -> "upgrade_requires_authentication"
    [] stored > reported -> "downgrade_rejected"
    [] stored = reported -> "duplicate"

CompleteExisting(t) ==
  /\ deviceSeen' = [deviceSeen EXCEPT ![t] = devices[DeviceOf(t)]]
  /\ Continue(t, "store_event")
  /\ UNCHANGED <<devices, registrations, location, school, registered>>

\* register_device: the look-up, without a lock.
FindDevice(t) ==
  /\ pc[t] = "handle"
  /\ Kind(t) = "register"
  /\ \/ devices[DeviceOf(t)] # NoDevice /\ CompleteExisting(t)
     \/ /\ devices[DeviceOf(t)] = NoDevice
        /\ Continue(t, "insert_device")
        /\ UNCHANGED register

\* The event of what was read; its foreign key waits for whoever holds the device.
StoreEvent(t) ==
  LET d == DeviceOf(t)
      stored == deviceSeen[t].api
      reported == request[t].api
  IN
  /\ pc[t] = "store_event"
  /\ Free(t, DeviceRow(d))
  /\ registrations' = [registrations EXCEPT ![d] =
       Append(@, Event(EventType(stored, reported), stored, reported))]
  /\ Close(t)
  /\ UNCHANGED <<devices, location, school, registered>>

\* Mutant: the second of two insertions is stored as well.
InsertAnyway(t) ==
  LET d == DeviceOf(t) IN
  /\ pc[t] = "insert_device"
  /\ devices' = [devices EXCEPT ![d] =
       NewDevice("active", request[t].api, NoAsset, NoAsset)]
  /\ registrations' = [registrations EXCEPT ![d] =
       Append(@, Event("registered", request[t].api, request[t].api))]
  /\ Close(t)
  /\ UNCHANGED <<location, school, registered>>

\* The insertion with its event; who comes second finds the row of the first
\* (_resolve_concurrent_duplicate).
InsertDevice(t) ==
  LET d == DeviceOf(t) IN
  /\ pc[t] = "insert_device"
  /\ \/ devices[d] # NoDevice /\ CompleteExisting(t)
     \/ /\ devices[d] = NoDevice
        /\ devices' = [devices EXCEPT ![d] =
             NewDevice("active", request[t].api, NoAsset, NoAsset)]
        /\ registrations' = [registrations EXCEPT ![d] =
             Append(@, Event("registered", request[t].api, request[t].api))]
        /\ Close(t)
        /\ UNCHANGED <<location, school, registered>>
-----------------------------------------------------------------------------
\* enroll_device locks the row if there is one.  The token must be bound to the
\* device then, and to none otherwise, and the API level must not fall; what
\* else refuses an enrolment is CredentialLifecycle, so here any may be refused.
LockEnrolled(t) ==
  LET row == devices[DeviceOf(t)]
      q == request[t]
  IN
  /\ pc[t] = "handle"
  /\ Kind(t) = "enroll"
  /\ Free(t, DeviceRow(DeviceOf(t)))
  /\ \/ GiveUp(t)
     \/ row = NoDevice /\ ~ q.bound /\ Continue(t, "insert_enrolled") /\ UNCHANGED register
     \/ /\ row # NoDevice /\ q.bound /\ row.api <= q.api
        /\ LockRow(t, DeviceRow(DeviceOf(t)), "store_enrolled")
        /\ UNCHANGED register

\* A new row, without an event of registration.
InsertEnrolled(t) ==
  LET d == DeviceOf(t) IN
  /\ pc[t] = "insert_enrolled"
  /\ \/ devices[d] # NoDevice /\ GiveUp(t)
     \/ /\ devices[d] = NoDevice
        /\ devices' = [devices EXCEPT ![d] =
             NewDevice("active", request[t].api, NoAsset, NoAsset)]
        /\ Close(t)
        /\ UNCHANGED <<registrations, location, school, registered>>

\* An asset is enrolled, whatever its status.
Enrolled(row, api) ==
  [row EXCEPT !.api = api, !.lifecycle = IF row.asset = NoAsset THEN @ ELSE "ENROLLED"]

\* An existing row; columns left out here may be all that changes.
StoreEnrolled(t) ==
  LET d == DeviceOf(t) IN
  /\ pc[t] = "store_enrolled"
  /\ Free(t, DeviceRow(d))
  /\ \E aged \in {devices[d].aged, FALSE} :
       LET row == [Enrolled(devices[d], request[t].api) EXCEPT !.aged = aged] IN
       /\ aged => row = devices[d]
       /\ devices' = [devices EXCEPT ![d] = row]
  /\ Close(t)
  /\ UNCHANGED <<registrations, location, school, registered>>
-----------------------------------------------------------------------------
AssetTaken(d, asset) ==
  \E e \in Devices \ {d} : devices[e] # NoDevice /\ devices[e].asset = asset

\* register_asset: a UUID of its own, any lifecycle, a number that is free.
RegisterAsset(t) ==
  LET d == DeviceOf(t)
      q == request[t]
      status == IF q.api \in SupportedApis THEN "active" ELSE "suspended"
  IN
  /\ pc[t] = "handle"
  /\ Kind(t) = "asset"
  /\ \/ (devices[d] # NoDevice \/ AssetTaken(d, q.asset)) /\ GiveUp(t)
     \/ /\ devices[d] = NoDevice
        /\ ~ AssetTaken(d, q.asset)
        /\ devices' = [devices EXCEPT ![d] = NewDevice(status, q.api, q.asset, q.lifecycle)]
        /\ Close(t)
        /\ UNCHANGED <<registrations, location, school, registered>>

\* What correct_device_asset refuses.
Correctable(row, q) ==
  /\ row # NoDevice
  /\ row.status = "retired" => q.lifecycle = "RETIRED"
  /\ row.asset # q.asset \/ row.lifecycle # q.lifecycle

\* Mutant: the row is read, not locked.
ReadAsset(t) ==
  LET row == devices[DeviceOf(t)] IN
  /\ pc[t] = "handle"
  /\ Kind(t) = "correct"
  /\ \/ ~ Correctable(row, request[t]) /\ GiveUp(t)
     \/ /\ Correctable(row, request[t])
        /\ deviceSeen' = [deviceSeen EXCEPT ![t] = row]
        /\ Continue(t, "store_asset")
        /\ UNCHANGED <<devices, registrations, location, school, registered>>

\* correct_device_asset: SELECT ... FOR UPDATE and the checks.
LockAsset(t) ==
  LET row == devices[DeviceOf(t)] IN
  /\ pc[t] = "handle"
  /\ Kind(t) = "correct"
  /\ Free(t, DeviceRow(DeviceOf(t)))
  /\ \/ ~ Correctable(row, request[t]) /\ GiveUp(t)
     \/ /\ Correctable(row, request[t])
        /\ deviceSeen' = [deviceSeen EXCEPT ![t] = row]
        /\ LockRow(t, DeviceRow(DeviceOf(t)), "store_asset")
        /\ UNCHANGED <<devices, registrations, location, school, registered>>

\* The columns that differ from what was read, and the status of a retired one.
Corrected(row, seen, q) ==
  [row EXCEPT !.asset = IF seen.asset = q.asset THEN @ ELSE q.asset,
              !.lifecycle = IF seen.lifecycle = q.lifecycle THEN @ ELSE q.lifecycle,
              !.status = IF q.lifecycle = "RETIRED" THEN "retired" ELSE @,
              !.aged = FALSE]

StoreAsset(t) ==
  LET d == DeviceOf(t)
      q == request[t]
  IN
  /\ pc[t] = "store_asset"
  /\ Free(t, DeviceRow(d))
  /\ \/ AssetTaken(d, q.asset) /\ GiveUp(t)
     \/ /\ ~ AssetTaken(d, q.asset)
        /\ devices' = [devices EXCEPT ![d] = Corrected(@, deviceSeen[t], q)]
        /\ Close(t)
        /\ UNCHANGED <<registrations, location, school, registered>>
-----------------------------------------------------------------------------
\* DEVICE_RETENTION_DAYS go by without a change of the row.  The check-ins of an
\* active device, which change it, are left out: only a retired row is asked for
\* its age, and retiring it is a change.
Age(d) ==
  /\ devices[d] # NoDevice
  /\ ~ devices[d].aged
  /\ devices' = [devices EXCEPT ![d].aged = TRUE]
  /\ UNCHANGED <<registrations, location, school, deviceSeen, registered>>

\* redact_retired_device: SELECT ... FOR UPDATE and the checks ...
LockRetired(t) ==
  LET row == devices[DeviceOf(t)]
      redactable == /\ row # NoDevice
                    /\ row.status = "retired"
                    /\ row.lifecycle = "RETIRED"
                    /\ row.aged
  IN
  /\ pc[t] = "handle"
  /\ Kind(t) = "redact"
  /\ Free(t, DeviceRow(DeviceOf(t)))
  /\ \/ ~ redactable /\ GiveUp(t)
     \/ redactable /\ LockRow(t, DeviceRow(DeviceOf(t)), "redact") /\ UNCHANGED register

\* ... the columns are cleared and the locations deleted, each row of which
\* must be free.
Redact(t) ==
  LET d == DeviceOf(t) IN
  /\ pc[t] = "redact"
  /\ Free(t, LocationRow(d))
  /\ devices' = [devices EXCEPT ![d].asset = NoAsset,
                                ![d].aged = IF devices[d].asset = NoAsset THEN @ ELSE FALSE]
  /\ location' = [location EXCEPT ![d] = NoLocation]
  /\ Close(t)
  /\ UNCHANGED <<registrations, school, registered>>

\* create_device_location_assignment: the device is read without a lock ...
FindLocated(t) ==
  /\ pc[t] = "handle"
  /\ Kind(t) = "locate"
  /\ \/ devices[DeviceOf(t)] = NoDevice /\ GiveUp(t)
     \/ /\ devices[DeviceOf(t)] # NoDevice
        /\ Continue(t, "insert_location")
        /\ UNCHANGED register

\* uq_device_location_assignments_active_device: one that is not returned for
\* each device.
Located(d, place) ==
  IF location[d] = NoLocation THEN [location EXCEPT ![d] = place] ELSE location

\* ... and the row inserted.  The foreign key waits for whoever holds the device.
InsertLocation(t) ==
  LET d == DeviceOf(t) IN
  /\ pc[t] = "insert_location"
  /\ Free(t, DeviceRow(d))
  /\ location' = Located(d, request[t].place)
  /\ Close(t)
  /\ UNCHANGED <<devices, registrations, school, registered>>

\* correct_location_assignment: SELECT ... FOR UPDATE of the location ...
LockLocation(t) ==
  LET d == DeviceOf(t) IN
  /\ pc[t] = "handle"
  /\ Kind(t) = "relocate"
  /\ Free(t, LocationRow(d))
  /\ \/ location[d] \in {NoLocation, request[t].place} /\ GiveUp(t)
     \/ /\ location[d] \notin {NoLocation, request[t].place}
        /\ LockRow(t, LocationRow(d), "store_location")
        /\ UNCHANGED register

\* ... and the event, whose foreign key needs the device.
StoreLocation(t) ==
  LET d == DeviceOf(t) IN
  /\ pc[t] = "store_location"
  /\ Free(t, DeviceRow(d))
  /\ location' = [location EXCEPT ![d] = request[t].place]
  /\ Close(t)
  /\ UNCHANGED <<devices, registrations, school, registered>>

\* A redaction and a correction of the location wait for each other.
Deadlocked(t, u) ==
  /\ pc[t] = "redact"
  /\ pc[u] = "store_location"
  /\ lock[DeviceRow(DeviceOf(t))] = t /\ lock[LocationRow(DeviceOf(t))] = u
  /\ DeviceOf(t) = DeviceOf(u)

\* PostgreSQL rolls one of them back.
DeadlockVictim(t) ==
  /\ \E u \in Threads : Deadlocked(t, u) \/ Deadlocked(u, t)
  /\ GiveUp(t)
-----------------------------------------------------------------------------
\* The one row of schools, whose singleton_key and name are never null.
Founded == school # NoSchool

\* register_school: a row that is not there is not locked ...
FindSchool(t) ==
  /\ pc[t] = "handle"
  /\ Kind(t) = "school"
  /\ \/ Founded /\ GiveUp(t)
     \/ ~ Founded /\ Continue(t, "insert_school") /\ UNCHANGED register

\* ... and uq_schools_singleton refuses the second.
InsertSchool(t) ==
  /\ pc[t] = "insert_school"
  /\ \/ Founded /\ GiveUp(t)
     \/ /\ ~ Founded
        /\ school' = request[t].name
        /\ registered' = registered + 1
        /\ Close(t)
        /\ UNCHANGED <<devices, registrations, location>>

\* update_school.
UpdateSchool(t) ==
  /\ pc[t] = "handle"
  /\ Kind(t) = "update_school"
  /\ school' = IF Founded THEN request[t].name ELSE NoSchool
  /\ Close(t)
  /\ UNCHANGED <<devices, registrations, location, registered>>

RegisterStep(t) ==
  \/ FindDevice(t) \/ InsertDevice(t) \/ StoreEvent(t)
  \/ LockEnrolled(t) \/ InsertEnrolled(t) \/ StoreEnrolled(t)
  \/ RegisterAsset(t) \/ LockAsset(t)
  \/ StoreAsset(t) \/ LockRetired(t) \/ Redact(t) \/ FindLocated(t)
  \/ InsertLocation(t) \/ LockLocation(t) \/ StoreLocation(t) \/ DeadlockVictim(t)
  \/ FindSchool(t) \/ InsertSchool(t) \/ UpdateSchool(t)
-----------------------------------------------------------------------------
\* No correction brings a retired device back, whatever it read before the device
\* was retired: only an enrolment changes what its lifecycle says, to "ENROLLED".
RetiredIsFinal ==
  \A d \in Devices :
    devices[d] # NoDevice /\ devices[d].status = "retired" =>
      devices[d].lifecycle \in {"RETIRED", "ENROLLED"}

\* One device, one registration: the log of a device that registered itself
\* starts with the event that created its row and no other claims to have; each
\* later one compares what was reported with a level the row has had since, which
\* enrolments only raise; one school was registered.
RegistrationExplained ==
  /\ \A d \in Devices : \A i \in DOMAIN registrations[d] :
       LET e == registrations[d][i]
           first == registrations[d][1]
       IN
       /\ e.type = "registered" => i = 1
       /\ first.type = "registered" => first.stored <= e.stored
       /\ e.stored <= devices[d].api
       /\ e.type # "registered" => e.type = EventType(e.stored, e.reported)
  /\ registered <= 1
=============================================================================
