--------------------------- MODULE DeviceControls ---------------------------
(***************************************************************************)
(* The block override of a device, its usage reports and its web filter    *)
(* evidence: backend/app/services/device_controls.py and the routes of     *)
(* backend/app/routes/dpc_controls.py that change state.                   *)
(*                                                                         *)
(* Blocking locks the device row first, so a device without an override    *)
(* row is locked too; a usage report locks the row of its day only, and a  *)
(* missing row is left to the unique key.  The reason of a block and who   *)
(* ordered it are left out.                                                *)
(***************************************************************************)
EXTENDS FiniteSets, DeviceAuthentication

CONSTANTS
  Days,      \* dates of usage reports
  NoUsage,   \* no row of the day
  NoOverride \* the device was never blocked

MinutesOfDay == 1440

VARIABLES
  usage,         \* usage[d][day]: device_usage_daily
  usageSeen,     \* usageSeen[t]: the row of the day as thread t has read it
  webEvents,     \* UUIDs in device_web_filter_events
  override,      \* override[d]: device_block_overrides
  controlEvents  \* controlEvents[d]: device_control_events, oldest first

controls == <<usage, usageSeen, webEvents, override, controlEvents>>

ControlsInit ==
  /\ usage = [d \in Devices |-> [y \in Days |-> NoUsage]]
  /\ usageSeen = [t \in Threads |-> NoUsage]
  /\ webEvents = {}
  /\ override = [d \in Devices |-> NoOverride]
  /\ controlEvents = [d \in Devices |-> << >>]
-----------------------------------------------------------------------------
Row(t) == usage[DeviceOf(t)][request[t].body.day]

EndUsage(t) ==
  /\ usageSeen' = [usageSeen EXCEPT ![t] = NoUsage]
  /\ Finish(t)
  /\ UNCHANGED <<webEvents, override, controlEvents>>

\* Mutant: the minutes are not checked against the length of a day.
ReadUsageUnchecked(t) ==
  /\ pc[t] = "handle"
  /\ request[t].kind = "usage"
  /\ usageSeen' = [usageSeen EXCEPT ![t] = Row(t)]
  /\ IF Row(t) = NoUsage THEN Continue(t, "store_usage")
                         ELSE LockRow(t, <<request[t].body.day, DeviceOf(t)>>, "store_usage")
  /\ UNCHANGED <<usage, webEvents, override, controlEvents>>

\* A well-formed report; SELECT ... FOR UPDATE of its day.
ReadUsage(t) ==
  /\ pc[t] = "handle"
  /\ request[t].kind = "usage"
  /\ request[t].body.minutes \in 0 .. MinutesOfDay
  /\ usageSeen' = [usageSeen EXCEPT ![t] = Row(t)]
  /\ IF Row(t) = NoUsage THEN Continue(t, "store_usage")
                         ELSE LockRow(t, <<request[t].body.day, DeviceOf(t)>>, "store_usage")
  /\ UNCHANGED <<usage, webEvents, override, controlEvents>>

RefuseUsage(t) ==
  /\ pc[t] = "handle"
  /\ request[t].kind = "usage"
  /\ request[t].body.minutes \notin 0 .. MinutesOfDay
  /\ EndUsage(t)
  /\ UNCHANGED usage

\* The total of a day does not shrink and does not change its policy.
UsageConflicts(t) ==
  IF usageSeen[t] = NoUsage
  THEN Row(t) # NoUsage
  ELSE \/ usageSeen[t].minutes > request[t].body.minutes
       \/ usageSeen[t].policy # request[t].body.policy

\* The comparison with the row, and the commit.
StoreUsage(t) ==
  LET body == request[t].body IN
  /\ pc[t] = "store_usage"
  /\ MayReferTo(t, DeviceOf(t))
  /\ \/ UsageConflicts(t) /\ UNCHANGED usage
     \/ /\ ~ UsageConflicts(t)
        /\ usage' = [usage EXCEPT ![DeviceOf(t)][body.day] =
                       [minutes |-> body.minutes, policy |-> body.policy]]
  /\ EndUsage(t)

\* One insertion; a UUID that was used is refused like any other error.
StoreWebEvent(t) ==
  /\ pc[t] = "handle"
  /\ request[t].kind = "web_filter"
  /\ MayReferTo(t, DeviceOf(t))
  /\ webEvents' = webEvents \union {request[t].body.uuid}
  /\ Finish(t)
  /\ UNCHANGED <<usage, usageSeen, override, controlEvents>>
-----------------------------------------------------------------------------
\* An authorized administrator's request: the device row is locked.
LockForControl(t) ==
  /\ pc[t] = "handle"
  /\ request[t].kind \in {"block", "clear"}
  /\ \/ DeviceOf(t) \notin Registered /\ Finish(t)
     \/ DeviceOf(t) \in Registered /\ LockDeviceRow(t, "set_override")
  /\ UNCHANGED controls

Blocked(d) == override[d] # NoOverride /\ override[d].active

\* The row after set_block, and after clear_block.
BlockedRow(d) ==
  [version |-> IF override[d] = NoOverride THEN 1 ELSE override[d].version + 1,
   active |-> TRUE]

ClearedRow(d) == [override[d] EXCEPT !.active = FALSE]

Change(t, row) ==
  LET d == DeviceOf(t) IN
  /\ override' = [override EXCEPT ![d] = row]
  /\ controlEvents' = [controlEvents EXCEPT ![d] = Append(@, request[t].kind)]
  /\ UNCHANGED <<usage, usageSeen, webEvents>>

SetBlock(t) ==
  /\ pc[t] = "set_override"
  /\ request[t].kind = "block"
  /\ IF Blocked(DeviceOf(t)) THEN UNCHANGED controls
                             ELSE Change(t, BlockedRow(DeviceOf(t)))
  /\ Finish(t)

\* Mutant: a clear is recorded whether or not there is a block.
ClearUnasked(t) ==
  /\ pc[t] = "set_override"
  /\ request[t].kind = "clear"
  /\ IF override[DeviceOf(t)] = NoOverride THEN UNCHANGED controls
     ELSE Change(t, ClearedRow(DeviceOf(t)))
  /\ Finish(t)

ClearBlock(t) ==
  /\ pc[t] = "set_override"
  /\ request[t].kind = "clear"
  /\ IF Blocked(DeviceOf(t)) THEN Change(t, ClearedRow(DeviceOf(t)))
                             ELSE UNCHANGED controls
  /\ Finish(t)

ControlsStep(t) ==
  \/ ReadUsage(t) \/ RefuseUsage(t) \/ StoreUsage(t) \/ StoreWebEvent(t)
  \/ LockForControl(t) \/ SetBlock(t) \/ ClearBlock(t)
-----------------------------------------------------------------------------
\* The total of a day never shrinks and never changes its policy, whichever
\* reports of the day race, the first of which finds no row to lock.
UsageGrows ==
  \A d \in Devices, y \in Days :
    usage[d][y] # NoUsage =>
      /\ usage'[d][y] # NoUsage
      /\ usage'[d][y].minutes >= usage[d][y].minutes
      /\ usage'[d][y].policy = usage[d][y].policy

Count(s, x) == Cardinality({i \in 1 .. Len(s) : s[i] = x})

\* The evidence of a device replays to its override: blocks and clears take
\* turns, the last one says whether it is blocked, and the version counts the
\* blocks, which is what tells the device one block from the next.
OverrideExplained ==
  \A d \in Devices :
    LET history == controlEvents[d] IN
    /\ \A i \in 1 .. Len(history) :
          history[i] = IF i % 2 = 1 THEN "block" ELSE "clear"
    /\ IF history = << >>
       THEN override[d] = NoOverride
       ELSE override[d] = [version |-> Count(history, "block"),
                           active |-> history[Len(history)] = "block"]
=============================================================================
