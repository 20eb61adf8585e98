---------------------------- MODULE PolicyContract ----------------------------
(***************************************************************************)
(* What a policy may say, and what a device makes of it.                   *)
(*                                                                         *)
(* The server's side is validate_policy_v2 and validate_policy_v3 of       *)
(* backend/app/policy_contract.py and policy_contract_v3.py; the device's  *)
(* side is ScheduleResolver.kt and the order in which                      *)
(* AtomicPolicyActivator.kt applies the sections of a payload.  A payload  *)
(* is reduced to the modes with their package lists, the schedules and the *)
(* sections; a group of booleans is the set of those that are true.        *)
(* Types, lengths and formats and the administrator's notes are left out,  *)
(* and canonical_json_bytes makes equal what is equal here.                *)
(***************************************************************************)
EXTENDS Naturals, FiniteSets

CONSTANTS
  MinutesPerDay, \* 1440 in the code
  DaysPerWeek,   \* 7 in the code
  Dpc,           \* the package of the DPC
  NoSection      \* an optional section that is not there

ASSUME ContractAssumption ==
  /\ MinutesPerDay \in Nat \ {0}
  /\ DaysPerWeek \in Nat \ {0}

WeekDays == 1 .. DaysPerWeek
Minutes == 0 .. MinutesPerDay - 1
-----------------------------------------------------------------------------
(* The server *)

\* The minutes of a window, and the day each belongs to.
Wraps(s) == s.start > s.end

WindowMinutes(s) ==
  IF Wraps(s) THEN {m \in Minutes : m >= s.start \/ m < s.end}
              ELSE {m \in Minutes : s.start <= m /\ m < s.end}

ActualDay(s, day, minute) ==
  IF Wraps(s) /\ minute < s.end THEN (day % DaysPerWeek) + 1 ELSE day

Occupied(s) ==
  {<<ActualDay(s, day, minute), minute>> : day \in s.days, minute \in WindowMinutes(s)}

ValidSchedules(p) ==
  /\ \A s \in p.schedules :
       /\ s.days # {} /\ s.days \subseteq WeekDays
       /\ s.start \in Minutes /\ s.end \in Minutes /\ s.start # s.end
       /\ s.mode \in DOMAIN p.modes
  /\ \A s, o \in p.schedules : s # o =>
       /\ s.id # o.id
       /\ s.priority = o.priority => Occupied(s) \intersect Occupied(o) = {}

ValidMode(p, mode) ==
  /\ mode.allowed \intersect mode.blocked = {}
  /\ p.emergency \subseteq mode.allowed
  /\ mode.lockTask \subseteq mode.allowed

\* validate_policy_v2, the common body.
ValidBody(p) ==
  /\ p.emergency # {}
  /\ \A m \in DOMAIN p.modes : ValidMode(p, p.modes[m])
  /\ p.default \in DOMAIN p.modes
  /\ ValidSchedules(p)

ValidScreenTime(p) ==
  p.limit \in 1 .. MinutesPerDay /\ p.reset \in Minutes /\ p.exhausted \in DOMAIN p.modes

\* The web filter: identifiers are unique, and no rule is there twice.
ValidRules(p) ==
  \A r, q \in p.rules : r # q =>
    r.id # q.id /\ <<r.domain, r.action>> # <<q.domain, q.action>>

ValidNetworkControls(p) ==
  "vpn_lockdown_required" \in p.network => "always_on_filtering_vpn" \in p.network

ValidTelephonyControls(p) == "preserve_emergency_calls" \in p.telephony

\* Mutant: that both sections speak of a network reset goes unnoticed.
ResetUnchecked(p) ==
  p.settings # NoSection =>
    /\ "allow_mobile_data" \in p.settings
    /\ p.network \intersect {"wifi_only", "disallow_mobile_network_configuration"} = {}
    /\ "disallow_tethering" \in p.network <=> "allow_hotspot_creation" \notin p.settings
    /\ "disallow_user_vpn" \in p.network <=> "allow_vpn_changes" \notin p.settings

\* Network settings agree with the network controls and the restrictions.
ValidNetworkSettings(p) ==
  p.settings # NoSection =>
    /\ "allow_mobile_data" \in p.settings
    /\ p.network \intersect {"wifi_only", "disallow_mobile_network_configuration"} = {}
    /\ "disallow_tethering" \in p.network <=> "allow_hotspot_creation" \notin p.settings
    /\ "disallow_user_vpn" \in p.network <=> "allow_vpn_changes" \notin p.settings
    /\ p.restrictions # NoSection =>
         /\ "block_network_reset" \in p.restrictions <=> "allow_network_reset" \notin p.settings
         /\ "block_wifi_changes" \in p.restrictions => "allow_wifi" \in p.settings

Examination == {"disable_camera", "disable_screenshots", "disable_microphone"}

UseModes == {"normal_managed", "dedicated_learning", "examination"}

\* Kiosk and examination need what makes them work, the name of the school is
\* there only to be shown, and the DPC must be an emergency package of a policy
\* that names its applications.
ValidDeviceUse(p) ==
  p.use # NoSection =>
    /\ p.use.mode \in UseModes
    /\ p.use.school # NoSection => p.use.shown
    /\ p.use.kiosk =>
         p.applications # NoSection /\ \E a \in p.applications : a.kiosk
    /\ p.use.mode = "examination" =>
         p.restrictions # NoSection /\ Examination \subseteq p.restrictions
    /\ p.applications # NoSection => Dpc \in p.emergency

ValidApplications(p) ==
  p.applications # NoSection =>
    /\ p.applications # {}
    /\ \A a, b \in p.applications : a # b => a.uuid # b.uuid /\ a.package # b.package

ControlKeys ==
  {"allow_installation_of_other_applications", "allow_installation_from_unknown_sources",
   "allow_uninstall_of_approved_applications", "allow_disable_of_approved_applications",
   "allow_google_play_store", "allow_file_sharing_applications"}

ValidApplicationControls(p) ==
  p.controls # NoSection => p.controls.allow \subseteq ControlKeys

RestrictionKeys ==
  {"block_factory_reset", "block_safe_mode", "block_developer_options_and_debugging",
   "block_usb_file_transfer", "block_account_changes", "block_user_switching",
   "block_network_reset", "block_wifi_changes", "disable_location", "disable_camera",
   "disable_screenshots", "disable_screen_recording", "disable_microphone"}

ValidDeviceRestrictions(p) ==
  p.restrictions # NoSection => p.restrictions \subseteq RestrictionKeys

LockTimeouts == {1, 5, 10, 15, 30, 60}

ValidScreenLock(p) == p.lock # NoSection => p.lock.after \in LockTimeouts

ValidComplianceSettings(p) == p.compliance # NoSection => p.compliance.after \in 1 .. 30

OfflineRequired ==
  {"enforce_last_valid_policy_offline", "store_local_policy_copy",
   "queue_events_while_offline", "apply_policy_changes_after_reconnection"}

\* No policy expires while the device is offline.
ValidOfflineSettings(p) == p.offline # NoSection => p.offline = OfflineRequired

Management ==
  {"store_device_asset_number", "store_device_policy_version",
   "store_last_synchronisation_time", "store_compliance_result",
   "store_administrative_actions"}

\* What a learner does is not collected, and what management needs is.
ValidDataCollection(p) == p.collected # NoSection => p.collected = Management

ValidIdentity(p) == p.code = NoSection <=> p.description = NoSection

\* validate_policy_v3.
ValidPolicy(p) ==
  /\ ValidBody(p)
  /\ ValidScreenTime(p)
  /\ ValidRules(p)
  /\ ValidNetworkControls(p)
  /\ ValidTelephonyControls(p)
  /\ ValidApplications(p)
  /\ ValidApplicationControls(p)
  /\ ValidDeviceRestrictions(p)
  /\ ValidScreenLock(p)
  /\ ValidNetworkSettings(p)
  /\ ValidComplianceSettings(p)
  /\ ValidOfflineSettings(p)
  /\ ValidDataCollection(p)
  /\ ValidIdentity(p)
  /\ ValidDeviceUse(p)
-----------------------------------------------------------------------------
(* The device *)

PreviousDay(day) == IF day = 1 THEN DaysPerWeek ELSE day - 1

Matches(s, day, minute) ==
  IF s.start <= s.end
  THEN day \in s.days /\ s.start <= minute /\ minute < s.end
  ELSE \/ day \in s.days /\ minute >= s.start
       \/ PreviousDay(day) \in s.days /\ minute < s.end

\* resolveModeId: the highest priority; of equal ones the last in the order of
\* the identifiers, in which the server stores them.
ResolveMode(p, day, minute) ==
  LET matching == {s \in p.schedules : Matches(s, day, minute)} IN
  IF matching = {} THEN p.default
  ELSE (CHOOSE s \in matching : \A o \in matching \ {s} :
          s.priority > o.priority \/ (s.priority = o.priority /\ s.id > o.id)).mode

\* What the device demands of the sections before it gives effect to them
\* (ScreenLockSettings, OfflinePolicySettings, NetworkSettings, ScreenTimeSettings).
DeviceTimeouts == {1, 5, 10, 15, 30, 60}

DeviceReads(p, api) ==
  /\ p.lock # NoSection => p.lock.after \in DeviceTimeouts
  /\ p.offline # NoSection =>
       /\ OfflineRequired \subseteq p.offline
       /\ "expire_policy_when_offline" \notin p.offline
  /\ p.settings # NoSection =>
       /\ "allow_mobile_data" \in p.settings
       /\ "allow_wifi" \in p.settings \/ api >= 33
  /\ p.limit \in 1 .. MinutesPerDay /\ p.reset \in Minutes

\* What a section asks of Android (DevicePolicyController.kt, NetworkSettings.kt).
RestrictionFor ==
  [block_factory_reset |-> "factory_reset", block_safe_mode |-> "safe_boot",
   block_developer_options_and_debugging |-> "debugging_features",
   block_usb_file_transfer |-> "usb_file_transfer",
   block_account_changes |-> "modify_accounts", block_user_switching |-> "user_switch",
   block_network_reset |-> "network_reset", block_wifi_changes |-> "config_wifi",
   disable_screenshots |-> "screen_capture", disable_screen_recording |-> "screen_capture",
   disable_camera |-> "camera", disable_microphone |-> "unmute_microphone",
   disable_location |-> "config_location"]

RestrictionsOf(p) ==
  IF p.restrictions = NoSection THEN {}
  ELSE {RestrictionFor[r] : r \in p.restrictions \intersect DOMAIN RestrictionFor}

ControlsOf(p) ==
  IF p.controls = NoSection THEN {}
  ELSE {r \in {"install_apps", "install_unknown_sources", "apps_control", "bluetooth_sharing"} :
    \/ r = "install_apps" /\ "allow_installation_of_other_applications" \notin p.controls.allow
    \/ r = "install_unknown_sources" /\
         "allow_installation_from_unknown_sources" \notin p.controls.allow
    \/ r = "apps_control" /\
         "allow_disable_of_approved_applications" \notin p.controls.allow
    \/ r = "bluetooth_sharing" /\ "allow_file_sharing_applications" \notin p.controls.allow}

LockRestrictionsOf(p) ==
  IF p.lock = NoSection \/ p.lock.change THEN {} ELSE {"config_credentials"}

NetworkRestrictions == {"tethering", "vpn", "network_reset", "bluetooth", "wifi_state"}

NetworkRestrictionsOf(p) ==
  {r \in NetworkRestrictions :
     \/ r = "tethering" /\ "allow_hotspot_creation" \notin p.settings
     \/ r = "vpn" /\ "allow_vpn_changes" \notin p.settings
     \/ r = "network_reset" /\ "allow_network_reset" \notin p.settings
     \/ r = "bluetooth" /\ "allow_bluetooth" \notin p.settings
     \/ r = "wifi_state" /\ "allow_wifi" \notin p.settings}

\* activate: after all are lifted, the application controls, the device
\* restrictions, the screen lock, and over them the network settings, which set
\* or lift each restriction they know.
AndroidRestrictions(p) ==
  LET before == ControlsOf(p) \union RestrictionsOf(p) \union LockRestrictionsOf(p)
  IN  IF p.settings = NoSection THEN before
      ELSE (before \ NetworkRestrictions) \union NetworkRestrictionsOf(p)
-----------------------------------------------------------------------------
\* The minutes of a week as a reference for both sides: a window that starts on
\* a day lasts until its end, past midnight and past the end of the week.
Covers(s, time) ==
  LET week == DaysPerWeek * MinutesPerDay
      length == (s.end + MinutesPerDay - s.start) % MinutesPerDay
  IN  \E day \in s.days :
        (time + week - ((day - 1) * MinutesPerDay + s.start)) % week < length

\* At every minute the device is in the mode of the window with the highest
\* priority, of which there is one, whatever the order of the schedules.
ScheduleHonoured(p) ==
  \A day \in WeekDays, minute \in Minutes :
    LET covering == {s \in p.schedules : Covers(s, (day - 1) * MinutesPerDay + minute)}
        mode == ResolveMode(p, day, minute)
    IN IF covering = {} THEN mode = p.default
       ELSE \A s \in covering :
              (\A o \in covering \ {s} : o.priority <= s.priority) => mode = s.mode

\* What a section asks Android for.  Nothing on the device reads network_controls,
\* telephony_controls or the device_controls of a mode, which ask for nothing.
RestrictionsAsked(p) ==
  RestrictionsOf(p) \union ControlsOf(p) \union LockRestrictionsOf(p)
    \union (IF p.settings = NoSection THEN {} ELSE NetworkRestrictionsOf(p))

\* Once all sections are applied, what they ask for is in force and nothing else:
\* none undoes what another asked for.  An examination has its three restrictions.
\* The two network controls that concern tethering and VPN are in force exactly
\* when network settings come with them; by themselves they restrict nothing.
\* Wi-Fi is never both switched off and closed to changes by these settings.
SectionsHonoured(p) ==
  /\ AndroidRestrictions(p) = RestrictionsAsked(p)
  /\ p.use # NoSection /\ p.use.mode = "examination" =>
       {"camera", "screen_capture", "unmute_microphone"} \subseteq AndroidRestrictions(p)
  /\ p.settings = NoSection => {"tethering", "vpn"} \intersect AndroidRestrictions(p) = {}
  /\ p.settings # NoSection =>
       /\ "tethering" \in AndroidRestrictions(p) <=> "disallow_tethering" \in p.network
       /\ "vpn" \in AndroidRestrictions(p) <=> "disallow_user_vpn" \in p.network
       /\ ~ {"wifi_state", "config_wifi"} \subseteq AndroidRestrictions(p)

AndroidVersions == 29 .. 35

\* A device gives up on no payload for what its sections say, one whose Android
\* is too old to switch Wi-Fi off excepted.
ReadByDevices(p) == \A api \in AndroidVersions :
  (p.settings # NoSection => "allow_wifi" \in p.settings \/ api >= 33) => DeviceReads(p, api)
=============================================================================
