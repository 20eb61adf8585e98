-------------------------- MODULE Administration_proofs --------------------------
(***************************************************************************)
(* Proofs about Administration, for any accounts, sessions, policies,      *)
(* devices, requests and number of threads, and about the payloads of its  *)
(* policies.                                                               *)
(*                                                                         *)
(* The first part is about PolicyContract: every policy the server accepts *)
(* is honoured by the device.  The two sides state a window in different   *)
(* arithmetic: the device compares minutes on a day and on the day before, *)
(* the reference counts minutes modulo the week.  WindowOfDay shows that   *)
(* they agree for every day the window may have begun on: the same day,    *)
(* the day before, any other day.  Overlaps of equal priority were         *)
(* refused, so the choice is unique.                                       *)
(*                                                                         *)
(* The second part is about the actions.  Accounts, catalogue and register *)
(* share the threads and their locks and nothing else, so each has an      *)
(* invariant of its own over ThreadsOK.  Served says what a statement of a *)
(* thread may do to the threads; with it a step of one part leaves the     *)
(* invariant of another in force without looking at the step (the lemmas   *)
(* named ...Quiet).  This module has the threads and the register          *)
(* (RegisterOK); AdministrationSafety_proofs the catalogue (CatalogueOK)   *)
(* and the accounts (AccountsOK).                                          *)
(***************************************************************************)
EXTENDS Administration, Integers, FiniteSetTheorems, TLAPS

-----------------------------------------------------------------------------
(* The payloads of policies.                                                *)

USE ContractAssumption

Week == DaysPerWeek * MinutesPerDay

\* The products of the day numbers, which the provers do not work out themselves.
LEMMA Products ==
  ASSUME NEW k \in Nat, k < DaysPerWeek
  PROVE  /\ k * MinutesPerDay \in Nat
         /\ k * MinutesPerDay + MinutesPerDay <= Week
         /\ k >= 1 => k * MinutesPerDay >= MinutesPerDay
         /\ k >= 2 => k * MinutesPerDay >= 2 * MinutesPerDay
         /\ k + 2 <= DaysPerWeek => k * MinutesPerDay + 2 * MinutesPerDay <= Week
         /\ k + 1 = DaysPerWeek => k * MinutesPerDay + MinutesPerDay = Week
<1> DEFINE m == MinutesPerDay
<1>1. PICK j \in Nat : DaysPerWeek = k + 1 + j
  <2>1. DaysPerWeek - (k + 1) \in Nat OBVIOUS
  <2> QED BY <2>1
<1>2. Week = k * m + m + j * m
  BY <1>1, SMT DEF Week
<1>3. j * m \in Nat /\ k * m \in Nat
  BY <1>1, SMT
<1>4. k >= 1 => k * m >= m
  BY SMT
<1>5. k >= 2 => k * m >= 2 * m
  BY SMT
<1>6. j >= 1 => j * m >= m
  BY <1>1, SMT
<1>7. j = 0 => j * m = 0
  BY <1>1, SMT
<1> HIDE DEF Week
<1> QED BY <1>1, <1>2, <1>3, <1>4, <1>5, <1>6, <1>7

LEMMA Remainder ==
  ASSUME NEW n \in Nat \ {0}, NEW x \in Nat, x < 2 * n
  PROVE  x % n = IF x < n THEN x ELSE x - n
  BY SMT

\* How long a window lasts, as Covers computes it.
Length(s) == (s.end + MinutesPerDay - s.start) % MinutesPerDay

ValidWindow(s) ==
  s.start \in Minutes /\ s.end \in Minutes /\ s.start # s.end /\ s.days \subseteq WeekDays

LEMMA WindowLength ==
  ASSUME NEW s, ValidWindow(s)
  PROVE  Length(s) = IF s.start < s.end THEN s.end - s.start
                     ELSE s.end + MinutesPerDay - s.start
<1> DEFINE x == s.end + MinutesPerDay - s.start
<1>1. s.start \in Nat /\ s.end \in Nat /\ s.start < MinutesPerDay /\ s.end < MinutesPerDay
  BY DEF ValidWindow, Minutes
<1>2. x \in Nat /\ x < 2 * MinutesPerDay
  BY <1>1
<1>3. x % MinutesPerDay = IF x < MinutesPerDay THEN x ELSE x - MinutesPerDay
  BY <1>2, Remainder
<1> QED BY <1>1, <1>3 DEF Length, ValidWindow

\* The window that began on day d is open, in the terms of the device ...
StartedOn(s, d, day, minute) ==
  \/ d = day /\ minute >= s.start /\ (s.start < s.end => minute < s.end)
  \/ d = PreviousDay(day) /\ s.start > s.end /\ minute < s.end

\* ... and how many minutes ago it began, in the terms of the week.
Elapsed(s, d, day, minute) ==
  ((day - 1) * MinutesPerDay + minute + Week - ((d - 1) * MinutesPerDay + s.start)) % Week

\* In whole numbers: a window of the same day, of the day before, of another day.
LEMMA SameDay ==
  ASSUME NEW start \in Nat, NEW end \in Nat, NEW minute \in Nat, NEW day \in Nat \ {0},
         start < day, end < day, minute < day, start # end
  PROVE  LET length == IF start < end THEN end - start ELSE end + day - start IN
         /\ minute >= start =>
              (minute - start < length <=> (start < end => minute < end))
         /\ minute + day - start < length <=> start > end /\ minute < end
         /\ \A more \in Nat : ~ minute + 2 * day + more - start < length
  OBVIOUS

\* The two agree.
LEMMA WindowOfDay ==
  ASSUME NEW s, ValidWindow(s), NEW d \in WeekDays, NEW day \in WeekDays, NEW minute \in Minutes
  PROVE  Elapsed(s, d, day, minute) < Length(s) <=> StartedOn(s, d, day, minute)
<1> DEFINE x == (day - 1) * MinutesPerDay + minute + Week
                  - ((d - 1) * MinutesPerDay + s.start)
           e == Elapsed(s, d, day, minute)
<1>1. /\ s.start \in Nat /\ s.end \in Nat /\ s.start < MinutesPerDay /\ s.end < MinutesPerDay
      /\ s.start # s.end /\ minute \in Nat /\ minute < MinutesPerDay
      /\ d \in Nat /\ day \in Nat /\ d >= 1 /\ day >= 1 /\ d <= DaysPerWeek /\ day <= DaysPerWeek
      /\ MinutesPerDay \in Nat \ {0} /\ DaysPerWeek \in Nat \ {0}
  BY DEF ValidWindow, Minutes, WeekDays
<1>2. /\ Week \in Nat \ {0} /\ Week >= MinutesPerDay
      /\ DaysPerWeek = 1 => Week = MinutesPerDay
      /\ DaysPerWeek >= 2 => Week >= 2 * MinutesPerDay
  <2>1. Week \in Nat /\ (DaysPerWeek = 1 => Week = MinutesPerDay)
    BY SMT DEF Week
  <2>2. /\ 0 \in Nat /\ 0 * MinutesPerDay + MinutesPerDay <= Week
        /\ DaysPerWeek >= 2 => 0 * MinutesPerDay + 2 * MinutesPerDay <= Week
    BY Products
  <2>3. 0 * MinutesPerDay = 0
    BY <1>1
  <2> QED BY <1>1, <2>1, <2>2, <2>3
<1>3. e = x % Week
  BY DEF Elapsed
<1>4. ASSUME x \in Nat, x < 2 * Week
      PROVE  e = IF x < Week THEN x ELSE x - Week
  BY <1>2, <1>3, <1>4, Remainder
<1> DEFINE length == IF s.start < s.end THEN s.end - s.start
                     ELSE s.end + MinutesPerDay - s.start
<1>5. Length(s) = length
  BY WindowLength
<1>6. /\ minute >= s.start =>
           (minute - s.start < length <=> (s.start < s.end => minute < s.end))
      /\ minute + MinutesPerDay - s.start < length <=> s.start > s.end /\ minute < s.end
      /\ \A more \in Nat : ~ minute + 2 * MinutesPerDay + more - s.start < length
  BY <1>1, SameDay
<1>7. (day - 1) * MinutesPerDay \in Int /\ (d - 1) * MinutesPerDay \in Int
  BY <1>1, SMT
<1> HIDE DEF e, length
<1> SUFFICES e < length <=> StartedOn(s, d, day, minute)
  BY <1>5 DEF e
<1>8. CASE d = day
  <2>1. x = minute + Week - s.start
    BY <1>1, <1>2, <1>7, <1>8
  <2> HIDE DEF x
  <2>2. e = IF minute < s.start THEN minute + Week - s.start ELSE minute - s.start
    BY <1>1, <1>2, <1>4, <2>1
  <2>3. d = PreviousDay(day) <=> DaysPerWeek = 1
    BY <1>1, <1>8 DEF PreviousDay
  <2>4. CASE minute >= s.start
    BY <1>1, <1>6, <1>8, <2>2, <2>4 DEF StartedOn
  <2>5. CASE minute < s.start /\ DaysPerWeek = 1
    BY <1>1, <1>2, <1>6, <1>8, <2>2, <2>3, <2>5 DEF StartedOn
  <2>6. CASE minute < s.start /\ DaysPerWeek # 1
    <3>1. PICK more \in Nat : Week = 2 * MinutesPerDay + more
      <4>1. Week - 2 * MinutesPerDay \in Nat BY <1>1, <1>2, <2>6
      <4> QED BY <1>1, <1>2, <4>1
    <3>2. e = minute + 2 * MinutesPerDay + more - s.start
      BY <1>1, <2>2, <2>6, <3>1
    <3> QED BY <1>1, <1>6, <1>8, <2>3, <2>6, <3>2 DEF StartedOn
  <2> QED BY <1>1, <2>4, <2>5, <2>6
<1>9. CASE d < day
  <2> DEFINE k == day - d
             p == k * MinutesPerDay
  <2>1. k \in Nat /\ k >= 1 /\ k < DaysPerWeek
    BY <1>1, <1>9
  <2>2. /\ p \in Nat /\ p + MinutesPerDay <= Week /\ p >= MinutesPerDay
        /\ k >= 2 => p >= 2 * MinutesPerDay
    BY <2>1, Products
  <2>3. k = 1 => p = MinutesPerDay
    BY <1>1, <2>1
  <2>4. x = p + minute + Week - s.start
    <3>1. (day - 1) * MinutesPerDay - (d - 1) * MinutesPerDay = p BY <1>1, SMT
    <3> HIDE DEF p
    <3> QED BY <1>1, <1>2, <1>7, <2>2, <3>1
  <2>5. d = PreviousDay(day) <=> k = 1
    BY <1>1, <1>9 DEF PreviousDay
  <2> HIDE DEF x, p, k
  <2>6. e = minute + p - s.start
    BY <1>1, <1>2, <1>4, <2>2, <2>4
  <2>7. CASE k = 1
    BY <1>1, <1>6, <1>9, <2>3, <2>5, <2>6, <2>7 DEF StartedOn
  <2>8. CASE k # 1
    <3>1. PICK more \in Nat : p = 2 * MinutesPerDay + more
      <4>1. p - 2 * MinutesPerDay \in Nat BY <1>1, <2>1, <2>2, <2>8
      <4> QED BY <1>1, <2>2, <4>1
    <3>2. e = minute + 2 * MinutesPerDay + more - s.start
      BY <1>1, <2>6, <3>1
    <3> QED BY <1>1, <1>6, <1>9, <2>5, <2>8, <3>2 DEF StartedOn
  <2> QED BY <2>7, <2>8
<1>10. CASE day < d
  <2> DEFINE k == d - day
             p == k * MinutesPerDay
  <2>1. k \in Nat /\ k >= 1 /\ k < DaysPerWeek
    BY <1>1, <1>10
  <2>2. /\ p \in Nat /\ p + MinutesPerDay <= Week /\ p >= MinutesPerDay
        /\ k + 2 <= DaysPerWeek => p + 2 * MinutesPerDay <= Week
        /\ k + 1 = DaysPerWeek => p + MinutesPerDay = Week
    BY <2>1, Products
  <2>4. x = minute + Week - s.start - p
    <3>1. (d - 1) * MinutesPerDay - (day - 1) * MinutesPerDay = p BY <1>1, SMT
    <3> HIDE DEF p
    <3> QED BY <1>1, <1>2, <1>7, <2>2, <3>1
  <2>5. d = PreviousDay(day) <=> k + 1 = DaysPerWeek
    BY <1>1, <1>10 DEF PreviousDay
  <2>6. k + 1 # DaysPerWeek => k + 2 <= DaysPerWeek
    BY <1>1, <2>1
  <2> HIDE DEF x, p, k
  <2>7. e = minute + (Week - p) - s.start
    BY <1>1, <1>2, <1>4, <2>2, <2>4
  <2>8. CASE k + 1 = DaysPerWeek
    <3>1. Week - p = MinutesPerDay
      BY <1>1, <1>2, <2>2, <2>8
    <3> QED BY <1>1, <1>6, <1>10, <2>5, <2>7, <2>8, <3>1 DEF StartedOn
  <2>9. CASE k + 1 # DaysPerWeek
    <3>1. PICK more \in Nat : Week - p = 2 * MinutesPerDay + more
      <4>1. Week - p - 2 * MinutesPerDay \in Nat BY <1>1, <1>2, <2>2, <2>6, <2>9
      <4> QED BY <1>1, <1>2, <2>2, <4>1
    <3>2. e = minute + 2 * MinutesPerDay + more - s.start
      BY <1>1, <2>7, <3>1
    <3> QED BY <1>1, <1>6, <1>10, <2>5, <2>9, <3>2 DEF StartedOn
  <2> QED BY <2>8, <2>9
<1> QED BY <1>1, <1>8, <1>9, <1>10

\* The device matches a window at the minutes the window means.
LEMMA MatchedIsCovered ==
  ASSUME NEW s, ValidWindow(s), NEW day \in WeekDays, NEW minute \in Minutes
  PROVE  Matches(s, day, minute) <=> Covers(s, (day - 1) * MinutesPerDay + minute)
<1>1. Covers(s, (day - 1) * MinutesPerDay + minute)
        <=> \E d \in s.days : Elapsed(s, d, day, minute) < Length(s)
  BY DEF Covers, Elapsed, Length, Week
<1>2. \A d \in s.days : Elapsed(s, d, day, minute) < Length(s) <=> StartedOn(s, d, day, minute)
  BY WindowOfDay DEF ValidWindow
<1>3. Matches(s, day, minute) <=> \E d \in s.days : StartedOn(s, d, day, minute)
  BY DEF Matches, StartedOn, ValidWindow, Minutes
<1> QED BY <1>1, <1>2, <1>3

\* ... and these are the minutes the server books for it.
LEMMA MatchedIsOccupied ==
  ASSUME NEW s, ValidWindow(s), NEW day \in WeekDays, NEW minute \in Minutes,
         Matches(s, day, minute)
  PROVE  <<day, minute>> \in Occupied(s)
<1>0. s.start \in Nat /\ s.end \in Nat /\ minute \in Nat /\ s.start # s.end
      /\ day \in Nat /\ day >= 1 /\ day <= DaysPerWeek /\ DaysPerWeek \in Nat
  BY DEF ValidWindow, Minutes, WeekDays
<1>1. CASE day \in s.days /\ minute \in WindowMinutes(s) /\ ActualDay(s, day, minute) = day
  BY <1>1 DEF Occupied
<1>2. CASE /\ PreviousDay(day) \in s.days /\ minute \in WindowMinutes(s)
           /\ ActualDay(s, PreviousDay(day), minute) = day
  BY <1>2 DEF Occupied
<1>3. CASE s.start < s.end
  BY <1>0, <1>1, <1>3 DEF Matches, WindowMinutes, ActualDay, Wraps
<1>4. CASE s.start > s.end /\ minute < s.end
  <2>1. PreviousDay(day) \in s.days
    BY <1>0, <1>4 DEF Matches
  <2>2. (PreviousDay(day) % DaysPerWeek) + 1 = day
    <3>1. CASE day = 1
      <4>1. DaysPerWeek % DaysPerWeek = 0 BY <1>0, SMT
      <4> QED BY <3>1, <4>1 DEF PreviousDay
    <3>2. CASE day # 1
      <4>1. (day - 1) % DaysPerWeek = day - 1 BY <1>0, <3>2, SMT
      <4> QED BY <1>0, <3>2, <4>1 DEF PreviousDay
    <3> QED BY <3>1, <3>2
  <2> QED BY <1>0, <1>2, <1>4, <2>1, <2>2 DEF WindowMinutes, ActualDay, Wraps
<1>5. CASE s.start > s.end /\ minute >= s.end
  BY <1>0, <1>1, <1>5 DEF Matches, WindowMinutes, ActualDay, Wraps
<1> QED BY <1>0, <1>3, <1>4, <1>5

\* Of a policy the server accepts, the device is at every minute of the week in
\* the mode of the covering window with the highest priority: validate_policy_v2
\* and resolveModeId agree on what a window is, also past midnight and past the
\* end of the week, for days and weeks of any length.
THEOREM SchedulesAreHonoured ==
  ASSUME NEW p, ValidPolicy(p), \A s \in p.schedules : s.priority \in Int
  PROVE  ScheduleHonoured(p)
<1>1. /\ \A s \in p.schedules : ValidWindow(s)
      /\ \A s, o \in p.schedules :
           s # o /\ s.priority = o.priority => Occupied(s) \intersect Occupied(o) = {}
  BY DEF ValidPolicy, ValidBody, ValidSchedules, ValidWindow
<1> SUFFICES ASSUME NEW day \in WeekDays, NEW minute \in Minutes
             PROVE LET covering == {s \in p.schedules : Covers(s, (day - 1) * MinutesPerDay + minute)}
                       mode == ResolveMode(p, day, minute)
                   IN IF covering = {} THEN mode = p.default
                      ELSE \A s \in covering :
                        (\A o \in covering \ {s} : o.priority <= s.priority) => mode = s.mode
  BY DEF ScheduleHonoured
<1> DEFINE covering == {s \in p.schedules : Covers(s, (day - 1) * MinutesPerDay + minute)}
           matching == {s \in p.schedules : Matches(s, day, minute)}
           First(s) == \A o \in matching \ {s} :
             s.priority > o.priority \/ (s.priority = o.priority /\ s.id > o.id)
<1>2. covering = matching
  BY <1>1, MatchedIsCovered
<1>3. \A s, o \in matching : s # o => s.priority # o.priority
  <2> SUFFICES ASSUME NEW s \in matching, NEW o \in matching, s # o, s.priority = o.priority
               PROVE FALSE
    OBVIOUS
  <2>1. <<day, minute>> \in Occupied(s) /\ <<day, minute>> \in Occupied(o)
    BY <1>1, MatchedIsOccupied
  <2> QED BY <1>1, <2>1
<1>4. ASSUME NEW s \in matching, \A o \in matching \ {s} : o.priority <= s.priority
      PROVE  ResolveMode(p, day, minute) = s.mode
  <2>1. First(s)
    BY <1>3, <1>4
  <2>2. ASSUME NEW o \in matching, First(o), o # s
        PROVE  FALSE
    <3>1. o.priority \in Int /\ s.priority \in Int
      BY <2>2
    <3>2. s.priority > o.priority
      BY <1>3, <1>4, <2>2, <3>1
    <3>3. o.priority >= s.priority
      BY <2>2, <3>1
    <3> QED BY <3>1, <3>2, <3>3
  <2>3. (CHOOSE o \in matching : First(o)) = s
    BY <2>1, <2>2
  <2>4. matching # {}
    BY <1>4
  <2> QED BY <2>3, <2>4 DEF ResolveMode
<1>5. matching = {} => ResolveMode(p, day, minute) = p.default
  BY DEF ResolveMode
<1> QED BY <1>2, <1>4, <1>5

\* Of a policy the server accepts, no section undoes what another asks Android
\* for, and network controls are those of the network settings, without which
\* they restrict nothing: validate_policy_v3 against the order of the sections in
\* activate.
THEOREM SectionsAreHonoured ==
  ASSUME NEW p, ValidPolicy(p)
  PROVE  SectionsHonoured(p)
<1>0. /\ LockRestrictionsOf(p) \intersect NetworkRestrictions = {}
      /\ ControlsOf(p) \intersect NetworkRestrictions = {}
      /\ RestrictionsOf(p) \intersect NetworkRestrictions \subseteq {"network_reset"}
  <2>1. LockRestrictionsOf(p) \intersect NetworkRestrictions = {}
    BY DEF LockRestrictionsOf, NetworkRestrictions
  <2>2. ControlsOf(p) \intersect NetworkRestrictions = {}
    BY DEF ControlsOf, NetworkRestrictions
  <2>3. RestrictionsOf(p) \intersect NetworkRestrictions \subseteq {"network_reset"}
    BY DEF RestrictionsOf, RestrictionFor, NetworkRestrictions
  <2> QED BY <2>1, <2>2, <2>3
<1>1. AndroidRestrictions(p) = RestrictionsAsked(p)
  <2>1. CASE p.settings = NoSection
    BY <2>1 DEF AndroidRestrictions, RestrictionsAsked
  <2>2. CASE p.settings # NoSection
    <3>1. "network_reset" \in RestrictionsOf(p) =>
             p.restrictions # NoSection /\ "block_network_reset" \in p.restrictions
      BY DEF RestrictionsOf, RestrictionFor
    <3>2. "network_reset" \in RestrictionsOf(p) => "network_reset" \in NetworkRestrictionsOf(p)
      BY <2>2, <3>1 DEF ValidPolicy, ValidNetworkSettings, NetworkRestrictionsOf, NetworkRestrictions
    <3> QED BY <1>0, <2>2, <3>2 DEF AndroidRestrictions, RestrictionsAsked
  <2> QED BY <2>1, <2>2
<1>2. p.use # NoSection /\ p.use.mode = "examination" =>
       {"camera", "screen_capture", "unmute_microphone"} \subseteq RestrictionsOf(p)
  <2> SUFFICES ASSUME p.use # NoSection, p.use.mode = "examination"
               PROVE  {"camera", "screen_capture", "unmute_microphone"} \subseteq RestrictionsOf(p)
    OBVIOUS
  <2>1. p.restrictions # NoSection /\ Examination \subseteq p.restrictions
    BY DEF ValidPolicy, ValidDeviceUse
  <2>2. /\ RestrictionFor["disable_camera"] = "camera"
        /\ RestrictionFor["disable_screenshots"] = "screen_capture"
        /\ RestrictionFor["disable_microphone"] = "unmute_microphone"
        /\ Examination \subseteq DOMAIN RestrictionFor
    BY DEF RestrictionFor, Examination
  <2> QED BY <2>1, <2>2 DEF Examination, RestrictionsOf
<1>3. p.settings # NoSection =>
       /\ "tethering" \in AndroidRestrictions(p) <=> "disallow_tethering" \in p.network
       /\ "vpn" \in AndroidRestrictions(p) <=> "disallow_user_vpn" \in p.network
  BY DEF ValidPolicy, ValidNetworkSettings, AndroidRestrictions, NetworkRestrictions,
         NetworkRestrictionsOf
<1>5. p.settings = NoSection => {"tethering", "vpn"} \intersect AndroidRestrictions(p) = {}
  BY <1>0 DEF AndroidRestrictions, NetworkRestrictions
<1>4. p.settings # NoSection => ~ {"wifi_state", "config_wifi"} \subseteq AndroidRestrictions(p)
  <2> SUFFICES ASSUME p.settings # NoSection, "wifi_state" \in AndroidRestrictions(p)
               PROVE  "config_wifi" \notin AndroidRestrictions(p)
    OBVIOUS
  <2>1. "allow_wifi" \notin p.settings
    BY DEF AndroidRestrictions, NetworkRestrictions, NetworkRestrictionsOf
  <2>2. p.restrictions # NoSection => "block_wifi_changes" \notin p.restrictions
    BY <2>1 DEF ValidPolicy, ValidNetworkSettings
  <2>3. "config_wifi" \notin RestrictionsOf(p)
    BY <2>2 DEF RestrictionsOf, RestrictionFor
  <2>4. "config_wifi" \notin ControlsOf(p) /\ "config_wifi" \notin LockRestrictionsOf(p)
    BY DEF ControlsOf, LockRestrictionsOf
  <2> QED BY <2>3, <2>4 DEF AndroidRestrictions, NetworkRestrictions, NetworkRestrictionsOf
<1>6. p.use # NoSection /\ p.use.mode = "examination" =>
       {"camera", "screen_capture", "unmute_microphone"} \subseteq AndroidRestrictions(p)
  BY <1>1, <1>2 DEF RestrictionsAsked
<1> QED BY <1>1, <1>3, <1>4, <1>5, <1>6 DEF SectionsHonoured

\* Of a policy the server accepts, there is no section on which the device gives
\* up: validate_policy_v3 against what the settings of the device require.
THEOREM AcceptedIsRead ==
  ASSUME NEW p, ValidPolicy(p)
  PROVE  ReadByDevices(p)
<1>1. p.lock # NoSection => p.lock.after \in DeviceTimeouts
  BY DEF ValidPolicy, ValidScreenLock, LockTimeouts, DeviceTimeouts
<1>2. p.offline # NoSection =>
        OfflineRequired \subseteq p.offline /\ "expire_policy_when_offline" \notin p.offline
  BY DEF ValidPolicy, ValidOfflineSettings, OfflineRequired
<1>3. p.settings # NoSection => "allow_mobile_data" \in p.settings
  BY DEF ValidPolicy, ValidNetworkSettings
<1>4. p.limit \in 1 .. MinutesPerDay /\ p.reset \in Minutes
  BY DEF ValidPolicy, ValidScreenTime
<1> QED BY <1>1, <1>2, <1>3, <1>4 DEF ReadByDevices, DeviceReads

HIDE ContractAssumption

-----------------------------------------------------------------------------
(* The threads.                                                             *)

AccountLabels ==
  {"load", "permit", "log_out", "find", "count", "update", "sessions", "commit",
   "replace", "create"}

PolicyLabels ==
  {"check_code", "store_policy", "lock_policy", "check_required", "number",
   "store_revision"}

DeviceLabels ==
  {"insert_device", "store_event", "insert_enrolled", "store_enrolled", "store_asset", "redact",
   "insert_location", "store_location", "insert_school"}

Labels == {"idle", "handle"} \union AccountLabels \union PolicyLabels \union DeviceLabels

\* The requests that come to a statement.
Fits(q, label) ==
  /\ label \in {"load", "permit", "log_out"} => q.session \in Sessions
  /\ label = "log_out" => q.kind = "logout"
  /\ label = "find" => q.kind \in ManagementKinds \ {"create"}
  /\ label = "count" => q.kind \in {"disable", "permissions"}
  /\ label = "update" => q.kind \in {"disable", "reset"}
  /\ label = "replace" => q.kind = "permissions"
  /\ label \in {"sessions", "commit"} => q.kind \in {"disable", "reset", "revoke"}
  /\ label = "create" => q.kind \in {"create", "bootstrap"}
  /\ label \in {"check_code", "store_policy"} => q.kind = "policy"
  /\ label \in {"lock_policy", "check_required", "number", "store_revision"} =>
       q.kind = "revision"
  /\ label \in {"insert_device", "store_event"} => q.kind = "register"
  /\ label \in {"insert_enrolled", "store_enrolled"} => q.kind = "enroll"
  /\ label = "store_asset" => q.kind = "correct"
  /\ label = "redact" => q.kind = "redact"
  /\ label = "insert_location" => q.kind = "locate"
  /\ label = "store_location" => q.kind = "relocate"
  /\ label = "insert_school" => q.kind = "school"

ThreadsOK ==
  /\ workload \in Workloads
  /\ pc \in [Threads -> Labels]
  /\ request \in [Threads -> workload.requests \union {NoRequest}]
  /\ \A t \in Threads : pc[t] = "idle" <=> request[t] = NoRequest
  /\ lock \in [Rows -> Threads \union {NoThread}]
  /\ \A t \in Threads : pc[t] # "idle" => Fits(request[t], pc[t])

\* What a step of thread t leaves to the other threads.
Others(t) ==
  \A u \in Threads \ {t} :
    /\ pc'[u] = pc[u] /\ request'[u] = request[u]
    /\ \A r \in Rows : lock'[r] = u <=> lock[r] = u

\* A statement of a part with these labels: the end of the request, or the next
\* statement, perhaps with a row locked.
Served(t, labels) ==
  /\ pc[t] \in labels \union {"handle"}
  /\ \/ Finish(t)
     \/ \E label \in labels \union {"handle"} :
          /\ Fits(request[t], label)
          /\ Goto(t, label)
          /\ UNCHANGED request
          /\ \/ UNCHANGED lock
             \/ \E r \in Rows : Free(t, r) /\ lock' = [lock EXCEPT ![r] = t]

Parts == {AccountLabels, PolicyLabels, DeviceLabels}

LEMMA Asked ==
  ASSUME ThreadsOK, NEW t \in Threads, pc[t] # "idle"
  PROVE  request[t] \in Requests /\ request[t] \in workload.requests
BY DEF ThreadsOK, Requests

LEMMA ServedKept ==
  ASSUME ThreadsOK, NEW t \in Threads, NEW labels \in Parts, Served(t, labels),
         UNCHANGED workload
  PROVE  /\ ThreadsOK'
         /\ Others(t)
         /\ pc'[t] \in labels \union {"idle", "handle"}
         /\ pc'[t] # "idle" => request'[t] = request[t]
         /\ pc[t] # "idle"
<1> USE DEF ThreadsOK
<1>1. labels \union {"idle", "handle"} \subseteq Labels /\ "idle" \notin labels
  BY DEF Parts, Labels, AccountLabels, PolicyLabels, DeviceLabels
<1>2. pc[t] # "idle" /\ request[t] \in workload.requests
  BY <1>1, Asked DEF Served
<1>3. CASE Finish(t)
  BY <1>1, <1>2, <1>3, ThreadsAssumption DEF Finish, Others
<1>4. ASSUME NEW label \in labels \union {"handle"}, Fits(request[t], label), Goto(t, label),
             UNCHANGED request,
             \/ UNCHANGED lock
             \/ \E r \in Rows : Free(t, r) /\ lock' = [lock EXCEPT ![r] = t]
      PROVE  /\ ThreadsOK' /\ Others(t) /\ pc'[t] = label
  <2>1. pc' = [pc EXCEPT ![t] = label] /\ label \in Labels /\ label # "idle"
    BY <1>1, <1>4 DEF Goto
  <2>2. lock' \in [Rows -> Threads \union {NoThread}]
    BY <1>4
  <2>3. \A u \in Threads \ {t} : \A r \in Rows : lock'[r] = u <=> lock[r] = u
    BY <1>4, ThreadsAssumption DEF Free
  <2>4. Others(t)
    BY <1>4, <2>1, <2>3 DEF Others
  <2>5. \A u \in Threads : pc'[u] # "idle" => Fits(request[u], pc'[u])
    BY <1>4, <2>1
  <2>6. (\A u \in Threads : pc[u] # "idle" => Fits(request[u], pc[u]))'
    BY <1>4, <2>5 DEF Fits
  <2>7. \A u \in Threads : pc'[u] = "idle" <=> request'[u] = NoRequest
    BY <1>2, <1>4, <2>1
  <2> QED BY <1>4, <2>1, <2>2, <2>4, <2>6, <2>7
<1> QED BY <1>1, <1>2, <1>3, <1>4 DEF Served, Finish

LEMMA Ends ==
  ASSUME NEW t \in Threads, NEW labels, pc[t] \in labels \union {"handle"}, Finish(t)
  PROVE  Served(t, labels)
BY DEF Served

LEMMA Continues ==
  ASSUME NEW t \in Threads, NEW labels, pc[t] \in labels \union {"handle"},
         NEW label \in labels \union {"handle"}, Fits(request[t], label), Continue(t, label)
  PROVE  Served(t, labels)
BY DEF Served, Continue

LEMMA Locks ==
  ASSUME NEW t \in Threads, NEW labels, pc[t] \in labels \union {"handle"},
         NEW label \in labels \union {"handle"}, Fits(request[t], label),
         NEW r \in Rows, LockRow(t, r, label)
  PROVE  Served(t, labels)
BY DEF Served, LockRow

LEMMA RowsLockable ==
  /\ \A a \in Administrators : AccountRow(a) \in Rows
  /\ \A p \in Policies : PolicyRow(p) \in Rows
  /\ \A d \in Devices : DeviceRow(d) \in Rows /\ LocationRow(d) \in Rows
BY RowsAssumption DEF AccountRow, PolicyRow, DeviceRow, LocationRow

\* What is known of the request of a busy thread.
LEMMA Parsed ==
  ASSUME ThreadsOK, NEW t \in Threads, pc[t] # "idle"
  PROVE  /\ Fits(request[t], pc[t])
         /\ Kind(t) \in Kinds
         /\ request[t].session \in Sessions \union {NoSession}
         /\ Kind(t) \in ManagementKinds \union {"login", "bootstrap"} => Target(t) \in Administrators
         /\ Kind(t) \in {"reset", "create", "bootstrap"} => request[t].newPassword \in Passwords
         /\ Kind(t) = "permissions" => request[t].permissions \subseteq Permissions
         /\ Kind(t) \in PolicyKinds =>
              /\ {"schedules", "applications", "controls", "use"} \subseteq DOMAIN request[t].payload
              /\ \A s \in request[t].payload.schedules : s.priority \in Nat
         /\ Kind(t) \in {"revision", "lifecycle"} => request[t].policy \in Policies
         /\ Kind(t) = "lifecycle" => request[t].status \in Lifecycles
         /\ Kind(t) \in DeviceKinds => DeviceOf(t) \in Devices
         /\ Kind(t) \in {"register", "enroll", "asset"} => request[t].api \in Nat
         /\ Kind(t) \in {"asset", "correct"} =>
              request[t].asset \in Assets /\ request[t].lifecycle \in AssetStates
         /\ Kind(t) \in SchoolKinds => request[t].name # NoSchool
<1>1. request[t] \in Requests
  BY Asked
<1>2. Fits(request[t], pc[t])
  BY DEF ThreadsOK
<1> QED BY <1>1, <1>2, RequestsAssumption DEF Kind, Target, DeviceOf, OwnKinds

LEMMA AccountServed ==
  ASSUME ThreadsOK, NEW t \in Threads, AccessStep(t) \/ AccountStep(t)
  PROVE  Served(t, AccountLabels)
<1>1. ASSUME EndRequest(t), pc[t] \in AccountLabels \union {"handle"}
      PROVE  Served(t, AccountLabels)
  BY <1>1, Ends DEF EndRequest
<1>2. ASSUME Fail(t), pc[t] \in AccountLabels \union {"handle"}
      PROVE  Served(t, AccountLabels)
  BY <1>1, <1>2 DEF Fail
<1>3. pc[t] # "idle" => Fits(request[t], pc[t])
  BY DEF ThreadsOK
<1>4. CASE LoadContext(t)
  <2>1. pc[t] = "load" /\ request[t].session \in Sessions
    BY <1>3, <1>4 DEF LoadContext, Fits
  <2>2. pc[t] \in AccountLabels
    BY <2>1 DEF AccountLabels
  <2>3. CASE Fail(t)
    BY <1>2, <2>2, <2>3
  <2>4. CASE Continue(t, IF Kind(t) = "logout" THEN "log_out" ELSE "permit")
    <3> DEFINE label == IF Kind(t) = "logout" THEN "log_out" ELSE "permit"
    <3>1. Fits(request[t], label) /\ label \in AccountLabels
      BY <2>1 DEF Fits, Kind, AccountLabels
    <3> QED BY <2>2, <2>4, <3>1, Continues
  <2> QED BY <1>4, <2>3, <2>4 DEF LoadContext
<1>5. CASE Permit(t)
  <2>1. pc[t] = "permit" /\ pc[t] \in AccountLabels /\ Fits(request[t], "handle")
    BY <1>5 DEF Permit, AccountLabels, Fits
  <2> QED BY <1>2, <1>5, <2>1, Continues DEF Permit
<1>6. CASE Login(t)
  <2>1. ASSUME NEW row, LoginWith(t, row)
        PROVE  Fail(t) \/ EndRequest(t)
    BY <2>1 DEF LoginWith, Refused, LoggedIn
  <2> QED BY <1>1, <1>2, <1>6, <2>1 DEF Login
<1>7. CASE Logout(t)
  BY <1>1, <1>2, <1>7 DEF Logout, AccountLabels
<1>8. CASE Authorize(t)
  <2>1. Kind(t) = "create" => Fits(request[t], "create")
    BY DEF Fits, Kind
  <2>2. Kind(t) # "create" => Fits(request[t], "find")
    BY <1>8 DEF Authorize, Fits, Kind
  <2>3. {"create", "find"} \subseteq AccountLabels
    BY DEF AccountLabels
  <2> QED BY <1>2, <1>8, <2>1, <2>2, <2>3, Continues DEF Authorize
<1>9. CASE Find(t)
  <2>1. pc[t] = "find" /\ pc[t] \in AccountLabels
    BY <1>9 DEF Find, AccountLabels
  <2>2. Kind(t) \in {"disable", "reset", "revoke", "permissions"}
    BY <1>3, <2>1 DEF Fits, Kind, ManagementKinds
  <2>3. ASSUME NEW row
        PROVE  NextStatement(t, row) \in AccountLabels /\ Fits(request[t], NextStatement(t, row))
    <3>1. CASE Kind(t) = "disable"
      <4>1. NextStatement(t, row) \in {"count", "update"}
        BY <3>1 DEF NextStatement
      <4> QED BY <3>1, <4>1 DEF Fits, Kind, AccountLabels
    <3>2. CASE Kind(t) = "permissions"
      <4>1. NextStatement(t, row) \in {"count", "replace"}
        BY <3>2 DEF NextStatement
      <4> QED BY <3>2, <4>1 DEF Fits, Kind, AccountLabels
    <3>3. CASE Kind(t) = "revoke"
      <4>1. NextStatement(t, row) = "sessions"
        BY <3>3 DEF NextStatement
      <4> QED BY <3>3, <4>1 DEF Fits, Kind, AccountLabels
    <3>4. CASE Kind(t) = "reset"
      <4>1. NextStatement(t, row) = "update"
        BY <3>4 DEF NextStatement
      <4> QED BY <3>4, <4>1 DEF Fits, Kind, AccountLabels
    <3> QED BY <2>2, <3>1, <3>2, <3>3, <3>4
  <2> QED BY <1>2, <1>9, <2>1, <2>3, Continues DEF Find
<1>10. CASE CountManagers(t)
  <2> DEFINE label == IF Kind(t) = "disable" THEN "update" ELSE "replace"
  <2>1. pc[t] = "count" /\ pc[t] \in AccountLabels
    BY <1>10 DEF CountManagers, AccountLabels
  <2>2. Kind(t) \in {"disable", "permissions"}
    BY <1>3, <2>1 DEF Fits, Kind
  <2>3. label \in AccountLabels /\ Fits(request[t], label)
    BY <2>2 DEF Fits, Kind, AccountLabels
  <2> HIDE DEF label
  <2>4. Fail(t) \/ Continue(t, label)
    BY <1>10 DEF CountManagers, label
  <2> QED BY <1>2, <2>1, <2>3, <2>4, Continues
<1>11. CASE UpdateAccount(t)
  <2>1. pc[t] = "update" /\ {"update", "sessions"} \subseteq AccountLabels
    BY <1>11 DEF UpdateAccount, AccountLabels
  <2>2. Kind(t) \in {"disable", "reset"} /\ Fits(request[t], "sessions")
    BY <1>3, <2>1 DEF Fits, Kind
  <2>3. AccountRow(Target(t)) \in Rows
    BY <2>1, <2>2, Parsed, RowsLockable DEF ManagementKinds
  <2> QED BY <1>2, <1>11, <2>1, <2>2, <2>3, Locks DEF UpdateAccount
<1>12. CASE ReadSessions(t)
  <2>1. pc[t] = "sessions" /\ {"sessions", "commit"} \subseteq AccountLabels
    BY <1>12 DEF ReadSessions, AccountLabels
  <2>2. Fits(request[t], "commit")
    BY <1>3, <2>1 DEF Fits
  <2> QED BY <1>12, <2>1, <2>2, Continues DEF ReadSessions
<1>13. CASE RevokeSessions(t)
  BY <1>1, <1>2, <1>13 DEF RevokeSessions, AccountLabels
<1>14. CASE ReplacePermissions(t)
  BY <1>1, <1>2, <1>14 DEF ReplacePermissions, AccountLabels
<1>15. CASE Create(t)
  BY <1>1, <1>2, <1>15 DEF Create, AccountLabels
<1>16. CASE Bootstrap(t)
  <2>1. Fits(request[t], "create") /\ "create" \in AccountLabels
    BY <1>16 DEF Bootstrap, Fits, Kind, AccountLabels
  <2> QED BY <1>2, <1>16, <2>1, Continues DEF Bootstrap
<1> QED
  BY <1>4, <1>5, <1>6, <1>7, <1>8, <1>9, <1>10, <1>11, <1>12, <1>13, <1>14, <1>15, <1>16
  DEF AccessStep, AccountStep

LEMMA PolicyServed ==
  ASSUME ThreadsOK, NEW t \in Threads, NEW name, CatalogueStep(t, name)
  PROVE  Served(t, PolicyLabels)
<1>1. ASSUME Leave(t), pc[t] \in PolicyLabels \union {"handle"}
      PROVE  Served(t, PolicyLabels)
  BY <1>1, Ends DEF Leave
<1>2. ASSUME Refuse(t), pc[t] \in PolicyLabels \union {"handle"}
      PROVE  Served(t, PolicyLabels)
  BY <1>1, <1>2 DEF Refuse
<1>3. pc[t] # "idle" => Fits(request[t], pc[t])
  BY DEF ThreadsOK
<1>4. CASE Materialize(t, name)
  <2> DEFINE label == IF Kind(t) = "policy" THEN "check_code" ELSE "lock_policy"
  <2>1. pc[t] = "handle" /\ label \in PolicyLabels /\ Fits(request[t], label)
    BY <1>4 DEF Materialize, PolicyKinds, PolicyLabels, Fits, Kind
  <2> HIDE DEF label
  <2>2. Refuse(t) \/ Continue(t, label)
    BY <1>4 DEF Materialize, label
  <2> QED BY <1>2, <2>1, <2>2, Continues
<1>5. CASE CheckCode(t)
  <2>1. pc[t] = "check_code" /\ {"check_code", "store_policy"} \subseteq PolicyLabels
    BY <1>5 DEF CheckCode, PolicyLabels
  <2>2. Fits(request[t], "store_policy")
    BY <1>3, <2>1 DEF Fits
  <2> QED BY <1>2, <1>5, <2>1, <2>2, Continues DEF CheckCode
<1>6. CASE StorePolicy(t)
  BY <1>1, <1>6 DEF StorePolicy, PolicyLabels
<1>7. CASE LockPolicy(t)
  <2>1. pc[t] = "lock_policy" /\ {"lock_policy", "check_required"} \subseteq PolicyLabels
    BY <1>7 DEF LockPolicy, PolicyLabels
  <2>2. Fits(request[t], "check_required") /\ Kind(t) = "revision"
    BY <1>3, <2>1 DEF Fits, Kind
  <2>3. PolicyRow(request[t].policy) \in Rows
    BY <2>1, <2>2, Parsed, RowsLockable
  <2> QED BY <1>2, <1>7, <2>1, <2>2, <2>3, Locks DEF LockPolicy
<1>8. CASE CheckRequired(t)
  <2>1. pc[t] = "check_required" /\ {"check_required", "number"} \subseteq PolicyLabels
    BY <1>8 DEF CheckRequired, PolicyLabels
  <2>2. Fits(request[t], "number")
    BY <1>3, <2>1 DEF Fits
  <2> QED BY <1>2, <1>8, <2>1, <2>2, Continues DEF CheckRequired
<1>9. CASE Number(t)
  <2>1. pc[t] = "number" /\ {"number", "store_revision"} \subseteq PolicyLabels
    BY <1>9 DEF Number, PolicyLabels
  <2>2. Fits(request[t], "store_revision")
    BY <1>3, <2>1 DEF Fits
  <2> QED BY <1>9, <2>1, <2>2, Continues DEF Number
<1>10. CASE StoreRevision(t)
  BY <1>1, <1>10 DEF StoreRevision, PolicyLabels
<1>11. CASE SetLifecycle(t)
  BY <1>1, <1>11 DEF SetLifecycle
<1>12. CASE UpdateApplication(t)
  BY <1>1, <1>12 DEF UpdateApplication
<1> QED
  BY <1>4, <1>5, <1>6, <1>7, <1>8, <1>9, <1>10, <1>11, <1>12 DEF CatalogueStep

LEMMA DeviceServed ==
  ASSUME ThreadsOK, NEW t \in Threads, RegisterStep(t)
  PROVE  Served(t, DeviceLabels)
<1>1. ASSUME Close(t), pc[t] \in DeviceLabels \union {"handle"}
      PROVE  Served(t, DeviceLabels)
  BY <1>1, Ends DEF Close
<1>2. ASSUME GiveUp(t), pc[t] \in DeviceLabels \union {"handle"}
      PROVE  Served(t, DeviceLabels)
  BY <1>1, <1>2 DEF GiveUp
<1>3. ASSUME CompleteExisting(t), pc[t] \in DeviceLabels \union {"handle"}, Kind(t) = "register"
      PROVE  Served(t, DeviceLabels)
  <2>1. Fits(request[t], "store_event") /\ "store_event" \in DeviceLabels
    BY <1>3 DEF Fits, Kind, DeviceLabels
  <2> QED BY <1>3, <2>1, Continues DEF CompleteExisting
<1>4. CASE FindDevice(t)
  <2>1. /\ Fits(request[t], "insert_device") /\ "insert_device" \in DeviceLabels
        /\ pc[t] = "handle" /\ Kind(t) = "register"
    BY <1>4 DEF FindDevice, Fits, Kind, DeviceLabels
  <2> QED BY <1>3, <1>4, <2>1, Continues DEF FindDevice
<1>5. CASE InsertDevice(t)
  <2>1. pc[t] = "insert_device" /\ "insert_device" \in DeviceLabels /\ Kind(t) = "register"
    BY <1>5, Parsed DEF InsertDevice, DeviceLabels, Fits, Kind
  <2> QED BY <1>1, <1>3, <1>5, <2>1 DEF InsertDevice
<1>6. CASE RegisterAsset(t)
  BY <1>1, <1>2, <1>6 DEF RegisterAsset
<1>7. CASE LockAsset(t)
  <2>1. /\ Fits(request[t], "store_asset") /\ "store_asset" \in DeviceLabels
        /\ pc[t] = "handle" /\ Kind(t) = "correct"
    BY <1>7 DEF LockAsset, Fits, Kind, DeviceLabels
  <2>2. DeviceRow(DeviceOf(t)) \in Rows
    BY <2>1, Parsed, RowsLockable DEF DeviceKinds
  <2> QED BY <1>2, <1>7, <2>1, <2>2, Locks DEF LockAsset
<1>8. CASE StoreAsset(t)
  BY <1>1, <1>2, <1>8 DEF StoreAsset, DeviceLabels
<1>9. CASE LockRetired(t)
  <2>1. /\ Fits(request[t], "redact") /\ "redact" \in DeviceLabels
        /\ pc[t] = "handle" /\ Kind(t) = "redact"
    BY <1>9 DEF LockRetired, Fits, Kind, DeviceLabels
  <2>2. DeviceRow(DeviceOf(t)) \in Rows
    BY <2>1, Parsed, RowsLockable DEF DeviceKinds
  <2> QED BY <1>2, <1>9, <2>1, <2>2, Locks DEF LockRetired
<1>10. CASE Redact(t)
  BY <1>1, <1>10 DEF Redact, DeviceLabels
<1>11. CASE FindLocated(t)
  <2>1. /\ Fits(request[t], "insert_location") /\ "insert_location" \in DeviceLabels
        /\ pc[t] = "handle"
    BY <1>11 DEF FindLocated, Fits, Kind, DeviceLabels
  <2> QED BY <1>2, <1>11, <2>1, Continues DEF FindLocated
<1>12. CASE InsertLocation(t)
  BY <1>1, <1>12 DEF InsertLocation, DeviceLabels
<1>13. CASE LockLocation(t)
  <2>1. /\ Fits(request[t], "store_location") /\ "store_location" \in DeviceLabels
        /\ pc[t] = "handle" /\ Kind(t) = "relocate"
    BY <1>13 DEF LockLocation, Fits, Kind, DeviceLabels
  <2>2. LocationRow(DeviceOf(t)) \in Rows
    BY <2>1, Parsed, RowsLockable DEF DeviceKinds
  <2> QED BY <1>2, <1>13, <2>1, <2>2, Locks DEF LockLocation
<1>14. CASE StoreLocation(t)
  BY <1>1, <1>14 DEF StoreLocation, DeviceLabels
<1>15. CASE DeadlockVictim(t)
  BY <1>2, <1>15 DEF DeadlockVictim, Deadlocked, DeviceLabels
<1>16. CASE FindSchool(t)
  <2>1. /\ Fits(request[t], "insert_school") /\ "insert_school" \in DeviceLabels
        /\ pc[t] = "handle"
    BY <1>16 DEF FindSchool, Founded, Fits, Kind, DeviceLabels
  <2> QED BY <1>2, <1>16, <2>1, Continues DEF FindSchool
<1>17. CASE InsertSchool(t)
  BY <1>1, <1>2, <1>17 DEF InsertSchool, DeviceLabels
<1>18. CASE UpdateSchool(t)
  BY <1>1, <1>18 DEF UpdateSchool
<1>19. CASE StoreEvent(t)
  BY <1>1, <1>19 DEF StoreEvent, DeviceLabels
<1>20. CASE LockEnrolled(t)
  <2>1. /\ Fits(request[t], "insert_enrolled") /\ "insert_enrolled" \in DeviceLabels
        /\ Fits(request[t], "store_enrolled") /\ "store_enrolled" \in DeviceLabels
        /\ pc[t] = "handle" /\ Kind(t) = "enroll"
    BY <1>20 DEF LockEnrolled, Fits, Kind, DeviceLabels
  <2>2. DeviceRow(DeviceOf(t)) \in Rows
    BY <2>1, Parsed, RowsLockable DEF DeviceKinds
  <2>3. \/ GiveUp(t) \/ Continue(t, "insert_enrolled")
        \/ LockRow(t, DeviceRow(DeviceOf(t)), "store_enrolled")
    BY <1>20 DEF LockEnrolled
  <2> QED BY <1>2, <2>1, <2>2, <2>3, Continues, Locks
<1>21. CASE InsertEnrolled(t)
  BY <1>1, <1>2, <1>21 DEF InsertEnrolled, DeviceLabels
<1>22. CASE StoreEnrolled(t)
  BY <1>1, <1>22 DEF StoreEnrolled, DeviceLabels
<1> QED
  BY <1>4, <1>5, <1>6, <1>7, <1>8, <1>9, <1>10, <1>11, <1>12, <1>13, <1>14, <1>15, <1>16,
     <1>17, <1>18, <1>19, <1>20, <1>21, <1>22 DEF RegisterStep

\* A request that arrives leaves everything but its thread alone.
LEMMA Received ==
  ASSUME ThreadsOK, NEW t \in Threads, Receive(t)
  PROVE  /\ ThreadsOK' /\ Others(t)
         /\ pc[t] = "idle" /\ pc'[t] \in {"handle", "find", "load"}
         /\ UNCHANGED <<administration, catalogue, register, workload>>
<1> USE DEF ThreadsOK
<1>1. PICK q \in workload.requests :
        /\ pc[t] = "idle"
        /\ request' = [request EXCEPT ![t] = q]
        /\ Goto(t, IF q.kind \in OwnKinds THEN "handle" ELSE FirstStatement(q))
        /\ UNCHANGED <<lock, administration, catalogue, register, workload>>
  BY DEF Receive
<1> DEFINE label == IF q.kind \in OwnKinds THEN "handle" ELSE FirstStatement(q)
<1>2. q \in Requests /\ q # NoRequest
  BY RequestsAssumption DEF Requests
<1>3. q.session = NoSession =>
        q.kind \in ManagementKinds \union {"login", "bootstrap"} \union OwnKinds
  BY <1>2, RequestsAssumption
<1>4. q.session \in Sessions \union {NoSession}
  BY <1>2, RequestsAssumption
<1>5. \/ label = "handle"
      \/ label = "find" /\ q.kind \in ManagementKinds \ {"create"}
      \/ label = "load" /\ q.session \in Sessions
  <2>1. CASE q.kind \in {"login", "bootstrap"} \union OwnKinds
    BY <2>1 DEF FirstStatement
  <2>2. CASE q.kind \notin {"login", "bootstrap"} \union OwnKinds /\ q.session = NoSession
    <3>1. q.kind \in ManagementKinds
      BY <1>3, <2>2
    <3>2. CASE q.kind = "create"
      BY <2>2, <3>2 DEF FirstStatement, ManagementKinds
    <3>3. CASE q.kind # "create"
      BY <2>2, <3>1, <3>3 DEF FirstStatement, ManagementKinds
    <3> QED BY <3>2, <3>3
  <2>3. CASE q.kind \notin {"login", "bootstrap"} \union OwnKinds /\ q.session # NoSession
    BY <1>4, <2>3 DEF FirstStatement
  <2> QED BY <2>1, <2>2, <2>3
<1>6. label \in {"handle", "find", "load"} /\ label \in Labels /\ label # "idle"
  BY <1>5 DEF Labels, AccountLabels
<1>7. Fits(q, label)
  BY <1>5, <1>6 DEF Fits
<1>8. pc' = [pc EXCEPT ![t] = label]
  BY <1>1 DEF Goto
<1> HIDE DEF label
<1>9. Others(t)
  BY <1>1, <1>8 DEF Others
<1>10. pc' \in [Threads -> Labels] /\ pc'[t] = label
  BY <1>6, <1>8
<1>11. request' \in [Threads -> workload.requests \union {NoRequest}] /\ request'[t] = q
  BY <1>1
<1>12. \A u \in Threads : pc'[u] = "idle" <=> request'[u] = NoRequest
  BY <1>1, <1>2, <1>6, <1>8
<1>13. \A u \in Threads : pc'[u] # "idle" => Fits(request'[u], pc'[u])
  BY <1>1, <1>7, <1>8
<1>14. (\A u \in Threads : pc[u] # "idle" => Fits(request[u], pc[u]))'
  BY <1>13 DEF Fits
<1>15. ThreadsOK'
  BY <1>1, <1>10, <1>11, <1>12, <1>14
<1> QED BY <1>1, <1>6, <1>9, <1>10, <1>15

LEMMA Aborted ==
  ASSUME ThreadsOK, NEW t \in Threads, Abort(t)
  PROVE  ThreadsOK' /\ Others(t) /\ pc'[t] = "idle"
<1> USE DEF ThreadsOK
<1>1. Finish(t) /\ UNCHANGED workload
  BY DEF Abort
<1>2. "idle" \in Labels
  BY DEF Labels
<1>3. Others(t)
  BY <1>1, ThreadsAssumption DEF Finish, Others
<1>4. \A u \in Threads : pc'[u] # "idle" => pc'[u] = pc[u] /\ request'[u] = request[u]
  BY <1>1 DEF Finish
<1>5. (\A u \in Threads : pc[u] # "idle" => Fits(request[u], pc[u]))'
  BY <1>4 DEF Fits
<1>6. /\ pc' \in [Threads -> Labels]
      /\ request' \in [Threads -> workload.requests \union {NoRequest}]
      /\ \A u \in Threads : pc'[u] = "idle" <=> request'[u] = NoRequest
      /\ lock' \in [Rows -> Threads \union {NoThread}]
  BY <1>1, <1>2 DEF Finish
<1> QED BY <1>1, <1>3, <1>5, <1>6 DEF Finish

\* The threads as a whole.
LEMMA ThreadsKept ==
  ASSUME ThreadsOK, [Next]_vars
  PROVE  ThreadsOK'
<1>1. ASSUME UNCHANGED <<threads, workload>>
      PROVE  ThreadsOK'
  BY <1>1 DEF ThreadsOK, threads, Fits
<1>2. ASSUME NEW t \in Threads, ThreadStep(t)
      PROVE  ThreadsOK'
  <2>1. CASE AdministratorStep(t)
    BY <2>1, AccountServed, ServedKept DEF AdministratorStep, Parts
  <2>2. CASE PolicyStep(t)
    BY <2>2, PolicyServed, ServedKept DEF PolicyStep, Parts
  <2>3. CASE DeviceStep(t)
    BY <2>3, DeviceServed, ServedKept DEF DeviceStep, Parts
  <2> QED BY <1>2, <2>1, <2>2, <2>3 DEF ThreadStep
<1> QED BY <1>1, <1>2, Received, Aborted DEF Next, vars

LEMMA ThreadsStart == Init => ThreadsOK
BY DEF Init, ThreadsInit, ThreadsOK, Labels

-----------------------------------------------------------------------------
(* The register of devices *)

RegistrationEvents ==
  [type : {"registered", "duplicate", "upgrade_requires_authentication", "downgrade_rejected"},
   stored : Nat, reported : Nat]

\* The statements of which something is claimed.
Claiming == {"store_event", "store_enrolled", "store_asset", "redact"}

\* The API level that a device registered itself with, 0 if it did not.
Level(d) ==
  IF registrations[d] # << >> /\ registrations[d][1].type = "registered"
    THEN registrations[d][1].stored ELSE 0

\* A thread that is about to change a row holds it; a correction knows the
\* lifecycle the row still has and was let through with the status it has; an
\* event reports a level between the first and the present one.
AssetHeld(t) ==
  LET d == DeviceOf(t) IN
  /\ pc[t] \in Claiming => devices[d] # NoDevice
  /\ pc[t] \in Claiming \ {"store_event"} => lock[DeviceRow(d)] = t
  /\ pc[t] = "store_asset" =>
       /\ deviceSeen[t].lifecycle = devices[d].lifecycle
       /\ devices[d].status = "retired" => request[t].lifecycle = "RETIRED"
  /\ pc[t] = "store_enrolled" => devices[d].api <= request[t].api
  /\ pc[t] = "store_event" =>
       /\ deviceSeen[t] # NoDevice
       /\ Level(d) <= deviceSeen[t].api
       /\ deviceSeen[t].api <= devices[d].api

\* An event explains itself.
Explained(d, i) ==
  LET e == registrations[d][i] IN
  /\ e.type = "registered" => i = 1
  /\ Level(d) <= e.stored
  /\ e.stored <= devices[d].api
  /\ e.type # "registered" => e.type = EventType(e.stored, e.reported)

\* The rows, apart from the threads.
RowsOK ==
  /\ devices \in [Devices -> DeviceRows \union {NoDevice}]
  /\ registrations \in [Devices -> Seq(RegistrationEvents)]
  /\ registered \in 0 .. 1
  /\ school = NoSchool => registered = 0
  /\ \A d \in Devices : devices[d] = NoDevice => registrations[d] = << >>
  /\ RetiredIsFinal
  /\ \A d \in Devices : \A i \in DOMAIN registrations[d] : Explained(d, i)

RegisterOK ==
  /\ RowsOK
  /\ deviceSeen \in [Threads -> DeviceRows \union {NoDevice}]
  /\ \A t \in Threads : AssetHeld(t)

\* Rows stay, and their levels do not fall.
Grown(d) ==
  devices[d] # NoDevice =>
    /\ devices'[d] # NoDevice
    /\ devices[d].api <= devices'[d].api
    /\ Level(d)' = Level(d)

\* What a step of thread t makes of the rows: they grow, and those that others
\* hold are left alone.
DevicesLeft(t) ==
  \A d \in Devices :
    /\ Grown(d)
    /\ \A u \in Threads \ {t} :
         devices[d] # NoDevice /\ lock[DeviceRow(d)] = u => devices'[d] = devices[d]

LEMMA LevelTyped ==
  ASSUME RowsOK, NEW d \in Devices
  PROVE  Level(d) \in Nat
<1>1. registrations[d] \in Seq(RegistrationEvents)
  BY DEF RowsOK
<1>2. \A e \in RegistrationEvents : e.stored \in Nat
  BY DEF RegistrationEvents
<1>3. registrations[d] # << >> => registrations[d][1] \in RegistrationEvents
  BY <1>1
<1> QED BY <1>2, <1>3 DEF Level

LEMMA ApiTyped == \A row \in DeviceRows : row.api \in Nat
BY DEF DeviceRows

LEMMA LevelBelow ==
  ASSUME RowsOK, NEW d \in Devices, devices[d] # NoDevice
  PROVE  Level(d) <= devices[d].api /\ devices[d].api <= devices[d].api
<1>1. devices[d].api \in Nat /\ Level(d) \in Nat
  BY LevelTyped, ApiTyped DEF RowsOK
<1>2. CASE registrations[d] # << >> /\ registrations[d][1].type = "registered"
  <2>1. 1 \in DOMAIN registrations[d]
    BY <1>2 DEF RowsOK
  <2> QED BY <1>1, <1>2, <2>1 DEF RowsOK, Explained, Level
<1>3. CASE ~ (registrations[d] # << >> /\ registrations[d][1].type = "registered")
  BY <1>1, <1>3 DEF Level
<1> QED BY <1>2, <1>3

\* The school is none of the devices' business.
LEMMA SchoolRows ==
  ASSUME RowsOK, UNCHANGED devices, UNCHANGED registrations,
         registered' \in 0 .. 1, school' = NoSchool => registered' = 0
  PROVE  RowsOK' /\ \A d \in Devices : Grown(d)
<1>1. \A d \in Devices : Level(d)' = Level(d)
  BY DEF Level
<1>2. \A d \in Devices : \A k \in DOMAIN registrations[d] : Explained(d, k)'
  BY <1>1 DEF RowsOK, Explained, EventType
<1>3. RowsOK'
  BY <1>2 DEF RowsOK, RetiredIsFinal
<1>4. ASSUME NEW d \in Devices, devices[d] # NoDevice PROVE devices[d].api \in Nat
  BY <1>4, ApiTyped DEF RowsOK
<1> QED BY <1>1, <1>3, <1>4 DEF Grown

LEMMA RowsUntouched ==
  ASSUME RowsOK, UNCHANGED devices, UNCHANGED registrations, UNCHANGED school,
         UNCHANGED registered
  PROVE  RowsOK' /\ \A d \in Devices : Grown(d)
<1>1. registered' \in 0 .. 1 /\ (school' = NoSchool => registered' = 0)
  BY DEF RowsOK
<1> QED BY <1>1, SchoolRows

\* A thread that did not start to hold a row, and those that hold one.
LEMMA HoldersKept ==
  ASSUME ThreadsOK, RegisterOK, NEW t \in Threads, Others(t), RowsOK', DevicesLeft(t),
         \A u \in Threads \ {t} : deviceSeen'[u] = deviceSeen[u]
  PROVE  \A u \in Threads \ {t} : AssetHeld(u)'
<1> SUFFICES ASSUME NEW u \in Threads \ {t}
             PROVE  AssetHeld(u)'
  OBVIOUS
<1> DEFINE d == DeviceOf(u)
<1>1. pc'[u] = pc[u] /\ request'[u] = request[u] /\ d' = d
  BY DEF Others, DeviceOf
<1>2. AssetHeld(u)
  BY DEF RegisterOK
<1>3. CASE pc[u] \notin Claiming
  BY <1>1, <1>3 DEF AssetHeld, Claiming
<1>4. ASSUME pc[u] \in Claiming
      PROVE  d \in Devices /\ devices[d] # NoDevice /\ devices'[d] # NoDevice
  <2>1. d \in Devices
    BY <1>4, Parsed DEF Fits, Kind, DeviceKinds, Claiming
  <2> QED BY <1>2, <1>4, <2>1 DEF AssetHeld, DevicesLeft, Grown
<1>5. CASE pc[u] \in Claiming \ {"store_event"}
  <2>1. lock[DeviceRow(d)] = u
    BY <1>2, <1>5 DEF AssetHeld
  <2>2. lock'[DeviceRow(d)] = u
    BY <1>4, <1>5, <2>1, RowsLockable DEF Others
  <2>3. devices'[d] = devices[d]
    BY <1>4, <1>5, <2>1 DEF DevicesLeft
  <2> QED BY <1>1, <1>2, <1>4, <1>5, <2>2, <2>3 DEF AssetHeld, DeviceRow
<1>6. CASE pc[u] = "store_event"
  <2>1. PICK c \in Devices : c = DeviceOf(u) /\ devices[c] # NoDevice /\ devices'[c] # NoDevice
    BY <1>4, <1>6 DEF Claiming
  <2>2. /\ deviceSeen[u] # NoDevice
        /\ Level(c) <= deviceSeen[u].api /\ deviceSeen[u].api <= devices[c].api
    BY <1>2, <1>6, <2>1 DEF AssetHeld
  <2>3. devices[c].api <= devices'[c].api /\ Level(c)' = Level(c)
    BY <2>1 DEF DevicesLeft, Grown
  <2>4. devices[c].api \in Nat /\ devices'[c].api \in Nat /\ deviceSeen[u].api \in Nat
    BY <2>1, <2>2, ApiTyped DEF RegisterOK, RowsOK
  <2>5. deviceSeen[u].api <= devices'[c].api
    BY <2>2, <2>3, <2>4
  <2>6. DeviceOf(u)' = c
    BY <1>1, <2>1
  <2>7. Level(DeviceOf(u))' = Level(c)
    BY <2>3, <2>6 DEF Level
  <2> HIDE DEF d
  <2> QED BY <1>1, <1>6, <2>1, <2>2, <2>5, <2>6, <2>7 DEF AssetHeld
<1> QED BY <1>3, <1>5, <1>6 DEF Claiming

\* Steps of other parts, and the end of a request.
LEMMA RegisterQuiet ==
  ASSUME ThreadsOK, RegisterOK, NEW t \in Threads, Others(t),
         pc'[t] \notin Claiming,
         UNCHANGED devices, UNCHANGED registrations, UNCHANGED school, UNCHANGED registered,
         deviceSeen' \in {deviceSeen, [deviceSeen EXCEPT ![t] = NoDevice]}
  PROVE  RegisterOK'
<1>1. RowsOK' /\ DevicesLeft(t)
  BY RowsUntouched DEF RegisterOK, DevicesLeft
<1>2. deviceSeen' \in [Threads -> DeviceRows \union {NoDevice}]
  BY DEF RegisterOK
<1>3. AssetHeld(t)'
  BY DEF AssetHeld, Claiming
<1>4. \A u \in Threads \ {t} : deviceSeen'[u] = deviceSeen[u]
  BY DEF RegisterOK
<1>5. \A u \in Threads \ {t} : AssetHeld(u)'
  BY <1>1, <1>4, HoldersKept
<1> QED BY <1>1, <1>2, <1>3, <1>5 DEF RegisterOK

LEMMA EventTypes ==
  ASSUME NEW stored \in Nat, NEW reported \in Nat
  PROVE  /\ EventType(stored, reported) # "registered"
         /\ Event(EventType(stored, reported), stored, reported) \in RegistrationEvents
         /\ Event("registered", stored, reported) \in RegistrationEvents
BY DEF EventType, Event, RegistrationEvents

\* An event that explains itself may follow.
LEMMA Registers ==
  ASSUME RowsOK, NEW d \in Devices, NEW e \in RegistrationEvents,
         UNCHANGED school, UNCHANGED registered,
         registrations' = [registrations EXCEPT ![d] = Append(@, e)],
         devices' \in [Devices -> DeviceRows \union {NoDevice}],
         \A c \in Devices \ {d} : devices'[c] = devices[c],
         devices'[d] # NoDevice,
         devices[d] # NoDevice => devices'[d] = devices[d],
         RetiredIsFinal',
         e.type = "registered" => devices[d] = NoDevice,
         e.type # "registered" => Level(d) <= e.stored,
         e.stored <= devices'[d].api,
         e.type # "registered" => e.type = EventType(e.stored, e.reported)
  PROVE  RowsOK' /\ \A c \in Devices : Grown(c)
<1> USE DEF RowsOK
<1> DEFINE S == registrations[d]
<1>1. S \in Seq(RegistrationEvents) /\ Append(S, e) \in Seq(RegistrationEvents)
  OBVIOUS
<1>2. registrations' \in [Devices -> Seq(RegistrationEvents)]
  BY <1>1
<1>3. /\ registrations'[d] = Append(S, e)
      /\ \A c \in Devices \ {d} : registrations'[c] = registrations[c]
  OBVIOUS
<1>4. e.type = "registered" => S = << >>
  OBVIOUS
<1>5. e.stored \in Nat
  BY DEF RegistrationEvents
<1>6. /\ S = << >> => Append(S, e)[1] = e
      /\ S # << >> => Append(S, e)[1] = S[1]
      /\ Append(S, e) # << >>
  BY <1>1
<1>7. /\ e.type # "registered" => Level(d)' = Level(d)
      /\ e.type = "registered" => Level(d)' = e.stored
  BY <1>3, <1>4, <1>6 DEF Level
<1>8. \A c \in Devices \ {d} : Level(c)' = Level(c)
  BY <1>3 DEF Level
<1>9. ASSUME NEW i \in DOMAIN Append(S, e)
      PROVE  Explained(d, i)'
  <2>1. Len(S) \in Nat /\ DOMAIN S = 1 .. Len(S) /\ i \in 1 .. Len(S) + 1
    BY <1>1
  <2>2. CASE i = Len(S) + 1
    <3>1. registrations'[d][i] = e
      BY <1>1, <1>3, <2>2
    <3>2. e.type = "registered" => i = 1
      BY <1>4, <2>2
    <3>3. Level(d)' <= e.stored
      BY <1>5, <1>7
    <3> QED BY <3>1, <3>2, <3>3 DEF Explained, EventType
  <2>3. CASE i \in DOMAIN S
    <3>1. registrations'[d][i] = S[i]
      BY <1>1, <1>3, <2>1, <2>3
    <3>2. devices'[d] = devices[d] /\ e.type # "registered"
      BY <1>4, <2>1, <2>3
    <3>3. Explained(d, i)
      BY <2>3
    <3> QED BY <1>7, <3>1, <3>2, <3>3 DEF Explained, EventType
  <2> QED BY <2>1, <2>2, <2>3
<1>10. ASSUME NEW c \in Devices, NEW i \in DOMAIN registrations'[c]
       PROVE  Explained(c, i)'
  <2>1. CASE c = d
    BY <1>3, <1>9, <1>10, <2>1
  <2>2. CASE c # d
    <3>1. i \in DOMAIN registrations[c] /\ Explained(c, i)
      BY <1>3, <1>10, <2>2
    <3> QED BY <1>3, <1>8, <2>2, <3>1 DEF Explained, EventType
  <2> QED BY <2>1, <2>2
<1>11. \A c \in Devices : devices'[c] = NoDevice => registrations'[c] = << >>
  BY <1>3
<1>12. RowsOK'
  BY <1>2, <1>10, <1>11
<1>13. ASSUME NEW c \in Devices, devices[c] # NoDevice
       PROVE  devices'[c] = devices[c] /\ Level(c)' = Level(c) /\ devices[c].api \in Nat
  <2>1. devices[c].api \in Nat
    BY <1>13, ApiTyped
  <2>2. CASE c = d
    BY <1>7, <1>13, <2>1, <2>2
  <2>3. CASE c # d
    BY <1>8, <2>1, <2>3
  <2> QED BY <2>2, <2>3
<1>14. \A c \in Devices : Grown(c)
  BY <1>13 DEF Grown
<1> QED BY <1>12, <1>14

\* A row is entered or changed; its API level does not fall.
LEMMA RowChanges ==
  ASSUME RowsOK, NEW d \in Devices, NEW row \in DeviceRows,
         UNCHANGED registrations, UNCHANGED school, UNCHANGED registered,
         devices' = [devices EXCEPT ![d] = row],
         devices[d] # NoDevice => devices[d].api <= row.api,
         row.status = "retired" => row.lifecycle \in {"RETIRED", "ENROLLED"}
  PROVE  RowsOK' /\ \A c \in Devices : Grown(c)
<1> USE DEF RowsOK
<1>1. row # NoDevice
  BY DeviceMarksAssumption
<1>2. /\ devices' \in [Devices -> DeviceRows \union {NoDevice}]
      /\ \A c \in Devices : devices'[c] = IF c = d THEN row ELSE devices[c]
  OBVIOUS
<1>3. RetiredIsFinal'
  BY <1>1, <1>2 DEF RetiredIsFinal
<1>4. \A c \in Devices : devices'[c] = NoDevice => registrations'[c] = << >>
  BY <1>1
<1>5. \A c \in Devices : Level(c)' = Level(c)
  BY DEF Level
<1>6. ASSUME NEW c \in Devices, devices[c] # NoDevice
      PROVE  /\ devices'[c] # NoDevice /\ devices[c].api <= devices'[c].api
             /\ devices[c].api \in Nat /\ devices'[c].api \in Nat
  <2>1. devices[c].api \in Nat /\ row.api \in Nat
    BY <1>6, ApiTyped
  <2> QED BY <1>1, <1>2, <1>6, <2>1
<1>7. ASSUME NEW c \in Devices, NEW i \in DOMAIN registrations[c]
      PROVE  Explained(c, i)'
  <2>1. devices[c] # NoDevice
    BY <1>7
  <2>2. devices[c].api <= devices'[c].api /\ devices[c].api \in Nat /\ devices'[c].api \in Nat
    BY <1>6, <2>1
  <2>3. registrations[c][i] \in RegistrationEvents
    OBVIOUS
  <2>4. registrations[c][i].stored \in Nat
    BY <2>3 DEF RegistrationEvents
  <2>5. Explained(c, i)
    OBVIOUS
  <2>6. registrations[c][i].stored <= devices'[c].api
    BY <2>2, <2>4, <2>5 DEF Explained
  <2> QED BY <1>5, <2>5, <2>6 DEF Explained, EventType
<1>8. RowsOK'
  BY <1>2, <1>3, <1>4, <1>7
<1>9. \A c \in Devices : Grown(c)
  BY <1>5, <1>6 DEF Grown
<1> QED BY <1>8, <1>9

\* An event reports what its thread has read.
LEMMA EventRows ==
  ASSUME ThreadsOK, RegisterOK, NEW t \in Threads, StoreEvent(t)
  PROVE  RowsOK' /\ DevicesLeft(t)
<1> DEFINE d == DeviceOf(t)
           stored == deviceSeen[t].api
           e == Event(EventType(stored, request[t].api), stored, request[t].api)
<1>0. pc[t] = "store_event" /\ Kind(t) = "register"
  BY Parsed DEF StoreEvent, Fits, Kind
<1>1. d \in Devices /\ request[t].api \in Nat
  BY <1>0, Parsed DEF DeviceKinds
<1>2. RowsOK /\ AssetHeld(t) /\ deviceSeen[t] \in DeviceRows \union {NoDevice}
  BY DEF RegisterOK
<1>3. /\ devices[d] # NoDevice /\ deviceSeen[t] # NoDevice
      /\ Level(d) <= stored /\ stored <= devices[d].api
  BY <1>0, <1>2 DEF AssetHeld, Claiming
<1>4. stored \in Nat
  BY <1>2, <1>3, ApiTyped
<1>5. e \in RegistrationEvents /\ e.type # "registered" /\ e.stored = stored
      /\ e.type = EventType(e.stored, e.reported)
  BY <1>1, <1>4, EventTypes DEF Event
<1>6. /\ registrations' = [registrations EXCEPT ![d] = Append(@, e)]
      /\ devices' = devices /\ UNCHANGED school /\ UNCHANGED registered
  BY DEF StoreEvent
<1>7. RetiredIsFinal' /\ devices' \in [Devices -> DeviceRows \union {NoDevice}]
  BY <1>2, <1>6 DEF RowsOK, RetiredIsFinal
<1>8. Level(d) <= e.stored /\ e.stored <= devices'[d].api
  BY <1>3, <1>5, <1>6
<1> HIDE DEF e, stored, d
<1>9. RowsOK' /\ \A c \in Devices : Grown(c)
  BY <1>1, <1>2, <1>3, <1>5, <1>6, <1>7, <1>8, Registers
<1> QED BY <1>6, <1>9 DEF DevicesLeft

LEMMA RegisterRows ==
  ASSUME ThreadsOK, RegisterOK, NEW t \in Threads, RegisterStep(t)
  PROVE  RowsOK' /\ DevicesLeft(t)
<1> DEFINE d == DeviceOf(t)
           q == request[t]
<1>1. RowsOK /\ AssetHeld(t)
  BY DEF RegisterOK
<1>2. pc[t] # "idle" => Fits(q, pc[t])
  BY DEF ThreadsOK
<1>3. ASSUME UNCHANGED devices, UNCHANGED registrations, UNCHANGED school, UNCHANGED registered
      PROVE  RowsOK' /\ DevicesLeft(t)
  BY <1>1, <1>3, RowsUntouched DEF DevicesLeft
<1>4. ASSUME GiveUp(t) \/ UNCHANGED register
      PROVE  RowsOK' /\ DevicesLeft(t)
  BY <1>3, <1>4 DEF GiveUp, register
<1>5. CASE FindDevice(t)
  BY <1>3, <1>4, <1>5 DEF FindDevice, CompleteExisting
<1>6. CASE InsertDevice(t)
  <2>1. pc[t] = "insert_device" /\ Kind(t) = "register"
    BY <1>2, <1>6 DEF InsertDevice, Fits, Kind
  <2>2. d \in Devices /\ q.api \in Nat
    BY <2>1, Parsed DEF DeviceKinds
  <2>3. CASE devices[d] # NoDevice
    BY <1>3, <1>6, <2>3 DEF InsertDevice, CompleteExisting
  <2>4. CASE devices[d] = NoDevice
    <3> DEFINE row == NewDevice("active", q.api, NoAsset, NoAsset)
               e == Event("registered", q.api, q.api)
    <3>0. row \in DeviceRows /\ row.status = "active" /\ row.api = q.api
      BY <2>2 DEF NewDevice, DeviceRows
    <3>1. row # NoDevice
      BY <3>0, DeviceMarksAssumption
    <3>2. e \in RegistrationEvents /\ e.type = "registered" /\ e.stored = q.api
      BY <2>2, EventTypes DEF Event
    <3>3. /\ devices' = [devices EXCEPT ![d] = row]
          /\ registrations' = [registrations EXCEPT ![d] = Append(@, e)]
          /\ UNCHANGED school /\ UNCHANGED registered
      BY <1>6, <2>4 DEF InsertDevice
    <3> HIDE DEF row, e
    <3>4. /\ devices' \in [Devices -> DeviceRows \union {NoDevice}] /\ devices'[d] = row
          /\ \A c \in Devices \ {d} : devices'[c] = devices[c]
      BY <1>1, <2>2, <3>0, <3>3 DEF RowsOK
    <3>5. RetiredIsFinal'
      BY <1>1, <2>2, <3>0, <3>4 DEF RowsOK, RetiredIsFinal
    <3>6. e.stored <= devices'[d].api
      BY <2>2, <3>0, <3>2, <3>4
    <3>7. RowsOK' /\ \A c \in Devices : Grown(c)
      BY <1>1, <2>2, <2>4, <3>1, <3>2, <3>3, <3>4, <3>5, <3>6, Registers
    <3> QED BY <2>4, <3>4, <3>7 DEF DevicesLeft
  <2> QED BY <2>3, <2>4
<1>7. CASE RegisterAsset(t)
  <2>1. d \in Devices /\ q.api \in Nat /\ q.asset \in Assets /\ q.lifecycle \in AssetStates
    BY <1>7, Parsed DEF RegisterAsset, DeviceKinds
  <2> DEFINE status == IF q.api \in SupportedApis THEN "active" ELSE "suspended"
             row == NewDevice(status, q.api, q.asset, q.lifecycle)
  <2>2. row \in DeviceRows /\ row.status # "retired"
    BY <2>1 DEF NewDevice, DeviceRows
  <2>3. CASE GiveUp(t)
    BY <1>4, <2>3
  <2>4. CASE /\ devices[d] = NoDevice
             /\ devices' = [devices EXCEPT ![d] = row]
             /\ UNCHANGED registrations /\ UNCHANGED school /\ UNCHANGED registered
    <3> HIDE DEF row
    <3>1. RowsOK' /\ \A c \in Devices : Grown(c)
      BY <1>1, <2>1, <2>2, <2>4, RowChanges
    <3>2. DevicesLeft(t)
      BY <1>1, <2>1, <2>4, <3>1 DEF DevicesLeft, RowsOK
    <3> QED BY <3>1, <3>2
  <2> QED BY <1>7, <2>3, <2>4 DEF RegisterAsset
<1>8. CASE LockAsset(t)
  BY <1>3, <1>4, <1>8 DEF LockAsset
<1>9. CASE StoreAsset(t)
  <2>1. pc[t] = "store_asset" /\ Kind(t) = "correct"
    BY <1>2, <1>9 DEF StoreAsset, Fits, Kind
  <2>2. d \in Devices /\ q.asset \in Assets /\ q.lifecycle \in AssetStates
    BY <2>1, Parsed DEF DeviceKinds
  <2>3. /\ devices[d] # NoDevice /\ lock[DeviceRow(d)] = t
        /\ deviceSeen[t].lifecycle = devices[d].lifecycle
        /\ devices[d].status = "retired" => q.lifecycle = "RETIRED"
    BY <1>1, <2>1 DEF AssetHeld, Claiming
  <2> DEFINE row == Corrected(devices[d], deviceSeen[t], q)
  <2>4. devices[d] \in DeviceRows
    BY <1>1, <2>2, <2>3 DEF RowsOK
  <2>5. /\ row \in DeviceRows /\ row.api = devices[d].api /\ devices[d].api \in Nat
        /\ row.status = "retired" => row.lifecycle = "RETIRED"
    BY <2>2, <2>3, <2>4 DEF Corrected, DeviceRows
  <2>6. CASE GiveUp(t)
    BY <1>4, <2>6
  <2>7. CASE /\ devices' = [devices EXCEPT ![d] = row]
             /\ UNCHANGED registrations /\ UNCHANGED school /\ UNCHANGED registered
    <3> HIDE DEF row
    <3>0. devices[d].api <= row.api
      BY <2>5
    <3>1. RowsOK' /\ \A c \in Devices : Grown(c)
      BY <1>1, <2>2, <2>5, <2>7, <3>0, RowChanges
    <3>2. DevicesLeft(t)
      BY <1>1, <2>2, <2>3, <2>7, <3>1 DEF DevicesLeft, RowsOK
    <3> QED BY <3>1, <3>2
  <2> QED BY <1>9, <2>6, <2>7 DEF StoreAsset
<1>10. CASE LockRetired(t)
  BY <1>4, <1>10 DEF LockRetired
<1>11. CASE Redact(t)
  <2>1. pc[t] = "redact" /\ Kind(t) = "redact"
    BY <1>2, <1>11 DEF Redact, Fits, Kind
  <2>2. d \in Devices /\ devices[d] # NoDevice /\ lock[DeviceRow(d)] = t
    BY <1>1, <2>1, Parsed DEF DeviceKinds, AssetHeld, Claiming
  <2> DEFINE row == [devices[d] EXCEPT !.asset = NoAsset,
                       !.aged = IF devices[d].asset = NoAsset THEN @ ELSE FALSE]
  <2>3. devices[d] \in DeviceRows
    BY <1>1, <2>2 DEF RowsOK
  <2>0. devices[d].api \in Nat
    BY <2>3, ApiTyped
  <2>4. row \in DeviceRows /\ row.api = devices[d].api /\ row.status = devices[d].status
        /\ row.lifecycle = devices[d].lifecycle
    BY <2>3 DEF DeviceRows
  <2>9. devices[d].api <= row.api
    <3> HIDE DEF row
    <3> QED BY <2>0, <2>4
  <2>5. devices[d].status = "retired" => devices[d].lifecycle \in {"RETIRED", "ENROLLED"}
    BY <1>1, <2>2 DEF RowsOK, RetiredIsFinal
  <2>6. devices' = [devices EXCEPT ![d] = row]
    BY <1>1, <1>11, <2>2 DEF Redact, RowsOK
  <2> HIDE DEF row
  <2>7. RowsOK' /\ \A c \in Devices : Grown(c)
    BY <1>1, <1>11, <2>2, <2>4, <2>5, <2>6, <2>9, RowChanges DEF Redact
  <2>8. DevicesLeft(t)
    BY <1>1, <2>2, <2>6, <2>7 DEF DevicesLeft, RowsOK
  <2> QED BY <2>7, <2>8
<1>12. CASE FindLocated(t)
  BY <1>4, <1>12 DEF FindLocated
<1>13. CASE InsertLocation(t)
  BY <1>3, <1>13 DEF InsertLocation
<1>14. CASE LockLocation(t)
  BY <1>4, <1>14 DEF LockLocation
<1>15. CASE StoreLocation(t)
  BY <1>3, <1>15 DEF StoreLocation
<1>16. CASE DeadlockVictim(t)
  BY <1>4, <1>16 DEF DeadlockVictim
<1>17. CASE FindSchool(t)
  BY <1>4, <1>17 DEF FindSchool
<1>18. CASE InsertSchool(t)
  <2>1. pc[t] = "insert_school" /\ Kind(t) = "school"
    BY <1>2, <1>18 DEF InsertSchool, Founded, Fits, Kind
  <2>2. q.name # NoSchool
    BY <2>1, Parsed DEF SchoolKinds
  <2>3. CASE GiveUp(t)
    BY <1>4, <2>3
  <2>4. CASE school = NoSchool /\ school' = q.name /\ registered' = registered + 1
             /\ UNCHANGED devices /\ UNCHANGED registrations
    <3>1. registered = 0
      BY <1>1, <2>4 DEF RowsOK
    <3>2. registered' \in 0 .. 1 /\ school' # NoSchool
      BY <2>2, <2>4, <3>1
    <3> QED BY <1>1, <2>4, <3>2, SchoolRows DEF DevicesLeft
  <2> QED BY <1>18, <2>3, <2>4 DEF InsertSchool, Founded
<1>19. CASE UpdateSchool(t)
  <2>1. q.name # NoSchool
    BY <1>19, Parsed DEF UpdateSchool, Founded, SchoolKinds
  <2>2. (school' = NoSchool => school = NoSchool) /\ UNCHANGED devices
        /\ UNCHANGED registrations /\ UNCHANGED registered
    BY <1>19, <2>1 DEF UpdateSchool, Founded
  <2>3. registered' \in 0 .. 1 /\ (school' = NoSchool => registered' = 0)
    BY <1>1, <2>2 DEF RowsOK
  <2> QED BY <1>1, <2>2, <2>3, SchoolRows DEF DevicesLeft
<1>20. CASE StoreEvent(t)
  BY <1>20, EventRows
<1>21. CASE LockEnrolled(t)
  BY <1>4, <1>21 DEF LockEnrolled
<1>22. CASE InsertEnrolled(t)
  <2>1. pc[t] = "insert_enrolled" /\ Kind(t) = "enroll"
    BY <1>2, <1>22 DEF InsertEnrolled, Fits, Kind
  <2>2. d \in Devices /\ q.api \in Nat
    BY <2>1, Parsed DEF DeviceKinds
  <2> DEFINE row == NewDevice("active", q.api, NoAsset, NoAsset)
  <2>3. row \in DeviceRows /\ row.status = "active"
    BY <2>2 DEF NewDevice, DeviceRows
  <2>4. CASE GiveUp(t)
    BY <1>4, <2>4
  <2>5. CASE /\ devices[d] = NoDevice /\ devices' = [devices EXCEPT ![d] = row]
             /\ UNCHANGED registrations /\ UNCHANGED school /\ UNCHANGED registered
    <3> HIDE DEF row
    <3>1. RowsOK' /\ \A c \in Devices : Grown(c)
      BY <1>1, <2>2, <2>3, <2>5, RowChanges
    <3> QED BY <1>1, <2>2, <2>5, <3>1 DEF DevicesLeft, RowsOK
  <2> QED BY <1>22, <2>4, <2>5 DEF InsertEnrolled
<1>23. CASE StoreEnrolled(t)
  <2>1. pc[t] = "store_enrolled" /\ Kind(t) = "enroll"
    BY <1>2, <1>23 DEF StoreEnrolled, Fits, Kind
  <2>2. d \in Devices /\ q.api \in Nat
    BY <2>1, Parsed DEF DeviceKinds
  <2>3. devices[d] # NoDevice /\ lock[DeviceRow(d)] = t /\ devices[d].api <= q.api
    BY <1>1, <2>1 DEF AssetHeld, Claiming
  <2>4. devices[d] \in DeviceRows
    BY <1>1, <2>2, <2>3 DEF RowsOK
  <2>5. devices[d].status = "retired" => devices[d].lifecycle \in {"RETIRED", "ENROLLED"}
    BY <1>1, <2>2, <2>3 DEF RowsOK, RetiredIsFinal
  <2>6. PICK aged \in {devices[d].aged, FALSE} :
          devices' = [devices EXCEPT ![d] = [Enrolled(devices[d], q.api) EXCEPT !.aged = aged]]
    BY <1>23 DEF StoreEnrolled
  <2> DEFINE row == [Enrolled(devices[d], q.api) EXCEPT !.aged = aged]
  <2>7. /\ row \in DeviceRows /\ row.api = q.api /\ row.status = devices[d].status
        /\ row.lifecycle \in {devices[d].lifecycle, "ENROLLED"}
    BY <2>2, <2>4 DEF Enrolled, DeviceRows, AssetStates
  <2>8. devices' = [devices EXCEPT ![d] = row]
    BY <2>6
  <2>9. UNCHANGED registrations /\ UNCHANGED school /\ UNCHANGED registered
    BY <1>23 DEF StoreEnrolled
  <2> HIDE DEF row
  <2>10. /\ devices[d].api <= row.api
         /\ row.status = "retired" => row.lifecycle \in {"RETIRED", "ENROLLED"}
    BY <2>3, <2>5, <2>7
  <2>11. RowsOK' /\ \A c \in Devices : Grown(c)
    BY <1>1, <2>2, <2>7, <2>8, <2>9, <2>10, RowChanges
  <2> QED BY <1>1, <2>2, <2>3, <2>8, <2>11 DEF DevicesLeft, RowsOK
<1> QED
  BY <1>5, <1>6, <1>7, <1>8, <1>9, <1>10, <1>11, <1>12, <1>13, <1>14, <1>15, <1>16,
     <1>17, <1>18, <1>19, <1>20, <1>21, <1>22, <1>23 DEF RegisterStep

\* The rows a step of thread t locks with the thread going on to a statement.
LEMMA Held ==
  ASSUME ThreadsOK, NEW t \in Threads, NEW r \in Rows, NEW label, LockRow(t, r, label)
  PROVE  lock'[r] = t /\ pc'[t] = label /\ request'[t] = request[t]
BY DEF LockRow, Goto, ThreadsOK

LEMMA HolderKept ==
  ASSUME ThreadsOK, RegisterOK, NEW t \in Threads, RegisterStep(t)
  PROVE  /\ AssetHeld(t)'
         /\ deviceSeen' \in [Threads -> DeviceRows \union {NoDevice}]
         /\ \A u \in Threads \ {t} : deviceSeen'[u] = deviceSeen[u]
<1> USE DEF RegisterOK
<1>1. ASSUME pc'[t] \notin Claiming,
             deviceSeen' \in {deviceSeen, [deviceSeen EXCEPT ![t] = NoDevice]}
      PROVE  /\ AssetHeld(t)'
             /\ deviceSeen' \in [Threads -> DeviceRows \union {NoDevice}]
             /\ \A u \in Threads \ {t} : deviceSeen'[u] = deviceSeen[u]
  BY <1>1 DEF AssetHeld, Claiming
<1>2. ASSUME Close(t)
      PROVE  /\ pc'[t] \notin Claiming
             /\ deviceSeen' \in {deviceSeen, [deviceSeen EXCEPT ![t] = NoDevice]}
  BY <1>2 DEF Close, Finish, ThreadsOK, Claiming
<1>3. ASSUME NEW label \in {"insert_device", "insert_enrolled", "insert_location",
                            "store_location", "insert_school"},
             pc' = [pc EXCEPT ![t] = label], UNCHANGED register
      PROVE  /\ pc'[t] \notin Claiming
             /\ deviceSeen' \in {deviceSeen, [deviceSeen EXCEPT ![t] = NoDevice]}
  BY <1>3 DEF register, ThreadsOK, Claiming
<1>4. CASE LockAsset(t) /\ ~ GiveUp(t)
  <2> DEFINE d == DeviceOf(t)
  <2>1. /\ Correctable(devices[d], request[t])
        /\ deviceSeen' = [deviceSeen EXCEPT ![t] = devices[d]]
        /\ LockRow(t, DeviceRow(d), "store_asset")
        /\ UNCHANGED devices
    BY <1>4 DEF LockAsset
  <2>2. d \in Devices /\ DeviceRow(d) \in Rows
    BY <1>4, Parsed, RowsLockable DEF LockAsset, DeviceKinds
  <2>3. devices[d] # NoDevice /\ (devices[d].status = "retired" => request[t].lifecycle = "RETIRED")
    BY <2>1 DEF Correctable
  <2>4. lock'[DeviceRow(d)] = t /\ pc'[t] = "store_asset" /\ request'[t] = request[t]
    BY <2>1, <2>2, Held
  <2>5. /\ deviceSeen' \in [Threads -> DeviceRows \union {NoDevice}]
        /\ deviceSeen'[t] = devices[d]
        /\ \A u \in Threads \ {t} : deviceSeen'[u] = deviceSeen[u]
    BY <2>1, <2>2 DEF RowsOK
  <2>6. DeviceOf(t)' = d
    BY <2>4 DEF DeviceOf
  <2> QED BY <2>1, <2>3, <2>4, <2>5, <2>6 DEF AssetHeld, DeviceRow, Claiming
<1>5. CASE LockRetired(t) /\ ~ GiveUp(t)
  <2> DEFINE d == DeviceOf(t)
  <2>1. devices[d] # NoDevice /\ LockRow(t, DeviceRow(d), "redact") /\ UNCHANGED register
    BY <1>5 DEF LockRetired
  <2>2. d \in Devices /\ DeviceRow(d) \in Rows
    BY <1>5, Parsed, RowsLockable DEF LockRetired, DeviceKinds
  <2>3. lock'[DeviceRow(d)] = t /\ pc'[t] = "redact" /\ request'[t] = request[t]
    BY <2>1, <2>2, Held
  <2>4. DeviceOf(t)' = d
    BY <2>3 DEF DeviceOf
  <2> QED BY <2>1, <2>3, <2>4 DEF AssetHeld, DeviceRow, register, Claiming
<1>6. CASE LockLocation(t) /\ ~ GiveUp(t)
  <2>1. LockRow(t, LocationRow(DeviceOf(t)), "store_location") /\ UNCHANGED register
    BY <1>6 DEF LockLocation
  <2> QED BY <1>1, <1>3, <2>1 DEF LockRow, Goto
<1>11. ASSUME CompleteExisting(t), pc[t] # "idle", Kind(t) = "register",
              devices[DeviceOf(t)] # NoDevice
       PROVE  /\ AssetHeld(t)'
              /\ deviceSeen' \in [Threads -> DeviceRows \union {NoDevice}]
              /\ \A u \in Threads \ {t} : deviceSeen'[u] = deviceSeen[u]
  <2> DEFINE d == DeviceOf(t)
  <2>1. d \in Devices
    BY <1>11, Parsed DEF DeviceKinds
  <2>2. /\ deviceSeen' = [deviceSeen EXCEPT ![t] = devices[d]]
        /\ pc' = [pc EXCEPT ![t] = "store_event"]
        /\ UNCHANGED <<request, lock, devices, registrations>>
    BY <1>11 DEF CompleteExisting, Continue, Goto
  <2>3. /\ deviceSeen' \in [Threads -> DeviceRows \union {NoDevice}]
        /\ deviceSeen'[t] = devices[d] /\ pc'[t] = "store_event"
        /\ \A u \in Threads \ {t} : deviceSeen'[u] = deviceSeen[u]
    BY <2>1, <2>2 DEF RowsOK, ThreadsOK
  <2>4. Level(d) <= devices[d].api /\ devices[d].api <= devices[d].api
    BY <1>11, <2>1, LevelBelow
  <2>5. DeviceOf(t)' = d /\ Level(DeviceOf(t))' = Level(d)
    BY <2>2 DEF DeviceOf, Level
  <2> HIDE DEF d
  <2> QED BY <1>11, <2>2, <2>3, <2>4, <2>5 DEF AssetHeld, Claiming, d
<1>7. CASE FindDevice(t)
  BY <1>1, <1>3, <1>7, <1>11 DEF FindDevice, Continue, Goto
<1>8. CASE FindLocated(t)
  BY <1>1, <1>2, <1>3, <1>8 DEF FindLocated, GiveUp, Continue, Goto
<1>9. CASE FindSchool(t)
  BY <1>1, <1>2, <1>3, <1>9 DEF FindSchool, GiveUp, Continue, Goto
<1>12. CASE InsertDevice(t)
  <2>1. pc[t] = "insert_device" /\ Kind(t) = "register"
    BY <1>12, Parsed DEF InsertDevice, Fits, Kind
  <2> QED BY <1>1, <1>2, <1>11, <1>12, <2>1 DEF InsertDevice
<1>13. CASE LockEnrolled(t) /\ ~ GiveUp(t)
  <2> DEFINE d == DeviceOf(t)
  <2>1. CASE Continue(t, "insert_enrolled") /\ UNCHANGED register
    BY <1>1, <1>3, <2>1 DEF Continue, Goto
  <2>2. CASE /\ devices[d] # NoDevice /\ devices[d].api <= request[t].api
             /\ LockRow(t, DeviceRow(d), "store_enrolled")
             /\ UNCHANGED register
    <3>1. d \in Devices /\ DeviceRow(d) \in Rows
      BY <1>13, Parsed, RowsLockable DEF LockEnrolled, DeviceKinds
    <3>2. lock'[DeviceRow(d)] = t /\ pc'[t] = "store_enrolled" /\ request'[t] = request[t]
      BY <2>2, <3>1, Held
    <3>3. DeviceOf(t)' = d
      BY <3>2 DEF DeviceOf
    <3> QED BY <2>2, <3>2, <3>3 DEF AssetHeld, DeviceRow, register, Claiming
  <2> QED BY <1>13, <2>1, <2>2 DEF LockEnrolled
<1>10. CASE StoreEvent(t) \/ InsertEnrolled(t) \/ StoreEnrolled(t) \/ RegisterAsset(t) \/ StoreAsset(t) \/ Redact(t)
            \/ InsertLocation(t) \/ StoreLocation(t) \/ DeadlockVictim(t)
            \/ InsertSchool(t) \/ UpdateSchool(t) \/ GiveUp(t)
  <2>1. Close(t)
    BY <1>10 DEF StoreEvent, InsertEnrolled, StoreEnrolled, RegisterAsset, StoreAsset, Redact,
         InsertLocation, StoreLocation, DeadlockVictim, InsertSchool, UpdateSchool, GiveUp
  <2> QED BY <1>1, <1>2, <2>1
<1> QED
  BY <1>4, <1>5, <1>6, <1>7, <1>8, <1>9, <1>10, <1>12, <1>13 DEF RegisterStep

LEMMA RegisterKept ==
  ASSUME ThreadsOK, RegisterOK, [Next]_vars
  PROVE  RegisterOK'
<1>1. ASSUME NEW t \in Threads, RegisterStep(t), Others(t)
      PROVE  RegisterOK'
  <2>1. RowsOK' /\ DevicesLeft(t)
    BY <1>1, RegisterRows
  <2>2. /\ AssetHeld(t)'
        /\ deviceSeen' \in [Threads -> DeviceRows \union {NoDevice}]
        /\ \A u \in Threads \ {t} : deviceSeen'[u] = deviceSeen[u]
    BY <1>1, HolderKept
  <2>3. \A u \in Threads \ {t} : AssetHeld(u)'
    BY <1>1, <2>1, <2>2, HoldersKept
  <2> QED BY <2>1, <2>2, <2>3 DEF RegisterOK
<1>2. ASSUME NEW t \in Threads, Others(t), pc'[t] \notin Claiming,
             UNCHANGED register
      PROVE  RegisterOK'
  BY <1>2, RegisterQuiet DEF register
<1>3. ASSUME NEW t \in Threads, ThreadStep(t)
      PROVE  RegisterOK'
  <2>1. CASE AdministratorStep(t)
    BY <1>2, <2>1, AccountServed, ServedKept
       DEF AdministratorStep, Parts, AccountLabels, Claiming
  <2>2. CASE PolicyStep(t)
    BY <1>2, <2>2, PolicyServed, ServedKept DEF PolicyStep, Parts, PolicyLabels, Claiming
  <2>3. CASE DeviceStep(t)
    BY <1>1, <2>3, DeviceServed, ServedKept DEF DeviceStep, Parts
  <2> QED BY <1>3, <2>1, <2>2, <2>3 DEF ThreadStep
<1>4. ASSUME NEW t \in Threads, Receive(t)
      PROVE  RegisterOK'
  BY <1>2, <1>4, Received DEF Claiming
<1>5. ASSUME NEW t \in Threads, Abort(t)
      PROVE  RegisterOK'
  BY <1>5, Aborted, RegisterQuiet DEF Abort, Claiming
<1>6. ASSUME UNCHANGED threads, UNCHANGED register
      PROVE  RegisterOK'
  <2>1. RowsOK'
    BY <1>6, RowsUntouched DEF register, RegisterOK
  <2>2. \A t \in Threads : AssetHeld(t)'
    BY <1>6 DEF threads, register, RegisterOK, AssetHeld, DeviceOf, DeviceRow, Level
  <2> QED BY <1>6, <2>1, <2>2 DEF register, RegisterOK
<1>7. ASSUME NEW d \in Devices, Age(d), UNCHANGED threads
      PROVE  RegisterOK'
  <2> DEFINE row == [devices[d] EXCEPT !.aged = TRUE]
  <2>1. RowsOK
    BY DEF RegisterOK
  <2>2. devices[d] \in DeviceRows /\ devices[d] # NoDevice
    BY <1>7, <2>1 DEF RowsOK, Age
  <2>3. /\ row \in DeviceRows /\ row.api = devices[d].api /\ row.status = devices[d].status
        /\ row.lifecycle = devices[d].lifecycle
    BY <2>2 DEF DeviceRows
  <2>4. /\ row # NoDevice /\ devices[d].api \in Nat
        /\ row.status = "retired" => row.lifecycle \in {"RETIRED", "ENROLLED"}
    BY <2>1, <2>2, <2>3, ApiTyped, DeviceMarksAssumption DEF RowsOK, RetiredIsFinal
  <2>5. devices' = [devices EXCEPT ![d] = row]
    BY <1>7, <2>1 DEF Age, RowsOK
  <2> HIDE DEF row
  <2>10. devices[d].api <= row.api
    BY <2>3, <2>4
  <2>6. RowsOK'
    BY <1>7, <2>1, <2>3, <2>4, <2>5, <2>10, RowChanges DEF Age
  <2>7. \A c \in Devices :
          /\ devices'[c] = NoDevice <=> devices[c] = NoDevice
          /\ devices[c] # NoDevice =>
               /\ devices'[c].status = devices[c].status
               /\ devices'[c].lifecycle = devices[c].lifecycle
               /\ devices'[c].api = devices[c].api
    BY <2>1, <2>2, <2>3, <2>4, <2>5 DEF RowsOK
  <2>8. ASSUME NEW u \in Threads
        PROVE  AssetHeld(u)'
    <3>1. AssetHeld(u) /\ pc' = pc /\ request' = request /\ lock' = lock
          /\ deviceSeen' = deviceSeen /\ registrations' = registrations
      BY <1>7 DEF RegisterOK, Age, threads
    <3>2. DeviceOf(u)' = DeviceOf(u) /\ Level(DeviceOf(u))' = Level(DeviceOf(u))
      BY <3>1 DEF DeviceOf, Level
    <3>3. pc[u] \in Claiming => DeviceOf(u) \in Devices
      BY Parsed DEF Fits, Kind, DeviceKinds, Claiming
    <3> QED BY <2>7, <3>1, <3>2, <3>3 DEF AssetHeld, DeviceRow, Claiming
  <2> QED BY <1>7, <2>6, <2>8 DEF RegisterOK, Age
<1>8. CASE Environment /\ UNCHANGED <<threads, workload>>
  BY <1>6, <1>7, <1>8 DEF Environment
<1> QED BY <1>3, <1>4, <1>5, <1>6, <1>8 DEF Next, vars

LEMMA RegisterStart == Init => RegisterOK
<1> SUFFICES ASSUME Init PROVE RegisterOK
  OBVIOUS
<1>1. /\ workload \in Workloads /\ devices = workload.devices
      /\ registrations = [d \in Devices |-> << >>]
      /\ school = NoSchool /\ deviceSeen = [t \in Threads |-> NoDevice] /\ registered = 0
      /\ \A t \in Threads : pc[t] = "idle"
  BY DEF Init, RegisterInit, ThreadsInit
<1>2. /\ devices \in [Devices -> DeviceRows \union {NoDevice}]
      /\ RetiredIsFinal
  BY <1>1, WorkloadsAssumption DEF RetiredIsFinal
<1>3. registrations \in [Devices -> Seq(RegistrationEvents)]
  BY <1>1
<1>4. \A d \in Devices : DOMAIN registrations[d] = {}
  BY <1>1
<1>5. RowsOK
  BY <1>1, <1>2, <1>3, <1>4 DEF RowsOK
<1> QED BY <1>1, <1>5 DEF RegisterOK, AssetHeld, Claiming

\* What the register keeps, over all runs.
LEMMA RegisterAlways == Spec => [](ThreadsOK /\ RegisterOK)
<1>1. Init => ThreadsOK /\ RegisterOK
  BY ThreadsStart, RegisterStart
<1>2. ThreadsOK /\ RegisterOK /\ [Next]_vars => (ThreadsOK /\ RegisterOK)'
  BY ThreadsKept, RegisterKept
<1> QED BY <1>1, <1>2, PTL DEF Spec

\* No correction brings a retired device back, correct_device_asset looks at the
\* row it holds; only an enrolment (enroll_device) changes what its lifecycle says.
THEOREM RetirementIsFinal == Spec => []RetiredIsFinal
<1>1. RegisterOK => RetiredIsFinal
  BY DEF RegisterOK, RowsOK
<1> QED BY <1>1, RegisterAlways, PTL

\* The log of a device explains itself whichever of two registrations came first
\* (register_device) and whatever enrolments raise the level in between
\* (enroll_device), and one school is registered (register_school).
THEOREM RegistrationsAreExplained == Spec => []RegistrationExplained
<1>1. RegisterOK => RegistrationExplained
  <2> SUFFICES ASSUME RegisterOK PROVE RegistrationExplained
    OBVIOUS
  <2>1. RowsOK /\ registered <= 1
    BY DEF RegisterOK, RowsOK
  <2>2. ASSUME NEW d \in Devices, NEW i \in DOMAIN registrations[d]
        PROVE  /\ Explained(d, i)
               /\ registrations[d][1].type = "registered" => Level(d) = registrations[d][1].stored
    BY <2>1, <2>2 DEF RowsOK, Level
  <2> QED BY <2>1, <2>2 DEF RegistrationExplained, Explained
<1> QED BY <1>1, RegisterAlways, PTL
=============================================================================
