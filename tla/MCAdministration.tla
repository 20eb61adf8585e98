--------------------------- MODULE MCAdministration ---------------------------
\* Two threads, two administrators.  Each workload puts together the requests
\* that meet in one part of the code; days have three minutes and weeks three
\* days, the least with a window that runs past midnight and a day that is
\* neither the one before nor the one after another.
EXTENDS Administration, TLC

CONSTANTS m1, m2, s1, s2, s3, s4, g1, g2, g3, g4, g5, g6, g7, g8, d1, d2, x, y, a1, a2, dpc

MCRows ==
  ({"account"} \X Administrators) \union ({"policy"} \X Policies)
    \union ({"device", "location"} \X Devices)

Both == {"administrator.manage", "policy.manage"}

Grants(permissions) ==
  {[permission |-> p, id |-> IF p = Manage THEN g1 ELSE g2] : p \in permissions}

Account == NewAccount("old")

SessionOf(a) == [administrator |-> a, password |-> "old", state |-> "open"]

NoApplications ==
  [a \in Applications |-> [package |-> a, status |-> "disabled", educational |-> FALSE,
                           blocked |-> FALSE, category |-> "other"]]

Approve(a) == [NoApplications[a] EXCEPT !.status = "enabled", !.educational = TRUE]

\* Two managers with a session each; nothing else there yet.
Base ==
  [accounts |-> [a \in Administrators |-> Account],
   grants |-> [a \in Administrators |-> Grants(Both)],
   sessions |-> [s \in Sessions |-> IF s = s1 THEN SessionOf(m1)
                                    ELSE IF s = s2 THEN SessionOf(m2) ELSE NoSession],
   applications |-> NoApplications,
   devices |-> [d \in Devices |-> NoDevice],
   requests |-> {}, parallel |-> 2, meanwhile |-> {}, events |-> 0]

Panel(session, kind, permission) ==
  [kind |-> kind, session |-> session, permission |-> permission]

Command(kind, operator) == [kind |-> kind, session |-> NoSession, operator |-> operator]

LogIn(a, password) ==
  [kind |-> "login", session |-> NoSession, target |-> a, password |-> password]

LogOut(session) == [kind |-> "logout", session |-> session]

Manages1(kind, target) ==
  Panel(s1, kind, Manage) @@ [target |-> target, password |-> "old"]
Manages2(kind, target) ==
  Panel(s2, kind, Manage) @@ [target |-> target, password |-> "old"]

NewPassword(q) == q @@ [newPassword |-> "new"]
With(q, permissions) == q @@ [permissions |-> permissions]

AccountWorkloads ==
  { [Base EXCEPT !.requests = {LogIn(m2, "old"), NewPassword(Manages1("reset", m2)),
                               LogOut(s2), Manages1("revoke", m2)}],
    [Base EXCEPT !.requests = {LogIn(m2, "old"), Manages1("disable", m2),
                               NewPassword(Manages1("reset", m2))}],
    [Base EXCEPT !.requests = {LogIn(m2, "old"), LogIn(m2, "bad"),
                               NewPassword(Manages1("reset", m2))},
                 !.meanwhile = {"time"}],
    [Base EXCEPT !.requests = {With(Manages1("permissions", m2), {}),
                               With(Manages1("permissions", m2), {Manage}),
                               Manages2("revoke", m2),
                               NewPassword(Command("reset", m1) @@
                                 [target |-> m2, password |-> "old"])}],
    [Base EXCEPT !.accounts = [a \in Administrators |-> NoAccount],
                 !.grants = [a \in Administrators |-> {}],
                 !.sessions = [s \in Sessions |-> NoSession],
                 !.requests = {LogIn(m2, "bad"),
                               NewPassword(Command("bootstrap", m1) @@ [target |-> m1]),
                               NewPassword(Command("bootstrap", m2) @@ [target |-> m2]),
                               NewPassword(Command("create", m1) @@
                                 [target |-> m2, password |-> "new"])}] }
-----------------------------------------------------------------------------
Mode(blocked) == [allowed |-> {dpc}, blocked |-> blocked, lockTask |-> {dpc}]

Payload ==
  [default |-> "open", exhausted |-> "open", limit |-> 2, reset |-> 0, emergency |-> {dpc},
   modes |-> [m \in {"open", "lesson", "exam"} |-> Mode({})],
   schedules |-> {}, rules |-> {}, network |-> {}, telephony |-> {"preserve_emergency_calls"},
   code |-> NoSection, description |-> NoSection, use |-> NoSection,
   applications |-> NoSection, controls |-> NoSection, restrictions |-> NoSection,
   lock |-> NoSection, settings |-> NoSection, compliance |-> NoSection,
   offline |-> NoSection, collected |-> NoSection]

Use(mode, kiosk) == [mode |-> mode, kiosk |-> kiosk, shown |-> TRUE, school |-> NoSection]

Windows == {w \in [start : Minutes, end : Minutes] : w.start # w.end}

Schedules(id, mode, priorities) ==
  {[id |-> id, mode |-> mode, start |-> w.start, end |-> w.end, days |-> days,
    priority |-> priority] :
     w \in Windows, days \in (SUBSET WeekDays) \ {{}}, priority \in priorities}

Timetables ==
  {[Payload EXCEPT !.schedules = {s, o}] :
     s \in {z \in Schedules(1, "lesson", {1}) : Cardinality(z.days) < 3},
     o \in {z \in Schedules(2, "exam", {1, 2}) : Cardinality(z.days) < 3}}

NetworkSettings ==
  {{"allow_mobile_data"} \union allowed : allowed \in
     SUBSET {"allow_wifi", "allow_hotspot_creation", "allow_vpn_changes",
             "allow_network_reset"}}

Restrictions ==
  {blocked \union others : blocked \in SUBSET {"block_network_reset", "block_wifi_changes"},
                           others \in {{}, Examination}}

Sections ==
  {[Payload EXCEPT !.network = network, !.settings = settings,
                   !.restrictions = restrictions, !.use = use] :
     network \in SUBSET {"disallow_tethering", "disallow_user_vpn"},
     settings \in NetworkSettings \union {NoSection},
     restrictions \in Restrictions \union {NoSection},
     use \in {NoSection, Use("examination", FALSE)}}

\* The sections that stand for themselves, each with what is allowed and what is
\* not at its limits, over restrictions and network settings that share names
\* with them.
Others ==
  LET base == [Payload EXCEPT !.settings = {"allow_mobile_data", "allow_bluetooth"},
                              !.network = {"disallow_tethering", "disallow_user_vpn"},
                              !.restrictions = {"block_network_reset", "disable_location"}]
  IN  {[base EXCEPT !.lock = [after |-> after, change |-> change]] :
         after \in {0, 1, 2, 60}, change \in BOOLEAN}
      \union {[base EXCEPT !.limit = limit, !.reset = reset] :
         limit \in 0 .. MinutesPerDay + 1, reset \in 0 .. MinutesPerDay}
      \union {[base EXCEPT !.controls = [allow |-> allow, sharing |-> {}]] :
         allow \in SUBSET {"allow_installation_from_unknown_sources",
                           "allow_disable_of_approved_applications",
                           "allow_file_sharing_applications"}}
      \union {[base EXCEPT !.compliance = [after |-> after]] : after \in {0, 1, 30, 31}}
      \union {[base EXCEPT !.offline = offline] :
         offline \in SUBSET (OfflineRequired \union {"expire_policy_when_offline"})}
      \union {[base EXCEPT !.collected = collected] :
         collected \in {Management, Management \union {"read_photographs"},
                        Management \ {"store_compliance_result"}}}
      \union {[base EXCEPT !.telephony = {}], [base EXCEPT !.code = "c"],
               [base EXCEPT !.controls = [allow |-> {"allow_everything"}, sharing |-> {}]],
               [base EXCEPT !.restrictions = {"block_everything"}]}

NewPolicy(payload) == Panel(s1, "policy", "policy.manage") @@ [payload |-> payload]
Revise(p, payload) ==
  Panel(s1, "revision", "policy.manage") @@ [policy |-> p, payload |-> payload]
Lifecycle(p, status) ==
  Panel(s1, "lifecycle", "policy.manage") @@ [policy |-> p, status |-> status]
SetApplication(a, row) ==
  Panel(s1, "application", "policy.manage") @@ [application |-> a, row |-> row]

Uses(required) ==
  [Payload EXCEPT !.use = Use("normal_managed", TRUE),
                  !.applications =
                    {[uuid |-> a1, required |-> required, kiosk |-> TRUE]}]

\* One policy at a time, for each of many payloads.
PayloadWorkloads ==
  {[Base EXCEPT !.requests = {NewPolicy(payload)}, !.parallel = 1] :
     payload \in Timetables \union Sections \union Others}

\* Revisions of the policy x, which is created first.
PolicyWorkloads ==
  { [Base EXCEPT !.requests = {NewPolicy([Payload EXCEPT !.code = "c",
                                                        !.description = "of it"]),
                               Revise(x, Payload),
                               Revise(x, [Payload EXCEPT !.default = "lesson"]),
                               Revise(x, [Payload EXCEPT !.rules =
                                 {[id |-> 1, domain |-> "d", action |-> "block"],
                                  [id |-> 2, domain |-> "d", action |-> "block"]}])}],
    [Base EXCEPT !.requests = {NewPolicy(Uses(TRUE)), Revise(x, Uses(FALSE)),
                               Lifecycle(x, "active"),
                               SetApplication(a1, [Approve(a1) EXCEPT !.package = a2])},
                 !.applications = [NoApplications EXCEPT ![a1] = Approve(a1)],
                 !.meanwhile = {"assignments"}],
    [Base EXCEPT !.requests = {NewPolicy(Uses(TRUE)),
                               SetApplication(a1, [Approve(a1) EXCEPT !.blocked = TRUE]),
                               SetApplication(a2, [Approve(a2) EXCEPT
                                                     !.category = "file_sharing"])},
                 !.applications = [NoApplications EXCEPT ![a1] = Approve(a1)]] }
-----------------------------------------------------------------------------
SelfRegister(d, api) ==
  [kind |-> "register", session |-> NoSession, device |-> d, api |-> api]

Enrols(api, bound) ==
  [kind |-> "enroll", session |-> NoSession, device |-> d1, api |-> api, bound |-> bound]

OnDevice(kind, fields) ==
  Panel(s1, kind, "policy.manage") @@ [device |-> d1] @@ fields

Asset(d, api, asset, lifecycle) ==
  Panel(s1, "asset", "policy.manage") @@
  [device |-> d, api |-> api, asset |-> asset, lifecycle |-> lifecycle]

Corrects(asset, lifecycle) ==
  OnDevice("correct", [asset |-> asset, lifecycle |-> lifecycle])

Entered(status, lifecycle) ==
  [Base.devices EXCEPT ![d1] = NewDevice(status, 29, "asset1", lifecycle)]

DeviceWorkloads ==
  { [Base EXCEPT !.requests = {SelfRegister(d1, 29), SelfRegister(d1, 30),
                               OnDevice("locate", [place |-> "class"])},
                 !.events = 3],
    [Base EXCEPT !.requests = {SelfRegister(d1, 29), Enrols(30, TRUE), Enrols(29, FALSE)},
                 !.events = 3],
    [Base EXCEPT !.requests = {Corrects("asset1", "RETIRED"), Corrects("asset1", "ASSIGNED"),
                               Enrols(30, TRUE), OnDevice("redact", << >>)},
                 !.devices = Entered("active", "REGISTERED"),
                 !.meanwhile = {"retention"}],
    [Base EXCEPT !.requests = {Asset(d2, 29, "asset1", "RETIRED"),
                               Asset(d2, 36, "asset2", "ASSIGNED"),
                               Corrects("asset2", "RETIRED"), Corrects("asset1", "ASSIGNED")},
                 !.devices = Entered("active", "REGISTERED")],
    [Base EXCEPT !.requests = {Corrects("asset2", "RETIRED"), OnDevice("redact", << >>),
                               OnDevice("locate", [place |-> "class"]),
                               OnDevice("relocate", [place |-> "department"])},
                 !.devices = Entered("retired", "RETIRED"),
                 !.meanwhile = {"retention"}],
    [Base EXCEPT !.requests =
       {Panel(s1, "school", Manage) @@ [name |-> "first"],
        Panel(s1, "school", Manage) @@ [name |-> "second"],
        Panel(s1, "update_school", Manage) @@ [name |-> "third"],
        NewPolicy([Payload EXCEPT !.use = Use("dedicated_learning", FALSE)])}] }

MCWorkloads == AccountWorkloads \union PayloadWorkloads \union PolicyWorkloads \union DeviceWorkloads
=============================================================================
