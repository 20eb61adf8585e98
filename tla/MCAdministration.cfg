SPECIFICATION FairSpec
CONSTANTS
  m1 = m1
  m2 = m2
  s1 = s1
  s2 = s2
  s3 = s3
  s4 = s4
  g1 = g1
  g2 = g2
  g3 = g3
  g4 = g4
  g5 = g5
  g6 = g6
  g7 = g7
  g8 = g8
  x = x
  y = y
  d1 = d1
  d2 = d2
  a1 = a1
  a2 = a2
  dpc = dpc
  Threads = {t1, t2}
  NoThread = NoThread
  NoRequest = NoRequest
  Rows <- MCRows
  Administrators = {m1, m2}
  Permissions = {"administrator.manage", "policy.manage"}
  Sessions = {s1, s2, s3, s4}
  GrantIds = {g1, g2, g3, g4, g5, g6, g7, g8}
  Passwords = {"old", "new", "bad"}
  MaxAttempts = 2
  NoAccount = NoAccount
  NoSession = NoSession
  MinutesPerDay = 3
  DaysPerWeek = 3
  Dpc = dpc
  NoSection = NoSection
  Policies = {x, y}
  Applications = {a1, a2}
  MaxVersion = 4
  NoPolicy = NoPolicy
  NoPayload = NoPayload
  Devices = {d1, d2}
  NoDevice = NoDevice
  NoAsset = NoAsset
  Assets = {"asset1", "asset2"}
  NoLocation = NoLocation
  NoSchool = NoSchool
  Workloads <- MCWorkloads
INVARIANTS
  TypeOK
  OpenSessionsCurrent
  FailuresCounted
  PoliciesHonoured
  RevisionsNumbered
  
  RegistrationExplained
PROPERTIES
  RequestsEnd
CHECK_DEADLOCK FALSE
