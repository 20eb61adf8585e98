SPECIFICATION FairSpec
CONSTANTS
  d1 = d1
  d2 = d2
  c1 = c1
  c2 = c2
  p1 = p1
  p2 = p2
  r1 = r1
  r2 = r2
  r3 = r3
  r4 = r4
  Threads = {t1, t2}
  NoThread = NoThread
  NoRequest = NoRequest
  NoCredential = NoCredential
  FreshNonce = FreshNonce
  NoReport = NoReport
  NoPolicy = NoPolicy
  NoError = NoError
  NoUsage = NoUsage
  NoOverride = NoOverride
  NoRevision = NoRevision
  NoVersion = NoVersion
  Rows <- MCRows
  Devices <- MCDevices
  Registered = {d1}
  LegacyDevices = {d1}
  Credentials = {c1, c2}
  OwnerOf <- MCOwnerOf
  EnrollmentMode = "legacy"
  Revisions = {r1, r2, r3, r4}
  Documented = {r1, r2, r3}
  PolicyOf <- MCPolicyOf
  VersionOf <- MCVersionOf
  Days = {"monday"}
  ClockSkew = 1
  NonceTtl = 2
  Workloads <- MCWorkloads
INVARIANTS
  TypeOK
  StateIsLatest
  ReceiptsHonest
  OverrideExplained
  SyncEvidenceLinked
  OperationReachesDesired
  NoReplayInWindow
PROPERTIES
  RequestsEnd
CHECK_DEADLOCK FALSE
