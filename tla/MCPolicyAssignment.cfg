SPECIFICATION Spec
CONSTANTS
  d1 = d1
  r1 = r1
  r2 = r2
  p1 = p1
  p2 = p2
  t1 = t1
  t2 = t2
  t3 = t3
  NoThread = NoThread
  NoRequest = NoRequest
  NoRevision = NoRevision
  Devices = {d1}
  Threads = {t1, t2, t3}
  Revisions = {r1, r2}
  PolicyOf <- MCPolicyOf
  MaxEvents = 4
  MaxTime = 1
INVARIANTS
  TypeOK
  AtMostOneActive
  EvidenceExplainsState
  EvidenceVerifies
  NoDraftAssigned
PROPERTIES
  RetiredIsClosed
