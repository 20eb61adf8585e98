SPECIFICATION Spec
CONSTANTS
  d1 = d1
  d2 = d2
  t1 = t1
  t2 = t2
  p1 = p1
  r1 = r1
  EventCodes = {"boot_observed", "web_filter_blocked"}
  MaxEvents = 2
  MaxSequence = 3
  Digest <- MCDigest
  NoIdentity = NoIdentity
  NoThread = NoThread
  NoRequest = NoRequest
  NoHash <- MCNoHash
  Devices <- MCDevices
  Payloads <- MCPayloads
  Threads = {t1, t2}
INVARIANTS
  TypeOK
  ChainIntact
  ReceiptsBacked
PROPERTIES
  ImplementsAuditLog
