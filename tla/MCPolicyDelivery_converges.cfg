SPECIFICATION DeliverySpec
CONSTANTS
  Workers = {w1}
  Scenarios <- Observed
  Revisions = {r1, r2}
  Modes = {"lesson"}
  Packages = {a, b}
  Store = {b}
  Filtering = {r1}
  MaxChanges = 3
  MaxMishaps = 2
  r1 = r1
  r2 = r2
  a = a
  b = b
  NoRevision = none
  PolicyOf <- MCPolicyOf
  Blocked <- MCBlocked
  DefaultMode <- MCDefaultMode
  Application <- MCApplication
  Location <- MCLocation
  Refusable = {a}
  Targets <- MCTargets
PROPERTIES
  AssignedIsEnforced
CHECK_DEADLOCK FALSE
