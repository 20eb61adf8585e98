SPECIFICATION Spec
CONSTANTS
  Workers = {w1, w2}
  w1 = w1
  w2 = w2
  Scenarios <- KeptScenarios
  Revisions = {r1, r2, r3}
  Modes = {"lesson", "break"}
  Packages = {a, b}
  Store = {b}
  Refusable = {a}
  Filtering = {r3}
  r1 = r1
  r2 = r2
  r3 = r3
  a = a
  b = b
  NoRevision = none
  PolicyOf <- MCPolicyOf
  Blocked <- MCBlocked
  DefaultMode <- MCDefaultMode
  Application <- MCApplication
  Location <- MCLocation
  Targets <- MCTargets
INVARIANTS
  LastPolicyKept
