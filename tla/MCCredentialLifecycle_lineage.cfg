SPECIFICATION MCSpec
CONSTANTS
  Devices = {d1, d2}
  Keys = {k1, k2, k3}
  Tokens = {t1, t2}
  Threads = {h1, h2}
  Plans <- LineagePlans
  MaxFailures = 2
  MaxLapses = 1
  Flaws = {"none", "secret", "proof"}
  NoDevice = NoDevice
  NoKey = NoKey
  NoToken = NoToken
  d1 = d1
  d2 = d2
  k1 = k1
  k2 = k2
  k3 = k3
  t1 = t1
  t2 = t2
  h1 = h1
  h2 = h2
INVARIANTS
  RevokedStaysOut
