\* Two proxies and genkey share a file; one proxy has a file of its own.
SPECIFICATION Spec
CONSTANTS
  p1 = p1  p2 = p2  p3 = p3  g = g
  shared = shared  own = own
  k0 = k0  k1 = k1  k2 = k2
  Proxies = {p1, p2, p3}
  Tools = {g}
  Files = {shared, own}
  KeyFile <- MCKeyFile
  Keys = {k0, k1, k2}
  DeployedKey = k0
  NoKey = NoKey  Absent = Absent  Torn = Torn
  MaxCrashes = 1
  ReadFaults = {own}
  Radix = 2
  CurveSize = 2
  Scalars = {1, 3}
INVARIANTS TypeOK SameFileSameKey UsedKeyOnFile SignatureIsP1363
PROPERTIES CopiesInterchangeable RestartHeals
CHECK_DEADLOCK FALSE
