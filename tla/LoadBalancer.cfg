\* Three proxies, of which two may die and all may hang; two calls.
SPECIFICATION FairSpec
CONSTANTS
  Proxies = {p1, p2, p3}
  Calls = {c1, c2}
  None = None
  MaxKills = 2
INVARIANTS TypeOK FailoverReachesProxy ExecutedOnce
PROPERTIES CallAnswered
CHECK_DEADLOCK FALSE
