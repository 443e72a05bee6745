\* One ceremony in which nothing fails.
SPECIFICATION Spec
CONSTANTS
  N = 3
  Ceremonies = {a}
  NoPoly = NoPoly
  NoResult = NoResult
  MaxRestarts = 0
  NetFaults = FALSE
INVARIANTS KeyShareMatchesGroupKey
CHECK_DEADLOCK FALSE
