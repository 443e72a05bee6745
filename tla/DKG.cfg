\* Two ceremonies that overlap or follow each other, a restart, lost calls.
SPECIFICATION FairSpec
CONSTANTS
  N = 2
  Ceremonies = {a, b}
  NoPoly = NoPoly
  NoResult = NoResult
  MaxRestarts = 1
  NetFaults = TRUE
INVARIANTS TypeOK CompleteCeremonySound GroupKeyWhole PackagesRouted
PROPERTIES CeremonyEnds
CHECK_DEADLOCK FALSE
