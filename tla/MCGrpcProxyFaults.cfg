\* One call against every kind of fault; the abstract specification; liveness.
SPECIFICATION FairSpec
CONSTANTS
  Signers = {s1, s2, s3}
  Threshold = 2
  Messages = {m1}
  CommitmentIDs = {c1}
  NoReply = NoReply
  MaxCrashes = 1
  Faults = {"restart", "hang", "net", "proxy"}
INVARIANTS TokenBacked
PROPERTIES ImplementsOracle CallReturns GoroutinesEnd
CHECK_DEADLOCK FALSE
