\* A hung signer blocks the first round for ever.
SPECIFICATION FairSpec
CONSTANTS
  Signers = {s1, s2, s3}
  Threshold = 2
  Messages = {m1}
  CommitmentIDs = {c1}
  NoReply = NoReply
  MaxCrashes = 0
  Faults = {"hang"}
PROPERTIES FirstThresholdSuffices
CHECK_DEADLOCK FALSE
