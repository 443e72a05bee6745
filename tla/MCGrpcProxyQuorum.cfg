\* 3 of 5, nothing fails during the call: the signers that are up decide it.
SPECIFICATION FairSpec
CONSTANTS
  Signers = {s1, s2, s3, s4, s5}
  Threshold = 3
  Messages = {m1}
  CommitmentIDs = {c1}
  NoReply = NoReply
  MaxCrashes = 0
  Faults = {}
INVARIANTS StrandedNonces
PROPERTIES QuorumDecides
CHECK_DEADLOCK FALSE
