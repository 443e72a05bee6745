\* Two concurrent calls; one signer crash and restart.
SPECIFICATION Spec
CONSTANTS
  Signers = {s1, s2, s3}
  Threshold = 2
  Messages = {m1, m2}
  CommitmentIDs = {c1, c2}
  NoReply = NoReply
  MaxCrashes = 1
  Faults = {"restart"}
SYMMETRY Symmetry
INVARIANTS TypeOK SessionsIsolated AggregationSucceeds SendNeverBlocks
CHECK_DEADLOCK FALSE
