\* Three requests at one signer, which may crash and come back; slow clients.
SPECIFICATION FairSpec
CONSTANTS
  Signers = {s1}
  Threshold = 1
  Messages = {m1, m2}
  CommitmentIDs = {c1, c2}
  MaxCrashes = 1
  Faults = {"restart"}
  NumRequests = 3
  Free = Free
  NoCall = NoCall
INVARIANTS TypeOK NonceSingleUse NonceAnsweredOnce
PROPERTIES ImplementsSignerNode RequestsAnswered
CHECK_DEADLOCK FALSE
