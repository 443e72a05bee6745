\* Two concurrent requests, one signer crash and restart, failing connections.
SPECIFICATION FairSpec
CONSTANTS
  s1 = s1
  s2 = s2
  Signers = {s1, s2}
  Ports <- PortList
  Threshold = 2
  Messages = {Hello, Default, k1}
  Claims = {k1}
  DefaultClaims = Default
  Hello = Hello
  NoBody = NoBody
  NoReply = NoReply
  Requests = {r1, r2}
  CommitmentIDs = {c1, c2}
  MaxCrashes = 1
  Faults = {"restart", "net", "proxy"}
INVARIANTS TypeOK ResponseBacked CollectedSharesAggregate NoncesStayInRequest
PROPERTIES RequestReturns
CHECK_DEADLOCK FALSE
