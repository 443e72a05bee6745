------------------------- MODULE CoordinatorProofs --------------------------
(***************************************************************************)
(* Theorems about the HTTP coordinator, for any list of ports, any number  *)
(* of requests at the same time, any threshold and all faults.             *)
(***************************************************************************)
EXTENDS Coordinator, SignerNodeProofs

-----------------------------------------------------------------------------
(* The inductive invariant.                                                *)

AllPorts == {Ports[i] : i \in 1..Len(Ports)}

\* The signers the current loop of r is done with.
Visited(r) == {Ports[i] : i \in 1..(next[r] - 1)}

\* Whether collectCommitments of r was given commitment id by signer s, the reply
\* it has not looked at included.
Holds(r, s, id) ==
  \/ s \in DOMAIN commitments[r] /\ commitments[r][s] = id
  \/ pc[r] = "commit" /\ call[r] = "answered" /\ s = Port(r) /\ reply[r] = id

\* What the two loops have at each place.
Progress(r) ==
  /\ pc[r] = "idle" =>
       /\ next[r] = 1 /\ call[r] = "posted" /\ reply[r] = NoReply
       /\ DOMAIN commitments[r] = {}
  /\ pc[r] \in {"idle", "commit"} => signatures[r] = {}
  /\ pc[r] = "commit" =>
       /\ DOMAIN commitments[r] = Visited(r)
       /\ call[r] = "posted" => reply[r] = NoReply
       /\ call[r] = "answered" => reply[r] \in CommitmentIDs
  /\ pc[r] = "share" =>
       /\ DOMAIN commitments[r] = AllPorts
       /\ signatures[r] = {SignatureShare(s, message[r], commitments[r]) : s \in Visited(r)}
       /\ reply[r] # NoReply =>
            /\ call[r] = "answered"
            /\ reply[r] = SignatureShare(Port(r), message[r], commitments[r])
            /\ reply[r] \in shares
  /\ pc[r] = "aggregate" =>
       /\ DOMAIN commitments[r] = AllPorts
       /\ signatures[r] = {SignatureShare(s, message[r], commitments[r]) : s \in AllPorts}
  /\ signatures[r] \subseteq shares

\* A commitment was drawn for the one request that holds it.
CommitmentsOwned ==
  \A r \in Requests, s \in Signers, id \in CommitmentIDs : Holds(r, s, id) =>
    id \in drawn[s] /\ \A q \in Requests \ {r} : ~Holds(q, s, id)

\* Every share was asked for by a request, for its message and its complete list.
SharesAskedFor ==
  \A sh \in shares : \E q \in Requests :
    pc[q] \notin {"idle", "commit"} /\ sh.msg = message[q] /\ sh.list = commitments[q]

CoordInv ==
  /\ TypeOK
  /\ SignerInv
  /\ \A r \in Requests : Progress(r)
  /\ CommitmentsOwned
  /\ SharesAskedFor
  /\ ResponseBacked

LEMMA PortType ==
  ASSUME TypeOK, NEW r \in Requests
  PROVE  Port(r) \in Signers /\ Port(r) \in AllPorts /\ next[r] \in 1..Len(Ports)
BY CoordinatorAssumption DEF TypeOK, Port, AllPorts

LEMMA CoordInvInit == Init => CoordInv
<1> SUFFICES ASSUME Init PROVE CoordInv
  OBVIOUS
<1>1. SignerInv /\ SignerTypeOK
  BY SignerInvInit DEF Init, SignerInv
<1>2. 1 \in 1..Len(Ports) /\ Hello \in Messages
  BY CoordinatorAssumption
<1>3. <<>> \in CommitmentLists /\ DOMAIN <<>> = {}
  <2>1. <<>> \in [{} -> CommitmentIDs]
    OBVIOUS
  <2> QED
    BY <2>1 DEF CommitmentLists
<1>4. TypeOK
  BY <1>1, <1>2, <1>3 DEF Init, TypeOK, Endpoints
<1>5. \A r \in Requests : Progress(r)
  BY <1>3 DEF Init, Progress
<1>6. CommitmentsOwned
  BY <1>3 DEF Init, CommitmentsOwned, Holds
<1>7. SharesAskedFor /\ ResponseBacked
  BY DEF Init, SignerInit, SharesAskedFor, ResponseBacked
<1> QED
  BY <1>1, <1>4, <1>5, <1>6, <1>7 DEF CoordInv

-----------------------------------------------------------------------------
(* What a step may do to the invariant.                                    *)

\* Every step of the coordinator is a step of the signers under arbitrary callers,
\* or does not touch them.
LEMMA SignerStep ==
  CoordInv /\ [Next]_vars => [SignerNext]_signerVars
<1> SUFFICES ASSUME CoordInv, [Next]_vars PROVE SignerNext \/ UNCHANGED signerVars
  OBVIOUS
<1>1. ASSUME NEW r \in Requests, CommitServed(r) PROVE SignerNext
  <2>1. Port(r) \in Signers
    BY PortType DEF CoordInv
  <2> QED
    BY <1>1, <2>1 DEF CommitServed, SignerNext, AnyCall
<1>2. ASSUME NEW r \in Requests, SignServed(r) PROVE SignerNext
  <2>1. /\ Port(r) \in Signers /\ message[r] \in Messages
        /\ commitments[r] \in CommitmentLists
    BY PortType DEF CoordInv, TypeOK
  <2> QED
    BY <1>2, <2>1 DEF SignServed, SignerNext, AnyCall
<1>3. ASSUME NEW r \in Requests, Arrive(r) PROVE UNCHANGED signerVars
  BY <1>3 DEF Arrive, collectCommitmentHandler, collectSignaturesHandler, thresholdSignHandler,
              thresholdJWTHandler, signJWTHandler, signJWTHandlerRejects, Begin
<1>4. ASSUME NEW r \in Requests,
             CommitReplied(r) \/ SignReplied(r) \/ PostFails(r) \/ Aggregate(r)
      PROVE  UNCHANGED signerVars
  BY <1>4 DEF CommitReplied, SignReplied, PostFails, Aggregate
<1>5. ASSUME NEW s \in Signers, Fault(s) PROVE SignerNext
  BY <1>5 DEF Fault, SignerNext
<1>6. CoordinatorDies => UNCHANGED signerVars
  BY DEF CoordinatorDies
<1> QED
  BY <1>1, <1>2, <1>3, <1>4, <1>5, <1>6 DEF Next, Step, NetFault, vars

\* The signers keep their invariant, and no share is taken back.
LEMMA SignersKept ==
  ASSUME CoordInv, [Next]_vars
  PROVE  SignerInv' /\ SignerTypeOK' /\ shares \subseteq shares'
<1>1. [SignerNext]_signerVars
  BY SignerStep
<1>2. SignerInv /\ SignerInv' /\ SignerTypeOK'
  BY <1>1, SignerInvNext DEF CoordInv, SignerInv
<1>3. ASSUME NEW s \in Signers, AnyCall(s) PROVE shares \subseteq shares'
  BY <1>3 DEF AnyCall, commitHandler, signHandlerOK, signHandlerError, frostSign, signerVars
<1>4. ASSUME NEW s \in Signers, SignerFault(s) PROVE shares \subseteq shares'
  BY <1>2, <1>4, FaultForgets DEF SignerInv
<1> QED
  BY <1>1, <1>2, <1>3, <1>4 DEF SignerNext, signerVars

\* A step leaves request n alone.
Untouched(n) ==
  /\ endpoint'[n] = endpoint[n] /\ message'[n] = message[n]
  /\ pc'[n] = pc[n] /\ next'[n] = next[n]
  /\ call'[n] = call[n] /\ reply'[n] = reply[n]
  /\ commitments'[n] = commitments[n] /\ signatures'[n] = signatures[n]

LEMMA ProgressFrame ==
  ASSUME NEW n \in Requests, Progress(n), Untouched(n), shares \subseteq shares'
  PROVE  /\ Progress(n)'
         /\ \A s, id : Holds(n, s, id)' => Holds(n, s, id)
<1> USE DEF Untouched
<1>1. Visited(n)' = Visited(n) /\ Port(n)' = Port(n)
  BY DEF Visited, Port
<1>2. AllPorts' = AllPorts
  BY DEF AllPorts
<1>3. Progress(n)'
  BY <1>1, <1>2 DEF Progress, SignatureShare
<1>4. \A s, id : Holds(n, s, id)' => Holds(n, s, id)
  BY <1>1 DEF Holds
<1> QED
  BY <1>3, <1>4

\* Nobody is given a commitment.
LEMMA CommitmentsOwnedKept ==
  ASSUME CommitmentsOwned, UNCHANGED drawn,
         \A r \in Requests, s \in Signers, id \in CommitmentIDs :
           Holds(r, s, id)' => Holds(r, s, id)
  PROVE  CommitmentsOwned'
BY DEF CommitmentsOwned

\* Nothing is signed, and no list in use changes.
LEMMA SharesAskedForKept ==
  ASSUME SharesAskedFor, UNCHANGED shares,
         \A q \in Requests : pc[q] \notin {"idle", "commit"} =>
           /\ pc'[q] \notin {"idle", "commit"}
           /\ message'[q] = message[q] /\ commitments'[q] = commitments[q]
  PROVE  SharesAskedFor'
BY DEF SharesAskedFor

\* A response stays backed, and only Aggregate makes one that must be.
LEMMA ResponseBackedKept ==
  ASSUME ResponseBacked, shares \subseteq shares',
         \A n \in Requests : pc'[n] = "ok" =>
           \/ endpoint'[n] \in {"collect-commitment", "collect-signatures"}
           \/ /\ pc[n] = "ok" /\ endpoint'[n] = endpoint[n] /\ message'[n] = message[n]
              /\ commitments'[n] = commitments[n]
  PROVE  ResponseBacked'
BY DEF ResponseBacked, SignatureShare

-----------------------------------------------------------------------------
(* The actions.                                                            *)

LEMMA KeptByBegin ==
  ASSUME CoordInv, SignerInv', SignerTypeOK', NEW r \in Requests, NEW e \in Endpoints,
         NEW msg \in Messages, Begin(r, e, msg)
  PROVE  CoordInv'
<1> USE DEF CoordInv
<1>1. /\ pc[r] = "idle" /\ pc' = [pc EXCEPT ![r] = "commit"]
      /\ endpoint' = [endpoint EXCEPT ![r] = e] /\ message' = [message EXCEPT ![r] = msg]
      /\ UNCHANGED <<next, call, reply, commitments, signatures, shares, drawn>>
  BY DEF Begin, signerVars
<1>2. TypeOK'
  BY <1>1 DEF TypeOK
<1>3. pc'[r] = "commit" /\ \A n \in Requests \ {r} : Untouched(n)
  BY <1>1 DEF Untouched, TypeOK
<1>4. Progress(r)'
  <2>1. next[r] = 1 /\ DOMAIN commitments[r] = {} /\ call[r] = "posted" /\ reply[r] = NoReply
    BY <1>1 DEF Progress
  <2>2. Visited(r)' = {}
    BY <1>1, <2>1 DEF Visited
  <2> QED
    BY <1>1, <1>3, <2>1, <2>2 DEF Progress
<1>5. \A n \in Requests : Progress(n)'
  BY <1>1, <1>3, <1>4, ProgressFrame
<1>6. CommitmentsOwned'
  <2>1. call[r] = "posted"
    BY <1>1 DEF Progress
  <2>2. \A n \in Requests : \A s, id : Holds(n, s, id)' => Holds(n, s, id)
    BY <1>1, <1>3, <2>1, ProgressFrame DEF Holds
  <2> QED
    BY <1>1, <2>2, CommitmentsOwnedKept
<1>7. SharesAskedFor'
  BY <1>1, <1>3, SharesAskedForKept DEF Untouched
<1>8. ResponseBacked'
  BY <1>1, <1>3, ResponseBackedKept DEF Untouched
<1> QED
  BY <1>2, <1>5, <1>6, <1>7, <1>8

\* A request that ends, without a token: 400, 500, or with the process.
LEMMA KeptByEnd ==
  ASSUME CoordInv, SignerInv', SignerTypeOK',
         endpoint' \in [Requests -> Endpoints],
         pc' \in [Requests -> {"idle", "commit", "share", "aggregate"} \cup Returned],
         \A n \in Requests :
           \/ endpoint'[n] = endpoint[n] /\ pc'[n] = pc[n]
           \/ pc'[n] \in Returned \ {"ok"},
         UNCHANGED <<message, next, call, reply, commitments, signatures, shares, drawn>>
  PROVE  CoordInv'
<1> USE DEF CoordInv
<1>1. TypeOK'
  BY DEF TypeOK
<1>2. ASSUME NEW n \in Requests
      PROVE  Progress(n)' /\ \A s, id : Holds(n, s, id)' => Holds(n, s, id)
  <2>1. CASE endpoint'[n] = endpoint[n] /\ pc'[n] = pc[n]
    BY <2>1, ProgressFrame DEF Untouched
  <2>2. CASE pc'[n] \in Returned \ {"ok"}
    BY <2>2 DEF Progress, Returned, Holds
  <2> QED
    BY <2>1, <2>2
<1>3. CommitmentsOwned'
  BY <1>2, CommitmentsOwnedKept
<1>4. SharesAskedFor'
  BY SharesAskedForKept DEF Returned
<1>5. ResponseBacked'
  BY ResponseBackedKept DEF Returned
<1> QED
  BY <1>1, <1>2, <1>3, <1>4, <1>5

LEMMA KeptByCommitServed ==
  ASSUME CoordInv, SignerInv', SignerTypeOK', NEW r \in Requests, CommitServed(r)
  PROVE  CoordInv'
<1> USE DEF CoordInv
<1>1. PICK id \in CommitmentIDs :
        commitHandler(Port(r), id) /\ reply' = [reply EXCEPT ![r] = id]
  BY DEF CommitServed
<1>2. PICK s \in Signers : s = Port(r)
  BY PortType
<1>3. /\ pc[r] = "commit" /\ call[r] = "posted" /\ call' = [call EXCEPT ![r] = "answered"]
      /\ UNCHANGED <<endpoint, message, pc, next, commitments, signatures, shares>>
      /\ id \notin drawn[s] /\ drawn' = [drawn EXCEPT ![s] = @ \cup {id}]
  BY <1>1, <1>2 DEF CommitServed, commitHandler
<1>4. TypeOK'
  BY <1>1, <1>3 DEF TypeOK
<1>5. call'[r] = "answered" /\ reply'[r] = id /\ \A n \in Requests \ {r} : Untouched(n)
  BY <1>1, <1>3 DEF Untouched, TypeOK
<1>6. Port(r)' = s /\ Visited(r)' = Visited(r)
  BY <1>2, <1>3 DEF Port, Visited
<1>7. Progress(r)'
  BY <1>3, <1>5, <1>6 DEF Progress
<1>8. \A n \in Requests : Progress(n)'
  BY <1>3, <1>5, <1>7, ProgressFrame
<1>9. CommitmentsOwned'
  <2>1. \A n \in Requests : \A t, i :
          Holds(n, t, i)' => Holds(n, t, i) \/ (n = r /\ t = s /\ i = id)
    <3>1. \A t, i : Holds(r, t, i)' => Holds(r, t, i) \/ (t = s /\ i = id)
      BY <1>3, <1>5, <1>6 DEF Holds
    <3> QED
      BY <1>3, <1>5, <3>1, ProgressFrame
  <2>2. \A n \in Requests : ~Holds(n, s, id)
    BY <1>3 DEF CommitmentsOwned
  <2>3. \A t \in Signers : drawn[t] \subseteq drawn'[t] /\ (t = s => id \in drawn'[t])
    BY <1>3 DEF TypeOK, SignerTypeOK
  <2> SUFFICES ASSUME NEW n \in Requests, NEW t \in Signers, NEW i \in CommitmentIDs,
                      Holds(n, t, i)'
               PROVE  i \in drawn'[t] /\ \A q \in Requests \ {n} : ~(Holds(q, t, i)')
    BY DEF CommitmentsOwned
  <2>4. CASE n = r /\ t = s /\ i = id
    BY <2>1, <2>2, <2>3, <2>4
  <2>5. CASE ~(n = r /\ t = s /\ i = id)
    <3>1. Holds(n, t, i)
      BY <2>1, <2>5
    <3>2. i \in drawn[t] /\ ~(t = s /\ i = id)
      BY <1>3, <3>1 DEF CommitmentsOwned
    <3> QED
      BY <2>1, <2>3, <3>1, <3>2 DEF CommitmentsOwned
  <2> QED
    BY <2>4, <2>5
<1>10. SharesAskedFor'
  BY <1>3, SharesAskedForKept
<1>11. ResponseBacked'
  BY <1>3, ResponseBackedKept
<1> QED
  BY <1>4, <1>8, <1>9, <1>10, <1>11

\* A turn of a loop visits its port; after the last turn all ports are visited.
LEMMA LoopTurn ==
  ASSUME TypeOK, NEW r \in Requests
  PROVE  /\ Visited(r) \cup {Port(r)} = {Ports[i] : i \in 1..next[r]}
         /\ next[r] < Len(Ports) => next[r] + 1 \in 1..Len(Ports)
         /\ ~(next[r] < Len(Ports)) => Visited(r) \cup {Port(r)} = AllPorts
<1>1. next[r] \in 1..Len(Ports) /\ Len(Ports) \in Nat
  BY CoordinatorAssumption DEF TypeOK
<1>2. 1..next[r] = 1..(next[r] - 1) \cup {next[r]}
  BY <1>1
<1>3. Visited(r) \cup {Port(r)} = {Ports[i] : i \in 1..next[r]}
  BY <1>2 DEF Visited, Port
<1>4. ~(next[r] < Len(Ports)) => next[r] = Len(Ports)
  BY <1>1
<1> QED
  BY <1>1, <1>3, <1>4 DEF AllPorts

LEMMA KeptByCommitReplied ==
  ASSUME CoordInv, SignerInv', SignerTypeOK', NEW r \in Requests, CommitReplied(r)
  PROVE  CoordInv'
<1> USE DEF CoordInv
<1>1. PICK s \in Signers : s = Port(r)
  BY PortType
<1>2. PICK list : list = [t \in DOMAIN commitments[r] \cup {s} |->
                            IF t = s THEN reply[r] ELSE commitments[r][t]]
  OBVIOUS
<1>3. /\ pc[r] = "commit" /\ call[r] = "answered"
      /\ commitments' = [commitments EXCEPT ![r] = list]
      /\ call' = [call EXCEPT ![r] = "posted"] /\ reply' = [reply EXCEPT ![r] = NoReply]
      /\ UNCHANGED <<endpoint, message, signatures, shares, drawn>>
  BY <1>1, <1>2 DEF CommitReplied, signerVars
<1>4. \/ /\ next[r] < Len(Ports) /\ next' = [next EXCEPT ![r] = next[r] + 1] /\ UNCHANGED pc
      \/ /\ ~(next[r] < Len(Ports)) /\ next' = [next EXCEPT ![r] = 1]
         /\ pc' = [pc EXCEPT ![r] = IF endpoint[r] = "collect-commitment" THEN "ok" ELSE "share"]
  BY DEF CommitReplied
<1>5. /\ DOMAIN commitments[r] = Visited(r) /\ reply[r] \in CommitmentIDs
      /\ signatures[r] = {}
  BY <1>3 DEF Progress
<1>6. list \in CommitmentLists /\ DOMAIN list = Visited(r) \cup {s}
  <2>1. commitments[r] \in CommitmentLists
    BY DEF TypeOK
  <2>2. PICK Q \in SUBSET Signers : commitments[r] \in [Q -> CommitmentIDs]
    BY <2>1 DEF CommitmentLists
  <2>3. list \in [Q \cup {s} -> CommitmentIDs]
    BY <1>2, <1>5, <2>2
  <2>4. Q \cup {s} \in SUBSET Signers
    BY <2>2
  <2> QED
    BY <1>2, <1>5, <2>3, <2>4 DEF CommitmentLists
<1>7. next' \in [Requests -> 1..Len(Ports)]
  <2>1. 1 \in 1..Len(Ports)
    BY CoordinatorAssumption
  <2>2. next \in [Requests -> 1..Len(Ports)]
    BY DEF TypeOK
  <2>3. next[r] < Len(Ports) => next[r] + 1 \in 1..Len(Ports)
    BY LoopTurn
  <2> QED
    BY <1>4, <2>1, <2>2, <2>3
<1>8. pc' \in [Requests -> {"idle", "commit", "share", "aggregate"} \cup Returned]
  BY <1>4 DEF TypeOK, Returned
<1>9. TypeOK'
  BY <1>3, <1>6, <1>7, <1>8 DEF TypeOK
<1>10. \A n \in Requests \ {r} : Untouched(n)
  BY <1>3, <1>4 DEF Untouched, TypeOK
<1>11. call'[r] = "posted" /\ reply'[r] = NoReply /\ commitments'[r] = list
  BY <1>3 DEF TypeOK
<1>12. \/ pc'[r] = "commit" /\ DOMAIN list = Visited(r)'
       \/ pc'[r] = "share" /\ DOMAIN list = AllPorts /\ Visited(r)' = {}
       \/ pc'[r] = "ok" /\ endpoint[r] = "collect-commitment"
  <2>1. CASE next[r] < Len(Ports) /\ next' = [next EXCEPT ![r] = next[r] + 1] /\ UNCHANGED pc
    <3>1. next'[r] - 1 = next[r]
      BY <2>1, PortType DEF TypeOK
    <3>2. Visited(r)' = {Ports[i] : i \in 1..next[r]}
      BY <3>1 DEF Visited
    <3> QED
      BY <1>1, <1>3, <1>6, <2>1, <3>2, LoopTurn
  <2>2. CASE /\ ~(next[r] < Len(Ports)) /\ next' = [next EXCEPT ![r] = 1]
             /\ pc' = [pc EXCEPT ![r] = IF endpoint[r] = "collect-commitment" THEN "ok" ELSE "share"]
    <3>1. next'[r] = 1
      BY <2>2 DEF TypeOK
    <3>2. Visited(r)' = {}
      BY <3>1 DEF Visited
    <3>3. DOMAIN list = AllPorts
      BY <1>1, <1>6, <2>2, LoopTurn
    <3>4. pc'[r] = IF endpoint[r] = "collect-commitment" THEN "ok" ELSE "share"
      BY <2>2 DEF TypeOK
    <3> QED
      BY <3>2, <3>3, <3>4
  <2> QED
    BY <1>4, <2>1, <2>2
<1>13. Progress(r)'
  <2>1. AllPorts' = AllPorts /\ signatures'[r] = {}
    BY <1>3, <1>5 DEF AllPorts
  <2> QED
    BY <1>11, <1>12, <2>1 DEF Progress
<1>14. \A n \in Requests : Progress(n)'
  BY <1>3, <1>10, <1>13, ProgressFrame
<1>15. CommitmentsOwned'
  <2>1. \A t, id : Holds(r, t, id)' => Holds(r, t, id)
    BY <1>1, <1>2, <1>3, <1>11 DEF Holds
  <2>2. \A n \in Requests : \A t, id : Holds(n, t, id)' => Holds(n, t, id)
    BY <1>3, <1>10, <2>1, ProgressFrame
  <2> QED
    BY <1>3, <2>2, CommitmentsOwnedKept
<1>16. SharesAskedFor'
  BY <1>3, <1>10, SharesAskedForKept DEF Untouched
<1>17. ResponseBacked'
  BY <1>3, <1>10, <1>12, ResponseBackedKept DEF Untouched
<1> QED
  BY <1>9, <1>14, <1>15, <1>16, <1>17

LEMMA KeptBySignServed ==
  ASSUME CoordInv, SignerInv', SignerTypeOK', NEW r \in Requests, SignServed(r)
  PROVE  CoordInv'
<1> USE DEF CoordInv
<1>1. PICK s \in Signers : s = Port(r)
  BY PortType
<1>2. PICK sh : sh = SignatureShare(s, message[r], commitments[r])
  OBVIOUS
<1>3. /\ pc[r] = "share" /\ call[r] = "posted" /\ call' = [call EXCEPT ![r] = "answered"]
      /\ UNCHANGED <<endpoint, message, pc, next, commitments, signatures, drawn>>
  BY DEF SignServed, signHandlerOK, signHandlerError, signerVars
<1>4. \/ /\ shares' = shares \cup {sh} /\ sh \in Shares
         /\ reply' = [reply EXCEPT ![r] = sh]
      \/ UNCHANGED <<reply, shares>>
  <2>1. CASE signHandlerOK(s, message[r], commitments[r])
    <3>1. /\ s \in DOMAIN commitments[r] /\ message[r] \in Messages
          /\ commitments[r] \in CommitmentLists
      BY <2>1 DEF signHandlerOK, VerifyCommitmentList, TypeOK
    <3>2. sh \in Shares
      BY <1>2, <3>1, SignatureShareType
    <3> QED
      BY <1>1, <1>2, <2>1, <3>2
      DEF SignServed, signHandlerOK, signHandlerError, frostSign, VerifyCommitmentList
  <2>2. CASE signHandlerError(s, message[r], commitments[r])
    BY <1>1, <1>2, <2>2 DEF SignServed, signHandlerOK, signHandlerError, signerVars
  <2> QED
    BY <1>1, <2>1, <2>2 DEF SignServed
<1>5. shares \subseteq shares'
  BY <1>4
<1>6. TypeOK'
  BY <1>3, <1>4 DEF TypeOK
<1>7. \A n \in Requests \ {r} : Untouched(n)
  BY <1>3, <1>4 DEF Untouched, TypeOK
<1>8. call'[r] = "answered"
  BY <1>3 DEF TypeOK
<1>9. Visited(r)' = Visited(r) /\ Port(r)' = s /\ AllPorts' = AllPorts
  BY <1>1, <1>3 DEF Visited, Port, AllPorts
<1>10. Progress(r)'
  <2>1. reply[r] = NoReply
    BY <1>3 DEF Progress
  <2>2. reply'[r] # NoReply => reply'[r] = sh /\ sh \in shares'
    BY <1>4, <2>1 DEF TypeOK
  <2>3. sh = SignatureShare(Port(r)', message'[r], commitments'[r])
    BY <1>2, <1>3, <1>9
  <2>4. pc'[r] = "share" /\ DOMAIN commitments'[r] = AllPorts'
    BY <1>3, <1>9 DEF Progress
  <2>5. signatures[r] = {SignatureShare(t, message[r], commitments[r]) : t \in Visited(r)}
    BY <1>3 DEF Progress
  <2>6. signatures'[r] = {SignatureShare(t, message'[r], commitments'[r]) : t \in Visited(r)'}
    BY <1>3, <1>9, <2>5
  <2>7. signatures'[r] \subseteq shares'
    BY <1>3, <1>5 DEF Progress
  <2> QED
    BY <1>8, <2>2, <2>3, <2>4, <2>6, <2>7 DEF Progress
<1>11. \A n \in Requests : Progress(n)'
  BY <1>5, <1>7, <1>10, ProgressFrame
<1>12. CommitmentsOwned'
  <2>1. \A t, id : Holds(r, t, id)' => Holds(r, t, id)
    BY <1>3 DEF Holds
  <2>2. \A n \in Requests : \A t, id : Holds(n, t, id)' => Holds(n, t, id)
    BY <1>5, <1>7, <2>1, ProgressFrame
  <2> QED
    BY <1>3, <2>2, CommitmentsOwnedKept
<1>13. SharesAskedFor'
  <2>1. sh.msg = message[r] /\ sh.list = commitments[r]
    BY <1>2 DEF SignatureShare
  <2> QED
    BY <1>3, <1>4, <2>1 DEF SharesAskedFor
<1>14. ResponseBacked'
  BY <1>3, <1>5, ResponseBackedKept
<1> QED
  BY <1>6, <1>11, <1>12, <1>13, <1>14

LEMMA KeptBySignReplied ==
  ASSUME CoordInv, SignerInv', SignerTypeOK', NEW r \in Requests, SignReplied(r)
  PROVE  CoordInv'
<1> USE DEF CoordInv
<1>1. PICK s \in Signers : s = Port(r)
  BY PortType
<1>2. /\ pc[r] = "share" /\ call[r] = "answered"
      /\ call' = [call EXCEPT ![r] = "posted"] /\ reply' = [reply EXCEPT ![r] = NoReply]
      /\ UNCHANGED <<endpoint, message, commitments, shares, drawn>>
  BY DEF SignReplied, signerVars
<1>3. \/ /\ reply[r] = NoReply /\ pc' = [pc EXCEPT ![r] = "error"]
         /\ UNCHANGED <<next, signatures>>
      \/ /\ reply[r] # NoReply
         /\ signatures' = [signatures EXCEPT ![r] = @ \cup {reply[r]}]
         /\ \/ /\ next[r] < Len(Ports) /\ next' = [next EXCEPT ![r] = next[r] + 1] /\ UNCHANGED pc
            \/ /\ ~(next[r] < Len(Ports)) /\ UNCHANGED next
               /\ pc' = [pc EXCEPT ![r] =
                           IF endpoint[r] = "collect-signatures" THEN "ok" ELSE "aggregate"]
  BY DEF SignReplied
<1>4. reply[r] # NoReply =>
        reply[r] = SignatureShare(s, message[r], commitments[r]) /\ reply[r] \in shares
  BY <1>1, <1>2 DEF Progress
<1>5. next' \in [Requests -> 1..Len(Ports)]
  <2>1. next \in [Requests -> 1..Len(Ports)]
    BY DEF TypeOK
  <2>2. next[r] < Len(Ports) => next[r] + 1 \in 1..Len(Ports)
    BY LoopTurn
  <2> QED
    BY <1>3, <2>1, <2>2
<1>6. pc' \in [Requests -> {"idle", "commit", "share", "aggregate"} \cup Returned]
  BY <1>3 DEF TypeOK, Returned
<1>7. signatures' \in [Requests -> SUBSET Shares]
  <2>1. reply[r] # NoReply => reply[r] \in Shares
    BY <1>4 DEF TypeOK, SignerTypeOK
  <2> QED
    BY <1>3, <2>1 DEF TypeOK
<1>8. TypeOK'
  BY <1>2, <1>5, <1>6, <1>7 DEF TypeOK
<1>9. \A n \in Requests \ {r} : Untouched(n)
  BY <1>2, <1>3 DEF Untouched, TypeOK
<1>10. call'[r] = "posted" /\ reply'[r] = NoReply
  BY <1>2 DEF TypeOK
<1>11. /\ DOMAIN commitments[r] = AllPorts /\ AllPorts' = AllPorts
       /\ signatures[r] = {SignatureShare(t, message[r], commitments[r]) : t \in Visited(r)}
       /\ signatures[r] \subseteq shares
  BY <1>2 DEF Progress, AllPorts
<1>12. reply[r] # NoReply =>
         /\ signatures'[r] = {SignatureShare(t, message[r], commitments[r]) :
                                t \in Visited(r) \cup {s}}
         /\ signatures'[r] \subseteq shares
  <2> SUFFICES ASSUME reply[r] # NoReply
               PROVE  /\ signatures'[r] = {SignatureShare(t, message[r], commitments[r]) :
                                             t \in Visited(r) \cup {s}}
                      /\ signatures'[r] \subseteq shares
    OBVIOUS
  <2>1. signatures'[r] = signatures[r] \cup {reply[r]}
    BY <1>3 DEF TypeOK
  <2> QED
    BY <1>4, <1>11, <2>1
<1>13. \/ pc'[r] = "error" /\ signatures'[r] = signatures[r]
       \/ pc'[r] = "share" /\ reply[r] # NoReply /\ Visited(r)' = Visited(r) \cup {s}
       \/ pc'[r] = "aggregate" /\ reply[r] # NoReply /\ AllPorts = Visited(r) \cup {s}
       \/ /\ pc'[r] = "ok" /\ endpoint[r] = "collect-signatures"
          /\ reply[r] # NoReply
  <2>1. CASE reply[r] = NoReply
    BY <1>3, <2>1 DEF TypeOK
  <2>2. CASE /\ reply[r] # NoReply
             /\ next[r] < Len(Ports) /\ next' = [next EXCEPT ![r] = next[r] + 1] /\ UNCHANGED pc
    <3>1. next'[r] - 1 = next[r]
      BY <2>2, PortType DEF TypeOK
    <3>2. Visited(r)' = {Ports[i] : i \in 1..next[r]}
      BY <3>1 DEF Visited
    <3> QED
      BY <1>1, <1>2, <2>2, <3>2, LoopTurn
  <2>3. CASE /\ reply[r] # NoReply
             /\ ~(next[r] < Len(Ports)) /\ UNCHANGED next
             /\ pc' = [pc EXCEPT ![r] =
                         IF endpoint[r] = "collect-signatures" THEN "ok" ELSE "aggregate"]
    <3>1. pc'[r] = IF endpoint[r] = "collect-signatures" THEN "ok" ELSE "aggregate"
      BY <2>3 DEF TypeOK
    <3> QED
      BY <1>1, <2>3, <3>1, LoopTurn
  <2> QED
    BY <1>3, <2>1, <2>2, <2>3
<1>14. Progress(r)'
  BY <1>2, <1>10, <1>11, <1>12, <1>13 DEF Progress, SignatureShare
<1>15. \A n \in Requests : Progress(n)'
  BY <1>2, <1>9, <1>14, ProgressFrame
<1>16. CommitmentsOwned'
  <2>1. \A t, id : Holds(r, t, id)' => Holds(r, t, id)
    BY <1>2, <1>10 DEF Holds
  <2>2. \A n \in Requests : \A t, id : Holds(n, t, id)' => Holds(n, t, id)
    BY <1>2, <1>9, <2>1, ProgressFrame
  <2> QED
    BY <1>2, <2>2, CommitmentsOwnedKept
<1>17. SharesAskedFor'
  BY <1>2, <1>9, <1>13, SharesAskedForKept DEF Untouched
<1>18. ResponseBacked'
  BY <1>2, <1>9, <1>13, ResponseBackedKept DEF Untouched
<1> QED
  BY <1>8, <1>15, <1>16, <1>17, <1>18

\* The one step that answers with a signature or a token.
LEMMA KeptByAggregate ==
  ASSUME CoordInv, SignerInv', SignerTypeOK', NEW r \in Requests, Aggregate(r)
  PROVE  CoordInv'
<1> USE DEF CoordInv
<1>1. /\ pc[r] = "aggregate"
      /\ UNCHANGED <<endpoint, message, next, call, reply, commitments, signatures, shares, drawn>>
      /\ pc' = [pc EXCEPT ![r] = "ok"] \/ pc' = [pc EXCEPT ![r] = "error"]
  BY DEF Aggregate, signerVars
<1>2. TypeOK'
  BY <1>1 DEF TypeOK, Returned
<1>3. pc'[r] \in {"ok", "error"} /\ \A n \in Requests \ {r} : Untouched(n)
  BY <1>1 DEF Untouched, TypeOK
<1>4. Progress(r)'
  BY <1>1, <1>3 DEF Progress
<1>5. \A n \in Requests : Progress(n)'
  BY <1>1, <1>3, <1>4, ProgressFrame
<1>6. CommitmentsOwned'
  <2>1. \A t, id : Holds(r, t, id)' => Holds(r, t, id)
    BY <1>1, <1>3 DEF Holds
  <2>2. \A n \in Requests : \A t, id : Holds(n, t, id)' => Holds(n, t, id)
    BY <1>1, <1>3, <2>1, ProgressFrame
  <2> QED
    BY <1>1, <2>2, CommitmentsOwnedKept
<1>7. SharesAskedFor'
  BY <1>1, <1>3, SharesAskedForKept DEF Untouched
<1>8. ResponseBacked'
  <2>1. /\ DOMAIN commitments[r] = {Ports[i] : i \in 1..Len(Ports)}
        /\ \A s \in DOMAIN commitments[r] :
             SignatureShare(s, message[r], commitments[r]) \in shares
    BY <1>1 DEF Progress, AllPorts
  <2> QED
    BY <1>1, <1>3, <2>1 DEF ResponseBacked, Untouched, SignatureShare
<1> QED
  BY <1>2, <1>5, <1>6, <1>7, <1>8

LEMMA CoordInvNext == CoordInv /\ [Next]_vars => CoordInv'
<1> SUFFICES ASSUME CoordInv, [Next]_vars PROVE CoordInv'
  OBVIOUS
<1>1. SignerInv' /\ SignerTypeOK' /\ shares \subseteq shares'
  BY SignersKept
<1>2. ASSUME NEW r \in Requests, Arrive(r) PROVE CoordInv'
  <2>1. Hello \in Messages /\ DefaultClaims \in Messages /\ Claims \subseteq Messages
    BY CoordinatorAssumption
  <2>2. CASE signJWTHandlerRejects(r)
    <3>1. /\ endpoint' \in [Requests -> Endpoints]
          /\ pc' \in [Requests -> {"idle", "commit", "share", "aggregate"} \cup Returned]
      BY <2>2 DEF signJWTHandlerRejects, CoordInv, TypeOK, Endpoints, Returned
    <3>2. \A n \in Requests :
            \/ endpoint'[n] = endpoint[n] /\ pc'[n] = pc[n]
            \/ pc'[n] \in Returned \ {"ok"}
      BY <2>2 DEF signJWTHandlerRejects, CoordInv, TypeOK, Returned
    <3> QED
      BY <1>1, <2>2, <3>1, <3>2, KeptByEnd DEF signJWTHandlerRejects, signerVars
  <2>3. CASE \E e \in Endpoints, msg \in Messages : Begin(r, e, msg)
    BY <1>1, <2>3, KeptByBegin
  <2> QED
    BY <1>2, <2>1, <2>2, <2>3
    DEF Arrive, collectCommitmentHandler, collectSignaturesHandler, thresholdSignHandler,
        thresholdJWTHandler, signJWTHandler, Endpoints
<1>3. ASSUME NEW r \in Requests, PostFails(r) PROVE CoordInv'
  <2>1. /\ endpoint' \in [Requests -> Endpoints]
        /\ pc' \in [Requests -> {"idle", "commit", "share", "aggregate"} \cup Returned]
    BY <1>3 DEF PostFails, CoordInv, TypeOK, Returned
  <2>2. \A n \in Requests :
          \/ endpoint'[n] = endpoint[n] /\ pc'[n] = pc[n]
          \/ pc'[n] \in Returned \ {"ok"}
    BY <1>3 DEF PostFails, CoordInv, TypeOK, Returned
  <2> QED
    BY <1>1, <1>3, <2>1, <2>2, KeptByEnd DEF PostFails, signerVars
<1>4. ASSUME CoordinatorDies PROVE CoordInv'
  <2>1. /\ endpoint' \in [Requests -> Endpoints]
        /\ pc' \in [Requests -> {"idle", "commit", "share", "aggregate"} \cup Returned]
    BY <1>4 DEF CoordinatorDies, CoordInv, TypeOK, Returned
  <2>2. \A n \in Requests :
          \/ endpoint'[n] = endpoint[n] /\ pc'[n] = pc[n]
          \/ pc'[n] \in Returned \ {"ok"}
    BY <1>4 DEF CoordinatorDies, Returned
  <2> QED
    BY <1>1, <1>4, <2>1, <2>2, KeptByEnd DEF CoordinatorDies, signerVars
<1>5. ASSUME UNCHANGED <<coordVars, shares, drawn>> PROVE CoordInv'
  <2>1. /\ endpoint' \in [Requests -> Endpoints]
        /\ pc' \in [Requests -> {"idle", "commit", "share", "aggregate"} \cup Returned]
    BY <1>5 DEF coordVars, CoordInv, TypeOK
  <2> QED
    BY <1>1, <1>5, <2>1, KeptByEnd DEF coordVars
<1>6. ASSUME NEW s \in Signers, Fault(s) PROVE CoordInv'
  BY <1>5, <1>6, FaultForgets DEF Fault, CoordInv, TypeOK
<1>7. CASE UNCHANGED vars
  BY <1>5, <1>7 DEF vars, signerVars
<1> QED
  BY <1>1, <1>2, <1>3, <1>4, <1>6, <1>7, KeptByCommitServed, KeptByCommitReplied,
     KeptBySignServed, KeptBySignReplied, KeptByAggregate
  DEF Next, Step, NetFault

-----------------------------------------------------------------------------
(* The theorems.                                                           *)

LEMMA CoordInvariance == Spec => []CoordInv
BY CoordInvInit, CoordInvNext, PTL DEF Spec

\* Type correctness: no hole gets into a commitment list that is sent to /sign.
THEOREM CoordinatorTypeCorrect == Spec => []TypeOK
<1>1. CoordInv => TypeOK
  BY DEF CoordInv
<1> QED
  BY <1>1, CoordInvariance, PTL

\* A signature or token returned is backed by the signer behind every port.
THEOREM ResponsesBacked == Spec => []ResponseBacked
<1>1. CoordInv => ResponseBacked
  BY DEF CoordInv
<1> QED
  BY <1>1, CoordInvariance, PTL

\* Shares collected without an error aggregate, for any number of ports: a list too
\* short for the threshold is refused by the signers.
THEOREM SharesAggregate == Spec => []CollectedSharesAggregate
<1>1. CoordInv => CollectedSharesAggregate
  <2> SUFFICES ASSUME CoordInv, NEW r \in Requests, pc[r] = "aggregate"
               PROVE  AggregateSignatures(message[r], signatures[r], commitments[r])
    BY DEF CollectedSharesAggregate
  <2>1. /\ DOMAIN commitments[r] = AllPorts
        /\ signatures[r] = {SignatureShare(s, message[r], commitments[r]) : s \in AllPorts}
        /\ signatures[r] \subseteq shares
    BY DEF CoordInv, Progress
  <2>2. Ports[1] \in AllPorts
    BY CoordinatorAssumption DEF AllPorts
  <2>3. /\ SignatureShare(Ports[1], message[r], commitments[r]) \in shares
        /\ SignatureShare(Ports[1], message[r], commitments[r]).list = commitments[r]
    BY <2>1, <2>2 DEF SignatureShare
  <2>4. ValidCommitmentList(commitments[r])
    BY <2>3 DEF CoordInv, SignerInv, SharesWellFormed
  <2> QED
    BY <2>1, <2>4 DEF AggregateSignatures
<1> QED
  BY <1>1, CoordInvariance, PTL

\* A nonce collected for one request never signs for another.
THEOREM NoncesKept == Spec => []NoncesStayInRequest
<1>1. CoordInv => NoncesStayInRequest
  <2> SUFFICES ASSUME CoordInv, NEW r \in Requests, NEW sh \in shares,
                      sh.signer \in DOMAIN commitments[r],
                      commitments[r][sh.signer] = sh.id
               PROVE  sh.msg = message[r] /\ sh.list = commitments[r]
    BY DEF NoncesStayInRequest
  <2>1. PICK q \in Requests : sh.msg = message[q] /\ sh.list = commitments[q]
    BY DEF CoordInv, SharesAskedFor
  <2>2. sh.signer \in DOMAIN sh.list /\ sh.list[sh.signer] = sh.id
    BY DEF CoordInv, SignerInv, SharesWellFormed
  <2>3. sh.signer \in Signers /\ sh.id \in CommitmentIDs
    BY DEF CoordInv, TypeOK, SignerTypeOK, Shares
  <2>4. Holds(q, sh.signer, sh.id) /\ Holds(r, sh.signer, sh.id)
    BY <2>1, <2>2 DEF Holds
  <2>5. q = r
    BY <2>3, <2>4 DEF CoordInv, CommitmentsOwned
  <2> QED
    BY <2>1, <2>5
<1> QED
  BY <1>1, CoordInvariance, PTL

\* The coordinator only does to the signers what SignerSpec allows its callers, so
\* no nonce is used twice by requests served at the same time.
THEOREM CoordinatorNonceSafety == Spec => SignerSpec /\ []NonceSingleUse
<1>1. Init => SignerInit
  BY DEF Init
<1>2. Spec => SignerSpec
  BY <1>1, CoordInvariance, SignerStep, PTL DEF Spec, SignerSpec
<1> QED
  BY <1>2, NonceSafety, PTL
=============================================================================
