--------------------------- MODULE GrpcProxyProofs --------------------------
(***************************************************************************)
(* Theorems about the signing path of the gRPC proxies, for any number of  *)
(* signers, any threshold, any number of concurrent calls and all faults.  *)
(***************************************************************************)
EXTENDS GrpcProxy, SignerNodeProofs, FiniteSetTheorems

-----------------------------------------------------------------------------
(* The results in a channel.                                               *)

Elems(q) == {q[k] : k \in 1..Len(q)}

LEMMA AppendElems ==
  ASSUME NEW S, NEW q \in Seq(S), NEW e \in S
  PROVE  Append(q, e) \in Seq(S) /\ Elems(Append(q, e)) = Elems(q) \cup {e}
BY DEF Elems

LEMMA TailElems ==
  ASSUME NEW S, NEW q \in Seq(S), q # <<>>
  PROVE  /\ Tail(q) \in Seq(S) /\ Elems(Tail(q)) \subseteq Elems(q)
         /\ Head(q) \in S /\ Head(q) \in Elems(q)
<1>1. Tail(q) \in Seq(S) /\ Head(q) \in S
  OBVIOUS
<1>2. Head(q) = q[1] /\ 1 \in 1..Len(q)
  OBVIOUS
<1>3. \A k \in 1..Len(Tail(q)) : k + 1 \in 1..Len(q) /\ Tail(q)[k] = q[k + 1]
  OBVIOUS
<1> QED
  BY <1>1, <1>2, <1>3 DEF Elems

-----------------------------------------------------------------------------
(* The inductive invariant.                                                *)

\* A commitment that is kept, is on its way in the channel, or was just received
\* is a CommitmentID.  TypeOK needs it: the list sent to /sign has no hole.
CommitmentsReceived ==
  /\ \A m \in Messages, s \in Signers :
       commitCall[m][s] = "answered" => commitResp[m][s] # NoReply
  /\ \A m \in Messages : \A r \in Elems(commitChan[m]) :
       ~r.err => commitResp[m][r.addr] # NoReply
  /\ \A m \in Messages : \A s \in active[m] : commitResp[m][s] # NoReply

\* A share that a proxy holds, anywhere, was computed by a signer.
SharesReceived ==
  /\ \A m \in Messages, s \in Signers :
       signResp[m][s] # NoReply => signResp[m][s] \in shares
  /\ \A m \in Messages : \A r \in Elems(signChan[m]) :
       ~r.err => signResp[m][r.addr] # NoReply
  /\ \A m \in Messages : gathered[m] \subseteq shares

ProxyInv ==
  /\ TypeOK
  /\ CommitmentsReceived
  /\ SharesReceived
  /\ TokenBacked

LEMMA ProxyInvInit == Init => ProxyInv
<1> SUFFICES ASSUME Init PROVE ProxyInv
  OBVIOUS
<1>1. SignerTypeOK
  BY SignerInitType DEF Init
<1>2. TypeOK
  BY <1>1 DEF Init, TypeOK, PCs, CallStates
<1>3. \A m \in Messages : Elems(commitChan[m]) = {} /\ Elems(signChan[m]) = {}
  BY DEF Init, Elems
<1>4. CommitmentsReceived
  BY <1>3 DEF Init, CommitmentsReceived
<1>5. SharesReceived
  BY <1>3 DEF Init, SharesReceived
<1>6. TokenBacked
  BY DEF Init, TokenBacked
<1> QED
  BY <1>2, <1>4, <1>5, <1>6 DEF ProxyInv

\* The list a call sends to /sign and aggregates with is well typed.
LEMMA CommitmentListType ==
  ASSUME ProxyInv, NEW m \in Messages
  PROVE  CommitmentList(m) \in CommitmentLists /\ DOMAIN CommitmentList(m) = active[m]
BY DEF ProxyInv, TypeOK, CommitmentsReceived, CommitmentList, CommitmentLists

\* Every step of the proxies is a step of the signers under arbitrary callers, or
\* does not touch them.
LEMMA SignerStep ==
  ProxyInv /\ [Next]_vars => [SignerNext]_signerVars
<1> SUFFICES ASSUME ProxyInv, [Next]_vars PROVE [SignerNext]_signerVars
  OBVIOUS
<1>1. ASSUME NEW m \in Messages, Sign(m) \/ MainStep(m) \/ ProxyDies(m)
      PROVE  UNCHANGED signerVars
  BY <1>1 DEF Sign, MainStep, RecvCommitment, CommitmentsCollected, RecvShare,
              SharesCollected, Aggregate, ProxyDies
<1>2. ASSUME NEW m \in Messages, NEW s \in Signers, CommitStep(m, s)
      PROVE  SignerNext \/ UNCHANGED signerVars
  BY <1>2 DEF CommitStep, CommitServed, CommitReplied, CommitFailed, SendCommitResult,
              SignerNext, AnyCall
<1>3. ASSUME NEW m \in Messages, NEW s \in Signers, SignStep(m, s) \/ NetFault(m, s)
      PROVE  SignerNext \/ UNCHANGED signerVars
  BY <1>3, CommitmentListType
  DEF SignStep, SignServed, SignReplied, SignFailed, SendSignResult, NetFault,
      CommitFailed, SendCommitResult, SignerNext, AnyCall
<1>4. ASSUME NEW s \in Signers, Fault(s)
      PROVE  SignerNext
  BY <1>4 DEF Fault, SignerNext
<1>5. CASE UNCHANGED vars
  BY <1>5 DEF vars
<1> QED
  BY <1>1, <1>2, <1>3, <1>4, <1>5 DEF Next

\* The signers keep their type, and no share is taken back.
LEMMA SignersKept ==
  ASSUME ProxyInv, [Next]_vars
  PROVE  SignerTypeOK' /\ shares \subseteq shares'
<1>1. [SignerNext]_signerVars
  BY SignerStep
<1>2. SignerTypeOK /\ SignerTypeOK'
  BY <1>1, SignerNextType DEF ProxyInv, TypeOK
<1>3. ASSUME NEW s \in Signers, AnyCall(s) PROVE shares \subseteq shares'
  BY <1>3 DEF AnyCall, commitHandler, signHandlerOK, signHandlerError, frostSign, signerVars
<1>4. ASSUME NEW s \in Signers, SignerFault(s) PROVE shares \subseteq shares'
  BY <1>2, <1>4, FaultForgets
<1> QED
  BY <1>1, <1>2, <1>3, <1>4 DEF SignerNext, signerVars

\* A token stays backed: only Aggregate makes a call "done".
LEMMA TokenBackedKept ==
  ASSUME TokenBacked, shares \subseteq shares',
         \A m \in Messages : pc'[m] = "done" => pc[m] = "done"
  PROVE  TokenBacked'
BY DEF TokenBacked

-----------------------------------------------------------------------------
(* The actions, one by one, in the order of the module.                    *)

LEMMA KeptBySign ==
  ASSUME ProxyInv, SignerTypeOK', NEW m \in Messages, Sign(m)
  PROVE  ProxyInv'
<1> USE DEF Sign, ProxyInv, commitVars, signVars, signerVars
<1>1. TypeOK'
  BY DEF TypeOK, PCs, CallStates
<1>2. CommitmentsReceived'
  BY DEF CommitmentsReceived, TypeOK
<1>3. SharesReceived'
  BY DEF SharesReceived
<1>4. TokenBacked'
  BY TokenBackedKept DEF TypeOK
<1> QED
  BY <1>1, <1>2, <1>3, <1>4

LEMMA KeptByCommitServed ==
  ASSUME ProxyInv, SignerTypeOK', NEW m \in Messages, NEW s \in Signers, CommitServed(m, s)
  PROVE  ProxyInv'
<1> USE DEF ProxyInv, signVars
<1>0. PICK id \in CommitmentIDs :
        /\ commitHandler(s, id)
        /\ commitResp' = [commitResp EXCEPT ![m][s] = id]
  BY DEF CommitServed
<1>1. id # NoReply
  BY NoReplyAssumption
<1>2. UNCHANGED <<pc, taken, active, gathered, commitChan, signVars, shares>>
  BY <1>0 DEF CommitServed, commitHandler
<1>3. commitCall' = [commitCall EXCEPT ![m][s] = "answered"]
  BY DEF CommitServed
<1>4. TypeOK'
  BY <1>0, <1>2, <1>3 DEF TypeOK, CallStates
<1>5. CommitmentsReceived'
  <2>1. \A n \in Messages, t \in Signers :
          \/ commitResp'[n][t] = commitResp[n][t] /\ commitCall'[n][t] = commitCall[n][t]
          \/ commitResp'[n][t] = id
    BY <1>0, <1>3 DEF TypeOK
  <2>2. \A n \in Messages : Elems(commitChan[n]) \subseteq Results
    BY DEF TypeOK, Elems
  <2>3. \A r \in Results : r.addr \in Signers
    BY DEF Results
  <2> QED
    BY <1>1, <1>2, <2>1, <2>2, <2>3 DEF CommitmentsReceived, TypeOK
<1>6. SharesReceived'
  BY <1>2 DEF SharesReceived
<1>7. TokenBacked'
  BY <1>2, TokenBackedKept
<1> QED
  BY <1>4, <1>5, <1>6, <1>7

LEMMA KeptBySendCommitResult ==
  ASSUME ProxyInv, SignerTypeOK', NEW m \in Messages, NEW s \in Signers, NEW err \in BOOLEAN,
         SendCommitResult(m, s, err), ~err => commitResp[m][s] # NoReply
  PROVE  ProxyInv'
<1> USE DEF ProxyInv, signVars, signerVars
<1> DEFINE r == [addr |-> s, err |-> err]
<1>1. /\ commitChan' = [commitChan EXCEPT ![m] = Append(commitChan[m], r)]
      /\ commitCall' = [commitCall EXCEPT ![m][s] = "sent"]
      /\ UNCHANGED <<pc, taken, active, gathered, commitResp, signVars, shares>>
  BY DEF SendCommitResult
<1>2. r \in Results /\ r.addr = s /\ r.err = err
  BY DEF Results
<1> HIDE DEF r
<1>3. commitChan[m] \in Seq(Results)
  BY DEF TypeOK
<1>4. /\ Append(commitChan[m], r) \in Seq(Results)
      /\ Elems(Append(commitChan[m], r)) = Elems(commitChan[m]) \cup {r}
  BY <1>2, <1>3, AppendElems
<1>5. TypeOK'
  BY <1>1, <1>4 DEF TypeOK, CallStates
<1>6. \A n \in Messages : Elems(commitChan'[n]) \subseteq
         Elems(commitChan[n]) \cup (IF n = m THEN {r} ELSE {})
  BY <1>1, <1>4 DEF TypeOK
<1>7. CommitmentsReceived'
  BY <1>1, <1>2, <1>6 DEF CommitmentsReceived, TypeOK
<1>8. SharesReceived'
  BY <1>1 DEF SharesReceived
<1>9. TokenBacked'
  BY <1>1, TokenBackedKept
<1> QED
  BY <1>5, <1>7, <1>8, <1>9

LEMMA KeptByCommitReplied ==
  ASSUME ProxyInv, SignerTypeOK', NEW m \in Messages, NEW s \in Signers,
         CommitReplied(m, s) \/ CommitFailed(m, s)
  PROVE  ProxyInv'
BY KeptBySendCommitResult DEF CommitReplied, CommitFailed, ProxyInv, CommitmentsReceived

LEMMA KeptByRecvCommitment ==
  ASSUME ProxyInv, SignerTypeOK', NEW m \in Messages, RecvCommitment(m)
  PROVE  ProxyInv'
<1> USE DEF ProxyInv, signVars, signerVars
<1> DEFINE r == Head(commitChan[m])
<1>1. /\ commitChan[m] # <<>>
      /\ active' = [active EXCEPT ![m] =
                      IF ~r.err /\ Cardinality(@) < Threshold THEN @ \cup {r.addr} ELSE @]
      /\ commitChan' = [commitChan EXCEPT ![m] = Tail(commitChan[m])]
      /\ taken' = [taken EXCEPT ![m] = @ + 1]
      /\ UNCHANGED <<pc, gathered, commitCall, commitResp, signVars, shares>>
  BY DEF RecvCommitment
<1>2. commitChan[m] \in Seq(Results)
  BY DEF TypeOK
<1>3. /\ Tail(commitChan[m]) \in Seq(Results)
      /\ Elems(Tail(commitChan[m])) \subseteq Elems(commitChan[m])
      /\ r \in Results /\ r \in Elems(commitChan[m])
  BY <1>1, <1>2, TailElems
<1>4. r.addr \in Signers
  BY <1>3 DEF Results
<1> HIDE DEF r
<1>5. TypeOK'
  BY <1>1, <1>3, <1>4 DEF TypeOK
<1>6. \A n \in Messages : Elems(commitChan'[n]) \subseteq Elems(commitChan[n])
  BY <1>1, <1>3 DEF TypeOK
<1>7. \A n \in Messages : \A s \in active'[n] :
        s \in active[n] \/ (n = m /\ s = r.addr /\ ~r.err)
  BY <1>1 DEF TypeOK
<1>8. CommitmentsReceived'
  BY <1>1, <1>3, <1>6, <1>7 DEF CommitmentsReceived
<1>9. SharesReceived'
  BY <1>1 DEF SharesReceived
<1>10. TokenBacked'
  BY <1>1, TokenBackedKept
<1> QED
  BY <1>5, <1>8, <1>9, <1>10

LEMMA KeptByCommitmentsCollected ==
  ASSUME ProxyInv, SignerTypeOK', NEW m \in Messages, CommitmentsCollected(m)
  PROVE  ProxyInv'
<1> USE DEF ProxyInv, commitVars, signerVars
<1>1. /\ pc' \in [Messages -> PCs]
      /\ \A n \in Messages : pc'[n] = "done" => pc[n] = "done"
  BY DEF CommitmentsCollected, TypeOK, PCs, Returned
<1>2. signCall' \in [Messages -> [Signers -> CallStates]]
  <2> DEFINE posts == [s \in Signers |-> IF s \in active[m] THEN "posted" ELSE "none"]
  <2>1. posts \in [Signers -> CallStates]
    BY DEF CallStates
  <2>2. signCall' = signCall \/ signCall' = [signCall EXCEPT ![m] = posts]
    BY DEF CommitmentsCollected
  <2> HIDE DEF posts
  <2> QED
    BY <2>1, <2>2 DEF TypeOK
<1>3. taken' \in [Messages -> Nat]
  BY DEF CommitmentsCollected, TypeOK
<1>4. UNCHANGED <<active, gathered, commitVars, signResp, signChan, shares>>
  BY DEF CommitmentsCollected
<1>5. TypeOK'
  BY <1>1, <1>2, <1>3, <1>4 DEF TypeOK
<1>6. CommitmentsReceived' /\ SharesReceived'
  BY <1>4 DEF CommitmentsReceived, SharesReceived
<1>7. TokenBacked'
  BY <1>1, <1>4, TokenBackedKept
<1> QED
  BY <1>5, <1>6, <1>7

LEMMA KeptBySignServed ==
  ASSUME ProxyInv, SignerTypeOK', NEW m \in Messages, NEW s \in Signers, SignServed(m, s)
  PROVE  ProxyInv'
<1> USE DEF ProxyInv, commitVars
<1> DEFINE sh == SignatureShare(s, m, CommitmentList(m))
<1>1. /\ signCall' = [signCall EXCEPT ![m][s] = "answered"]
      /\ UNCHANGED <<pc, taken, active, gathered, commitVars, signChan>>
  BY DEF SignServed
<1>2. \/ /\ sh \in Shares /\ shares' = shares \cup {sh}
         /\ signResp' = [signResp EXCEPT ![m][s] = sh]
      \/ UNCHANGED <<signResp, shares>>
  <2>1. CASE signHandlerOK(s, m, CommitmentList(m))
    <3>1. sh \in Shares
      BY <2>1, CommitmentListType, SignatureShareType DEF signHandlerOK, VerifyCommitmentList
    <3> QED
      BY <2>1, <3>1 DEF SignServed, signHandlerOK, signHandlerError, frostSign
  <2>2. CASE signHandlerError(s, m, CommitmentList(m))
    BY <2>2 DEF SignServed, signHandlerOK, signHandlerError, signerVars
  <2> QED
    BY <2>1, <2>2 DEF SignServed
<1>3. sh \in Shares => sh # NoReply
  BY NoReplyAssumption
<1> HIDE DEF sh
<1>4. shares \subseteq shares'
  BY <1>2
<1>5. TypeOK'
  <2>1. signResp' \in [Messages -> [Signers -> Shares \cup {NoReply}]]
    <3>1. CASE UNCHANGED signResp
      BY <3>1 DEF TypeOK
    <3>2. CASE sh \in Shares /\ signResp' = [signResp EXCEPT ![m][s] = sh]
      BY <3>2 DEF TypeOK
    <3> QED
      BY <1>2, <3>1, <3>2
  <2>2. signCall' \in [Messages -> [Signers -> CallStates]]
    BY <1>1 DEF TypeOK, CallStates
  <2> QED
    BY <1>1, <2>1, <2>2 DEF TypeOK
<1>6. CommitmentsReceived'
  BY <1>1 DEF CommitmentsReceived
<1>7. SharesReceived'
  <2>1. ASSUME NEW n \in Messages, NEW t \in Signers
        PROVE  \/ signResp'[n][t] = signResp[n][t]
               \/ signResp'[n][t] = sh /\ sh \in shares' /\ sh # NoReply
    <3>1. CASE UNCHANGED <<signResp, shares>>
      BY <3>1
    <3>2. CASE /\ sh \in Shares /\ shares' = shares \cup {sh}
               /\ signResp' = [signResp EXCEPT ![m][s] = sh]
      BY <1>3, <3>2 DEF TypeOK
    <3> QED
      BY <1>2, <3>1, <3>2
  <2>2. \A n \in Messages : Elems(signChan[n]) \subseteq Results
    BY DEF TypeOK, Elems
  <2>3. \A r \in Results : r.addr \in Signers
    BY DEF Results
  <2> QED
    BY <1>1, <1>4, <2>1, <2>2, <2>3 DEF SharesReceived
<1>8. TokenBacked'
  BY <1>1, <1>4, TokenBackedKept
<1> QED
  BY <1>5, <1>6, <1>7, <1>8

LEMMA KeptBySendSignResult ==
  ASSUME ProxyInv, SignerTypeOK', NEW m \in Messages, NEW s \in Signers, NEW err \in BOOLEAN,
         SendSignResult(m, s, err), ~err => signResp[m][s] # NoReply
  PROVE  ProxyInv'
<1> USE DEF ProxyInv, commitVars, signerVars
<1> DEFINE r == [addr |-> s, err |-> err]
<1>1. /\ signChan' = [signChan EXCEPT ![m] = Append(signChan[m], r)]
      /\ signCall' = [signCall EXCEPT ![m][s] = "sent"]
      /\ UNCHANGED <<pc, taken, active, gathered, commitVars, signResp, shares>>
  BY DEF SendSignResult
<1>2. r \in Results /\ r.addr = s /\ r.err = err
  BY DEF Results
<1> HIDE DEF r
<1>3. signChan[m] \in Seq(Results)
  BY DEF TypeOK
<1>4. /\ Append(signChan[m], r) \in Seq(Results)
      /\ Elems(Append(signChan[m], r)) = Elems(signChan[m]) \cup {r}
  BY <1>2, <1>3, AppendElems
<1>5. TypeOK'
  BY <1>1, <1>4 DEF TypeOK, CallStates
<1>6. \A n \in Messages : Elems(signChan'[n]) \subseteq
         Elems(signChan[n]) \cup (IF n = m THEN {r} ELSE {})
  BY <1>1, <1>4 DEF TypeOK
<1>7. SharesReceived'
  BY <1>1, <1>2, <1>6 DEF SharesReceived
<1>8. CommitmentsReceived'
  BY <1>1 DEF CommitmentsReceived
<1>9. TokenBacked'
  BY <1>1, TokenBackedKept
<1> QED
  BY <1>5, <1>7, <1>8, <1>9

LEMMA KeptBySignReplied ==
  ASSUME ProxyInv, SignerTypeOK', NEW m \in Messages, NEW s \in Signers,
         SignReplied(m, s) \/ SignFailed(m, s)
  PROVE  ProxyInv'
<1>1. (signResp[m][s] = NoReply) \in BOOLEAN
  OBVIOUS
<1> QED
  BY <1>1, KeptBySendSignResult DEF SignReplied, SignFailed

LEMMA KeptByRecvShare ==
  ASSUME ProxyInv, SignerTypeOK', NEW m \in Messages, RecvShare(m)
  PROVE  ProxyInv'
<1> USE DEF ProxyInv, commitVars, signerVars
<1> DEFINE r == Head(signChan[m])
<1>1. /\ signChan[m] # <<>>
      /\ signChan' = [signChan EXCEPT ![m] = Tail(signChan[m])]
      /\ taken' = [taken EXCEPT ![m] = @ + 1]
      /\ UNCHANGED <<active, commitVars, signCall, signResp, shares>>
      /\ IF r.err
           THEN pc' = [pc EXCEPT ![m] = "error"] /\ UNCHANGED gathered
           ELSE /\ gathered' = [gathered EXCEPT ![m] = @ \cup {signResp[m][r.addr]}]
                /\ UNCHANGED pc
  BY DEF RecvShare
<1>2. signChan[m] \in Seq(Results)
  BY DEF TypeOK
<1>3. /\ Tail(signChan[m]) \in Seq(Results)
      /\ Elems(Tail(signChan[m])) \subseteq Elems(signChan[m])
      /\ r \in Results /\ r \in Elems(signChan[m])
  BY <1>1, <1>2, TailElems
<1>4. r.addr \in Signers
  BY <1>3 DEF Results
<1>5. ~r.err => signResp[m][r.addr] \in shares /\ signResp[m][r.addr] \in Shares
  BY <1>3, <1>4 DEF SharesReceived, TypeOK, SignerTypeOK
<1> HIDE DEF r
<1>6. /\ pc' \in [Messages -> PCs]
      /\ \A n \in Messages : pc'[n] = "done" => pc[n] = "done"
  BY <1>1 DEF TypeOK, PCs, Returned
<1>7. /\ gathered' \in [Messages -> SUBSET Shares]
      /\ \A n \in Messages : gathered'[n] \subseteq shares
  <2>1. CASE r.err
    BY <1>1, <2>1 DEF TypeOK, SharesReceived
  <2>2. CASE ~r.err
    <3> DEFINE sh == signResp[m][r.addr]
    <3>1. gathered' = [gathered EXCEPT ![m] = @ \cup {sh}] /\ sh \in shares /\ sh \in Shares
      BY <1>1, <1>5, <2>2
    <3> HIDE DEF sh
    <3> QED
      BY <3>1 DEF TypeOK, SharesReceived
  <2> QED
    BY <2>1, <2>2
<1>8. TypeOK'
  BY <1>1, <1>3, <1>6, <1>7 DEF TypeOK
<1>9. \A n \in Messages : Elems(signChan'[n]) \subseteq Elems(signChan[n])
  BY <1>1, <1>3 DEF TypeOK
<1>10. CommitmentsReceived'
  BY <1>1 DEF CommitmentsReceived
<1>11. SharesReceived'
  BY <1>1, <1>7, <1>9 DEF SharesReceived
<1>12. TokenBacked'
  BY <1>1, <1>6, TokenBackedKept
<1> QED
  BY <1>8, <1>10, <1>11, <1>12

LEMMA KeptBySharesCollected ==
  ASSUME ProxyInv, SignerTypeOK', NEW m \in Messages, SharesCollected(m) \/ ProxyDies(m)
  PROVE  ProxyInv'
<1> USE DEF ProxyInv, SharesCollected, ProxyDies, commitVars, signVars, signerVars
<1>1. TypeOK'
  BY DEF TypeOK, PCs, Returned
<1>2. CommitmentsReceived' /\ SharesReceived'
  BY DEF CommitmentsReceived, SharesReceived
<1>3. TokenBacked'
  BY TokenBackedKept DEF TypeOK
<1> QED
  BY <1>1, <1>2, <1>3

\* The one step that makes a token: the shares that aggregate are one of each of at
\* least Threshold signers, and every one of them was computed by its signer.
LEMMA KeptByAggregate ==
  ASSUME ProxyInv, SignerTypeOK', NEW m \in Messages, Aggregate(m)
  PROVE  ProxyInv'
<1> USE DEF ProxyInv, commitVars, signVars, signerVars
<1>1. UNCHANGED <<taken, active, gathered, commitVars, signVars, shares>>
  BY DEF Aggregate
<1>2. TypeOK'
  BY <1>1 DEF Aggregate, TypeOK, PCs, Returned
<1>3. CommitmentsReceived' /\ SharesReceived'
  BY <1>1 DEF CommitmentsReceived, SharesReceived
<1>4. CASE AggregateSignatures(m, gathered[m], CommitmentList(m))
  <2>1. /\ active[m] \in SUBSET Signers
        /\ Cardinality(active[m]) >= Threshold
    BY <1>4, CommitmentListType DEF AggregateSignatures, ValidCommitmentList, TypeOK
  <2>2. ASSUME NEW s \in active[m]
        PROVE  \E sh \in shares : sh.signer = s /\ sh.msg = m
    <3>1. SignatureShare(s, m, CommitmentList(m)) \in shares
      BY <1>4, CommitmentListType DEF AggregateSignatures, SharesReceived
    <3>2. /\ SignatureShare(s, m, CommitmentList(m)).signer = s
          /\ SignatureShare(s, m, CommitmentList(m)).msg = m
      BY DEF SignatureShare
    <3> QED
      BY <3>1, <3>2
  <2>3. \A n \in Messages \ {m} : pc'[n] = pc[n]
    BY DEF Aggregate, TypeOK
  <2>4. TokenBacked'
    BY <1>1, <2>1, <2>2, <2>3 DEF TokenBacked
  <2> QED
    BY <1>2, <1>3, <2>4
<1>5. CASE ~AggregateSignatures(m, gathered[m], CommitmentList(m))
  <2>1. \A n \in Messages : pc'[n] = "done" => pc[n] = "done"
    BY <1>5 DEF Aggregate, TypeOK
  <2> QED
    BY <1>1, <1>2, <1>3, <2>1, TokenBackedKept
<1> QED
  BY <1>4, <1>5

\* Crashes, restarts and hangs of signers leave the proxies and the shares alone.
LEMMA KeptByFault ==
  ASSUME ProxyInv, SignerTypeOK', shares \subseteq shares', UNCHANGED proxyVars
  PROVE  ProxyInv'
<1> USE DEF ProxyInv, proxyVars, commitVars, signVars
<1>1. TypeOK'
  BY DEF TypeOK
<1>2. CommitmentsReceived' /\ SharesReceived'
  BY DEF CommitmentsReceived, SharesReceived
<1>3. TokenBacked'
  BY TokenBackedKept
<1> QED
  BY <1>1, <1>2, <1>3

LEMMA ProxyInvNext == ProxyInv /\ [Next]_vars => ProxyInv'
<1> SUFFICES ASSUME ProxyInv, [Next]_vars PROVE ProxyInv'
  OBVIOUS
<1>1. SignerTypeOK' /\ shares \subseteq shares'
  BY SignersKept
<1>2. ASSUME NEW m \in Messages, Sign(m) \/ MainStep(m) \/ ProxyDies(m)
      PROVE  ProxyInv'
  BY <1>1, <1>2, KeptBySign, KeptByRecvCommitment, KeptByCommitmentsCollected,
     KeptByRecvShare, KeptBySharesCollected, KeptByAggregate DEF MainStep
<1>3. ASSUME NEW m \in Messages, NEW s \in Signers,
             CommitStep(m, s) \/ SignStep(m, s) \/ NetFault(m, s)
      PROVE  ProxyInv'
  BY <1>1, <1>3, KeptByCommitServed, KeptByCommitReplied, KeptBySignServed, KeptBySignReplied
  DEF CommitStep, SignStep, NetFault
<1>4. ASSUME NEW s \in Signers, Fault(s)
      PROVE  ProxyInv'
  BY <1>1, <1>4, KeptByFault DEF Fault
<1>5. CASE UNCHANGED vars
  BY <1>1, <1>5, KeptByFault DEF vars
<1> QED
  BY <1>2, <1>3, <1>4, <1>5 DEF Next

-----------------------------------------------------------------------------
(* The theorems.                                                           *)

\* Type correctness of the proxies and the signers together.
THEOREM TypeCorrect == Spec => []TypeOK
<1>1. ProxyInv => TypeOK
  BY DEF ProxyInv
<1> QED
  BY <1>1, ProxyInvInit, ProxyInvNext, PTL DEF Spec

\* makeSignFn never returns a token that fewer than Threshold signers worked for.
THEOREM TokensBacked == Spec => []TokenBacked
<1>1. ProxyInv => TokenBacked
  BY DEF ProxyInv
<1> QED
  BY <1>1, ProxyInvInit, ProxyInvNext, PTL DEF Spec

\* The proxies and the signers implement the signers under arbitrary callers.
THEOREM SignersImplemented == Spec => SignerSpec
<1>1. Init => SignerInit
  BY DEF Init
<1>2. Spec => []ProxyInv
  BY ProxyInvInit, ProxyInvNext, PTL DEF Spec
<1> QED
  BY <1>1, <1>2, SignerStep, PTL DEF Spec, SignerSpec

\* So no nonce is used twice by concurrent calls of any number of proxies.
THEOREM ProxyNonceSafety == Spec => []NonceSingleUse
BY SignersImplemented, NonceSafety, PTL

-----------------------------------------------------------------------------
(* The sessions.  What ProxyInv says is true of any caller that only keeps *)
(* what signers gave it.  The rest needs the order of the two rounds: what *)
(* a call may still change at each place of makeSignFn's function.         *)

\* Goroutines are started by the round they belong to, /sign for kept commitments.
RoundsInOrder(m) ==
  \A s \in Signers :
    /\ pc[m] = "idle" => commitCall[m][s] = "none"
    /\ pc[m] \in {"idle", "commit"} => signCall[m][s] = "none"
    /\ signCall[m][s] # "none" => s \in active[m]

\* Never more than Threshold commitments are kept, and the second round has all.
QuorumKept(m) ==
  /\ Cardinality(active[m]) <= Threshold
  /\ pc[m] \in {"share", "aggregate", "done"} => Cardinality(active[m]) >= Threshold

CommitSent(m) == {s \in Signers : commitCall[m][s] = "sent"}
SignSent(m) == {s \in Signers : signCall[m][s] = "sent"}

\* A result in the channel, or kept, is of a goroutine that has sent it.
CommitResultsSent(m) ==
  /\ Len(commitChan[m]) <= Cardinality(CommitSent(m))
  /\ \A r \in Elems(commitChan[m]) : r.addr \in CommitSent(m)
  /\ active[m] \subseteq CommitSent(m)

\* The same for shares; and every goroutine sends once.
SignResultsSent(m) ==
  /\ Len(signChan[m]) <= Cardinality(SignSent(m))
  /\ \A r \in Elems(signChan[m]) : r.addr \in SignSent(m)
  /\ \A i, j \in 1..Len(signChan[m]) : signChan[m][i].addr = signChan[m][j].addr => i = j
  /\ \A sh \in gathered[m] :
       sh.signer \in SignSent(m) /\ \A r \in Elems(signChan[m]) : r.addr # sh.signer

\* What a call receives are the shares for its own list.
OwnShares(m) ==
  \A s \in Signers : signResp[m][s] # NoReply =>
    /\ signCall[m][s] \in {"answered", "sent"}
    /\ signResp[m][s] = SignatureShare(s, m, CommitmentList(m))

\* The shares of the signers in G, over the list of the call.
SharesOf(G, m) == {SignatureShare(s, m, CommitmentList(m)) : s \in G}

\* The receive loop counts the shares it appended, and all of them aggregate.
SharesCounted(m) ==
  /\ pc[m] = "share" => \E G \in SUBSET active[m] :
       Cardinality(G) = taken[m] /\ gathered[m] = SharesOf(G, m)
  /\ pc[m] \in {"aggregate", "done"} =>
       AggregateSignatures(m, gathered[m], CommitmentList(m))

Session(m) ==
  /\ RoundsInOrder(m)
  /\ QuorumKept(m)
  /\ CommitResultsSent(m)
  /\ SignResultsSent(m)
  /\ OwnShares(m)
  /\ SharesCounted(m)

\* Every share was asked for by the call for its input, over the list of the call.
SharesAskedFor ==
  \A sh \in shares :
    /\ sh.list = CommitmentList(sh.msg)
    /\ signCall[sh.msg][sh.signer] \in {"answered", "sent"}

\* No two calls were given the same commitment.
CommitmentsOwned ==
  \A m \in Messages, s \in Signers : commitResp[m][s] # NoReply =>
    /\ commitResp[m][s] \in drawn[s]
    /\ \A n \in Messages \ {m} : commitResp[n][s] # commitResp[m][s]

SessionInv ==
  /\ ProxyInv
  /\ \A m \in Messages : Session(m)
  /\ SharesAskedFor
  /\ CommitmentsOwned

LEMMA SessionInvInit == Init => SessionInv
<1> SUFFICES ASSUME Init PROVE SessionInv
  OBVIOUS
<1>1. ProxyInv
  BY ProxyInvInit
<1>2. ASSUME NEW m \in Messages PROVE Session(m)
  <2>1. commitChan[m] = <<>> /\ signChan[m] = <<>>
    BY DEF Init
  <2>2. /\ Elems(commitChan[m]) = {} /\ Elems(signChan[m]) = {}
        /\ Len(commitChan[m]) = 0 /\ Len(signChan[m]) = 0
    BY <2>1 DEF Elems
  <2>3. CommitSent(m) = {} /\ SignSent(m) = {} /\ active[m] = {} /\ gathered[m] = {}
    BY DEF Init, CommitSent, SignSent
  <2>4. Cardinality({}) = 0 /\ Threshold \in Nat
    BY FS_EmptySet, SignersAssumption
  <2>5. RoundsInOrder(m)
    BY DEF Init, RoundsInOrder
  <2>6. QuorumKept(m) /\ OwnShares(m) /\ SharesCounted(m)
    BY <2>3, <2>4 DEF Init, QuorumKept, OwnShares, SharesCounted
  <2>7. CommitResultsSent(m)
    BY <2>2, <2>3, <2>4 DEF CommitResultsSent
  <2>8. SignResultsSent(m)
    BY <2>2, <2>3, <2>4 DEF SignResultsSent
  <2> QED
    BY <2>5, <2>6, <2>7, <2>8 DEF Session
<1>3. SharesAskedFor /\ CommitmentsOwned
  BY DEF Init, SignerInit, SharesAskedFor, CommitmentsOwned
<1> QED
  BY <1>1, <1>2, <1>3 DEF SessionInv

\* Each part of Session(n) depends on a few of the variables of the call for n.
LEMMA PartsFrame ==
  ASSUME NEW n \in Messages
  PROVE  /\ /\ RoundsInOrder(n)
            /\ pc'[n] = pc[n] /\ commitCall'[n] = commitCall[n]
            /\ signCall'[n] = signCall[n] /\ active'[n] = active[n]
            => RoundsInOrder(n)'
         /\ QuorumKept(n) /\ pc'[n] = pc[n] /\ active'[n] = active[n] => QuorumKept(n)'
         /\ /\ CommitResultsSent(n)
            /\ commitChan'[n] = commitChan[n] /\ commitCall'[n] = commitCall[n]
            /\ active'[n] = active[n]
            => CommitResultsSent(n)'
         /\ /\ SignResultsSent(n)
            /\ signChan'[n] = signChan[n] /\ signCall'[n] = signCall[n]
            /\ gathered'[n] = gathered[n]
            => SignResultsSent(n)'
         /\ active'[n] = active[n] /\ commitResp'[n] = commitResp[n]
            => CommitmentList(n)' = CommitmentList(n)
         /\ /\ OwnShares(n) /\ CommitmentList(n)' = CommitmentList(n)
            /\ signResp'[n] = signResp[n] /\ signCall'[n] = signCall[n]
            => OwnShares(n)'
         /\ /\ SharesCounted(n) /\ CommitmentList(n)' = CommitmentList(n)
            /\ pc'[n] = pc[n] /\ taken'[n] = taken[n]
            /\ gathered'[n] = gathered[n] /\ active'[n] = active[n]
            => SharesCounted(n)'
<1>1. /\ RoundsInOrder(n)
      /\ pc'[n] = pc[n] /\ commitCall'[n] = commitCall[n]
      /\ signCall'[n] = signCall[n] /\ active'[n] = active[n]
      => RoundsInOrder(n)'
  BY DEF RoundsInOrder
<1>2. QuorumKept(n) /\ pc'[n] = pc[n] /\ active'[n] = active[n] => QuorumKept(n)'
  BY DEF QuorumKept
<1>3. /\ CommitResultsSent(n)
      /\ commitChan'[n] = commitChan[n] /\ commitCall'[n] = commitCall[n]
      /\ active'[n] = active[n]
      => CommitResultsSent(n)'
  BY DEF CommitResultsSent, CommitSent
<1>4. /\ SignResultsSent(n)
      /\ signChan'[n] = signChan[n] /\ signCall'[n] = signCall[n]
      /\ gathered'[n] = gathered[n]
      => SignResultsSent(n)'
  BY DEF SignResultsSent, SignSent
<1>5. active'[n] = active[n] /\ commitResp'[n] = commitResp[n]
      => CommitmentList(n)' = CommitmentList(n)
  BY DEF CommitmentList
<1>6. /\ OwnShares(n) /\ CommitmentList(n)' = CommitmentList(n)
      /\ signResp'[n] = signResp[n] /\ signCall'[n] = signCall[n]
      => OwnShares(n)'
  BY DEF OwnShares, SignatureShare
<1>7. /\ SharesCounted(n) /\ CommitmentList(n)' = CommitmentList(n)
      /\ pc'[n] = pc[n] /\ taken'[n] = taken[n]
      /\ gathered'[n] = gathered[n] /\ active'[n] = active[n]
      => SharesCounted(n)'
  BY DEF SharesCounted, SharesOf, AggregateSignatures, ValidCommitmentList, SignatureShare
<1> QED
  BY <1>1, <1>2, <1>3, <1>4, <1>5, <1>6, <1>7

\* A step leaves the call for n alone.
Untouched(n) ==
  /\ pc'[n] = pc[n] /\ taken'[n] = taken[n] /\ active'[n] = active[n]
  /\ gathered'[n] = gathered[n]
  /\ commitCall'[n] = commitCall[n] /\ commitResp'[n] = commitResp[n]
  /\ commitChan'[n] = commitChan[n]
  /\ signCall'[n] = signCall[n] /\ signResp'[n] = signResp[n]
  /\ signChan'[n] = signChan[n]

LEMMA SessionFrame ==
  ASSUME NEW n \in Messages, Session(n), Untouched(n)
  PROVE  Session(n)' /\ CommitmentList(n)' = CommitmentList(n)
BY PartsFrame DEF Session, Untouched

\* Shares stay asked for when no call loses a goroutine or changes a list in use.
LEMMA SharesAskedForKept ==
  ASSUME SessionInv, UNCHANGED shares,
         \A n \in Messages, s \in Signers : signCall[n][s] \in {"answered", "sent"} =>
           /\ signCall'[n][s] \in {"answered", "sent"}
           /\ CommitmentList(n)' = CommitmentList(n)
  PROVE  SharesAskedFor'
<1> SUFFICES ASSUME NEW sh \in shares
             PROVE  /\ sh.list = CommitmentList(sh.msg)'
                    /\ signCall'[sh.msg][sh.signer] \in {"answered", "sent"}
  BY DEF SharesAskedFor
<1>1. sh.msg \in Messages /\ sh.signer \in Signers
  BY DEF SessionInv, ProxyInv, TypeOK, SignerTypeOK, Shares
<1>2. sh.list = CommitmentList(sh.msg) /\ signCall[sh.msg][sh.signer] \in {"answered", "sent"}
  BY DEF SessionInv, SharesAskedFor
<1> QED
  BY <1>1, <1>2

-----------------------------------------------------------------------------
(* The actions keep the sessions.  Each lemma is about the call that takes *)
(* the step; the others are untouched.                                     *)

SessionsKept(m) ==
  /\ \A n \in Messages \ {m} : Untouched(n)
  /\ Session(m)'
  /\ SharesAskedFor'
  /\ CommitmentsOwned'

LEMMA CommitmentsOwnedKept ==
  ASSUME CommitmentsOwned, UNCHANGED <<commitResp, drawn>>
  PROVE  CommitmentsOwned'
BY DEF CommitmentsOwned

LEMMA SessionKeptBySign ==
  ASSUME SessionInv, NEW m \in Messages, Sign(m)
  PROVE  SessionsKept(m)
<1> USE DEF SessionInv, Session, ProxyInv, TypeOK, commitVars, signVars, signerVars
<1>1. /\ pc[m] = "idle" /\ pc'[m] = "commit"
      /\ commitCall'[m] = [s \in Signers |-> "posted"]
      /\ \A n \in Messages \ {m} : pc'[n] = pc[n] /\ commitCall'[n] = commitCall[n]
      /\ UNCHANGED <<taken, active, gathered, commitResp, commitChan, signCall, signResp, signChan>>
      /\ UNCHANGED <<drawn, shares>>
  BY DEF Sign
<1>2. \A n \in Messages \ {m} : Untouched(n)
  BY <1>1 DEF Untouched
<1>3. CommitmentList(m)' = CommitmentList(m)
  BY <1>1, PartsFrame
<1>4. RoundsInOrder(m)'
  BY <1>1 DEF RoundsInOrder
<1>5. QuorumKept(m)' /\ SharesCounted(m)'
  BY <1>1 DEF QuorumKept, SharesCounted
<1>6. CommitResultsSent(m)'
  <2>1. CommitSent(m) = {} /\ CommitSent(m)' = {}
    BY <1>1 DEF CommitSent, RoundsInOrder
  <2> QED
    BY <1>1, <2>1 DEF CommitResultsSent
<1>7. SignResultsSent(m)' /\ OwnShares(m)'
  BY <1>1, <1>3, PartsFrame
<1>8. SharesAskedFor'
  BY <1>1, <1>2, <1>3, SessionFrame, SharesAskedForKept
<1>9. CommitmentsOwned'
  BY <1>1, CommitmentsOwnedKept
<1> QED
  BY <1>2, <1>4, <1>5, <1>6, <1>7, <1>8, <1>9 DEF SessionsKept

LEMMA SessionKeptByCommitServed ==
  ASSUME SessionInv, NEW m \in Messages, NEW s \in Signers, CommitServed(m, s)
  PROVE  SessionsKept(m)
<1> USE DEF SessionInv, Session, ProxyInv, TypeOK
<1>1. PICK id \in CommitmentIDs :
        /\ commitHandler(s, id)
        /\ commitResp' = [commitResp EXCEPT ![m][s] = id]
  BY DEF CommitServed
<1>2. /\ commitCall[m][s] = "posted"
      /\ commitCall'[m] = [commitCall[m] EXCEPT ![s] = "answered"]
      /\ commitResp'[m] = [commitResp[m] EXCEPT ![s] = id]
      /\ \A n \in Messages \ {m} : commitCall'[n] = commitCall[n] /\ commitResp'[n] = commitResp[n]
      /\ UNCHANGED <<pc, taken, active, gathered, commitChan, signCall, signResp, signChan>>
  BY <1>1 DEF CommitServed, signVars
<1>3. /\ id \notin drawn[s] /\ UNCHANGED shares
      /\ drawn' = [drawn EXCEPT ![s] = @ \cup {id}]
  BY <1>1 DEF commitHandler
<1>4. \A n \in Messages \ {m} : Untouched(n)
  BY <1>2 DEF Untouched
<1>5. CommitSent(m)' = CommitSent(m) /\ s \notin active[m]
  <2>1. \A t \in Signers : commitCall'[m][t] = "sent" <=> commitCall[m][t] = "sent"
    BY <1>2
  <2>2. CommitSent(m)' = CommitSent(m)
    BY <2>1 DEF CommitSent
  <2>3. s \notin CommitSent(m)
    BY <1>2 DEF CommitSent
  <2> QED
    BY <2>2, <2>3 DEF CommitResultsSent
<1>6. CommitmentList(m)' = CommitmentList(m)
  BY <1>2, <1>5 DEF CommitmentList
<1>7. RoundsInOrder(m)'
  BY <1>2 DEF RoundsInOrder
<1>8. CommitResultsSent(m)'
  BY <1>2, <1>5 DEF CommitResultsSent
<1>9. QuorumKept(m)' /\ SignResultsSent(m)' /\ OwnShares(m)' /\ SharesCounted(m)'
  BY <1>2, <1>6, PartsFrame
<1>10. SharesAskedFor'
  BY <1>2, <1>3, <1>4, <1>6, SessionFrame, SharesAskedForKept
<1>11. CommitmentsOwned'
  <2>1. \A t \in Signers : drawn[t] \subseteq drawn'[t] /\ (t = s => id \in drawn'[t])
    BY <1>3 DEF SignerTypeOK
  <2>2. id # NoReply
    BY NoReplyAssumption
  <2>3. \A n \in Messages, t \in Signers :
          commitResp'[n][t] = IF n = m /\ t = s THEN id ELSE commitResp[n][t]
    BY <1>2
  <2> QED
    BY <1>3, <2>1, <2>2, <2>3 DEF CommitmentsOwned
<1> QED
  BY <1>4, <1>7, <1>8, <1>9, <1>10, <1>11 DEF SessionsKept

LEMMA SessionKeptBySendCommitResult ==
  ASSUME SessionInv, NEW m \in Messages, NEW s \in Signers, NEW err \in BOOLEAN,
         commitCall[m][s] \in {"posted", "answered"}, SendCommitResult(m, s, err)
  PROVE  SessionsKept(m)
<1> USE DEF SessionInv, Session, ProxyInv, TypeOK
<1> DEFINE r == [addr |-> s, err |-> err]
<1>1. /\ commitChan'[m] = Append(commitChan[m], r)
      /\ commitCall'[m] = [commitCall[m] EXCEPT ![s] = "sent"]
      /\ \A n \in Messages \ {m} : commitCall'[n] = commitCall[n] /\ commitChan'[n] = commitChan[n]
      /\ UNCHANGED <<pc, taken, active, gathered, commitResp, signCall, signResp, signChan>>
      /\ UNCHANGED <<drawn, shares>>
  BY DEF SendCommitResult, signVars, signerVars
<1>2. r \in Results /\ r.addr = s
  BY DEF Results
<1> HIDE DEF r
<1>3. /\ Elems(commitChan'[m]) = Elems(commitChan[m]) \cup {r}
      /\ Len(commitChan'[m]) = Len(commitChan[m]) + 1
      /\ Len(commitChan[m]) \in Nat
  BY <1>1, <1>2, AppendElems
<1>4. CommitSent(m)' = CommitSent(m) \cup {s} /\ s \notin CommitSent(m)
  BY <1>1 DEF CommitSent
<1>5. /\ Cardinality(CommitSent(m)') = Cardinality(CommitSent(m)) + 1
      /\ Cardinality(CommitSent(m)) \in Nat
  <2>1. IsFiniteSet(CommitSent(m))
    BY SignersAssumption, FS_Subset DEF CommitSent
  <2>2. Cardinality(CommitSent(m)) \in Nat
    BY <2>1, FS_CardinalityType
  <2>3. Cardinality(CommitSent(m) \cup {s}) = Cardinality(CommitSent(m)) + 1
    BY <1>4, <2>1, FS_AddElement
  <2> QED
    BY <1>4, <2>2, <2>3
<1>6. \A n \in Messages \ {m} : Untouched(n)
  BY <1>1 DEF Untouched
<1>7. CommitmentList(m)' = CommitmentList(m)
  BY <1>1, PartsFrame
<1>8. RoundsInOrder(m)'
  BY <1>1 DEF RoundsInOrder
<1>9. CommitResultsSent(m)'
  <2>1. Len(commitChan'[m]) <= Cardinality(CommitSent(m)')
    BY <1>3, <1>5 DEF CommitResultsSent
  <2>2. \A e \in Elems(commitChan'[m]) : e.addr \in CommitSent(m)'
    BY <1>2, <1>3, <1>4 DEF CommitResultsSent
  <2>3. active'[m] \subseteq CommitSent(m)'
    BY <1>1, <1>4 DEF CommitResultsSent
  <2> QED
    BY <2>1, <2>2, <2>3 DEF CommitResultsSent
<1>10. QuorumKept(m)' /\ SignResultsSent(m)' /\ OwnShares(m)' /\ SharesCounted(m)'
  BY <1>1, <1>7, PartsFrame
<1>11. SharesAskedFor'
  BY <1>1, <1>6, <1>7, SessionFrame, SharesAskedForKept
<1>12. CommitmentsOwned'
  BY <1>1, CommitmentsOwnedKept
<1> QED
  BY <1>6, <1>8, <1>9, <1>10, <1>11, <1>12 DEF SessionsKept

\* Before the second round a call has no /sign goroutine, no share and no reply.
LEMMA NoSharesYet ==
  ASSUME SessionInv, NEW m \in Messages, pc[m] \in {"idle", "commit"}
  PROVE  /\ \A s \in Signers : signCall[m][s] = "none" /\ signResp[m][s] = NoReply
         /\ SignSent(m) = {} /\ gathered[m] = {} /\ signChan[m] = <<>>
<1> USE DEF SessionInv, Session, ProxyInv, TypeOK
<1>1. \A s \in Signers : signCall[m][s] = "none"
  BY DEF RoundsInOrder
<1>2. \A s \in Signers : signResp[m][s] = NoReply
  BY <1>1 DEF OwnShares
<1>3. SignSent(m) = {}
  BY <1>1 DEF SignSent
<1>4. gathered[m] = {}
  BY <1>3 DEF SignResultsSent
<1>5. signChan[m] = <<>>
  <2>1. Len(signChan[m]) <= Cardinality({})
    BY <1>3 DEF SignResultsSent
  <2>2. signChan[m] \in Seq(Results) /\ Cardinality({}) = 0
    BY FS_EmptySet
  <2> QED
    BY <2>1, <2>2
<1> QED
  BY <1>1, <1>2, <1>3, <1>4, <1>5

LEMMA SessionKeptByRecvCommitment ==
  ASSUME SessionInv, NEW m \in Messages, RecvCommitment(m)
  PROVE  SessionsKept(m)
<1> USE DEF SessionInv, Session, ProxyInv, TypeOK
<1> DEFINE r == Head(commitChan[m])
<1>1. /\ pc[m] = "commit" /\ commitChan[m] # <<>>
      /\ active'[m] = IF ~r.err /\ Cardinality(active[m]) < Threshold
                        THEN active[m] \cup {r.addr} ELSE active[m]
      /\ commitChan'[m] = Tail(commitChan[m])
      /\ \A n \in Messages \ {m} :
           active'[n] = active[n] /\ commitChan'[n] = commitChan[n] /\ taken'[n] = taken[n]
      /\ UNCHANGED <<pc, gathered, commitCall, commitResp, signCall, signResp, signChan>>
      /\ UNCHANGED <<drawn, shares>>
  BY DEF RecvCommitment, signVars, signerVars
<1>2. /\ Elems(commitChan'[m]) \subseteq Elems(commitChan[m]) /\ r \in Elems(commitChan[m])
      /\ Len(commitChan'[m]) <= Len(commitChan[m])
      /\ Len(commitChan'[m]) \in Nat /\ Len(commitChan[m]) \in Nat
  BY <1>1, TailElems
<1> HIDE DEF r
<1>3. CommitSent(m)' = CommitSent(m) /\ Cardinality(CommitSent(m)) \in Nat
  <2>1. IsFiniteSet(CommitSent(m))
    BY SignersAssumption, FS_Subset DEF CommitSent
  <2> QED
    BY <1>1, <2>1, FS_CardinalityType DEF CommitSent
<1>4. r.addr \in CommitSent(m)
  BY <1>2 DEF CommitResultsSent
<1>5. \A n \in Messages \ {m} : Untouched(n)
  BY <1>1 DEF Untouched
<1>6. RoundsInOrder(m)'
  BY <1>1 DEF RoundsInOrder
<1>7. QuorumKept(m)'
  <2>1. IsFiniteSet(active[m]) /\ Cardinality(active[m]) \in Nat /\ Threshold \in Nat
    BY SignersAssumption, FS_Subset, FS_CardinalityType
  <2>2. Cardinality(active'[m]) <= Threshold
    <3>1. CASE ~r.err /\ Cardinality(active[m]) < Threshold
      <4>1. active'[m] = active[m] \cup {r.addr}
        BY <1>1, <3>1
      <4>2. Cardinality(active[m] \cup {r.addr}) =
              IF r.addr \in active[m] THEN Cardinality(active[m]) ELSE Cardinality(active[m]) + 1
        BY <2>1, FS_AddElement
      <4> QED
        BY <2>1, <3>1, <4>1, <4>2
    <3>2. CASE ~(~r.err /\ Cardinality(active[m]) < Threshold)
      BY <1>1, <3>2 DEF QuorumKept
    <3> QED
      BY <3>1, <3>2
  <2> QED
    BY <1>1, <2>2 DEF QuorumKept
<1>8. CommitResultsSent(m)'
  <2>1. active'[m] \subseteq CommitSent(m)'
    BY <1>1, <1>3, <1>4 DEF CommitResultsSent
  <2>2. Len(commitChan'[m]) <= Cardinality(CommitSent(m)')
    BY <1>2, <1>3 DEF CommitResultsSent
  <2> QED
    BY <1>2, <1>3, <2>1, <2>2 DEF CommitResultsSent
<1>9. SignResultsSent(m)'
  BY <1>1, PartsFrame
<1>10. OwnShares(m)' /\ SharesCounted(m)'
  BY <1>1, NoSharesYet DEF OwnShares, SharesCounted
<1>11. SharesAskedFor'
  <2>1. \A s \in Signers : signCall[m][s] \notin {"answered", "sent"}
    BY <1>1, NoSharesYet
  <2>2. \A n \in Messages \ {m} : CommitmentList(n)' = CommitmentList(n)
    BY <1>5, SessionFrame
  <2> QED
    BY <1>1, <2>1, <2>2, SharesAskedForKept
<1>12. CommitmentsOwned'
  BY <1>1, CommitmentsOwnedKept
<1> QED
  BY <1>5, <1>6, <1>7, <1>8, <1>9, <1>10, <1>11, <1>12 DEF SessionsKept

LEMMA SessionKeptByCommitmentsCollected ==
  ASSUME SessionInv, NEW m \in Messages, CommitmentsCollected(m)
  PROVE  SessionsKept(m)
<1> USE DEF SessionInv, Session, ProxyInv, TypeOK
<1>1. /\ pc[m] = "commit" /\ taken'[m] = 0
      /\ \A n \in Messages \ {m} :
           pc'[n] = pc[n] /\ taken'[n] = taken[n] /\ signCall'[n] = signCall[n]
      /\ UNCHANGED <<active, gathered, commitCall, commitResp, commitChan, signResp, signChan>>
      /\ UNCHANGED <<drawn, shares>>
  BY DEF CommitmentsCollected, commitVars, signerVars
<1>2. \/ Cardinality(active[m]) < Threshold /\ pc'[m] = "error" /\ signCall'[m] = signCall[m]
      \/ /\ ~(Cardinality(active[m]) < Threshold) /\ pc'[m] = "share"
         /\ signCall'[m] = [s \in Signers |-> IF s \in active[m] THEN "posted" ELSE "none"]
  BY DEF CommitmentsCollected
<1>3. /\ \A s \in Signers : signCall[m][s] = "none" /\ signResp[m][s] = NoReply
      /\ SignSent(m) = {} /\ gathered[m] = {} /\ signChan[m] = <<>>
  BY <1>1, NoSharesYet
<1>4. \A n \in Messages \ {m} : Untouched(n)
  BY <1>1 DEF Untouched
<1>5. CommitmentList(m)' = CommitmentList(m)
  BY <1>1, PartsFrame
<1>6. RoundsInOrder(m)'
  BY <1>2, <1>1, <1>3 DEF RoundsInOrder
<1>7. QuorumKept(m)'
  <2>1. Cardinality(active[m]) \in Nat /\ Threshold \in Nat
    BY SignersAssumption, FS_Subset, FS_CardinalityType
  <2> QED
    BY <1>1, <1>2, <2>1 DEF QuorumKept
<1>8. CommitResultsSent(m)'
  BY <1>1, PartsFrame
<1>9. SignResultsSent(m)'
  <2>1. SignSent(m)' = {}
    BY <1>2, <1>3 DEF SignSent
  <2>2. signChan'[m] = <<>> /\ gathered'[m] = {}
    BY <1>1, <1>3
  <2>3. Len(signChan'[m]) = 0 /\ Elems(signChan'[m]) = {} /\ 1..Len(signChan'[m]) = {}
    BY <2>2 DEF Elems
  <2>4. Cardinality({}) = 0
    BY FS_EmptySet
  <2> QED
    BY <2>1, <2>2, <2>3, <2>4 DEF SignResultsSent
<1>10. OwnShares(m)'
  BY <1>1, <1>3 DEF OwnShares
<1>11. SharesCounted(m)'
  <2>1. Cardinality({}) = 0 /\ SharesOf({}, m)' = {} /\ {} \in SUBSET active'[m]
    BY FS_EmptySet DEF SharesOf
  <2>2. gathered'[m] = {}
    BY <1>1, <1>3
  <2> QED
    BY <1>1, <1>2, <2>1, <2>2 DEF SharesCounted
<1>12. SharesAskedFor'
  <2>1. \A s \in Signers : signCall[m][s] \notin {"answered", "sent"}
    BY <1>3
  <2>2. \A n \in Messages \ {m} : CommitmentList(n)' = CommitmentList(n)
    BY <1>4, SessionFrame
  <2> QED
    BY <1>1, <2>1, <2>2, SharesAskedForKept
<1>13. CommitmentsOwned'
  BY <1>1, CommitmentsOwnedKept
<1> QED
  BY <1>4, <1>6, <1>7, <1>8, <1>9, <1>10, <1>11, <1>12, <1>13 DEF SessionsKept

LEMMA SessionKeptBySignServed ==
  ASSUME SessionInv, NEW m \in Messages, NEW s \in Signers, SignServed(m, s)
  PROVE  SessionsKept(m)
<1> USE DEF SessionInv, Session, ProxyInv, TypeOK
<1>0. PICK sh : sh = SignatureShare(s, m, CommitmentList(m))
  OBVIOUS
<1>1. /\ signCall[m][s] = "posted"
      /\ signCall'[m] = [signCall[m] EXCEPT ![s] = "answered"]
      /\ \A n \in Messages \ {m} : signCall'[n] = signCall[n] /\ signResp'[n] = signResp[n]
      /\ UNCHANGED <<pc, taken, active, gathered, commitCall, commitResp, commitChan, signChan>>
      /\ UNCHANGED drawn
  BY DEF SignServed, commitVars, signHandlerOK, signHandlerError, signerVars
<1>2. \/ /\ shares' = shares \cup {sh}
         /\ signResp'[m] = [signResp[m] EXCEPT ![s] = sh]
      \/ UNCHANGED <<signResp, shares>>
  BY <1>0 DEF SignServed, signHandlerOK, signHandlerError, frostSign, signerVars
<1>3. \A n \in Messages \ {m} : Untouched(n)
  BY <1>1 DEF Untouched
<1>4. CommitmentList(m)' = CommitmentList(m)
  BY <1>1, PartsFrame
<1>5. RoundsInOrder(m)'
  BY <1>1 DEF RoundsInOrder
<1>6. SignResultsSent(m)'
  <2>1. \A t \in Signers : signCall'[m][t] = "sent" <=> signCall[m][t] = "sent"
    BY <1>1
  <2>2. SignSent(m)' = SignSent(m)
    BY <2>1 DEF SignSent
  <2> QED
    BY <1>1, <2>2 DEF SignResultsSent
<1>7. OwnShares(m)'
  <2> SUFFICES ASSUME NEW t \in Signers, signResp'[m][t] # NoReply
               PROVE  /\ signCall'[m][t] \in {"answered", "sent"}
                      /\ signResp'[m][t] = SignatureShare(t, m, CommitmentList(m))
    BY <1>4 DEF OwnShares, SignatureShare
  <2>1. CASE signResp'[m][t] = signResp[m][t]
    BY <1>1, <2>1 DEF OwnShares
  <2>2. CASE t = s /\ signResp'[m][t] = sh
    BY <1>0, <1>1, <2>2
  <2> QED
    BY <1>2, <2>1, <2>2
<1>8. QuorumKept(m)' /\ CommitResultsSent(m)' /\ SharesCounted(m)'
  BY <1>1, <1>4, PartsFrame
<1>9. SharesAskedFor'
  <2> SUFFICES ASSUME NEW a \in shares'
               PROVE  /\ a.list = CommitmentList(a.msg)'
                      /\ signCall'[a.msg][a.signer] \in {"answered", "sent"}
    BY DEF SharesAskedFor
  <2>1. CASE a \in shares
    <3>1. a.msg \in Messages /\ a.signer \in Signers
      BY <2>1 DEF SignerTypeOK, Shares
    <3>2. a.list = CommitmentList(a.msg) /\ signCall[a.msg][a.signer] \in {"answered", "sent"}
      BY <2>1 DEF SharesAskedFor
    <3>3. CommitmentList(a.msg)' = CommitmentList(a.msg)
      BY <1>3, <1>4, <3>1, SessionFrame
    <3>4. ASSUME NEW n \in Messages, NEW t \in Signers
          PROVE  signCall'[n][t] = signCall[n][t] \/ signCall'[n][t] = "answered"
      <4>1. CASE n = m
        BY <1>1, <4>1
      <4>2. CASE n # m
        BY <1>1, <4>2
      <4> QED
        BY <4>1, <4>2
    <3> QED
      BY <3>1, <3>2, <3>3, <3>4
  <2>2. CASE a = sh
    <3>1. a.list = CommitmentList(m) /\ a.msg = m /\ a.signer = s
      BY <1>0, <2>2 DEF SignatureShare
    <3> QED
      BY <1>1, <1>4, <3>1
  <2> QED
    BY <1>2, <2>1, <2>2
<1>10. CommitmentsOwned'
  BY <1>1, CommitmentsOwnedKept
<1> QED
  BY <1>3, <1>5, <1>6, <1>7, <1>8, <1>9, <1>10 DEF SessionsKept

LEMMA SessionKeptBySendSignResult ==
  ASSUME SessionInv, NEW m \in Messages, NEW s \in Signers, NEW err \in BOOLEAN,
         signCall[m][s] \in {"posted", "answered"}, SendSignResult(m, s, err)
  PROVE  SessionsKept(m)
<1> USE DEF SessionInv, Session, ProxyInv, TypeOK
<1> DEFINE r == [addr |-> s, err |-> err]
<1>1. /\ signChan'[m] = Append(signChan[m], r)
      /\ signCall'[m] = [signCall[m] EXCEPT ![s] = "sent"]
      /\ \A n \in Messages \ {m} : signCall'[n] = signCall[n] /\ signChan'[n] = signChan[n]
      /\ UNCHANGED <<pc, taken, active, gathered, commitCall, commitResp, commitChan, signResp>>
      /\ UNCHANGED <<drawn, shares>>
  BY DEF SendSignResult, commitVars, signerVars
<1>2. r \in Results /\ r.addr = s
  BY DEF Results
<1> HIDE DEF r
<1>3. /\ Elems(signChan'[m]) = Elems(signChan[m]) \cup {r}
      /\ Len(signChan'[m]) = Len(signChan[m]) + 1
      /\ Len(signChan[m]) \in Nat
  BY <1>1, <1>2, AppendElems
<1>4. SignSent(m)' = SignSent(m) \cup {s} /\ s \notin SignSent(m)
  BY <1>1 DEF SignSent
<1>5. /\ Cardinality(SignSent(m)') = Cardinality(SignSent(m)) + 1
      /\ Cardinality(SignSent(m)) \in Nat
  <2>1. IsFiniteSet(SignSent(m))
    BY SignersAssumption, FS_Subset DEF SignSent
  <2>2. Cardinality(SignSent(m)) \in Nat
    BY <2>1, FS_CardinalityType
  <2>3. Cardinality(SignSent(m) \cup {s}) = Cardinality(SignSent(m)) + 1
    BY <1>4, <2>1, FS_AddElement
  <2> QED
    BY <1>4, <2>2, <2>3
<1>6. \A n \in Messages \ {m} : Untouched(n)
  BY <1>1 DEF Untouched
<1>7. CommitmentList(m)' = CommitmentList(m)
  BY <1>1, PartsFrame
<1>8. RoundsInOrder(m)'
  BY <1>1 DEF RoundsInOrder
<1>9. SignResultsSent(m)'
  <2>1. Len(signChan'[m]) <= Cardinality(SignSent(m)')
    BY <1>3, <1>5 DEF SignResultsSent
  <2>2. \A e \in Elems(signChan'[m]) : e.addr \in SignSent(m)'
    BY <1>2, <1>3, <1>4 DEF SignResultsSent
  <2>3. \A i, j \in 1..Len(signChan'[m]) : signChan'[m][i].addr = signChan'[m][j].addr => i = j
    <3>1. \A i \in 1..Len(signChan[m]) :
            signChan'[m][i] = signChan[m][i] /\ signChan'[m][i].addr # s
      <4>1. \A i \in 1..Len(signChan[m]) : signChan[m][i] \in Elems(signChan[m])
        BY DEF Elems
      <4> QED
        BY <1>1, <1>4, <4>1 DEF SignResultsSent
    <3>2. signChan'[m][Len(signChan[m]) + 1].addr = s
      BY <1>1, <1>2
    <3>3. \A i \in 1..Len(signChan'[m]) :
            i \in 1..Len(signChan[m]) \/ i = Len(signChan[m]) + 1
      BY <1>3
    <3>4. \A i, j \in 1..Len(signChan[m]) : signChan[m][i].addr = signChan[m][j].addr => i = j
      BY DEF SignResultsSent
    <3> QED
      BY <3>1, <3>2, <3>3, <3>4
  <2>4. ASSUME NEW sh \in gathered'[m]
        PROVE  sh.signer \in SignSent(m)' /\ \A e \in Elems(signChan'[m]) : e.addr # sh.signer
    BY <1>1, <1>2, <1>3, <1>4 DEF SignResultsSent
  <2> QED
    BY <2>1, <2>2, <2>3, <2>4 DEF SignResultsSent
<1>10. OwnShares(m)'
  BY <1>1, <1>7 DEF OwnShares, SignatureShare
<1>11. QuorumKept(m)' /\ CommitResultsSent(m)' /\ SharesCounted(m)'
  BY <1>1, <1>7, PartsFrame
<1>12. SharesAskedFor'
  <2>1. \A n \in Messages : CommitmentList(n)' = CommitmentList(n)
    BY <1>6, <1>7, SessionFrame
  <2>2. \A n \in Messages, t \in Signers :
          signCall'[n][t] = signCall[n][t] \/ signCall'[n][t] = "sent"
    <3>1. \A t \in Signers : signCall'[m][t] = signCall[m][t] \/ signCall'[m][t] = "sent"
      <4>1. signCall'[m] = [signCall[m] EXCEPT ![s] = "sent"] /\ DOMAIN signCall[m] = Signers
        BY <1>1
      <4> HIDE DEF SessionInv, Session, ProxyInv, TypeOK
      <4> QED
        BY <4>1
    <3>2. \A n \in Messages \ {m} : signCall'[n] = signCall[n]
      BY <1>1
    <3> HIDE DEF SessionInv, Session, ProxyInv, TypeOK
    <3> QED
      BY <3>1, <3>2
  <2> QED
    BY <1>1, <2>1, <2>2, SharesAskedForKept
<1>13. CommitmentsOwned'
  BY <1>1, CommitmentsOwnedKept
<1> QED
  BY <1>6, <1>8, <1>9, <1>10, <1>11, <1>12, <1>13 DEF SessionsKept

LEMMA SessionKeptByRecvShare ==
  ASSUME SessionInv, NEW m \in Messages, RecvShare(m)
  PROVE  SessionsKept(m)
<1> USE DEF SessionInv, Session, ProxyInv, TypeOK
<1>0. PICK r : r = Head(signChan[m])
  OBVIOUS
<1>1. /\ pc[m] = "share" /\ signChan[m] # <<>>
      /\ signChan'[m] = Tail(signChan[m])
      /\ taken'[m] = taken[m] + 1
      /\ UNCHANGED <<active, commitCall, commitResp, commitChan, signCall, signResp>>
      /\ UNCHANGED <<drawn, shares>>
  BY DEF RecvShare, commitVars, signerVars
<1>2. \/ r.err /\ pc'[m] = "error" /\ gathered'[m] = gathered[m]
      \/ ~r.err /\ pc'[m] = "share" /\ gathered'[m] = gathered[m] \cup {signResp[m][r.addr]}
  BY <1>0, <1>1 DEF RecvShare
<1>3. \A n \in Messages \ {m} : Untouched(n)
  BY <1>1 DEF RecvShare, Untouched
<1>4. signChan[m] \in Seq(Results)
  OBVIOUS
<1>5. /\ Tail(signChan[m]) \in Seq(Results)
      /\ Elems(signChan'[m]) \subseteq Elems(signChan[m])
      /\ r \in Results /\ r \in Elems(signChan[m])
  BY <1>0, <1>1, <1>4, TailElems
<1>6. /\ Len(signChan[m]) \in Nat \ {0} /\ Len(signChan'[m]) = Len(signChan[m]) - 1
      /\ r = signChan[m][1]
      /\ \A k \in 1..Len(signChan'[m]) :
           k + 1 \in 1..Len(signChan[m]) /\ signChan'[m][k] = signChan[m][k + 1]
  BY <1>0, <1>1, <1>4
<1>7. r.addr \in Signers /\ r.addr \in SignSent(m) /\ r.addr \in active[m]
  BY <1>5 DEF Results, SignResultsSent, SignSent, RoundsInOrder
<1>8. ~r.err => signResp[m][r.addr] = SignatureShare(r.addr, m, CommitmentList(m))
  BY <1>5, <1>7 DEF SharesReceived, OwnShares
<1>9. \A e \in Elems(signChan'[m]) : e.addr # r.addr
  <2> SUFFICES ASSUME NEW k \in 1..Len(signChan'[m]) PROVE signChan'[m][k].addr # r.addr
    BY DEF Elems
  <2>1. k + 1 \in 1..Len(signChan[m]) /\ 1 \in 1..Len(signChan[m]) /\ k + 1 # 1
    BY <1>6
  <2>2. signChan[m][k + 1].addr # signChan[m][1].addr
    BY <2>1 DEF SignResultsSent
  <2> QED
    BY <1>6, <2>2
<1>10. CommitmentList(m)' = CommitmentList(m)
  BY <1>1, PartsFrame
<1>11. RoundsInOrder(m)' /\ QuorumKept(m)'
  BY <1>1, <1>2 DEF RoundsInOrder, QuorumKept
<1>12. SignResultsSent(m)'
  <2>1. SignSent(m)' = SignSent(m) /\ Cardinality(SignSent(m)) \in Nat
    <3>1. IsFiniteSet(SignSent(m))
      BY SignersAssumption, FS_Subset DEF SignSent
    <3> QED
      BY <1>1, <3>1, FS_CardinalityType DEF SignSent
  <2>2. Len(signChan'[m]) <= Cardinality(SignSent(m)')
    BY <1>6, <2>1 DEF SignResultsSent
  <2>3. \A i, j \in 1..Len(signChan'[m]) : signChan'[m][i].addr = signChan'[m][j].addr => i = j
    <3> SUFFICES ASSUME NEW i \in 1..Len(signChan'[m]), NEW j \in 1..Len(signChan'[m]),
                        signChan'[m][i].addr = signChan'[m][j].addr
                 PROVE  i = j
      OBVIOUS
    <3>1. /\ i + 1 \in 1..Len(signChan[m]) /\ j + 1 \in 1..Len(signChan[m])
          /\ signChan[m][i + 1].addr = signChan[m][j + 1].addr
      BY <1>6
    <3>2. i + 1 = j + 1
      BY <3>1 DEF SignResultsSent
    <3> QED
      BY <3>2
  <2>4. ASSUME NEW sh \in gathered'[m]
        PROVE  sh.signer \in SignSent(m) /\ \A e \in Elems(signChan'[m]) : e.addr # sh.signer
    <3>1. CASE sh \in gathered[m]
      BY <1>5, <3>1 DEF SignResultsSent
    <3>2. CASE ~r.err /\ sh = signResp[m][r.addr]
      <4>1. sh.signer = r.addr
        BY <1>8, <3>2 DEF SignatureShare
      <4> QED
        BY <1>7, <1>9, <4>1
    <3> QED
      BY <1>2, <3>1, <3>2
  <2>5. \A e \in Elems(signChan'[m]) : e.addr \in SignSent(m)
    BY <1>5 DEF SignResultsSent
  <2> QED
    BY <2>1, <2>2, <2>3, <2>4, <2>5 DEF SignResultsSent
<1>13. CommitResultsSent(m)' /\ OwnShares(m)'
  BY <1>1, <1>10, PartsFrame
<1>14. SharesCounted(m)'
  <2>1. CASE r.err
    BY <1>2, <2>1 DEF SharesCounted
  <2>2. CASE ~r.err
    <3>1. PICK G \in SUBSET active[m] :
            Cardinality(G) = taken[m] /\ gathered[m] = SharesOf(G, m)
      BY <1>1 DEF SharesCounted
    <3>2. r.addr \notin G
      <4> SUFFICES ASSUME r.addr \in G PROVE FALSE
        OBVIOUS
      <4>1. SignatureShare(r.addr, m, CommitmentList(m)) \in gathered[m]
        BY <3>1 DEF SharesOf
      <4>2. SignatureShare(r.addr, m, CommitmentList(m)).signer = r.addr
        BY DEF SignatureShare
      <4> QED
        BY <1>5, <4>1, <4>2 DEF SignResultsSent
    <3>3. Cardinality(G \cup {r.addr}) = taken'[m]
      <4>1. IsFiniteSet(G)
        BY SignersAssumption, FS_Subset
      <4>2. Cardinality(G \cup {r.addr}) = Cardinality(G) + 1
        BY <3>2, <4>1, FS_AddElement
      <4> QED
        BY <1>1, <3>1, <4>2
    <3>4. gathered'[m] = SharesOf(G \cup {r.addr}, m)'
      <4>1. gathered'[m] = SharesOf(G, m) \cup {SignatureShare(r.addr, m, CommitmentList(m))}
        BY <1>2, <1>8, <2>2, <3>1
      <4> QED
        BY <1>10, <4>1 DEF SharesOf, SignatureShare
    <3>5. G \cup {r.addr} \in SUBSET active'[m]
      BY <1>1, <1>7
    <3> QED
      BY <1>2, <2>2, <3>3, <3>4, <3>5 DEF SharesCounted
  <2> QED
    BY <2>1, <2>2
<1>15. SharesAskedFor'
  BY <1>1, <1>3, <1>10, SessionFrame, SharesAskedForKept
<1>16. CommitmentsOwned'
  BY <1>1, CommitmentsOwnedKept
<1> QED
  BY <1>3, <1>11, <1>12, <1>13, <1>14, <1>15, <1>16 DEF SessionsKept

\* A step of the main goroutine, or its end, that changes only where it is.
LEMMA SessionKeptByPcStep ==
  ASSUME SessionInv, NEW m \in Messages, NEW p \in PCs,
         pc' = [pc EXCEPT ![m] = p], pc[m] \notin {"idle", "commit"} \/ p = "dead",
         p \notin {"idle", "commit", "share"},
         UNCHANGED <<taken, active, gathered, commitVars, signVars, drawn, shares>>,
         p \in {"aggregate", "done"} =>
           Cardinality(active[m]) >= Threshold /\ AggregateSignatures(m, gathered[m], CommitmentList(m))
  PROVE  SessionsKept(m)
<1> USE DEF SessionInv, Session, ProxyInv, TypeOK, commitVars, signVars
<1>1. pc'[m] = p /\ \A n \in Messages \ {m} : pc'[n] = pc[n]
  OBVIOUS
<1>2. \A n \in Messages \ {m} : Untouched(n)
  BY <1>1 DEF Untouched
<1>3. CommitmentList(m)' = CommitmentList(m)
  BY PartsFrame
<1>4. RoundsInOrder(m)' /\ QuorumKept(m)'
  BY <1>1 DEF RoundsInOrder, QuorumKept
<1>5. CommitResultsSent(m)' /\ SignResultsSent(m)' /\ OwnShares(m)'
  BY <1>3, PartsFrame
<1>6. SharesCounted(m)'
  BY <1>1, <1>3
  DEF SharesCounted, AggregateSignatures, ValidCommitmentList, SignatureShare
<1>7. SharesAskedFor'
  BY <1>2, <1>3, SessionFrame, SharesAskedForKept
<1>8. CommitmentsOwned'
  BY CommitmentsOwnedKept
<1> QED
  BY <1>2, <1>4, <1>5, <1>6, <1>7, <1>8 DEF SessionsKept

\* When the loop has counted as many shares as there are active signers, it has the
\* share of every one of them.
LEMMA AllSharesAggregate ==
  ASSUME SessionInv, NEW m \in Messages, pc[m] = "share",
         taken[m] = Cardinality(active[m])
  PROVE  AggregateSignatures(m, gathered[m], CommitmentList(m))
<1> USE DEF SessionInv, Session, ProxyInv, TypeOK
<1>1. PICK G \in SUBSET active[m] :
        Cardinality(G) = taken[m] /\ gathered[m] = SharesOf(G, m)
  BY DEF SharesCounted
<1>2. IsFiniteSet(active[m])
  BY SignersAssumption, FS_Subset
<1>3. G = active[m]
  BY <1>1, <1>2, FS_Subset
<1>4. DOMAIN CommitmentList(m) = active[m]
  BY DEF CommitmentList
<1>5. Cardinality(active[m]) >= Threshold
  BY DEF QuorumKept
<1> QED
  BY <1>1, <1>3, <1>4, <1>5 DEF AggregateSignatures, ValidCommitmentList, SharesOf

LEMMA SessionKeptBySharesCollected ==
  ASSUME SessionInv, NEW m \in Messages, SharesCollected(m)
  PROVE  SessionsKept(m)
<1>1. AggregateSignatures(m, gathered[m], CommitmentList(m))
  BY AllSharesAggregate DEF SharesCollected
<1>2. Cardinality(active[m]) >= Threshold
  BY DEF SharesCollected, SessionInv, Session, QuorumKept
<1> QED
  BY <1>1, <1>2, SessionKeptByPcStep DEF SharesCollected, PCs, signerVars

LEMMA SessionKeptByAggregate ==
  ASSUME SessionInv, NEW m \in Messages, Aggregate(m)
  PROVE  SessionsKept(m) /\ pc' = [pc EXCEPT ![m] = "done"]
<1>1. AggregateSignatures(m, gathered[m], CommitmentList(m))
  BY DEF Aggregate, SessionInv, Session, SharesCounted
<1>2. Cardinality(active[m]) >= Threshold
  BY DEF Aggregate, SessionInv, Session, QuorumKept
<1>3. pc' = [pc EXCEPT ![m] = "done"]
  BY <1>1 DEF Aggregate
<1> QED
  BY <1>1, <1>2, <1>3, SessionKeptByPcStep DEF Aggregate, PCs, Returned, signerVars

LEMMA SessionKeptByProxyDies ==
  ASSUME SessionInv, NEW m \in Messages, ProxyDies(m)
  PROVE  SessionsKept(m)
BY SessionKeptByPcStep DEF ProxyDies, PCs, Returned, signerVars

\* A step that leaves all calls alone, and the commitments and shares made.
LEMMA SessionKeptByOthers ==
  ASSUME SessionInv, ProxyInv', UNCHANGED <<proxyVars, drawn, shares>>
  PROVE  SessionInv'
<1> USE DEF SessionInv, proxyVars, commitVars, signVars
<1>1. \A n \in Messages : Untouched(n)
  BY DEF Untouched
<1>2. \A n \in Messages : Session(n)' /\ CommitmentList(n)' = CommitmentList(n)
  BY <1>1, SessionFrame
<1>3. SharesAskedFor'
  BY <1>2, SharesAskedForKept
<1>4. CommitmentsOwned'
  BY CommitmentsOwnedKept
<1> QED
  BY <1>2, <1>3, <1>4

LEMMA SessionInvNext == SessionInv /\ [Next]_vars => SessionInv'
<1> SUFFICES ASSUME SessionInv, [Next]_vars PROVE SessionInv'
  OBVIOUS
<1>1. ProxyInv'
  BY ProxyInvNext DEF SessionInv
<1>2. ASSUME NEW m \in Messages, SessionsKept(m) PROVE SessionInv'
  BY <1>1, <1>2, SessionFrame DEF SessionsKept, SessionInv
<1>3. ASSUME NEW m \in Messages, Sign(m) \/ MainStep(m) \/ ProxyDies(m)
      PROVE  SessionInv'
  BY <1>2, <1>3, SessionKeptBySign, SessionKeptByRecvCommitment,
     SessionKeptByCommitmentsCollected, SessionKeptByRecvShare, SessionKeptBySharesCollected,
     SessionKeptByAggregate, SessionKeptByProxyDies DEF MainStep
<1>4. ASSUME NEW m \in Messages, NEW s \in Signers,
             CommitStep(m, s) \/ SignStep(m, s) \/ NetFault(m, s)
      PROVE  SessionInv'
  <2>1. CASE CommitServed(m, s) \/ SignServed(m, s)
    BY <1>2, <2>1, SessionKeptByCommitServed, SessionKeptBySignServed
  <2>2. CASE CommitReplied(m, s) \/ CommitFailed(m, s)
    BY <1>2, <2>2, SessionKeptBySendCommitResult DEF CommitReplied, CommitFailed
  <2>3. CASE SignReplied(m, s) \/ SignFailed(m, s)
    <3>1. (signResp[m][s] = NoReply) \in BOOLEAN
      OBVIOUS
    <3> QED
      BY <1>2, <2>3, <3>1, SessionKeptBySendSignResult DEF SignReplied, SignFailed
  <2> QED
    BY <1>4, <2>1, <2>2, <2>3 DEF CommitStep, SignStep, NetFault
<1>5. ASSUME NEW s \in Signers, Fault(s)
      PROVE  SessionInv'
  <2>1. UNCHANGED <<proxyVars, drawn, shares>>
    BY <1>5, FaultForgets DEF Fault, SessionInv, ProxyInv, TypeOK
  <2> QED
    BY <1>1, <2>1, SessionKeptByOthers
<1>6. CASE UNCHANGED vars
  BY <1>1, <1>6, SessionKeptByOthers DEF vars, signerVars
<1> QED
  BY <1>3, <1>4, <1>5, <1>6 DEF Next

LEMMA SessionInvariance == Spec => []SessionInv
BY SessionInvInit, SessionInvNext, PTL DEF Spec

\* "no goroutine ever blocks on send": the channels never hold more results than
\* goroutines have sent, and both are as large as the number that will send.
THEOREM SendsNeverBlock == Spec => []SendNeverBlocks
<1>1. SessionInv => SendNeverBlocks
  <2> SUFFICES ASSUME SessionInv, NEW m \in Messages, NEW s \in Signers
               PROVE  /\ commitCall[m][s] \in {"posted", "answered"} =>
                           Len(commitChan[m]) < CommitChanCap
                      /\ signCall[m][s] \in {"posted", "answered"} =>
                           Len(signChan[m]) < SignChanCap(m)
    BY DEF SendNeverBlocks
  <2> USE DEF SessionInv, Session, ProxyInv, TypeOK
  <2>1. /\ Len(commitChan[m]) \in Nat /\ Len(signChan[m]) \in Nat
        /\ Len(commitChan[m]) <= Cardinality(CommitSent(m))
        /\ Len(signChan[m]) <= Cardinality(SignSent(m))
    BY DEF CommitResultsSent, SignResultsSent
  <2>2. CommitSent(m) \in SUBSET Signers /\ SignSent(m) \in SUBSET active[m]
    BY DEF CommitSent, SignSent, RoundsInOrder
  <2>3. IsFiniteSet(Signers) /\ IsFiniteSet(active[m])
    BY SignersAssumption, FS_Subset
  <2>4. /\ Cardinality(CommitSent(m)) \in Nat /\ Cardinality(SignSent(m)) \in Nat
        /\ Cardinality(Signers) \in Nat /\ Cardinality(active[m]) \in Nat
    BY <2>2, <2>3, FS_Subset, FS_CardinalityType
  <2>5. ASSUME commitCall[m][s] \in {"posted", "answered"}
        PROVE  Len(commitChan[m]) < Cardinality(Signers)
    <3>1. CommitSent(m) # Signers
      BY <2>5 DEF CommitSent
    <3>2. /\ Cardinality(CommitSent(m)) <= Cardinality(Signers)
          /\ Cardinality(CommitSent(m)) # Cardinality(Signers)
      BY <2>2, <2>3, <3>1, FS_Subset
    <3> QED
      BY <2>1, <2>4, <3>2
  <2>6. ASSUME signCall[m][s] \in {"posted", "answered"}
        PROVE  Len(signChan[m]) < Cardinality(active[m])
    <3>1. SignSent(m) # active[m]
      BY <2>6 DEF SignSent, RoundsInOrder
    <3>2. /\ Cardinality(SignSent(m)) <= Cardinality(active[m])
          /\ Cardinality(SignSent(m)) # Cardinality(active[m])
      BY <2>2, <2>3, <3>1, FS_Subset
    <3> QED
      BY <2>1, <2>4, <3>2
  <2> QED
    BY <2>5, <2>6 DEF CommitChanCap, SignChanCap
<1> QED
  BY <1>1, SessionInvariance, PTL

\* The error "frost aggregate" cannot happen, for any number of calls and faults.
THEOREM AggregationNeverFails == Spec => []AggregationSucceeds
<1>1. SessionInv => AggregationSucceeds
  BY DEF SessionInv, Session, SharesCounted, AggregationSucceeds
<1> QED
  BY <1>1, SessionInvariance, PTL

\* Calls that run at the same time never mix their commitments or shares.
THEOREM SessionsNeverMix == Spec => []SessionsIsolated
<1>1. SessionInv => SessionsIsolated
  <2> SUFFICES ASSUME SessionInv, NEW a \in shares, NEW b \in shares
               PROVE  /\ a.msg = b.msg => a.list = b.list
                      /\ a.msg # b.msg =>
                           \A s \in DOMAIN a.list \cap DOMAIN b.list : a.list[s] # b.list[s]
    BY DEF SessionsIsolated
  <2>1. /\ a.msg \in Messages /\ a.list = CommitmentList(a.msg)
        /\ b.msg \in Messages /\ b.list = CommitmentList(b.msg)
    BY DEF SessionInv, ProxyInv, TypeOK, SignerTypeOK, Shares, SharesAskedFor
  <2>2. ASSUME a.msg # b.msg, NEW s \in DOMAIN a.list \cap DOMAIN b.list
        PROVE  a.list[s] # b.list[s]
    <3>1. /\ s \in active[a.msg] /\ a.list[s] = commitResp[a.msg][s]
          /\ s \in active[b.msg] /\ b.list[s] = commitResp[b.msg][s]
      BY <2>1, <2>2 DEF CommitmentList
    <3>2. s \in Signers /\ commitResp[a.msg][s] # NoReply
      BY <2>1, <3>1 DEF SessionInv, ProxyInv, TypeOK, CommitmentsReceived
    <3> QED
      BY <2>1, <2>2, <3>1, <3>2 DEF SessionInv, CommitmentsOwned
  <2> QED
    BY <2>1, <2>2
<1> QED
  BY <1>1, SessionInvariance, PTL

-----------------------------------------------------------------------------
(* The refinement of the oracle.                                           *)

\* The signers that contributed are active, and have been asked.
LEMMA ContributorsAsked ==
  ASSUME SessionInv, NEW m \in Messages
  PROVE  \A s \in Contributed(m) :
           s \in active[m] /\ signCall[m][s] \in {"answered", "sent"}
BY DEF SessionInv, Session, RoundsInOrder, SharesAskedFor, Contributed

\* Once a call has all its shares, exactly Threshold signers have contributed, and
\* none is still to be asked.
LEMMA QuorumContributed ==
  ASSUME SessionInv, NEW m \in Messages, pc[m] \in {"aggregate", "done"}
  PROVE  /\ Contributed(m) = active[m] /\ Cardinality(Contributed(m)) = Threshold
         /\ \A s \in active[m] : signCall[m][s] = "sent"
<1> USE DEF SessionInv, Session, ProxyInv, TypeOK
<1>1. gathered[m] = {SignatureShare(s, m, CommitmentList(m)) : s \in active[m]}
  BY CommitmentListType DEF SharesCounted, AggregateSignatures
<1>2. ASSUME NEW s \in active[m]
      PROVE  s \in Contributed(m) /\ signCall[m][s] = "sent"
  <2>1. SignatureShare(s, m, CommitmentList(m)) \in gathered[m]
    BY <1>1
  <2>2. /\ SignatureShare(s, m, CommitmentList(m)).signer = s
        /\ SignatureShare(s, m, CommitmentList(m)).msg = m
    BY DEF SignatureShare
  <2>3. s \in SignSent(m)
    BY <2>1, <2>2 DEF SignResultsSent
  <2>4. \E sh \in shares : sh.signer = s /\ sh.msg = m
    BY <2>1, <2>2 DEF SharesReceived
  <2> QED
    BY <2>3, <2>4 DEF SignSent, Contributed
<1>3. Contributed(m) = active[m]
  BY <1>2, ContributorsAsked
<1>4. Cardinality(active[m]) \in Nat /\ Threshold \in Nat
  BY SignersAssumption, FS_Subset, FS_CardinalityType
<1>5. Cardinality(active[m]) = Threshold
  BY <1>4 DEF QuorumKept
<1> QED
  BY <1>2, <1>3, <1>5

\* A step that computes no share changes at most what one caller is told.
LEMMA OracleOutcomeStep ==
  ASSUME SessionInv, NEW m \in Messages, NEW p \in PCs, pc' = [pc EXCEPT ![m] = p],
         pc[m] \notin Returned, UNCHANGED shares,
         p = "done" => pc[m] = "aggregate"
  PROVE  Oracle!OracleNext \/ UNCHANGED Oracle!oracleVars
<1>1. /\ pc'[m] = p /\ \A n \in Messages \ {m} : pc'[n] = pc[n]
  BY DEF SessionInv, ProxyInv, TypeOK
<1>2. /\ Outcome(m) = "pending"
      /\ Outcome(m)' = IF p = "done" THEN "issued" ELSE IF p \in Returned THEN "rejected" ELSE "pending"
      /\ \A n \in Messages \ {m} : Outcome(n)' = Outcome(n)
  BY <1>1 DEF Outcome, Returned
<1>3. \A n \in Messages : Contributed(n)' = Contributed(n)
  BY DEF Contributed
<1>4. CASE p = "done"
  <2>1. Cardinality(Contributed(m)) = Threshold
    BY <1>4, QuorumContributed
  <2>2. Oracle!Issue(m)
    <3>1. Oracle!Cardinality(Contributed(m)) = Threshold
      BY <2>1 DEF Oracle!Cardinality, Cardinality
    <3>2. Oracle!Cardinality([n \in Messages |-> Contributed(n)][m]) = Threshold
      BY <3>1
    <3>3. Outcome(m)' = "issued"
      BY <1>2, <1>4
    <3>4. /\ [n \in Messages |-> Outcome(n)][m] = "pending"
          /\ [n \in Messages |-> Outcome(n)]' =
               [[n \in Messages |-> Outcome(n)] EXCEPT ![m] = "issued"]
          /\ [n \in Messages |-> Contributed(n)]' = [n \in Messages |-> Contributed(n)]
          /\ {<<sh.signer, sh.id>> : sh \in shares}' = {<<sh.signer, sh.id>> : sh \in shares}
      BY <1>2, <1>3, <3>3
    <3> QED
      BY <3>2, <3>4 DEF Oracle!Issue
  <2> QED
    BY <2>2 DEF Oracle!OracleNext
<1>5. CASE p \in Returned \ {"done"}
  <2>1. Oracle!Reject(m)
    BY <1>2, <1>3, <1>5 DEF Oracle!Reject
  <2> QED
    BY <2>1 DEF Oracle!OracleNext
<1>6. CASE p \notin Returned
  <2>1. \A n \in Messages : Outcome(n)' = Outcome(n)
    BY <1>2, <1>6 DEF Returned
  <2> QED
    BY <1>3, <2>1 DEF Oracle!oracleVars
<1> QED
  BY <1>4, <1>5, <1>6

\* A share computed for a call is a contribution: of a signer that had not given
\* one, before Threshold had, with a nonce never spent, and not after the token.
LEMMA OracleContributeStep ==
  ASSUME SessionInv, LiveNoncesUnused, NEW m \in Messages, NEW s \in Signers,
         signCall[m][s] = "posted", signHandlerOK(s, m, CommitmentList(m)), UNCHANGED pc
  PROVE  Oracle!OracleNext
<1>0. PICK id : id = CommitmentList(m)[s]
  OBVIOUS
<1>1. PICK new : new = SignatureShare(s, m, CommitmentList(m))
  OBVIOUS
<1>2. new.signer = s /\ new.msg = m /\ new.id = id
  BY <1>0, <1>1 DEF SignatureShare
<1>3. id \in nonces[s] /\ shares' = shares \cup {new}
  BY <1>0, <1>1 DEF signHandlerOK, VerifyCommitmentList, frostSign
<1>4. id \in CommitmentIDs
  BY <1>3 DEF SessionInv, ProxyInv, TypeOK, SignerTypeOK
<1>5. s \notin Contributed(m)
  BY ContributorsAsked
<1>6. s \in active[m]
  BY DEF SessionInv, Session, RoundsInOrder
<1>7. pc[m] # "done"
  BY <1>6, QuorumContributed
<1>8. Cardinality(Contributed(m)) < Threshold
  <2>1. active[m] \in SUBSET Signers /\ Cardinality(active[m]) <= Threshold /\ Threshold \in Nat
    BY SignersAssumption DEF SessionInv, Session, ProxyInv, TypeOK, QuorumKept
  <2>2. IsFiniteSet(active[m]) /\ Cardinality(active[m]) \in Nat
    BY <2>1, SignersAssumption, FS_Subset, FS_CardinalityType
  <2>3. Contributed(m) \in SUBSET active[m] /\ Contributed(m) # active[m]
    BY <1>5, <1>6, ContributorsAsked
  <2>4. /\ Cardinality(Contributed(m)) <= Cardinality(active[m])
        /\ Cardinality(Contributed(m)) # Cardinality(active[m])
    BY <2>2, <2>3, FS_Subset
  <2>5. Cardinality(Contributed(m)) \in Nat
    BY <2>2, <2>3, FS_Subset, FS_CardinalityType
  <2> QED
    BY <2>1, <2>2, <2>4, <2>5
<1>9. <<s, id>> \notin {<<sh.signer, sh.id>> : sh \in shares}
  BY <1>3 DEF LiveNoncesUnused
<1>10. {<<sh.signer, sh.id>> : sh \in shares}' =
         {<<sh.signer, sh.id>> : sh \in shares} \cup {<<s, id>>}
  BY <1>2, <1>3
<1>11. \A n \in Messages :
         Contributed(n)' = IF n = m THEN Contributed(m) \cup {s} ELSE Contributed(n)
  <2> TAKE n \in Messages
  <2>1. \A t \in Signers : (\E sh \in shares' : sh.signer = t /\ sh.msg = n) <=>
          (\E sh \in shares : sh.signer = t /\ sh.msg = n) \/ (t = s /\ n = m)
    BY <1>2, <1>3
  <2> QED
    BY <2>1 DEF Contributed
<1>12. \A n \in Messages : Outcome(n)' = Outcome(n) /\ Outcome(m) # "issued"
  BY <1>7 DEF Outcome
<1>13. Oracle!Contribute(m, s, id)
  <2>1. Oracle!Cardinality(Contributed(m)) < Threshold
    BY <1>8 DEF Oracle!Cardinality, Cardinality
  <2>2. Oracle!Cardinality([n \in Messages |-> Contributed(n)][m]) < Threshold
    BY <2>1
  <2>3. [n \in Messages |-> Contributed(n)]' =
          [[n \in Messages |-> Contributed(n)] EXCEPT ![m] = @ \cup {s}]
    BY <1>11
  <2>4. /\ [n \in Messages |-> Outcome(n)][m] # "issued"
        /\ [n \in Messages |-> Outcome(n)]' = [n \in Messages |-> Outcome(n)]
        /\ s \notin [n \in Messages |-> Contributed(n)][m]
    BY <1>5, <1>12
  <2> QED
    BY <1>9, <1>10, <2>2, <2>3, <2>4 DEF Oracle!Contribute
<1> QED
  BY <1>4, <1>13 DEF Oracle!OracleNext

LEMMA OracleStep ==
  SessionInv /\ LiveNoncesUnused /\ [Next]_vars => [Oracle!OracleNext]_(Oracle!oracleVars)
<1> SUFFICES ASSUME SessionInv, LiveNoncesUnused, [Next]_vars
             PROVE  Oracle!OracleNext \/ UNCHANGED Oracle!oracleVars
  OBVIOUS
<1>1. UNCHANGED <<pc, shares>> => UNCHANGED Oracle!oracleVars
  BY DEF Oracle!oracleVars, Outcome, Contributed
<1>2. ASSUME NEW m \in Messages, Sign(m) \/ MainStep(m) \/ ProxyDies(m)
      PROVE  Oracle!OracleNext \/ UNCHANGED Oracle!oracleVars
  <2>1. UNCHANGED shares
    BY <1>2 DEF Sign, MainStep, RecvCommitment, CommitmentsCollected, RecvShare,
                SharesCollected, Aggregate, ProxyDies, signerVars
  <2>2. \/ UNCHANGED pc
        \/ /\ pc[m] \notin Returned
           /\ \E p \in PCs : /\ pc' = [pc EXCEPT ![m] = p]
                             /\ p = "done" => pc[m] = "aggregate"
    BY <1>2
    DEF Sign, MainStep, RecvCommitment, CommitmentsCollected, RecvShare,
        SharesCollected, Aggregate, ProxyDies, PCs, Returned
  <2> QED
    BY <1>1, <2>1, <2>2, OracleOutcomeStep
<1>3. ASSUME NEW m \in Messages, NEW s \in Signers,
             CommitStep(m, s) \/ SignStep(m, s) \/ NetFault(m, s)
      PROVE  Oracle!OracleNext \/ UNCHANGED Oracle!oracleVars
  <2>1. UNCHANGED pc
    BY <1>3 DEF CommitStep, SignStep, NetFault, CommitServed, CommitReplied, CommitFailed,
                SendCommitResult, SignServed, SignReplied, SignFailed, SendSignResult
  <2>2. \/ UNCHANGED shares
        \/ signCall[m][s] = "posted" /\ signHandlerOK(s, m, CommitmentList(m))
    BY <1>3
    DEF CommitStep, SignStep, NetFault, CommitServed, CommitReplied, CommitFailed,
        SendCommitResult, SignServed, SignReplied, SignFailed, SendSignResult,
        commitHandler, signHandlerError, signerVars
  <2> QED
    BY <1>1, <2>1, <2>2, OracleContributeStep
<1>4. ASSUME NEW s \in Signers, Fault(s)
      PROVE  UNCHANGED Oracle!oracleVars
  BY <1>1, <1>4, FaultForgets DEF Fault, proxyVars, SessionInv, ProxyInv, TypeOK
<1>5. CASE UNCHANGED vars
  BY <1>1, <1>5 DEF vars, proxyVars, signerVars
<1> QED
  BY <1>2, <1>3, <1>4, <1>5 DEF Next

\* The two rounds over HTTP, with crashes, lost replies and calls side by side,
\* implement the one-step threshold oracle.
THEOREM OracleImplemented == Spec => ImplementsOracle
<1>1. Init => Oracle!OracleInit
  <2> SUFFICES ASSUME Init PROVE Oracle!OracleInit
    OBVIOUS
  <2>1. \A m \in Messages : Outcome(m) = "pending" /\ Contributed(m) = {}
    BY DEF Init, SignerInit, Outcome, Contributed, Returned
  <2> QED
    BY <2>1 DEF Init, SignerInit, Oracle!OracleInit
<1>2. Spec => []SignerInv
  BY SignersImplemented, SignerInvariance, PTL
<1>3. SignerInv => LiveNoncesUnused
  BY DEF SignerInv
<1> QED
  BY <1>1, <1>2, <1>3, SessionInvariance, OracleStep, PTL
  DEF Spec, ImplementsOracle, Oracle!OracleSpec

-----------------------------------------------------------------------------
(* Nonces that no call comes back for.  They can be counted only when      *)
(* nothing fails: a crash drops some, and a lost reply strands others.     *)

Quiet == MaxCrashes = 0 /\ Faults = {}

\* The first round hears of every signer, and of every commitment drawn for it.
RoundAccounted(m) ==
  /\ \A s \in Signers :
       /\ commitCall[m][s] \in {"none", "posted"} => commitResp[m][s] = NoReply
       /\ status[s] = "up" /\ commitCall[m][s] \in {"answered", "sent"} =>
            commitResp[m][s] # NoReply
  /\ pc[m] = "idle" => taken[m] = 0 /\ commitChan[m] = <<>>
  /\ pc[m] = "commit" => taken[m] + Len(commitChan[m]) = Cardinality(CommitSent(m))
  /\ pc[m] \in {"share", "aggregate", "done"} => CommitSent(m) = Signers

\* A nonce lives from the reply to /commit to the share made with it.
LiveAccounted ==
  \A s \in Signers, id \in CommitmentIDs :
    id \in nonces[s] <=> \E m \in Messages : commitResp[m][s] = id /\ signResp[m][s] = NoReply

\* A commitment is recorded from the reply to /commit on, for good.
RecordsAccounted ==
  \A s \in Signers, id \in CommitmentIDs :
    id \in Commitments[s] <=> \E m \in Messages : commitResp[m][s] = id

SharesAnswered == \A sh \in shares : signResp[sh.msg][sh.signer] # NoReply

StrandInv ==
  /\ \A s \in Signers : status[s] \in {"up", "down"}
  /\ \A m \in Messages : RoundAccounted(m)
  /\ LiveAccounted
  /\ RecordsAccounted
  /\ SharesAnswered

LEMMA CommitSentFinite ==
  ASSUME NEW m
  PROVE  /\ IsFiniteSet(CommitSent(m)) /\ Cardinality(CommitSent(m)) \in Nat
         /\ Cardinality(CommitSent(m)) <= Cardinality(Signers)
         /\ Cardinality(Signers) \in Nat
         /\ Cardinality(CommitSent(m)) = Cardinality(Signers) => CommitSent(m) = Signers
<1>1. CommitSent(m) \in SUBSET Signers
  BY DEF CommitSent
<1> QED
  BY <1>1, SignersAssumption, FS_Subset, FS_CardinalityType

LEMMA StrandInvInit == Init => StrandInv
<1> SUFFICES ASSUME Init PROVE StrandInv
  OBVIOUS
<1>1. ASSUME NEW m \in Messages PROVE RoundAccounted(m)
  BY DEF Init, RoundAccounted
<1>2. LiveAccounted /\ RecordsAccounted
  BY NoReplyAssumption DEF Init, SignerInit, LiveAccounted, RecordsAccounted
<1> QED
  BY <1>1, <1>2 DEF Init, SignerInit, StrandInv, SharesAnswered

LEMMA RoundFrame ==
  ASSUME NEW n \in Messages, RoundAccounted(n), UNCHANGED <<status, commitResp>>,
         pc'[n] = pc[n], taken'[n] = taken[n],
         commitCall'[n] = commitCall[n], commitChan'[n] = commitChan[n]
  PROVE  RoundAccounted(n)'
<1>1. CommitSent(n)' = CommitSent(n)
  BY DEF CommitSent
<1> QED
  BY <1>1 DEF RoundAccounted

\* A step that leaves nonces, replies and shares has only the rounds to account for.
LEMMA StrandFrame ==
  ASSUME StrandInv, UNCHANGED <<status, nonces, Commitments, shares, commitResp, signResp>>,
         NEW m \in Messages, RoundAccounted(m)',
         \A n \in Messages \ {m} :
           /\ pc'[n] = pc[n] /\ taken'[n] = taken[n]
           /\ commitCall'[n] = commitCall[n] /\ commitChan'[n] = commitChan[n]
  PROVE  StrandInv'
<1>1. \A n \in Messages \ {m} : RoundAccounted(n)'
  BY RoundFrame DEF StrandInv
<1> QED
  BY <1>1 DEF StrandInv, LiveAccounted, RecordsAccounted, SharesAnswered

LEMMA StrandKeptBySign ==
  ASSUME SessionInv, StrandInv, NEW m \in Messages, Sign(m)
  PROVE  StrandInv'
<1> USE DEF SessionInv, ProxyInv, TypeOK, StrandInv
<1>1. /\ pc[m] = "idle" /\ pc'[m] = "commit"
      /\ \A s \in Signers : commitCall'[m][s] = "posted" /\ commitCall[m][s] = "none"
      /\ \A n \in Messages \ {m} : pc'[n] = pc[n] /\ commitCall'[n] = commitCall[n]
      /\ UNCHANGED <<status, nonces, Commitments, shares, taken, commitResp, commitChan, signResp>>
  BY DEF Sign, signerVars, signVars, Session, RoundsInOrder
<1>2. CommitSent(m)' = {} /\ Cardinality({}) = 0
  BY <1>1, FS_EmptySet DEF CommitSent
<1>3. taken'[m] = 0 /\ Len(commitChan'[m]) = 0
  BY <1>1 DEF RoundAccounted
<1>4. RoundAccounted(m)'
  BY <1>1, <1>2, <1>3 DEF RoundAccounted
<1> QED
  BY <1>1, <1>4, StrandFrame

LEMMA StrandKeptByCommitServed ==
  ASSUME SessionInv, StrandInv, NEW m \in Messages, NEW s \in Signers, CommitServed(m, s)
  PROVE  StrandInv'
<1> USE DEF SessionInv, ProxyInv, TypeOK, StrandInv
<1>1. PICK id \in CommitmentIDs :
        /\ commitHandler(s, id)
        /\ commitResp' = [commitResp EXCEPT ![m][s] = id]
  BY DEF CommitServed
<1>2. /\ commitCall[m][s] = "posted" /\ commitCall' = [commitCall EXCEPT ![m][s] = "answered"]
      /\ UNCHANGED <<pc, taken, commitChan, signResp, status, shares>>
  BY <1>1 DEF CommitServed, signVars, commitHandler
<1>3. /\ id \notin drawn[s] /\ nonces' = [nonces EXCEPT ![s] = @ \cup {id}]
      /\ Commitments' = [Commitments EXCEPT ![s] = @ \cup {id}]
  BY <1>1 DEF commitHandler
<1>4. commitResp[m][s] = NoReply /\ signResp[m][s] = NoReply
  <2>1. s \notin active[m]
    BY <1>2 DEF Session, CommitResultsSent, CommitSent
  <2>2. signCall[m][s] = "none"
    BY <2>1 DEF Session, RoundsInOrder
  <2>3. signResp[m][s] = NoReply
    BY <2>2 DEF Session, OwnShares
  <2>4. commitResp[m][s] = NoReply
    BY <1>2 DEF RoundAccounted
  <2> QED
    BY <2>3, <2>4
<1>5. \A n \in Messages, t \in Signers :
        /\ commitResp'[n][t] = IF n = m /\ t = s THEN id ELSE commitResp[n][t]
        /\ commitCall'[n][t] = IF n = m /\ t = s THEN "answered" ELSE commitCall[n][t]
  BY <1>1, <1>2
<1>6. id # NoReply
  BY NoReplyAssumption
<1>7. ASSUME NEW n \in Messages PROVE RoundAccounted(n)'
  <2>1. \A t \in Signers : commitCall'[n][t] = "sent" <=> commitCall[n][t] = "sent"
    BY <1>2, <1>5
  <2>2. CommitSent(n)' = CommitSent(n)
    BY <2>1 DEF CommitSent
  <2> QED
    BY <1>2, <1>5, <1>6, <2>2 DEF RoundAccounted
<1>8. LiveAccounted'
  <2>1. \A n \in Messages : commitResp[n][s] # id
    BY <1>3, <1>6 DEF CommitmentsOwned
  <2>2. \A t \in Signers, k \in CommitmentIDs :
          k \in nonces'[t] <=> k \in nonces[t] \/ (t = s /\ k = id)
    BY <1>3 DEF SignerTypeOK
  <2> SUFFICES ASSUME NEW t \in Signers, NEW k \in CommitmentIDs
      PROVE  k \in nonces'[t] <=>
               \E n \in Messages : commitResp'[n][t] = k /\ signResp[n][t] = NoReply
    BY <1>2 DEF LiveAccounted
  <2>3. k \in nonces[t] <=>
          \E n \in Messages : commitResp[n][t] = k /\ signResp[n][t] = NoReply
    BY DEF LiveAccounted
  <2>4. k # NoReply
    BY NoReplyAssumption
  <2>5. CASE t = s /\ k = id
    BY <1>4, <1>5, <2>2, <2>5
  <2>6. CASE ~(t = s /\ k = id)
    <3>1. \A n \in Messages : commitResp'[n][t] = k <=> commitResp[n][t] = k
      BY <1>4, <1>5, <2>4, <2>6
    <3> QED
      BY <2>2, <2>3, <2>6, <3>1
  <2> QED
    BY <2>5, <2>6
<1>9. RecordsAccounted'
  <2>1. \A t \in Signers, k \in CommitmentIDs :
          k \in Commitments'[t] <=> k \in Commitments[t] \/ (t = s /\ k = id)
    BY <1>3 DEF SignerTypeOK
  <2>2. \A n \in Messages, t \in Signers, k \in CommitmentIDs :
          commitResp'[n][t] = k <=> commitResp[n][t] = k \/ (n = m /\ t = s /\ k = id)
    <3>1. \A k \in CommitmentIDs : commitResp[m][s] # k
      BY <1>4, NoReplyAssumption
    <3> QED
      BY <1>5, <3>1
  <2> QED
    BY <2>1, <2>2 DEF RecordsAccounted
<1> QED
  BY <1>2, <1>7, <1>8, <1>9 DEF SharesAnswered

LEMMA StrandKeptBySendCommitResult ==
  ASSUME SessionInv, StrandInv, NEW m \in Messages, NEW s \in Signers, NEW err \in BOOLEAN,
         commitCall[m][s] \in {"posted", "answered"}, SendCommitResult(m, s, err),
         status[s] = "up" => commitCall[m][s] = "answered"
  PROVE  StrandInv'
<1> USE DEF SessionInv, ProxyInv, TypeOK, StrandInv
<1>1. PICK r \in Results : r = [addr |-> s, err |-> err]
  BY DEF Results
<1>2. /\ commitChan'[m] = Append(commitChan[m], r)
      /\ commitCall' = [commitCall EXCEPT ![m][s] = "sent"]
      /\ \A n \in Messages \ {m} : commitCall'[n] = commitCall[n] /\ commitChan'[n] = commitChan[n]
      /\ UNCHANGED <<pc, taken, commitResp, signResp, status, nonces, Commitments, shares>>
  BY <1>1 DEF SendCommitResult, signVars, signerVars
<1>3. \A t \in Signers : commitCall'[m][t] = IF t = s THEN "sent" ELSE commitCall[m][t]
  BY <1>2
<1>4. Len(commitChan'[m]) = Len(commitChan[m]) + 1 /\ Len(commitChan[m]) \in Nat
  BY <1>2, AppendElems
<1>5. CommitSent(m)' = CommitSent(m) \cup {s} /\ s \notin CommitSent(m)
  BY <1>3 DEF CommitSent
<1>6. /\ Cardinality(CommitSent(m)') = Cardinality(CommitSent(m)) + 1
      /\ Cardinality(CommitSent(m)) \in Nat
  BY <1>5, CommitSentFinite, FS_AddElement
<1>7. pc[m] # "idle"
  BY DEF Session, RoundsInOrder
<1>8. pc[m] = "commit" => taken'[m] + Len(commitChan'[m]) = Cardinality(CommitSent(m)')
  <2>1. taken[m] \in Nat /\ taken'[m] = taken[m]
    BY <1>2
  <2> QED
    BY <1>4, <1>6, <2>1 DEF RoundAccounted
<1>9. pc[m] \in {"share", "aggregate", "done"} => CommitSent(m)' = Signers
  BY <1>5 DEF RoundAccounted
<1>10. RoundAccounted(m)'
  BY <1>2, <1>3, <1>7, <1>8, <1>9 DEF RoundAccounted
<1> QED
  BY <1>2, <1>10, StrandFrame

LEMMA StrandKeptByRecvCommitment ==
  ASSUME SessionInv, StrandInv, NEW m \in Messages, RecvCommitment(m)
  PROVE  StrandInv'
<1> USE DEF SessionInv, ProxyInv, TypeOK, StrandInv
<1>1. /\ pc[m] = "commit" /\ commitChan[m] # <<>> /\ commitChan'[m] = Tail(commitChan[m])
      /\ taken'[m] = taken[m] + 1
      /\ \A n \in Messages \ {m} : taken'[n] = taken[n] /\ commitChan'[n] = commitChan[n]
      /\ UNCHANGED <<pc, commitCall, commitResp, signResp, status, nonces, Commitments, shares>>
  BY DEF RecvCommitment, signVars, signerVars
<1>2. Len(commitChan'[m]) = Len(commitChan[m]) - 1 /\ Len(commitChan[m]) \in Nat
  BY <1>1
<1>3. CommitSent(m)' = CommitSent(m)
  BY <1>1 DEF CommitSent
<1>4. taken'[m] + Len(commitChan'[m]) = taken[m] + Len(commitChan[m])
  <2>1. taken[m] \in Nat
    OBVIOUS
  <2> QED
    BY <1>1, <1>2, <2>1
<1>5. RoundAccounted(m)'
  BY <1>1, <1>3, <1>4 DEF RoundAccounted
<1> QED
  BY <1>1, <1>5, StrandFrame

LEMMA StrandKeptByCommitmentsCollected ==
  ASSUME SessionInv, StrandInv, NEW m \in Messages, CommitmentsCollected(m)
  PROVE  StrandInv'
<1> USE DEF SessionInv, ProxyInv, TypeOK, StrandInv
<1>1. /\ pc[m] = "commit" /\ taken[m] = Cardinality(Signers) /\ pc'[m] \in {"error", "share"}
      /\ \A n \in Messages \ {m} : taken'[n] = taken[n] /\ pc'[n] = pc[n]
      /\ UNCHANGED <<commitCall, commitChan, commitResp, signResp, status, nonces, Commitments, shares>>
  BY DEF CommitmentsCollected, commitVars, signerVars
<1>2. CommitSent(m) = Signers
  <2>1. taken[m] + Len(commitChan[m]) = Cardinality(CommitSent(m)) /\ Len(commitChan[m]) \in Nat
    BY <1>1 DEF RoundAccounted
  <2>2. Cardinality(CommitSent(m)) = Cardinality(Signers)
    BY <1>1, <2>1, CommitSentFinite
  <2> QED
    BY <2>2, CommitSentFinite
<1>3. CommitSent(m)' = Signers
  BY <1>1, <1>2 DEF CommitSent
<1>4. RoundAccounted(m)'
  BY <1>1, <1>3 DEF RoundAccounted
<1> QED
  BY <1>1, <1>4, StrandFrame

LEMMA StrandKeptBySignServed ==
  ASSUME SessionInv, StrandInv, NEW m \in Messages, NEW s \in Signers, SignServed(m, s)
  PROVE  StrandInv'
<1> USE DEF SessionInv, ProxyInv, TypeOK, StrandInv
<1>1. UNCHANGED <<status, Commitments, pc, taken, commitCall, commitResp, commitChan>>
  BY DEF SignServed, signHandlerOK, signHandlerError, signerVars, commitVars
<1>2. \A n \in Messages : RoundAccounted(n)'
  BY <1>1, RoundFrame
<1>3. CASE signHandlerError(s, m, CommitmentList(m)) /\ UNCHANGED signResp
  BY <1>1, <1>2, <1>3 DEF signHandlerError, signerVars, LiveAccounted, RecordsAccounted,
                            SharesAnswered
<1>4. CASE /\ signHandlerOK(s, m, CommitmentList(m))
           /\ signResp' = [signResp EXCEPT ![m][s] = SignatureShare(s, m, CommitmentList(m))]
  <2>1. PICK sh : sh = SignatureShare(s, m, CommitmentList(m))
    OBVIOUS
  <2>2. /\ s \in active[m] /\ commitResp[m][s] \in nonces[s]
        /\ nonces' = [nonces EXCEPT ![s] = @ \ {commitResp[m][s]}]
        /\ shares' = shares \cup {sh}
    BY <1>4, <2>1 DEF signHandlerOK, VerifyCommitmentList, frostSign, CommitmentList
  <2>3. CommitmentList(m) \in CommitmentLists /\ s \in DOMAIN CommitmentList(m)
    BY <2>2, CommitmentListType DEF CommitmentList
  <2>4. sh # NoReply /\ sh.msg = m /\ sh.signer = s
    <3>1. CommitmentList(m)[s] \in CommitmentIDs
      BY <2>2 DEF SignerTypeOK, CommitmentList
    <3>2. sh \in Shares
      BY <2>1, <2>3, <3>1 DEF SignatureShare, Shares
    <3> QED
      BY <2>1, <3>2, NoReplyAssumption DEF SignatureShare
  <2>5. \A n \in Messages, t \in Signers :
          signResp'[n][t] = IF n = m /\ t = s THEN sh ELSE signResp[n][t]
    BY <1>4, <2>1
  <2>6. SharesAnswered'
    <3>1. \A x \in shares : x.msg \in Messages /\ x.signer \in Signers
      BY DEF SignerTypeOK, Shares
    <3> QED
      BY <2>2, <2>4, <2>5, <3>1 DEF SharesAnswered
  <2>7. LiveAccounted'
    <3>1. \A t \in Signers, k \in CommitmentIDs :
            k \in nonces'[t] <=> k \in nonces[t] /\ ~(t = s /\ k = commitResp[m][s])
      BY <2>2 DEF SignerTypeOK
    <3>2. commitResp[m][s] # NoReply
      BY <2>2 DEF CommitmentsReceived
    <3> SUFFICES ASSUME NEW t \in Signers, NEW k \in CommitmentIDs
        PROVE  k \in nonces'[t] <=>
                 \E n \in Messages : commitResp[n][t] = k /\ signResp'[n][t] = NoReply
      BY <1>1 DEF LiveAccounted
    <3>3. k \in nonces[t] <=>
            \E n \in Messages : commitResp[n][t] = k /\ signResp[n][t] = NoReply
      BY DEF LiveAccounted
    <3>4. CASE t = s /\ k = commitResp[m][s]
      <4>1. \A n \in Messages \ {m} : commitResp[n][s] # k
        BY <3>2, <3>4 DEF CommitmentsOwned
      <4> QED
        BY <2>4, <2>5, <3>1, <3>4, <4>1
    <3>5. CASE ~(t = s /\ k = commitResp[m][s])
      <4>1. \A n \in Messages : commitResp[n][t] = k => signResp'[n][t] = signResp[n][t]
        BY <2>5, <3>5
      <4> QED
        BY <3>1, <3>3, <3>5, <4>1
    <3> QED
      BY <3>4, <3>5
  <2>8. RecordsAccounted'
    BY <1>1 DEF RecordsAccounted
  <2> QED
    BY <1>1, <1>2, <2>6, <2>7, <2>8
<1> QED
  BY <1>3, <1>4 DEF SignServed

LEMMA StrandKeptByShareRound ==
  ASSUME SessionInv, StrandInv, NEW m \in Messages,
         \/ RecvShare(m) \/ SharesCollected(m) \/ Aggregate(m)
         \/ \E s \in Signers : SignReplied(m, s) \/ SignFailed(m, s)
  PROVE  StrandInv'
<1> USE DEF SessionInv, ProxyInv, TypeOK, StrandInv
<1>1. UNCHANGED <<status, nonces, Commitments, shares, commitCall, commitResp, commitChan, signResp>>
  BY DEF RecvShare, SharesCollected, Aggregate, SignReplied, SignFailed, SendSignResult,
         signerVars, commitVars, signVars
<1>2. \A n \in Messages \ {m} : pc'[n] = pc[n] /\ taken'[n] = taken[n]
  BY DEF RecvShare, SharesCollected, Aggregate, SignReplied, SignFailed, SendSignResult
<1>3. \/ pc[m] \in {"share", "aggregate"} /\ pc'[m] \in {"share", "aggregate", "done", "error"}
      \/ pc'[m] = pc[m] /\ taken'[m] = taken[m]
  BY DEF RecvShare, SharesCollected, Aggregate, SignReplied, SignFailed, SendSignResult
<1>4. CommitSent(m)' = CommitSent(m)
  BY <1>1 DEF CommitSent
<1>5. RoundAccounted(m)'
  BY <1>1, <1>3, <1>4 DEF RoundAccounted
<1> QED
  BY <1>1, <1>2, <1>5, StrandFrame

\* When nothing fails, only a connection to a signer that was never up does.
LEMMA StrandInvNext ==
  ASSUME Quiet
  PROVE  SessionInv /\ StrandInv /\ [Next]_vars => StrandInv'
<1> SUFFICES ASSUME SessionInv, StrandInv, [Next]_vars PROVE StrandInv'
  OBVIOUS
<1>1. ASSUME NEW m \in Messages, Sign(m) \/ MainStep(m) \/ ProxyDies(m) PROVE StrandInv'
  BY <1>1, StrandKeptBySign, StrandKeptByRecvCommitment, StrandKeptByCommitmentsCollected,
     StrandKeptByShareRound DEF MainStep, ProxyDies, Quiet
<1>2. ASSUME NEW m \in Messages, NEW s \in Signers,
             CommitStep(m, s) \/ SignStep(m, s) \/ NetFault(m, s)
      PROVE  StrandInv'
  <2>1. CASE CommitServed(m, s) \/ SignServed(m, s)
    BY <2>1, StrandKeptByCommitServed, StrandKeptBySignServed
  <2>2. CASE CommitReplied(m, s) \/ (status[s] = "down" /\ CommitFailed(m, s))
    BY <2>2, StrandKeptBySendCommitResult DEF CommitReplied, CommitFailed
  <2>3. CASE SignReplied(m, s) \/ SignFailed(m, s)
    BY <2>3, StrandKeptByShareRound
  <2> QED
    BY <1>2, <2>1, <2>2, <2>3 DEF CommitStep, SignStep, NetFault, Quiet
<1>3. ASSUME NEW s \in Signers, Fault(s) PROVE FALSE
  <2>1. crashes = 0
    BY DEF SessionInv, ProxyInv, TypeOK, SignerTypeOK, Quiet
  <2> QED
    BY <1>3, <2>1 DEF Fault, SignerFault, Crash, Restart, Hang, Resume, StrandInv, Quiet
<1>4. CASE UNCHANGED vars
  <2>1. UNCHANGED <<status, nonces, Commitments, shares, pc, taken, commitCall, commitResp,
                    commitChan, signResp>>
    BY <1>4 DEF vars, signerVars, proxyVars, commitVars, signVars
  <2>2. \A n \in Messages : RoundAccounted(n)'
    BY <2>1, RoundFrame DEF StrandInv
  <2> QED
    BY <2>1, <2>2 DEF StrandInv, LiveAccounted, RecordsAccounted, SharesAnswered
<1> QED
  BY <1>1, <1>2, <1>3, <1>4 DEF Next

LEMMA StrandInvariance ==
  ASSUME Quiet
  PROVE  Spec => []StrandInv
<1>1. SessionInv /\ StrandInv /\ [Next]_vars => StrandInv'
  BY StrandInvNext
<1> QED
  BY <1>1, StrandInvInit, SessionInvariance, PTL DEF Spec

\* The nonces left over by a call are those of the signers it did not keep.
LEMMA LeftOver ==
  ASSUME SessionInv, StrandInv, NEW m \in Messages, pc[m] = "done",
         \A s \in Signers : status[s] = "up"
  PROVE  /\ \A s \in Signers : commitResp[m][s] \in CommitmentIDs
         /\ \A s \in Signers : signResp[m][s] = NoReply <=> s \notin active[m]
         /\ IsFiniteSet(Signers \ active[m])
         /\ Cardinality(Signers \ active[m]) = Cardinality(Signers) - Threshold
<1> USE DEF SessionInv, ProxyInv, TypeOK
<1>1. \A s \in Signers : commitResp[m][s] \in CommitmentIDs
  <2>1. CommitSent(m) = Signers
    BY DEF StrandInv, RoundAccounted
  <2>2. \A s \in Signers : commitCall[m][s] = "sent"
    BY <2>1 DEF CommitSent
  <2>3. \A s \in Signers : commitResp[m][s] # NoReply
    BY <2>2 DEF StrandInv, RoundAccounted
  <2> QED
    BY <2>3
<1>2. \A s \in Signers : s \notin active[m] => signResp[m][s] = NoReply
  BY DEF Session, RoundsInOrder, OwnShares
<1>3. ASSUME NEW s \in active[m] PROVE signResp[m][s] # NoReply
  <2>1. gathered[m] = {SignatureShare(t, m, CommitmentList(m)) : t \in active[m]}
    BY DEF Session, SharesCounted, AggregateSignatures, CommitmentList
  <2>2. PICK sh \in shares : sh = SignatureShare(s, m, CommitmentList(m))
    BY <2>1 DEF SharesReceived
  <2> QED
    BY <2>2 DEF StrandInv, SharesAnswered, SignatureShare
<1>4. /\ IsFiniteSet(Signers \ active[m])
      /\ Cardinality(Signers \ active[m]) = Cardinality(Signers) - Threshold
  <2>1. Signers \cap active[m] = active[m] /\ active[m] \in SUBSET Signers
    OBVIOUS
  <2>2. Cardinality(active[m]) \in Nat /\ Threshold \in Nat
    BY <2>1, SignersAssumption, FS_Subset, FS_CardinalityType
  <2>3. Cardinality(active[m]) = Threshold
    BY <2>2 DEF Session, QuorumKept
  <2>4. /\ IsFiniteSet(Signers \ active[m])
        /\ Cardinality(Signers \ active[m]) = Cardinality(Signers) - Cardinality(Signers \cap active[m])
    BY SignersAssumption, FS_Difference
  <2> QED
    BY <2>1, <2>3, <2>4
<1> QED
  BY <1>1, <1>2, <1>3, <1>4

\* The live nonces are counted by a bijection from the calls and 1 .. N - t.
LEMMA LiveCount ==
  ASSUME SessionInv, StrandInv, IsFiniteSet(Messages), \A m \in Messages : pc[m] = "done",
         \A s \in Signers : status[s] = "up"
  PROVE  Cardinality({p \in Signers \X CommitmentIDs : p[2] \in nonces[p[1]]})
           = Cardinality(Messages) * (Cardinality(Signers) - Threshold)
<1>1. PICK D : D = Cardinality(Signers) - Threshold
  OBVIOUS
<1>2. D \in Nat
  BY <1>1, SignersAssumption, FS_CardinalityType
<1> DEFINE Live == {p \in Signers \X CommitmentIDs : p[2] \in nonces[p[1]]}
           Rest(m) == Signers \ active[m]
           g == [m \in Messages |-> CHOOSE b : b \in Bijection(1..D, Rest(m))]
           h == [x \in Messages \X (1..D) |->
                   <<g[x[1]][x[2]], commitResp[x[1]][g[x[1]][x[2]]]>>]
<1>3. ASSUME NEW m \in Messages PROVE g[m] \in Bijection(1..D, Rest(m))
  <2>1. IsFiniteSet(Rest(m)) /\ Cardinality(Rest(m)) = D
    BY <1>1, LeftOver
  <2>2. ExistsBijection(1..D, Rest(m))
    BY <2>1, FS_CardinalityType
  <2>3. \E b : b \in Bijection(1..D, Rest(m))
    BY <2>2 DEF ExistsBijection
  <2> QED
    BY <2>3
<1> HIDE DEF g
<1>4. ASSUME NEW m \in Messages
      PROVE  /\ \A k \in 1..D : g[m][k] \in Signers /\ g[m][k] \notin active[m]
             /\ \A k, l \in 1..D : g[m][k] = g[m][l] => k = l
             /\ \A s \in Signers \ active[m] : \E k \in 1..D : g[m][k] = s
  <2>1. g[m] \in Injection(1..D, Rest(m)) /\ g[m] \in Surjection(1..D, Rest(m))
    BY <1>3 DEF Bijection
  <2>2. g[m] \in [1..D -> Rest(m)]
    BY <2>1 DEF Injection
  <2>3. \A k, l \in 1..D : g[m][k] = g[m][l] => k = l
    BY <2>1 DEF Injection, IsInjective
  <2>4. \A s \in Rest(m) : \E k \in 1..D : g[m][k] = s
    BY <2>1 DEF Surjection
  <2> QED
    BY <2>2, <2>3, <2>4
<1>5. h \in [Messages \X (1..D) -> Live]
  <2> SUFFICES ASSUME NEW m \in Messages, NEW k \in 1..D
      PROVE  <<g[m][k], commitResp[m][g[m][k]]>> \in Live
    OBVIOUS
  <2>1. PICK s \in Signers : s = g[m][k] /\ s \notin active[m]
    BY <1>4
  <2>2. commitResp[m][s] \in CommitmentIDs /\ signResp[m][s] = NoReply
    BY <2>1, LeftOver
  <2>3. commitResp[m][s] \in nonces[s]
    BY <2>2 DEF StrandInv, LiveAccounted
  <2> QED
    BY <2>1, <2>2, <2>3
<1>6. ASSUME NEW m \in Messages, NEW k \in 1..D, NEW n \in Messages, NEW l \in 1..D,
             g[m][k] = g[n][l], commitResp[m][g[m][k]] = commitResp[n][g[n][l]]
      PROVE  m = n /\ k = l
  <2>1. PICK s \in Signers : s = g[m][k] /\ s = g[n][l]
    BY <1>4, <1>6
  <2>2. commitResp[m][s] = commitResp[n][s] /\ commitResp[m][s] # NoReply
    BY <1>6, <2>1, LeftOver, NoReplyAssumption
  <2>3. m = n
    BY <2>2 DEF SessionInv, CommitmentsOwned
  <2> QED
    BY <1>4, <1>6, <2>3
<1>7. ASSUME NEW p \in Live PROVE \E x \in Messages \X (1..D) : h[x] = p
  <2>1. PICK s \in Signers, id \in CommitmentIDs : p = <<s, id>> /\ id \in nonces[s]
    OBVIOUS
  <2>2. PICK m \in Messages : commitResp[m][s] = id /\ signResp[m][s] = NoReply
    BY <2>1 DEF StrandInv, LiveAccounted
  <2>0. s \in Signers \ active[m]
    BY <2>2, LeftOver
  <2>3. PICK k \in 1..D : g[m][k] = s
    BY <1>4, <2>0
  <2>4. h[<<m, k>>] = p
    BY <2>1, <2>2, <2>3
  <2> QED
    BY <2>4
<1>8. \A x, y \in Messages \X (1..D) : h[x] = h[y] => x = y
  <2> SUFFICES ASSUME NEW x \in Messages \X (1..D), NEW y \in Messages \X (1..D), h[x] = h[y]
               PROVE  x = y
    OBVIOUS
  <2>1. PICK m \in Messages, k \in 1..D : x = <<m, k>>
    OBVIOUS
  <2>2. PICK n \in Messages, l \in 1..D : y = <<n, l>>
    OBVIOUS
  <2>3. /\ h[x] = <<g[m][k], commitResp[m][g[m][k]]>>
        /\ h[y] = <<g[n][l], commitResp[n][g[n][l]]>>
    BY <2>1, <2>2
  <2>4. g[m][k] = g[n][l] /\ commitResp[m][g[m][k]] = commitResp[n][g[n][l]]
    BY <2>3
  <2> QED
    BY <1>6, <2>1, <2>2, <2>4
<1> HIDE DEF h, Live
<1>9. ExistsBijection(Messages \X (1..D), Live)
  <2>1. h \in Bijection(Messages \X (1..D), Live)
    BY <1>5, <1>7, <1>8 DEF Bijection, Injection, IsInjective, Surjection
  <2> QED
    BY <2>1 DEF ExistsBijection
<1>10. IsFiniteSet(1..D) /\ Cardinality(1..D) = D
  BY <1>2, FS_Interval
<1>11. /\ IsFiniteSet(Messages \X (1..D))
       /\ Cardinality(Messages \X (1..D)) = Cardinality(Messages) * D
  BY <1>10, FS_Product
<1>12. Cardinality(Live) = Cardinality(Messages) * D
  BY <1>9, <1>11, FS_Bijection
<1> QED
  BY <1>1, <1>12 DEF Live

\* The recorded commitments are counted by a bijection from the calls and signers.
LEMMA RecordCount ==
  ASSUME SessionInv, StrandInv, IsFiniteSet(Messages), \A m \in Messages : pc[m] = "done",
         \A s \in Signers : status[s] = "up"
  PROVE  Cardinality({p \in Signers \X CommitmentIDs : p[2] \in Commitments[p[1]]})
           = Cardinality(Messages) * Cardinality(Signers)
<1> DEFINE Records == {p \in Signers \X CommitmentIDs : p[2] \in Commitments[p[1]]}
           h == [x \in Messages \X Signers |-> <<x[2], commitResp[x[1]][x[2]]>>]
<1>1. \A m \in Messages, s \in Signers :
        commitResp[m][s] \in CommitmentIDs /\ commitResp[m][s] # NoReply
  BY LeftOver, NoReplyAssumption
<1>2. h \in [Messages \X Signers -> Records]
  <2> SUFFICES ASSUME NEW m \in Messages, NEW s \in Signers
      PROVE  <<s, commitResp[m][s]>> \in Records
    OBVIOUS
  <2>1. commitResp[m][s] \in Commitments[s]
    BY <1>1 DEF StrandInv, RecordsAccounted
  <2> QED
    BY <1>1, <2>1
<1>3. ASSUME NEW m \in Messages, NEW n \in Messages, NEW s \in Signers,
             commitResp[m][s] = commitResp[n][s]
      PROVE  m = n
  BY <1>1, <1>3 DEF SessionInv, CommitmentsOwned
<1>4. \A x, y \in Messages \X Signers : h[x] = h[y] => x = y
  <2> SUFFICES ASSUME NEW x \in Messages \X Signers, NEW y \in Messages \X Signers, h[x] = h[y]
               PROVE  x = y
    OBVIOUS
  <2>1. PICK m \in Messages, s \in Signers : x = <<m, s>>
    OBVIOUS
  <2>2. PICK n \in Messages, t \in Signers : y = <<n, t>>
    OBVIOUS
  <2>3. h[x] = <<s, commitResp[m][s]>> /\ h[y] = <<t, commitResp[n][t]>>
    BY <2>1, <2>2
  <2>4. s = t /\ commitResp[m][s] = commitResp[n][t]
    BY <2>3
  <2> QED
    BY <1>3, <2>1, <2>2, <2>4
<1>5. ASSUME NEW p \in Records PROVE \E x \in Messages \X Signers : h[x] = p
  <2>1. PICK s \in Signers, id \in CommitmentIDs : p = <<s, id>> /\ id \in Commitments[s]
    OBVIOUS
  <2>2. PICK m \in Messages : commitResp[m][s] = id
    BY <2>1 DEF StrandInv, RecordsAccounted
  <2>3. h[<<m, s>>] = p
    BY <2>1, <2>2
  <2> QED
    BY <2>3
<1> HIDE DEF h, Records
<1>6. ExistsBijection(Messages \X Signers, Records)
  <2>1. h \in Bijection(Messages \X Signers, Records)
    BY <1>2, <1>4, <1>5 DEF Bijection, Injection, IsInjective, Surjection
  <2> QED
    BY <2>1 DEF ExistsBijection
<1>7. /\ IsFiniteSet(Messages \X Signers)
      /\ Cardinality(Messages \X Signers) = Cardinality(Messages) * Cardinality(Signers)
  BY SignersAssumption, FS_Product
<1>8. Cardinality(Records) = Cardinality(Messages) * Cardinality(Signers)
  BY <1>6, <1>7, FS_Bijection
<1> QED
  BY <1>8 DEF Records

\* "extras discarded" costs memory for good: when nothing fails, every call leaves
\* as many live nonces at the signers as there are signers beyond the threshold,
\* and one entry of froststate.Commitments at every signer.
THEOREM NoncesStranded ==
  ASSUME MaxCrashes = 0, Faults = {}, IsFiniteSet(Messages)
  PROVE  Spec => []StrandedNonces
<1>1. Spec => []StrandInv
  BY StrandInvariance DEF Quiet
<1>2. SessionInv /\ StrandInv => StrandedNonces
  BY LiveCount, RecordCount DEF StrandedNonces
<1> QED
  BY <1>1, <1>2, SessionInvariance, PTL
=============================================================================
