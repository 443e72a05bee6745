-------------------------- MODULE SignerNodeProofs --------------------------
(***************************************************************************)
(* Theorems about the signers under arbitrary callers, for any number of   *)
(* signers, messages, CommitmentIDs, crashes and restarts.                 *)
(***************************************************************************)
EXTENDS SignerNode, TLAPS

\* A signature share over a list that names the signer is a value of Shares.
LEMMA SignatureShareType ==
  ASSUME NEW s \in Signers, NEW msg \in Messages, NEW list \in CommitmentLists,
         s \in DOMAIN list
  PROVE  /\ SignatureShare(s, msg, list) \in Shares
         /\ list[s] \in CommitmentIDs
BY DEF CommitmentLists, SignatureShare, Shares

\* What a fault does to the memory of the signers: it draws and signs nothing,
\* and brings no nonce back.
LEMMA FaultForgets ==
  ASSUME SignerTypeOK, NEW s \in Signers, SignerFault(s)
  PROVE  /\ SignerTypeOK'
         /\ UNCHANGED <<drawn, shares>>
         /\ \/ UNCHANGED <<nonces, Commitments>>
            \/ /\ nonces' = [nonces EXCEPT ![s] = {}]
               /\ Commitments' = [Commitments EXCEPT ![s] = {}]
<1>1. CASE Crash(s)
  BY <1>1, FaultsAssumption DEF SignerTypeOK, Crash
<1>2. CASE Restart(s)
  BY <1>2 DEF SignerTypeOK, Restart
<1>3. CASE Hang(s)
  BY <1>3 DEF SignerTypeOK, Hang
<1>4. CASE Resume(s)
  BY <1>4 DEF SignerTypeOK, Resume
<1> QED
  BY <1>1, <1>2, <1>3, <1>4 DEF SignerFault

LEMMA SignerInitType == SignerInit => SignerTypeOK
BY FaultsAssumption DEF SignerInit, SignerTypeOK

\* The handlers and the faults keep every variable in its type.
LEMMA SignerNextType == SignerTypeOK /\ [SignerNext]_signerVars => SignerTypeOK'
<1> SUFFICES ASSUME SignerTypeOK, [SignerNext]_signerVars
             PROVE  SignerTypeOK'
  OBVIOUS
<1>1. ASSUME NEW s \in Signers, NEW id \in CommitmentIDs, commitHandler(s, id)
      PROVE  SignerTypeOK'
  BY <1>1 DEF SignerTypeOK, commitHandler
<1>2. ASSUME NEW s \in Signers, NEW msg \in Messages, NEW list \in CommitmentLists,
             signHandlerOK(s, msg, list)
      PROVE  SignerTypeOK'
  <2>1. SignatureShare(s, msg, list) \in Shares
    BY <1>2, SignatureShareType DEF signHandlerOK, VerifyCommitmentList
  <2> QED
    BY <1>2, <2>1 DEF SignerTypeOK, signHandlerOK, frostSign
<1>3. ASSUME NEW s \in Signers, NEW msg \in Messages, NEW list \in CommitmentLists,
             signHandlerError(s, msg, list)
      PROVE  SignerTypeOK'
  BY <1>3 DEF SignerTypeOK, signHandlerError, signerVars
<1>4. ASSUME NEW s \in Signers, SignerFault(s)
      PROVE  SignerTypeOK'
  BY <1>4, FaultForgets
<1>5. CASE UNCHANGED signerVars
  BY <1>5 DEF SignerTypeOK, signerVars
<1> QED
  BY <1>1, <1>2, <1>3, <1>4, <1>5 DEF SignerNext, AnyCall

\* Type correctness of the signers' memory.
THEOREM SignerTypeCorrect == SignerSpec => []SignerTypeOK
BY SignerInitType, SignerNextType, PTL DEF SignerSpec

-----------------------------------------------------------------------------
(* A nonce signs once.  NonceSingleUse is not inductive: what keeps a      *)
(* second share away is that a live nonce has signed nothing, and what     *)
(* keeps a drawn nonce fresh is that every share's nonce was drawn before. *)

SignerInv ==
  /\ SignerTypeOK
  /\ NonceSingleUse
  /\ LiveNoncesUnused
  /\ SharesWellFormed

LEMMA SignerInvInit == SignerInit => SignerInv
BY SignerInitType
DEF SignerInit, SignerInv, NonceSingleUse, LiveNoncesUnused, SharesWellFormed

LEMMA SignerInvNext == SignerInv /\ [SignerNext]_signerVars => SignerInv'
<1> SUFFICES ASSUME SignerInv, [SignerNext]_signerVars
             PROVE  SignerInv'
  OBVIOUS
<1>0. SignerTypeOK'
  BY SignerNextType DEF SignerInv
<1> USE DEF SignerInv
<1>1. ASSUME NEW s \in Signers, NEW id \in CommitmentIDs, commitHandler(s, id)
      PROVE  NonceSingleUse' /\ LiveNoncesUnused' /\ SharesWellFormed'
  <2>1. NonceSingleUse'
    BY <1>1 DEF NonceSingleUse, commitHandler
  <2>2. LiveNoncesUnused'
    BY <1>1 DEF LiveNoncesUnused, SharesWellFormed, SignerTypeOK, commitHandler
  <2>3. SharesWellFormed'
    BY <1>1 DEF SharesWellFormed, SignerTypeOK, Shares, commitHandler
  <2> QED
    BY <2>1, <2>2, <2>3
<1>2. ASSUME NEW s \in Signers, NEW msg \in Messages, NEW list \in CommitmentLists,
             signHandlerOK(s, msg, list)
      PROVE  NonceSingleUse' /\ LiveNoncesUnused' /\ SharesWellFormed'
  <2> DEFINE new == SignatureShare(s, msg, list)
  <2>1. /\ shares' = shares \cup {new}
        /\ nonces' = [nonces EXCEPT ![s] = @ \ {list[s]}]
        /\ UNCHANGED <<Commitments, drawn>>
        /\ list[s] \in nonces[s]
        /\ ValidCommitmentList(list)
        /\ s \in DOMAIN list
    BY <1>2 DEF signHandlerOK, VerifyCommitmentList, frostSign
  <2>2. new.signer = s /\ new.id = list[s] /\ new.list = list
    BY DEF SignatureShare
  <2>3. \A sh \in shares : ~(sh.signer = s /\ sh.id = list[s])
    BY <2>1 DEF LiveNoncesUnused
  <2> HIDE DEF new
  <2>4. NonceSingleUse'
    BY <2>1, <2>2, <2>3 DEF NonceSingleUse
  <2>5. LiveNoncesUnused'
    BY <2>1, <2>2 DEF LiveNoncesUnused, SignerTypeOK
  <2>6. list[s] \in drawn[s]
    BY <2>1 DEF LiveNoncesUnused
  <2>7. SharesWellFormed'
    BY <2>1, <2>2, <2>6 DEF SharesWellFormed
  <2> QED
    BY <2>4, <2>5, <2>7
<1>3. ASSUME NEW s \in Signers, SignerFault(s)
      PROVE  NonceSingleUse' /\ LiveNoncesUnused' /\ SharesWellFormed'
  BY <1>3, FaultForgets
  DEF NonceSingleUse, LiveNoncesUnused, SharesWellFormed, SignerTypeOK
<1>4. CASE UNCHANGED signerVars
  BY <1>0, <1>4 DEF NonceSingleUse, LiveNoncesUnused, SharesWellFormed, signerVars
<1> QED
  BY <1>0, <1>1, <1>2, <1>3, <1>4 DEF SignerNext, AnyCall, signHandlerError

\* No signer ever computes two different shares with one nonce, whatever its
\* callers send and whenever it crashes and restarts.
THEOREM NonceSafety == SignerSpec => []NonceSingleUse
<1>1. SignerInv => NonceSingleUse
  BY DEF SignerInv
<1> QED
  BY <1>1, SignerInvInit, SignerInvNext, PTL DEF SignerSpec

\* The whole inductive invariant, for the modules that call the signers.
THEOREM SignerInvariance == SignerSpec => []SignerInv
BY SignerInvInit, SignerInvNext, PTL DEF SignerSpec
=============================================================================
