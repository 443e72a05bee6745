------------------------- MODULE SignerMutexProofs --------------------------
(***************************************************************************)
(* froststate.Mu makes the handlers of the signers atomic: for any number  *)
(* of signers, requests, messages and crashes, with handlers interrupted   *)
(* at any place.                                                           *)
(***************************************************************************)
EXTENDS SignerMutex, SignerNodeProofs

\* What a request asks for, by its kind.
LEMMA CallParts ==
  ASSUME NEW c \in Calls
  PROVE  /\ c.op \in {"commit", "sign"}
         /\ c.signer \in Signers
         /\ c.op = "sign" => c.msg \in Messages /\ c.list \in CommitmentLists
BY DEF Calls

-----------------------------------------------------------------------------
(* The inductive invariant.                                                *)

\* A handler that runs has its arguments, and its signer's process is there.
RunningHasCall ==
  \A r \in Requests : pc[r] \in Running => call[r] \in Calls

\* Mutual exclusion: whoever is past Lock holds the lock of its signer.
PastLockHolds ==
  \A r \in Requests : pc[r] \in {"locked", "half"} => Mu[call[r].signer] = r

\* Only the second half of a commitHandler has an id to record: it is live, and
\* nobody has heard of it.
PendingUnknown ==
  \A r \in Requests :
    /\ ~(pc[r] = "half" /\ call[r].op = "commit") => pending[r] = {}
    /\ pc[r] = "half" /\ call[r].op = "commit" =>
         \E id \in CommitmentIDs :
           /\ pending[r] = {id}
           /\ id \in nonces[call[r].signer]
           /\ id \notin drawn[call[r].signer]

\* What a signHandler looked up is still there when it clears it.
LookedUpStillLive ==
  \A r \in Requests :
    pc[r] = "half" /\ call[r].op = "sign" => VerifyCommitmentList(call[r].signer, call[r].list)

\* A live nonce was drawn, or is about to be recorded by the handler with the lock.
LiveNoncesKnown ==
  \A s \in Signers : \A id \in nonces[s] : id \in drawn[s] \/ id \in unrecorded(s)

\* A nonce that made a share, or was answered with one, was drawn and is cleared.
UsedNoncesCleared ==
  /\ \A sh \in shares : sh.id \in drawn[sh.signer] /\ sh.id \notin nonces[sh.signer]
  /\ \A s \in Signers, id \in CommitmentIDs :
       answers[s][id] > 0 => id \in drawn[s] /\ id \notin nonces[s]

MutexInv ==
  /\ TypeOK
  /\ RunningHasCall
  /\ PastLockHolds
  /\ PendingUnknown
  /\ LookedUpStillLive
  /\ LiveNoncesKnown
  /\ UsedNoncesCleared
  /\ NonceSingleUse
  /\ NonceAnsweredOnce

LEMMA MutexInvInit == Init => MutexInv
<1> SUFFICES ASSUME Init PROVE MutexInv
  OBVIOUS
<1>1. TypeOK
  BY SignerInitType, RequestsAssumption DEF Init, TypeOK, Running
<1>2. RunningHasCall /\ PastLockHolds /\ PendingUnknown /\ LookedUpStillLive
  BY DEF Init, RunningHasCall, Running, PastLockHolds, PendingUnknown, LookedUpStillLive
<1>3. LiveNoncesKnown /\ UsedNoncesCleared /\ NonceSingleUse /\ NonceAnsweredOnce
  BY DEF Init, SignerInit, LiveNoncesKnown, UsedNoncesCleared, NonceSingleUse, NonceAnsweredOnce
<1> QED
  BY <1>1, <1>2, <1>3 DEF MutexInv

\* The ids about to be recorded at s are those of the one handler that holds Mu.
LEMMA UnrecordedElements ==
  ASSUME NEW s, NEW id
  PROVE  id \in unrecorded(s) <=>
           \E r \in Requests : pc[r] = "half" /\ call[r].signer = s /\ id \in pending[r]
BY DEF unrecorded

LEMMA UnrecordedElementsNext ==
  ASSUME NEW s, NEW id
  PROVE  id \in unrecorded(s)' <=>
           \E r \in Requests : pc'[r] = "half" /\ call'[r].signer = s /\ id \in pending'[r]
BY DEF unrecorded

\* What is about to be recorded changes only with the handlers that have something
\* to record.
LEMMA UnrecordedKept ==
  ASSUME NEW s,
         \A q \in Requests :
           /\ pending'[q] = pending[q]
           /\ pending[q] # {} =>
                (pc'[q] = "half" <=> pc[q] = "half") /\ (pc[q] = "half" => call'[q] = call[q])
  PROVE  unrecorded(s)' = unrecorded(s)
<1>1. ASSUME NEW id PROVE id \in unrecorded(s)' <=> id \in unrecorded(s)
  <2>1. ASSUME id \in unrecorded(s) PROVE id \in unrecorded(s)'
    <3>1. PICK r \in Requests : pc[r] = "half" /\ call[r].signer = s /\ id \in pending[r]
      BY <2>1, UnrecordedElements
    <3> QED
      BY <3>1, UnrecordedElementsNext
  <2>2. ASSUME id \in unrecorded(s)' PROVE id \in unrecorded(s)
    <3>1. PICK r \in Requests : pc'[r] = "half" /\ call'[r].signer = s /\ id \in pending'[r]
      BY <2>2, UnrecordedElementsNext
    <3> QED
      BY <3>1, UnrecordedElements
  <2> QED
    BY <2>1, <2>2
<1> QED
  BY <1>1

\* Two handlers past Lock are handlers of different signers.
LEMMA MutualExclusion ==
  ASSUME MutexInv, NEW q \in Requests, NEW r \in Requests, q # r,
         pc[q] \in {"locked", "half"}, pc[r] \in {"locked", "half"}
  PROVE  call[q].signer # call[r].signer
BY DEF MutexInv, PastLockHolds

-----------------------------------------------------------------------------
(* Steps that neither touch a signer's memory nor begin a second half.     *)

LEMMA KeptByQuietStep ==
  ASSUME MutexInv, UNCHANGED <<signerVars, answers>>,
         TypeOK', RunningHasCall', PastLockHolds',
         \A q \in Requests :
           /\ pending'[q] = pending[q]
           /\ pc'[q] = "half" <=> pc[q] = "half"
           /\ pc[q] = "half" => call'[q] = call[q]
  PROVE  MutexInv' /\ UNCHANGED recordedNonces
<1> USE DEF MutexInv, signerVars
<1>1. \A s : unrecorded(s)' = unrecorded(s)
  BY UnrecordedKept
<1>2. PendingUnknown'
  BY DEF PendingUnknown
<1>3. LookedUpStillLive'
  BY DEF LookedUpStillLive, VerifyCommitmentList
<1>4. LiveNoncesKnown'
  BY <1>1 DEF LiveNoncesKnown
<1>5. UsedNoncesCleared' /\ NonceSingleUse' /\ NonceAnsweredOnce'
  BY DEF UsedNoncesCleared, NonceSingleUse, NonceAnsweredOnce
<1>6. UNCHANGED recordedNonces
  BY <1>1 DEF recordedNonces
<1> QED
  BY <1>2, <1>3, <1>4, <1>5, <1>6

LEMMA KeptByArrive ==
  ASSUME MutexInv, NEW r \in Requests, NEW c \in Calls, Arrive(r, c)
  PROVE  MutexInv' /\ UNCHANGED <<signerVars, recordedNonces>>
<1> USE DEF MutexInv, Arrive, Running
<1>1. TypeOK'
  BY DEF TypeOK, SignerTypeOK, signerVars
<1>2. RunningHasCall' /\ PastLockHolds'
  BY DEF RunningHasCall, PastLockHolds, TypeOK
<1>3. \A q \in Requests :
        /\ pending'[q] = pending[q]
        /\ pc'[q] = "half" <=> pc[q] = "half"
        /\ pc[q] = "half" => call'[q] = call[q]
  BY DEF TypeOK
<1> QED
  BY <1>1, <1>2, <1>3, KeptByQuietStep

LEMMA KeptByBodyEnds ==
  ASSUME MutexInv, NEW r \in Requests, BodyEnds(r)
  PROVE  MutexInv' /\ UNCHANGED <<signerVars, recordedNonces>>
<1> USE DEF MutexInv, BodyEnds
<1>1. TypeOK'
  BY DEF TypeOK, SignerTypeOK, signerVars
<1>2. RunningHasCall' /\ PastLockHolds'
  BY DEF RunningHasCall, PastLockHolds
<1> QED
  BY <1>1, <1>2, KeptByQuietStep

LEMMA KeptByLock ==
  ASSUME MutexInv, NEW r \in Requests, Lock(r)
  PROVE  MutexInv' /\ UNCHANGED <<signerVars, recordedNonces>>
<1> USE DEF MutexInv
<1>1. call[r] \in Calls /\ call[r].signer \in Signers
  BY CallParts DEF Lock, RunningHasCall, Running
<1>2. /\ pc[r] = "lock" /\ pc' = [pc EXCEPT ![r] = "locked"]
      /\ Mu[call[r].signer] = Free /\ Mu' = [Mu EXCEPT ![call[r].signer] = r]
      /\ UNCHANGED <<signerVars, call, body, pending, answers>>
  BY DEF Lock
<1>3. TypeOK'
  BY <1>1, <1>2, RequestsAssumption DEF TypeOK, SignerTypeOK, signerVars, Running
<1>4. RunningHasCall'
  BY <1>1, <1>2 DEF RunningHasCall, TypeOK, Running
<1>5. PastLockHolds'
  BY <1>1, <1>2, RequestsAssumption DEF PastLockHolds, TypeOK
<1>6. \A q \in Requests :
        /\ pending'[q] = pending[q]
        /\ pc'[q] = "half" <=> pc[q] = "half"
        /\ pc[q] = "half" => call'[q] = call[q]
  BY <1>2 DEF TypeOK
<1> QED
  BY <1>2, <1>3, <1>4, <1>5, <1>6, KeptByQuietStep

-----------------------------------------------------------------------------
(* Handlers that return.                                                   *)

\* A handler that returns unlocks its signer and leaves the others as they are.
LEMMA ReturnEffect ==
  ASSUME MutexInv, NEW r \in Requests, pc[r] \in {"locked", "half"}, Return(r),
         SignerTypeOK', answers' \in [Signers -> [CommitmentIDs -> Nat]]
  PROVE  /\ TypeOK' /\ RunningHasCall' /\ PastLockHolds'
         /\ pc'[r] = "done" /\ pending'[r] = {}
         /\ \A q \in Requests \ {r} :
              pc'[q] = pc[q] /\ call'[q] = call[q] /\ pending'[q] = pending[q]
<1> USE DEF MutexInv
<1>1. call[r] \in Calls /\ call[r].signer \in Signers
  BY CallParts DEF RunningHasCall, Running
<1>2. /\ Mu' = [Mu EXCEPT ![call[r].signer] = Free]
      /\ pc' = [q \in Requests |-> IF q \in {r} THEN "done" ELSE pc[q]]
      /\ call' = [q \in Requests |-> IF q \in {r} THEN NoCall ELSE call[q]]
      /\ body' = [q \in Requests |-> IF q \in {r} THEN "coming" ELSE body[q]]
      /\ pending' = [q \in Requests |-> IF q \in {r} THEN {} ELSE pending[q]]
  BY DEF Return, Over
<1>3. /\ pc'[r] = "done" /\ pending'[r] = {}
      /\ \A q \in Requests \ {r} :
           pc'[q] = pc[q] /\ call'[q] = call[q] /\ pending'[q] = pending[q]
  BY <1>2
<1>4. \A s \in Signers : Mu'[s] # Free => Mu'[s] = Mu[s] /\ Mu[s] # r
  BY <1>1, <1>2 DEF TypeOK
<1>5. TypeOK'
  <2>1. /\ Mu' \in [Signers -> Requests \cup {Free}]
        /\ pc' \in [Requests -> {"idle", "done"} \cup Running]
        /\ call' \in [Requests -> Calls \cup {NoCall}]
        /\ body' \in [Requests -> {"coming", "whole", "broken"}]
        /\ pending' \in [Requests -> SUBSET CommitmentIDs]
    BY <1>2 DEF TypeOK
  <2>2. \A s \in Signers : Mu'[s] # Free =>
          pc'[Mu'[s]] \in {"locked", "half"} /\ call'[Mu'[s]].signer = s
    BY <1>3, <1>4, <2>1 DEF TypeOK
  <2> QED
    BY <2>1, <2>2 DEF TypeOK
<1>6. RunningHasCall'
  BY <1>3 DEF RunningHasCall, Running
<1>7. PastLockHolds'
  <2> SUFFICES ASSUME NEW q \in Requests, pc'[q] \in {"locked", "half"}
               PROVE  Mu'[call'[q].signer] = q
    BY DEF PastLockHolds
  <2>1. q # r /\ call'[q] = call[q] /\ pc[q] \in {"locked", "half"}
    BY <1>3
  <2>2. call[q].signer # call[r].signer /\ Mu[call[q].signer] = q
    BY <2>1, MutualExclusion DEF PastLockHolds
  <2>3. call[q].signer \in Signers
    BY <2>1, CallParts DEF RunningHasCall, Running
  <2> QED
    BY <1>2, <2>1, <2>2, <2>3 DEF TypeOK
<1> QED
  BY <1>3, <1>5, <1>6, <1>7

LEMMA KeptBySignError ==
  ASSUME MutexInv, NEW r \in Requests, signBadRequest(r) \/ signRefused(r)
  PROVE  MutexInv' /\ UNCHANGED <<signerVars, recordedNonces>>
<1> USE DEF MutexInv
<1>1. /\ pc[r] = "locked" /\ Return(r)
      /\ UNCHANGED <<signerVars, answers>>
  BY DEF signBadRequest, signRefused, At
<1>2. SignerTypeOK' /\ answers' \in [Signers -> [CommitmentIDs -> Nat]]
  BY <1>1 DEF TypeOK, SignerTypeOK, signerVars
<1>3. /\ TypeOK' /\ RunningHasCall' /\ PastLockHolds'
      /\ pc'[r] = "done" /\ pending'[r] = {}
      /\ \A q \in Requests \ {r} :
           pc'[q] = pc[q] /\ call'[q] = call[q] /\ pending'[q] = pending[q]
  BY <1>1, <1>2, ReturnEffect
<1>4. pending[r] = {}
  BY <1>1 DEF PendingUnknown
<1>5. \A q \in Requests :
        /\ pending'[q] = pending[q]
        /\ pc'[q] = "half" <=> pc[q] = "half"
        /\ pc[q] = "half" => call'[q] = call[q]
  BY <1>1, <1>3, <1>4
<1> QED
  BY <1>1, <1>3, <1>5, KeptByQuietStep

-----------------------------------------------------------------------------
(* Handlers in the middle.                                                 *)

LEMMA KeptBySignFirstHalf ==
  ASSUME MutexInv, NEW r \in Requests, signFirstHalf(r)
  PROVE  MutexInv' /\ UNCHANGED <<signerVars, recordedNonces>>
<1> USE DEF MutexInv
<1>1. /\ pc[r] = "locked" /\ call[r].op = "sign"
      /\ VerifyCommitmentList(call[r].signer, call[r].list)
      /\ pc' = [pc EXCEPT ![r] = "half"]
      /\ UNCHANGED <<signerVars, Mu, call, body, pending, answers>>
  BY DEF signFirstHalf, At
<1>2. \A q \in Requests \ {r} : pc'[q] = pc[q]
  BY <1>1 DEF TypeOK
<1>3. pc'[r] = "half" /\ pending[r] = {}
  BY <1>1 DEF TypeOK, PendingUnknown
<1>4. TypeOK'
  <2>1. pc' \in [Requests -> {"idle", "done"} \cup Running]
    BY <1>1 DEF TypeOK, Running
  <2>2. \A s \in Signers : Mu'[s] # Free =>
          pc'[Mu'[s]] \in {"locked", "half"} /\ call'[Mu'[s]].signer = s
    BY <1>1, <1>2, <1>3 DEF TypeOK
  <2> QED
    BY <1>1, <2>1, <2>2 DEF TypeOK, SignerTypeOK, signerVars
<1>5. RunningHasCall' /\ PastLockHolds'
  BY <1>1, <1>2, <1>3 DEF RunningHasCall, PastLockHolds, Running
<1>6. PendingUnknown'
  BY <1>1, <1>2, <1>3 DEF PendingUnknown, signerVars
<1>7. LookedUpStillLive'
  BY <1>1, <1>2, <1>3 DEF LookedUpStillLive, VerifyCommitmentList, signerVars
<1>8. \A s : unrecorded(s)' = unrecorded(s)
  BY <1>1, <1>2, <1>3, UnrecordedKept
<1>9. LiveNoncesKnown' /\ UNCHANGED recordedNonces
  BY <1>1, <1>8 DEF LiveNoncesKnown, recordedNonces, signerVars
<1>10. UsedNoncesCleared' /\ NonceSingleUse' /\ NonceAnsweredOnce'
  BY <1>1 DEF UsedNoncesCleared, NonceSingleUse, NonceAnsweredOnce, signerVars
<1> QED
  BY <1>1, <1>4, <1>5, <1>6, <1>7, <1>9, <1>10

\* The handler that holds the lock of s is the only one with something to record.
LEMMA HolderRecords ==
  ASSUME MutexInv, NEW r \in Requests, pc[r] \in {"locked", "half"}
  PROVE  unrecorded(call[r].signer) = pending[r]
<1>1. ASSUME NEW id PROVE id \in unrecorded(call[r].signer) <=> id \in pending[r]
  <2>1. ASSUME id \in unrecorded(call[r].signer) PROVE id \in pending[r]
    <3>1. PICK q \in Requests :
            pc[q] = "half" /\ call[q].signer = call[r].signer /\ id \in pending[q]
      BY <2>1, UnrecordedElements
    <3>2. q = r
      BY <3>1, MutualExclusion
    <3> QED
      BY <3>1, <3>2
  <2>2. ASSUME id \in pending[r] PROVE id \in unrecorded(call[r].signer)
    <3>1. pc[r] = "half"
      BY <2>2 DEF MutexInv, PendingUnknown
    <3> QED
      BY <2>2, <3>1, UnrecordedElements
  <2> QED
    BY <2>1, <2>2
<1> QED
  BY <1>1

\* A step of the handler of r leaves what handlers of other signers have to record.
LEMMA UnrecordedElsewhere ==
  ASSUME NEW r \in Requests, NEW s, s # call[r].signer,
         pc'[r] # "half" \/ call'[r] = call[r],
         \A q \in Requests \ {r} :
           pc'[q] = pc[q] /\ call'[q] = call[q] /\ pending'[q] = pending[q]
  PROVE  unrecorded(s)' = unrecorded(s)
<1>1. ASSUME NEW id, id \in unrecorded(s) PROVE id \in unrecorded(s)'
  <2>1. PICK q \in Requests : pc[q] = "half" /\ call[q].signer = s /\ id \in pending[q]
    BY <1>1, UnrecordedElements
  <2> QED
    BY <2>1, UnrecordedElementsNext
<1>2. ASSUME NEW id, id \in unrecorded(s)' PROVE id \in unrecorded(s)
  <2>1. PICK q \in Requests : pc'[q] = "half" /\ call'[q].signer = s /\ id \in pending'[q]
    BY <1>2, UnrecordedElementsNext
  <2> QED
    BY <2>1, UnrecordedElements
<1> QED
  BY <1>1, <1>2

LEMMA KeptByCommitFirstHalf ==
  ASSUME MutexInv, NEW r \in Requests, NEW id \in CommitmentIDs, commitFirstHalf(r, id)
  PROVE  /\ MutexInv'
         /\ UNCHANGED <<status, Commitments, drawn, shares, crashes, recordedNonces>>
<1> USE DEF MutexInv
<1>0. PICK s \in Signers : s = call[r].signer
  BY CallParts DEF commitFirstHalf, At, RunningHasCall, Running
<1>1. /\ pc[r] = "locked" /\ call[r].op = "commit"
      /\ id \notin drawn[s] /\ id \notin nonces[s]
      /\ nonces' = [nonces EXCEPT ![s] = @ \cup {id}]
      /\ pending' = [pending EXCEPT ![r] = {id}]
      /\ pc' = [pc EXCEPT ![r] = "half"]
      /\ UNCHANGED <<status, Commitments, drawn, shares, crashes, Mu, call, body, answers>>
  BY <1>0 DEF commitFirstHalf, At
<1>3. /\ pc'[r] = "half" /\ pending'[r] = {id} /\ pending[r] = {}
      /\ \A q \in Requests \ {r} :
           pc'[q] = pc[q] /\ call'[q] = call[q] /\ pending'[q] = pending[q]
  BY <1>1 DEF TypeOK, PendingUnknown
<1>4. nonces'[s] = nonces[s] \cup {id} /\ \A t \in Signers \ {s} : nonces'[t] = nonces[t]
  BY <1>1 DEF TypeOK, SignerTypeOK
<1>5. TypeOK'
  <2>1. pc' \in [Requests -> {"idle", "done"} \cup Running]
    BY <1>1 DEF TypeOK, Running
  <2>2. pending' \in [Requests -> SUBSET CommitmentIDs]
    BY <1>1 DEF TypeOK
  <2>3. nonces' \in [Signers -> SUBSET CommitmentIDs]
    BY <1>1 DEF TypeOK, SignerTypeOK
  <2>4. \A t \in Signers : Mu'[t] # Free =>
          pc'[Mu'[t]] \in {"locked", "half"} /\ call'[Mu'[t]].signer = t
    BY <1>1, <1>3 DEF TypeOK
  <2> QED
    BY <1>1, <2>1, <2>2, <2>3, <2>4 DEF TypeOK, SignerTypeOK
<1>6. RunningHasCall' /\ PastLockHolds'
  BY <1>1, <1>3 DEF RunningHasCall, PastLockHolds, Running
<1>7. ASSUME NEW q \in Requests, q # r, pc[q] = "half"
      PROVE  call[q].signer # s /\ call[q].signer \in Signers
  BY <1>0, <1>1, <1>7, MutualExclusion, CallParts DEF RunningHasCall, Running
<1>8. PendingUnknown'
  <2> SUFFICES ASSUME NEW q \in Requests
               PROVE  /\ ~(pc'[q] = "half" /\ call'[q].op = "commit") => pending'[q] = {}
                      /\ pc'[q] = "half" /\ call'[q].op = "commit" =>
                           \E i \in CommitmentIDs :
                             /\ pending'[q] = {i}
                             /\ i \in nonces'[call'[q].signer]
                             /\ i \notin drawn'[call'[q].signer]
    BY DEF PendingUnknown
  <2>1. CASE q = r
    BY <1>0, <1>1, <1>3, <1>4, <2>1
  <2>2. CASE q # r
    BY <1>1, <1>3, <1>4, <1>7, <2>2 DEF PendingUnknown
  <2> QED
    BY <2>1, <2>2
<1>9. LookedUpStillLive'
  <2> SUFFICES ASSUME NEW q \in Requests, pc'[q] = "half", call'[q].op = "sign"
               PROVE  VerifyCommitmentList(call[q].signer, call[q].list)'
    BY <1>1 DEF LookedUpStillLive, VerifyCommitmentList
  <2>1. q # r /\ pc[q] = "half" /\ call[q].op = "sign"
    BY <1>1, <1>3
  <2> QED
    BY <1>1, <1>4, <1>7, <2>1 DEF LookedUpStillLive, VerifyCommitmentList
<1>10. unrecorded(s) = {} /\ id \in unrecorded(s)'
  BY <1>0, <1>1, <1>3, HolderRecords, UnrecordedElementsNext
<1>11. \A t \in Signers \ {s} : unrecorded(t)' = unrecorded(t)
  BY <1>0, <1>1, <1>3, UnrecordedElsewhere
<1>12. unrecorded(s)' = {id}
  <2> SUFFICES ASSUME NEW i, i \in unrecorded(s)' PROVE i = id
    BY <1>10
  <2>1. PICK q \in Requests : pc'[q] = "half" /\ call'[q].signer = s /\ i \in pending'[q]
    BY <1>1, UnrecordedElementsNext
  <2> QED
    BY <1>1, <1>3, <1>7, <2>1
<1>13. LiveNoncesKnown'
  BY <1>1, <1>4, <1>10, <1>11, <1>12 DEF LiveNoncesKnown
<1>14. UNCHANGED recordedNonces
  <2>1. \A t \in Signers : nonces'[t] \ unrecorded(t)' = nonces[t] \ unrecorded(t)
    BY <1>1, <1>4, <1>10, <1>11, <1>12
  <2> QED
    BY <2>1 DEF recordedNonces
<1>15. UsedNoncesCleared'
  BY <1>1, <1>4 DEF UsedNoncesCleared, TypeOK, SignerTypeOK, Shares
<1>16. NonceSingleUse' /\ NonceAnsweredOnce'
  BY <1>1 DEF NonceSingleUse, NonceAnsweredOnce
<1> QED
  BY <1>1, <1>5, <1>6, <1>8, <1>9, <1>13, <1>14, <1>15, <1>16

-----------------------------------------------------------------------------
(* The second halves: here the atomic handlers of SignerNode happen.       *)

LEMMA KeptByCommitSecondHalf ==
  ASSUME MutexInv, NEW r \in Requests, commitSecondHalf(r)
  PROVE  /\ MutexInv'
         /\ \E id \in CommitmentIDs : Atomic!commitHandler(call[r].signer, id)
<1> USE DEF MutexInv
<1>0. PICK s \in Signers : s = call[r].signer
  BY CallParts DEF commitSecondHalf, At, RunningHasCall, Running
<1>1. /\ pc[r] = "half" /\ call[r].op = "commit" /\ status[s] = "up"
      /\ Commitments' = [Commitments EXCEPT ![s] = @ \cup pending[r]]
      /\ drawn' = [drawn EXCEPT ![s] = @ \cup pending[r]]
      /\ Return(r)
      /\ UNCHANGED <<status, nonces, shares, crashes, answers>>
  BY <1>0 DEF commitSecondHalf, At
<1>3. PICK id \in CommitmentIDs : pending[r] = {id} /\ id \in nonces[s] /\ id \notin drawn[s]
  BY <1>0, <1>1 DEF PendingUnknown
<1>4. drawn'[s] = drawn[s] \cup {id} /\ \A t \in Signers \ {s} : drawn'[t] = drawn[t]
  BY <1>1, <1>3 DEF TypeOK, SignerTypeOK
<1>5. SignerTypeOK' /\ answers' \in [Signers -> [CommitmentIDs -> Nat]]
  BY <1>1, <1>3 DEF TypeOK, SignerTypeOK
<1>6. /\ TypeOK' /\ RunningHasCall' /\ PastLockHolds'
      /\ pc'[r] = "done" /\ pending'[r] = {}
      /\ \A q \in Requests \ {r} :
           pc'[q] = pc[q] /\ call'[q] = call[q] /\ pending'[q] = pending[q]
  BY <1>1, <1>5, ReturnEffect
<1>7. ASSUME NEW q \in Requests, q # r, pc[q] = "half"
      PROVE  call[q].signer # s /\ call[q].signer \in Signers
  BY <1>0, <1>1, <1>7, MutualExclusion, CallParts DEF RunningHasCall, Running
<1>8. PendingUnknown'
  <2> SUFFICES ASSUME NEW q \in Requests
               PROVE  /\ ~(pc'[q] = "half" /\ call'[q].op = "commit") => pending'[q] = {}
                      /\ pc'[q] = "half" /\ call'[q].op = "commit" =>
                           \E i \in CommitmentIDs :
                             /\ pending'[q] = {i}
                             /\ i \in nonces'[call'[q].signer]
                             /\ i \notin drawn'[call'[q].signer]
    BY DEF PendingUnknown
  <2>1. CASE q = r
    BY <1>6, <2>1
  <2>2. CASE q # r
    BY <1>1, <1>4, <1>6, <1>7, <2>2 DEF PendingUnknown
  <2> QED
    BY <2>1, <2>2
<1>9. LookedUpStillLive'
  BY <1>1, <1>6 DEF LookedUpStillLive, VerifyCommitmentList
<1>10. unrecorded(s) = {id} /\ unrecorded(s)' = {}
  <2>1. unrecorded(s) = {id}
    BY <1>0, <1>1, <1>3, HolderRecords
  <2>2. ASSUME NEW i, i \in unrecorded(s)' PROVE FALSE
    <3>1. PICK q \in Requests : pc'[q] = "half" /\ call'[q].signer = s /\ i \in pending'[q]
      BY <2>2, UnrecordedElementsNext
    <3> QED
      BY <1>0, <1>6, <1>7, <3>1
  <2> QED
    BY <2>1, <2>2
<1>11. \A t \in Signers \ {s} : unrecorded(t)' = unrecorded(t)
  BY <1>0, <1>6, UnrecordedElsewhere
<1>12. LiveNoncesKnown'
  BY <1>1, <1>4, <1>10, <1>11 DEF LiveNoncesKnown
<1>13. UsedNoncesCleared'
  <2>1. \A t \in Signers : drawn[t] \subseteq drawn'[t]
    BY <1>4
  <2> QED
    BY <1>1, <2>1 DEF UsedNoncesCleared, TypeOK, SignerTypeOK, Shares
<1>14. NonceSingleUse' /\ NonceAnsweredOnce'
  BY <1>1 DEF NonceSingleUse, NonceAnsweredOnce
<1>15. recordedNonces' = [recordedNonces EXCEPT ![s] = @ \cup {id}]
  <2>1. nonces'[s] \ unrecorded(s)' = (nonces[s] \ unrecorded(s)) \cup {id}
    BY <1>0, <1>1, <1>3, <1>10
  <2>2. \A t \in Signers \ {s} : nonces'[t] \ unrecorded(t)' = nonces[t] \ unrecorded(t)
    BY <1>1, <1>11
  <2> QED
    BY <2>1, <2>2 DEF recordedNonces
<1>16. Atomic!commitHandler(s, id)
  BY <1>0, <1>1, <1>3, <1>15 DEF Atomic!commitHandler
<1> QED
  BY <1>0, <1>6, <1>8, <1>9, <1>12, <1>13, <1>14, <1>16

LEMMA KeptBySignSecondHalf ==
  ASSUME MutexInv, NEW r \in Requests, signSecondHalf(r)
  PROVE  /\ MutexInv'
         /\ Atomic!signHandlerOK(call[r].signer, call[r].msg, call[r].list)
<1> USE DEF MutexInv
<1>0. PICK s \in Signers : s = call[r].signer
  BY CallParts DEF signSecondHalf, At, RunningHasCall, Running
<1>a. PICK id : id = call[r].list[s]
  OBVIOUS
<1>b. PICK new : new = SignatureShare(s, call[r].msg, call[r].list)
  OBVIOUS
<1>1. /\ pc[r] = "half" /\ call[r].op = "sign" /\ status[s] = "up"
      /\ shares' = shares \cup {new}
      /\ nonces' = [nonces EXCEPT ![s] = @ \ {id}]
      /\ answers' = [answers EXCEPT ![s][id] = @ + 1]
      /\ Return(r)
      /\ UNCHANGED <<status, Commitments, drawn, crashes>>
  BY <1>0, <1>a, <1>b DEF signSecondHalf, At, frostSign
<1>2. call[r].msg \in Messages /\ call[r].list \in CommitmentLists
  BY <1>1, CallParts DEF RunningHasCall, Running
<1>3. ValidCommitmentList(call[r].list) /\ s \in DOMAIN call[r].list /\ id \in nonces[s]
  BY <1>0, <1>a, <1>1 DEF LookedUpStillLive, VerifyCommitmentList
<1>4. new \in Shares /\ id \in CommitmentIDs /\ new.signer = s /\ new.id = id
  BY <1>a, <1>b, <1>2, <1>3, SignatureShareType DEF SignatureShare
<1>5. pending[r] = {}
  BY <1>1 DEF PendingUnknown
<1>6. unrecorded(s) = {}
  BY <1>0, <1>1, <1>5, HolderRecords
<1>7. id \in drawn[s]
  BY <1>2, <1>3, <1>6 DEF LiveNoncesKnown
<1>8. answers[s][id] = 0
  BY <1>2, <1>3, <1>4 DEF UsedNoncesCleared, TypeOK
<1>9. nonces'[s] = nonces[s] \ {id} /\ \A t \in Signers \ {s} : nonces'[t] = nonces[t]
  BY <1>1, <1>2 DEF TypeOK, SignerTypeOK
<1>10. /\ answers'[s][id] = 1
       /\ \A t \in Signers, i \in CommitmentIDs : t # s \/ i # id => answers'[t][i] = answers[t][i]
  BY <1>1, <1>2, <1>4, <1>8 DEF TypeOK
<1>11. SignerTypeOK' /\ answers' \in [Signers -> [CommitmentIDs -> Nat]]
  <2>1. answers' \in [Signers -> [CommitmentIDs -> Nat]]
    BY <1>1, <1>2, <1>4 DEF TypeOK
  <2> QED
    BY <1>1, <1>2, <1>4, <2>1 DEF TypeOK, SignerTypeOK
<1>12. /\ TypeOK' /\ RunningHasCall' /\ PastLockHolds'
       /\ pc'[r] = "done" /\ pending'[r] = {}
       /\ \A q \in Requests \ {r} :
            pc'[q] = pc[q] /\ call'[q] = call[q] /\ pending'[q] = pending[q]
  BY <1>1, <1>11, ReturnEffect
<1>13. ASSUME NEW q \in Requests, q # r, pc[q] = "half"
       PROVE  call[q].signer # s /\ call[q].signer \in Signers
  BY <1>1, <1>13, MutualExclusion, CallParts, <1>0 DEF RunningHasCall, Running
<1>14. PendingUnknown'
  <2> SUFFICES ASSUME NEW q \in Requests
               PROVE  /\ ~(pc'[q] = "half" /\ call'[q].op = "commit") => pending'[q] = {}
                      /\ pc'[q] = "half" /\ call'[q].op = "commit" =>
                           \E i \in CommitmentIDs :
                             /\ pending'[q] = {i}
                             /\ i \in nonces'[call'[q].signer]
                             /\ i \notin drawn'[call'[q].signer]
    BY DEF PendingUnknown
  <2>1. CASE q = r
    BY <1>12, <2>1
  <2>2. CASE q # r
    BY <1>1, <1>9, <1>12, <1>13, <2>2 DEF PendingUnknown
  <2> QED
    BY <2>1, <2>2
<1>15. LookedUpStillLive'
  <2> SUFFICES ASSUME NEW q \in Requests, pc'[q] = "half", call'[q].op = "sign"
               PROVE  /\ ValidCommitmentList(call'[q].list)
                      /\ call'[q].signer \in DOMAIN call'[q].list
                      /\ call'[q].list[call'[q].signer] \in nonces'[call'[q].signer]
    BY DEF LookedUpStillLive, VerifyCommitmentList
  <2>1. q # r /\ pc[q] = "half" /\ call[q].op = "sign" /\ call'[q] = call[q]
    BY <1>12
  <2> QED
    BY <1>9, <1>13, <2>1 DEF LookedUpStillLive, VerifyCommitmentList
<1>16. \A t : unrecorded(t)' = unrecorded(t)
  <2>1. \A q \in Requests :
          /\ pending'[q] = pending[q]
          /\ pending[q] # {} =>
               (pc'[q] = "half" <=> pc[q] = "half") /\ (pc[q] = "half" => call'[q] = call[q])
    BY <1>5, <1>12
  <2> QED
    BY <2>1, UnrecordedKept
<1>17. LiveNoncesKnown'
  BY <1>1, <1>9, <1>16 DEF LiveNoncesKnown
<1>18. UsedNoncesCleared'
  <2>1. \A t \in Signers : nonces'[t] \subseteq nonces[t]
    BY <1>9
  <2>2. \A sh \in shares' : sh.id \in drawn'[sh.signer] /\ sh.id \notin nonces'[sh.signer]
    BY <1>1, <1>4, <1>7, <1>9, <2>1 DEF UsedNoncesCleared, TypeOK, SignerTypeOK, Shares
  <2>3. \A t \in Signers, i \in CommitmentIDs :
          answers'[t][i] > 0 => i \in drawn'[t] /\ i \notin nonces'[t]
    BY <1>1, <1>7, <1>9, <1>10, <2>1 DEF UsedNoncesCleared
  <2> QED
    BY <2>2, <2>3 DEF UsedNoncesCleared
<1>19. NonceSingleUse'
  <2>1. \A sh \in shares : ~(sh.signer = s /\ sh.id = id)
    BY <1>3 DEF UsedNoncesCleared
  <2> QED
    BY <1>1, <1>4, <2>1 DEF NonceSingleUse
<1>20. NonceAnsweredOnce'
  BY <1>10, <1>11 DEF NonceAnsweredOnce
<1>21. recordedNonces' = [recordedNonces EXCEPT ![s] = @ \ {id}]
  <2>1. nonces'[s] \ unrecorded(s)' = (nonces[s] \ unrecorded(s)) \ {id}
    BY <1>9, <1>16
  <2>2. \A t \in Signers \ {s} : nonces'[t] \ unrecorded(t)' = nonces[t] \ unrecorded(t)
    BY <1>9, <1>16
  <2> QED
    BY <1>2, <2>1, <2>2 DEF recordedNonces
<1>22. recordedNonces[s] = nonces[s]
  BY <1>6 DEF recordedNonces
<1>23. Atomic!signHandlerOK(s, call[r].msg, call[r].list)
  <2>1. Atomic!VerifyCommitmentList(s, call[r].list)
    BY <1>a, <1>3, <1>22
    DEF Atomic!VerifyCommitmentList, Atomic!ValidCommitmentList, ValidCommitmentList,
        Atomic!Cardinality, Cardinality
  <2>2. Atomic!frostSign(s, call[r].msg, call[r].list)
    BY <1>a, <1>b, <1>1, <1>21 DEF Atomic!frostSign, Atomic!SignatureShare, SignatureShare
  <2> QED
    BY <1>1, <2>1, <2>2 DEF Atomic!signHandlerOK
<1> QED
  BY <1>12, <1>14, <1>15, <1>17, <1>18, <1>19, <1>20, <1>23, <1>0

-----------------------------------------------------------------------------
(* The processes.                                                          *)

LEMMA KeptByCrash ==
  ASSUME MutexInv, NEW s \in Signers, ProcessCrash(s)
  PROVE  MutexInv' /\ Atomic!Crash(s)
<1> USE DEF MutexInv
<1> DEFINE lost == {q \in Requests : pc[q] \in Running /\ call[q].signer = s}
<1>1. /\ Crash(s)
      /\ pc' = [q \in Requests |-> IF q \in lost THEN "done" ELSE pc[q]]
      /\ call' = [q \in Requests |-> IF q \in lost THEN NoCall ELSE call[q]]
      /\ body' = [q \in Requests |-> IF q \in lost THEN "coming" ELSE body[q]]
      /\ pending' = [q \in Requests |-> IF q \in lost THEN {} ELSE pending[q]]
      /\ Mu' = [Mu EXCEPT ![s] = Free]
      /\ UNCHANGED answers
  BY DEF ProcessCrash, Over
<1>2. SignerTypeOK'
  BY <1>1, FaultForgets DEF TypeOK, SignerFault
<1>3. /\ nonces'[s] = {} /\ \A t \in Signers \ {s} : nonces'[t] = nonces[t]
      /\ UNCHANGED <<drawn, shares>>
  BY <1>1 DEF Crash, TypeOK, SignerTypeOK
<1>4. \A q \in Requests : q \in lost =>
        pc'[q] = "done" /\ pending'[q] = {}
  BY <1>1
<1>5. \A q \in Requests : q \notin lost =>
        pc'[q] = pc[q] /\ call'[q] = call[q] /\ pending'[q] = pending[q]
  BY <1>1
<1>6. \A t \in Signers : Mu'[t] = IF t = s THEN Free ELSE Mu[t]
  BY <1>1 DEF TypeOK
<1>7. \A q \in Requests : pc[q] \in Running => call[q].signer \in Signers
  BY CallParts DEF RunningHasCall
<1>8. \A q \in Requests : pc'[q] \in Running =>
        q \notin lost /\ call'[q].signer # s /\ call'[q].signer \in Signers
  BY <1>4, <1>5, <1>7 DEF Running
<1>9. TypeOK'
  <2>1. /\ Mu' \in [Signers -> Requests \cup {Free}]
        /\ pc' \in [Requests -> {"idle", "done"} \cup Running]
        /\ call' \in [Requests -> Calls \cup {NoCall}]
        /\ body' \in [Requests -> {"coming", "whole", "broken"}]
        /\ pending' \in [Requests -> SUBSET CommitmentIDs]
        /\ answers' \in [Signers -> [CommitmentIDs -> Nat]]
    BY <1>1 DEF TypeOK
  <2>2. ASSUME NEW t \in Signers, Mu'[t] # Free
        PROVE  pc'[Mu'[t]] \in {"locked", "half"} /\ call'[Mu'[t]].signer = t
    <3>1. t # s /\ Mu'[t] = Mu[t] /\ Mu[t] \in Requests
      BY <1>6, <2>2 DEF TypeOK
    <3>2. pc[Mu[t]] \in {"locked", "half"} /\ call[Mu[t]].signer = t
      BY <2>2, <3>1 DEF TypeOK
    <3>3. Mu[t] \notin lost
      BY <3>1, <3>2
    <3> QED
      BY <1>5, <3>1, <3>2, <3>3
  <2> QED
    BY <1>2, <2>1, <2>2 DEF TypeOK
<1>10. RunningHasCall'
  BY <1>5, <1>8 DEF RunningHasCall
<1>11. PastLockHolds'
  BY <1>5, <1>6, <1>8 DEF PastLockHolds, Running
<1> HIDE DEF lost
<1>12. PendingUnknown'
  <2> SUFFICES ASSUME NEW q \in Requests
               PROVE  /\ ~(pc'[q] = "half" /\ call'[q].op = "commit") => pending'[q] = {}
                      /\ pc'[q] = "half" /\ call'[q].op = "commit" =>
                           \E i \in CommitmentIDs :
                             /\ pending'[q] = {i}
                             /\ i \in nonces'[call'[q].signer]
                             /\ i \notin drawn'[call'[q].signer]
    BY DEF PendingUnknown
  <2>1. CASE q \in lost
    BY <1>4, <2>1
  <2>2. CASE q \notin lost
    BY <1>3, <1>5, <1>8, <2>2 DEF PendingUnknown, Running
  <2> QED
    BY <2>1, <2>2
<1>13. LookedUpStillLive'
  <2> SUFFICES ASSUME NEW q \in Requests, pc'[q] = "half", call'[q].op = "sign"
               PROVE  /\ ValidCommitmentList(call'[q].list)
                      /\ call'[q].signer \in DOMAIN call'[q].list
                      /\ call'[q].list[call'[q].signer] \in nonces'[call'[q].signer]
    BY DEF LookedUpStillLive, VerifyCommitmentList
  <2>1. q \notin lost /\ call'[q].signer # s /\ call'[q].signer \in Signers
    BY <1>8 DEF Running
  <2> QED
    BY <1>3, <1>5, <2>1 DEF LookedUpStillLive, VerifyCommitmentList
<1>14. unrecorded(s)' = {}
  <2> SUFFICES ASSUME NEW i, i \in unrecorded(s)' PROVE FALSE
    OBVIOUS
  <2>1. PICK q \in Requests : pc'[q] = "half" /\ call'[q].signer = s
    BY UnrecordedElementsNext
  <2> QED
    BY <1>8, <2>1 DEF Running
<1>15. ASSUME NEW t \in Signers, t # s PROVE unrecorded(t)' = unrecorded(t)
  <2>1. ASSUME NEW i, i \in unrecorded(t) PROVE i \in unrecorded(t)'
    <3>1. PICK q \in Requests : pc[q] = "half" /\ call[q].signer = t /\ i \in pending[q]
      BY <2>1, UnrecordedElements
    <3>2. q \notin lost
      BY <1>15, <3>1 DEF lost
    <3> QED
      BY <1>5, <3>1, <3>2, UnrecordedElementsNext
  <2>2. ASSUME NEW i, i \in unrecorded(t)' PROVE i \in unrecorded(t)
    <3>1. PICK q \in Requests : pc'[q] = "half" /\ call'[q].signer = t /\ i \in pending'[q]
      BY <2>2, UnrecordedElementsNext
    <3>2. q \notin lost
      BY <1>8, <3>1 DEF Running
    <3> QED
      BY <1>5, <3>1, <3>2, UnrecordedElements
  <2> QED
    BY <2>1, <2>2
<1>16. LiveNoncesKnown'
  BY <1>3, <1>14, <1>15 DEF LiveNoncesKnown
<1>17. UsedNoncesCleared'
  <2>1. \A t \in Signers : nonces'[t] \subseteq nonces[t]
    BY <1>3
  <2> QED
    BY <1>1, <1>3, <2>1 DEF UsedNoncesCleared, TypeOK, SignerTypeOK, Shares
<1>18. NonceSingleUse' /\ NonceAnsweredOnce'
  BY <1>1, <1>3 DEF NonceSingleUse, NonceAnsweredOnce
<1>19. recordedNonces' = [recordedNonces EXCEPT ![s] = {}]
  <2>1. nonces'[s] \ unrecorded(s)' = {}
    BY <1>3
  <2>2. \A t \in Signers \ {s} : nonces'[t] \ unrecorded(t)' = nonces[t] \ unrecorded(t)
    BY <1>3, <1>15
  <2> QED
    BY <2>1, <2>2 DEF recordedNonces
<1>20. Atomic!Crash(s)
  BY <1>1, <1>19 DEF Crash, Atomic!Crash
<1> QED
  BY <1>9, <1>10, <1>11, <1>12, <1>13, <1>16, <1>17, <1>18, <1>20

LEMMA KeptByFault ==
  ASSUME MutexInv, NEW s \in Signers, ProcessFault(s)
  PROVE  /\ MutexInv'
         /\ Atomic!Restart(s) \/ Atomic!Hang(s) \/ Atomic!Resume(s)
<1> USE DEF MutexInv
<1>1. /\ Restart(s) \/ Hang(s) \/ Resume(s)
      /\ UNCHANGED <<nonces, Commitments, drawn, shares, crashes>>
      /\ UNCHANGED <<Mu, pc, call, body, pending, answers>>
  BY DEF ProcessFault, Restart, Hang, Resume, mutexVars
<1>2. SignerTypeOK'
  BY <1>1, FaultForgets DEF TypeOK, SignerFault
<1>3. \A t : unrecorded(t)' = unrecorded(t)
  BY <1>1, UnrecordedKept
<1>4. TypeOK' /\ RunningHasCall' /\ PastLockHolds'
  BY <1>1, <1>2 DEF TypeOK, RunningHasCall, PastLockHolds
<1>5. PendingUnknown' /\ LookedUpStillLive'
  BY <1>1 DEF PendingUnknown, LookedUpStillLive, VerifyCommitmentList
<1>6. LiveNoncesKnown' /\ UNCHANGED recordedNonces
  BY <1>1, <1>3 DEF LiveNoncesKnown, recordedNonces
<1>7. UsedNoncesCleared' /\ NonceSingleUse' /\ NonceAnsweredOnce'
  BY <1>1 DEF UsedNoncesCleared, NonceSingleUse, NonceAnsweredOnce
<1>8. Atomic!Restart(s) \/ Atomic!Hang(s) \/ Atomic!Resume(s)
  BY <1>1, <1>6 DEF Restart, Hang, Resume, Atomic!Restart, Atomic!Hang, Atomic!Resume
<1> QED
  BY <1>4, <1>5, <1>6, <1>7, <1>8

-----------------------------------------------------------------------------
(* The theorems.                                                           *)

\* Every step keeps the invariant, and is a step of the atomic signers or
\* nothing they would notice.
LEMMA MutexInvNext ==
  MutexInv /\ [Next]_vars => MutexInv' /\ [Atomic!SignerNext]_(Atomic!signerVars)
<1> SUFFICES ASSUME MutexInv, [Next]_vars
             PROVE  MutexInv' /\ (Atomic!SignerNext \/ UNCHANGED Atomic!signerVars)
  OBVIOUS
<1> DEFINE Goal == MutexInv' /\ (Atomic!SignerNext \/ UNCHANGED Atomic!signerVars)
<1>1. ASSUME MutexInv', UNCHANGED <<signerVars, recordedNonces>> PROVE Goal
  BY <1>1 DEF signerVars, Atomic!signerVars
<1>2. ASSUME NEW r \in Requests, NEW c \in Calls, Arrive(r, c) PROVE Goal
  BY <1>1, <1>2, KeptByArrive
<1>3. ASSUME NEW r \in Requests, BodyEnds(r) \/ Lock(r) PROVE Goal
  BY <1>1, <1>3, KeptByBodyEnds, KeptByLock
<1>4. ASSUME NEW r \in Requests, NEW id \in CommitmentIDs, commitFirstHalf(r, id) PROVE Goal
  BY <1>4, KeptByCommitFirstHalf DEF Atomic!signerVars
<1>5. ASSUME NEW r \in Requests, signBadRequest(r) \/ signRefused(r) \/ signFirstHalf(r)
      PROVE  Goal
  BY <1>1, <1>5, KeptBySignError, KeptBySignFirstHalf
<1>6. ASSUME NEW r \in Requests, commitSecondHalf(r) PROVE Goal
  <2>1. call[r].signer \in Signers
    BY <1>6, CallParts DEF commitSecondHalf, At, MutexInv, RunningHasCall, Running
  <2>2. MutexInv' /\ \E id \in CommitmentIDs : Atomic!commitHandler(call[r].signer, id)
    BY <1>6, KeptByCommitSecondHalf
  <2> QED
    BY <2>1, <2>2 DEF Atomic!SignerNext, Atomic!AnyCall
<1>7. ASSUME NEW r \in Requests, signSecondHalf(r) PROVE Goal
  <2>1. call[r].signer \in Signers /\ call[r].msg \in Messages /\ call[r].list \in CommitmentLists
    BY <1>7, CallParts DEF signSecondHalf, At, MutexInv, RunningHasCall, Running
  <2>2. MutexInv' /\ Atomic!signHandlerOK(call[r].signer, call[r].msg, call[r].list)
    BY <1>7, KeptBySignSecondHalf
  <2> QED
    BY <2>1, <2>2
    DEF Atomic!SignerNext, Atomic!AnyCall, Atomic!CommitmentLists, CommitmentLists
<1>8. ASSUME NEW s \in Signers, ProcessCrash(s) \/ ProcessFault(s) PROVE Goal
  <2>1. MutexInv' /\ Atomic!SignerFault(s)
    BY <1>8, KeptByCrash, KeptByFault DEF Atomic!SignerFault
  <2> QED
    BY <1>8, <2>1 DEF Atomic!SignerNext
<1>9. CASE UNCHANGED vars
  <2>1. UNCHANGED <<signerVars, Mu, pc, call, body, pending, answers>>
    BY <1>9 DEF vars, mutexVars
  <2>2. TypeOK' /\ RunningHasCall' /\ PastLockHolds'
    BY <2>1 DEF MutexInv, TypeOK, SignerTypeOK, signerVars, RunningHasCall, PastLockHolds
  <2> QED
    BY <1>1, <2>1, <2>2, KeptByQuietStep
<1> QED
  BY <1>2, <1>3, <1>4, <1>5, <1>6, <1>7, <1>8, <1>9 DEF Next, HandlerStep

LEMMA MutexInvariance == Spec => []MutexInv
BY MutexInvInit, MutexInvNext, PTL DEF Spec

\* Type correctness; Mu is held only by a handler of its own signer.
THEOREM MutexTypeCorrect == Spec => []TypeOK
<1>1. MutexInv => TypeOK
  BY DEF MutexInv
<1> QED
  BY <1>1, MutexInvariance, PTL

\* A nonce is never answered twice, however requests overlap.
THEOREM AnsweredOnce == Spec => []NonceAnsweredOnce
<1>1. MutexInv => NonceAnsweredOnce
  BY DEF MutexInv
<1> QED
  BY <1>1, MutexInvariance, PTL

\* commitHandler and signHandler, with their halves and locks and crashes in
\* between, implement the one-step handlers of SignerNode.
THEOREM HandlersAtomic == Spec => ImplementsSignerNode
<1>1. Init => Atomic!SignerInit
  <2> SUFFICES ASSUME Init PROVE Atomic!SignerInit
    OBVIOUS
  <2>1. recordedNonces = [s \in Signers |-> {}]
    BY DEF Init, SignerInit, recordedNonces
  <2> QED
    BY <2>1 DEF Init, SignerInit, Atomic!SignerInit
<1> QED
  BY <1>1, MutexInvariance, MutexInvNext, PTL DEF Spec, ImplementsSignerNode, Atomic!SignerSpec

\* No nonce makes two different shares, with the handlers interrupted anywhere.
THEOREM InterleavedNonceSafety == Spec => []NonceSingleUse
<1>1. MutexInv => NonceSingleUse
  BY DEF MutexInv
<1> QED
  BY <1>1, MutexInvariance, PTL
=============================================================================
