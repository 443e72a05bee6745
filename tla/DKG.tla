-------------------------------- MODULE DKG ---------------------------------
(***************************************************************************)
(* The distributed key generation: the /dkg handlers of cmd/signer, the    *)
(* participant of internal/dkg and the ceremony that cmd/dkg-coordinator   *)
(* drives.                                                                 *)
(*                                                                         *)
(* Signer s is number s of signerAddresses.  A signer holds ONE            *)
(* participant and ONE list of commitments in global variables, and no     *)
(* call names the ceremony it belongs to.  A ceremony is a run of the      *)
(* dkg-coordinator process: an operator starts one again after one failed, *)
(* or while one runs.  It makes one call after the other and exits at the  *)
(* first that fails; the call it gave up may still be served.              *)
(*                                                                         *)
(* Cryptography is ideal.  A polynomial, and its commitment, is named by   *)
(* the signer that drew it and the ceremony whose call made it draw it: a  *)
(* ceremony calls /dkg/round1 of a signer once.  A secret is a sum of      *)
(* shares of polynomials: how often the share of each is added.  A group   *)
(* public key is the set of polynomials whose constant terms it sums (no   *)
(* list of commitments holds one twice); the empty set is the identity.    *)
(***************************************************************************)
EXTENDS Naturals, FiniteSets

CONSTANTS
  N,              \* len(signerAddresses)
  Ceremonies,     \* the runs of cmd/dkg-coordinator
  NoPoly,         \* the nil participant
  NoResult,       \* no key share was computed
  MaxRestarts,    \* bound on the number of restarts of signer processes
  NetFaults       \* whether connections may fail and coordinators be killed

Signers == 1..N
Polys == Signers \X Ceremonies

\* dkg.SharePackage: the share of the polynomial poly for signer ToID.
Packages == [FromID : Signers, ToID : Signers, poly : Polys]

\* keys.KeyShare: Secret and VerificationKey.
KeyShares == [Secret : [Polys -> Nat], VerificationKey : SUBSET Polys]

ASSUME DKGAssumption ==
  /\ N \in Nat \ {0}
  /\ NoPoly \notin Polys
  /\ NoResult \notin KeyShares
  /\ MaxRestarts \in Nat
  /\ NetFaults \in BOOLEAN

VARIABLES
  dkgParticipant, \* dkgParticipant[s]: the polynomial of the participant, or nil
  allCommitments, \* allCommitments[s]: the commitments signer s was sent last
  keyShare,       \* keyShare[c][s]: what the finalize call of c made s compute
  pc,             \* pc[c]: the loop of main the ceremony is in
  i, j,           \* i[c], j[c]: its loop variables, as signer numbers
  call,           \* call[c]: the call made to signer i[c], or how it ended
  replyPoly,      \* replyPoly[c]: the polynomial whose commitment or share is in the reply
  commitments,    \* commitments[c]: allCommitments of the coordinator
  sharesByTarget, \* sharesByTarget[c][s]: the packages collected for s
  restarts,       \* how many restarts of signers have happened
  disturbed       \* history: another ceremony's call was served while c ran

signerVars == <<dkgParticipant, allCommitments, keyShare>>
loopVars == <<pc, i, j, commitments, sharesByTarget>>
vars == <<signerVars, loopVars, call, replyPoly, restarts, disturbed>>

Loops == {"round1", "broadcast", "round2", "distribute"}
Ended == {"complete", "failed"}

\* A call is posted (and named by its loop), answered with status 200, or broken:
\* the connection died, because the handler panicked or the process did.
CallStates == Loops \cup {"none", "answered", "broken"}

TypeOK ==
  /\ dkgParticipant \in [Signers -> Polys \cup {NoPoly}]
  /\ allCommitments \in [Signers -> SUBSET Polys]
  /\ keyShare \in [Ceremonies -> [Signers -> KeyShares \cup {NoResult}]]
  /\ pc \in [Ceremonies -> {"idle"} \cup Loops \cup Ended]
  /\ i \in [Ceremonies -> Signers]
  /\ j \in [Ceremonies -> Signers]
  /\ call \in [Ceremonies -> CallStates]
  /\ replyPoly \in [Ceremonies -> Polys \cup {NoPoly}]
  /\ commitments \in [Ceremonies -> SUBSET Polys]
  /\ sharesByTarget \in [Ceremonies -> [Signers -> SUBSET Packages]]
  /\ restarts \in 0..MaxRestarts
  /\ disturbed \in [Ceremonies -> BOOLEAN]

Init ==
  /\ dkgParticipant = [s \in Signers |-> NoPoly]
  /\ allCommitments = [s \in Signers |-> {}]
  /\ keyShare = [c \in Ceremonies |-> [s \in Signers |-> NoResult]]
  /\ pc = [c \in Ceremonies |-> "idle"]
  /\ i = [c \in Ceremonies |-> 1]
  /\ j = [c \in Ceremonies |-> 1]
  /\ call = [c \in Ceremonies |-> "none"]
  /\ replyPoly = [c \in Ceremonies |-> NoPoly]
  /\ commitments = [c \in Ceremonies |-> {}]
  /\ sharesByTarget = [c \in Ceremonies |-> [s \in Signers |-> {}]]
  /\ restarts = 0
  /\ disturbed = [c \in Ceremonies |-> FALSE]

-----------------------------------------------------------------------------
(* The handlers of the signers; each runs under dkgMu from start to end.   *)

\* A call of c was served with the given outcome.
Served(c, outcome) ==
  /\ call' = [call EXCEPT ![c] = outcome]
  /\ disturbed' = [d \in Ceremonies |-> disturbed[d] \/ (d # c /\ pc[d] \in Loops)]
  /\ UNCHANGED <<loopVars, restarts>>

\* Mutant: a participant that exists is kept.
dkgRound1HandlerKeeps(c) ==
  /\ call[c] = "round1"
  /\ dkgParticipant' = [dkgParticipant EXCEPT ![i[c]] = IF @ = NoPoly THEN <<i[c], c>> ELSE @]
  /\ replyPoly' = [replyPoly EXCEPT ![c] = dkgParticipant'[i[c]]]
  /\ Served(c, "answered")
  /\ UNCHANGED <<allCommitments, keyShare>>

\* A new participant draws its polynomial; the one before it is gone.
dkgRound1Handler(c) ==
  /\ call[c] = "round1"
  /\ dkgParticipant' = [dkgParticipant EXCEPT ![i[c]] = <<i[c], c>>]
  /\ replyPoly' = [replyPoly EXCEPT ![c] = <<i[c], c>>]
  /\ Served(c, "answered")
  /\ UNCHANGED <<allCommitments, keyShare>>

\* Mutant: the commitments are added to those of an earlier broadcast.
dkgCommitmentsHandlerAppends(c) ==
  /\ call[c] = "broadcast"
  /\ allCommitments' = [allCommitments EXCEPT ![i[c]] = @ \cup commitments[c]]
  /\ Served(c, "answered")
  /\ UNCHANGED <<dkgParticipant, keyShare, replyPoly>>

\* The list is replaced, whatever ceremony the one before it was of.
dkgCommitmentsHandler(c) ==
  /\ call[c] = "broadcast"
  /\ allCommitments' = [allCommitments EXCEPT ![i[c]] = commitments[c]]
  /\ Served(c, "answered")
  /\ UNCHANGED <<dkgParticipant, keyShare, replyPoly>>

\* Mutant: a nil participant answers like a zero one, whose ID is 0.
dkgRound2HandlerNil(c) ==
  /\ call[c] = "round2"
  /\ replyPoly' = [replyPoly EXCEPT ![c] =
       IF dkgParticipant[i[c]] # NoPoly THEN dkgParticipant[i[c]] ELSE <<0, c>>]
  /\ Served(c, "answered")
  /\ UNCHANGED signerVars

\* Participant.Round2 evaluates the polynomial the signer has now.
dkgRound2Handler(c) ==
  /\ call[c] = "round2"
  /\ dkgParticipant[i[c]] # NoPoly
  /\ replyPoly' = [replyPoly EXCEPT ![c] = dkgParticipant[i[c]]]
  /\ Served(c, "answered")
  /\ UNCHANGED signerVars

\* The sum that Participant.Finalize computes: the share of the own polynomial,
\* and every received share that is addressed to this signer.
FinalSecret(s, receivedShares) ==
  [p \in Polys |->
     (IF p = dkgParticipant[s] THEN 1 ELSE 0)
       + Cardinality({pkg \in receivedShares : pkg.ToID = s /\ pkg.poly = p})]

\* ComputeGroupPublicKey sums what the signer was sent last (nothing is no
\* error).  The key share is logged and thrown away.
dkgFinalizeHandler(c) ==
  /\ call[c] = "distribute"
  /\ LET s == i[c] IN
       /\ dkgParticipant[s] # NoPoly
       /\ keyShare' = [keyShare EXCEPT ![c][s] =
                         [Secret |-> FinalSecret(s, sharesByTarget[c][s]),
                          VerificationKey |-> allCommitments[s]]]
  /\ Served(c, "answered")
  /\ UNCHANGED <<dkgParticipant, allCommitments, replyPoly>>

\* Mutant: the panic leaves dkgMu locked and the call without an answer.
NilParticipantHangs(c) ==
  /\ call[c] \in {"round2", "distribute"}
  /\ dkgParticipant[i[c]] = NoPoly
  /\ UNCHANGED vars

\* Round2 and Finalize of a nil participant: the handler panics and net/http
\* closes the connection.
NilParticipantPanics(c) ==
  /\ call[c] \in {"round2", "distribute"}
  /\ dkgParticipant[i[c]] = NoPoly
  /\ Served(c, "broken")
  /\ UNCHANGED <<signerVars, replyPoly>>

\* A signer process dies and is started again with nil globals; calls it has not
\* served are lost.
Restart(s) ==
  /\ restarts < MaxRestarts
  /\ restarts' = restarts + 1
  /\ dkgParticipant' = [dkgParticipant EXCEPT ![s] = NoPoly]
  /\ allCommitments' = [allCommitments EXCEPT ![s] = {}]
  /\ call' = [c \in Ceremonies |->
                IF i[c] = s /\ call[c] \in Loops THEN "broken" ELSE call[c]]
  /\ UNCHANGED <<keyShare, loopVars, replyPoly, disturbed>>

-----------------------------------------------------------------------------
(* main of cmd/dkg-coordinator.                                            *)

\* Start the loop l at its first call.
Enter(c, l) ==
  /\ pc' = [pc EXCEPT ![c] = l]
  /\ i' = [i EXCEPT ![c] = 1]
  /\ call' = [call EXCEPT ![c] = IF l \in Loops THEN l ELSE "none"]

\* Make the next call of the current loop, or enter the loop l.
NextCallOr(c, l) ==
  \/ /\ i[c] < N
     /\ i' = [i EXCEPT ![c] = @ + 1]
     /\ call' = [call EXCEPT ![c] = pc[c]]
     /\ UNCHANGED pc
  \/ i[c] = N /\ Enter(c, l)

Start(c) ==
  /\ pc[c] = "idle"
  /\ Enter(c, "round1")
  /\ UNCHANGED <<signerVars, j, replyPoly, commitments, sharesByTarget, restarts, disturbed>>

Answered(c, l) == pc[c] = l /\ call[c] = "answered"

Round1Replied(c) ==
  /\ Answered(c, "round1")
  /\ commitments' = [commitments EXCEPT ![c] = @ \cup {replyPoly[c]}]
  /\ NextCallOr(c, "broadcast")
  /\ UNCHANGED <<signerVars, j, replyPoly, sharesByTarget, restarts, disturbed>>

BroadcastReplied(c) ==
  /\ Answered(c, "broadcast")
  /\ NextCallOr(c, "round2")
  /\ UNCHANGED <<signerVars, j, replyPoly, commitments, sharesByTarget, restarts, disturbed>>

\* The dkg.SharePackage of the reply: from the participant that drew the polynomial,
\* to the ID of the path, which the signer gives back.  (SIGNER_ID is the position
\* of the signer's address in signerAddresses.)
ReplyPackage(c) == [FromID |-> replyPoly[c][1], ToID |-> j[c], poly |-> replyPoly[c]]

\* Mutant: the package is filed under the signer that sent it.
Round2RepliedSwapped(c) ==
  /\ Answered(c, "round2")
  /\ sharesByTarget' = [sharesByTarget EXCEPT ![c][i[c]] = @ \cup {ReplyPackage(c)}]
  /\ \/ /\ j[c] < N
        /\ j' = [j EXCEPT ![c] = @ + 1]
        /\ call' = [call EXCEPT ![c] = "round2"]
        /\ UNCHANGED <<pc, i>>
     \/ /\ j[c] = N
        /\ j' = [j EXCEPT ![c] = 1]
        /\ NextCallOr(c, "distribute")
  /\ UNCHANGED <<signerVars, replyPoly, commitments, restarts, disturbed>>

\* The inner loop asks signer i for its share for every signer j, itself included.
Round2Replied(c) ==
  /\ Answered(c, "round2")
  /\ sharesByTarget' = [sharesByTarget EXCEPT ![c][j[c]] = @ \cup {ReplyPackage(c)}]
  /\ \/ /\ j[c] < N
        /\ j' = [j EXCEPT ![c] = @ + 1]
        /\ call' = [call EXCEPT ![c] = "round2"]
        /\ UNCHANGED <<pc, i>>
     \/ /\ j[c] = N
        /\ j' = [j EXCEPT ![c] = 1]
        /\ NextCallOr(c, "distribute")
  /\ UNCHANGED <<signerVars, replyPoly, commitments, restarts, disturbed>>

DistributeReplied(c) ==
  /\ Answered(c, "distribute")
  /\ NextCallOr(c, "complete")
  /\ UNCHANGED <<signerVars, j, replyPoly, commitments, sharesByTarget, restarts, disturbed>>

\* os.Exit(1) at the first error of getJSON or postJSON: a broken connection, or a body
\* that getJSON cannot decode.  postJSON does not look at the status, so an error of
\* /dkg/commitments or /dkg/finalize would pass for success; but bodies made by the
\* coordinator decode, and a nil participant panics before it can be answered with
\* a status.  A call that was posted may still be served.
Exit(c) ==
  /\ pc[c] \in Loops
  /\ pc' = [pc EXCEPT ![c] = "failed"]
  /\ UNCHANGED <<signerVars, i, j, call, replyPoly, commitments, sharesByTarget, restarts, disturbed>>

CeremonyFails(c) == call[c] = "broken" /\ Exit(c)

\* The network loses the connection of a call or its reply, or an operator kills
\* the process.
Interrupted(c) == NetFaults /\ Exit(c)

-----------------------------------------------------------------------------
SignerStep(c) ==
  \/ dkgRound1Handler(c) \/ dkgCommitmentsHandler(c)
  \/ dkgRound2Handler(c) \/ dkgFinalizeHandler(c)
  \/ NilParticipantPanics(c)

MainStep(c) ==
  \/ Round1Replied(c) \/ BroadcastReplied(c)
  \/ Round2Replied(c) \/ DistributeReplied(c)
  \/ CeremonyFails(c)

Next ==
  \/ \E c \in Ceremonies : Start(c) \/ SignerStep(c) \/ MainStep(c) \/ Interrupted(c)
  \/ \E s \in Signers : Restart(s)

Spec == Init /\ [][Next]_vars

\* A signer serves what was posted, and the coordinator process goes on; restarts
\* and interruptions need not happen.
FairSpec == Spec /\ \A c \in Ceremonies : WF_vars(SignerStep(c)) /\ WF_vars(MainStep(c))

-----------------------------------------------------------------------------
(* Properties.                                                             *)

\* A ceremony that reports "DKG Ceremony Complete" and during which no call of
\* another one was served is sound, whatever failed ceremonies, late calls and
\* restarts came before or between: every signer took part, all hold the same
\* group key, it sums the polynomials of THIS ceremony only, and the secret of
\* each signer holds the share of every OTHER signer exactly once.
CompleteCeremonySound ==
  \A c \in Ceremonies : pc[c] = "complete" /\ ~disturbed[c] =>
    \A s \in Signers :
      /\ keyShare[c][s] # NoResult
      /\ keyShare[c][s].VerificationKey = {<<o, c>> : o \in Signers}
      /\ \A p \in Polys : p[1] # s =>
           keyShare[c][s].Secret[p] = IF p[2] = c THEN 1 ELSE 0

\* A group key is never put together from two ceremonies, although they overlap and
\* no call says which one it is of: every VerificationKey a signer computes, and
\* every list it may compute one from, sums ALL the polynomials of ONE ceremony (or
\* nothing, after a restart).  Signers of an overlapped ceremony may end up with
\* group keys of different ceremonies, but never with one nobody ran.
GroupKeyWhole ==
  LET Whole(K) == K = {} \/ \E c \in Ceremonies : K = {<<o, c>> : o \in Signers} IN
    \A s \in Signers :
      /\ Whole(allCommitments[s])
      /\ \A c \in Ceremonies :
           keyShare[c][s] # NoResult => Whole(keyShare[c][s].VerificationKey)

\* Finalize passes over packages that are addressed to somebody else and does not
\* count the rest, so all depends on the coordinator's double loop: the packages for
\* s are addressed to s, at most one is from each signer, and when they are sent
\* none is missing, whatever restarts and overlapping ceremonies there were.
PackagesRouted ==
  \A c \in Ceremonies, s \in Signers :
    /\ \A p, q \in sharesByTarget[c][s] :
         p.ToID = s /\ (p.FromID = q.FromID => p = q)
    /\ pc[c] = "distribute" =>
         \A o \in Signers : \E p \in sharesByTarget[c][s] : p.FromID = o

\* A ceremony always ends, complete or with exit status 1: no lock is kept and no
\* call waits for ever when a participant is nil or a signer restarts.
CeremonyEnds == \A c \in Ceremonies : pc[c] = "round1" ~> pc[c] \in Ended

\* README.md:469-470: "Each signer computes shares for every other signer" and
\* "Each signer sums received shares -> final key share".  The secret of a
\* signer that took part in an undisturbed ceremony is its share of the group
\* key: the share of every polynomial of the group key, each exactly once.
KeyShareMatchesGroupKey ==
  \A c \in Ceremonies, s \in Signers :
    keyShare[c][s] # NoResult /\ ~disturbed[c] =>
      \A p \in Polys : keyShare[c][s].Secret[p] =
                         IF p \in keyShare[c][s].VerificationKey THEN 1 ELSE 0
=============================================================================
