----------------------------- MODULE GrpcProxy ------------------------------
(***************************************************************************)
(* The signing path of the gRPC proxies (cmd/grpc-proxy) against the       *)
(* signers of SignerNode.                                                  *)
(*                                                                         *)
(* A Sign call of the kube-apiserver is named by its signing input: the    *)
(* claims of two calls differ.  Calls share nothing but the signers, so    *)
(* it does not matter which of the proxies behind the load balancer serves *)
(* a call.  A call runs makeSignFn's function: it starts one goroutine per *)
(* signer that posts /commit, reads ALL results from a channel and keeps   *)
(* the first Threshold commitments, starts one goroutine per active signer *)
(* that posts /sign, reads the shares from a second channel and gives up   *)
(* at the first error, aggregates, and signs with the ECDSA key.           *)
(*                                                                         *)
(* The HTTP client has no timeout and the context of the gRPC call is not  *)
(* looked at: a goroutine waits until the signer answers or the connection *)
(* fails.  The client does not repeat a POST.                              *)
(***************************************************************************)
EXTENDS SignerNode, Sequences

CONSTANT NoReply  \* the body of a reply that is not the expected JSON

ASSUME NoReplyAssumption == NoReply \notin CommitmentIDs \cup Shares

VARIABLES
  pc,             \* pc[m]: where the function signing m is
  taken,          \* taken[m]: results read by the current receive loop (i)
  active,         \* active[m]: activeSigners, the signers whose commitment is kept
  gathered,       \* gathered[m]: the shares appended so far
  commitCall,     \* commitCall[m][s]: the goroutine that posts /commit to s
  commitResp,     \* commitResp[m][s]: the CommitmentID in the reply to it
  commitChan,     \* commitChan[m]: the results channel of collectCommitmentsParallel
  signCall,       \* signCall[m][s]: the goroutine that posts /sign to s
  signResp,       \* signResp[m][s]: the share in the reply to it
  signChan        \* signChan[m]: the results channel of collectSharesParallel

commitVars == <<commitCall, commitResp, commitChan>>
signVars == <<signCall, signResp, signChan>>
proxyVars == <<pc, taken, active, gathered, commitVars, signVars>>
vars == <<signerVars, proxyVars>>

\* The end states: the token was returned, an error was returned, the proxy died.
Returned == {"done", "error", "dead"}

PCs == {"idle", "commit", "share", "aggregate"} \cup Returned

\* A goroutine is not started, waits for the reply, has the reply, or has sent
\* its result into the channel and ended.
CallStates == {"none", "posted", "answered", "sent"}

Results == [addr : Signers, err : BOOLEAN]

TypeOK ==
  /\ SignerTypeOK
  /\ pc \in [Messages -> PCs]
  /\ taken \in [Messages -> Nat]
  /\ active \in [Messages -> SUBSET Signers]
  /\ gathered \in [Messages -> SUBSET Shares]
  /\ commitCall \in [Messages -> [Signers -> CallStates]]
  /\ commitResp \in [Messages -> [Signers -> CommitmentIDs \cup {NoReply}]]
  /\ commitChan \in [Messages -> Seq(Results)]
  /\ signCall \in [Messages -> [Signers -> CallStates]]
  /\ signResp \in [Messages -> [Signers -> Shares \cup {NoReply}]]
  /\ signChan \in [Messages -> Seq(Results)]

Init ==
  /\ SignerInit
  /\ pc = [m \in Messages |-> "idle"]
  /\ taken = [m \in Messages |-> 0]
  /\ active = [m \in Messages |-> {}]
  /\ gathered = [m \in Messages |-> {}]
  /\ commitCall = [m \in Messages |-> [s \in Signers |-> "none"]]
  /\ commitResp = [m \in Messages |-> [s \in Signers |-> NoReply]]
  /\ commitChan = [m \in Messages |-> <<>>]
  /\ signCall = [m \in Messages |-> [s \in Signers |-> "none"]]
  /\ signResp = [m \in Messages |-> [s \in Signers |-> NoReply]]
  /\ signChan = [m \in Messages |-> <<>>]

\* The commitments the call sends to the active signers and aggregates with.
CommitmentList(m) == [s \in active[m] |-> commitResp[m][s]]

\* Mutant: room for the results that are kept only.
CommitChanCapThreshold == Threshold

\* make(chan result, n): how many results fit into the two channels.
CommitChanCap == Cardinality(Signers)
SignChanCap(m) == Cardinality(active[m])

-----------------------------------------------------------------------------
(* collectCommitmentsParallel.                                             *)

\* grpcserver.Sign calls signFn, which starts the goroutines of the first round.
Sign(m) ==
  /\ pc[m] = "idle"
  /\ pc' = [pc EXCEPT ![m] = "commit"]
  /\ commitCall' = [commitCall EXCEPT ![m] = [s \in Signers |-> "posted"]]
  /\ UNCHANGED <<signerVars, taken, active, gathered, commitResp, commitChan, signVars>>

\* Mutant: the signer hands out a live commitment again.
CommitServedReusing(m, s) ==
  /\ commitCall[m][s] = "posted"
  /\ status[s] = "up"
  /\ commitCall' = [commitCall EXCEPT ![m][s] = "answered"]
  /\ \E id \in CommitmentIDs :
       /\ IF nonces[s] = {} THEN commitHandler(s, id)
                            ELSE id \in nonces[s] /\ UNCHANGED signerVars
       /\ commitResp' = [commitResp EXCEPT ![m][s] = id]
  /\ UNCHANGED <<pc, taken, active, gathered, commitChan, signVars>>

\* Signer s serves the /commit posted for m.
CommitServed(m, s) ==
  /\ commitCall[m][s] = "posted"
  /\ commitCall' = [commitCall EXCEPT ![m][s] = "answered"]
  /\ \E id \in CommitmentIDs :
       /\ commitHandler(s, id)
       /\ commitResp' = [commitResp EXCEPT ![m][s] = id]
  /\ UNCHANGED <<pc, taken, active, gathered, commitChan, signVars>>

\* The goroutine sends its result; it would block on a full channel.
SendCommitResult(m, s, err) ==
  /\ pc[m] # "dead"
  /\ Len(commitChan[m]) < CommitChanCap
  /\ commitChan' = [commitChan EXCEPT ![m] = Append(@, [addr |-> s, err |-> err])]
  /\ commitCall' = [commitCall EXCEPT ![m][s] = "sent"]
  /\ UNCHANGED <<signerVars, pc, taken, active, gathered, commitResp, signVars>>

CommitReplied(m, s) ==
  /\ commitCall[m][s] = "answered"
  /\ SendCommitResult(m, s, FALSE)

\* Mutant: the goroutine returns without sending its error.
CommitFailedSilently(m, s) ==
  /\ commitCall[m][s] \in {"posted", "answered"}
  /\ pc[m] # "dead"
  /\ commitCall' = [commitCall EXCEPT ![m][s] = "sent"]
  /\ UNCHANGED <<signerVars, pc, taken, active, gathered, commitResp, commitChan, signVars>>

\* httpClient.Post or the decoder returns an error: see CommitStep and NetFault.
CommitFailed(m, s) ==
  /\ commitCall[m][s] \in {"posted", "answered"}
  /\ SendCommitResult(m, s, TRUE)

\* Mutant: every commitment is kept.
RecvCommitmentKeepsAll(m) ==
  /\ pc[m] = "commit"
  /\ commitChan[m] # <<>>
  /\ LET r == Head(commitChan[m]) IN
       active' = [active EXCEPT ![m] = IF r.err THEN @ ELSE @ \cup {r.addr}]
  /\ commitChan' = [commitChan EXCEPT ![m] = Tail(@)]
  /\ taken' = [taken EXCEPT ![m] = @ + 1]
  /\ UNCHANGED <<signerVars, pc, gathered, commitCall, commitResp, signVars>>

\* One turn of the receive loop: keep the commitment while fewer than Threshold
\* are kept.
RecvCommitment(m) ==
  /\ pc[m] = "commit"
  /\ commitChan[m] # <<>>
  /\ LET r == Head(commitChan[m]) IN
       active' = [active EXCEPT ![m] =
                    IF ~r.err /\ Cardinality(@) < Threshold THEN @ \cup {r.addr} ELSE @]
  /\ commitChan' = [commitChan EXCEPT ![m] = Tail(@)]
  /\ taken' = [taken EXCEPT ![m] = @ + 1]
  /\ UNCHANGED <<signerVars, pc, gathered, commitCall, commitResp, signVars>>

\* Mutant: exactly Threshold commitments are not enough.
CommitmentsCollectedStrict(m) ==
  /\ pc[m] = "commit"
  /\ taken[m] = Cardinality(Signers)
  /\ Cardinality(active[m]) <= Threshold
  /\ pc' = [pc EXCEPT ![m] = "error"]
  /\ taken' = [taken EXCEPT ![m] = 0]
  /\ UNCHANGED <<signerVars, active, gathered, commitVars, signVars>>

\* After a result of every signer: "not enough signers", or start the second
\* round.
CommitmentsCollected(m) ==
  /\ pc[m] = "commit"
  /\ taken[m] = Cardinality(Signers)
  /\ IF Cardinality(active[m]) < Threshold
       THEN /\ pc' = [pc EXCEPT ![m] = "error"]
            /\ UNCHANGED signCall
       ELSE /\ pc' = [pc EXCEPT ![m] = "share"]
            /\ signCall' = [signCall EXCEPT ![m] =
                              [s \in Signers |-> IF s \in active[m] THEN "posted" ELSE "none"]]
  /\ taken' = [taken EXCEPT ![m] = 0]
  /\ UNCHANGED <<signerVars, active, gathered, commitVars, signResp, signChan>>

-----------------------------------------------------------------------------
(* collectSharesParallel.                                                  *)

\* Signer s serves the /sign posted for m, with a share or with an error text.
SignServed(m, s) ==
  /\ signCall[m][s] = "posted"
  /\ signCall' = [signCall EXCEPT ![m][s] = "answered"]
  /\ \/ /\ signHandlerOK(s, m, CommitmentList(m))
        /\ signResp' = [signResp EXCEPT ![m][s] = SignatureShare(s, m, CommitmentList(m))]
     \/ /\ signHandlerError(s, m, CommitmentList(m))
        /\ UNCHANGED signResp
  /\ UNCHANGED <<pc, taken, active, gathered, commitVars, signChan>>

\* Mutant: an unbuffered channel, so that a send needs the receive loop.
SendSignResultUnbuffered(m, s, err) ==
  /\ pc[m] = "share"
  /\ signChan[m] = <<>>
  /\ signChan' = [signChan EXCEPT ![m] = Append(@, [addr |-> s, err |-> err])]
  /\ signCall' = [signCall EXCEPT ![m][s] = "sent"]
  /\ UNCHANGED <<signerVars, pc, taken, active, gathered, commitVars, signResp>>

SendSignResult(m, s, err) ==
  /\ pc[m] # "dead"
  /\ Len(signChan[m]) < SignChanCap(m)
  /\ signChan' = [signChan EXCEPT ![m] = Append(@, [addr |-> s, err |-> err])]
  /\ signCall' = [signCall EXCEPT ![m][s] = "sent"]
  /\ UNCHANGED <<signerVars, pc, taken, active, gathered, commitVars, signResp>>

\* The HTTP status is not looked at: json.Unmarshal fails on an error text.
SignReplied(m, s) ==
  /\ signCall[m][s] = "answered"
  /\ SendSignResult(m, s, signResp[m][s] = NoReply)

SignFailed(m, s) ==
  /\ signCall[m][s] \in {"posted", "answered"}
  /\ SendSignResult(m, s, TRUE)

\* Mutant: the error of a result is not looked at.
RecvShareIgnoresError(m) ==
  /\ pc[m] = "share"
  /\ signChan[m] # <<>>
  /\ gathered' = [gathered EXCEPT ![m] = @ \cup {signResp[m][Head(signChan[m]).addr]}]
  /\ signChan' = [signChan EXCEPT ![m] = Tail(@)]
  /\ taken' = [taken EXCEPT ![m] = @ + 1]
  /\ UNCHANGED <<signerVars, pc, active, commitVars, signCall, signResp>>

\* Mutant: on an error the token is made with the ECDSA key alone.
RecvShareFallsBack(m) ==
  /\ pc[m] = "share"
  /\ signChan[m] # <<>>
  /\ LET r == Head(signChan[m]) IN
       IF r.err
         THEN /\ pc' = [pc EXCEPT ![m] = "done"]
              /\ UNCHANGED gathered
         ELSE /\ gathered' = [gathered EXCEPT ![m] = @ \cup {signResp[m][r.addr]}]
              /\ UNCHANGED pc
  /\ signChan' = [signChan EXCEPT ![m] = Tail(@)]
  /\ taken' = [taken EXCEPT ![m] = @ + 1]
  /\ UNCHANGED <<signerVars, active, commitVars, signCall, signResp>>

\* One turn of the receive loop: the first error is returned at once, and leaves
\* the other goroutines and their results behind.
RecvShare(m) ==
  /\ pc[m] = "share"
  /\ signChan[m] # <<>>
  /\ LET r == Head(signChan[m]) IN
       IF r.err
         THEN /\ pc' = [pc EXCEPT ![m] = "error"]
              /\ UNCHANGED gathered
         ELSE /\ gathered' = [gathered EXCEPT ![m] = @ \cup {signResp[m][r.addr]}]
              /\ UNCHANGED pc
  /\ signChan' = [signChan EXCEPT ![m] = Tail(@)]
  /\ taken' = [taken EXCEPT ![m] = @ + 1]
  /\ UNCHANGED <<signerVars, active, commitVars, signCall, signResp>>

\* Mutant: off by one.
SharesCollectedOffByOne(m) ==
  /\ pc[m] = "share"
  /\ taken[m] = Cardinality(active[m]) - 1
  /\ pc' = [pc EXCEPT ![m] = "aggregate"]
  /\ UNCHANGED <<signerVars, taken, active, gathered, commitVars, signVars>>

SharesCollected(m) ==
  /\ pc[m] = "share"
  /\ taken[m] = Cardinality(active[m])
  /\ pc' = [pc EXCEPT ![m] = "aggregate"]
  /\ UNCHANGED <<signerVars, taken, active, gathered, commitVars, signVars>>

-----------------------------------------------------------------------------
(* The rest of makeSignFn, and the process of the proxy.                   *)

\* aggregateSignature; when it verifies, SignES256 makes the token's signature.
Aggregate(m) ==
  /\ pc[m] = "aggregate"
  /\ pc' = [pc EXCEPT ![m] = IF AggregateSignatures(m, gathered[m], CommitmentList(m))
                               THEN "done" ELSE "error"]
  /\ UNCHANGED <<signerVars, taken, active, gathered, commitVars, signVars>>

\* The proxy process dies: nobody waits for the replies any more, but what was
\* posted may still be served.
ProxyDies(m) ==
  /\ "proxy" \in Faults
  /\ pc[m] \notin {"idle"} \cup Returned
  /\ pc' = [pc EXCEPT ![m] = "dead"]
  /\ UNCHANGED <<signerVars, taken, active, gathered, commitVars, signVars>>

\* Steps of the goroutine that posts /commit (/sign) to s for m.  A connection to
\* a process that is down is refused or reset.
CommitStep(m, s) ==
  \/ CommitServed(m, s)
  \/ CommitReplied(m, s)
  \/ status[s] = "down" /\ CommitFailed(m, s)

SignStep(m, s) ==
  \/ SignServed(m, s)
  \/ SignReplied(m, s)
  \/ status[s] = "down" /\ SignFailed(m, s)

\* The network loses the connection, before or after the signer served the call.
NetFault(m, s) ==
  /\ "net" \in Faults
  /\ CommitFailed(m, s) \/ SignFailed(m, s)

\* Steps of the goroutine that runs the gRPC handler for m.
MainStep(m) ==
  \/ RecvCommitment(m)
  \/ CommitmentsCollected(m)
  \/ RecvShare(m)
  \/ SharesCollected(m)
  \/ Aggregate(m)

Fault(s) == SignerFault(s) /\ UNCHANGED proxyVars

Next ==
  \/ \E m \in Messages : Sign(m) \/ MainStep(m) \/ ProxyDies(m)
  \/ \E m \in Messages, s \in Signers : CommitStep(m, s) \/ SignStep(m, s) \/ NetFault(m, s)
  \/ \E s \in Signers : Fault(s)

Spec == Init /\ [][Next]_vars

\* The Go scheduler runs every goroutine that can run; a signer that is up serves
\* what was posted to it, and a connection to a dead process fails.  Calls of the
\* apiserver, lost connections, crashes, restarts, hangs and resumes are not fair:
\* they may never happen.
Fairness ==
  /\ \A m \in Messages : WF_vars(MainStep(m))
  /\ \A m \in Messages, s \in Signers : WF_vars(CommitStep(m, s)) /\ WF_vars(SignStep(m, s))

FairSpec == Spec /\ Fairness

-----------------------------------------------------------------------------
(* Safety.                                                                 *)

\* A token is only returned when at least Threshold different signers each
\* computed a share over its signing input ("t-of-n signers genuinely
\* collaborated", main.go:195).
TokenBacked ==
  \A m \in Messages : pc[m] = "done" =>
    \E Q \in SUBSET Signers :
      /\ Cardinality(Q) >= Threshold
      /\ \A s \in Q : \E sh \in shares : sh.signer = s /\ sh.msg = m

\* The error "frost aggregate" does not happen: whatever crashes, restarts, lost
\* replies and concurrent calls came before, once collectSharesParallel returns
\* shares they aggregate to a valid signature with the kept commitments.
AggregationSucceeds ==
  \A m \in Messages : pc[m] = "aggregate" =>
    AggregateSignatures(m, gathered[m], CommitmentList(m))

\* Concurrent calls do not share nonces: all shares over one signing input are
\* over one commitment list, and no commitment is in the lists of two inputs.
SessionsIsolated ==
  \A a, b \in shares :
    /\ a.msg = b.msg => a.list = b.list
    /\ a.msg # b.msg =>
         \A s \in DOMAIN a.list \cap DOMAIN b.list : a.list[s] # b.list[s]

\* "no goroutine ever blocks on send" (main.go:64, main.go:117): a goroutine that
\* has not sent its result finds room in its channel, also after the receive
\* loop of the second round gave up.
SendNeverBlocks ==
  \A m \in Messages, s \in Signers :
    /\ commitCall[m][s] \in {"posted", "answered"} => Len(commitChan[m]) < CommitChanCap
    /\ signCall[m][s] \in {"posted", "answered"} => Len(signChan[m]) < SignChanCap(m)

\* Every token strands memory: when all calls are done and nothing failed, the
\* signers together still hold one live nonce for each commitment that was
\* collected but not among the first Threshold ("extras discarded", main.go:94),
\* and froststate.Commitments one entry for every commitment, used or not.
\* No handler ever drops them.
StrandedNonces ==
  ( /\ \A m \in Messages : pc[m] = "done"
    /\ \A s \in Signers : status[s] = "up" )
  => /\ Cardinality({p \in Signers \X CommitmentIDs : p[2] \in nonces[p[1]]})
          = Cardinality(Messages) * (Cardinality(Signers) - Threshold)
     /\ Cardinality({p \in Signers \X CommitmentIDs : p[2] \in Commitments[p[1]]})
          = Cardinality(Messages) * Cardinality(Signers)

-----------------------------------------------------------------------------
(* The abstract specification.                                             *)

Outcome(m) ==
  IF pc[m] = "done" THEN "issued"
  ELSE IF pc[m] \in Returned THEN "rejected" ELSE "pending"

Contributed(m) == {s \in Signers : \E sh \in shares : sh.signer = s /\ sh.msg = m}

Oracle == INSTANCE ThresholdOracle WITH
  outcome <- [m \in Messages |-> Outcome(m)],
  contributed <- [m \in Messages |-> Contributed(m)],
  spent <- {<<sh.signer, sh.id>> : sh \in shares}

\* The proxies and the signers together implement the oracle: never more than
\* Threshold signers reveal a share over one signing input, each share spends a
\* fresh nonce, a token is returned exactly when Threshold signers contributed,
\* and nothing is signed for a call after its token was returned.
ImplementsOracle == Oracle!OracleSpec

-----------------------------------------------------------------------------
(* Liveness, for FairSpec.                                                 *)

NoneHangs(S) == \A s \in S : status[s] # "hung"

\* Every Sign call returns, across crashes and restarts of signers and failing
\* connections, unless a signer hangs for good; a hang that is over, in either round,
\* only delays it.  The second round waits for nobody but the signers of the list.
CallReturns ==
  \A m \in Messages :
    /\ <>[]NoneHangs(Signers) => (pc[m] = "commit" ~> pc[m] \in Returned)
    /\ <>[]NoneHangs(active[m]) => (pc[m] = "share" ~> pc[m] \in Returned)

\* Every goroutine a call started ends, those that collectSharesParallel leaves
\* behind at its early return included; only the death of the proxy or a hang for
\* good of the one signer it called stops it.
GoroutinesEnd ==
  \A m \in Messages, s \in Signers :
    <>[]NoneHangs({s}) =>
      /\ commitCall[m][s] = "posted" ~> (commitCall[m][s] = "sent" \/ pc[m] = "dead")
      /\ signCall[m][s] = "posted" ~> (signCall[m][s] = "sent" \/ pc[m] = "dead")

Up == {s \in Signers : status[s] = "up"}

\* With signers that stay as they are, Threshold of them up are enough for every
\* call to get its token, and with fewer every call fails (README.md:512-513:
\* "2 of 5 signers killed | Signing continues", "3 of 5 signers killed |
\* Explicit error").
QuorumDecides ==
  \A m \in Messages :
    /\ (pc[m] = "commit" /\ Cardinality(Up) >= Threshold) ~> pc[m] = "done"
    /\ (pc[m] = "commit" /\ Cardinality(Up) < Threshold) ~> pc[m] = "error"

-----------------------------------------------------------------------------
(* What the documentation says and the code does not do.                   *)

\* README.md:151, "accepts first 3 responses": once Threshold commitments are
\* kept, the first round ends.
FirstThresholdSuffices ==
  \A m \in Messages :
    (pc[m] = "commit" /\ Cardinality(active[m]) = Threshold) ~> pc[m] # "commit"
=============================================================================
