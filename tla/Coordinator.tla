---------------------------- MODULE Coordinator -----------------------------
(***************************************************************************)
(* The HTTP coordinator (cmd/coordinator) against the signers of           *)
(* SignerNode.                                                             *)
(*                                                                         *)
(* Its five endpoints run the same two loops over the fixed list           *)
(* signerPorts, one port after the other: post /commit to every port, post *)
(* /sign with all commitments to every port, aggregate.  The first failure *)
(* ends the request with status 500: unlike the gRPC proxy there is no     *)
(* selection of the signers that answered, every port is needed.           *)
(*                                                                         *)
(* Requests are served concurrently and share only the signers.  Two       *)
(* requests may ask for a signature over the same message.  A request that *)
(* the coordinator gave up (its connection or its process died) and that   *)
(* the signer serves later is the same as one it served just before.       *)
(***************************************************************************)
EXTENDS SignerNode, Sequences

CONSTANTS
  Requests,       \* the requests clients make
  Ports,          \* signerPorts: the signers behind the configured ports
  Claims,         \* the claims a client may ask a token for
  DefaultClaims,  \* the claims of /threshold-jwt when the client sends none
  Hello,          \* the fixed message of /collect-signatures and /threshold-sign
  NoBody,         \* a request body that is no JSON object with claims in it
  NoReply         \* a reply that is not the expected JSON

ASSUME CoordinatorAssumption ==
  /\ Ports \in Seq(Signers) /\ Len(Ports) > 0
  /\ \A i, j \in 1..Len(Ports) : Ports[i] = Ports[j] => i = j
  /\ Claims \cup {DefaultClaims, Hello} = Messages
  /\ NoBody \notin Messages
  /\ NoReply \notin CommitmentIDs \cup Shares \cup Messages

VARIABLES
  endpoint,       \* endpoint[r]: the endpoint that serves r
  message,        \* message[r]: what r wants signed
  pc,             \* pc[r]: where the handler of r is
  next,           \* next[r]: index into Ports of the loop r is in
  call,           \* call[r]: the current post waits, or has the reply
  reply,          \* reply[r]: the reply to the current post
  commitments,    \* commitments[r]: the commitments collected, by signer
  signatures      \* signatures[r]: the signature shares collected

coordVars == <<endpoint, message, pc, next, call, reply, commitments, signatures>>
vars == <<signerVars, coordVars>>

Endpoints == {"collect-commitment", "collect-signatures", "threshold-sign",
              "threshold-jwt", "sign-jwt"}

\* The end states: status 200, status 400, status 500, the process died.
Returned == {"ok", "badRequest", "error", "dead"}

TypeOK ==
  /\ SignerTypeOK
  /\ endpoint \in [Requests -> Endpoints]
  /\ message \in [Requests -> Messages]
  /\ pc \in [Requests -> {"idle", "commit", "share", "aggregate"} \cup Returned]
  /\ next \in [Requests -> 1..Len(Ports)]
  /\ call \in [Requests -> {"posted", "answered"}]
  /\ reply \in [Requests -> CommitmentIDs \cup Shares \cup {NoReply}]
  /\ commitments \in [Requests -> CommitmentLists]
  /\ signatures \in [Requests -> SUBSET Shares]

Init ==
  /\ SignerInit
  /\ endpoint = [r \in Requests |-> "collect-commitment"]
  /\ message = [r \in Requests |-> Hello]
  /\ pc = [r \in Requests |-> "idle"]
  /\ next = [r \in Requests |-> 1]
  /\ call = [r \in Requests |-> "posted"]
  /\ reply = [r \in Requests |-> NoReply]
  /\ commitments = [r \in Requests |-> <<>>]
  /\ signatures = [r \in Requests |-> {}]

\* The signer the request is talking to.
Port(r) == Ports[next[r]]

-----------------------------------------------------------------------------
(* The handlers of the endpoints, up to their call of collectCommitments.  *)

Begin(r, e, msg) ==
  /\ pc[r] = "idle"
  /\ endpoint' = [endpoint EXCEPT ![r] = e]
  /\ message' = [message EXCEPT ![r] = msg]
  /\ pc' = [pc EXCEPT ![r] = "commit"]
  /\ UNCHANGED <<signerVars, next, call, reply, commitments, signatures>>

\* These three never look at the body.
collectCommitmentHandler(r) == Begin(r, "collect-commitment", Hello)
collectSignaturesHandler(r) == Begin(r, "collect-signatures", Hello)
thresholdSignHandler(r) == Begin(r, "threshold-sign", Hello)

\* A body without claims is not an error here: the default claims are signed.
thresholdJWTHandler(r, body) ==
  Begin(r, "threshold-jwt", IF body = NoBody THEN DefaultClaims ELSE body)

\* "claims are required".
signJWTHandlerRejects(r) ==
  /\ pc[r] = "idle"
  /\ endpoint' = [endpoint EXCEPT ![r] = "sign-jwt"]
  /\ pc' = [pc EXCEPT ![r] = "badRequest"]
  /\ UNCHANGED <<signerVars, message, next, call, reply, commitments, signatures>>

signJWTHandler(r, body) ==
  \/ body = NoBody /\ signJWTHandlerRejects(r)
  \/ body # NoBody /\ Begin(r, "sign-jwt", body)

-----------------------------------------------------------------------------
(* collectCommitments.                                                     *)

\* Mutant: the signer hands out a live commitment again.
CommitServedReusing(r) ==
  /\ pc[r] = "commit" /\ call[r] = "posted"
  /\ status[Port(r)] = "up"
  /\ \E id \in CommitmentIDs :
       /\ IF nonces[Port(r)] = {} THEN commitHandler(Port(r), id)
                                  ELSE id \in nonces[Port(r)] /\ UNCHANGED signerVars
       /\ reply' = [reply EXCEPT ![r] = id]
  /\ call' = [call EXCEPT ![r] = "answered"]
  /\ UNCHANGED <<endpoint, message, pc, next, commitments, signatures>>

\* The signer serves /commit.
CommitServed(r) ==
  /\ pc[r] = "commit" /\ call[r] = "posted"
  /\ \E id \in CommitmentIDs :
       /\ commitHandler(Port(r), id)
       /\ reply' = [reply EXCEPT ![r] = id]
  /\ call' = [call EXCEPT ![r] = "answered"]
  /\ UNCHANGED <<endpoint, message, pc, next, commitments, signatures>>

\* The loop goes to the next port, or the request to its second part;
\* /collect-commitment has none and returns the commitments.
CommitReplied(r) ==
  /\ pc[r] = "commit" /\ call[r] = "answered"
  /\ commitments' = [commitments EXCEPT ![r] =
                       [s \in DOMAIN @ \cup {Port(r)} |->
                          IF s = Port(r) THEN reply[r] ELSE @[s]]]
  /\ IF next[r] < Len(Ports)
       THEN /\ next' = [next EXCEPT ![r] = @ + 1]
            /\ UNCHANGED pc
       ELSE /\ next' = [next EXCEPT ![r] = 1]
            /\ pc' = [pc EXCEPT ![r] = IF endpoint[r] = "collect-commitment"
                                         THEN "ok" ELSE "share"]
  /\ call' = [call EXCEPT ![r] = "posted"]
  /\ reply' = [reply EXCEPT ![r] = NoReply]
  /\ UNCHANGED <<signerVars, endpoint, message, signatures>>

-----------------------------------------------------------------------------
(* collectSignaturesWithCommitments.                                       *)

\* The signer serves /sign, with a share or with an error text.
SignServed(r) ==
  /\ pc[r] = "share" /\ call[r] = "posted"
  /\ LET s == Port(r) IN
       \/ /\ signHandlerOK(s, message[r], commitments[r])
          /\ reply' = [reply EXCEPT ![r] = SignatureShare(s, message[r], commitments[r])]
       \/ /\ signHandlerError(s, message[r], commitments[r])
          /\ UNCHANGED reply
  /\ call' = [call EXCEPT ![r] = "answered"]
  /\ UNCHANGED <<endpoint, message, pc, next, commitments, signatures>>

\* Mutant: the decoding error is not looked at.
SignRepliedIgnoresError(r) ==
  /\ pc[r] = "share" /\ call[r] = "answered"
  /\ signatures' = [signatures EXCEPT ![r] = @ \cup {reply[r]}]
  /\ IF next[r] < Len(Ports)
       THEN /\ next' = [next EXCEPT ![r] = @ + 1]
            /\ UNCHANGED pc
       ELSE /\ pc' = [pc EXCEPT ![r] = IF endpoint[r] = "collect-signatures"
                                         THEN "ok" ELSE "aggregate"]
            /\ UNCHANGED next
  /\ call' = [call EXCEPT ![r] = "posted"]
  /\ reply' = [reply EXCEPT ![r] = NoReply]
  /\ UNCHANGED <<signerVars, endpoint, message, commitments>>

\* Mutant: /sign is posted again until the signer returns a share.
SignRepliedRetries(r) ==
  /\ pc[r] = "share" /\ call[r] = "answered"
  /\ reply[r] = NoReply
  /\ call' = [call EXCEPT ![r] = "posted"]
  /\ UNCHANGED <<signerVars, endpoint, message, pc, next, reply, commitments, signatures>>

\* The status is not looked at: decoding fails on the error text.  After the last
\* port, /collect-signatures returns the shares as they are.
SignReplied(r) ==
  /\ pc[r] = "share" /\ call[r] = "answered"
  /\ IF reply[r] = NoReply
       THEN /\ pc' = [pc EXCEPT ![r] = "error"]
            /\ UNCHANGED <<next, signatures>>
       ELSE /\ signatures' = [signatures EXCEPT ![r] = @ \cup {reply[r]}]
            /\ IF next[r] < Len(Ports)
                 THEN /\ next' = [next EXCEPT ![r] = @ + 1]
                      /\ UNCHANGED pc
                 ELSE /\ pc' = [pc EXCEPT ![r] = IF endpoint[r] = "collect-signatures"
                                                   THEN "ok" ELSE "aggregate"]
                      /\ UNCHANGED next
  /\ call' = [call EXCEPT ![r] = "posted"]
  /\ reply' = [reply EXCEPT ![r] = NoReply]
  /\ UNCHANGED <<signerVars, endpoint, message, commitments>>

\* Mutant: the handler goes on to write its response.
PostFailsGoesOn(r) ==
  /\ pc[r] \in {"commit", "share"}
  /\ pc' = [pc EXCEPT ![r] = "ok"]
  /\ UNCHANGED <<signerVars, endpoint, message, next, call, reply, commitments, signatures>>

\* Either loop returns the error of http.Post at once: see Step and NetFault.  The
\* signer may have served the post.
PostFails(r) ==
  /\ pc[r] \in {"commit", "share"}
  /\ pc' = [pc EXCEPT ![r] = "error"]
  /\ UNCHANGED <<signerVars, endpoint, message, next, call, reply, commitments, signatures>>

\* aggregateThresholdSignature, and the response.
Aggregate(r) ==
  /\ pc[r] = "aggregate"
  /\ pc' = [pc EXCEPT ![r] =
              IF AggregateSignatures(message[r], signatures[r], commitments[r])
                THEN "ok" ELSE "error"]
  /\ UNCHANGED <<signerVars, endpoint, message, next, call, reply, commitments, signatures>>

-----------------------------------------------------------------------------
\* The process dies with all its requests, and is started again.
CoordinatorDies ==
  /\ "proxy" \in Faults
  /\ \E r \in Requests : pc[r] \notin {"idle"} \cup Returned
  /\ pc' = [r \in Requests |-> IF pc[r] \in {"idle"} \cup Returned THEN pc[r] ELSE "dead"]
  /\ UNCHANGED <<signerVars, endpoint, message, next, call, reply, commitments, signatures>>

\* A client calls an endpoint.
Arrive(r) ==
  \/ collectCommitmentHandler(r)
  \/ collectSignaturesHandler(r)
  \/ thresholdSignHandler(r)
  \/ \E body \in Claims \cup {NoBody} :
       thresholdJWTHandler(r, body) \/ signJWTHandler(r, body)

\* A step of the goroutine that serves r, or of the signer it waits for.  A
\* connection to a process that is down is refused or reset.
Step(r) ==
  \/ CommitServed(r) \/ CommitReplied(r)
  \/ SignServed(r) \/ SignReplied(r)
  \/ status[Port(r)] = "down" /\ PostFails(r)
  \/ Aggregate(r)

\* The network loses the connection.
NetFault(r) == "net" \in Faults /\ PostFails(r)

Fault(s) == SignerFault(s) /\ UNCHANGED coordVars

Next ==
  \/ \E r \in Requests : Arrive(r) \/ Step(r) \/ NetFault(r)
  \/ \E s \in Signers : Fault(s)
  \/ CoordinatorDies

Spec == Init /\ [][Next]_vars

\* A handler that has started goes on as long as it can; requests and faults need
\* not happen.
FairSpec == Spec /\ \A r \in Requests : WF_vars(Step(r))

-----------------------------------------------------------------------------
(* Properties.                                                             *)

\* A response with a final signature or a token is backed by the signer behind
\* every port: each computed a share over this request's message with this
\* request's commitments, whatever other requests for the same message, crashes
\* and restarts came between.
ResponseBacked ==
  \A r \in Requests :
    pc[r] = "ok" /\ endpoint[r] \notin {"collect-commitment", "collect-signatures"} =>
      /\ DOMAIN commitments[r] = {Ports[i] : i \in 1..Len(Ports)}
      /\ \A s \in DOMAIN commitments[r] :
           SignatureShare(s, message[r], commitments[r]) \in shares

\* Shares that were collected without an error always aggregate, so the third
\* error return of generateThresholdJWT and thresholdSignHandler is not taken.
\* (With fewer signerPorts than the threshold of the key file the first signer
\* refuses the list, so no shares are collected.)
CollectedSharesAggregate ==
  \A r \in Requests : pc[r] = "aggregate" =>
    AggregateSignatures(message[r], signatures[r], commitments[r])

\* A nonce collected for one request signs nothing else: not the message of
\* another request, not another list, also when both want the same message.
NoncesStayInRequest ==
  \A r \in Requests, sh \in shares :
    /\ sh.signer \in DOMAIN commitments[r]
    /\ commitments[r][sh.signer] = sh.id
    => sh.msg = message[r] /\ sh.list = commitments[r]

\* As long as no signer hangs, every request is answered or dies with the
\* coordinator, across crashes and restarts of signers and failing connections.
RequestReturns == \A r \in Requests : pc[r] = "commit" ~> pc[r] \in Returned
=============================================================================
