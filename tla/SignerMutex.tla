---------------------------- MODULE SignerMutex -----------------------------
(***************************************************************************)
(* The /commit and /sign handlers of cmd/signer with their steps apart:    *)
(* net/http runs every request in a goroutine of its own, the handlers     *)
(* take froststate.Mu, and signHandler reads the request body AFTER it     *)
(* took it.  SignerNode takes each handler as one step; this module shows  *)
(* that Mu makes them so (ImplementsSignerNode), and what the lock costs   *)
(* when a client is slow.                                                  *)
(*                                                                         *)
(* The library's Signer is not safe for concurrent use: Commit files a     *)
(* nonce, which the handler then records, and Sign looks its nonce up,     *)
(* computes, and clears it.  Between the two halves a request is "half".   *)
(* The history variables drawn and shares change with the second half,     *)
(* when what was drawn or computed can be told to a client.                *)
(*                                                                         *)
(* A response is smaller than net/http's buffers and is written to the     *)
(* client after the handler returned, so it never blocks the handler.      *)
(***************************************************************************)
EXTENDS SignerNode

CONSTANTS
  NumRequests,    \* bound on the number of requests clients make
  Free,           \* the value of an unlocked mutex
  NoCall          \* what a request that was not made asks for

\* Requests are numbered in the order in which they arrive.
Requests == 1..NumRequests

ASSUME RequestsAssumption == NumRequests \in Nat /\ Free \notin Requests

VARIABLES
  Mu,             \* Mu[s]: the request whose handler holds froststate.Mu of s, or Free
  pc,             \* pc[r]: where the handler of r is
  call,           \* call[r]: the handler, the signer and the arguments of r
  body,           \* body[r]: whether the request body is still to come, is whole, or broken
  pending,        \* pending[r]: ids filed by the first half of commitHandler, not yet recorded
  answers         \* history: answers[s][id]: requests answered with a share from nonce id of s

mutexVars == <<Mu, pc, call, body, pending, answers>>
vars == <<signerVars, mutexVars>>

Calls ==
  [op : {"commit"}, signer : Signers]
    \cup [op : {"sign"}, signer : Signers, msg : Messages, list : CommitmentLists]

Running == {"lock", "locked", "half"}

\* A locked mutex is held by a handler of this signer that has not returned.
TypeOK ==
  /\ SignerTypeOK
  /\ Mu \in [Signers -> Requests \cup {Free}]
  /\ pc \in [Requests -> {"idle", "done"} \cup Running]
  /\ call \in [Requests -> Calls \cup {NoCall}]
  /\ body \in [Requests -> {"coming", "whole", "broken"}]
  /\ pending \in [Requests -> SUBSET CommitmentIDs]
  /\ answers \in [Signers -> [CommitmentIDs -> Nat]]
  /\ \A s \in Signers : Mu[s] # Free =>
       pc[Mu[s]] \in {"locked", "half"} /\ call[Mu[s]].signer = s

Init ==
  /\ SignerInit
  /\ Mu = [s \in Signers |-> Free]
  /\ pc = [r \in Requests |-> "idle"]
  /\ call = [r \in Requests |-> NoCall]
  /\ body = [r \in Requests |-> "coming"]
  /\ pending = [r \in Requests |-> {}]
  /\ answers = [s \in Signers |-> [id \in CommitmentIDs |-> 0]]

-----------------------------------------------------------------------------
(* The client.                                                             *)

\* A request line and headers reach a signer that is up: its goroutine starts.
\* (Bound: no more /commit requests than there are ids to draw.)
Arrive(r, c) ==
  /\ pc[r] = "idle"
  /\ \A q \in 1..(r - 1) : pc[q] # "idle"
  /\ c.op = "commit" =>
       Cardinality(drawn[c.signer])
         + Cardinality({q \in Requests : pc[q] \in Running /\ call[q] = c})
         < Cardinality(CommitmentIDs)
  /\ status[c.signer] = "up"
  /\ call' = [call EXCEPT ![r] = c]
  /\ pc' = [pc EXCEPT ![r] = "lock"]
  /\ UNCHANGED <<signerVars, Mu, body, pending, answers>>

\* The rest of the body arrives, and decodes or not; or the client gives up and
\* closes the connection, which a read of the body sees as an error.  /commit has
\* no body.
BodyEnds(r) ==
  /\ pc[r] \in Running
  /\ call[r].op = "sign"
  /\ body[r] = "coming"
  /\ \E b \in {"whole", "broken"} : body' = [body EXCEPT ![r] = b]
  /\ UNCHANGED <<signerVars, Mu, pc, call, pending, answers>>

-----------------------------------------------------------------------------
(* The handlers.  A signer that hangs takes no step.                       *)

\* The handler of r is at the given place and its process runs.
At(r, place, op) ==
  /\ pc[r] = place
  /\ call[r].op = op
  /\ status[call[r].signer] = "up"

\* Mutant: the handlers do not lock.
LockNothing(r) ==
  /\ pc[r] = "lock"
  /\ status[call[r].signer] = "up"
  /\ pc' = [pc EXCEPT ![r] = "locked"]
  /\ UNCHANGED <<signerVars, Mu, call, body, pending, answers>>

\* froststate.Mu.Lock(), the first line of both handlers.
Lock(r) ==
  /\ pc[r] = "lock"
  /\ LET s == call[r].signer IN
       /\ status[s] = "up"
       /\ Mu[s] = Free
       /\ Mu' = [Mu EXCEPT ![s] = r]
  /\ pc' = [pc EXCEPT ![r] = "locked"]
  /\ UNCHANGED <<signerVars, call, body, pending, answers>>

\* The request is over, and its arguments are gone.
Over(lost) ==
  /\ pc' = [r \in Requests |-> IF r \in lost THEN "done" ELSE pc[r]]
  /\ call' = [r \in Requests |-> IF r \in lost THEN NoCall ELSE call[r]]
  /\ body' = [r \in Requests |-> IF r \in lost THEN "coming" ELSE body[r]]
  /\ pending' = [r \in Requests |-> IF r \in lost THEN {} ELSE pending[r]]

\* The handler of r returns: the deferred Unlock, then the answer to the client.
Return(r) ==
  /\ Mu' = [Mu EXCEPT ![call[r].signer] = Free]
  /\ Over({r})

\* froststate.Signer.Commit() files a nonce under a fresh id ...
commitFirstHalf(r, id) ==
  /\ At(r, "locked", "commit")
  /\ LET s == call[r].signer IN
       /\ id \notin drawn[s] \cup nonces[s]
       /\ nonces' = [nonces EXCEPT ![s] = @ \cup {id}]
  /\ pending' = [pending EXCEPT ![r] = {id}]
  /\ pc' = [pc EXCEPT ![r] = "half"]
  /\ UNCHANGED <<status, Commitments, drawn, shares, crashes, Mu, call, body, answers>>

\* ... and the handler records it and answers with it.
commitSecondHalf(r) ==
  /\ At(r, "half", "commit")
  /\ LET s == call[r].signer IN
       /\ Commitments' = [Commitments EXCEPT ![s] = @ \cup pending[r]]
       /\ drawn' = [drawn EXCEPT ![s] = @ \cup pending[r]]
  /\ Return(r)
  /\ UNCHANGED <<status, nonces, shares, crashes, answers>>

\* Mutant: an error return without the deferred Unlock.
signBadRequestLocked(r) ==
  /\ At(r, "locked", "sign")
  /\ body[r] = "broken"
  /\ Over({r})
  /\ UNCHANGED <<signerVars, Mu, answers>>

\* The body or a commitment in it does not decode: status 400.
signBadRequest(r) ==
  /\ At(r, "locked", "sign")
  /\ body[r] = "broken"
  /\ Return(r)
  /\ UNCHANGED <<signerVars, answers>>

\* Decode returns only when the body is there; Sign finds no live nonce: 500.
signRefused(r) ==
  /\ At(r, "locked", "sign")
  /\ body[r] = "whole"
  /\ ~VerifyCommitmentList(call[r].signer, call[r].list)
  /\ Return(r)
  /\ UNCHANGED <<signerVars, answers>>

\* Sign finds the nonce of the list and computes the share ...
signFirstHalf(r) ==
  /\ At(r, "locked", "sign")
  /\ body[r] = "whole"
  /\ VerifyCommitmentList(call[r].signer, call[r].list)
  /\ pc' = [pc EXCEPT ![r] = "half"]
  /\ UNCHANGED <<signerVars, Mu, call, body, pending, answers>>

\* ... clears the nonce, and the handler answers with the share.
signSecondHalf(r) ==
  /\ At(r, "half", "sign")
  /\ frostSign(call[r].signer, call[r].msg, call[r].list)
  /\ answers' = [answers EXCEPT ![call[r].signer][call[r].list[call[r].signer]] = @ + 1]
  /\ Return(r)
  /\ UNCHANGED <<status, Commitments, drawn, crashes>>

HandlerStep(r) ==
  \/ \E id \in CommitmentIDs : commitFirstHalf(r, id)
  \/ commitSecondHalf(r)
  \/ signBadRequest(r) \/ signRefused(r) \/ signFirstHalf(r) \/ signSecondHalf(r)

-----------------------------------------------------------------------------
(* The process.                                                            *)

\* Its goroutines, its mutex and its connections die with the process.
ProcessCrash(s) ==
  /\ Crash(s)
  /\ Over({r \in Requests : pc[r] \in Running /\ call[r].signer = s})
  /\ Mu' = [Mu EXCEPT ![s] = Free]
  /\ UNCHANGED answers

ProcessFault(s) == (Restart(s) \/ Hang(s) \/ Resume(s)) /\ UNCHANGED mutexVars

Next ==
  \/ \E r \in Requests : \E c \in Calls : Arrive(r, c)
  \/ \E r \in Requests : BodyEnds(r) \/ Lock(r) \/ HandlerStep(r)
  \/ \E s \in Signers : ProcessCrash(s) \/ ProcessFault(s)

Spec == Init /\ [][Next]_vars

\* The Go scheduler runs every goroutine.  A goroutine that waits for a
\* sync.Mutex for a millisecond is handed it by the next Unlock, so a mutex that
\* is free again and again is acquired: strong fairness.  Nothing makes clients
\* send: the http.Server of main has no ReadTimeout.
FairSpec ==
  Spec /\ \A r \in Requests : SF_vars(Lock(r)) /\ WF_vars(HandlerStep(r))

-----------------------------------------------------------------------------
(* Properties.                                                             *)

\* The ids that half-done commitHandlers of s have filed and not recorded.
unrecorded(s) ==
  UNION {pending[r] : r \in {q \in Requests : pc[q] = "half" /\ call[q].signer = s}}

\* The nonces a client may have heard of.
recordedNonces == [s \in Signers |-> nonces[s] \ unrecorded(s)]

Atomic == INSTANCE SignerNode WITH nonces <- recordedNonces

\* commitHandler and signHandler are atomic: run in any interleaving with their
\* halves, slow clients, and crashes in between, the signers behave as SignerNode
\* says, where a handler is one step.
ImplementsSignerNode == Atomic!SignerSpec

\* At most one request is ever answered with a share made from a given nonce, the
\* same request sent twice at the same time included: signHandler looks the nonce
\* up and clears it without another handler in between.
NonceAnsweredOnce == \A s \in Signers, id \in CommitmentIDs : answers[s][id] <= 1

\* The handler that holds froststate.Mu of s waits for the rest of its body.
HeldForBody(s) ==
  \E r \in Requests :
    Mu[s] = r /\ pc[r] = "locked" /\ call[r].op = "sign" /\ body[r] = "coming"

\* Every request is answered, whichever way the handlers before it return and
\* whether the signer dies, unless one client stops for ever in the middle of the
\* body that signHandler reads under the lock.  (That one client is enough to keep
\* all others waiting: the server has no read timeout.)
RequestsAnswered ==
  \A r \in Requests :
    pc[r] \in Running ~> (pc[r] = "done" \/ [](\E s \in Signers : HeldForBody(s)))
=============================================================================
