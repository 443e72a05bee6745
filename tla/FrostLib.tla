------------------------------ MODULE FrostLib ------------------------------
(***************************************************************************)
(* The part of the github.com/bytemare/frost library that the repository   *)
(* calls: commitment lists, signature shares and aggregation.  The library *)
(* is not under src/; it is modelled from how cmd/signer, cmd/grpc-proxy   *)
(* and cmd/coordinator use it, with ideal cryptography:                    *)
(*                                                                         *)
(*  - a nonce pair and its commitment are named by the pair of the signer  *)
(*    and the CommitmentID, a random 64-bit number that never repeats at   *)
(*    a signer;                                                            *)
(*  - a commitment list is a function from the signers that take part to   *)
(*    the CommitmentID of each one.  The callers sort every list before    *)
(*    they use it (CommitmentList.Sort), so its order carries nothing;     *)
(*  - a signature share is determined by the signer, the nonce, the        *)
(*    message and the commitment list it was computed for, and verifies    *)
(*    against exactly these.                                               *)
(***************************************************************************)
EXTENDS Naturals, FiniteSets

CONSTANTS
  Signers,        \* the signer services (SignerPublicKeyShares); MaxSigners of them
  Threshold,      \* Configuration.Threshold, and the proxy's const threshold
  Messages,       \* signing inputs
  CommitmentIDs   \* the values CommitmentID can take

ASSUME SignersAssumption ==
  /\ IsFiniteSet(Signers)
  /\ Threshold \in Nat \ {0}
  /\ Threshold <= Cardinality(Signers)

CommitmentLists == UNION {[Q -> CommitmentIDs] : Q \in SUBSET Signers}

\* What Signer.Sign computes for signer s.
SignatureShare(s, msg, list) ==
  [signer |-> s, id |-> list[s], msg |-> msg, list |-> list]

Shares ==
  [signer : Signers, id : CommitmentIDs, msg : Messages, list : CommitmentLists]

\* Configuration.ValidateCommitmentList: enough commitments, each one of a
\* signer of the configuration.
ValidCommitmentList(list) ==
  /\ DOMAIN list \subseteq Signers
  /\ Cardinality(DOMAIN list) >= Threshold

\* Configuration.AggregateSignatures(msg, shs, list, verify = true) returns a
\* signature, and not an error: the sum of the shares is a signature under the
\* group key iff they are one verifying share of each signer of the list.
AggregateSignatures(msg, shs, list) ==
  /\ ValidCommitmentList(list)
  /\ shs = {SignatureShare(s, msg, list) : s \in DOMAIN list}
=============================================================================
