--------------------------- MODULE ThresholdOracle --------------------------
(***************************************************************************)
(* What threshold signing promises, with no word on rounds, calls, nonces  *)
(* in memory or failures.  Signers contribute to a signing input, each at  *)
(* most once, each time spending a nonce that was never spent before; at   *)
(* most Threshold of them do.  A signing input is answered with a token    *)
(* only when exactly Threshold signers have contributed, and is answered   *)
(* once.                                                                   *)
(***************************************************************************)
EXTENDS Naturals, FiniteSets

CONSTANTS Signers, Threshold, Messages, CommitmentIDs

VARIABLES
  outcome,        \* outcome[m]: what the caller that wants m signed was told
  contributed,    \* contributed[m]: the signers that computed a share for m
  spent           \* the nonces used: pairs of a signer and a CommitmentID

oracleVars == <<outcome, contributed, spent>>

OracleInit ==
  /\ outcome = [m \in Messages |-> "pending"]
  /\ contributed = [m \in Messages |-> {}]
  /\ spent = {}

\* A signer may still contribute after the caller was told that signing failed,
\* never after the token was issued.
Contribute(m, s, id) ==
  /\ outcome[m] # "issued"
  /\ s \notin contributed[m]
  /\ Cardinality(contributed[m]) < Threshold
  /\ <<s, id>> \notin spent
  /\ contributed' = [contributed EXCEPT ![m] = @ \cup {s}]
  /\ spent' = spent \cup {<<s, id>>}
  /\ UNCHANGED outcome

Issue(m) ==
  /\ outcome[m] = "pending"
  /\ Cardinality(contributed[m]) = Threshold
  /\ outcome' = [outcome EXCEPT ![m] = "issued"]
  /\ UNCHANGED <<contributed, spent>>

Reject(m) ==
  /\ outcome[m] = "pending"
  /\ outcome' = [outcome EXCEPT ![m] = "rejected"]
  /\ UNCHANGED <<contributed, spent>>

OracleNext ==
  \E m \in Messages :
    \/ Issue(m)
    \/ Reject(m)
    \/ \E s \in Signers, id \in CommitmentIDs : Contribute(m, s, id)

OracleSpec == OracleInit /\ [][OracleNext]_oracleVars
=============================================================================
