----------------------------- MODULE SignerNode -----------------------------
(***************************************************************************)
(* The signer services (cmd/signer, internal/froststate) as far as signing *)
(* goes: their memory, the /commit and /sign handlers and the failures of  *)
(* their processes.                                                        *)
(*                                                                         *)
(* Both handlers run from start to end under froststate.Mu, so each is one *)
(* atomic action.  The specification of this module, SignerSpec, lets the  *)
(* handlers be called with any arguments in any order: by proxies and      *)
(* coordinators that run at the same time, that repeat a call, or that     *)
(* mix commitments of several sessions.  GrpcProxy and Coordinator extend  *)
(* this module and call the same handlers from the code of the callers.    *)
(***************************************************************************)
EXTENDS FrostLib

CONSTANTS
  MaxCrashes,     \* bound on the number of crashes of signer processes
  Faults          \* the other faults of the environment that may happen:
                  \* a subset of FaultKinds

\* A stopped signer is started again; a signer hangs; a connection fails; a
\* proxy process dies.
FaultKinds == {"restart", "hang", "net", "proxy"}

ASSUME FaultsAssumption ==
  /\ MaxCrashes \in Nat
  /\ Faults \subseteq FaultKinds

VARIABLES
  status,         \* status[s]: the process of signer s is up, hung or down
  nonces,         \* keys of frost.Signer.NonceCommitments: the live nonces of s
  Commitments,    \* keys of froststate.Commitments
  drawn,          \* history: every CommitmentID s ever drew
  shares,         \* history: every signature share a signer ever computed
  crashes         \* how many crashes have happened

signerVars == <<status, nonces, Commitments, drawn, shares, crashes>>

SignerTypeOK ==
  /\ status \in [Signers -> {"up", "hung", "down"}]
  /\ nonces \in [Signers -> SUBSET CommitmentIDs]
  /\ Commitments \in [Signers -> SUBSET CommitmentIDs]
  /\ drawn \in [Signers -> SUBSET CommitmentIDs]
  /\ shares \subseteq Shares
  /\ crashes \in 0..MaxCrashes

\* When the first request comes in, a signer serves or was stopped; the maps
\* of the process are empty.
SignerInit ==
  /\ status \in [Signers -> {"up", "down"}]
  /\ nonces = [s \in Signers |-> {}]
  /\ Commitments = [s \in Signers |-> {}]
  /\ drawn = [s \in Signers |-> {}]
  /\ shares = {}
  /\ crashes = 0

-----------------------------------------------------------------------------
(* The handlers.                                                           *)

\* /commit: draw a nonce pair under a fresh CommitmentID (frost.Signer.Commit)
\* and record the commitment.  Nothing ever deletes it from Commitments.
commitHandler(s, id) ==
  /\ status[s] = "up"
  /\ id \notin drawn[s]
  /\ nonces' = [nonces EXCEPT ![s] = @ \cup {id}]
  /\ drawn' = [drawn EXCEPT ![s] = @ \cup {id}]
  /\ Commitments' = [Commitments EXCEPT ![s] = @ \cup {id}]
  /\ UNCHANGED <<status, shares, crashes>>

\* frost.Signer.VerifyCommitmentList: the list is well formed and names a
\* nonce that this process drew and has not used.
VerifyCommitmentList(s, list) ==
  /\ ValidCommitmentList(list)
  /\ s \in DOMAIN list
  /\ list[s] \in nonces[s]

\* Mutant: the nonce is not cleared.
frostSignKeepsNonce(s, msg, list) ==
  /\ shares' = shares \cup {SignatureShare(s, msg, list)}
  /\ UNCHANGED nonces

\* frost.Signer.Sign: compute the share and clear the nonce it used.
frostSign(s, msg, list) ==
  /\ shares' = shares \cup {SignatureShare(s, msg, list)}
  /\ nonces' = [nonces EXCEPT ![s] = @ \ {list[s]}]

\* /sign answered with a share.
signHandlerOK(s, msg, list) ==
  /\ status[s] = "up"
  /\ VerifyCommitmentList(s, list)
  /\ frostSign(s, msg, list)
  /\ UNCHANGED <<status, Commitments, drawn, crashes>>

\* /sign answered with status 500 and the text of the library's error.  A body
\* that does not decode is answered with status 400 to the same effect.
signHandlerError(s, msg, list) ==
  /\ status[s] = "up"
  /\ ~VerifyCommitmentList(s, list)
  /\ UNCHANGED signerVars

-----------------------------------------------------------------------------
(* The processes.                                                          *)

\* The process dies with its maps; nothing of them is persisted.
Crash(s) ==
  /\ status[s] # "down"
  /\ crashes < MaxCrashes
  /\ status' = [status EXCEPT ![s] = "down"]
  /\ nonces' = [nonces EXCEPT ![s] = {}]
  /\ Commitments' = [Commitments EXCEPT ![s] = {}]
  /\ crashes' = crashes + 1
  /\ UNCHANGED <<drawn, shares>>

\* main: froststate.Init loads the same key share and starts with empty maps.
Restart(s) ==
  /\ "restart" \in Faults
  /\ status[s] = "down"
  /\ status' = [status EXCEPT ![s] = "up"]
  /\ UNCHANGED <<nonces, Commitments, drawn, shares, crashes>>

\* The process stops making progress while its connections stay open, and
\* perhaps comes back with its memory intact.
Hang(s) ==
  /\ "hang" \in Faults
  /\ status[s] = "up"
  /\ status' = [status EXCEPT ![s] = "hung"]
  /\ UNCHANGED <<nonces, Commitments, drawn, shares, crashes>>

Resume(s) ==
  /\ status[s] = "hung"
  /\ status' = [status EXCEPT ![s] = "up"]
  /\ UNCHANGED <<nonces, Commitments, drawn, shares, crashes>>

SignerFault(s) == Crash(s) \/ Restart(s) \/ Hang(s) \/ Resume(s)

\* A handler called by anyone with anything.
AnyCall(s) ==
  \/ \E id \in CommitmentIDs : commitHandler(s, id)
  \/ \E msg \in Messages, list \in CommitmentLists :
       signHandlerOK(s, msg, list) \/ signHandlerError(s, msg, list)

SignerNext == \E s \in Signers : AnyCall(s) \/ SignerFault(s)

SignerSpec == SignerInit /\ [][SignerNext]_signerVars

-----------------------------------------------------------------------------
(* Properties.                                                             *)

\* No nonce is ever used for two different shares: whatever sequence of /commit
\* and /sign calls, crashes and restarts happens, two shares of a signer under
\* the same CommitmentID are the same share.  (Two different ones would reveal
\* the signer's key share.)
NonceSingleUse ==
  \A a, b \in shares : a.signer = b.signer /\ a.id = b.id => a = b

\* A nonce that is still live in frost.Signer has signed nothing, and was drawn
\* by a commitHandler of this process, which recorded it.
LiveNoncesUnused ==
  \A s \in Signers : \A id \in nonces[s] :
    /\ id \in Commitments[s] /\ id \in drawn[s]
    /\ \A sh \in shares : ~(sh.signer = s /\ sh.id = id)

\* Every share was computed from a nonce the same signer had drawn before, over a
\* list of at least Threshold commitments that names this nonce for it.
SharesWellFormed ==
  \A sh \in shares :
    /\ sh.id \in drawn[sh.signer]
    /\ ValidCommitmentList(sh.list)
    /\ sh.signer \in DOMAIN sh.list
    /\ sh.list[sh.signer] = sh.id
=============================================================================
