---------------------------- MODULE KeyBootstrap ----------------------------
(***************************************************************************)
(* Where the FROST key shares come from when a process starts: Vault, the  *)
(* encrypted file and the plain file (internal/froststate/bootstrap.go for *)
(* the signers, internal/coordinatorstate for proxies and coordinator),    *)
(* and the tools that fill these sources (cmd/keygen, cmd/encrypt-keys,    *)
(* scripts/vault-init.sh).                                                 *)
(*                                                                         *)
(* Every run of keygen makes a new generation of shares of a new group     *)
(* key.  The three sources are filled by separate commands, any of which   *)
(* may be forgotten, fail half-way or be repeated, and a process reads     *)
(* them when it starts.  All processes read one data directory; an image   *)
(* is a copy of it, and an image without frost-keys.json is that directory *)
(* after the plain file was deleted.                                       *)
(***************************************************************************)
EXTENDS Naturals, FiniteSets

CONSTANTS
  N,              \* MaxSigners; the SIGNER_IDs are 1..N
  Gens,           \* generations of keys; bounds the runs of keygen
  Passwords,      \* passwords encrypt-keys may be run with
  ServicePassword,\* the password the signers run with
  Down, Failed,   \* a process that does not run; one that could not start
  None,           \* no file, no share
  Torn            \* a file that a command left incomplete

Signers == 1..N
Proxy == 0      \* stands for the proxies among the processes
Content == Gens \cup {Torn}

\* keystore.EncryptedStore: what was encrypted, under which password.
EncryptedStores == [content : Content, password : Passwords]

\* keys.KeyShare: its ID and the group key it is a share of.
KeyShares == Signers \X Gens

\* Signer and Config of a signer: the key share it signs with, the group key, and
\* the shares whose public parts are in SignerPublicKeyShares, by position.
SignerStates ==
  [share : KeyShares, VerificationKey : Gens, publicShares : [Signers -> KeyShares]]

ASSUME BootstrapAssumption ==
  /\ N \in Nat \ {0}
  /\ ServicePassword \in Passwords
  /\ {None, Torn, Down, Failed} \cap Gens = {}
  /\ None # Torn /\ Down # Failed
  /\ {None, Torn} \cap EncryptedStores = {}
  /\ {Down, Failed} \cap SignerStates = {}

VARIABLES
  plain,          \* data/frost-keys.json
  enc,            \* data/frost-keys.enc
  vault,          \* vault[s]: the share at frost/data/signer-s
  generated,      \* the generations that exist
  signer,         \* signer[s]: the process of signer s
  proxy,          \* the process of a proxy: the generation of coordinatorstate.Config
  fresh           \* history: processes started since the sources last changed

sources == <<plain, enc, vault, generated>>
vars == <<sources, signer, proxy, fresh>>

TypeOK ==
  /\ plain \in Content \cup {None}
  /\ enc \in EncryptedStores \cup {None, Torn}
  /\ vault \in [Signers -> KeyShares \cup {None}]
  /\ generated \subseteq Gens
  /\ signer \in [Signers -> SignerStates \cup {Down, Failed}]
  /\ proxy \in Gens \cup {Down, Failed}
  /\ fresh \subseteq Signers \cup {Proxy}

Init ==
  /\ plain = None
  /\ enc = None
  /\ vault = [s \in Signers |-> None]
  /\ generated = {}
  /\ signer = [s \in Signers |-> Down]
  /\ proxy = Down
  /\ fresh = {}

-----------------------------------------------------------------------------
(* The commands that fill the sources.                                     *)

SourcesChanged ==
  /\ fresh' = {}
  /\ UNCHANGED <<signer, proxy>>

\* keygen: new shares, written over the plain file.
Keygen(g) ==
  /\ g \notin generated
  /\ generated' = generated \cup {g}
  /\ plain' = g
  /\ UNCHANGED <<enc, vault>>
  /\ SourcesChanged

\* keygen dies, or fails, between os.Create and the end of Encode.
KeygenDies ==
  /\ plain' = Torn
  /\ UNCHANGED <<enc, vault, generated>>
  /\ SourcesChanged

\* encrypt-keys: the bytes of the plain file, whatever they are, encrypted.
SaveEncryptedKeys(password) ==
  /\ plain # None
  /\ enc' = [content |-> plain, password |-> password]
  /\ UNCHANGED <<plain, vault, generated>>
  /\ SourcesChanged

\* os.WriteFile stops half-way.
SaveEncryptedKeysDies ==
  /\ plain # None
  /\ enc' = Torn
  /\ UNCHANGED <<plain, vault, generated>>
  /\ SourcesChanged

\* The operator does what encrypt-keys says, and deletes the plain file.
DeletePlain ==
  /\ plain # None
  /\ plain' = None
  /\ UNCHANGED <<enc, vault, generated>>
  /\ SourcesChanged

\* vault-init.sh stores one share after the other.  Of a plain file that is missing
\* or incomplete it reads nothing and stores an empty share, which counts as none
\* (loadShareFromVault).  It reads all shares before it stores the first; a keygen
\* between the two leaves what puts before that keygen leave.
VaultPut(s) ==
  /\ vault' = [vault EXCEPT ![s] = IF plain \in Gens THEN <<s, plain>> ELSE None]
  /\ UNCHANGED <<plain, enc, generated>>
  /\ SourcesChanged

\* Vault keeps its data in memory.
VaultRestart ==
  /\ vault' = [s \in Signers |-> None]
  /\ UNCHANGED <<plain, enc, generated>>
  /\ SourcesChanged

-----------------------------------------------------------------------------
(* froststate.Init.                                                        *)

\* loadShareFromVault: an unreachable Vault, an error status and an empty share
\* all count as no share.
loadShareFromVault(s, reachable) == IF reachable THEN vault[s] ELSE None

\* LoadDecryptedKeys: what the encrypted file holds, if there is one, it is whole
\* and was encrypted with the password of the service.
LoadDecryptedKeys ==
  IF enc \in EncryptedStores /\ enc.password = ServicePassword
  THEN enc.content ELSE None

\* Mutant: an encrypted file that cannot be decrypted ends the search.
LocalKeysDataNoFallback == IF enc # None THEN LoadDecryptedKeys ELSE plain

\* Mutant: the plain file before the encrypted one, as for the configuration.
LocalKeysDataPlainFirst == IF plain # None THEN plain ELSE LoadDecryptedKeys

\* loadKeysData without a share from Vault: the encrypted file before the plain one.
LocalKeysData == IF LoadDecryptedKeys # None THEN LoadDecryptedKeys ELSE plain

\* The rest of the configuration when Vault gave the share: the plain file
\* before the encrypted one.
ConfigData == IF plain # None THEN plain ELSE LoadDecryptedKeys

\* The data that Init decodes.
KeysData(s, reachable) ==
  IF loadShareFromVault(s, reachable) # None THEN ConfigData ELSE LocalKeysData

\* Mutant: the share of Vault is put at index signerID.
StoredSharesOffByOne(s, reachable) ==
  [t \in Signers |->
     IF t = s + 1 /\ loadShareFromVault(s, reachable) # None
     THEN loadShareFromVault(s, reachable)
     ELSE <<t, KeysData(s, reachable)>>]

\* stored.Shares after the share of Vault took the place of the signer's own.
StoredShares(s, reachable) ==
  [t \in Signers |->
     IF t = s /\ loadShareFromVault(s, reachable) # None
     THEN loadShareFromVault(s, reachable)
     ELSE <<t, KeysData(s, reachable)>>]

\* The configuration is built from the stored shares, the verification key from
\* the first of them.
LoadedSigner(s, reachable) ==
  LET stored == StoredShares(s, reachable)
  IN [share |-> stored[s], VerificationKey |-> stored[1][2], publicShares |-> stored]

\* frost.Configuration.Signer may refuse a key share that does not belong to the
\* verification key of the configuration.
MayBeRefused(state) == state.share[2] # state.VerificationKey

\* Mutant: an error of json.Unmarshal is ignored.
SignerStartsUndecoded(s, reachable) ==
  /\ signer[s] \in {Down, Failed}
  /\ KeysData(s, reachable) # None
  /\ signer' = [signer EXCEPT ![s] = LoadedSigner(s, reachable)]
  /\ fresh' = fresh \cup {s}
  /\ UNCHANGED <<sources, proxy>>

\* Init returns, and the signer serves.
SignerStarts(s, reachable) ==
  /\ signer[s] \in {Down, Failed}
  /\ KeysData(s, reachable) \in Gens
  /\ signer' = [signer EXCEPT ![s] = LoadedSigner(s, reachable)]
  /\ fresh' = fresh \cup {s}
  /\ UNCHANGED <<sources, proxy>>

\* Init returns an error and main panics: no data, data that does not decode, or
\* a share that is refused.
SignerFails(s, reachable) ==
  /\ signer[s] \in {Down, Failed}
  /\ \/ KeysData(s, reachable) \notin Gens
     \/ MayBeRefused(LoadedSigner(s, reachable))
  /\ signer' = [signer EXCEPT ![s] = Failed]
  /\ fresh' = fresh \cup {s}
  /\ UNCHANGED <<sources, proxy>>

SignerStops(s) ==
  /\ signer[s] # Down
  /\ signer' = [signer EXCEPT ![s] = Down]
  /\ fresh' = fresh \ {s}
  /\ UNCHANGED <<sources, proxy>>

-----------------------------------------------------------------------------
(* coordinatorstate.Init, in proxies and coordinator.                      *)

\* Init knows the plain file only.
ProxyStarts ==
  /\ proxy \in {Down, Failed}
  /\ proxy' = IF plain \in Gens THEN plain ELSE Failed
  /\ fresh' = fresh \cup {Proxy}
  /\ UNCHANGED <<sources, signer>>

ProxyStops ==
  /\ proxy # Down
  /\ proxy' = Down
  /\ fresh' = fresh \ {Proxy}
  /\ UNCHANGED <<sources, signer>>

Next ==
  \/ \E g \in Gens : Keygen(g)
  \/ KeygenDies
  \/ \E p \in Passwords : SaveEncryptedKeys(p)
  \/ SaveEncryptedKeysDies
  \/ DeletePlain
  \/ \E s \in Signers : VaultPut(s)
  \/ VaultRestart
  \/ \E s \in Signers, reachable \in BOOLEAN :
       SignerStarts(s, reachable) \/ SignerFails(s, reachable)
  \/ \E s \in Signers : SignerStops(s)
  \/ ProxyStarts
  \/ ProxyStops

Spec == Init /\ [][Next]_vars

-----------------------------------------------------------------------------
(* Properties.                                                             *)

\* Signer s serves, and all it uses is of generation g.
ServesGeneration(s, g) ==
  /\ signer[s].share = <<s, g>>
  /\ signer[s].VerificationKey = g
  /\ \A t \in Signers : signer[s].publicShares[t] = <<t, g>>

\* No source holds anything but generation g, and a local file holds it.  Shares
\* may be missing in Vault, one file may be missing, or encrypted with another
\* password.
SourcesAgree(g) ==
  /\ {plain, LoadDecryptedKeys} \subseteq {g, None}
  /\ g \in {plain, LoadDecryptedKeys}
  /\ \A s \in Signers : vault[s] \in {<<s, g>>, None}

\* The three tiers (README.md:613-615) are interchangeable when they agree: then
\* every signer that was started since serves that generation, whichever of the
\* tiers answered and whatever was generated and running before.
RestartedSignersAgree ==
  \A g \in Gens : SourcesAgree(g) =>
    \A s \in fresh \ {Proxy} :
      signer[s] \notin {Down, Failed} /\ ServesGeneration(s, g)

\* "Signers automatically fall back to encrypted file" (README.md:681): with no share
\* in Vault, the encrypted file alone brings a signer up with the generation it holds,
\* whatever became of the plain file: deleted, torn by a keygen that died,
\* or overwritten by a later generation.
EncryptedCopySuffices ==
  \A s \in fresh \ {Proxy} :
    vault[s] = None /\ LoadDecryptedKeys \in Gens =>
      signer[s] \notin {Down, Failed} /\ ServesGeneration(s, LoadDecryptedKeys)

\* As long as keys were generated once, no order of commands, interrupted ones
\* included, and of starts brings up two processes that do not fit together.
OneGenerationFits ==
  Cardinality(generated) = 1 =>
    \A g \in generated :
      /\ \A s \in Signers : signer[s] \notin {Down, Failed} => ServesGeneration(s, g)
      /\ proxy \in {g, Down, Failed}

\* "Delete data/frost-keys.json in production" (cmd/encrypt-keys/main.go:27):
\* a proxy starts from the encrypted file when the plain one is gone.
ProxyStartsEncrypted ==
  Proxy \in fresh /\ plain = None /\ LoadDecryptedKeys \in Gens => proxy # Failed
=============================================================================
