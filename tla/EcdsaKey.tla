------------------------------ MODULE EcdsaKey ------------------------------
(***************************************************************************)
(* The ECDSA key that tokens are signed with (internal/signing) and the    *)
(* processes that load it: the proxies, which sign with it and publish it  *)
(* under one fixed kid (Server.FetchKeys), and cmd/genkey, which prepares  *)
(* the key file.                                                           *)
(*                                                                         *)
(* NewECDSAKey replaces a key file it cannot use by a new key.  os.Create  *)
(* truncates the file and pem.Encode fills it, so there are moments at     *)
(* which another process finds it empty and after which a crash leaves it  *)
(* so.  The private scalar is in the first line of the PEM body, which is  *)
(* one write: when two processes write the same file, it holds the key of  *)
(* the one that wrote that line last.                                      *)
(***************************************************************************)
EXTENDS Naturals, Sequences, FiniteSets

CONSTANTS
  Proxies,        \* the proxy processes
  Tools,          \* runs of cmd/genkey
  Files,          \* key files
  KeyFile,        \* KeyFile[p]: the file ECDSA_KEY_PATH names for process p
  Keys,           \* P-256 keys; bounds how many are generated
  DeployedKey,    \* the key that an image or a volume was provisioned with
  NoKey,          \* no key
  Absent, Torn,   \* contents of a file that is missing, or without a valid key
  MaxCrashes,     \* bound on the number of processes that are killed
  ReadFaults,     \* the files of which a read may fail though they hold a key
  Radix,          \* the number of values of a byte (256)
  CurveSize,      \* the bytes of a coordinate (32)
  Scalars         \* the values of r and s that are tried

Processes == Proxies \cup Tools

\* Place[k]: what the byte k places from the last one of a number counts.
Place[k \in Nat] == IF k = 0 THEN 1 ELSE Radix * Place[k - 1]

ASSUME EcdsaKeyAssumption ==
  /\ KeyFile \in [Processes -> Files]
  /\ DeployedKey \in Keys
  /\ {NoKey, Absent, Torn} \cap Keys = {}
  /\ Absent # Torn
  /\ MaxCrashes \in Nat
  /\ ReadFaults \subseteq Files
  /\ Radix \in Nat \ {0, 1} /\ CurveSize \in Nat \ {0}
  /\ Scalars \subseteq 1 .. (Place[CurveSize] - 1)

VARIABLES
  file,           \* file[f]: a key, Torn or Absent
  pc,             \* pc[p]: down, in NewECDSAKey (create, encode), or ready
  key,            \* key[p]: ECDSAKey.key of process p, or NoKey
  generated,      \* history: the keys that exist
  tokens,         \* history: [proxy, key] of the tokens signed
  published,      \* history: [proxy, key] of the replies of FetchKeys
  rs, signature,  \* history: the last signature made, before and after encoding
  raced,          \* history: files that a process found unusable while another wrote
  unreadable,     \* history: files that a read failed for though they held a key
  crashes         \* how many processes were killed

histVars == <<tokens, published, rs, signature>>
vars == <<file, pc, key, generated, histVars, raced, unreadable, crashes>>

Vouchers == [proxy : Proxies, key : Keys]

TypeOK ==
  /\ file \in [Files -> generated \cup {Absent, Torn}]
  /\ pc \in [Processes -> {"down", "create", "encode", "ready"}]
  /\ key \in [Processes -> generated \cup {NoKey}]
  /\ generated \subseteq Keys
  /\ tokens \subseteq Vouchers
  /\ published \subseteq Vouchers
  /\ \A p \in Processes : pc[p] = "down" <=> key[p] = NoKey
  /\ raced \subseteq Files
  /\ unreadable \subseteq ReadFaults
  /\ crashes \in 0..MaxCrashes

\* A file was provisioned with the deployed key (README.md, setup, step 3), was
\* not, or was left empty by a genkey that died.
Init ==
  /\ file \in [Files -> {DeployedKey, Absent, Torn}]
  /\ pc = [p \in Processes |-> "down"]
  /\ key = [p \in Processes |-> NoKey]
  /\ generated = {DeployedKey}
  /\ tokens = {}
  /\ published = {}
  /\ rs = <<0, 0>>
  /\ signature = << >>
  /\ raced = {}
  /\ unreadable = {}
  /\ crashes = 0

-----------------------------------------------------------------------------
(* NewECDSAKey.                                                            *)

\* Mutant: the error of ParseECPrivateKey is ignored.
LoadKeyIgnoresParseError(p) ==
  LET f == KeyFile[p]
  IN /\ pc[p] = "down"
     /\ file[f] # Absent
     /\ key' = [key EXCEPT ![p] = IF file[f] \in Keys THEN file[f] ELSE NoKey]
     /\ pc' = [pc EXCEPT ![p] = "ready"]
     /\ UNCHANGED <<file, generated, histVars, raced, unreadable, crashes>>

\* The key of the file is used (ReadFile, Decode and Parse succeed).
LoadKey(p) ==
  LET f == KeyFile[p]
  IN /\ pc[p] = "down"
     /\ file[f] \in Keys
     /\ key' = [key EXCEPT ![p] = file[f]]
     /\ pc' = [pc EXCEPT ![p] = "ready"]
     /\ UNCHANGED <<file, generated, histVars, raced, unreadable, crashes>>

\* Some process other than p generated a key for the file f and has not
\* written it yet.
BeingWritten(f, p) ==
  \E q \in Processes \ {p} : KeyFile[q] = f /\ pc[q] \in {"create", "encode"}

\* Mutant: the key file is not read at all.
GenerateKeyAlways(p) ==
  LET f == KeyFile[p]
  IN /\ pc[p] = "down"
     /\ \E k \in Keys \ generated :
          /\ key' = [key EXCEPT ![p] = k]
          /\ generated' = generated \cup {k}
     /\ pc' = [pc EXCEPT ![p] = "create"]
     /\ raced' = IF BeingWritten(f, p) THEN raced \cup {f} ELSE raced
     /\ UNCHANGED <<file, histVars, unreadable, crashes>>

\* No usable key was read: a key is generated.  An error of ReadFile is taken
\* like a missing file, whatever the error.
GenerateKey(p) ==
  LET f == KeyFile[p]
  IN /\ pc[p] = "down"
     /\ file[f] \in Keys => f \in ReadFaults
     /\ \E k \in Keys \ generated :
          /\ key' = [key EXCEPT ![p] = k]
          /\ generated' = generated \cup {k}
     /\ pc' = [pc EXCEPT ![p] = "create"]
     /\ raced' = IF BeingWritten(f, p) THEN raced \cup {f} ELSE raced
     /\ unreadable' = IF file[f] \in Keys THEN unreadable \cup {f} ELSE unreadable
     /\ UNCHANGED <<file, histVars, crashes>>

\* Mutant: the key is used before it is written, and written by nobody.
CreateKeyFileServes(p) ==
  /\ pc[p] = "create"
  /\ file' = [file EXCEPT ![KeyFile[p]] = Torn]
  /\ pc' = [pc EXCEPT ![p] = "ready"]
  /\ UNCHANGED <<key, generated, histVars, raced, unreadable, crashes>>

\* os.Create: the file is there and empty.
CreateKeyFile(p) ==
  /\ pc[p] = "create"
  /\ file' = [file EXCEPT ![KeyFile[p]] = Torn]
  /\ pc' = [pc EXCEPT ![p] = "encode"]
  /\ UNCHANGED <<key, generated, histVars, raced, unreadable, crashes>>

\* pem.Encode: the key is in the file, and NewECDSAKey returns it.
EncodeKey(p) ==
  /\ pc[p] = "encode"
  /\ file' = [file EXCEPT ![KeyFile[p]] = key[p]]
  /\ pc' = [pc EXCEPT ![p] = "ready"]
  /\ UNCHANGED <<key, generated, histVars, raced, unreadable, crashes>>

-----------------------------------------------------------------------------
(* The ends of a process.                                                  *)

\* What p leaves in its file when it stops while it encodes.  In a file that
\* another process has filled meanwhile, the writes made so far may be none,
\* end within a line, or have put the key of p in the place of the other.
LeftInFile(p) ==
  IF pc[p] # "encode" THEN {file[KeyFile[p]]}
  ELSE {file[KeyFile[p]], Torn}
         \cup (IF file[KeyFile[p]] \in Keys THEN {key[p]} ELSE {})

\* The process is gone, with the key it had in memory.
Stop(p) ==
  /\ \E c \in LeftInFile(p) : file' = [file EXCEPT ![KeyFile[p]] = c]
  /\ pc' = [pc EXCEPT ![p] = "down"]
  /\ key' = [key EXCEPT ![p] = NoKey]
  /\ UNCHANGED <<generated, histVars, raced, unreadable>>

\* os.Create or pem.Encode returns an error and main exits.
NewKeyFails(p) ==
  /\ pc[p] \in {"create", "encode"}
  /\ Stop(p)
  /\ UNCHANGED crashes

\* The process is killed.
Kill(p) ==
  /\ pc[p] # "down"
  /\ crashes < MaxCrashes
  /\ Stop(p)
  /\ crashes' = crashes + 1

\* main of cmd/genkey ends when NewECDSAKey has returned.
GenkeyDone(p) ==
  /\ p \in Tools
  /\ pc[p] = "ready"
  /\ Stop(p)
  /\ UNCHANGED crashes

-----------------------------------------------------------------------------
(* What a proxy does with the key.                                         *)

\* big.Int.Bytes: the digits of n in base Radix, without leading zeros.
Bytes(n) ==
  LET len == Cardinality({i \in 0 .. (CurveSize - 1) : Place[i] <= n})
  IN [i \in 1 .. len |-> (n \div Place[len - i]) % Radix]

\* Mutant: the bytes are put at the front of the buffer.
padLeftAtFront(b, size) ==
  IF Len(b) >= size THEN b ELSE b \o [i \in 1 .. (size - Len(b)) |-> 0]

padLeft(b, size) ==
  IF Len(b) >= size THEN b ELSE [i \in 1 .. (size - Len(b)) |-> 0] \o b

\* Server.Sign, after the threshold of signers has signed: SignES256 signs the
\* token with whatever key the process holds.
SignES256(p, r, s) ==
  /\ p \in Proxies
  /\ pc[p] = "ready"
  /\ rs' = <<r, s>>
  /\ signature' = padLeft(Bytes(r), CurveSize) \o padLeft(Bytes(s), CurveSize)
  /\ tokens' = tokens \cup {[proxy |-> p, key |-> key[p]]}
  /\ UNCHANGED <<file, pc, key, generated, published, raced, unreadable, crashes>>

\* Server.FetchKeys: the kid is that of the configuration, the same for every
\* key; the verification key is that of the key in memory.
FetchKeys(p) ==
  /\ p \in Proxies
  /\ pc[p] = "ready"
  /\ published' = published \cup {[proxy |-> p, key |-> key[p]]}
  /\ UNCHANGED <<file, pc, key, generated, tokens, rs, signature,
                 raced, unreadable, crashes>>

Next ==
  \E p \in Processes :
    \/ LoadKey(p) \/ GenerateKey(p) \/ CreateKeyFile(p) \/ EncodeKey(p)
    \/ NewKeyFails(p) \/ Kill(p) \/ GenkeyDone(p)
    \/ \E r, s \in Scalars : SignES256(p, r, s)
    \/ FetchKeys(p)

Spec == Init /\ [][Next]_vars

-----------------------------------------------------------------------------
(* Properties.                                                             *)

\* The files nothing unusual happened to: no two processes generated a key for
\* it at the same time, and every read that could succeed did.
Undisturbed(f) == f \notin raced \cup unreadable

\* What a proxy signed verifies with what any proxy on the same key file has
\* published, at any time: whatever process is killed at whatever point
\* of NewECDSAKey, a key that was used once comes back after a restart.
SameFileSameKey ==
  \A t \in tokens, k \in published :
    /\ KeyFile[t.proxy] = KeyFile[k.proxy]
    /\ Undisturbed(KeyFile[t.proxy])
    => t.key = k.key

\* The reason for it, and what the next start relies on: the file holds the key
\* of every process that got past NewECDSAKey, and it is the key of every token and
\* of every reply of FetchKeys.
UsedKeyOnFile ==
  \A f \in Files : Undisturbed(f) =>
    /\ \A p \in Processes : KeyFile[p] = f /\ pc[p] = "ready" => file[f] = key[p]
    /\ \A v \in tokens \cup published : KeyFile[v.proxy] = f => file[f] = v.key

AllStopped(f) == \A p \in Processes : KeyFile[p] = f => pc[p] = "down"

\* Two processes that generate a key for one file at the same time may end with
\* different keys, and a killed one may leave its key, the other's or none in the
\* file.  Stopping all of them heals it: whatever key the file holds then is from
\* then on the only one that any process on it has, whatever is started, killed or
\* fails after that, in whatever order.
RestartHeals ==
  \A f \in Files \ ReadFaults, k \in Keys :
    [](AllStopped(f) /\ file[f] = k =>
         [](\A p \in Processes : KeyFile[p] = f => key[p] \in {NoKey, k}))

\* The load-balanced deployment: proxies that start on copies of the same
\* provisioned key file stay interchangeable.  A token of any of them verifies with
\* the key that any of them published, through restarts, kills and what other
\* processes do to their files, until a read of one of the copies fails.
CopiesInterchangeable ==
  \A F \in SUBSET Files :
    (\A f \in F : file[f] = DeployedKey) =>
      [](\A t \in tokens, k \in published :
           /\ {KeyFile[t.proxy], KeyFile[k.proxy]} \subseteq F
           /\ {KeyFile[t.proxy], KeyFile[k.proxy]} \cap unreadable = {}
           => t.key = k.key)

\* The reference for the encoding (README.md:600-602, FillBytes): n as a number
\* of exactly CurveSize bytes.
FillBytes(n) == [i \in 1 .. CurveSize |-> (n \div Place[CurveSize - i]) % Radix]

\* Whatever the size of r and s, SignES256 returns the two halves of equal length
\* that a verifier of ES256 cuts the signature into: a short r is not read with
\* bytes of s.
SignatureIsP1363 ==
  signature # << >> => signature = FillBytes(rs[1]) \o FillBytes(rs[2])
=============================================================================
