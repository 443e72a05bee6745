# A TLA+ model of frost-k8s-threshold-signing

This directory models the threshold-signing core of the repository in TLA+:
five signer services that hold shares of a FROST key, the gRPC proxies through
which the kube-apiserver gets its service-account tokens signed, the nginx in front
of them, the HTTP coordinator that came before them, the ceremony that generates key shares, and
the keys that processes load when they start.
TLC checks the models on small instances; TLAPS proves every safety property
they are checked for, and the refinements, for every size. All paths below are relative to the repository.

## 1. The system

### Components, their state and their operations

| Component | Where | State | Operations |
|---|---|---|---|
| Signer, signing | `cmd/signer/main.go:28-76`, `internal/froststate` | `froststate.Signer` (key share and live nonces), `froststate.Commitments`, both under `froststate.Mu`; memory only | `/commit` draws a nonce pair, `/sign` uses one |
| Signer, DKG | `cmd/signer/main.go:78-156`, `internal/dkg` | `dkgParticipant`, `allCommitments`, under `dkgMu`; memory only | `/dkg/round1`, `/dkg/commitments`, `/dkg/round2/<id>`, `/dkg/finalize` |
| gRPC proxy (three behind nginx) | `cmd/grpc-proxy/main.go`, `internal/grpcserver` | none between calls; per call goroutines and two channels; the ECDSA key | `Sign`, `FetchKeys`, `Metadata` |
| Load balancer | `deploy/nginx-grpc.conf` | which proxies failed lately; where each call is | choose a proxy, fail over, time out |
| HTTP coordinator | `cmd/coordinator/main.go` | none between requests | `/collect-commitment`, `/collect-signatures`, `/threshold-sign`, `/threshold-jwt`, `/sign-jwt` |
| DKG coordinator | `cmd/dkg-coordinator/main.go` | local variables of `main` | one ceremony per run |
| ECDSA token key | `internal/signing/ecdsa.go` | key file, key in memory | load or generate, sign, publish |
| Key bootstrap | `internal/froststate/bootstrap.go`, `internal/coordinatorstate`, `internal/keystore`, `cmd/keygen`, `cmd/encrypt-keys` | Vault, encrypted file, plain file | `Init` at start; generate, encrypt, store in Vault |
| Signer pool | `internal/froststate/state.go` | channel of signers | `Get`, `Put`; no handler calls them |
| Demos, generated code | `cmd/frostlab`, `internal/coordinator`, `internal/signer`, `proto`, `externaljwt` | | |

### How they interact

A `Sign` call posts `/commit` to all signers in parallel, waits for the result of
**every** one, keeps the first three commitments, posts `/sign` with them to
the three signers in parallel, gives up at the first error, verifies the
aggregate, and signs the token with the ECDSA key. Calls share nothing but the
signers. The HTTP coordinator does the same with two sequential loops over a
fixed list of ports. The DKG coordinator makes one call after the other:
round 1, broadcast, round 2 (every pair of signers), finalize.

### What is hard about it

* Many sessions use one `frost.Signer`; a nonce used twice reveals a key share.
* Signers lose nonces at a crash, between two rounds of a session.
* Goroutines outlive the call that started them.
* No HTTP call has a timeout, and no server a read timeout: `signHandler` reads the
  body of its request while it holds the lock that every other request needs.
* `Server.Sign` does not look at its context: it goes on when nginx has given up.
* DKG calls carry no ceremony identity and overwrite global variables.
* Key files are truncated before they are written, and a key file that cannot be
  used is replaced without a word.
* The sources of the key shares are filled by separate commands and read by
  different processes in different orders.

`PROJECT.json` lists these and the other hazards, each at its line, with the
properties aimed at it. Section 3 says which of them no property covers.

### What makes each component correct

* **Signers**: a nonce makes at most one share, whoever calls in whatever order,
  crashes and restarts included; the lock makes each handler one step, and every
  request is answered.
* **Load balancer**: a call reaches a proxy as long as one is healthy, is executed
  once, and is always answered.
* **Proxies**: no token without a threshold of signers; sessions do not mix;
  shares that were collected aggregate; calls return and goroutines end; the whole
  implements an oracle that knows no rounds and no failures.
* **HTTP coordinator**: a token only when every port contributed to this very
  request; concurrent requests for the same message do not mix.
* **DKG**: a ceremony that completes undisturbed leaves all signers with the same
  group key and with the others' shares of that key.
* **ECDSA key**: a key that signed a token survives restarts; what one proxy
  signs verifies with what another publishes; processes that raced for the file agree
  again once all of them were stopped.
* **Key bootstrap**: signers that start from different tiers fit together, and the
  encrypted copy alone is enough to start a signer.

## 2. Modules

```
FrostLib            external library: commitment lists, shares, aggregation
  SignerNode          signers under arbitrary callers
    SignerNodeProofs  theorems
    SignerMutex       the handlers in steps, shown to be atomic  (checked as it is)
      SignerMutexProofs theorems (also extends SignerNodeProofs)
    GrpcProxy         proxies calling the signers                MCGrpcProxy
      GrpcProxyProofs theorems (also extends SignerNodeProofs)
    Coordinator       HTTP coordinator calling the signers       MCCoordinator
      CoordinatorProofs theorems (also extends SignerNodeProofs)
ThresholdOracle     abstract specification, instantiated by GrpcProxy
DKG                 ceremonies                                   (checked as it is)
  DKGProofs         theorems
EcdsaKey            the token key and its files                  MCEcdsaKey
  EcdsaKeyProofs    theorems
KeyBootstrap        sources of the key shares, starts            (checked as it is)
  KeyBootstrapProofs theorems
LoadBalancer        nginx in front of the proxies                (checked as it is)
  LoadBalancerProofs theorems
```

Definitions whose comment starts with *Mutant* are variants of the definition
that follows them, changed as a plausible bug would. No specification uses them:
each is put in the place of the original to see that a property notices.

**FrostLib** stands for `github.com/bytemare/frost`, with ideal cryptography. A
nonce is the pair of a signer and a `CommitmentID`; a share is a record of
signer, nonce, message and commitment list and verifies against exactly these;
aggregation with `verify = true` succeeds iff there is one matching share of
every signer of a long enough list. A `CommitmentID` is a random 64-bit number
and is taken never to repeat at a signer.

**SignerNode** has one action for each outcome of a handler. Handlers are atomic
because both hold `froststate.Mu` from their first line to their last.
`drawn` and `shares` are history variables. `Crash` empties the memory,
`Restart` is `main` with the same key share, `Hang` and `Resume` stand for a
process that stops for a while with its connections open. `SignerSpec` calls the
handlers with any arguments at any time.

**SignerMutex** cuts the handlers of `SignerNode` where a goroutine of `net/http` can
be suspended: before `Mu.Lock()`, after it (for `/sign`, with the body still to
come), and in the middle of the library's call, between filing a nonce and
recording it (`/commit`), or between looking a nonce up and clearing it (`/sign`).
The request body is whole, broken or still coming, whatever the client likes. The
variables of `SignerNode` keep their meaning; `drawn` and `shares` change with the
second half, when a client can first learn of it. `ImplementsSignerNode` maps `nonces`
to the nonces without those a half-done `/commit` has filed. It is this refinement
that entitles the other modules to take the handlers as single steps. What
the lock costs is in `RequestsAnswered`: every request is
answered, *unless* some client stops for ever inside the body that `signHandler`
reads under the lock. A signer that waits so looks hung to the proxies, whose first
round then waits for it without a timeout (`proxy_first_threshold`).

**LoadBalancer** is mostly external: it models what nginx does under
`deploy/nginx-grpc.conf`. `grpc_pass` obeys the `grpc_*` directives, so the
three `proxy_*` lines beside it have no effect and the defaults apply: next upstream on error and timeout, `max_fails = 1`,
`fail_timeout = 10s`, and no second proxy for a POST (which every gRPC call is) once
the request was sent. Which proxy's turn it is is a free choice. The proxy's side is
`Server.Sign`, which returns an answer or never does; its two rounds are
`GrpcProxy`'s matter. `delivered` and `stumbled` are history variables.

**GrpcProxy**: a call is named by its signing input (claims carry identifiers and
times, so two calls differ). A call has a program counter for the goroutine of
`makeSignFn`, and for each signer and round the state of one goroutine
(`none`, `posted`, `answered`, `sent`) and of its reply. The channels are
sequences with the capacity the code gives them. `posted -> answered` is the
signer's handler; `answered -> sent` the goroutine sending the result;
`CommitFailed` and `SignFailed` are connection errors, before or after the
signer served the call. Decoding failures are modelled where they decide something:
the code does not look at the HTTP status, so an error text of `/sign` becomes an
error result because `json.Unmarshal` rejects it. `Aggregate` includes the ECDSA
signature, which does not fail.

**ThresholdOracle** knows only what was answered, who contributed and which
nonces were spent. `GrpcProxy` maps `pc` to the answer and reads the other two from
`shares`.

**Coordinator**: the five endpoints differ in the message they sign and in where
they stop; each handler is an action that starts the common loops. `next` is the loop
index over `Ports` (`signerPorts`).

**DKG**: polynomials are symbols, a secret counts how often the share of each
polynomial was added, a group key is a set of polynomials. `call` keeps a posted
call after its coordinator gave up, so that the signer may serve it late. `disturbed`
is a history variable: a call of another ceremony was served while this one ran.
A round-2 package names its sender and its receiver as the signer's reply does
(`ReplyPackage`): they are identifiers of participants, that is, the `SIGNER_ID` each signer
was started with, and the model takes it to be the position of the signer's address in the
coordinator's list. `postJSON` looks at errors of the connection and not at the HTTP
status. A handler that refuses a `/dkg/commitments` or a `/dkg/finalize` with a status would
count as success; neither does so on what the coordinator sends, so the model has no
such reply, and one of `/dkg/round1` or `/dkg/round2` has no usable body.

**EcdsaKey**: `NewECDSAKey` is four steps, because other processes may read or write
the file and the process may be killed between them: read and use the key; or
read and generate; `os.Create`; `pem.Encode`. `raced` records files for which a
process generated a key while another was about to write one, `unreadable` those
of which a read failed although they held a key: in these two cases the code does
replace a key that is in use, and the properties about used keys exclude them by name.
`RestartHeals` does not exclude a race: it says what puts an end to its consequences, on files whose
reads do not fail. Bytes have
`Radix` values and coordinates `CurveSize` bytes, so that the padding of
`SignES256` is checked on short numbers; `Place[k]` is `Radix` to the power `k`, as a
recursive function the provers can reason about.

**KeyBootstrap**: each run of keygen is a generation. A file holds a generation, is
missing, or is `Torn` by a command that stopped half-way; the encrypted file also
has a password, and holds what the plain file held, torn or not. `KeysData`,
`StoredShares` and `LoadedSigner` follow `froststate.Init`: with a share from Vault
the rest comes from the plain file first, without one from the encrypted file first.
(So a share from Vault beside a torn plain file is a signer that fails although the encrypted
file is whole, bootstrap.go:99-112; `EncryptedCopySuffices` is about signers without a share
in Vault.) `VaultPut` stores what `vault-init.sh` finds in the plain file, which is an empty
share when there is no whole file.
Whether the library refuses a share of another generation than the configuration's
verification key is left open. `fresh` is a history variable: processes started since
the sources last changed.

## 3. Runs

| Run | Instance | Shows |
|---|---|---|
| `signers_any_caller` | 1 signer, 3 requests, 2 messages, 2 ids, slow and broken bodies, 1 crash and restart | `froststate.Mu` makes the handlers the steps of `SignerNode`; a nonce makes one share and is answered with once, for arbitrary callers; requests are answered |
| `proxy_concurrent` | 3 signers, t = 2, 2 calls, 1 crash and restart | isolation of calls, aggregation, channel capacity |
| `proxy_faults` | 3 signers, t = 2, 1 call, 1 crash, every fault | token backed, implements the oracle; calls return and goroutines end unless a signer they wait for hangs for good |
| `proxy_quorum` | 5 signers, t = 3, any set of them up | three give a token, two an error (README.md:512-513); N - t live nonces and N entries of `Commitments` stay behind per token |
| `coordinator_requests` | 2 ports, 2 requests, any endpoints, all faults but hanging | responses backed by this request's shares of every port, no mixing, every request answered |
| `dkg_ceremonies` | 2 signers, 2 ceremonies, 1 restart, lost and late calls | a ceremony that completes undisturbed is sound; packages go to whom they are addressed, one from each signer; no signer's group key mixes two broadcasts, overlapping ceremonies included; a ceremony ends |
| `ecdsa_key_files` | 2 proxies and genkey on one file, 1 proxy on another of which reads may fail, 3 keys, 1 kill | a used key survives, stopping all processes of a file heals a race for it, copies of a provisioned file stay interchangeable, signatures have the P1363 form |
| `bootstrap_sources` | 3 signers, 1 proxy, 2 generations, 2 passwords | signers restarted when the sources agree fit together, whichever tier each uses; the encrypted copy alone starts a signer; with one generation everything that runs fits |
| `balancer_failover` | 3 proxies, 2 calls, 2 kills, restarts, handlers that never return | a call reaches a proxy as long as one has not failed, is executed at most once, and is answered |

Three runs show where the code does not do what a document says:

* `proxy_first_threshold`: README.md:151 says the proxy "accepts first 3
  responses". It waits for all of them without a timeout; one hung signer blocks
  the call.
* `dkg_key_share`: README.md:469-470. `Finalize` adds the signer's own share, and
  the coordinator delivers it once more, so the key share is not a share of the group
  key. The DKG key shares are only logged; the signing path does not use them.
* `bootstrap_without_plain`: `encrypt-keys` says "Delete data/frost-keys.json in
  production"; proxies and coordinator read that file and no other.

Other statements that the models show to be untrue as they stand, without a run of
their own:

* README.md:203, "Tolerates 2 signer failures (3-of-5)": true of signers that are down
  when the call begins (`QuorumDecides`). The second round asks only the signers whose
  commitments were kept and gives up at the first error (`RecvShare`), so one of them
  failing between its two calls fails the `Sign` call.
* README.md:515, "Coordinator proxy killed: Transparent": true of later calls
  (`FailoverReachesProxy`). The call that is at the proxy gets an error
  (`ConnectionLost`), which is what keeps it from being executed twice.
* `internal/froststate/state.go:12`, "Mu kept for DKG handlers only", and line 18,
  "PoolSize — max concurrent signing requests": both signing handlers hold `Mu`, the
  DKG handlers use another mutex, and no handler uses the pool. Requests at one signer
  run one at a time.

Hazards that no property covers, since the code does what one would not want and no
document says that it does not:

* a passing read error of the key file makes `NewECDSAKey` overwrite the key
  (`ecdsa.go:21`); `CopiesInterchangeable` only shows that other files are not affected;
* processes that race for an unprovisioned key file use different keys until they are
  all stopped (`RestartHeals`); that they do so is not excluded;
* a share from Vault next to public shares of another generation (`bootstrap.go:117`);
  `RestartedSignersAgree` says when that cannot be;
* two overlapping DKG ceremonies that both report success with each other's packages
  (`cmd/dkg-coordinator/main.go:94`); `GroupKeyWhole` only excludes a mixed group key.

### Bounds

A nonce matters to the call that drew it and to those that might be given it, so
two concurrent calls reach every kind of mix-up; as many `CommitmentIDs` as calls
suffice because a call draws one nonce per signer. Three signers with a threshold of two
have one surplus signer, as many failures as are tolerated, and one failure too many;
the liveness of the deployed 3 of 5 is run too. `MaxCrashes` bounds crashes; signers may be down from the
start in addition. Two ceremonies are enough for one to leave state behind for, or
overlap with, another. Two processes that generate keys and one that loads
reach every order of truncating, writing and reading a file; one kill restarts a proxy
that served, and interrupted starts (`NewKeyFails`) are not bounded. A race of two uses two
of the three keys and a third writer the last, so what is generated after a healed race is
left to the theorem `StopAllHeals`. Three signers are needed for a Vault that answers the
first, a middle and the last of the shares differently; two generations for one to be stale. Three requests at one signer are
a `/commit` and two `/sign` that race for its nonce, or two `/commit` and a mix-up of
their nonces; the lock is per signer, and `SignerNode`'s theorems cover several. A
`/commit` arrives only while ids are left to draw. Two calls and three proxies let one
call's failures close proxies for the other until one or none is left. Symmetry is used in runs without liveness only.
Deadlock checking is off: when all calls have ended and no fault is left to happen,
the system has nothing to do.

### Fairness

`GrpcProxy!Fairness` is weak fairness of every goroutine, which the Go scheduler
gives, of a signer that is up serving a posted call, and of a connection to a dead
process failing. A goroutine whose signer hangs has no enabled fair step, so fairness
does not help it. Clients, lost connections, crashes, restarts, hangs and resumes are
not fair. `Coordinator` and
`DKG` assume the same of their single goroutine and the signer it waits for.

`SignerMutex` assumes weak fairness of each handler and strong fairness of
`Mu.Lock()`: a goroutine that waited for a millisecond puts `sync.Mutex` into its
starvation mode and is served next, so a lock that becomes free again and again is
acquired. Clients are not fair at all. In `LoadBalancer` nginx and its timers
are fair; the proxies' handlers, kills, restarts and the end of `fail_timeout` are not.

## 4. Proofs

`SignerNodeProofs`, from `SignersAssumption` and `FaultsAssumption`, for any
number of signers, messages, ids, crashes:

* `SignerTypeCorrect`: `SignerSpec => []SignerTypeOK`.
* `NonceSafety`: `SignerSpec => []NonceSingleUse`. `NonceSingleUse` alone is not
  inductive. `SignerInv` adds `LiveNoncesUnused` (a live nonce has signed nothing,
  so a new share cannot collide) and `SharesWellFormed` (the nonce of every share was
  drawn before, so a freshly drawn one has signed nothing).

`GrpcProxyProofs`, with `NoReplyAssumption` in addition, for any number of
concurrent calls and all faults:

* `TypeCorrect`: `Spec => []TypeOK`. It needs `CommitmentsReceived`: a commitment
  that is kept, in the channel or just answered is there, so that the list sent to
  `/sign` has no hole.
* `TokensBacked`: `Spec => []TokenBacked`. It needs `SharesReceived`: each share a
  proxy holds (in a reply, behind a channel entry without error, among the
  gathered) was computed by a signer. `Aggregate` is the one step that makes
  a token.
* `ProxyNonceSafety`: `Spec => []NonceSingleUse`. The proxies use the signers only through
  their handlers (`SignersImplemented`, by the way the module is composed, with the sent list
  free of holes), so the theorem of `SignerNodeProofs` carries over.
* `SendsNeverBlock`, `AggregationNeverFails`, `SessionsNeverMix`: through `SessionInv`,
  which follows each call from the first goroutine to the aggregate. `Session` says which
  goroutines exist at each place of the call (`RoundsInOrder`), that exactly `Threshold`
  commitments reach the second round (`QuorumKept`), that each goroutine sends one result
  (`CommitResultsSent`, `SignResultsSent`), and that the shares in replies and `gathered`
  are those of the active signers over the list that was sent (`OwnShares`,
  `SharesCounted`). `CommitmentsOwned` (no two calls
  were given the same nonce) and `SharesAskedFor` (a share was computed for the call of
  its message) relate the calls to each other; neither isolation nor aggregation is
  inductive without them.
* `OracleImplemented`: `Spec => ImplementsOracle`. `Aggregate` is the oracle's answer, the
  `/sign` handler its contribution, `SessionInv` gives the guards; all else stutters.
* `NoncesStranded`: `StrandedNonces`, under `MaxCrashes = 0`, `Faults = {}` and a finite set
  of calls. These hypotheses are the instance of `proxy_quorum`, not a convenience: a
  crash drops nonces and a lost reply leaves one more, so the count is exact only
  without them. `StrandInv` accounts for each live nonce by the call that drew it and
  has not signed with it, and for each entry of `Commitments` by the call that drew it
  (`RecordsAccounted`); bijections from calls and `1 .. N - t`, and from calls and signers,
  count them.

`EcdsaKeyProofs`, from `EcdsaKeyAssumption`, for any processes, files, keys:

* `KeyTypeCorrect`: `Spec => []TypeOK`.
* `UsedKeysSurvive`: `Spec => []SameFileSameKey`, through `KeyInv`, which adds
  `UsedKeyOnFile` (the file holds the key of all that use it) and `WriterAlone` (one
  process at most is about to write, and only while there is no key). The second only
  strengthens: it is what keeps `CreateKeyFile` from truncating a key in use.
* `FileKeepsUsedKey`: `Spec => []UsedKeyOnFile`, from the same invariant.
* `StopAllHeals`: `Spec => RestartHeals`. `Healed` says that a file holds a key and each of
  its processes is down or ready with no other: nobody writes, and whoever starts reads it.

`LoadBalancerProofs`, from `LoadBalancerAssumption`, for any proxies, calls, kills:

* `BalancerTypeCorrect`: `Spec => []TypeOK`.
* `FailoverWorks`: `Spec => []FailoverReachesProxy`. `BalancerInv` adds
  `BlameJustified` (what nginx avoids or tried in vain has failed, so a call without
  candidates means that all have) and `Delivery` (what each state of a call says about
  who got the request).
* `NeverExecutedTwice`: `Spec => []ExecutedOnce`, from `Delivery`: a call that may
  still be sent was not delivered to anybody.

`SignerMutexProofs`, with `RequestsAssumption`, for any number of signers, requests and
messages, with handlers interrupted at any place:

* `MutexTypeCorrect`, and `AnsweredOnce`: `Spec => []NonceAnsweredOnce`. `MutexInv` says what the lock
  protects: whoever is past `Lock` holds it (`PastLockHolds`), a half-done `/commit` has one
  live nonce nobody has heard of (`PendingUnknown`), what a half-done `/sign` looked up is
  still live (`LookedUpStillLive`), and a nonce that was used or answered with is not live
  (`UsedNoncesCleared`). Without `PastLockHolds` two handlers could be in the middle of one signer and
  none of the others would survive a step.
* `HandlersAtomic`: `Spec => ImplementsSignerNode`. First halves stutter; second halves are the
  handlers of `SignerNode`.
* `InterleavedNonceSafety`: `NonceSingleUse` for the interleaved handlers.

`CoordinatorProofs`, from `CoordinatorAssumption`, for any list of different ports, any
requests, any threshold and all faults:

* `CoordinatorTypeCorrect`, `ResponsesBacked`, `SharesAggregate` and `NoncesKept`. `CoordInv` adds
  `Progress` (what the loops have collected up to `next`), `CommitmentsOwned` (no nonce is
  in the lists of two requests) and `SharesAskedFor` (whose list a share was made
  for). Unlike a proxy's calls, requests may be for the same message, so shares are told
  apart by their nonces and not by their message.
* `CoordinatorNonceSafety`: the coordinator's steps are steps of `SignerSpec`, hence
  `NonceSingleUse`.

`DKGProofs`, from `DKGAssumption`, for any number of signers, ceremonies and restarts:

* `DKGTypeCorrect`, `GroupKeysWhole`, `PackagesNeverMixed`, `UndisturbedCeremonySound`. `DKGInv` has
  two layers. `Progress` and `Routed` hold of every ceremony: its commitments are those of
  its own polynomials, and its packages go where they are addressed, at most one from each
  signer and none missing when they are distributed; this gives `GroupKeyWhole`, since what is
  broadcast is always a full list of one
  ceremony. `Alone` holds while no call of another ceremony was served: each
  signer that was heard still has the participant and the list of this ceremony, *or
  none*, since a restart empties them; then the ceremony fails, so that one which
  completes has exactly the packages it should.

`KeyBootstrapProofs`, from `BootstrapAssumption`, for any number of signers, generations and
passwords:

* `BootstrapTypeCorrect`.
* `OneGenerationSafe`: `Spec => []OneGenerationFits`, from `OnlyGenerated`: nothing is in any source or
  process that keygen did not generate.
* `TiersInterchangeable`: `Spec => []RestartedSignersAgree`, since a command that changes a
  source empties `fresh`, so every process in it was started from the sources as they are.
* `EncryptedFileServes`: `Spec => []EncryptedCopySuffices`, by the same argument, whatever the
  plain file holds.

`EcdsaKeyProofs` also has:

* `CopiesStayInterchangeable`: `Spec => CopiesInterchangeable`. For a set of files that begin with the
  deployed key, `CopiesInv` says that those of them with no failed read still hold it and
  that nobody on them has, signed with or published another.
* `SignaturesAreP1363`: `Spec => []SignatureIsP1363`, for every `Radix > 1`, every `CurveSize` and all
  scalars that fit. `PadLeftFills` is the lemma behind it: padding what `big.Int.Bytes` returns gives the
  fixed-width number, because bytes are left out exactly where `n < Place[k]`. That
  `Place` satisfies its equation, is positive and grows needs induction; the
  library's induction rules are out of the provers' reach, so `LeastNatural` (from the library's
  theorem on well-founded relations) gives the least number for which the claim fails,
  and the proofs derive a contradiction from it.

TLC, too, finds `SessionInv`, `StrandInv`, `MutexInv`, `CoordInv`, `DKGInv` and `OnlyGenerated`
invariant on the instances of section 3. Proving changed no statement, but changed how a few things are written: no
powers in `EcdsaKey`, no `@@` in `Coordinator`; `DKG` and `KeyBootstrap` now assume
explicitly that their constants for "nothing there" differ from what can be there.

Only model-checked: the liveness properties (`RequestsAnswered`, `CallReturns`,
`GoroutinesEnd`, `QuorumDecides`, `RequestReturns`, `CeremonyEnds`, `CallAnswered`). Their proofs
rest on when a fair action is enabled, and the prover has no rules for `ENABLED`. `CallReturns` and
`GoroutinesEnd` assume that the signers a call or goroutine waits for do not hang *for good*:
a hang that is over, in either round, only delays. The three
runs that show a disagreement have a counterexample and need no proof.

## 5. Not modelled

* The signer pool of `internal/froststate/state.go`: filled at start, used by nobody.
* `Metadata`, `/health` and `/signer-health`: they return what they find.
* The unix socket listener `ListenAndServe`: the deployment listens on TCP.
* TLS (`internal/mtls`): a client built once; what matters here is that it has no
  timeout. An expired or wrong certificate is a connection that fails.
* `internal/coordinator`, `internal/signer` and `cmd/frostlab`: sequential
  demonstrations in one process, part of no service.
* Generated protobuf code; Docker's and nginx's resolution of host names.

The signing models take the signers' key shares to match the configuration, which
is what `KeyBootstrap` is about. A hang of Vault, which keeps a signer from
starting, is a signer that is down.

## 6. Plan

Done, in this order: signers, proxies with the oracle, HTTP coordinator, DKG,
token key, key bootstrap, the lock of the signer, the load balancer; then the proofs of
section 4, which now cover each safety property, action property and refinement that
a passing run checks. Left:

1. The safety core of the liveness arguments, that is, what can be said of them
   without `ENABLED`: for a call that has not returned, some goroutine, signer or
   connection it waits for has a step to take unless a signer hangs. `SessionInv`,
   `CoordInv` and `DKGInv` are what such theorems would start from.
2. A composition of `LoadBalancer` with `GrpcProxy`, should the proxies ever keep state
   between calls; today the only thing they share is the signers.
