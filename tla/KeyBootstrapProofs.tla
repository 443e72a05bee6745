------------------------- MODULE KeyBootstrapProofs -------------------------
(***************************************************************************)
(* What processes load when they start fits together: for any number of    *)
(* signers, generations of keys and passwords, and any order of commands,  *)
(* interruptions, starts and stops.                                        *)
(***************************************************************************)
EXTENDS KeyBootstrap, FiniteSetTheorems, TLAPS

\* What froststate.Init puts together from well-typed sources is a signer state.
LEMMA LoadedSignerType ==
  ASSUME TypeOK, NEW s \in Signers, NEW reachable \in BOOLEAN,
         KeysData(s, reachable) \in Gens
  PROVE  LoadedSigner(s, reachable) \in SignerStates
<1>1. 1 \in Signers
  BY BootstrapAssumption DEF Signers
<1>2. loadShareFromVault(s, reachable) # None =>
        loadShareFromVault(s, reachable) \in KeyShares
  BY DEF TypeOK, loadShareFromVault
<1>3. StoredShares(s, reachable) \in [Signers -> KeyShares]
  BY <1>2 DEF StoredShares, KeyShares
<1>4. StoredShares(s, reachable)[1][2] \in Gens
  BY <1>1, <1>3 DEF KeyShares
<1> QED
  BY <1>3, <1>4 DEF LoadedSigner, SignerStates

\* Sources and processes keep their types, whichever command stops half-way.
THEOREM BootstrapTypeCorrect == Spec => []TypeOK
<1> USE BootstrapAssumption
<1>1. Init => TypeOK
  BY DEF Init, TypeOK, Content
<1>2. TypeOK /\ [Next]_vars => TypeOK'
  <2> SUFFICES ASSUME TypeOK, [Next]_vars PROVE TypeOK'
    OBVIOUS
  <2> USE DEF TypeOK, SourcesChanged, sources
  <2>1. CASE UNCHANGED vars
    BY <2>1 DEF vars
  <2>2. ASSUME NEW g \in Gens, Keygen(g) PROVE TypeOK'
    BY <2>2 DEF Keygen, Content
  <2>3. CASE KeygenDies \/ DeletePlain
    BY <2>3 DEF KeygenDies, DeletePlain, Content
  <2>4. ASSUME NEW p \in Passwords, SaveEncryptedKeys(p) PROVE TypeOK'
    BY <2>4 DEF SaveEncryptedKeys, EncryptedStores
  <2>5. CASE SaveEncryptedKeysDies
    BY <2>5 DEF SaveEncryptedKeysDies
  <2>6. ASSUME NEW s \in Signers, VaultPut(s) PROVE TypeOK'
    BY <2>6 DEF VaultPut, KeyShares
  <2>7. CASE VaultRestart
    BY <2>7 DEF VaultRestart
  <2>8. ASSUME NEW s \in Signers, NEW reachable \in BOOLEAN, SignerStarts(s, reachable)
        PROVE  TypeOK'
    <3>1. LoadedSigner(s, reachable) \in SignerStates
      BY <2>8, LoadedSignerType DEF SignerStarts
    <3> QED
      BY <2>8, <3>1 DEF SignerStarts
  <2>9. ASSUME NEW s \in Signers, NEW reachable \in BOOLEAN, SignerFails(s, reachable)
        PROVE  TypeOK'
    BY <2>9 DEF SignerFails
  <2>10. ASSUME NEW s \in Signers, SignerStops(s) PROVE TypeOK'
    BY <2>10 DEF SignerStops
  <2>11. CASE ProxyStarts \/ ProxyStops
    BY <2>11 DEF ProxyStarts, ProxyStops
  <2> QED
    BY <2>1, <2>2, <2>3, <2>4, <2>5, <2>6, <2>7, <2>8, <2>9, <2>10, <2>11 DEF Next
<1> QED
  BY <1>1, <1>2, PTL DEF Spec

-----------------------------------------------------------------------------
(* One generation.                                                         *)

\* The shares of signer t that keygen ever made.
SharesOf(t) == {<<t, g>> : g \in generated}

\* Nothing is in a source, and nothing is loaded, that keygen did not make; and
\* every share is where its ID says.
OnlyGenerated ==
  /\ IsFiniteSet(generated)
  /\ plain \in generated \cup {Torn, None}
  /\ enc \in EncryptedStores => enc.content \in generated \cup {Torn}
  /\ \A s \in Signers : vault[s] \in SharesOf(s) \cup {None}
  /\ proxy \in generated \cup {Down, Failed}
  /\ \A s \in Signers : signer[s] \notin {Down, Failed} =>
       /\ signer[s].share \in SharesOf(s)
       /\ signer[s].VerificationKey \in generated
       /\ \A t \in Signers : signer[s].publicShares[t] \in SharesOf(t)

\* The data that Init decodes, and what it makes of them, was generated.
LEMMA LoadedWasGenerated ==
  ASSUME TypeOK, OnlyGenerated, NEW s \in Signers, NEW reachable \in BOOLEAN,
         KeysData(s, reachable) \in Gens
  PROVE  /\ LoadedSigner(s, reachable).share \in SharesOf(s)
         /\ LoadedSigner(s, reachable).VerificationKey \in generated
         /\ \A t \in Signers : LoadedSigner(s, reachable).publicShares[t] \in SharesOf(t)
<1> USE BootstrapAssumption
<1>1. KeysData(s, reachable) \in generated
  BY DEF OnlyGenerated, KeysData, ConfigData, LocalKeysData, LoadDecryptedKeys
<1>2. loadShareFromVault(s, reachable) # None =>
        loadShareFromVault(s, reachable) \in SharesOf(s)
  BY DEF OnlyGenerated, loadShareFromVault
<1>3. \A t \in Signers : StoredShares(s, reachable)[t] \in SharesOf(t)
  BY <1>1, <1>2 DEF StoredShares, SharesOf
<1>4. 1 \in Signers
  BY DEF Signers
<1>5. StoredShares(s, reachable)[1][2] \in generated
  BY <1>3, <1>4 DEF SharesOf
<1> QED
  BY <1>3, <1>5 DEF LoadedSigner

\* Sources and processes only ever hold what keygen made.
THEOREM NothingForeign == Spec => []OnlyGenerated
<1> USE BootstrapAssumption
<1>1. Init => OnlyGenerated
  BY FS_EmptySet DEF Init, OnlyGenerated
<1>2. TypeOK /\ TypeOK' /\ OnlyGenerated /\ [Next]_vars => OnlyGenerated'
  <2> SUFFICES ASSUME TypeOK, TypeOK', OnlyGenerated, [Next]_vars PROVE OnlyGenerated'
    OBVIOUS
  <2>0. \A t : UNCHANGED generated => SharesOf(t)' = SharesOf(t)
    BY DEF SharesOf
  <2>1. CASE UNCHANGED vars
    BY <2>1, <2>0 DEF vars, sources, OnlyGenerated
  <2>2. ASSUME NEW g \in Gens, Keygen(g) PROVE OnlyGenerated'
    <3>1. \A t : SharesOf(t) \subseteq SharesOf(t)'
      BY <2>2 DEF Keygen, SharesOf
    <3>2. IsFiniteSet(generated')
      BY <2>2, FS_AddElement DEF Keygen, OnlyGenerated
    <3> QED
      BY <2>2, <3>1, <3>2 DEF Keygen, SourcesChanged, OnlyGenerated
  <2>3. CASE KeygenDies \/ DeletePlain
    BY <2>0, <2>3 DEF KeygenDies, DeletePlain, SourcesChanged, OnlyGenerated
  <2>4. ASSUME NEW p \in Passwords, SaveEncryptedKeys(p) PROVE OnlyGenerated'
    BY <2>0, <2>4 DEF SaveEncryptedKeys, SourcesChanged, OnlyGenerated
  <2>5. CASE SaveEncryptedKeysDies
    BY <2>0, <2>5 DEF SaveEncryptedKeysDies, SourcesChanged, OnlyGenerated
  <2>6. ASSUME NEW s \in Signers, VaultPut(s) PROVE OnlyGenerated'
    <3>1. plain \in Gens => <<s, plain>> \in SharesOf(s)
      BY DEF OnlyGenerated, SharesOf
    <3>2. vault' = [vault EXCEPT ![s] = IF plain \in Gens THEN <<s, plain>> ELSE None]
      BY <2>6 DEF VaultPut
    <3>3. \A t \in Signers : vault'[t] \in SharesOf(t) \cup {None}
      BY <3>1, <3>2 DEF TypeOK, OnlyGenerated
    <3> QED
      BY <2>0, <2>6, <3>3 DEF VaultPut, SourcesChanged, OnlyGenerated
  <2>7. CASE VaultRestart
    BY <2>0, <2>7 DEF VaultRestart, SourcesChanged, OnlyGenerated
  <2>8. ASSUME NEW s \in Signers, NEW reachable \in BOOLEAN, SignerStarts(s, reachable)
        PROVE  OnlyGenerated'
    <3> DEFINE loaded == LoadedSigner(s, reachable)
    <3>1. /\ signer' = [signer EXCEPT ![s] = loaded]
          /\ UNCHANGED <<plain, enc, vault, generated, proxy>>
      BY <2>8 DEF SignerStarts, sources
    <3>2. /\ loaded.share \in SharesOf(s)
          /\ loaded.VerificationKey \in generated
          /\ \A t \in Signers : loaded.publicShares[t] \in SharesOf(t)
      BY <2>8, LoadedWasGenerated DEF SignerStarts
    <3> HIDE DEF loaded
    <3> QED
      BY <2>0, <3>1, <3>2 DEF TypeOK, OnlyGenerated
  <2>9. ASSUME NEW s \in Signers, NEW reachable \in BOOLEAN, SignerFails(s, reachable)
        PROVE  OnlyGenerated'
    BY <2>0, <2>9 DEF SignerFails, sources, TypeOK, OnlyGenerated
  <2>10. ASSUME NEW s \in Signers, SignerStops(s) PROVE OnlyGenerated'
    BY <2>0, <2>10 DEF SignerStops, sources, TypeOK, OnlyGenerated
  <2>11. CASE ProxyStarts \/ ProxyStops
    BY <2>0, <2>11 DEF ProxyStarts, ProxyStops, sources, OnlyGenerated
  <2> QED
    BY <2>1, <2>2, <2>3, <2>4, <2>5, <2>6, <2>7, <2>8, <2>9, <2>10, <2>11 DEF Next
<1> QED
  BY <1>1, <1>2, BootstrapTypeCorrect, PTL DEF Spec

\* As long as keygen ran once, everything that runs fits together, whatever was
\* interrupted, repeated or forgotten.
THEOREM OneGenerationSafe == Spec => []OneGenerationFits
<1>1. OnlyGenerated => OneGenerationFits
  <2> SUFFICES ASSUME OnlyGenerated, Cardinality(generated) = 1, NEW g \in generated
               PROVE  /\ \A s \in Signers : signer[s] \notin {Down, Failed} =>
                           ServesGeneration(s, g)
                      /\ proxy \in {g, Down, Failed}
    BY DEF OneGenerationFits
  <2>1. PICK x : generated = {x}
    BY FS_Singleton DEF OnlyGenerated
  <2>2. generated = {g}
    BY <2>1
  <2>3. \A t : SharesOf(t) = {<<t, g>>}
    BY <2>2 DEF SharesOf
  <2> QED
    BY <2>2, <2>3 DEF OnlyGenerated, ServesGeneration
<1> QED
  BY <1>1, NothingForeign, PTL

-----------------------------------------------------------------------------
(* Several generations.                                                    *)

\* When the sources agree, froststate.Init finds one generation everywhere, and
\* cannot fail.
LEMMA AgreeingSourcesLoad ==
  ASSUME TypeOK, NEW g \in Gens, SourcesAgree(g),
         NEW s \in Signers, NEW reachable \in BOOLEAN
  PROVE  /\ KeysData(s, reachable) = g
         /\ LoadedSigner(s, reachable).share = <<s, g>>
         /\ LoadedSigner(s, reachable).VerificationKey = g
         /\ \A t \in Signers : LoadedSigner(s, reachable).publicShares[t] = <<t, g>>
<1> USE BootstrapAssumption
<1>1. KeysData(s, reachable) = g
  BY DEF SourcesAgree, KeysData, ConfigData, LocalKeysData
<1>2. loadShareFromVault(s, reachable) \in {<<s, g>>, None}
  BY DEF SourcesAgree, loadShareFromVault
<1>3. \A t \in Signers : StoredShares(s, reachable)[t] = <<t, g>>
  BY <1>1, <1>2 DEF StoredShares
<1>4. 1 \in Signers
  BY DEF Signers
<1> QED
  BY <1>1, <1>3, <1>4 DEF LoadedSigner

\* A step that leaves the sources alone leaves them in agreement.
LEMMA AgreementKept ==
  ASSUME UNCHANGED sources, NEW g
  PROVE  SourcesAgree(g)' <=> SourcesAgree(g)
BY DEF sources, SourcesAgree, LoadDecryptedKeys

\* Whatever ran and was generated before: once the tiers agree, every signer that
\* starts serves their generation, whichever of the tiers answers it.
THEOREM TiersInterchangeable == Spec => []RestartedSignersAgree
<1> USE BootstrapAssumption
<1>1. Init => RestartedSignersAgree
  BY DEF Init, RestartedSignersAgree
<1>2. TypeOK /\ TypeOK' /\ RestartedSignersAgree /\ [Next]_vars => RestartedSignersAgree'
  <2> SUFFICES ASSUME TypeOK, TypeOK', RestartedSignersAgree, [Next]_vars
               PROVE  RestartedSignersAgree'
    OBVIOUS
  <2>1. CASE UNCHANGED vars
    BY <2>1, AgreementKept DEF vars, RestartedSignersAgree, ServesGeneration
  <2>2. CASE SourcesChanged
    BY <2>2 DEF SourcesChanged, RestartedSignersAgree
  <2>3. ASSUME NEW s \in Signers, NEW reachable \in BOOLEAN,
               SignerStarts(s, reachable) \/ SignerFails(s, reachable)
        PROVE  RestartedSignersAgree'
    <3> SUFFICES ASSUME NEW g \in Gens, SourcesAgree(g)', NEW t \in fresh' \ {Proxy}
                 PROVE  (signer[t] \notin {Down, Failed} /\ ServesGeneration(t, g))'
      BY DEF RestartedSignersAgree
    <3>1. SourcesAgree(g) /\ t \in Signers /\ fresh' = fresh \cup {s}
      BY <2>3, AgreementKept DEF SignerStarts, SignerFails, TypeOK
    <3> DEFINE loaded == LoadedSigner(s, reachable)
    <3>2. /\ KeysData(s, reachable) = g
          /\ loaded.share = <<s, g>>
          /\ loaded.VerificationKey = g
          /\ \A u \in Signers : loaded.publicShares[u] = <<u, g>>
      BY <3>1, AgreeingSourcesLoad
    <3>3. signer' = [signer EXCEPT ![s] = loaded] /\ loaded \in SignerStates
      BY <2>3, <3>2, LoadedSignerType DEF SignerStarts, SignerFails, MayBeRefused
    <3> HIDE DEF loaded
    <3>4. CASE t = s
      BY <3>2, <3>3, <3>4 DEF TypeOK, ServesGeneration
    <3>5. CASE t # s
      BY <3>1, <3>3, <3>5 DEF TypeOK, RestartedSignersAgree, ServesGeneration
    <3> QED
      BY <3>4, <3>5
  <2>4. ASSUME NEW s \in Signers, SignerStops(s) PROVE RestartedSignersAgree'
    BY <2>4, AgreementKept DEF SignerStops, RestartedSignersAgree, ServesGeneration, TypeOK
  <2>5. CASE ProxyStarts \/ ProxyStops
    BY <2>5, AgreementKept DEF ProxyStarts, ProxyStops, RestartedSignersAgree, ServesGeneration
  <2> QED
    BY <2>1, <2>2, <2>3, <2>4, <2>5
    DEF Next, Keygen, KeygenDies, SaveEncryptedKeys, SaveEncryptedKeysDies, DeletePlain,
        VaultPut, VaultRestart
<1> QED
  BY <1>1, <1>2, BootstrapTypeCorrect, PTL DEF Spec

\* Without a share in Vault, froststate.Init finds the encrypted file first.
LEMMA EncryptedFileLoads ==
  ASSUME TypeOK, NEW s \in Signers, NEW reachable \in BOOLEAN,
         vault[s] = None, LoadDecryptedKeys \in Gens
  PROVE  /\ KeysData(s, reachable) = LoadDecryptedKeys
         /\ LoadedSigner(s, reachable).share = <<s, LoadDecryptedKeys>>
         /\ LoadedSigner(s, reachable).VerificationKey = LoadDecryptedKeys
         /\ \A t \in Signers :
              LoadedSigner(s, reachable).publicShares[t] = <<t, LoadDecryptedKeys>>
<1> USE BootstrapAssumption
<1>1. loadShareFromVault(s, reachable) = None
  BY DEF loadShareFromVault
<1>2. KeysData(s, reachable) = LoadDecryptedKeys
  BY <1>1 DEF KeysData, LocalKeysData
<1>3. \A t \in Signers : StoredShares(s, reachable)[t] = <<t, LoadDecryptedKeys>>
  BY <1>1, <1>2 DEF StoredShares
<1>4. 1 \in Signers
  BY DEF Signers
<1> QED
  BY <1>2, <1>3, <1>4 DEF LoadedSigner

\* A signer that starts while Vault has no share for it serves what the encrypted
\* file holds: no interrupted keygen and no missing plain file keeps it from it.
THEOREM EncryptedFileServes == Spec => []EncryptedCopySuffices
<1> USE BootstrapAssumption
<1>1. Init => EncryptedCopySuffices
  BY DEF Init, EncryptedCopySuffices
<1>2. TypeOK /\ TypeOK' /\ EncryptedCopySuffices /\ [Next]_vars => EncryptedCopySuffices'
  <2> SUFFICES ASSUME TypeOK, TypeOK', EncryptedCopySuffices, [Next]_vars
               PROVE  EncryptedCopySuffices'
    OBVIOUS
  <2>0. UNCHANGED sources => vault' = vault /\ LoadDecryptedKeys' = LoadDecryptedKeys
    BY DEF sources, LoadDecryptedKeys
  <2>1. CASE UNCHANGED vars
    BY <2>0, <2>1 DEF vars, EncryptedCopySuffices, ServesGeneration
  <2>2. CASE SourcesChanged
    BY <2>2 DEF SourcesChanged, EncryptedCopySuffices
  <2>3. ASSUME NEW s \in Signers, NEW reachable \in BOOLEAN,
               SignerStarts(s, reachable) \/ SignerFails(s, reachable)
        PROVE  EncryptedCopySuffices'
    <3>1. /\ vault' = vault /\ LoadDecryptedKeys' = LoadDecryptedKeys
          /\ fresh' = fresh \cup {s}
      BY <2>0, <2>3 DEF SignerStarts, SignerFails
    <3>2. PICK g : g = LoadDecryptedKeys
      OBVIOUS
    <3> SUFFICES ASSUME NEW t \in fresh' \ {Proxy}, vault[t] = None, g \in Gens
                 PROVE  (signer[t] \notin {Down, Failed} /\ ServesGeneration(t, g))'
      BY <3>1, <3>2 DEF EncryptedCopySuffices
    <3>3. t \in Signers
      BY DEF TypeOK
    <3>4. CASE t = s
      <4> DEFINE loaded == LoadedSigner(s, reachable)
      <4>1. /\ KeysData(s, reachable) = g
            /\ loaded.share = <<s, g>>
            /\ loaded.VerificationKey = g
            /\ \A u \in Signers : loaded.publicShares[u] = <<u, g>>
        BY <3>2, <3>4, EncryptedFileLoads
      <4>2. signer' = [signer EXCEPT ![s] = loaded] /\ loaded \in SignerStates
        BY <2>3, <4>1, LoadedSignerType DEF SignerStarts, SignerFails, MayBeRefused
      <4> HIDE DEF loaded
      <4> QED
        BY <3>4, <4>1, <4>2 DEF TypeOK, ServesGeneration
    <3>5. CASE t # s
      <4>1. signer'[t] = signer[t]
        BY <2>3, <3>3, <3>5 DEF SignerStarts, SignerFails, TypeOK
      <4>2. signer[t] \notin {Down, Failed} /\ ServesGeneration(t, g)
        BY <3>1, <3>2, <3>5 DEF EncryptedCopySuffices
      <4> QED
        BY <4>1, <4>2 DEF ServesGeneration
    <3> QED
      BY <3>4, <3>5
  <2>4. ASSUME NEW s \in Signers, SignerStops(s) PROVE EncryptedCopySuffices'
    BY <2>0, <2>4 DEF SignerStops, EncryptedCopySuffices, ServesGeneration, TypeOK
  <2>5. CASE ProxyStarts \/ ProxyStops
    BY <2>0, <2>5 DEF ProxyStarts, ProxyStops, EncryptedCopySuffices, ServesGeneration
  <2> QED
    BY <2>1, <2>2, <2>3, <2>4, <2>5
    DEF Next, Keygen, KeygenDies, SaveEncryptedKeys, SaveEncryptedKeysDies, DeletePlain,
        VaultPut, VaultRestart
<1> QED
  BY <1>1, <1>2, BootstrapTypeCorrect, PTL DEF Spec
=============================================================================
