----------------------------- MODULE DKGProofs ------------------------------
(***************************************************************************)
(* What the distributed key generation keeps true for every number of      *)
(* signers, any number of overlapping ceremonies and of restarts.          *)
(***************************************************************************)
EXTENDS DKG, FiniteSetTheorems, TLAPS

\* The polynomials of all signers of ceremony c.
AllPolys(c) == {<<o, c>> : o \in Signers}

\* The current loop of c has had the answer of signer s.
Heard(c, s) == s < i[c] \/ (s = i[c] /\ call[c] = "answered")

\* Signer s drew its polynomial for c, was sent its commitments, computed its share.
Drew(c, s) == (pc[c] = "round1" /\ Heard(c, s)) \/ pc[c] \in {"broadcast", "round2", "distribute"}
Informed(c, s) == (pc[c] = "broadcast" /\ Heard(c, s)) \/ pc[c] \in {"round2", "distribute"}
Finalized(c, s) == (pc[c] = "distribute" /\ Heard(c, s)) \/ pc[c] = "complete"

\* The second round of c has collected the package of signer o for signer t.
Collected(c, o, t) == pc[c] = "distribute" \/ o < i[c] \/ (o = i[c] /\ t < j[c])

Package(c, o, t) == [FromID |-> o, ToID |-> t, poly |-> <<o, c>>]

\* What a ceremony knows about itself, disturbed or not.
Progress(c) ==
  /\ pc[c] \in {"idle", "complete"} => call[c] = "none"
  /\ pc[c] \in Loops => call[c] \in {pc[c], "answered", "broken"}
  /\ pc[c] \in {"idle", "round1", "broadcast"} =>
       j[c] = 1 /\ \A t \in Signers : sharesByTarget[c][t] = {}
  /\ pc[c] = "idle" => commitments[c] = {}
  /\ pc[c] = "round1" => commitments[c] = {<<o, c>> : o \in {s \in Signers : s < i[c]}}
  /\ pc[c] \in {"broadcast", "round2", "distribute"} => commitments[c] = AllPolys(c)
  /\ call[c] = "broadcast" => commitments[c] = AllPolys(c)
  /\ call[c] = "answered" /\ pc[c] = "round1" => replyPoly[c] = <<i[c], c>>
  /\ call[c] = "answered" /\ pc[c] = "round2" =>
       replyPoly[c] \in Polys /\ replyPoly[c][1] = i[c]

\* Its packages, disturbed or not.
Routed(c) ==
  \A t \in Signers :
    /\ IsFiniteSet(sharesByTarget[c][t])
    /\ \A p, q \in sharesByTarget[c][t] :
         /\ p.ToID = t /\ p.poly[1] = p.FromID
         /\ p.FromID = q.FromID => p = q
    /\ pc[c] = "round2" => \A p \in sharesByTarget[c][t] : Collected(c, p.FromID, t)
    /\ pc[c] \in {"round2", "distribute"} => \A o \in Signers :
         Collected(c, o, t) => \E p \in sharesByTarget[c][t] : p.FromID = o

\* The key share of signer s is sound, as CompleteCeremonySound asks.
SoundShare(c, s) ==
  /\ keyShare[c][s] # NoResult
  /\ keyShare[c][s].VerificationKey = AllPolys(c)
  /\ \A p \in Polys : p[1] # s =>
       keyShare[c][s].Secret[p] = IF p[2] = c THEN 1 ELSE 0

\* What it may rely on as long as no call of another ceremony was served.  A
\* restart in between leaves a nil participant, and the ceremony then fails.
Alone(c) ==
  /\ \A s \in Signers : Drew(c, s) => dkgParticipant[s] \in {<<s, c>>, NoPoly}
  /\ \A s \in Signers : Informed(c, s) /\ dkgParticipant[s] # NoPoly =>
       allCommitments[s] = AllPolys(c)
  /\ pc[c] = "round2" /\ call[c] = "answered" => replyPoly[c] = <<i[c], c>>
  /\ pc[c] \in {"round2", "distribute"} => \A t \in Signers :
       sharesByTarget[c][t] = {Package(c, o, t) : o \in {s \in Signers : Collected(c, s, t)}}
  /\ \A s \in Signers : Finalized(c, s) => SoundShare(c, s)

ParticipantsOwn ==
  \A s \in Signers : dkgParticipant[s] # NoPoly => dkgParticipant[s][1] = s

CeremonyInv(c) == Progress(c) /\ Routed(c) /\ (~disturbed[c] => Alone(c))

DKGInv ==
  /\ TypeOK
  /\ ParticipantsOwn
  /\ GroupKeyWhole
  /\ \A c \in Ceremonies : CeremonyInv(c)

-----------------------------------------------------------------------------
LEMMA Types == N \in Nat /\ Signers \subseteq Nat /\ 1 \in Signers /\ N \in Signers
BY DKGAssumption DEF Signers

LEMMA PolyOf ==
  ASSUME NEW s \in Signers, NEW c \in Ceremonies
  PROVE  <<s, c>> \in Polys /\ <<s, c>> # NoPoly
BY DKGAssumption DEF Polys

LEMMA DKGInvInit == Init => DKGInv
<1> SUFFICES ASSUME Init PROVE DKGInv
  OBVIOUS
<1>1. TypeOK
  BY Types, DKGAssumption DEF Init, TypeOK, CallStates
<1>2. ParticipantsOwn /\ GroupKeyWhole
  BY DEF Init, ParticipantsOwn, GroupKeyWhole
<1>3. ASSUME NEW c \in Ceremonies PROVE CeremonyInv(c)
  <2>1. Progress(c)
    BY DEF Init, Progress, Loops
  <2>2. Routed(c)
    BY FS_EmptySet DEF Init, Routed
  <2>3. Alone(c)
    BY DEF Init, Alone, Drew, Informed, Finalized
  <2> QED
    BY <2>1, <2>2, <2>3 DEF CeremonyInv
<1> QED
  BY <1>1, <1>2, <1>3 DEF DKGInv

-----------------------------------------------------------------------------
\* The step leaves what ceremony d keeps as it is.
Untouched(d) ==
  /\ pc'[d] = pc[d] /\ i'[d] = i[d] /\ j'[d] = j[d]
  /\ call'[d] = call[d] /\ replyPoly'[d] = replyPoly[d]
  /\ commitments'[d] = commitments[d] /\ sharesByTarget'[d] = sharesByTarget[d]
  /\ keyShare'[d] = keyShare[d]

\* A step of another ceremony disturbs d or leaves what d relies on.
LEMMA OtherCeremony ==
  ASSUME NEW d \in Ceremonies, CeremonyInv(d), Untouched(d), disturbed[d] => disturbed'[d],
         \/ disturbed'[d] \/ pc[d] \notin Loops
         \/ UNCHANGED <<dkgParticipant, allCommitments>>
  PROVE  CeremonyInv(d)'
<1>1. Progress(d)'
  BY DEF CeremonyInv, Untouched, Progress, AllPolys
<1>2. Routed(d)'
  BY DEF CeremonyInv, Untouched, Routed, Collected
<1>3. ASSUME Alone(d), ~disturbed'[d] PROVE Alone(d)'
  <2>1. \A s \in Signers : /\ Drew(d, s)' <=> Drew(d, s)
                           /\ Informed(d, s)' <=> Informed(d, s)
                           /\ Finalized(d, s)' <=> Finalized(d, s)
                           /\ SoundShare(d, s)' <=> SoundShare(d, s)
    BY DEF Untouched, Drew, Informed, Finalized, SoundShare, Heard, AllPolys
  <2>2. \A o, t \in Signers : Collected(d, o, t)' <=> Collected(d, o, t)
    BY DEF Untouched, Collected
  <2>3. (\E s \in Signers : Drew(d, s) \/ Informed(d, s)) =>
          UNCHANGED <<dkgParticipant, allCommitments>>
    BY <1>3 DEF Drew, Informed, Loops
  <2>4. pc[d] \in {"round2", "distribute"} => \A t \in Signers :
          sharesByTarget'[d][t] = {Package(d, o, t) : o \in {s \in Signers : Collected(d, s, t)'}}
    BY <1>3, <2>2 DEF Alone, Untouched
  <2>5. \A s \in Signers : Drew(d, s)' => dkgParticipant'[s] \in {<<s, d>>, NoPoly}
    BY <1>3, <2>1, <2>3 DEF Alone
  <2>6. \A s \in Signers : Informed(d, s)' /\ dkgParticipant'[s] # NoPoly =>
          allCommitments'[s] = AllPolys(d)
    BY <1>3, <2>1, <2>3 DEF Alone
  <2>7. pc'[d] = "round2" /\ call'[d] = "answered" => replyPoly'[d] = <<i'[d], d>>
    BY <1>3 DEF Alone, Untouched
  <2>8. \A s \in Signers : Finalized(d, s)' => SoundShare(d, s)'
    BY <1>3, <2>1 DEF Alone
  <2> QED
    BY <2>4, <2>5, <2>6, <2>7, <2>8 DEF Alone, Untouched, Package, AllPolys
<1> QED
  BY <1>1, <1>2, <1>3 DEF CeremonyInv

\* A served call leaves every other ceremony as it is, or disturbs it.
LEMMA ServedFrame ==
  ASSUME DKGInv, NEW c \in Ceremonies, NEW outcome, Served(c, outcome),
         NEW d \in Ceremonies, d # c,
         keyShare'[d] = keyShare[d], replyPoly'[d] = replyPoly[d]
  PROVE  CeremonyInv(d)'
<1>1. Untouched(d)
  BY DEF DKGInv, TypeOK, Served, loopVars, Untouched
<1>2. /\ disturbed[d] => disturbed'[d]
      /\ disturbed'[d] \/ pc[d] \notin Loops
  BY DEF DKGInv, TypeOK, Served
<1> QED
  BY <1>1, <1>2, OtherCeremony DEF DKGInv

\* The loops of c after its call was served.
LEMMA ServedProgress ==
  ASSUME DKGInv, NEW c \in Ceremonies, NEW outcome \in {"answered", "broken"},
         Served(c, outcome), call[c] \in Loops
  PROVE  /\ call' \in [Ceremonies -> CallStates] /\ call'[c] = outcome
         /\ disturbed' \in [Ceremonies -> BOOLEAN] /\ disturbed'[c] = disturbed[c]
         /\ pc[c] \notin {"idle", "complete"} /\ (pc[c] \in Loops => pc[c] = call[c])
         /\ Routed(c)'
<1>1. /\ call' = [call EXCEPT ![c] = outcome] /\ UNCHANGED <<pc, i, j, sharesByTarget>>
      /\ disturbed' = [d \in Ceremonies |-> disturbed[d] \/ (d # c /\ pc[d] \in Loops)]
  BY DEF Served, loopVars
<1>2. call' \in [Ceremonies -> CallStates] /\ call'[c] = outcome
  BY <1>1 DEF DKGInv, TypeOK, CallStates
<1>3. disturbed' \in [Ceremonies -> BOOLEAN] /\ disturbed'[c] = disturbed[c]
  BY <1>1 DEF DKGInv, TypeOK
<1>4. pc[c] \notin {"idle", "complete"} /\ (pc[c] \in Loops => pc[c] = call[c])
  BY DEF DKGInv, CeremonyInv, Progress, Loops
<1>5. Routed(c)'
  BY <1>1 DEF DKGInv, CeremonyInv, Routed, Collected
<1> QED
  BY <1>2, <1>3, <1>4, <1>5

LEMMA KeptByRound1 ==
  ASSUME DKGInv, NEW c \in Ceremonies, dkgRound1Handler(c)
  PROVE  DKGInv'
<1> USE DEF DKGInv
<1>1. /\ call[c] = "round1" /\ Served(c, "answered")
      /\ dkgParticipant' = [dkgParticipant EXCEPT ![i[c]] = <<i[c], c>>]
      /\ replyPoly' = [replyPoly EXCEPT ![c] = <<i[c], c>>]
      /\ UNCHANGED <<allCommitments, keyShare, pc, i, j, commitments, sharesByTarget, restarts>>
  BY DEF dkgRound1Handler, Served, loopVars
<1>2. i[c] \in Signers /\ i[c] \in Nat /\ <<i[c], c>> \in Polys
  BY PolyOf, Types DEF TypeOK
<1>3. /\ call' \in [Ceremonies -> CallStates] /\ call'[c] = "answered"
      /\ disturbed' \in [Ceremonies -> BOOLEAN] /\ disturbed'[c] = disturbed[c]
      /\ pc[c] \notin {"idle", "complete"} /\ (pc[c] \in Loops => pc[c] = "round1")
      /\ Routed(c)'
  BY <1>1, ServedProgress DEF Loops
<1>4. TypeOK'
  BY <1>1, <1>2, <1>3 DEF TypeOK
<1>5. ParticipantsOwn' /\ GroupKeyWhole'
  <2>1. ParticipantsOwn'
    BY <1>1, <1>2 DEF ParticipantsOwn, TypeOK
  <2>2. GroupKeyWhole'
    BY <1>1 DEF GroupKeyWhole
  <2> QED
    BY <2>1, <2>2
<1>6. \A d \in Ceremonies \ {c} : CeremonyInv(d)'
  BY <1>1, ServedFrame DEF TypeOK
<1>7. Progress(c)'
  BY <1>1, <1>3 DEF Progress, CeremonyInv, TypeOK, Loops, AllPolys
<1>8. ASSUME ~disturbed'[c] PROVE Alone(c)'
  <2>1. Alone(c) /\ (pc[c] = "round1" \/ pc[c] \notin Loops)
    BY <1>3, <1>8 DEF CeremonyInv
  <2>2. ASSUME NEW s \in Signers, Drew(c, s)' PROVE dkgParticipant'[s] \in {<<s, c>>, NoPoly}
    <3>1. CASE s = i[c]
      BY <1>1, <3>1 DEF TypeOK
    <3>2. CASE s # i[c]
      BY <1>1, <2>1, <2>2, <3>2 DEF Alone, Drew, Heard, TypeOK, Loops
    <3> QED
      BY <3>1, <3>2
  <2> QED
    BY <1>1, <1>3, <2>1, <2>2 DEF Alone, Informed, Finalized, Loops
<1> QED
  BY <1>3, <1>4, <1>5, <1>6, <1>7, <1>8 DEF CeremonyInv

LEMMA KeptByCommitments ==
  ASSUME DKGInv, NEW c \in Ceremonies, dkgCommitmentsHandler(c)
  PROVE  DKGInv'
<1> USE DEF DKGInv
<1>1. /\ call[c] = "broadcast" /\ Served(c, "answered")
      /\ allCommitments' = [allCommitments EXCEPT ![i[c]] = commitments[c]]
      /\ UNCHANGED <<dkgParticipant, keyShare, replyPoly, pc, i, j, commitments, sharesByTarget, restarts>>
  BY DEF dkgCommitmentsHandler, Served, loopVars
<1>2. i[c] \in Signers /\ i[c] \in Nat /\ commitments[c] \in SUBSET Polys
  BY Types DEF TypeOK
<1>3. /\ call' \in [Ceremonies -> CallStates] /\ call'[c] = "answered"
      /\ disturbed' \in [Ceremonies -> BOOLEAN] /\ disturbed'[c] = disturbed[c]
      /\ pc[c] \notin {"idle", "complete"} /\ (pc[c] \in Loops => pc[c] = "broadcast")
      /\ Routed(c)'
  BY <1>1, ServedProgress DEF Loops
<1>4. commitments[c] = AllPolys(c)
  BY <1>1 DEF CeremonyInv, Progress
<1>5. TypeOK'
  BY <1>1, <1>2, <1>3 DEF TypeOK
<1>6. ParticipantsOwn'
  BY <1>1 DEF ParticipantsOwn
<1>7. GroupKeyWhole'
  <2>1. \A s \in Signers : allCommitments'[s] \in {allCommitments[s], AllPolys(c)}
    BY <1>1, <1>4 DEF TypeOK
  <2> QED
    BY <1>1, <2>1 DEF GroupKeyWhole, AllPolys
<1>8. \A d \in Ceremonies \ {c} : CeremonyInv(d)'
  BY <1>1, ServedFrame DEF TypeOK
<1>9. Progress(c)'
  BY <1>1, <1>3, <1>4 DEF Progress, CeremonyInv, TypeOK, Loops, AllPolys
<1>10. ASSUME ~disturbed'[c] PROVE Alone(c)'
  <2>1. Alone(c) /\ (pc[c] = "broadcast" \/ pc[c] \notin Loops)
    BY <1>3, <1>10 DEF CeremonyInv
  <2>2. ASSUME NEW s \in Signers, Informed(c, s)', dkgParticipant'[s] # NoPoly
        PROVE  allCommitments'[s] = AllPolys(c)'
    <3>1. CASE s = i[c]
      BY <1>1, <1>4, <3>1 DEF TypeOK, AllPolys
    <3>2. CASE s # i[c]
      BY <1>1, <2>1, <2>2, <3>2 DEF Alone, Informed, Heard, TypeOK, Loops, AllPolys
    <3> QED
      BY <3>1, <3>2
  <2>3. \A s \in Signers : Drew(c, s)' => Drew(c, s)
    BY <1>1, <2>1 DEF Drew, Loops
  <2> QED
    BY <1>1, <1>3, <2>1, <2>2, <2>3 DEF Alone, Finalized, Loops
<1> QED
  BY <1>3, <1>5, <1>6, <1>7, <1>8, <1>9, <1>10 DEF CeremonyInv

LEMMA KeptByRound2 ==
  ASSUME DKGInv, NEW c \in Ceremonies, dkgRound2Handler(c)
  PROVE  DKGInv'
<1> USE DEF DKGInv
<1>1. /\ call[c] = "round2" /\ Served(c, "answered")
      /\ dkgParticipant[i[c]] # NoPoly
      /\ replyPoly' = [replyPoly EXCEPT ![c] = dkgParticipant[i[c]]]
      /\ UNCHANGED <<dkgParticipant, allCommitments, keyShare,
                     pc, i, j, commitments, sharesByTarget, restarts>>
  BY DEF dkgRound2Handler, Served, loopVars, signerVars
<1>2. /\ i[c] \in Signers /\ i[c] \in Nat
      /\ dkgParticipant[i[c]] \in Polys /\ dkgParticipant[i[c]][1] = i[c]
  BY <1>1, Types DEF TypeOK, ParticipantsOwn
<1>3. /\ call' \in [Ceremonies -> CallStates] /\ call'[c] = "answered"
      /\ disturbed' \in [Ceremonies -> BOOLEAN] /\ disturbed'[c] = disturbed[c]
      /\ pc[c] \notin {"idle", "complete"} /\ (pc[c] \in Loops => pc[c] = "round2")
      /\ Routed(c)'
  BY <1>1, ServedProgress DEF Loops
<1>4. TypeOK'
  BY <1>1, <1>2, <1>3 DEF TypeOK
<1>5. ParticipantsOwn' /\ GroupKeyWhole'
  BY <1>1 DEF ParticipantsOwn, GroupKeyWhole
<1>6. \A d \in Ceremonies \ {c} : CeremonyInv(d)'
  BY <1>1, ServedFrame DEF TypeOK
<1>7. Progress(c)'
  BY <1>1, <1>2, <1>3 DEF Progress, CeremonyInv, TypeOK, Loops, AllPolys
<1>8. ASSUME ~disturbed'[c] PROVE Alone(c)'
  <2>1. Alone(c) /\ (pc[c] = "round2" \/ pc[c] \notin Loops)
    BY <1>3, <1>8 DEF CeremonyInv
  <2>2. pc[c] = "round2" => replyPoly'[c] = <<i[c], c>>
    BY <1>1, <1>2, <2>1 DEF Alone, Drew, TypeOK
  <2>3. \A s \in Signers : /\ Drew(c, s)' => Drew(c, s)
                           /\ Informed(c, s)' => Informed(c, s)
                           /\ ~Finalized(c, s)'
    BY <1>1, <1>3, <2>1 DEF Drew, Informed, Finalized, Loops
  <2>4. \A s, t \in Signers : Collected(c, s, t)' <=> Collected(c, s, t)
    BY <1>1 DEF Collected
  <2>5. pc[c] = "round2" => \A t \in Signers :
          sharesByTarget[c][t] = {Package(c, o, t) : o \in {s \in Signers : Collected(c, s, t)'}}
    BY <2>1, <2>4 DEF Alone
  <2> QED
    BY <1>1, <1>3, <2>1, <2>2, <2>3, <2>5 DEF Alone, AllPolys, Package, Loops
<1> QED
  BY <1>3, <1>4, <1>5, <1>6, <1>7, <1>8 DEF CeremonyInv

\* Finalize: a sum of shares of polynomials.
LEMMA FinalSecretType ==
  ASSUME TypeOK, NEW c \in Ceremonies, NEW s \in Signers, Routed(c)
  PROVE  FinalSecret(s, sharesByTarget[c][s]) \in [Polys -> Nat]
<1>1. ASSUME NEW p \in Polys
      PROVE  Cardinality({pkg \in sharesByTarget[c][s] : pkg.ToID = s /\ pkg.poly = p}) \in Nat
  <2>1. IsFiniteSet(sharesByTarget[c][s])
    BY DEF Routed
  <2>2. IsFiniteSet({pkg \in sharesByTarget[c][s] : pkg.ToID = s /\ pkg.poly = p})
    BY <2>1, FS_Subset
  <2> QED
    BY <2>2, FS_CardinalityType
<1> QED
  BY <1>1 DEF FinalSecret

\* With the package of every signer collected, the share of every other signer's
\* polynomial is in the sum once.
\* The packages of ceremony c for signer s.
AllPackages(c, s) == {Package(c, o, s) : o \in Signers}

LEMMA FinalSecretSound ==
  ASSUME NEW c \in Ceremonies, NEW s \in Signers, dkgParticipant[s] = <<s, c>>,
         sharesByTarget[c][s] = AllPackages(c, s),
         NEW p \in Polys, p[1] # s
  PROVE  FinalSecret(s, sharesByTarget[c][s])[p] = IF p[2] = c THEN 1 ELSE 0
<1> DEFINE Q == {pkg \in sharesByTarget[c][s] : pkg.ToID = s /\ pkg.poly = p}
<1>1. FinalSecret(s, sharesByTarget[c][s])[p] = 0 + Cardinality(Q)
  BY DEF FinalSecret, Polys
<1>2. p[1] \in Signers /\ p = <<p[1], p[2]>>
  BY DEF Polys
<1>3. CASE p[2] = c
  <2>1. Q = {Package(c, p[1], s)}
    BY <1>2, <1>3 DEF AllPackages, Package
  <2>2. Cardinality(Q) = 1
    BY <2>1, FS_Singleton
  <2> QED
    BY <1>1, <1>3, <2>2
<1>4. CASE p[2] # c
  <2>1. Q = {}
    BY <1>2, <1>4 DEF AllPackages, Package
  <2>2. Cardinality(Q) = 0
    BY <2>1, FS_EmptySet
  <2> QED
    BY <1>1, <1>4, <2>2
<1> QED
  BY <1>3, <1>4

LEMMA KeptByFinalize ==
  ASSUME DKGInv, NEW c \in Ceremonies, dkgFinalizeHandler(c)
  PROVE  DKGInv'
<1> USE DEF DKGInv
<1>0. PICK s \in Signers : s = i[c] /\ dkgParticipant[s] # NoPoly
  BY DEF dkgFinalizeHandler, TypeOK
<1>1. PICK ks :
        /\ s = i[c] /\ dkgParticipant[s] # NoPoly
        /\ ks = [Secret |-> FinalSecret(s, sharesByTarget[c][s]),
                 VerificationKey |-> allCommitments[s]]
  BY <1>0
<1>2. /\ call[c] = "distribute" /\ Served(c, "answered")
      /\ keyShare' = [keyShare EXCEPT ![c][s] = ks]
      /\ UNCHANGED <<dkgParticipant, allCommitments, replyPoly,
                     pc, i, j, commitments, sharesByTarget, restarts>>
  BY <1>1 DEF dkgFinalizeHandler, Served, loopVars
<1>3. ks \in KeyShares /\ ks # NoResult /\ ks.VerificationKey = allCommitments[s]
  <2>1. FinalSecret(s, sharesByTarget[c][s]) \in [Polys -> Nat]
    BY FinalSecretType DEF CeremonyInv
  <2>2. allCommitments[s] \in SUBSET Polys
    BY DEF TypeOK
  <2> QED
    BY <1>1, <2>1, <2>2, DKGAssumption DEF KeyShares
<1>4. /\ call' \in [Ceremonies -> CallStates] /\ call'[c] = "answered"
      /\ disturbed' \in [Ceremonies -> BOOLEAN] /\ disturbed'[c] = disturbed[c]
      /\ pc[c] \notin {"idle", "complete"} /\ (pc[c] \in Loops => pc[c] = "distribute")
      /\ Routed(c)'
  BY <1>2, ServedProgress DEF Loops
<1>5. /\ keyShare' \in [Ceremonies -> [Signers -> KeyShares \cup {NoResult}]]
      /\ keyShare'[c][s] = ks /\ \A t \in Signers \ {s} : keyShare'[c][t] = keyShare[c][t]
      /\ \A d \in Ceremonies \ {c} : keyShare'[d] = keyShare[d]
  BY <1>2, <1>3 DEF TypeOK
<1>6. TypeOK'
  BY <1>2, <1>4, <1>5 DEF TypeOK
<1>7. ParticipantsOwn'
  BY <1>2 DEF ParticipantsOwn
<1>8. GroupKeyWhole'
  BY <1>2, <1>3, <1>5 DEF GroupKeyWhole
<1>9. \A d \in Ceremonies \ {c} : CeremonyInv(d)'
  BY <1>2, <1>5, ServedFrame DEF TypeOK
<1>10. Progress(c)'
  BY <1>2, <1>4 DEF Progress, CeremonyInv, TypeOK, Loops, AllPolys
<1>11. ASSUME ~disturbed'[c] PROVE Alone(c)'
  <2>1. Alone(c) /\ (pc[c] = "distribute" \/ pc[c] \notin Loops)
    BY <1>4, <1>11 DEF CeremonyInv
  <2>2. \A t \in Signers : /\ Drew(c, t)' => Drew(c, t)
                           /\ Informed(c, t)' => Informed(c, t)
    BY <1>2, <2>1 DEF Drew, Informed, Loops
  <2>3. \A o, t \in Signers : Collected(c, o, t)' <=> Collected(c, o, t)
    BY <1>2 DEF Collected
  <2>4. pc[c] = "distribute" => \A t \in Signers :
          sharesByTarget[c][t] = {Package(c, o, t) : o \in {q \in Signers : Collected(c, q, t)'}}
    BY <2>1, <2>3 DEF Alone
  <2>5. ASSUME NEW t \in Signers, Finalized(c, t)' PROVE SoundShare(c, t)'
    <3>1. pc[c] = "distribute"
      BY <1>2, <1>4, <2>1, <2>5 DEF Finalized, Loops
    <3>2. CASE t # s
      <4>1. Finalized(c, t)
        BY <1>1, <1>2, <2>5, <3>1, <3>2 DEF Finalized, Heard
      <4> QED
        BY <1>5, <2>1, <3>2, <4>1 DEF Alone, SoundShare, AllPolys
    <3>3. CASE t = s
      <4>1. dkgParticipant[s] = <<s, c>> /\ allCommitments[s] = AllPolys(c)
        BY <1>1, <2>1, <3>1 DEF Alone, Drew, Informed
      <4>2. sharesByTarget[c][s] = AllPackages(c, s)
        <5>1. {q \in Signers : Collected(c, q, s)} = Signers
          BY <3>1 DEF Collected
        <5> QED
          BY <2>1, <3>1, <5>1 DEF Alone, AllPackages
      <4>3. \A p \in Polys : p[1] # s => ks.Secret[p] = IF p[2] = c THEN 1 ELSE 0
        <5>1. ks.Secret = FinalSecret(s, sharesByTarget[c][s])
          BY <1>1
        <5>2. ASSUME NEW p \in Polys, p[1] # s
              PROVE  FinalSecret(s, sharesByTarget[c][s])[p] = IF p[2] = c THEN 1 ELSE 0
          BY <4>1, <4>2, <5>2, FinalSecretSound
        <5> QED
          BY <5>1, <5>2
      <4> QED
        BY <1>3, <1>5, <3>3, <4>1, <4>3 DEF SoundShare, AllPolys
    <3> QED
      BY <3>2, <3>3
  <2> QED
    BY <1>2, <1>4, <2>1, <2>2, <2>4, <2>5 DEF Alone, AllPolys, Package, Loops
<1> QED
  BY <1>4, <1>6, <1>7, <1>8, <1>9, <1>10, <1>11 DEF CeremonyInv

LEMMA KeptByPanic ==
  ASSUME DKGInv, NEW c \in Ceremonies, NilParticipantPanics(c)
  PROVE  DKGInv'
<1> USE DEF DKGInv
<1>1. /\ call[c] \in {"round2", "distribute"} /\ Served(c, "broken")
      /\ call' = [call EXCEPT ![c] = "broken"]
      /\ UNCHANGED <<dkgParticipant, allCommitments, keyShare, replyPoly,
                     pc, i, j, commitments, sharesByTarget, restarts>>
  BY DEF NilParticipantPanics, Served, loopVars, signerVars
<1>2. /\ call' \in [Ceremonies -> CallStates] /\ call'[c] = "broken"
      /\ disturbed' \in [Ceremonies -> BOOLEAN] /\ disturbed'[c] = disturbed[c]
      /\ pc[c] \notin {"idle", "complete"} /\ (pc[c] \in Loops => pc[c] = call[c])
      /\ Routed(c)'
  BY <1>1, ServedProgress DEF Loops
<1>3. TypeOK'
  BY <1>1, <1>2 DEF TypeOK
<1>4. ParticipantsOwn' /\ GroupKeyWhole'
  BY <1>1 DEF ParticipantsOwn, GroupKeyWhole
<1>5. \A d \in Ceremonies \ {c} : CeremonyInv(d)'
  BY <1>1, ServedFrame DEF TypeOK
<1>6. Progress(c)'
  BY <1>1, <1>2 DEF Progress, CeremonyInv, Loops, AllPolys
<1>7. ASSUME ~disturbed'[c] PROVE Alone(c)'
  <2>1. Alone(c)
    BY <1>2, <1>7 DEF CeremonyInv
  <2>2. \A s \in Signers : /\ Drew(c, s)' => Drew(c, s)
                           /\ Informed(c, s)' => Informed(c, s)
                           /\ Finalized(c, s)' => Finalized(c, s)
                           /\ SoundShare(c, s)' <=> SoundShare(c, s)
    BY <1>1, <1>2 DEF Drew, Informed, Finalized, Heard, SoundShare, AllPolys
  <2>3. \A o, t \in Signers : Collected(c, o, t)' <=> Collected(c, o, t)
    BY <1>1 DEF Collected
  <2>4. pc[c] \in {"round2", "distribute"} => \A t \in Signers :
          sharesByTarget[c][t] = {Package(c, o, t) : o \in {q \in Signers : Collected(c, q, t)'}}
    BY <2>1, <2>3 DEF Alone
  <2> QED
    BY <1>1, <1>2, <2>1, <2>2, <2>4 DEF Alone, AllPolys, Package
<1> QED
  BY <1>2, <1>3, <1>4, <1>5, <1>6, <1>7 DEF CeremonyInv

LEMMA KeptByRestart ==
  ASSUME DKGInv, NEW r \in Signers, Restart(r)
  PROVE  DKGInv'
<1> USE DEF DKGInv
<1>1. /\ restarts < MaxRestarts /\ restarts' = restarts + 1
      /\ dkgParticipant' = [dkgParticipant EXCEPT ![r] = NoPoly]
      /\ allCommitments' = [allCommitments EXCEPT ![r] = {}]
      /\ call' = [c \in Ceremonies |->
                    IF i[c] = r /\ call[c] \in Loops THEN "broken" ELSE call[c]]
      /\ UNCHANGED <<keyShare, pc, i, j, commitments, sharesByTarget, replyPoly, disturbed>>
  BY DEF Restart, loopVars
<1>2. call' \in [Ceremonies -> CallStates]
  BY <1>1 DEF TypeOK, CallStates
<1>3. restarts' \in 0..MaxRestarts
  BY <1>1, DKGAssumption DEF TypeOK
<1>4. TypeOK'
  BY <1>1, <1>2, <1>3 DEF TypeOK
<1>5. ParticipantsOwn'
  BY <1>1 DEF ParticipantsOwn, TypeOK
<1>6. GroupKeyWhole'
  <2>1. \A s \in Signers : allCommitments'[s] \in {allCommitments[s], {}}
    BY <1>1 DEF TypeOK
  <2> QED
    BY <1>1, <2>1 DEF GroupKeyWhole
<1>7. ASSUME NEW c \in Ceremonies PROVE CeremonyInv(c)'
  <2>1. call'[c] = call[c] \/ (call[c] \in Loops /\ call'[c] = "broken")
    BY <1>1
  <2>2. Progress(c)'
    BY <1>1, <2>1 DEF Progress, CeremonyInv, Loops, AllPolys
  <2>3. Routed(c)'
    BY <1>1 DEF CeremonyInv, Routed, Collected
  <2>4. ASSUME ~disturbed'[c] PROVE Alone(c)'
    <3>1. Alone(c)
      BY <1>1, <2>4 DEF CeremonyInv
    <3>2. \A s \in Signers : /\ Drew(c, s)' => Drew(c, s)
                             /\ Informed(c, s)' => Informed(c, s)
                             /\ Finalized(c, s)' => Finalized(c, s)
                             /\ SoundShare(c, s)' <=> SoundShare(c, s)
      BY <1>1, <2>1 DEF Drew, Informed, Finalized, Heard, SoundShare, AllPolys, Loops
    <3>3. \A s \in Signers : \/ UNCHANGED <<dkgParticipant[s], allCommitments[s]>>
                             \/ dkgParticipant'[s] = NoPoly
      BY <1>1 DEF TypeOK
    <3>4. \A o, t \in Signers : Collected(c, o, t)' <=> Collected(c, o, t)
      BY <1>1 DEF Collected
    <3>5. pc[c] \in {"round2", "distribute"} => \A t \in Signers :
            sharesByTarget[c][t] = {Package(c, o, t) : o \in {q \in Signers : Collected(c, q, t)'}}
      BY <3>1, <3>4 DEF Alone
    <3>6. \A s \in Signers : Drew(c, s)' => dkgParticipant'[s] \in {<<s, c>>, NoPoly}
      BY <3>1, <3>2, <3>3 DEF Alone
    <3>7. \A s \in Signers : Informed(c, s)' /\ dkgParticipant'[s] # NoPoly =>
            allCommitments'[s] = AllPolys(c)
      BY <3>1, <3>2, <3>3 DEF Alone
    <3>8. call'[c] = "answered" => call[c] = "answered"
      BY <2>1
    <3> QED
      BY <1>1, <3>1, <3>2, <3>5, <3>6, <3>7, <3>8 DEF Alone, AllPolys, Package
  <2> QED
    BY <2>2, <2>3, <2>4 DEF CeremonyInv
<1> QED
  BY <1>4, <1>5, <1>6, <1>7

-----------------------------------------------------------------------------
\* A step of the coordinator process c leaves the signers and the other processes.
LEMMA MainFrame ==
  ASSUME DKGInv, NEW c \in Ceremonies,
         UNCHANGED <<dkgParticipant, allCommitments, keyShare, replyPoly, restarts, disturbed>>,
         \A d \in Ceremonies \ {c} :
           /\ pc'[d] = pc[d] /\ i'[d] = i[d] /\ j'[d] = j[d] /\ call'[d] = call[d]
           /\ commitments'[d] = commitments[d] /\ sharesByTarget'[d] = sharesByTarget[d]
  PROVE  /\ ParticipantsOwn' /\ GroupKeyWhole'
         /\ \A d \in Ceremonies \ {c} : CeremonyInv(d)'
<1>1. ParticipantsOwn' /\ GroupKeyWhole'
  BY DEF DKGInv, ParticipantsOwn, GroupKeyWhole
<1>2. ASSUME NEW d \in Ceremonies \ {c} PROVE CeremonyInv(d)'
  <2>1. Untouched(d)
    BY DEF Untouched
  <2> QED
    BY <2>1, OtherCeremony DEF DKGInv
<1> QED
  BY <1>1, <1>2

\* The two ways a loop goes on.
LEMMA Turn ==
  ASSUME TypeOK, NEW c \in Ceremonies, NEW l \in Loops \cup Ended, NextCallOr(c, l),
         pc[c] \in Loops
  PROVE  /\ pc' \in [Ceremonies -> {"idle"} \cup Loops \cup Ended]
         /\ i' \in [Ceremonies -> Signers] /\ call' \in [Ceremonies -> CallStates]
         /\ \A d \in Ceremonies \ {c} :
              pc'[d] = pc[d] /\ i'[d] = i[d] /\ call'[d] = call[d]
         /\ \/ i[c] < N /\ i'[c] = i[c] + 1 /\ call'[c] = pc[c] /\ pc'[c] = pc[c]
            \/ /\ i[c] = N /\ i'[c] = 1 /\ pc'[c] = l
               /\ call'[c] = IF l \in Loops THEN l ELSE "none"
<1>1. i[c] \in 1..N /\ N \in Nat
  BY Types DEF TypeOK, Signers
<1>2. CASE i[c] < N /\ i' = [i EXCEPT ![c] = @ + 1] /\ call' = [call EXCEPT ![c] = pc[c]]
           /\ UNCHANGED pc
  <2>1. i[c] + 1 \in Signers
    BY <1>1, <1>2 DEF Signers
  <2> QED
    BY <1>2, <2>1 DEF TypeOK, CallStates
<1>3. CASE i[c] = N /\ Enter(c, l)
  BY <1>3, Types DEF TypeOK, Enter, CallStates
<1> QED
  BY <1>2, <1>3 DEF NextCallOr

LEMMA KeptByStart ==
  ASSUME DKGInv, NEW c \in Ceremonies, Start(c)
  PROVE  DKGInv'
<1> USE DEF DKGInv
<1>1. /\ pc[c] = "idle" /\ pc' = [pc EXCEPT ![c] = "round1"]
      /\ i' = [i EXCEPT ![c] = 1] /\ call' = [call EXCEPT ![c] = "round1"]
      /\ UNCHANGED <<dkgParticipant, allCommitments, keyShare, j, replyPoly, commitments,
                     sharesByTarget, restarts, disturbed>>
  BY DEF Start, Enter, signerVars, Loops
<1>2. TypeOK'
  BY <1>1, Types DEF TypeOK, CallStates, Loops
<1>3. pc'[c] = "round1" /\ i'[c] = 1 /\ call'[c] = "round1"
  BY <1>1 DEF TypeOK
<1>4. /\ ParticipantsOwn' /\ GroupKeyWhole'
      /\ \A d \in Ceremonies \ {c} : CeremonyInv(d)'
  BY <1>1, MainFrame DEF TypeOK
<1>5. Progress(c)'
  <2>1. {s \in Signers : s < 1} = {}
    BY Types DEF Signers
  <2>2. commitments'[c] = {<<o, c>> : o \in {s \in Signers : s < 1}}
    BY <1>1, <2>1 DEF CeremonyInv, Progress
  <2> QED
    BY <1>1, <1>3, <2>2 DEF CeremonyInv, Progress, Loops
<1>6. Routed(c)'
  BY <1>1, <1>3 DEF CeremonyInv, Routed
<1>7. Alone(c)'
  <2>1. \A s \in Signers : ~(s < 1)
    BY Types DEF Signers
  <2> QED
    BY <1>3, <2>1 DEF Alone, Drew, Informed, Finalized, Heard
<1> QED
  BY <1>2, <1>4, <1>5, <1>6, <1>7 DEF CeremonyInv

LEMMA KeptByRound1Reply ==
  ASSUME DKGInv, NEW c \in Ceremonies, Round1Replied(c)
  PROVE  DKGInv'
<1> USE DEF DKGInv
<1>1. /\ pc[c] = "round1" /\ call[c] = "answered" /\ NextCallOr(c, "broadcast")
      /\ commitments' = [commitments EXCEPT ![c] = @ \cup {<<i[c], c>>}]
      /\ UNCHANGED <<dkgParticipant, allCommitments, keyShare, j, replyPoly,
                     sharesByTarget, restarts, disturbed>>
  BY DEF Round1Replied, Answered, signerVars, CeremonyInv, Progress
<1>2. /\ pc' \in [Ceremonies -> {"idle"} \cup Loops \cup Ended]
      /\ i' \in [Ceremonies -> Signers] /\ call' \in [Ceremonies -> CallStates]
      /\ \A d \in Ceremonies \ {c} : pc'[d] = pc[d] /\ i'[d] = i[d] /\ call'[d] = call[d]
  BY <1>1, Turn DEF Loops
<1>3. \/ i[c] < N /\ i'[c] = i[c] + 1 /\ call'[c] = "round1" /\ pc'[c] = "round1"
      \/ i[c] = N /\ i'[c] = 1 /\ pc'[c] = "broadcast" /\ call'[c] = "broadcast"
  BY <1>1, Turn DEF Loops
<1>4. i[c] \in 1..N /\ N \in Nat /\ Signers = 1..N
  BY Types DEF TypeOK, Signers
<1>5. <<i[c], c>> \in Polys
  BY PolyOf DEF TypeOK
<1>6. TypeOK'
  BY <1>1, <1>2, <1>5 DEF TypeOK
<1>7. /\ ParticipantsOwn' /\ GroupKeyWhole'
      /\ \A d \in Ceremonies \ {c} : CeremonyInv(d)'
  BY <1>1, <1>2, MainFrame DEF TypeOK
<1>8. commitments'[c] = {<<o, c>> : o \in {s \in Signers : s < i[c]}} \cup {<<i[c], c>>}
  BY <1>1 DEF CeremonyInv, Progress, TypeOK
<1>9. Progress(c)'
  <2>1. CASE pc'[c] = "round1"
    <3>1. {s \in Signers : s < i'[c]} = {s \in Signers : s < i[c]} \cup {i[c]}
      BY <1>3, <1>4, <2>1
    <3>2. commitments'[c] = {<<o, c>> : o \in {s \in Signers : s < i'[c]}}
      BY <1>8, <3>1
    <3> QED
      BY <1>1, <1>3, <2>1, <3>2 DEF CeremonyInv, Progress, Loops
  <2>2. CASE pc'[c] = "broadcast"
    <3>1. Signers = {s \in Signers : s < i[c]} \cup {i[c]}
      BY <1>3, <1>4, <2>2
    <3>2. commitments'[c] = AllPolys(c)
      BY <1>8, <3>1 DEF AllPolys
    <3> QED
      BY <1>1, <1>3, <2>2, <3>2 DEF CeremonyInv, Progress, Loops, AllPolys
  <2> QED
    BY <1>3, <2>1, <2>2
<1>10. Routed(c)'
  BY <1>1, <1>3 DEF CeremonyInv, Routed
<1>11. ASSUME ~disturbed'[c] PROVE Alone(c)'
  <2>1. Alone(c)
    BY <1>1, <1>11 DEF CeremonyInv
  <2>2. \A s \in Signers : Drew(c, s)' => Drew(c, s)
    BY <1>1, <1>3, <1>4 DEF Drew, Heard
  <2>3. \A s \in Signers : ~Informed(c, s)' /\ ~Finalized(c, s)'
    BY <1>3, <1>4 DEF Informed, Finalized, Heard
  <2> QED
    BY <1>1, <1>3, <2>1, <2>2, <2>3 DEF Alone
<1> QED
  BY <1>6, <1>7, <1>9, <1>10, <1>11 DEF CeremonyInv

LEMMA KeptByBroadcastReply ==
  ASSUME DKGInv, NEW c \in Ceremonies, BroadcastReplied(c)
  PROVE  DKGInv'
<1> USE DEF DKGInv
<1>1. /\ pc[c] = "broadcast" /\ call[c] = "answered" /\ NextCallOr(c, "round2")
      /\ UNCHANGED <<dkgParticipant, allCommitments, keyShare, j, replyPoly, commitments,
                     sharesByTarget, restarts, disturbed>>
  BY DEF BroadcastReplied, Answered, signerVars
<1>2. /\ pc' \in [Ceremonies -> {"idle"} \cup Loops \cup Ended]
      /\ i' \in [Ceremonies -> Signers] /\ call' \in [Ceremonies -> CallStates]
      /\ \A d \in Ceremonies \ {c} : pc'[d] = pc[d] /\ i'[d] = i[d] /\ call'[d] = call[d]
  BY <1>1, Turn DEF Loops
<1>3. \/ i[c] < N /\ i'[c] = i[c] + 1 /\ call'[c] = "broadcast" /\ pc'[c] = "broadcast"
      \/ i[c] = N /\ i'[c] = 1 /\ pc'[c] = "round2" /\ call'[c] = "round2"
  BY <1>1, Turn DEF Loops
<1>4. i[c] \in 1..N /\ N \in Nat /\ Signers = 1..N
  BY Types DEF TypeOK, Signers
<1>5. TypeOK'
  BY <1>1, <1>2 DEF TypeOK
<1>6. /\ ParticipantsOwn' /\ GroupKeyWhole'
      /\ \A d \in Ceremonies \ {c} : CeremonyInv(d)'
  BY <1>1, <1>2, MainFrame DEF TypeOK
<1>7. Progress(c)'
  BY <1>1, <1>3 DEF CeremonyInv, Progress, Loops, AllPolys
<1>8. j[c] = 1 /\ \A t \in Signers : sharesByTarget[c][t] = {}
  BY <1>1 DEF CeremonyInv, Progress
<1>9. Routed(c)'
  <2>1. pc'[c] \in {"broadcast", "round2"}
    BY <1>3
  <2>2. pc'[c] = "round2" => \A o, t \in Signers : ~Collected(c, o, t)'
    BY <1>1, <1>3, <1>4, <1>8 DEF Collected
  <2>3. \A t \in Signers : sharesByTarget'[c][t] = {}
    BY <1>1, <1>8
  <2> QED
    BY <2>1, <2>2, <2>3, FS_EmptySet DEF Routed
<1>10. ASSUME ~disturbed'[c] PROVE Alone(c)'
  <2>1. Alone(c)
    BY <1>1, <1>10 DEF CeremonyInv
  <2>2. \A s \in Signers : Drew(c, s)
    BY <1>1 DEF Drew
  <2>3. \A s \in Signers : Informed(c, s)' => Informed(c, s)
    BY <1>1, <1>3, <1>4 DEF Informed, Heard
  <2>4. \A s \in Signers : ~Finalized(c, s)'
    BY <1>3 DEF Finalized
  <2>5. pc'[c] = "round2" => \A o, t \in Signers : ~Collected(c, o, t)'
    BY <1>1, <1>3, <1>4, <1>8 DEF Collected
  <2>6. pc'[c] = "round2" => \A t \in Signers :
          sharesByTarget[c][t] = {Package(c, o, t) : o \in {q \in Signers : Collected(c, q, t)'}}
    BY <1>8, <2>5
  <2> QED
    BY <1>1, <1>3, <2>1, <2>2, <2>3, <2>4, <2>6 DEF Alone, AllPolys, Package
<1> QED
  BY <1>5, <1>6, <1>7, <1>9, <1>10 DEF CeremonyInv

LEMMA KeptByRound2Reply ==
  ASSUME DKGInv, NEW c \in Ceremonies, Round2Replied(c)
  PROVE  DKGInv'
<1> USE DEF DKGInv
<1>0. PICK to \in Signers : to = j[c]
  BY DEF TypeOK
<1>1. PICK pkg :
        to = j[c] /\ pkg = [FromID |-> replyPoly[c][1], ToID |-> to, poly |-> replyPoly[c]]
  BY <1>0
<1>2. /\ pc[c] = "round2" /\ call[c] = "answered"
      /\ sharesByTarget' = [sharesByTarget EXCEPT ![c][to] = @ \cup {pkg}]
      /\ UNCHANGED <<dkgParticipant, allCommitments, keyShare, replyPoly, commitments,
                     restarts, disturbed>>
  BY <1>1 DEF Round2Replied, ReplyPackage, Answered, signerVars
<1>3. i[c] \in 1..N /\ to \in 1..N /\ N \in Nat /\ Signers = 1..N
  BY Types DEF TypeOK, Signers
<1>4. replyPoly[c] \in Polys /\ replyPoly[c][1] = i[c]
  BY <1>2 DEF CeremonyInv, Progress
<1>5. /\ pc' \in [Ceremonies -> {"idle"} \cup Loops \cup Ended]
      /\ i' \in [Ceremonies -> Signers] /\ j' \in [Ceremonies -> Signers]
      /\ call' \in [Ceremonies -> CallStates]
      /\ \A d \in Ceremonies \ {c} :
           pc'[d] = pc[d] /\ i'[d] = i[d] /\ j'[d] = j[d] /\ call'[d] = call[d]
      /\ \/ /\ to < N /\ j'[c] = to + 1 /\ i'[c] = i[c]
            /\ pc'[c] = "round2" /\ call'[c] = "round2"
         \/ /\ to = N /\ j'[c] = 1 /\ i[c] < N /\ i'[c] = i[c] + 1
            /\ pc'[c] = "round2" /\ call'[c] = "round2"
         \/ to = N /\ i[c] = N /\ pc'[c] = "distribute" /\ call'[c] = "distribute" /\ i'[c] = 1
  <2>1. CASE /\ to < N /\ j' = [j EXCEPT ![c] = @ + 1]
             /\ call' = [call EXCEPT ![c] = "round2"] /\ UNCHANGED <<pc, i>>
    <3>1. to + 1 \in Signers
      BY <1>3, <2>1
    <3> QED
      BY <1>1, <1>2, <2>1, <3>1 DEF TypeOK, CallStates, Loops
  <2>2. CASE to = N /\ j' = [j EXCEPT ![c] = 1] /\ NextCallOr(c, "distribute")
    <3>1. j' \in [Ceremonies -> Signers] /\ j'[c] = 1 /\ \A d \in Ceremonies \ {c} : j'[d] = j[d]
      BY <2>2, Types DEF TypeOK
    <3> QED
      BY <1>2, <2>2, <3>1, Turn DEF Loops
  <2> QED
    BY <1>1, <2>1, <2>2 DEF Round2Replied
<1>6. pkg \in Packages
  BY <1>1, <1>4 DEF TypeOK, Packages
<1>7. /\ sharesByTarget' \in [Ceremonies -> [Signers -> SUBSET Packages]]
      /\ sharesByTarget'[c][to] = sharesByTarget[c][to] \cup {pkg}
      /\ \A t \in Signers \ {to} : sharesByTarget'[c][t] = sharesByTarget[c][t]
      /\ \A d \in Ceremonies \ {c} : sharesByTarget'[d] = sharesByTarget[d]
  BY <1>2, <1>6 DEF TypeOK
<1>8. TypeOK'
  BY <1>2, <1>5, <1>7 DEF TypeOK
<1>9. /\ ParticipantsOwn' /\ GroupKeyWhole'
      /\ \A d \in Ceremonies \ {c} : CeremonyInv(d)'
  BY <1>2, <1>5, <1>7, MainFrame
<1>10. Progress(c)'
  BY <1>2, <1>5 DEF CeremonyInv, Progress, Loops, AllPolys
<1>11. \A o, t \in Signers :
         Collected(c, o, t)' <=> Collected(c, o, t) \/ (o = i[c] /\ t = to)
  BY <1>1, <1>2, <1>3, <1>5 DEF Collected
<1>12. Routed(c)'
  <2> SUFFICES ASSUME NEW t \in Signers
      PROVE  /\ IsFiniteSet(sharesByTarget'[c][t])
             /\ \A p, q \in sharesByTarget'[c][t] :
                  /\ p.ToID = t /\ p.poly[1] = p.FromID
                  /\ p.FromID = q.FromID => p = q
             /\ \A p \in sharesByTarget'[c][t] : Collected(c, p.FromID, t)'
             /\ \A o \in Signers :
                  Collected(c, o, t)' => \E p \in sharesByTarget'[c][t] : p.FromID = o
    BY DEF Routed
  <2>1. /\ IsFiniteSet(sharesByTarget[c][t])
        /\ \A p, q \in sharesByTarget[c][t] :
             /\ p.ToID = t /\ p.poly[1] = p.FromID
             /\ p.FromID = q.FromID => p = q
        /\ \A p \in sharesByTarget[c][t] : p.FromID \in Signers /\ Collected(c, p.FromID, t)
        /\ \A o \in Signers :
             Collected(c, o, t) => \E p \in sharesByTarget[c][t] : p.FromID = o
    BY <1>2 DEF CeremonyInv, Routed, TypeOK, Packages
  <2>2. CASE t # to
    BY <1>7, <1>11, <2>1, <2>2
  <2>3. CASE t = to
    <3>1. IsFiniteSet(sharesByTarget'[c][t])
      <4>1. IsFiniteSet(sharesByTarget[c][t] \cup {pkg})
        BY <2>1, FS_AddElement
      <4> QED
        BY <1>7, <2>3, <4>1
    <3>2. ~Collected(c, i[c], to)
      BY <1>1, <1>2, <1>3 DEF Collected
    <3>3. \A p \in sharesByTarget[c][t] : p.FromID # pkg.FromID
      BY <1>1, <1>4, <2>1, <2>3, <3>2
    <3>4. pkg.ToID = t /\ pkg.poly[1] = pkg.FromID /\ Collected(c, pkg.FromID, t)'
      BY <1>1, <1>3, <1>4, <1>11, <2>3
    <3>5. pkg.FromID = i[c] /\ sharesByTarget'[c][t] = sharesByTarget[c][t] \cup {pkg}
      BY <1>1, <1>4, <1>7, <2>3
    <3>6. \A o \in Signers :
            Collected(c, o, t)' => \E p \in sharesByTarget'[c][t] : p.FromID = o
      BY <1>11, <2>1, <3>5
    <3>7. \A p \in sharesByTarget'[c][t] : Collected(c, p.FromID, t)'
      BY <1>11, <2>1, <3>4, <3>5
    <3> QED
      BY <2>1, <3>1, <3>3, <3>4, <3>5, <3>6, <3>7
  <2> QED
    BY <2>2, <2>3
<1>13. ASSUME ~disturbed'[c] PROVE Alone(c)'
  <2>1. Alone(c)
    BY <1>2, <1>13 DEF CeremonyInv
  <2>2. \A s \in Signers : Drew(c, s) /\ Informed(c, s)
    BY <1>2 DEF Drew, Informed
  <2>3. \A s \in Signers : ~Finalized(c, s)'
    BY <1>3, <1>5 DEF Finalized, Heard
  <2>4. pkg = Package(c, i[c], to)
    BY <1>1, <1>2, <1>4, <2>1 DEF Alone, Package
  <2>5. ASSUME NEW t \in Signers
        PROVE  sharesByTarget'[c][t] =
                 {Package(c, o, t) : o \in {s \in Signers : Collected(c, s, t)'}}
    <3>1. sharesByTarget[c][t] = {Package(c, o, t) : o \in {s \in Signers : Collected(c, s, t)}}
      BY <1>2, <2>1 DEF Alone
    <3>2. CASE t # to
      <4>1. {s \in Signers : Collected(c, s, t)'} = {s \in Signers : Collected(c, s, t)}
        BY <1>11, <3>2
      <4> QED
        BY <1>7, <3>1, <3>2, <4>1
    <3>3. CASE t = to
      <4>1. {s \in Signers : Collected(c, s, t)'} = {s \in Signers : Collected(c, s, t)} \cup {i[c]}
        BY <1>3, <1>11, <3>3
      <4> QED
        BY <1>7, <2>4, <3>1, <3>3, <4>1
    <3> QED
      BY <3>2, <3>3
  <2> QED
    BY <1>2, <1>5, <2>1, <2>2, <2>3, <2>5 DEF Alone, AllPolys, Package
<1> QED
  BY <1>8, <1>9, <1>10, <1>12, <1>13 DEF CeremonyInv

LEMMA KeptByDistributeReply ==
  ASSUME DKGInv, NEW c \in Ceremonies, DistributeReplied(c)
  PROVE  DKGInv'
<1> USE DEF DKGInv
<1>1. /\ pc[c] = "distribute" /\ call[c] = "answered" /\ NextCallOr(c, "complete")
      /\ UNCHANGED <<dkgParticipant, allCommitments, keyShare, j, replyPoly, commitments,
                     sharesByTarget, restarts, disturbed>>
  BY DEF DistributeReplied, Answered, signerVars
<1>2. /\ pc' \in [Ceremonies -> {"idle"} \cup Loops \cup Ended]
      /\ i' \in [Ceremonies -> Signers] /\ call' \in [Ceremonies -> CallStates]
      /\ \A d \in Ceremonies \ {c} : pc'[d] = pc[d] /\ i'[d] = i[d] /\ call'[d] = call[d]
  BY <1>1, Turn DEF Loops, Ended
<1>3. \/ i[c] < N /\ i'[c] = i[c] + 1 /\ call'[c] = "distribute" /\ pc'[c] = "distribute"
      \/ i[c] = N /\ pc'[c] = "complete" /\ call'[c] = "none"
  BY <1>1, Turn DEF Loops, Ended
<1>4. i[c] \in 1..N /\ N \in Nat /\ Signers = 1..N
  BY Types DEF TypeOK, Signers
<1>5. TypeOK'
  BY <1>1, <1>2 DEF TypeOK
<1>6. /\ ParticipantsOwn' /\ GroupKeyWhole'
      /\ \A d \in Ceremonies \ {c} : CeremonyInv(d)'
  BY <1>1, <1>2, MainFrame DEF TypeOK
<1>7. Progress(c)'
  BY <1>1, <1>3 DEF CeremonyInv, Progress, Loops, AllPolys
<1>8. Routed(c)'
  BY <1>1, <1>3 DEF CeremonyInv, Routed, Collected
<1>9. ASSUME ~disturbed'[c] PROVE Alone(c)'
  <2>1. Alone(c)
    BY <1>1, <1>9 DEF CeremonyInv
  <2>2. \A s \in Signers : Drew(c, s) /\ Informed(c, s)
    BY <1>1 DEF Drew, Informed
  <2>3. \A s \in Signers : Finalized(c, s)' => Finalized(c, s)
    BY <1>1, <1>3, <1>4 DEF Finalized, Heard
  <2>4. \A s \in Signers : SoundShare(c, s)' <=> SoundShare(c, s)
    BY <1>1 DEF SoundShare, AllPolys
  <2>5. pc'[c] = "distribute" => \A o, t \in Signers : Collected(c, o, t)' <=> Collected(c, o, t)
    BY <1>1 DEF Collected
  <2>6. pc'[c] = "distribute" => \A t \in Signers :
          sharesByTarget[c][t] = {Package(c, o, t) : o \in {q \in Signers : Collected(c, q, t)'}}
    BY <1>1, <2>1, <2>5 DEF Alone
  <2> QED
    BY <1>1, <1>3, <2>1, <2>2, <2>3, <2>4, <2>6 DEF Alone, AllPolys, Package
<1> QED
  BY <1>5, <1>6, <1>7, <1>8, <1>9 DEF CeremonyInv

LEMMA KeptByExit ==
  ASSUME DKGInv, NEW c \in Ceremonies, Exit(c)
  PROVE  DKGInv'
<1> USE DEF DKGInv
<1>1. /\ pc' = [pc EXCEPT ![c] = "failed"]
      /\ UNCHANGED <<dkgParticipant, allCommitments, keyShare, i, j, call, replyPoly,
                     commitments, sharesByTarget, restarts, disturbed>>
  BY DEF Exit, signerVars
<1>2. TypeOK' /\ pc'[c] = "failed"
  BY <1>1 DEF TypeOK, Ended
<1>3. /\ ParticipantsOwn' /\ GroupKeyWhole'
      /\ \A d \in Ceremonies \ {c} : CeremonyInv(d)'
  BY <1>1, MainFrame DEF TypeOK
<1>4. Progress(c)'
  BY <1>1, <1>2 DEF CeremonyInv, Progress, Loops, AllPolys
<1>5. Routed(c)'
  BY <1>1, <1>2 DEF CeremonyInv, Routed
<1>6. Alone(c)'
  BY <1>2 DEF Alone, Drew, Informed, Finalized
<1> QED
  BY <1>2, <1>3, <1>4, <1>5, <1>6 DEF CeremonyInv

-----------------------------------------------------------------------------
LEMMA DKGInvStep == DKGInv /\ [Next]_vars => DKGInv'
<1> SUFFICES ASSUME DKGInv, [Next]_vars PROVE DKGInv'
  OBVIOUS
<1>1. ASSUME NEW c \in Ceremonies, SignerStep(c) PROVE DKGInv'
  BY <1>1, KeptByRound1, KeptByCommitments, KeptByRound2, KeptByFinalize, KeptByPanic
  DEF SignerStep
<1>2. ASSUME NEW c \in Ceremonies, MainStep(c) PROVE DKGInv'
  BY <1>2, KeptByRound1Reply, KeptByBroadcastReply, KeptByRound2Reply,
     KeptByDistributeReply, KeptByExit
  DEF MainStep, CeremonyFails
<1>3. ASSUME NEW c \in Ceremonies, Start(c) \/ Interrupted(c) PROVE DKGInv'
  BY <1>3, KeptByStart, KeptByExit DEF Interrupted
<1>4. ASSUME NEW s \in Signers, Restart(s) PROVE DKGInv'
  BY <1>4, KeptByRestart
<1>5. CASE UNCHANGED vars
  <2>1. UNCHANGED <<dkgParticipant, allCommitments, keyShare, pc, i, j, call, replyPoly,
                    commitments, sharesByTarget, restarts, disturbed>>
    BY <1>5 DEF vars, signerVars, loopVars
  <2>2. \A c \in Ceremonies : CeremonyInv(c)'
    BY <2>1, OtherCeremony DEF DKGInv, Untouched
  <2>3. TypeOK'
    BY <2>1 DEF DKGInv, TypeOK
  <2>4. ParticipantsOwn' /\ GroupKeyWhole'
    BY <2>1 DEF DKGInv, ParticipantsOwn, GroupKeyWhole
  <2> QED
    BY <2>2, <2>3, <2>4 DEF DKGInv
<1> QED
  BY <1>1, <1>2, <1>3, <1>4, <1>5 DEF Next

THEOREM DKGInvariant == Spec => []DKGInv
<1> QED
  BY DKGInvInit, DKGInvStep, PTL DEF Spec

\* Participants, lists, packages and key shares of the /dkg handlers and of main of
\* cmd/dkg-coordinator have their types: every key share is a sum with finitely many
\* terms, and no loop variable leaves signerAddresses.
THEOREM DKGTypeCorrect == Spec => []TypeOK
<1>1. DKGInv => TypeOK
  BY DEF DKGInv
<1> QED
  BY <1>1, DKGInvariant, PTL

\* However many ceremonies overlap and signers restart, a group key sums all the
\* polynomials of one ceremony: ComputeGroupPublicKey only ever sees a list that
\* one coordinator completed.
THEOREM GroupKeysWhole == Spec => []GroupKeyWhole
<1>1. DKGInv => GroupKeyWhole
  BY DEF DKGInv
<1> QED
  BY <1>1, DKGInvariant, PTL

\* main files every package of /dkg/round2 under the signer it is for, one from each
\* signer, also when the participants are those of another ceremony.
THEOREM PackagesNeverMixed == Spec => []PackagesRouted
<1>1. DKGInv => PackagesRouted
  BY DEF DKGInv, CeremonyInv, Routed, PackagesRouted, Collected
<1> QED
  BY <1>1, DKGInvariant, PTL

\* A ceremony that reports completion, with no call of another ceremony served while
\* it ran, gave every signer the same group key and the share of every other signer
\* once, whatever ceremonies failed before it and whichever signers restarted.
THEOREM UndisturbedCeremonySound == Spec => []CompleteCeremonySound
<1>1. DKGInv => CompleteCeremonySound
  BY DEF DKGInv, CeremonyInv, Alone, Finalized, SoundShare, AllPolys, CompleteCeremonySound
<1> QED
  BY <1>1, DKGInvariant, PTL
=============================================================================
