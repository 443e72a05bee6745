--------------------------- MODULE EcdsaKeyProofs ---------------------------
(***************************************************************************)
(* Theorems about EcdsaKey, for any number of processes, files and keys.   *)
(***************************************************************************)
EXTENDS EcdsaKey, FiniteSetTheorems, SequenceTheorems, TLAPS

\* EcdsaKey keeps its type: a process has a key exactly while it runs, whatever
\* fails in NewECDSAKey.
THEOREM KeyTypeCorrect == Spec => []TypeOK
<1> USE EcdsaKeyAssumption
<1>1. Init => TypeOK
  BY DEF Init, TypeOK
<1>2. TypeOK /\ [Next]_vars => TypeOK'
  <2> SUFFICES ASSUME TypeOK, [Next]_vars
               PROVE  TypeOK'
    OBVIOUS
  <2> USE DEF TypeOK
  <2>1. CASE UNCHANGED vars
    BY <2>1 DEF vars, histVars
  <2>2. ASSUME NEW p \in Processes, LoadKey(p) PROVE TypeOK'
    BY <2>2 DEF LoadKey, histVars
  <2>3. ASSUME NEW p \in Processes, GenerateKey(p) PROVE TypeOK'
    <3>1. PICK k \in Keys \ generated : /\ key' = [key EXCEPT ![p] = k]
                                       /\ generated' = generated \cup {k}
      BY <2>3 DEF GenerateKey
    <3>2. \A q \in Processes : (pc[q] = "down" <=> key[q] = NoKey)'
      BY <2>3, <3>1 DEF GenerateKey
    <3>3. KeyFile[p] \in Files
      OBVIOUS
    <3> QED
      BY <2>3, <3>1, <3>2, <3>3 DEF GenerateKey, histVars
  <2>4. ASSUME NEW p \in Processes, CreateKeyFile(p) PROVE TypeOK'
    BY <2>4 DEF CreateKeyFile, histVars
  <2>5. ASSUME NEW p \in Processes, EncodeKey(p) PROVE TypeOK'
    BY <2>5 DEF EncodeKey, histVars
  <2>6. ASSUME NEW p \in Processes, Stop(p), crashes' \in 0..MaxCrashes PROVE TypeOK'
    BY <2>6 DEF Stop, LeftInFile, histVars
  <2>7. ASSUME NEW p \in Processes, NEW r, NEW s, SignES256(p, r, s) PROVE TypeOK'
    BY <2>7 DEF SignES256, Vouchers
  <2>8. ASSUME NEW p \in Processes, FetchKeys(p) PROVE TypeOK'
    BY <2>8 DEF FetchKeys, Vouchers
  <2>9. ASSUME NEW p \in Processes, NewKeyFails(p) \/ Kill(p) \/ GenkeyDone(p)
        PROVE  Stop(p) /\ crashes' \in 0..MaxCrashes
    BY <2>9 DEF NewKeyFails, Kill, GenkeyDone
  <2> QED
    BY <2>1, <2>2, <2>3, <2>4, <2>5, <2>6, <2>7, <2>8, <2>9 DEF Next
<1> QED
  BY <1>1, <1>2, PTL DEF Spec

\* As long as nothing disturbed a file, one process at most is about to write it, and
\* only while it holds no key: the strengthening that makes UsedKeyOnFile inductive.
WriterAlone ==
  \A f \in Files : Undisturbed(f) =>
    \A p \in Processes : KeyFile[p] = f /\ pc[p] \in {"create", "encode"} =>
      /\ file[f] \notin Keys
      /\ ~BeingWritten(f, p)

\* The inductive invariant.
KeyInv == TypeOK /\ UsedKeyOnFile /\ WriterAlone

\* The inductive invariant holds: an undisturbed file has at most one writer, only
\* while it holds no key, and otherwise holds the key everybody on it uses.
THEOREM KeyInvariance == Spec => []KeyInv
<1> USE EcdsaKeyAssumption
<1>1. Init => UsedKeyOnFile /\ WriterAlone
  BY DEF Init, UsedKeyOnFile, WriterAlone
<1>2. KeyInv /\ TypeOK' /\ [Next]_vars => (UsedKeyOnFile /\ WriterAlone)'
  <2> SUFFICES ASSUME KeyInv, TypeOK', [Next]_vars
               PROVE  UsedKeyOnFile' /\ WriterAlone'
    OBVIOUS
  <2> USE DEF KeyInv, TypeOK, UsedKeyOnFile, WriterAlone, Undisturbed, BeingWritten
  <2>1. CASE UNCHANGED vars
    BY <2>1 DEF vars, histVars
  <2>2. ASSUME NEW p \in Processes, LoadKey(p) PROVE UsedKeyOnFile' /\ WriterAlone'
    BY <2>2 DEF LoadKey, histVars
  <2>3. ASSUME NEW p \in Processes, GenerateKey(p) PROVE UsedKeyOnFile' /\ WriterAlone'
    BY <2>3 DEF GenerateKey, histVars
  <2>4. ASSUME NEW p \in Processes, CreateKeyFile(p) PROVE UsedKeyOnFile' /\ WriterAlone'
    BY <2>4 DEF CreateKeyFile, histVars, Vouchers
  <2>5. ASSUME NEW p \in Processes, EncodeKey(p) PROVE UsedKeyOnFile' /\ WriterAlone'
    BY <2>5 DEF EncodeKey, histVars, Vouchers
  <2>6. ASSUME NEW p \in Processes, Stop(p) PROVE UsedKeyOnFile' /\ WriterAlone'
    BY <2>6 DEF Stop, LeftInFile, histVars, Vouchers
  <2>7. ASSUME NEW p \in Processes, NEW r, NEW s, SignES256(p, r, s)
        PROVE  UsedKeyOnFile' /\ WriterAlone'
    BY <2>7 DEF SignES256, Vouchers
  <2>8. ASSUME NEW p \in Processes, FetchKeys(p) PROVE UsedKeyOnFile' /\ WriterAlone'
    BY <2>8 DEF FetchKeys, Vouchers
  <2> QED
    BY <2>1, <2>2, <2>3, <2>4, <2>5, <2>6, <2>7, <2>8
    DEF Next, NewKeyFails, Kill, GenkeyDone
<1> QED
  BY <1>1, <1>2, KeyTypeCorrect, PTL DEF Spec, KeyInv

\* A key that was used is never lost: tokens verify with what any proxy on the same
\* file publishes at any time, whatever process dies wherever in NewECDSAKey,
\* unless two processes generated keys at the same time or a read failed.
THEOREM UsedKeysSurvive == Spec => []SameFileSameKey
<1>1. KeyInv => SameFileSameKey
  BY EcdsaKeyAssumption DEF KeyInv, UsedKeyOnFile, SameFileSameKey, TypeOK, Vouchers, Processes
<1> QED
  BY <1>1, KeyInvariance, PTL

\* The key file never loses a key in use: as long as the file is undisturbed it holds
\* the key of every process that signed or published with it.
THEOREM FileKeepsUsedKey == Spec => []UsedKeyOnFile
BY KeyInvariance, PTL DEF KeyInv

\* What keeps the copies F of the deployed key together: as long as every read of a
\* copy succeeded, nobody on it generates a key, so nobody writes it.
CopiesInv(F) ==
  \A f \in F \ unreadable :
    /\ file[f] = DeployedKey
    /\ \A p \in Processes : KeyFile[p] = f =>
         pc[p] \in {"down", "ready"} /\ key[p] \in {NoKey, DeployedKey}
    /\ \A v \in tokens \cup published : KeyFile[v.proxy] = f => v.key = DeployedKey

\* Proxies that start on copies of one provisioned key file stay interchangeable:
\* NewECDSAKey finds the key at every restart, so neither the proxies of other
\* files nor kills at any point change what the tokens verify with.
THEOREM CopiesStayInterchangeable == Spec => CopiesInterchangeable
<1> DEFINE Agree(F) ==
      \A t \in tokens, k \in published :
        /\ {KeyFile[t.proxy], KeyFile[k.proxy]} \subseteq F
        /\ {KeyFile[t.proxy], KeyFile[k.proxy]} \cap unreadable = {}
        => t.key = k.key
<1>1. ASSUME NEW F \in SUBSET Files
      PROVE  Spec => ((\A f \in F : file[f] = DeployedKey) => []Agree(F))
  <2> USE EcdsaKeyAssumption
  <2>1. Init /\ (\A f \in F : file[f] = DeployedKey) => CopiesInv(F)
    BY DEF Init, CopiesInv
  <2>2. ASSUME TypeOK, CopiesInv(F), [Next]_vars PROVE CopiesInv(F)'
    <3> USE <2>2 DEF CopiesInv, TypeOK
    <3>1. CASE UNCHANGED vars
      BY <3>1 DEF vars, histVars
    <3>2. ASSUME NEW p \in Processes, LoadKey(p) PROVE CopiesInv(F)'
      BY <3>2 DEF LoadKey, histVars
    <3>3. ASSUME NEW p \in Processes, GenerateKey(p) PROVE CopiesInv(F)'
      BY <3>3 DEF GenerateKey, histVars
    <3>4. ASSUME NEW p \in Processes, CreateKeyFile(p) PROVE CopiesInv(F)'
      BY <3>4 DEF CreateKeyFile, histVars
    <3>5. ASSUME NEW p \in Processes, EncodeKey(p) PROVE CopiesInv(F)'
      BY <3>5 DEF EncodeKey, histVars
    <3>6. ASSUME NEW p \in Processes, Stop(p) PROVE CopiesInv(F)'
      BY <3>6 DEF Stop, LeftInFile, histVars
    <3>7. ASSUME NEW p \in Processes, NEW r, NEW s, SignES256(p, r, s) PROVE CopiesInv(F)'
      BY <3>7 DEF SignES256, Vouchers
    <3>8. ASSUME NEW p \in Processes, FetchKeys(p) PROVE CopiesInv(F)'
      BY <3>8 DEF FetchKeys, Vouchers
    <3> QED
      BY <3>1, <3>2, <3>3, <3>4, <3>5, <3>6, <3>7, <3>8
      DEF Next, NewKeyFails, Kill, GenkeyDone
  <2>3. TypeOK /\ CopiesInv(F) => Agree(F)
    BY DEF CopiesInv, TypeOK, Vouchers, Processes
  <2> QED
    BY <2>1, <2>2, <2>3, KeyTypeCorrect, PTL DEF Spec
<1> QED
  BY <1>1 DEF CopiesInterchangeable

\* What a restart of all processes on the file f heals: the file holds k, nobody is
\* about to write it, and nobody has another key.
Healed(f, k) ==
  /\ file[f] = k
  /\ \A p \in Processes : KeyFile[p] = f =>
       pc[p] \in {"down", "ready"} /\ key[p] \in {NoKey, k}

\* A race of two processes in NewECDSAKey, or the death of a writer, splits the keys of
\* a file only until all its processes were stopped at once with a key in the file:
\* after that NewECDSAKey finds that key at every start and nobody writes.
THEOREM StopAllHeals == Spec => RestartHeals
<1> DEFINE OneKey(f, k) == \A p \in Processes : KeyFile[p] = f => key[p] \in {NoKey, k}
<1>1. ASSUME NEW f \in Files \ ReadFaults, NEW k \in Keys
      PROVE  Spec => [](AllStopped(f) /\ file[f] = k => []OneKey(f, k))
  <2> USE EcdsaKeyAssumption
  <2>1. TypeOK /\ AllStopped(f) /\ file[f] = k => Healed(f, k)
    BY DEF TypeOK, AllStopped, Healed
  <2>2. ASSUME TypeOK, Healed(f, k), [Next]_vars PROVE Healed(f, k)'
    <3> USE <2>2 DEF Healed, TypeOK
    <3>1. CASE UNCHANGED vars
      BY <3>1 DEF vars, histVars
    <3>2. ASSUME NEW p \in Processes, LoadKey(p) PROVE Healed(f, k)'
      BY <3>2 DEF LoadKey, histVars
    <3>3. ASSUME NEW p \in Processes, GenerateKey(p) PROVE Healed(f, k)'
      BY <3>3 DEF GenerateKey, histVars
    <3>4. ASSUME NEW p \in Processes, CreateKeyFile(p) PROVE Healed(f, k)'
      BY <3>4 DEF CreateKeyFile, histVars
    <3>5. ASSUME NEW p \in Processes, EncodeKey(p) PROVE Healed(f, k)'
      BY <3>5 DEF EncodeKey, histVars
    <3>6. ASSUME NEW p \in Processes, Stop(p) PROVE Healed(f, k)'
      BY <3>6 DEF Stop, LeftInFile, histVars
    <3>7. ASSUME NEW p \in Processes, NEW r, NEW s, SignES256(p, r, s) PROVE Healed(f, k)'
      BY <3>7 DEF SignES256
    <3>8. ASSUME NEW p \in Processes, FetchKeys(p) PROVE Healed(f, k)'
      BY <3>8 DEF FetchKeys
    <3> QED
      BY <3>1, <3>2, <3>3, <3>4, <3>5, <3>6, <3>7, <3>8
      DEF Next, NewKeyFails, Kill, GenkeyDone
  <2>3. Healed(f, k) => OneKey(f, k)
    BY DEF Healed
  <2> QED
    BY <2>1, <2>2, <2>3, KeyTypeCorrect, PTL DEF Spec
<1> QED
  BY <1>1 DEF RestartHeals

-----------------------------------------------------------------------------
(* The encoding of a signature.  Facts about Place need induction; they    *)
(* are proved by looking at the least number for which one fails.          *)

LessThan == {pair \in Nat \X Nat : pair[1] < pair[2]}

\* A set of numbers has a least element.
LEMMA LeastNatural ==
  ASSUME NEW T \in SUBSET Nat, T # {}
  PROVE  \E x \in T : \A y \in T : x <= y
<1>1. IsWellFoundedOn(LessThan, Nat)
  BY NatLessThanWellFounded, Zenon DEF OpToRel, LessThan
<1>2. PICK x \in T : \A y \in T : ~(<<y, x>> \in LessThan)
  BY <1>1, WFMin
<1>3. \A k, l \in Nat : l < k => <<l, k>> \in LessThan
  BY DEF LessThan
<1>4. \A y \in T : ~(y < x)
  BY <1>2, <1>3
<1> QED
  BY <1>4

\* f is Place up to n.
PlaceUpto(f, n) ==
  f \in [0..n -> Nat] /\ f[0] = 1 /\ \A k \in 1..n : f[k] = Radix * f[k - 1]

\* Place can be computed up to every n, in one way: so its recursive equation has a
\* solution, and Place is one.
LEMMA PlaceUptoExists == \A n \in Nat : \E f : PlaceUpto(f, n)
<1> DEFINE T == {n \in Nat : ~\E f : PlaceUpto(f, n)}
<1> SUFFICES ASSUME T # {} PROVE FALSE
  OBVIOUS
<1>1. PICK x \in T : \A y \in T : x <= y
  BY LeastNatural
<1>2. CASE x = 0
  <2>1. PlaceUpto([k \in 0..0 |-> 1], 0)
    BY DEF PlaceUpto
  <2> QED
    BY <1>2, <2>1
<1>3. CASE x # 0
  <2>1. x - 1 \in Nat /\ x - 1 \notin T
    BY <1>1, <1>3
  <2>2. PICK f : PlaceUpto(f, x - 1)
    BY <2>1
  <2>3. PICK v \in Nat : v = Radix * f[x - 1]
    BY <2>1, <2>2, EcdsaKeyAssumption DEF PlaceUpto
  <2> DEFINE g == [k \in 0..x |-> IF k = x THEN v ELSE f[k]]
  <2>4. g \in [0..x -> Nat] /\ g[0] = 1
    BY <1>3, <2>1, <2>2 DEF PlaceUpto
  <2>5. ASSUME NEW k \in 1..x PROVE g[k] = Radix * g[k - 1]
    <3>1. g[k - 1] = f[k - 1] /\ k - 1 \in 0..(x - 1)
      BY <2>1
    <3>2. CASE k = x
      BY <2>3, <3>1, <3>2
    <3>3. CASE k # x
      BY <2>1, <2>2, <3>1, <3>3 DEF PlaceUpto
    <3> QED
      BY <3>2, <3>3
  <2>6. PlaceUpto(g, x)
    BY <2>4, <2>5 DEF PlaceUpto
  <2> QED
    BY <2>6
<1> QED
  BY <1>2, <1>3

LEMMA PlaceUptoUnique ==
  ASSUME NEW n \in Nat, NEW m \in Nat, n <= m, NEW f, PlaceUpto(f, n), NEW g, PlaceUpto(g, m)
  PROVE  \A k \in 0..n : f[k] = g[k]
<1> DEFINE T == {k \in 0..n : f[k] # g[k]}
<1> SUFFICES ASSUME T # {} PROVE FALSE
  OBVIOUS
<1>0. T \in SUBSET Nat
  OBVIOUS
<1>1. PICK x \in T : \A y \in T : x <= y
  BY <1>0, LeastNatural
<1>2. x # 0
  BY DEF PlaceUpto
<1>3. x - 1 \in 0..n /\ f[x - 1] = g[x - 1]
  BY <1>1, <1>2
<1>4. f[x] = Radix * f[x - 1] /\ g[x] = Radix * g[x - 1]
  BY <1>2 DEF PlaceUpto
<1> QED
  BY <1>3, <1>4

LEMMA PlaceEquation == Place = [k \in Nat |-> IF k = 0 THEN 1 ELSE Radix * Place[k - 1]]
<1> DEFINE upto(n) == CHOOSE f : PlaceUpto(f, n)
           F == [n \in Nat |-> upto(n)[n]]
<1>1. \A n \in Nat : PlaceUpto(upto(n), n)
  BY PlaceUptoExists
<1> HIDE DEF upto
<1>2. F[0] = 1
  BY <1>1 DEF PlaceUpto
<1>3. ASSUME NEW n \in Nat \ {0} PROVE F[n] = Radix * F[n - 1]
  <2>1. n - 1 \in Nat /\ n - 1 \in 0..(n - 1) /\ n \in 1..n /\ n - 1 <= n
    OBVIOUS
  <2>2. upto(n)[n] = Radix * upto(n)[n - 1]
    BY <1>1, <2>1 DEF PlaceUpto
  <2>3. upto(n - 1)[n - 1] = upto(n)[n - 1]
    BY <1>1, <2>1, PlaceUptoUnique
  <2> QED
    BY <2>1, <2>2, <2>3
<1>4. F = [k \in Nat |-> IF k = 0 THEN 1 ELSE Radix * F[k - 1]]
  BY <1>2, <1>3
<1> HIDE DEF F
<1>5. \E f : f = [k \in Nat |-> IF k = 0 THEN 1 ELSE Radix * f[k - 1]]
  BY <1>4
<1> QED
  BY <1>5, Zenon DEF Place

\* The places of a number: positive, and growing.
LEMMA PlaceType == \A k \in Nat : Place[k] \in Nat /\ Place[k] >= 1
<1> DEFINE T == {k \in Nat : ~(Place[k] \in Nat /\ Place[k] >= 1)}
<1> SUFFICES ASSUME T # {} PROVE FALSE
  OBVIOUS
<1>1. PICK x \in T : \A y \in T : x <= y
  BY LeastNatural
<1>2. Place[0] = 1
  BY PlaceEquation
<1>3. x # 0
  BY <1>2
<1>4. x - 1 \in Nat /\ Place[x - 1] \in Nat /\ Place[x - 1] >= 1
  BY <1>1, <1>3
<1>5. Place[x] = Radix * Place[x - 1]
  BY <1>3, PlaceEquation
<1>6. Radix * Place[x - 1] \in Nat /\ Radix * Place[x - 1] >= 1
  BY <1>4, EcdsaKeyAssumption
<1> QED
  BY <1>5, <1>6

LEMMA PlaceMonotone ==
  ASSUME NEW a \in Nat, NEW b \in Nat, a <= b
  PROVE  Place[a] <= Place[b]
<1> DEFINE T == {k \in Nat : a <= k /\ ~(Place[a] <= Place[k])}
<1> SUFFICES ASSUME T # {} PROVE FALSE
  OBVIOUS
<1>1. PICK x \in T : \A y \in T : x <= y
  BY LeastNatural
<1>2. x # a
  BY PlaceType
<1>3. x - 1 \in Nat /\ a <= x - 1 /\ Place[a] <= Place[x - 1]
  BY <1>1, <1>2
<1>4. Place[x] = Radix * Place[x - 1]
  BY <1>3, PlaceEquation
<1>5. Place[x - 1] \in Nat /\ Place[a] \in Nat /\ Place[x] \in Nat
  BY <1>3, PlaceType
<1>6. Place[x - 1] <= Radix * Place[x - 1]
  BY <1>5, EcdsaKeyAssumption
<1> QED
  BY <1>3, <1>4, <1>5, <1>6

\* big.Int.Bytes returns the bytes down to the first that counts.
LEMMA BytesLength ==
  ASSUME NEW n \in 1 .. (Place[CurveSize] - 1)
  PROVE  \E len \in 0..CurveSize :
           /\ Cardinality({i \in 0 .. (CurveSize - 1) : Place[i] <= n}) = len
           /\ \A i \in len .. (CurveSize - 1) : n < Place[i]
<1>1. CurveSize \in Nat /\ Place[CurveSize] \in Nat /\ n \in Nat
  BY PlaceType, EcdsaKeyAssumption
<1> DEFINE T == {k \in Nat : n < Place[k]}
<1>2. CurveSize \in T
  BY <1>1
<1>3. PICK len \in T : \A y \in T : len <= y
  BY <1>2, LeastNatural
<1>4. len \in 0..CurveSize
  BY <1>1, <1>2, <1>3
<1>5. \A k \in Nat : k < len => Place[k] <= n
  BY <1>1, <1>3, PlaceType
<1>6. \A k \in Nat : len <= k => n < Place[k]
  BY <1>1, PlaceMonotone, PlaceType
<1>7. {i \in 0 .. (CurveSize - 1) : Place[i] <= n} = 0 .. (len - 1)
  <2>1. ASSUME NEW i \in 0 .. (CurveSize - 1), Place[i] <= n PROVE i \in 0 .. (len - 1)
    BY <1>1, <1>4, <1>6, <2>1, PlaceType
  <2>2. ASSUME NEW i \in 0 .. (len - 1) PROVE i \in 0 .. (CurveSize - 1) /\ Place[i] <= n
    BY <1>1, <1>4, <1>5
  <2> QED
    BY <2>1, <2>2
<1>8. Cardinality(0 .. (len - 1)) = len
  <2>1. len - 1 \in Int /\ 0 \in Int
    BY <1>4
  <2> QED
    BY <1>4, <2>1, FS_Interval
<1>9. Cardinality({i \in 0 .. (CurveSize - 1) : Place[i] <= n}) = len
  BY <1>7, <1>8
<1>10. \A i \in len .. (CurveSize - 1) : n < Place[i]
  BY <1>1, <1>4, <1>6
<1> HIDE DEF T
<1> QED
  BY <1>4, <1>9, <1>10

\* padLeft puts back exactly the zero bytes that Bytes left out.
LEMMA PadLeftFills ==
  ASSUME NEW n \in Scalars
  PROVE  padLeft(Bytes(n), CurveSize) = FillBytes(n)
<1>1. n \in 1 .. (Place[CurveSize] - 1) /\ n \in Nat /\ CurveSize \in Nat
  BY EcdsaKeyAssumption, PlaceType
<1>2. PICK len \in 0..CurveSize :
        /\ Cardinality({i \in 0 .. (CurveSize - 1) : Place[i] <= n}) = len
        /\ \A i \in len .. (CurveSize - 1) : n < Place[i]
  BY <1>1, BytesLength
<1> DEFINE digit(k) == (n \div Place[k]) % Radix
<1>3. Bytes(n) = [i \in 1..len |-> digit(len - i)]
  BY <1>2 DEF Bytes
<1>4. FillBytes(n) = [i \in 1..CurveSize |-> digit(CurveSize - i)]
  BY DEF FillBytes
<1>5. \A k \in len .. (CurveSize - 1) : digit(k) = 0
  <2> SUFFICES ASSUME NEW k \in len .. (CurveSize - 1) PROVE digit(k) = 0
    OBVIOUS
  <2>1. Place[k] \in Nat /\ n < Place[k]
    BY <1>2, PlaceType
  <2>2. n \div Place[k] = 0
    BY <1>1, <2>1
  <2> QED
    BY <2>2, EcdsaKeyAssumption
<1>6. \A k \in Nat : digit(k) \in Nat
  <2> SUFFICES ASSUME NEW k \in Nat PROVE digit(k) \in Nat
    OBVIOUS
  <2>1. n \div Place[k] \in Nat
    BY <1>1, PlaceType
  <2> QED
    BY <2>1, EcdsaKeyAssumption
<1> HIDE DEF digit
<1>7. Bytes(n) \in Seq(Nat) /\ Len(Bytes(n)) = len
  BY <1>3, <1>6
<1>8. CASE len = CurveSize
  BY <1>3, <1>4, <1>7, <1>8 DEF padLeft
<1>9. CASE len < CurveSize
  <2>0. PICK gap \in Nat : gap = CurveSize - len
    BY <1>1, <1>9
  <2> DEFINE zeros == [i \in 1 .. gap |-> 0]
             padded == zeros \o Bytes(n)
  <2>1. zeros \in Seq(Nat) /\ Len(zeros) = gap
    OBVIOUS
  <2>2. padLeft(Bytes(n), CurveSize) = padded
    BY <1>1, <1>7, <1>9, <2>0 DEF padLeft
  <2>3. \A i \in 1 .. gap : zeros[i] = 0
    OBVIOUS
  <2> HIDE DEF zeros
  <2>4. gap + len = CurveSize
    BY <1>1, <2>0
  <2>5. /\ padded \in Seq(Nat)
        /\ Len(padded) = CurveSize
        /\ \A i \in 1..CurveSize :
             padded[i] = IF i <= gap THEN zeros[i] ELSE Bytes(n)[i - gap]
    <3>1. /\ padded \in Seq(Nat)
          /\ Len(padded) = Len(zeros) + Len(Bytes(n))
          /\ \A i \in 1 .. Len(zeros) + Len(Bytes(n)) :
               padded[i] = IF i <= Len(zeros) THEN zeros[i] ELSE Bytes(n)[i - Len(zeros)]
      BY <1>7, <2>1, ConcatProperties, Zenon
    <3>2. Len(zeros) + Len(Bytes(n)) = CurveSize
      BY <1>7, <2>1, <2>4
    <3> QED
      BY <2>1, <3>1, <3>2
  <2> HIDE DEF padded
  <2>6. ASSUME NEW i \in 1..CurveSize PROVE padded[i] = digit(CurveSize - i)
    <3>1. CASE i <= gap
      <4>1. CurveSize - i \in len .. (CurveSize - 1) /\ i \in 1 .. gap
        BY <1>1, <2>4, <3>1
      <4> QED
        BY <1>5, <2>3, <2>5, <3>1, <4>1
    <3>2. CASE ~(i <= gap)
      <4>1. i - gap \in 1..len /\ len - (i - gap) = CurveSize - i
        BY <1>1, <2>4, <3>2
      <4>2. padded[i] = Bytes(n)[i - gap]
        BY <2>5, <3>2
      <4>3. Bytes(n)[i - gap] = digit(len - (i - gap))
        BY <1>3, <4>1
      <4> QED
        BY <4>1, <4>2, <4>3
    <3> QED
      BY <3>1, <3>2
  <2>7. padded = [i \in 1..CurveSize |-> digit(CurveSize - i)]
    <3>1. DOMAIN padded = 1..CurveSize /\ padded = [i \in DOMAIN padded |-> padded[i]]
      BY <1>1, <2>5
    <3> QED
      BY <2>6, <3>1
  <2> QED
    BY <1>4, <2>2, <2>7
<1> QED
  BY <1>1, <1>8, <1>9

\* Server.Sign returns signatures in the form of ES256: padLeft makes r and s CurveSize
\* bytes long each, however many leading zero bytes big.Int.Bytes left out.
THEOREM SignaturesAreP1363 == Spec => []SignatureIsP1363
<1>1. Init => SignatureIsP1363
  BY DEF Init, SignatureIsP1363
<1>2. SignatureIsP1363 /\ [Next]_vars => SignatureIsP1363'
  <2> SUFFICES ASSUME SignatureIsP1363, [Next]_vars PROVE SignatureIsP1363'
    OBVIOUS
  <2>1. ASSUME NEW p \in Processes, NEW r \in Scalars, NEW s \in Scalars, SignES256(p, r, s)
        PROVE  SignatureIsP1363'
    <3>1. rs' = <<r, s>> /\ signature' = FillBytes(r) \o FillBytes(s)
      BY <2>1, PadLeftFills DEF SignES256
    <3> QED
      BY <3>1 DEF SignatureIsP1363
  <2>2. CASE UNCHANGED <<rs, signature>>
    BY <2>2 DEF SignatureIsP1363
  <2> QED
    BY <2>1, <2>2
    DEF Next, vars, histVars, LoadKey, GenerateKey, CreateKeyFile, EncodeKey,
        NewKeyFails, Kill, GenkeyDone, Stop, FetchKeys
<1> QED
  BY <1>1, <1>2, PTL DEF Spec
=============================================================================
