----------------------------- MODULE PoolLemmas -----------------------------
(***************************************************************************)
(* Facts about sequences, about counting and about least numbers, on which *)
(* the proofs about the pool, its free list, the caches and the telemetry  *)
(* writer rest.                                                            *)
(***************************************************************************)
EXTENDS Integers, FiniteSets, Selection, SequencesExt, SequenceTheorems, FiniteSetTheorems,
        WellFoundedInduction, TLAPS

\* A sequence from its m-th element to its n-th one; the provers see only
\* what the lemmas say of it.
Part(q, m, n) == SubSeq(q, m, n)
FirstOf(q, n) == {q[i] : i \in 1..n}

\* A sequence over S without its first n elements.
LEMMA DropFirst ==
    ASSUME NEW S, NEW q \in Seq(S), IsInjective(q), NEW n \in Nat, n <= Len(q)
    PROVE  LET t == Part(q, n + 1, Len(q))
           IN  /\ t \in Seq(S)
               /\ Len(t) = Len(q) - n
               /\ IsInjective(t)
               /\ ToSet(t) = ToSet(q) \ FirstOf(q, n)
<1> DEFINE t == Part(q, n + 1, Len(q))
<1>1. /\ t \in Seq(S)
      /\ Len(t) = Len(q) - n
      /\ \A i \in 1..Len(q) - n : t[i] = q[n + i]
  <2>1. \A i \in (n + 1)..Len(q) : q[i] \in S
    BY LenProperties
  <2> QED BY <2>1, SubSeqProperties, LenProperties, Z3 DEF Part
<1> HIDE DEF t
<1>2. DOMAIN t = 1..(Len(q) - n) /\ DOMAIN q = 1..Len(q) /\ Len(q) \in Nat
  BY <1>1, LenProperties
<1>3. IsInjective(t)
  <2>1. \A i, j \in DOMAIN t : n + i \in DOMAIN q /\ n + j \in DOMAIN q /\ (n + i = n + j => i = j)
    BY <1>2
  <2> QED BY <1>1, <1>2, <2>1 DEF IsInjective
<1>4. ToSet(t) = ToSet(q) \ FirstOf(q, n)
  <2>1. ASSUME NEW i \in 1..(Len(q) - n)
        PROVE  t[i] \in ToSet(q) \ {q[j] : j \in 1..n}
    <3>1. n + i \in DOMAIN q /\ t[i] = q[n + i]
      BY <1>1, <1>2
    <3>2. \A j \in 1..n : j \in DOMAIN q /\ j # n + i
      BY <1>2
    <3> QED BY <3>1, <3>2 DEF IsInjective, ToSet
  <2>2. ASSUME NEW i \in 1..Len(q), ~ i \in 1..n
        PROVE  q[i] \in ToSet(t)
    <3>1. i - n \in 1..(Len(q) - n) /\ t[i - n] = q[n + (i - n)]
      BY <1>1, <1>2, <2>2
    <3>2. n + (i - n) = i
      OBVIOUS
    <3> QED BY <1>2, <3>1, <3>2 DEF ToSet
  <2> QED BY <1>2, <2>1, <2>2 DEF ToSet, FirstOf
<1> QED BY <1>1, <1>3, <1>4 DEF t

\* The first n elements of a sequence.
LEMMA KeepFirst ==
    ASSUME NEW S, NEW q \in Seq(S), IsInjective(q), NEW n \in Nat, n <= Len(q)
    PROVE  LET t == Part(q, 1, n)
           IN  /\ t \in Seq(S)
               /\ Len(t) = n
               /\ \A i \in 1..n : t[i] = q[i]
               /\ IsInjective(t)
               /\ ToSet(t) = FirstOf(q, n)
<1> DEFINE t == Part(q, 1, n)
<1>1. /\ t \in Seq(S)
      /\ Len(t) = n
      /\ \A i \in 1..n : t[i] = q[i]
  <2>1. \A i \in 1..n : q[i] \in S
    BY LenProperties
  <2> QED BY <2>1, SubSeqProperties, Z3 DEF Part
<1> HIDE DEF t
<1>2. DOMAIN t = 1..n /\ DOMAIN q = 1..Len(q) /\ Len(q) \in Nat
  BY <1>1, LenProperties
<1>3. \A i \in 1..n : i \in DOMAIN q
  BY <1>2
<1>4. IsInjective(t)
  BY <1>1, <1>2, <1>3 DEF IsInjective
<1>5. ToSet(t) = FirstOf(q, n)
  BY <1>1, <1>2 DEF ToSet, FirstOf
<1> QED BY <1>1, <1>4, <1>5 DEF t

\* Two sequences without common elements, one behind the other.
LEMMA Concatenation ==
    ASSUME NEW S, NEW q \in Seq(S), IsInjective(q), NEW s \in Seq(S), IsInjective(s),
           ToSet(q) \cap ToSet(s) = {}
    PROVE  /\ q \o s \in Seq(S)
           /\ Len(q \o s) = Len(q) + Len(s)
           /\ IsInjective(q \o s)
           /\ ToSet(q \o s) = ToSet(q) \cup ToSet(s)
<1> DEFINE t == q \o s
<1>1. /\ t \in Seq(S)
      /\ Len(t) = Len(q) + Len(s)
      /\ \A i \in 1..Len(q) + Len(s) : t[i] = IF i <= Len(q) THEN q[i] ELSE s[i - Len(q)]
  BY ConcatProperties
<1> HIDE DEF t
<1>2. /\ DOMAIN t = 1..(Len(q) + Len(s)) /\ DOMAIN q = 1..Len(q) /\ DOMAIN s = 1..Len(s)
      /\ Len(q) \in Nat /\ Len(s) \in Nat
  BY <1>1, LenProperties
<1>3. \A i \in DOMAIN t : IF i <= Len(q) THEN i \in DOMAIN q ELSE i - Len(q) \in DOMAIN s
  BY <1>2
<1>4. IsInjective(t)
  <2> SUFFICES ASSUME NEW i \in DOMAIN t, NEW j \in DOMAIN t, t[i] = t[j] PROVE i = j
    BY DEF IsInjective
  <2>1. CASE i <= Len(q) /\ j <= Len(q)
    BY <1>1, <1>2, <1>3, <2>1 DEF IsInjective
  <2>2. CASE i > Len(q) /\ j > Len(q)
    <3>1. i - Len(q) = j - Len(q)
      BY <1>1, <1>2, <1>3, <2>2 DEF IsInjective
    <3> QED BY <1>2, <3>1
  <2>3. CASE ~ (i <= Len(q) <=> j <= Len(q))
    BY <1>1, <1>2, <1>3, <2>3 DEF ToSet
  <2> QED BY <1>2, <2>1, <2>2, <2>3
<1>5. ToSet(t) = ToSet(q) \cup ToSet(s)
  <2>1. \A i \in DOMAIN t : t[i] \in ToSet(q) \cup ToSet(s)
    BY <1>1, <1>2, <1>3 DEF ToSet
  <2>2. \A i \in DOMAIN q : i \in DOMAIN t /\ t[i] = q[i]
    BY <1>1, <1>2
  <2>3. \A i \in DOMAIN s : Len(q) + i \in DOMAIN t /\ t[Len(q) + i] = s[i]
    BY <1>1, <1>2
  <2> QED BY <2>1, <2>2, <2>3 DEF ToSet
<1> QED BY <1>1, <1>4, <1>5 DEF t

\* A sequence and one new element behind it.
LEMMA AppendKeeps ==
    ASSUME NEW S, NEW q \in Seq(S), IsInjective(q), NEW b \in S, b \notin ToSet(q)
    PROVE  /\ Append(q, b) \in Seq(S)
           /\ Len(Append(q, b)) = Len(q) + 1
           /\ IsInjective(Append(q, b))
           /\ ToSet(Append(q, b)) = ToSet(q) \cup {b}
<1>1. /\ Append(q, b) \in Seq(S)
      /\ Len(Append(q, b)) = Len(q) + 1
      /\ \A i \in 1..Len(q) : Append(q, b)[i] = q[i]
      /\ Append(q, b)[Len(q) + 1] = b
  BY AppendProperties
<1>2. DOMAIN Append(q, b) = 1..(Len(q) + 1) /\ DOMAIN q = 1..Len(q) /\ Len(q) \in Nat
  BY <1>1, LenProperties
<1>3. \A i \in DOMAIN Append(q, b) : i \in DOMAIN q \/ i = Len(q) + 1
  BY <1>2
<1>4. IsInjective(Append(q, b))
  BY <1>1, <1>2, <1>3 DEF IsInjective, ToSet
<1>5. ToSet(Append(q, b)) = ToSet(q) \cup {b}
  BY <1>1, <1>2, <1>3 DEF ToSet
<1> QED BY <1>1, <1>4, <1>5

\* A sequence without its k-th element.
LEMMA RemovedAt ==
    ASSUME NEW S, NEW q \in Seq(S), IsInjective(q), NEW k \in DOMAIN q
    PROVE  /\ RemoveAt(q, k) \in Seq(S)
           /\ Len(RemoveAt(q, k)) = Len(q) - 1
           /\ IsInjective(RemoveAt(q, k))
           /\ ToSet(RemoveAt(q, k)) = ToSet(q) \ {q[k]}
<1> DEFINE s == Part(q, 1, k - 1)
           t == Part(q, k + 1, Len(q))
<1>1. DOMAIN q = 1..Len(q) /\ Len(q) \in Nat /\ k \in 1..Len(q)
  BY LenProperties
<1>2. k - 1 \in Nat /\ k - 1 <= Len(q) /\ k \in Nat /\ k <= Len(q)
  BY <1>1
<1>3. /\ s \in Seq(S) /\ Len(s) = k - 1 /\ IsInjective(s)
      /\ ToSet(s) = FirstOf(q, k - 1)
  BY <1>2, KeepFirst
<1>4. /\ t \in Seq(S) /\ Len(t) = Len(q) - k /\ IsInjective(t)
      /\ ToSet(t) = ToSet(q) \ FirstOf(q, k)
  BY <1>2, DropFirst
<1>7. RemoveAt(q, k) = s \o t
  BY DEF RemoveAt, Part
<1> HIDE DEF s, t
<1>5. ToSet(s) \cap ToSet(t) = {}
  BY <1>1, <1>3, <1>4 DEF FirstOf
<1>6. ToSet(s) \cup ToSet(t) = ToSet(q) \ {q[k]}
  <2>1. \A j \in 1..(k - 1) : j \in DOMAIN q /\ j # k
    BY <1>1
  <2>2. \A j \in 1..k : j = k \/ j \in 1..(k - 1)
    BY <1>1
  <2>3. \A j \in 1..(k - 1) : j \in 1..k
    BY <1>1
  <2>5. \A j \in 1..(k - 1) : q[j] # q[k] /\ q[j] \in ToSet(q)
    BY <2>1 DEF IsInjective, ToSet
  <2> QED BY <1>3, <1>4, <2>2, <2>3, <2>5 DEF FirstOf
<1>8. /\ s \o t \in Seq(S) /\ Len(s \o t) = Len(s) + Len(t) /\ IsInjective(s \o t)
      /\ ToSet(s \o t) = ToSet(s) \cup ToSet(t)
  BY <1>3, <1>4, <1>5, Concatenation
<1>9. Len(s) + Len(t) = Len(q) - 1
  BY <1>1, <1>3, <1>4
<1> QED BY <1>6, <1>7, <1>8, <1>9

\* An arrangement of a finite set is a duplicate-free sequence of all of it.
LEMMA Arrangement ==
    ASSUME NEW S, IsFiniteSet(S), NEW s \in SetToSeqs(S)
    PROVE  /\ s \in Seq(S)
           /\ Len(s) = Cardinality(S)
           /\ IsInjective(s)
           /\ ToSet(s) = S
<1> DEFINE n == Cardinality(S)
<1>1. n \in Nat
  BY FS_CardinalityType
<1>2. s \in [1..n -> S] /\ \A i, j \in 1..n : i # j => s[i] # s[j]
  BY DEF SetToSeqs
<1>3. s \in Seq(S) /\ Len(s) = n /\ DOMAIN s = 1..n
  BY <1>1, <1>2
<1>4. s \in Injection(1..n, S)
  BY <1>2 DEF Injection, IsInjective
<1>5. Cardinality(1..n) = n
  BY <1>1, FS_Interval
<1>6. s \in Surjection(1..n, S)
  BY <1>4, <1>5, FS_Injection
<1>7. ToSet(s) = S
  BY <1>2, <1>3, <1>6 DEF Surjection, ToSet
<1> QED BY <1>2, <1>3, <1>7 DEF IsInjective

\* A set of numbers with a member has a least one.  What a recursive function
\* computes is shown with it: take the first argument at which it goes wrong.
LEMMA Least ==
    ASSUME NEW T \in SUBSET Nat, T # {}
    PROVE  \E m \in T : \A k \in T : m <= k
<1>1. PICK m \in T : \A y \in T : ~ (<<y, m>> \in OpToRel(<, Nat))
  BY NatLessThanWellFounded, WFMin, Zenon
<1>2. \A x, y \in Nat : x < y => <<x, y>> \in OpToRel(<, Nat)
  BY DEF OpToRel
<1>3. \A k \in T : ~ k < m
  BY <1>1, <1>2
<1> QED BY <1>3

-----------------------------------------------------------------------------
(* Induction on sequences, and what is selected from one                    *)

\* Induction: what holds of the empty sequence, and of a longer one when it
\* holds of the one before its last element, holds of all.
LEMMA SeqInd ==
    ASSUME NEW E, NEW X, <<>> \in X,
           \A s \in Seq(E), e \in E : s \in X => Append(s, e) \in X
    PROVE  \A s \in Seq(E) : s \in X
<1> DEFINE T == {n \in Nat : \E s \in Seq(E) : Len(s) = n /\ s \notin X}
<1>1. SUFFICES ASSUME NEW s0 \in Seq(E), s0 \notin X
              PROVE  FALSE
  OBVIOUS
<1>2. T \in SUBSET Nat /\ Len(s0) \in T
  BY <1>1
<1>3. PICK m \in T : \A k \in T : m <= k
  BY <1>2, Least
<1>4. PICK s \in Seq(E) : Len(s) = m /\ s \notin X
  OBVIOUS
<1>5. m \in Nat
  OBVIOUS
<1>6. CASE m = 0
  <2>1. s = <<>>
    BY <1>4, <1>6, EmptySeq
  <2> QED BY <1>4, <2>1
<1>7. CASE m # 0
  <2> DEFINE r == [i \in 1..(m - 1) |-> s[i]]
  <2>1. m - 1 \in Nat /\ ~ m <= m - 1 /\ m \in 1..Len(s)
    BY <1>4, <1>5, <1>7
  <2>2. \A i \in 1..Len(s) : s[i] \in E
    BY ElementOfSeq
  <2>3. \A i \in 1..(m - 1) : i \in 1..Len(s)
    BY <1>4, <1>5
  <2>4. r \in Seq(E) /\ Len(r) = m - 1
    BY <2>1, <2>2, <2>3
  <2>5. s[m] \in E
    BY <2>1, <2>2
  <2>6. r \in X
    BY <1>3, <2>1, <2>4
  <2>7. Append(r, s[m]) = s
    <3>1. Append(r, s[m]) \in Seq(E) /\ Len(Append(r, s[m])) = Len(s)
      BY <1>4, <1>5, <2>4, <2>5
    <3>2. ASSUME NEW i \in 1..Len(s)
          PROVE  Append(r, s[m])[i] = s[i]
      <4>1. CASE i = m
        BY <1>4, <1>5, <2>4, <2>5, <4>1
      <4>2. CASE i # m
        <5>1. i \in 1..(m - 1)
          BY <1>4, <1>5, <4>2
        <5>2. Append(r, s[m])[i] = r[i]
          BY <2>4, <2>5, <5>1
        <5> QED BY <5>1, <5>2
      <4> QED BY <4>1, <4>2
    <3> HIDE DEF r
    <3> QED BY <3>1, <3>2, SeqEqual
  <2> QED BY <1>4, <2>4, <2>5, <2>6, <2>7
<1> QED BY <1>6, <1>7

\* G[i] is what is taken of the first i of s.
Takes(G, s, S, n) ==
    G = [i \in 0..n |-> IF i = 0 THEN <<>>
                        ELSE IF s[i] \in S THEN Append(G[i - 1], s[i]) ELSE G[i - 1]]

\* There is such a function, and it has sequences.
LEMMA TakeExists ==
    ASSUME NEW E, NEW S, NEW s \in Seq(E), NEW n \in 0..Len(s)
    PROVE  \E G \in [0..n -> Seq(E)] : Takes(G, s, S, n)
<1> DEFINE T == {k \in 0..Len(s) : ~ \E G \in [0..k -> Seq(E)] : Takes(G, s, S, k)}
<1>1. (\A i \in 1..Len(s) : s[i] \in E) /\ Len(s) \in Nat
  BY ElementOfSeq
<1>2. SUFFICES ASSUME T # {}
              PROVE  FALSE
  OBVIOUS
<1>3. T \in SUBSET Nat
  BY <1>1
<1>4. PICK m \in T : \A k \in T : m <= k
  BY <1>2, <1>3, Least
<1>5. m \in 0..Len(s) /\ m \in Nat /\ ~ \E G \in [0..m -> Seq(E)] : Takes(G, s, S, m)
  BY <1>1
<1>6. CASE m = 0
  <2> DEFINE G == [i \in 0..0 |-> <<>>]
  <2>1. G \in [0..m -> Seq(E)] /\ Takes(G, s, S, m)
    BY <1>6 DEF Takes
  <2> QED BY <1>5, <2>1
<1>7. CASE m # 0
  <2>1. m - 1 \in 0..Len(s) /\ ~ m <= m - 1 /\ m \in 1..Len(s)
    BY <1>1, <1>5, <1>7
  <2>2. PICK H \in [0..(m - 1) -> Seq(E)] : Takes(H, s, S, m - 1)
    BY <1>4, <2>1
  <2> DEFINE v == IF s[m] \in S THEN Append(H[m - 1], s[m]) ELSE H[m - 1]
             G == [i \in 0..m |-> IF i = m THEN v ELSE H[i]]
  <2>3. v \in Seq(E)
    <3>1. s[m] \in E
      BY <1>1, <2>1
    <3>2. H[m - 1] \in Seq(E)
      BY <2>1, <2>2
    <3> QED BY <3>1, <3>2
  <2> HIDE DEF v
  <2>4. G \in [0..m -> Seq(E)]
    <3>1. \A i \in 0..m : i # m => i \in 0..(m - 1)
      BY <1>5
    <3> QED BY <2>2, <2>3, <3>1
  <2>5. Takes(G, s, S, m)
    <3>1. ASSUME NEW i \in 0..m
          PROVE  G[i] = IF i = 0 THEN <<>>
                        ELSE IF s[i] \in S THEN Append(G[i - 1], s[i]) ELSE G[i - 1]
      <4>1. CASE i = m
        <5>1. m \in 0..m /\ m - 1 \in 0..m /\ m - 1 # m
          BY <1>1, <1>5, <1>7
        <5>2. G[m] = v /\ G[m - 1] = H[m - 1]
          BY <5>1
        <5> QED BY <1>7, <4>1, <5>2 DEF v
      <4>2. CASE i # m
        <5>1. i \in 0..(m - 1) /\ (i # 0 => i - 1 \in 0..m /\ i - 1 # m)
          BY <1>5, <4>2
        <5>2. G[i] = H[i] /\ (i # 0 => G[i - 1] = H[i - 1])
          BY <4>2, <5>1
        <5>3. H[i] = IF i = 0 THEN <<>>
                     ELSE IF s[i] \in S THEN Append(H[i - 1], s[i]) ELSE H[i - 1]
          BY <2>2, <5>1 DEF Takes
        <5> QED BY <5>2, <5>3
      <4> QED BY <4>1, <4>2
    <3>2. G = [i \in 0..m |-> G[i]]
      OBVIOUS
    <3> HIDE DEF G
    <3> QED BY <3>1, <3>2 DEF Takes
  <2> QED BY <1>5, <2>4, <2>5
<1> QED BY <1>6, <1>7

\* Two of them agree as far as their sequences do.
TakeAlike(s, t, S, m, n) == \A F, G : Takes(F, s, S, m) /\ Takes(G, t, S, n) => F[m] = G[m]

LEMMA TakeSame ==
    ASSUME NEW s, NEW t, NEW S, NEW m \in Nat, NEW n \in Nat, m <= n,
           \A i \in 1..m : s[i] = t[i]
    PROVE  TakeAlike(s, t, S, m, n)
<1> SUFFICES ASSUME NEW F, NEW G, Takes(F, s, S, m), Takes(G, t, S, n)
             PROVE  F[m] = G[m]
  BY DEF TakeAlike
<1> DEFINE T == {k \in 0..m : F[k] # G[k]}
<1>1. T = {}
  <2>1. SUFFICES ASSUME T # {}
                PROVE  FALSE
    OBVIOUS
  <2>2. T \in SUBSET Nat
    OBVIOUS
  <2>3. PICK k \in T : \A j \in T : k <= j
    BY <2>1, <2>2, Least
  <2>4. k \in 0..m /\ k \in 0..n /\ F[k] # G[k]
    OBVIOUS
  <2>5. /\ F[k] = IF k = 0 THEN <<>>
                  ELSE IF s[k] \in S THEN Append(F[k - 1], s[k]) ELSE F[k - 1]
        /\ G[k] = IF k = 0 THEN <<>>
                  ELSE IF t[k] \in S THEN Append(G[k - 1], t[k]) ELSE G[k - 1]
    BY <2>4 DEF Takes
  <2>6. k # 0
    BY <2>4, <2>5
  <2>7. k \in 1..m /\ k - 1 \in 0..m /\ ~ k <= k - 1
    BY <2>4, <2>6
  <2>8. F[k - 1] = G[k - 1] /\ s[k] = t[k]
    BY <2>3, <2>7
  <2> QED BY <2>4, <2>5, <2>6, <2>8
<1> QED BY <1>1

\* Among is the last sequence of such a function.
LEMMA AmongIs ==
    ASSUME NEW E, NEW S, NEW s \in Seq(E)
    PROVE  \E G : Takes(G, s, S, Len(s)) /\ Among(s, S) = G[Len(s)] /\ G[Len(s)] \in Seq(E)
<1> DEFINE R(G) == G = [n \in 0..Len(s) |->
                          IF n = 0 THEN <<>>
                          ELSE IF s[n] \in S THEN Append(G[n - 1], s[n]) ELSE G[n - 1]]
           C == CHOOSE G : R(G)
<1>1. Among(s, S) = C[Len(s)]
  BY Zenon DEF Among
<1>2. Len(s) \in Nat /\ Len(s) \in 0..Len(s) /\ Len(s) <= Len(s)
  OBVIOUS
<1>3. PICK F \in [0..Len(s) -> Seq(E)] : Takes(F, s, S, Len(s))
  BY <1>2, TakeExists
<1>4. R(F)
  BY <1>3 DEF Takes
<1>5. R(C)
  BY <1>4, Zenon
<1>6. Takes(C, s, S, Len(s))
  BY <1>5 DEF Takes
<1> HIDE DEF C
<1>7. C[Len(s)] = F[Len(s)] /\ F[Len(s)] \in Seq(E)
  <2>1. TakeAlike(s, s, S, Len(s), Len(s))
    BY <1>2, TakeSame
  <2>2. F[Len(s)] \in Seq(E)
    BY <1>2, <1>3
  <2> QED BY <1>3, <1>6, <2>1, <2>2 DEF TakeAlike
<1> QED BY <1>1, <1>6, <1>7

LEMMA AmongType == \A E, S : \A s \in Seq(E) : Among(s, S) \in Seq(E)
BY AmongIs

LEMMA AmongEmpty == \A S : Among(<<>>, S) = <<>>
<1> TAKE S
<1>1. <<>> \in Seq({}) /\ Len(<<>>) = 0
  OBVIOUS
<1>2. PICK G : Takes(G, <<>>, S, Len(<<>>)) /\ Among(<<>>, S) = G[Len(<<>>)]
  <2>1. \A s \in Seq({}) : \E G : Takes(G, s, S, Len(s)) /\ Among(s, S) = G[Len(s)]
    BY AmongIs
  <2> QED BY <1>1, <2>1, Zenon
<1>3. G[0] = <<>>
  BY <1>1, <1>2 DEF Takes
<1> QED BY <1>2, <1>3

\* One element longer.
Longer(s, S, e) ==
    Among(Append(s, e), S) = IF e \in S THEN Append(Among(s, S), e) ELSE Among(s, S)

LEMMA AmongAppend ==
    ASSUME NEW E, NEW S, NEW s \in Seq(E), NEW e \in E
    PROVE  Longer(s, S, e)
<1> DEFINE t == Append(s, e)
           n == Len(s)
<1>1. /\ n \in Nat /\ t \in Seq(E) /\ Len(t) = n + 1 /\ t[n + 1] = e
      /\ \A i \in 1..n : s[i] = t[i]
  BY AppendProperties
<1> HIDE DEF t
<1>2. PICK F : Takes(F, s, S, n) /\ Among(s, S) = F[n] /\ F[n] \in Seq(E)
  BY AmongIs
<1> HIDE DEF n
<1>3. PICK G : Takes(G, t, S, n + 1) /\ Among(t, S) = G[n + 1]
  BY <1>1, AmongIs
<1>4. F[n] = G[n]
  <2>1. n + 1 \in Nat /\ n <= n + 1
    BY <1>1
  <2>2. TakeAlike(s, t, S, n, n + 1)
    BY <1>1, <2>1, TakeSame
  <2> QED BY <1>2, <1>3, <2>2 DEF TakeAlike
<1>5. G[n + 1] = IF t[n + 1] \in S THEN Append(G[n], t[n + 1]) ELSE G[n]
  <2>1. n + 1 \in 0..(n + 1) /\ n + 1 # 0 /\ (n + 1) - 1 = n
    BY <1>1
  <2> QED BY <1>3, <2>1 DEF Takes
<1> QED BY <1>1, <1>2, <1>3, <1>4, <1>5, Zenon DEF t, Longer

LEMMA SetEmpty == ToSet(<<>>) = {}
BY DEF ToSet

LEMMA SetAppend ==
    ASSUME NEW E, NEW s \in Seq(E), NEW e \in E
    PROVE  ToSet(Append(s, e)) = ToSet(s) \cup {e}
<1> DEFINE t == Append(s, e)
           n == Len(s)
<1>1. /\ n \in Nat /\ DOMAIN t = 1..(n + 1) /\ DOMAIN s = 1..n /\ t[n + 1] = e
      /\ \A i \in 1..n : s[i] = t[i]
  BY AppendProperties, LenProperties
<1> HIDE DEF t, n
<1>2. ToSet(t) = {t[i] : i \in 1..(n + 1)} /\ ToSet(s) = {s[i] : i \in 1..n}
  BY <1>1 DEF ToSet
<1>3. 1..(n + 1) = 1..n \cup {n + 1}
  BY <1>1
<1> QED BY <1>1, <1>2, <1>3 DEF t

LEMMA SetOf == \A E : \A s \in Seq(E) : ToSet(s) \subseteq E
BY ElementOfSeq, LenProperties DEF ToSet

\* What is taken is what is in both.
LEMMA AmongSet == \A E, S : \A s \in Seq(E) : ToSet(Among(s, S)) = ToSet(s) \cap S
<1> TAKE E, S
<1> DEFINE X == {s \in Seq(E) : ToSet(Among(s, S)) = ToSet(s) \cap S}
<1>1. <<>> \in X
  BY AmongEmpty, SetEmpty
<1>2. ASSUME NEW s \in Seq(E), NEW e \in E, s \in X
      PROVE  Append(s, e) \in X
  <2>1. Longer(s, S, e)
    BY AmongAppend
  <2>2. Among(s, S) \in Seq(E) /\ Append(s, e) \in Seq(E)
    BY AmongType
  <2>3. ToSet(Append(s, e)) = ToSet(s) \cup {e} /\ ToSet(Append(Among(s, S), e)) = ToSet(Among(s, S)) \cup {e}
    <3>1. \A t \in Seq(E) : ToSet(Append(t, e)) = ToSet(t) \cup {e}
      BY SetAppend
    <3> QED BY <2>2, <3>1
  <2>4. ToSet(Among(s, S)) = ToSet(s) \cap S
    BY <1>2
  <2>5. CASE e \in S
    BY <2>1, <2>2, <2>3, <2>4, <2>5 DEF Longer
  <2>6. CASE e \notin S
    BY <2>1, <2>2, <2>3, <2>4, <2>6 DEF Longer
  <2> QED BY <2>5, <2>6
<1> HIDE DEF X
<1>3. \A s \in Seq(E) : s \in X
  BY <1>1, <1>2, SeqInd
<1> QED BY <1>3 DEF X

-----------------------------------------------------------------------------
(* A sequence of sequences as one                                          *)

\* F[i] is the first i sequences of s joined.
Joins(F, s, n) ==
    \A i \in 1..n : F[i] = IF i = 1 THEN s[i] ELSE F[i - 1] \o s[i]

\* The next sequence is joined at the end.
LEMMA JoinNext ==
    ASSUME NEW F, NEW s, NEW n \in Nat, Joins(F, s, n), NEW k \in Nat, k # 0, k + 1 \in 1..n
    PROVE  F[k + 1] = F[k] \o s[k + 1]
<1>1. \A i \in 1..n : i # 1 => F[i] = F[i - 1] \o s[i]
  BY DEF Joins
<1>2. k + 1 # 1 /\ k + 1 - 1 = k
  OBVIOUS
<1>3. PICK i \in 1..n : i = k + 1
  OBVIOUS
<1>4. F[i] = F[i - 1] \o s[i]
  BY <1>1, <1>2, <1>3
<1>5. i - 1 = k
  BY <1>3
<1> QED BY <1>3, <1>4, <1>5, Zenon

\* The same as a formula.
Assoc(s, t, u) == (s \o t) \o u = s \o (t \o u)
\* Joining sequences is associative.
LEMMA Associative == \A S : \A s, t, u \in Seq(S) : Assoc(s, t, u)
BY ConcatAssociative, Zenon DEF Assoc

\* The first n sequences can be joined.
LEMMA JoinExists ==
    ASSUME NEW S, NEW s \in Seq(Seq(S)), NEW n \in 1..Len(s)
    PROVE  \E F \in [1..n -> Seq(S)] : Joins(F, s, n)
<1> DEFINE T == {k \in 1..Len(s) : ~ \E F \in [1..k -> Seq(S)] : Joins(F, s, k)}
<1>1. \A i \in 1..Len(s) : s[i] \in Seq(S)
  BY ElementOfSeq
<1>2. Len(s) \in Nat
  OBVIOUS
<1>3. SUFFICES ASSUME T # {}
              PROVE  FALSE
  OBVIOUS
<1>4. T \in SUBSET Nat
  BY <1>2
<1>5. PICK m \in T : \A k \in T : m <= k
  BY <1>3, <1>4, Least
<1>6. m \in 1..Len(s) /\ m \in Nat /\ ~ \E F \in [1..m -> Seq(S)] : Joins(F, s, m)
  BY <1>2
<1>7. CASE m = 1
  <2> DEFINE F == [i \in 1..1 |-> s[1]]
  <2>1. F \in [1..m -> Seq(S)]
    BY <1>1, <1>6, <1>7
  <2>2. Joins(F, s, m)
    BY <1>7 DEF Joins
  <2> QED BY <1>6, <2>1, <2>2
<1>8. CASE m # 1
  <2>1. m - 1 \in 1..Len(s) /\ ~ m <= m - 1
    BY <1>2, <1>6, <1>8
  <2>2. PICK G \in [1..(m - 1) -> Seq(S)] : Joins(G, s, m - 1)
    BY <1>5, <2>1
  <2> DEFINE F == [i \in 1..m |-> IF i = m THEN G[m - 1] \o s[m] ELSE G[i]]
  <2>3. G[m - 1] \o s[m] \in Seq(S)
    <3>1. G[m - 1] \in Seq(S) /\ s[m] \in Seq(S)
      BY <1>1, <1>6, <2>1, <2>2
    <3> QED BY <3>1, ConcatProperties
  <2>4. F \in [1..m -> Seq(S)]
    <3>1. \A i \in 1..m : i # m => i \in 1..(m - 1)
      BY <1>6
    <3> QED BY <2>2, <2>3, <3>1
  <2>5. Joins(F, s, m)
    <3>1. ASSUME NEW i \in 1..m
          PROVE  F[i] = IF i = 1 THEN s[i] ELSE F[i - 1] \o s[i]
      <4>1. CASE i = m
        <5>1. m \in 1..m /\ m - 1 \in 1..m /\ m - 1 # m
          BY <1>2, <1>6, <1>8
        <5>2. F[m] = G[m - 1] \o s[m] /\ F[m - 1] = G[m - 1]
          BY <5>1
        <5> QED BY <1>8, <4>1, <5>2
      <4>2. CASE i # m
        <5>1. i \in 1..(m - 1) /\ (i # 1 => i - 1 \in 1..m /\ i - 1 # m)
          BY <1>6, <4>2
        <5>2. F[i] = G[i] /\ (i # 1 => F[i - 1] = G[i - 1])
          BY <4>2, <5>1
        <5>3. G[i] = IF i = 1 THEN s[i] ELSE G[i - 1] \o s[i]
          BY <2>2, <5>1 DEF Joins
        <5> QED BY <5>2, <5>3
      <4> QED BY <4>1, <4>2
    <3> QED BY <3>1 DEF Joins
  <2> QED BY <1>6, <2>4, <2>5
<1> QED BY <1>7, <1>8

\* ... in one way.
LEMMA JoinUnique ==
    ASSUME NEW s, NEW t, NEW n \in Nat, NEW F, NEW G,
           Joins(F, s, n), Joins(G, t, n), \A i \in 1..n : s[i] = t[i]
    PROVE  \A i \in 1..n : F[i] = G[i]
<1> DEFINE T == {k \in 1..n : F[k] # G[k]}
<1>1. SUFFICES ASSUME T # {}
              PROVE  FALSE
  OBVIOUS
<1>0. T \in SUBSET Nat
  OBVIOUS
<1>2. PICK m \in T : \A k \in T : m <= k
  BY <1>0, <1>1, Least
<1>3. m \in 1..n /\ F[m] # G[m] /\ (m # 1 => m - 1 \in 1..n /\ ~ m <= m - 1)
  OBVIOUS
<1>4. m # 1 => F[m - 1] = G[m - 1]
  BY <1>2, <1>3
<1>5. /\ F[m] = IF m = 1 THEN s[m] ELSE F[m - 1] \o s[m]
      /\ G[m] = IF m = 1 THEN t[m] ELSE G[m - 1] \o t[m]
  BY <1>3 DEF Joins
<1> QED BY <1>3, <1>4, <1>5

AgreeUpTo(s, t, n) == \A i \in 1..n : s[i] = t[i]
\* JoinUnique, for all sequences at once.
LEMMA JoinsAgree ==
    \A n \in Nat : \A s, t, F, G :
        AgreeUpTo(s, t, n) /\ Joins(F, s, n) /\ Joins(G, t, n) => AgreeUpTo(F, G, n)
BY JoinUnique DEF AgreeUpTo

\* JoinNext, for all sequences at once.
LEMMA NextJoin ==
    \A n, k \in Nat : \A s, F :
        Joins(F, s, n) /\ k # 0 /\ k + 1 \in 1..n => F[k + 1] = F[k] \o s[k + 1]
BY JoinNext, ZenonT(30)

\* What FlattenSeq computes.
LEMMA FlattenIs ==
    ASSUME NEW S, NEW s \in Seq(Seq(S)), s # <<>>
    PROVE  \E F \in [1..Len(s) -> Seq(S)] :
              Joins(F, s, Len(s)) /\ FlattenSeq(s) = F[Len(s)]
<1>1. Len(s) \in Nat /\ Len(s) # 0 /\ Len(s) \in 1..Len(s)
  BY EmptySeq
<1> DEFINE R(F) == F = [i \in 1..Len(s) |-> IF i = 1 THEN s[i] ELSE F[i - 1] \o s[i]]
           C == CHOOSE F : R(F)
<1>2. FlattenSeq(s) = C[Len(s)]
  BY <1>1, Zenon DEF FlattenSeq
<1>3. PICK F \in [1..Len(s) -> Seq(S)] : Joins(F, s, Len(s))
  BY <1>1, JoinExists
<1>4. R(F)
  <2>1. F = [i \in 1..Len(s) |-> F[i]]
    BY <1>3
  <2> QED BY <1>3, <2>1 DEF Joins
<1>5. R(C)
  BY <1>4, Zenon
<1>6. Joins(C, s, Len(s))
  <2> HIDE DEF C
  <2> QED BY <1>5 DEF Joins
<1>7. C[Len(s)] = F[Len(s)]
  <2> HIDE DEF C
  <2>1. \A i \in 1..Len(s) : C[i] = F[i]
    BY <1>1, <1>3, <1>6, JoinUnique
  <2> QED BY <1>1, <2>1
<1> QED BY <1>2, <1>3, <1>7, Zenon

\* Nothing joined is empty.
LEMMA FlattenEmpty == FlattenSeq(<<>>) = <<>>
<1>1. Len(<<>>) = 0
  OBVIOUS
<1> QED BY <1>1, Zenon DEF FlattenSeq

\* What is joined has the elements of its parts.
LEMMA FlattenIn ==
    ASSUME NEW S, NEW s \in Seq(Seq(S))
    PROVE  FlattenSeq(s) \in Seq(S)
<1>1. CASE s = <<>>
  BY <1>1, FlattenEmpty, EmptySeq, Zenon
<1>2. CASE s # <<>>
  <2>1. PICK F \in [1..Len(s) -> Seq(S)] : FlattenSeq(s) = F[Len(s)]
    BY <1>2, FlattenIs
  <2>2. Len(s) \in 1..Len(s)
    BY <1>2, EmptySeq
  <2> QED BY <2>1, <2>2
<1> QED BY <1>1, <1>2

\* The length and the elements of a sequence with one more.
LEMMA AppendFacts ==
    ASSUME NEW S, NEW q \in Seq(S), NEW y \in S
    PROVE  /\ Append(q, y) \in Seq(S)
           /\ Len(q) \in Nat
           /\ Len(Append(q, y)) = Len(q) + 1
           /\ Append(q, y)[Len(q) + 1] = y
           /\ \A i \in 1..Len(q) : Append(q, y)[i] = q[i]
OBVIOUS

\* A sequence added at the end adds its elements at the end.
LEMMA FlattenAppend ==
    ASSUME NEW S, NEW s \in Seq(Seq(S)), NEW x \in Seq(S)
    PROVE  FlattenSeq(Append(s, x)) = FlattenSeq(s) \o x
<1> DEFINE t == Append(s, x)
           n == Len(s)
<1>1. /\ t \in Seq(Seq(S)) /\ n \in Nat /\ Len(t) = n + 1
      /\ t[n + 1] = x /\ \A i \in 1..n : t[i] = s[i]
  BY AppendFacts
<1> HIDE DEF n
<1>b. t # <<>>
  <2>1. Len(<<>>) = 0
    OBVIOUS
  <2> HIDE DEF t
  <2> QED BY <1>1, <2>1
<1> HIDE DEF t
<1>2. PICK G \in [1..Len(t) -> Seq(S)] : Joins(G, t, Len(t)) /\ FlattenSeq(t) = G[Len(t)]
  BY <1>1, <1>b, FlattenIs
<1>4. CASE s = <<>>
  <2>0. n = 0
    <3>1. Len(<<>>) = 0
      OBVIOUS
    <3> QED BY <1>4, <3>1 DEF n
  <2>1. FlattenSeq(s) = <<>>
    BY <1>4, FlattenEmpty
  <2>2. FlattenSeq(t) = x
    BY <1>1, <1>2, <2>0 DEF Joins
  <2>3. <<>> \o x = x
    OBVIOUS
  <2> QED BY <2>1, <2>2, <2>3 DEF t
<1>5. CASE s # <<>>
  <2>1. PICK F \in [1..n -> Seq(S)] : Joins(F, s, n) /\ FlattenSeq(s) = F[n]
    BY <1>5, FlattenIs DEF n
  <2>0. n # 0
    BY <1>5, EmptySeq, Zenon DEF n
  <2>2. n \in 1..n /\ n + 1 # 1 /\ n + 1 - 1 = n
    BY <1>1, <2>0
  <2>3. Joins(G, t, n)
    <3>1. \A i \in 1..n : i \in 1..Len(t)
      BY <1>1
    <3> QED BY <1>2, <3>1, Zenon DEF Joins
  <2>4. \A i \in 1..n : G[i] = F[i]
    <3>1. n \in Nat /\ Joins(F, s, n) /\ \A i \in 1..n : t[i] = s[i]
      BY <1>1, <2>1
    <3>2. AgreeUpTo(t, s, n) /\ Joins(G, t, n) /\ Joins(F, s, n)
      BY <2>3, <3>1 DEF AgreeUpTo
    <3>3. AgreeUpTo(G, F, n)
      BY <3>1, <3>2, JoinsAgree, Zenon
    <3> QED BY <3>3 DEF AgreeUpTo
  <2>5. FlattenSeq(t) = G[n] \o x
    <3>1. G[n + 1] = G[n] \o t[n + 1]
      <4>1. /\ Len(t) \in Nat /\ n \in Nat /\ Joins(G, t, Len(t)) /\ n # 0
            /\ n + 1 \in 1..Len(t)
        BY <1>1, <1>2, <2>2
      <4> QED BY <4>1, NextJoin, Zenon
    <3> QED BY <1>1, <1>2, <3>1
  <2>6. G[n] = FlattenSeq(s)
    BY <2>1, <2>2, <2>4
  <2> QED BY <2>5, <2>6 DEF t
<1> QED BY <1>4, <1>5
-----------------------------------------------------------------------------
(* Recursive functions                                                      *)

\* Induction up to n.
LEMMA UpTo ==
    ASSUME NEW n \in Nat, NEW J, 0 \in J, \A i \in 1..n : i - 1 \in J => i \in J
    PROVE  \A i \in 0..n : i \in J
<1> DEFINE T == {i \in 0..n : i \notin J}
<1>1. SUFFICES ASSUME T # {} PROVE FALSE
  OBVIOUS
<1>2. T \in SUBSET Nat
  OBVIOUS
<1>3. PICK m \in T : \A k \in T : m <= k
  BY <1>1, <1>2, Least
<1>4. m \in 0..n /\ m \notin J /\ m # 0
  OBVIOUS
<1>5. m \in 1..n /\ m - 1 \in 0..n /\ ~ m <= m - 1
  BY <1>4
<1> QED BY <1>3, <1>4, <1>5

\* A recursion that starts in J[0], and whose i-th step leads from J[i - 1] to
\* J[i], has a solution.
Solves(F, p, G, n) == F = [i \in 0..n |-> IF i = 0 THEN p ELSE G[<<i, F[i - 1]>>]]

LEMMA Recursion ==
    ASSUME NEW n \in Nat, NEW J, NEW p, NEW G, p \in J[0],
           \A i \in 1..n : \A w \in J[i - 1] : G[<<i, w>>] \in J[i]
    PROVE  \E F : Solves(F, p, G, n) /\ \A i \in 0..n : F[i] \in J[i]
<1> DEFINE Ok(m) == \E F : Solves(F, p, G, m) /\ \A i \in 0..m : F[i] \in J[i]
           T == {m \in 0..n : Ok(m)}
<1>1. 0 \in T
  <2> DEFINE F == [i \in 0..0 |-> p]
  <2>1. Solves(F, p, G, 0) /\ \A i \in 0..0 : F[i] \in J[i]
    BY DEF Solves
  <2> QED BY <2>1
<1>2. ASSUME NEW m \in 1..n, m - 1 \in T
      PROVE  m \in T
  <2>1. PICK H : Solves(H, p, G, m - 1) /\ \A i \in 0..(m - 1) : H[i] \in J[i]
    BY <1>2
  <2> DEFINE v == G[<<m, H[m - 1]>>]
             F == [i \in 0..m |-> IF i = m THEN v ELSE H[i]]
  <2>2. m - 1 \in 0..(m - 1) /\ m \in Nat /\ m # 0
    OBVIOUS
  <2>3. v \in J[m]
    BY <2>1, <2>2
  <2>4. \A i \in 0..m : i # m => i \in 0..(m - 1)
    OBVIOUS
  <2>5. \A i \in 0..(m - 1) : H[i] = IF i = 0 THEN p ELSE G[<<i, H[i - 1]>>]
    BY <2>1 DEF Solves
  <2>6. ASSUME NEW i \in 0..m
        PROVE  F[i] = IF i = 0 THEN p ELSE G[<<i, F[i - 1]>>]
    <3>1. i # 0 => i - 1 \in 0..m /\ i - 1 # m
      OBVIOUS
    <3>2. i # 0 => F[i - 1] = H[i - 1]
      BY <3>1
    <3>3. CASE i = m
      <4>1. F[i] = G[<<m, H[m - 1]>>]
        BY <3>3
      <4> HIDE DEF F, v
      <4> QED BY <2>2, <3>2, <3>3, <4>1
    <3>4. CASE i # m
      <4>1. F[i] = H[i] /\ i \in 0..(m - 1)
        BY <2>4, <3>4
      <4> HIDE DEF F, v
      <4> QED BY <2>5, <3>2, <4>1
    <3> QED BY <3>3, <3>4
  <2>7. F = [i \in 0..m |-> F[i]]
    OBVIOUS
  <2>8. \A i \in 0..m : F[i] \in J[i]
    BY <2>1, <2>3, <2>4
  <2> HIDE DEF F
  <2>9. Solves(F, p, G, m)
    <3>1. [i \in 0..m |-> F[i]] = [i \in 0..m |-> IF i = 0 THEN p ELSE G[<<i, F[i - 1]>>]]
      BY <2>6
    <3> QED BY <2>7, <3>1 DEF Solves
  <2> QED BY <2>8, <2>9
<1> HIDE DEF T
<1>3. \A m \in 0..n : m \in T
  BY <1>1, <1>2, UpTo
<1>4. n \in T
  BY <1>3
<1> QED BY <1>4 DEF T

-----------------------------------------------------------------------------
(* How often a sequence names an element                                    *)

\* Among the first n elements of s, how many are b.
Occurs(s, n, b) == Cardinality({i \in 1..n : s[i] = b})
Occ(s, b) == Occurs(s, Len(s), b)

LEMMA OccursNat == \A s, b : \A n \in Nat : Occurs(s, n, b) \in Nat
<1> TAKE s, b
<1> TAKE n \in Nat
<1>1. IsFiniteSet(1..n)
  BY FS_Interval
<1>2. IsFiniteSet({i \in 1..n : s[i] = b})
  BY <1>1, FS_Subset
<1> QED BY <1>2, FS_CardinalityType DEF Occurs

LEMMA OccursNone == \A s, b : Occurs(s, 0, b) = 0
<1> TAKE s, b
<1>1. {i \in 1..0 : s[i] = b} = {}
  OBVIOUS
<1> QED BY <1>1, FS_EmptySet DEF Occurs

\* One more place.
OneMore(s, n, b) == Occurs(s, n, b) = Occurs(s, n - 1, b) + IF s[n] = b THEN 1 ELSE 0

LEMMA OccursNext == \A s, b : \A n \in Nat \ {0} : OneMore(s, n, b)
<1> TAKE s, b
<1> TAKE n \in Nat \ {0}
<1> DEFINE S == {i \in 1..(n - 1) : s[i] = b}
           T == {i \in 1..n : s[i] = b}
<1>1. n - 1 \in Nat /\ 1..n = 1..(n - 1) \cup {n} /\ n \notin 1..(n - 1)
  OBVIOUS
<1>2. IsFiniteSet(S) /\ n \notin S
  <2>1. IsFiniteSet(1..(n - 1))
    BY <1>1, FS_Interval
  <2> QED BY <1>1, <2>1, FS_Subset
<1>3. CASE s[n] = b
  <2>1. T = S \cup {n}
    BY <1>1, <1>3
  <2>2. Cardinality(T) = Cardinality(S) + 1
    <3> HIDE DEF S, T
    <3> QED BY <1>2, <2>1, FS_AddElement
  <2> QED BY <1>3, <2>2 DEF OneMore, Occurs
<1>4. CASE s[n] # b
  <2>1. T = S
    BY <1>1, <1>4
  <2>2. Cardinality(S) \in Nat
    BY <1>2, FS_CardinalityType
  <2>3. Occurs(s, n, b) = Cardinality(S) /\ Occurs(s, n - 1, b) = Cardinality(S)
    BY <2>1 DEF Occurs
  <2> HIDE DEF S
  <2> QED BY <1>4, <2>2, <2>3 DEF OneMore
<1> QED BY <1>3, <1>4

\* The places up to m are among those up to n.
LEMMA OccursGrows ==
    \A s, b : \A m, n \in Nat : m <= n => Occurs(s, m, b) <= Occurs(s, n, b)
<1> TAKE s, b
<1> TAKE m, n \in Nat
<1> HAVE m <= n
<1> DEFINE S == {i \in 1..m : s[i] = b}
           T == {i \in 1..n : s[i] = b}
<1>1. IsFiniteSet(1..n)
  BY FS_Interval
<1>2. IsFiniteSet(T) /\ S \subseteq T
  BY <1>1, FS_Subset
<1> HIDE DEF S, T
<1>3. Cardinality(S) <= Cardinality(T)
  BY <1>2, FS_Subset
<1> QED BY <1>3 DEF Occurs, S, T

\* Sequences with the same first n elements.
LEMMA OccursSame ==
    \A s, t, b : \A n \in Nat : (\A i \in 1..n : s[i] = t[i]) => Occurs(s, n, b) = Occurs(t, n, b)
<1> TAKE s, t, b
<1> TAKE n \in Nat
<1> HAVE \A i \in 1..n : s[i] = t[i]
<1>1. {i \in 1..n : s[i] = b} = {i \in 1..n : t[i] = b}
  OBVIOUS
<1> QED BY <1>1 DEF Occurs

\* One more element.
LEMMA OccAppend ==
    ASSUME NEW S, NEW s \in Seq(S), NEW e \in S, NEW b
    PROVE  Occ(Append(s, e), b) = Occ(s, b) + IF e = b THEN 1 ELSE 0
<1> DEFINE t == Append(s, e)
           n == Len(s)
<1>1. /\ n \in Nat /\ Len(t) = n + 1 /\ t[n + 1] = e
      /\ \A i \in 1..n : s[i] = t[i]
  BY AppendProperties
<1> HIDE DEF t, n
<1>2. n + 1 \in Nat \ {0} /\ (n + 1) - 1 = n
  BY <1>1
<1>3. OneMore(t, n + 1, b)
  BY <1>2, OccursNext
<1>4. Occurs(s, n, b) = Occurs(t, n, b)
  BY <1>1, OccursSame
<1>5. Occ(t, b) = Occurs(t, n + 1, b) /\ Occ(s, b) = Occurs(s, n, b)
  BY <1>1 DEF Occ, n
<1>6. Occurs(t, n + 1, b) = Occurs(t, n, b) + IF e = b THEN 1 ELSE 0
  BY <1>1, <1>2, <1>3 DEF OneMore
<1>7. Occ(t, b) = Occ(s, b) + IF e = b THEN 1 ELSE 0
  BY <1>4, <1>5, <1>6
<1> QED BY <1>7 DEF t

LEMMA OccNat == \A S : \A s \in Seq(S) : \A b : Occ(s, b) \in Nat
BY OccursNat, LenProperties DEF Occ

LEMMA OccEmpty == \A b : Occ(<<>>, b) = 0
<1>1. Len(<<>>) = 0
  OBVIOUS
<1> QED BY <1>1, OccursNone DEF Occ

\* A sequence cut in two after its m-th element.
LEMMA OccCut ==
    ASSUME NEW S, NEW s \in Seq(S), NEW m \in 0..Len(s), NEW b
    PROVE  Occ(s, b) = Occ(SubSeq(s, 1, m), b) + Occ(SubSeq(s, m + 1, Len(s)), b)
<1> DEFINE u == SubSeq(s, 1, m)
           v == SubSeq(s, m + 1, Len(s))
           n == Len(s)
           J == {k \in 0..(n - m) : Occurs(s, m + k, b) = Occurs(s, m, b) + Occurs(v, k, b)}
<1>1. n \in Nat /\ m \in Nat /\ m <= n /\ n - m \in Nat /\ m + (n - m) = n
  OBVIOUS
<1>2. Len(u) = m /\ \A i \in 1..m : u[i] = s[i]
  BY <1>1, SubSeqProperties
<1>3. Len(v) = n - m /\ \A i \in 1..(n - m) : v[i] = s[m + i]
  <2>1. m + 1 \in Int /\ n \in Int /\ \A i \in (m + 1)..n : s[i] \in S
    BY <1>1, ElementOfSeq
  <2>2. /\ Len(v) = IF m + 1 <= n THEN n - (m + 1) + 1 ELSE 0
        /\ \A i \in 1..(n - (m + 1) + 1) : v[i] = s[(m + 1) + i - 1]
    BY <2>1, SubSeqProperties
  <2>3. n - (m + 1) + 1 = n - m /\ \A i \in 1..(n - m) : (m + 1) + i - 1 = m + i
    BY <1>1
  <2> HIDE DEF v, n
  <2>4. Len(v) = n - m
    BY <1>1, <2>2
  <2>5. \A i \in 1..(n - m) : v[i] = s[m + i]
    BY <2>2, <2>3
  <2> QED BY <2>4, <2>5
<1> HIDE DEF u, v, n
<1>4. 0 \in J
  BY <1>1, OccursNone, OccursNat
<1>5. ASSUME NEW k \in 1..(n - m), k - 1 \in J
      PROVE  k \in J
  <2>1. /\ k \in Nat \ {0} /\ m + k \in Nat \ {0} /\ (m + k) - 1 = m + (k - 1) /\ k \in 0..(n - m)
        /\ k - 1 \in Nat
    BY <1>1
  <2>2. OneMore(s, m + k, b) /\ OneMore(v, k, b) /\ v[k] = s[m + k]
    BY <1>3, <2>1, OccursNext
  <2>3. Occurs(s, m + (k - 1), b) = Occurs(s, m, b) + Occurs(v, k - 1, b)
    BY <1>5
  <2>4. Occurs(s, m, b) \in Nat /\ Occurs(v, k - 1, b) \in Nat
    BY <1>1, <2>1, OccursNat
  <2>5. Occurs(s, m + k, b) = Occurs(s, m, b) + Occurs(v, k, b)
    BY <2>1, <2>2, <2>3, <2>4 DEF OneMore
  <2> QED BY <2>1, <2>5
<1> HIDE DEF J
<1>6. \A k \in 0..(n - m) : k \in J
  BY <1>1, <1>4, <1>5, UpTo
<1>7. n - m \in J
  BY <1>1, <1>6
<1>8. Occurs(s, n, b) = Occurs(s, m, b) + Occurs(v, n - m, b)
  BY <1>1, <1>7 DEF J
<1>9. Occurs(s, m, b) = Occurs(u, m, b)
  BY <1>1, <1>2, OccursSame
<1> QED BY <1>2, <1>3, <1>8, <1>9 DEF Occ, u, v, n

\* A bounded set of numbers with a member has a greatest one.
LEMMA Greatest ==
    ASSUME NEW n \in Nat, NEW T \in SUBSET (0..n), T # {}
    PROVE  \E m \in T : \A k \in T : k <= m
<1> DEFINE U == {n - k : k \in T}
<1>1. \A k \in T : k \in Nat /\ k <= n
  OBVIOUS
<1>2. U \in SUBSET Nat /\ U # {}
  <2>1. \A k \in T : n - k \in Nat
    BY <1>1
  <2>2. PICK k \in T : TRUE
    OBVIOUS
  <2>3. n - k \in U
    OBVIOUS
  <2> QED BY <2>1, <2>3
<1>3. PICK u \in U : \A v \in U : u <= v
  BY <1>2, Least
<1>4. PICK m \in T : u = n - m
  OBVIOUS
<1>5. \A k \in T : n - m <= n - k
  BY <1>3, <1>4
<1>6. \A k \in T : k <= m
  BY <1>1, <1>5
<1> QED BY <1>6
=============================================================================
