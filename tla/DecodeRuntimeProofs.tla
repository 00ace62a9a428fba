------------------------- MODULE DecodeRuntimeProofs -------------------------
(* Proofs about the decode step and the caches under it, for any keys,      *)
(* sizes, limits and profiles:                                              *)
(*   - the manager's totals are those of its entries and both budgets hold;  *)
(*   - evictions go by use, and a pinned entry leaves only with its pin;     *)
(*   - sparse attention runs only when nothing forbids it;                   *)
(*   - a profile it was turned off for never gets it back.                   *)
(*                                                                          *)
(* The first two rest on the invariant Sessions: the history lists the keys  *)
(* in the order of the entries.  What a store, a lookup, a pin and a loop of *)
(* evictions make of the entries is said by lemmas about Bytes and Among,    *)
(* proved by induction on the length of a sequence.  The other two rest on   *)
(* the invariant IInv: what a step was allowed when it began, or after it    *)
(* looked again, it is still allowed when attention decides.                 *)
EXTENDS DecodeRuntime, PoolLemmas

-----------------------------------------------------------------------------
(* What the recursive functions compute                                     *)

\* F[i] is what the first i entries of s have together.
Adds(F, s, n) == F = [i \in 0..n |-> IF i = 0 THEN 0 ELSE F[i - 1] + s[i].bytes]

\* There is such a function, and it has numbers.
LEMMA AddExists ==
    ASSUME NEW E, \A e \in E : e.bytes \in Nat, NEW s \in Seq(E), NEW n \in 0..Len(s)
    PROVE  \E F \in [0..n -> Nat] : Adds(F, s, n)
<1> DEFINE T == {k \in 0..Len(s) : ~ \E F \in [0..k -> Nat] : Adds(F, s, k)}
<1>1. (\A i \in 1..Len(s) : s[i] \in E) /\ Len(s) \in Nat
  BY ElementOfSeq
<1>2. SUFFICES ASSUME T # {}
              PROVE  FALSE
  OBVIOUS
<1>3. T \in SUBSET Nat
  BY <1>1
<1>4. PICK m \in T : \A k \in T : m <= k
  BY <1>2, <1>3, Least
<1>5. m \in 0..Len(s) /\ m \in Nat /\ ~ \E F \in [0..m -> Nat] : Adds(F, s, m)
  BY <1>1
<1>6. CASE m = 0
  <2> DEFINE F == [i \in 0..0 |-> 0]
  <2>1. F \in [0..m -> Nat] /\ Adds(F, s, m)
    BY <1>6 DEF Adds
  <2> QED BY <1>5, <2>1
<1>7. CASE m # 0
  <2>1. m - 1 \in 0..Len(s) /\ ~ m <= m - 1 /\ m \in 1..Len(s)
    BY <1>1, <1>5, <1>7
  <2>2. PICK H \in [0..(m - 1) -> Nat] : Adds(H, s, m - 1)
    BY <1>4, <2>1
  <2> DEFINE v == H[m - 1] + s[m].bytes
             F == [i \in 0..m |-> IF i = m THEN v ELSE H[i]]
  <2>3. v \in Nat
    <3>1. s[m].bytes \in Nat
      BY <1>1, <2>1
    <3>2. H[m - 1] \in Nat
      BY <2>1, <2>2
    <3> QED BY <3>1, <3>2
  <2> HIDE DEF v
  <2>4. F \in [0..m -> Nat]
    <3>1. \A i \in 0..m : i # m => i \in 0..(m - 1)
      BY <1>5
    <3> QED BY <2>2, <2>3, <3>1
  <2>5. Adds(F, s, m)
    <3>1. ASSUME NEW i \in 0..m
          PROVE  F[i] = IF i = 0 THEN 0 ELSE F[i - 1] + s[i].bytes
      <4>1. CASE i = m
        <5>1. m \in 0..m /\ m - 1 \in 0..m /\ m - 1 # m
          BY <1>1, <1>5, <1>7
        <5>2. F[m] = v /\ F[m - 1] = H[m - 1]
          BY <5>1
        <5> QED BY <1>7, <4>1, <5>2 DEF v
      <4>2. CASE i # m
        <5>1. i \in 0..(m - 1) /\ (i # 0 => i - 1 \in 0..m /\ i - 1 # m)
          BY <1>5, <4>2
        <5>2. F[i] = H[i] /\ (i # 0 => F[i - 1] = H[i - 1])
          BY <4>2, <5>1
        <5>3. H[i] = IF i = 0 THEN 0 ELSE H[i - 1] + s[i].bytes
          BY <2>2, <5>1 DEF Adds
        <5> QED BY <5>2, <5>3
      <4> QED BY <4>1, <4>2
    <3>2. F = [i \in 0..m |-> F[i]]
      OBVIOUS
    <3> HIDE DEF F
    <3>3. [i \in 0..m |-> F[i]] = [i \in 0..m |-> IF i = 0 THEN 0 ELSE F[i - 1] + s[i].bytes]
      BY <3>1
    <3> QED BY <3>2, <3>3 DEF Adds
  <2> QED BY <1>5, <2>4, <2>5
<1> QED BY <1>6, <1>7

\* Two of them agree as far as their sequences do.
AddAlike(s, t, m, n) == \A F, G : Adds(F, s, m) /\ Adds(G, t, n) => F[m] = G[m]

LEMMA AddSame ==
    ASSUME NEW s, NEW t, NEW m \in Nat, NEW n \in Nat, m <= n, \A i \in 1..m : s[i] = t[i]
    PROVE  AddAlike(s, t, m, n)
<1> SUFFICES ASSUME NEW F, NEW G, Adds(F, s, m), Adds(G, t, n)
             PROVE  F[m] = G[m]
  BY DEF AddAlike
<1> DEFINE T == {k \in 0..m : F[k] # G[k]}
<1>1. T = {}
  <2>1. SUFFICES ASSUME T # {}
                PROVE  FALSE
    OBVIOUS
  <2>2. T \in SUBSET Nat
    OBVIOUS
  <2>3. PICK k \in T : \A j \in T : k <= j
    BY <2>1, <2>2, Least
  <2>4. k \in 0..m /\ k \in 0..n /\ F[k] # G[k]
    OBVIOUS
  <2>5. /\ F[k] = IF k = 0 THEN 0 ELSE F[k - 1] + s[k].bytes
        /\ G[k] = IF k = 0 THEN 0 ELSE G[k - 1] + t[k].bytes
    BY <2>4 DEF Adds
  <2>6. k # 0
    BY <2>4, <2>5
  <2>7. k \in 1..m /\ k - 1 \in 0..m /\ ~ k <= k - 1
    BY <2>4, <2>6
  <2>8. F[k - 1] = G[k - 1] /\ s[k] = t[k]
    BY <2>3, <2>7
  <2> QED BY <2>4, <2>5, <2>6, <2>8
<1> QED BY <1>1

\* Bytes is the last number of such a function.
LEMMA BytesIs ==
    ASSUME NEW E, \A e \in E : e.bytes \in Nat, NEW s \in Seq(E)
    PROVE  \E F : Adds(F, s, Len(s)) /\ Bytes(s) = F[Len(s)] /\ F[Len(s)] \in Nat
<1> DEFINE R(F) == F = [n \in 0..Len(s) |-> IF n = 0 THEN 0 ELSE F[n - 1] + s[n].bytes]
           C == CHOOSE F : R(F)
<1>1. Bytes(s) = C[Len(s)]
  BY Zenon DEF Bytes
<1>2. Len(s) \in Nat /\ Len(s) \in 0..Len(s)
  OBVIOUS
<1>3. PICK F \in [0..Len(s) -> Nat] : Adds(F, s, Len(s))
  BY <1>2, AddExists
<1>4. R(F)
  BY <1>3 DEF Adds
<1>5. R(C)
  BY <1>4, Zenon
<1>6. Adds(C, s, Len(s))
  BY <1>5 DEF Adds
<1> HIDE DEF C
<1>7. C[Len(s)] = F[Len(s)] /\ F[Len(s)] \in Nat
  <2>1. AddAlike(s, s, Len(s), Len(s))
    BY <1>2, AddSame
  <2>2. F[Len(s)] \in Nat
    BY <1>2, <1>3
  <2> QED BY <1>3, <1>6, <2>1, <2>2 DEF AddAlike
<1> QED BY <1>1, <1>6, <1>7

LEMMA BytesType ==
    ASSUME NEW E, \A e \in E : e.bytes \in Nat, NEW s \in Seq(E)
    PROVE  Bytes(s) \in Nat
BY BytesIs

LEMMA BytesEmpty == Bytes(<<>>) = 0
<1> DEFINE E == {}
<1>1. <<>> \in Seq(E) /\ Len(<<>>) = 0
  OBVIOUS
<1>2. PICK F : Adds(F, <<>>, 0) /\ Bytes(<<>>) = F[0]
  BY <1>1, BytesIs
<1>3. F[0] = 0
  BY <1>2 DEF Adds
<1> QED BY <1>2, <1>3

LEMMA BytesAppend ==
    ASSUME NEW E, \A e \in E : e.bytes \in Nat, NEW s \in Seq(E), NEW e \in E
    PROVE  Bytes(Append(s, e)) = Bytes(s) + e.bytes
<1> DEFINE t == Append(s, e)
           n == Len(s)
<1>1. /\ n \in Nat /\ t \in Seq(E) /\ Len(t) = n + 1 /\ t[n + 1] = e
      /\ \A i \in 1..n : s[i] = t[i]
  BY AppendProperties
<1>2. PICK F : Adds(F, s, n) /\ Bytes(s) = F[n] /\ F[n] \in Nat
  BY BytesIs
<1> HIDE DEF t, n
<1>3. PICK G : Adds(G, t, n + 1) /\ Bytes(t) = G[n + 1]
  BY <1>1, BytesIs
<1>4. F[n] = G[n]
  <2>1. n + 1 \in Nat /\ n <= n + 1
    BY <1>1
  <2>2. AddAlike(s, t, n, n + 1)
    BY <1>1, <2>1, AddSame
  <2> QED BY <1>2, <1>3, <2>2 DEF AddAlike
<1>5. G[n + 1] = G[n] + t[n + 1].bytes
  <2>1. n + 1 \in 0..(n + 1) /\ n + 1 # 0 /\ (n + 1) - 1 = n
    BY <1>1
  <2> QED BY <1>3, <2>1 DEF Adds
<1> QED BY <1>1, <1>2, <1>3, <1>4, <1>5, Zenon DEF t

-----------------------------------------------------------------------------
(* What is taken twice                                                      *)

\* Sets that do not differ on the sequence take the same.
LEMMA AmongSame ==
    \A E, A, B : \A s \in Seq(E) : ToSet(s) \cap A = ToSet(s) \cap B => Among(s, A) = Among(s, B)
<1> TAKE E, A, B
<1> DEFINE X == {s \in Seq(E) : ToSet(s) \cap A = ToSet(s) \cap B => Among(s, A) = Among(s, B)}
<1>1. <<>> \in X
  BY AmongEmpty
<1>2. ASSUME NEW s \in Seq(E), NEW e \in E, s \in X
      PROVE  Append(s, e) \in X
  <2>1. Longer(s, A, e) /\ Longer(s, B, e)
    BY AmongAppend
  <2>2. Append(s, e) \in Seq(E)
    OBVIOUS
  <2>3. ToSet(Append(s, e)) = ToSet(s) \cup {e}
    BY SetAppend
  <2>4. SUFFICES ASSUME ToSet(Append(s, e)) \cap A = ToSet(Append(s, e)) \cap B
                 PROVE  Among(Append(s, e), A) = Among(Append(s, e), B)
    BY <2>2
  <2>5. \A x : x \in ToSet(s) \cup {e} => (x \in A <=> x \in B)
    BY <2>3, <2>4
  <2>6. (e \in A <=> e \in B) /\ ToSet(s) \cap A = ToSet(s) \cap B
    BY <2>5
  <2>7. Among(s, A) = Among(s, B)
    BY <1>2, <2>6
  <2> QED BY <2>1, <2>6, <2>7 DEF Longer
<1> HIDE DEF X
<1>3. \A s \in Seq(E) : s \in X
  BY <1>1, <1>2, SeqInd
<1> QED BY <1>3 DEF X

\* All are taken from a sequence of members.
LEMMA AmongAll == \A E, S : \A s \in Seq(E) : ToSet(s) \subseteq S => Among(s, S) = s
<1> TAKE E, S
<1> DEFINE X == {s \in Seq(E) : ToSet(s) \subseteq S => Among(s, S) = s}
<1>1. <<>> \in X
  BY AmongEmpty
<1>2. ASSUME NEW s \in Seq(E), NEW e \in E, s \in X
      PROVE  Append(s, e) \in X
  <2>1. Longer(s, S, e) /\ Append(s, e) \in Seq(E)
    BY AmongAppend
  <2>2. ToSet(Append(s, e)) = ToSet(s) \cup {e}
    BY SetAppend
  <2> QED BY <1>2, <2>1, <2>2 DEF Longer
<1> HIDE DEF X
<1>3. \A s \in Seq(E) : s \in X
  BY <1>1, <1>2, SeqInd
<1> QED BY <1>3 DEF X

\* Taking twice.
LEMMA AmongTwice ==
    \A E, A, B : \A s \in Seq(E) : Among(Among(s, A), B) = Among(s, A \cap B)
<1> TAKE E, A, B
<1> DEFINE X == {s \in Seq(E) : Among(Among(s, A), B) = Among(s, A \cap B)}
<1>1. <<>> \in X
  BY AmongEmpty
<1>2. ASSUME NEW s \in Seq(E), NEW e \in E, s \in X
      PROVE  Append(s, e) \in X
  <2>1. Longer(s, A, e) /\ Longer(s, A \cap B, e) /\ Append(s, e) \in Seq(E)
    BY AmongAppend
  <2>2. Longer(Among(s, A), B, e)
    <3>1. \A t \in Seq(E) : Longer(t, B, e)
      BY AmongAppend
    <3> QED BY <3>1, AmongType
  <2>3. Among(Among(s, A), B) = Among(s, A \cap B)
    BY <1>2
  <2>4. CASE e \in A /\ e \in B
    BY <2>1, <2>2, <2>3, <2>4 DEF Longer
  <2>5. CASE e \in A /\ e \notin B
    BY <2>1, <2>2, <2>3, <2>5 DEF Longer
  <2>6. CASE e \notin A
    BY <2>1, <2>3, <2>6 DEF Longer
  <2> QED BY <2>4, <2>5, <2>6
<1> HIDE DEF X
<1>3. \A s \in Seq(E) : s \in X
  BY <1>1, <1>2, SeqInd
<1> QED BY <1>3 DEF X

-----------------------------------------------------------------------------
(* Bytes of what is taken                                                   *)

\* Entries are weighed in numbers.
Weighed(E) == \A e \in E : e.bytes \in Nat

LEMMA BytesNat == \A E : Weighed(E) => \A s \in Seq(E) : \A S : Bytes(s) \in Nat /\ Bytes(Among(s, S)) \in Nat
BY BytesType, AmongType DEF Weighed

\* The bytes of a sequence that is one longer.
Heavier(s, e) == Bytes(Append(s, e)) = Bytes(s) + e.bytes
LEMMA BytesLonger == \A E : Weighed(E) => \A s \in Seq(E), e \in E : Heavier(s, e)
BY BytesAppend DEF Weighed, Heavier

Split(s, A, B) == Bytes(Among(s, A)) + Bytes(Among(s, B)) = Bytes(Among(s, A \cup B))

\* What two sets without a common member take adds up.
LEMMA BytesSplit ==
    \A E, A, B : Weighed(E) /\ A \cap B = {} => \A s \in Seq(E) : Split(s, A, B)
<1> SUFFICES ASSUME NEW E, NEW A, NEW B, Weighed(E), A \cap B = {}
             PROVE  \A s \in Seq(E) : Split(s, A, B)
  OBVIOUS
<1> DEFINE X == {s \in Seq(E) : Split(s, A, B)}
<1>1. <<>> \in X
  BY AmongEmpty, BytesEmpty DEF Split
<1>2. ASSUME NEW s \in Seq(E), NEW e \in E, s \in X
      PROVE  Append(s, e) \in X
  <2>1. Longer(s, A, e) /\ Longer(s, B, e) /\ Longer(s, A \cup B, e) /\ Append(s, e) \in Seq(E)
    BY AmongAppend
  <2>2. Heavier(Among(s, A), e) /\ Heavier(Among(s, B), e) /\ Heavier(Among(s, A \cup B), e)
    <3>1. \A t \in Seq(E) : Heavier(t, e)
      BY BytesLonger
    <3> QED BY <3>1, AmongType
  <2>3. e.bytes \in Nat /\ Bytes(Among(s, A)) \in Nat /\ Bytes(Among(s, B)) \in Nat
    BY BytesNat DEF Weighed
  <2>4. Bytes(Among(s, A)) + Bytes(Among(s, B)) = Bytes(Among(s, A \cup B))
    BY <1>2 DEF Split
  <2>5. CASE e \in A
    <3> DEFINE t == Append(s, e)
    <3>1. /\ Bytes(Among(t, A)) = Bytes(Among(s, A)) + e.bytes
          /\ Bytes(Among(t, A \cup B)) = Bytes(Among(s, A \cup B)) + e.bytes
      <4>1. e \in A \cup B
        BY <2>5
      <4> QED BY <2>1, <2>2, <2>5, <4>1, Zenon DEF Longer, Heavier
    <3>2. Bytes(Among(t, B)) = Bytes(Among(s, B))
      <4>1. e \notin B
        BY <2>5
      <4> QED BY <2>1, <4>1, Zenon DEF Longer
    <3>3. Bytes(Among(t, A)) + Bytes(Among(t, B)) = Bytes(Among(t, A \cup B))
      <4> HIDE DEF t
      <4> QED BY <2>3, <2>4, <3>1, <3>2
    <3> QED BY <2>1, <3>3, Zenon DEF Split
  <2>6. CASE e \in B
    <3> DEFINE t == Append(s, e)
    <3>1. /\ Bytes(Among(t, B)) = Bytes(Among(s, B)) + e.bytes
          /\ Bytes(Among(t, A \cup B)) = Bytes(Among(s, A \cup B)) + e.bytes
      <4>1. e \in A \cup B
        BY <2>6
      <4> QED BY <2>1, <2>2, <2>6, <4>1, Zenon DEF Longer, Heavier
    <3>2. Bytes(Among(t, A)) = Bytes(Among(s, A))
      <4>1. e \notin A
        BY <2>6
      <4> QED BY <2>1, <4>1, Zenon DEF Longer
    <3>3. Bytes(Among(t, A)) + Bytes(Among(t, B)) = Bytes(Among(t, A \cup B))
      <4> HIDE DEF t
      <4> QED BY <2>3, <2>4, <3>1, <3>2
    <3> QED BY <2>1, <3>3, Zenon DEF Split
  <2>7. CASE e \notin A /\ e \notin B
    BY <2>1, <2>4, <2>7 DEF Longer, Split
  <2> QED BY <2>5, <2>6, <2>7
<1> HIDE DEF X
<1>3. \A s \in Seq(E) : s \in X
  BY <1>1, <1>2, SeqInd
<1> QED BY <1>3 DEF X

-----------------------------------------------------------------------------
(* Entries with distinct keys                                               *)

\* No two entries have the same key.
Distinct(s) == \A i, j \in DOMAIN s : i # j => s[i].key # s[j].key

\* What an appended element leaves at the places.
LEMMA AppendPlaces ==
    ASSUME NEW E, NEW s \in Seq(E), NEW e \in E
    PROVE  /\ Append(s, e) \in Seq(E) /\ Len(s) \in Nat /\ Len(Append(s, e)) = Len(s) + 1
           /\ DOMAIN s = 1..Len(s) /\ DOMAIN Append(s, e) = 1..(Len(s) + 1)
           /\ Append(s, e)[Len(s) + 1] = e
           /\ \A i \in 1..Len(s) : Append(s, e)[i] = s[i]
BY AppendProperties, LenProperties

LEMMA DistinctAppend ==
    ASSUME NEW E, NEW s \in Seq(E), NEW e \in E
    PROVE  Distinct(Append(s, e)) <=> (Distinct(s) /\ \A x \in ToSet(s) : x.key # e.key)
<1> DEFINE t == Append(s, e)
           n == Len(s)
<1>1. /\ n \in Nat /\ DOMAIN s = 1..n /\ DOMAIN t = 1..(n + 1) /\ t[n + 1] = e
      /\ \A i \in 1..n : t[i] = s[i]
  BY AppendPlaces
<1> HIDE DEF t, n
<1>2. 1..(n + 1) = 1..n \cup {n + 1} /\ n + 1 \notin 1..n
  BY <1>1
<1>3. ToSet(s) = {s[i] : i \in 1..n}
  BY <1>1 DEF ToSet
<1>4. ASSUME Distinct(t)
      PROVE  Distinct(s) /\ \A x \in ToSet(s) : x.key # e.key
  <2>1. \A i, j \in 1..(n + 1) : i # j => t[i].key # t[j].key
    BY <1>1, <1>4 DEF Distinct
  <2>2. Distinct(s)
    BY <1>1, <1>2, <2>1 DEF Distinct
  <2>3. \A i \in 1..n : s[i].key # e.key
    BY <1>1, <1>2, <2>1
  <2> QED BY <1>3, <2>2, <2>3
<1>5. ASSUME Distinct(s), \A x \in ToSet(s) : x.key # e.key
      PROVE  Distinct(t)
  <2>1. \A i, j \in 1..n : i # j => s[i].key # s[j].key
    BY <1>1, <1>5 DEF Distinct
  <2>2. \A i \in 1..n : s[i].key # e.key
    BY <1>3, <1>5
  <2>3. \A i, j \in 1..(n + 1) : i # j => t[i].key # t[j].key
    BY <1>1, <1>2, <2>1, <2>2
  <2> QED BY <1>1, <2>3 DEF Distinct
<1> QED BY <1>4, <1>5 DEF t

LEMMA AmongDistinct ==
    \A E, A : \A s \in Seq(E) : Distinct(s) => Distinct(Among(s, A))
<1> TAKE E, A
<1> DEFINE X == {s \in Seq(E) : Distinct(s) => Distinct(Among(s, A))}
<1>1. <<>> \in X
  BY AmongEmpty
<1>2. ASSUME NEW s \in Seq(E), NEW e \in E, s \in X
      PROVE  Append(s, e) \in X
  <2>1. Longer(s, A, e) /\ Append(s, e) \in Seq(E)
    BY AmongAppend
  <2>2. SUFFICES ASSUME Distinct(Append(s, e))
                 PROVE  Distinct(Among(Append(s, e), A))
    BY <2>1
  <2>3. Distinct(s) /\ \A x \in ToSet(s) : x.key # e.key
    BY <2>2, DistinctAppend
  <2>4. Distinct(Among(s, A)) /\ Among(s, A) \in Seq(E) /\ ToSet(Among(s, A)) \subseteq ToSet(s)
    BY <1>2, <2>3, AmongType, AmongSet
  <2>5. \A t \in Seq(E) : Distinct(t) /\ (\A x \in ToSet(t) : x.key # e.key) => Distinct(Append(t, e))
    BY DistinctAppend
  <2>6. Distinct(Append(Among(s, A), e))
    BY <2>3, <2>4, <2>5
  <2> QED BY <2>1, <2>4, <2>6, Zenon DEF Longer
<1> HIDE DEF X
<1>3. \A s \in Seq(E) : s \in X
  BY <1>1, <1>2, SeqInd
<1> QED BY <1>3 DEF X

\* Nothing is taken of a sequence without a member.
LEMMA AmongNone == \A E, A : \A s \in Seq(E) : ToSet(s) \cap A = {} => Among(s, A) = <<>>
<1> SUFFICES ASSUME NEW E, NEW A, NEW s \in Seq(E), ToSet(s) \cap A = {}
             PROVE  Among(s, A) = <<>>
  OBVIOUS
<1> DEFINE t == Among(s, A)
<1>1. t \in Seq(E) /\ ToSet(t) = {}
  BY AmongType, AmongSet
<1> HIDE DEF t
<1>2. ASSUME t # <<>> PROVE FALSE
  <2>1. 1 \in DOMAIN t
    BY <1>1, <1>2, EmptySeq, LenProperties
  <2> QED BY <1>1, <2>1 DEF ToSet
<1> QED BY <1>2 DEF t

\* The only member at place k.
OnlyAt(s, A, k) == k \in DOMAIN s /\ s[k] \in A /\ \A i \in DOMAIN s : s[i] \in A => i = k

\* One member, once, is taken alone.
LEMMA AmongOne ==
    \A E, A : \A s \in Seq(E) : \A k : OnlyAt(s, A, k) => Among(s, A) = <<s[k]>>
<1> TAKE E, A
<1> DEFINE X == {s \in Seq(E) : \A k : OnlyAt(s, A, k) => Among(s, A) = <<s[k]>>}
<1>1. <<>> \in X
  BY DEF OnlyAt
<1>2. ASSUME NEW s \in Seq(E), NEW e \in E, s \in X
      PROVE  Append(s, e) \in X
  <2>1. Longer(s, A, e) /\ Append(s, e) \in Seq(E)
    BY AmongAppend
  <2>2. SUFFICES ASSUME NEW k, OnlyAt(Append(s, e), A, k)
                 PROVE  Among(Append(s, e), A) = <<Append(s, e)[k]>>
    BY <2>1
  <2> DEFINE t == Append(s, e)
             n == Len(s)
  <2>3. /\ n \in Nat /\ DOMAIN s = 1..n /\ DOMAIN t = 1..(n + 1) /\ t[n + 1] = e
        /\ \A i \in 1..n : t[i] = s[i]
    BY AppendPlaces
  <2>4. OnlyAt(t, A, k)
    BY <2>2
  <2> HIDE DEF t, n
  <2>5. CASE k = n + 1
    <3>1. e \in A /\ \A i \in 1..n : s[i] \notin A
      BY <2>3, <2>4, <2>5 DEF OnlyAt
    <3>2. ToSet(s) \cap A = {}
      BY <2>3, <3>1 DEF ToSet
    <3>3. Among(s, A) = <<>>
      BY <3>2, AmongNone
    <3>4. Among(t, A) = Append(<<>>, e)
      BY <2>1, <3>1, <3>3, Zenon DEF Longer, t
    <3> QED BY <2>3, <2>5, <3>4 DEF t
  <2>6. CASE k # n + 1
    <3>1. k \in 1..n /\ e \notin A
      BY <2>3, <2>4, <2>6 DEF OnlyAt
    <3>2. OnlyAt(s, A, k)
      BY <2>3, <2>4, <3>1 DEF OnlyAt
    <3>3. Among(s, A) = <<s[k]>>
      BY <1>2, <3>2
    <3>4. Among(t, A) = <<s[k]>>
      BY <2>1, <3>1, <3>3, Zenon DEF Longer, t
    <3> QED BY <2>3, <3>1, <3>4, Zenon DEF t
  <2> QED BY <2>5, <2>6
<1> HIDE DEF X
<1>3. \A s \in Seq(E) : s \in X
  BY <1>1, <1>2, SeqInd
<1> QED BY <1>3 DEF X

-----------------------------------------------------------------------------
(* The first members                                                        *)

First(s, A, n) == SubSeq(Among(s, A), 1, n)

\* Of a sequence one longer, the first n are those of the shorter, or all.
LEMMA FirstAppend ==
    ASSUME NEW E, NEW A, NEW s \in Seq(E), NEW e \in E, NEW n \in 0..Len(Among(Append(s, e), A))
    PROVE  \/ n \in 0..Len(Among(s, A)) /\ First(Append(s, e), A, n) = First(s, A, n)
           \/ First(Append(s, e), A, n) = Among(Append(s, e), A)
<1> DEFINE u == Among(s, A)
           v == Among(Append(s, e), A)
<1>1. u \in Seq(E) /\ v \in Seq(E) /\ (v = u \/ v = Append(u, e))
  <2>1. Longer(s, A, e)
    BY AmongAppend
  <2>2. Append(s, e) \in Seq(E)
    OBVIOUS
  <2> QED BY <2>1, <2>2, AmongType, Zenon DEF Longer
<1>2. Len(u) \in Nat /\ n \in Nat /\ n <= Len(v) /\ Len(v) \in Nat
  BY <1>1
<1> HIDE DEF u, v
<1>3. (n \in 0..Len(u) /\ SubSeq(v, 1, n) = SubSeq(u, 1, n)) \/ SubSeq(v, 1, n) = v
  <2>1. CASE v = u
    BY <1>2, <2>1
  <2>2. CASE v = Append(u, e)
    <3>1. Len(v) = Len(u) + 1 /\ \A i \in 1..Len(u) : v[i] = u[i]
      BY <1>1, <2>2
    <3>2. CASE n = Len(v)
      BY <1>1, <3>2, SubSeqFull
    <3>3. CASE n # Len(v)
      <4>1. n \in 0..Len(u)
        BY <1>2, <3>1, <3>3
      <4>2. SubSeq(v, 1, n) = SubSeq(u, 1, n)
        BY <1>1, <1>2, <3>1, <4>1
      <4> QED BY <4>1, <4>2
    <3> QED BY <3>2, <3>3
  <2> QED BY <1>1, <2>1, <2>2
<1> QED BY <1>3 DEF First, u, v

LEMMA FirstType ==
    ASSUME NEW E, NEW A, NEW s \in Seq(E), NEW n \in 0..Len(Among(s, A))
    PROVE  /\ First(s, A, n) \in Seq(E) /\ Len(First(s, A, n)) = n
           /\ ToSet(First(s, A, n)) \subseteq ToSet(s) \cap A
<1> DEFINE u == Among(s, A)
<1>1. u \in Seq(E) /\ ToSet(u) = ToSet(s) \cap A
  BY AmongType, AmongSet
<1>2. Len(u) \in Nat /\ DOMAIN u = 1..Len(u) /\ \A i \in 1..Len(u) : u[i] \in E
  BY <1>1, LenProperties, ElementOfSeq
<1> HIDE DEF u
<1>3. n \in Nat /\ n <= Len(u)
  BY <1>2 DEF u
<1> DEFINE p == SubSeq(u, 1, n)
<1>4. p \in Seq(E) /\ Len(p) = n /\ \A i \in 1..n : p[i] = u[i]
  BY <1>1, <1>2, <1>3
<1> HIDE DEF p
<1>5. DOMAIN p = 1..n
  BY <1>4, LenProperties
<1>6. ToSet(p) \subseteq ToSet(u)
  BY <1>2, <1>3, <1>4, <1>5 DEF ToSet
<1> QED BY <1>1, <1>4, <1>6 DEF First, u, p

\* The first n members are what is taken by them, ...
TakesFirst(s, A, n) == Among(s, ToSet(First(s, A, n))) = First(s, A, n)
\* ... and who comes before one of them is one of them.
FirstInOrder(s, A, n) ==
    \A i, j \in DOMAIN s :
        i < j /\ s[i] \in A /\ s[j] \in ToSet(First(s, A, n)) => s[i] \in ToSet(First(s, A, n))

FirstOK(s, A) == \A n \in 0..Len(Among(s, A)) : TakesFirst(s, A, n) /\ FirstInOrder(s, A, n)

LEMMA FirstTaken ==
    \A E, A : \A s \in Seq(E) : Distinct(s) => FirstOK(s, A)
<1> TAKE E, A
<1> DEFINE X == {s \in Seq(E) : Distinct(s) => FirstOK(s, A)}
<1>1. <<>> \in X
  <2>1. Among(<<>>, A) = <<>> /\ Len(<<>>) = 0 /\ DOMAIN <<>> = {} /\ 0..0 = {0}
    BY AmongEmpty
  <2>2. ASSUME NEW n \in 0..Len(Among(<<>>, A))
        PROVE  TakesFirst(<<>>, A, n)
    <3>1. n = 0
      BY <2>1
    <3>2. SubSeq(<<>>, 1, 0) = <<>>
      BY SubSeqEmpty
    <3>3. First(<<>>, A, n) = <<>>
      BY <2>1, <3>1, <3>2 DEF First
    <3>4. Among(<<>>, ToSet(First(<<>>, A, n))) = <<>>
      BY AmongEmpty
    <3> QED BY <3>3, <3>4 DEF TakesFirst
  <2>3. \A n : FirstInOrder(<<>>, A, n)
    BY <2>1 DEF FirstInOrder
  <2> QED BY <2>2, <2>3 DEF FirstOK
<1>2. ASSUME NEW s \in Seq(E), NEW e \in E, s \in X
      PROVE  Append(s, e) \in X
  <2> DEFINE t == Append(s, e)
             m == Len(s)
  <2>1. t \in Seq(E)
    OBVIOUS
  <2>2. SUFFICES ASSUME Distinct(t), NEW n \in 0..Len(Among(t, A))
                 PROVE  TakesFirst(t, A, n) /\ FirstInOrder(t, A, n)
    BY <2>1 DEF FirstOK
  <2>3. Distinct(s) /\ \A x \in ToSet(s) : x.key # e.key
    BY <2>2, DistinctAppend
  <2>4. FirstOK(s, A) /\ e \notin ToSet(s)
    BY <1>2, <2>3
  <2>5. /\ m \in Nat /\ DOMAIN s = 1..m /\ DOMAIN t = 1..(m + 1) /\ t[m + 1] = e
        /\ \A i \in 1..m : t[i] = s[i]
    BY AppendPlaces
  <2>6. ToSet(t) = ToSet(s) \cup {e}
    BY SetAppend
  <2>7. Longer(s, A, e) /\ \A B : Longer(s, B, e)
    BY AmongAppend
  <2>8. \/ n \in 0..Len(Among(s, A)) /\ First(t, A, n) = First(s, A, n)
        \/ First(t, A, n) = Among(t, A)
    BY <2>2, FirstAppend
  <2>9. CASE n \in 0..Len(Among(s, A)) /\ First(t, A, n) = First(s, A, n)
    <3> DEFINE P == ToSet(First(s, A, n))
    <3>1. P \subseteq ToSet(s) /\ e \notin P
      BY <2>4, <2>9, FirstType
    <3>2. TakesFirst(s, A, n) /\ FirstInOrder(s, A, n)
      BY <2>4, <2>9 DEF FirstOK
    <3>3. Among(t, P) = Among(s, P)
      BY <2>7, <3>1, Zenon DEF Longer
    <3>4. TakesFirst(t, A, n)
      BY <2>9, <3>2, <3>3, Zenon DEF TakesFirst
    <3>5. FirstInOrder(t, A, n)
      <4>1. SUFFICES ASSUME NEW i \in 1..(m + 1), NEW j \in 1..(m + 1), i < j, t[i] \in A, t[j] \in P
                     PROVE  t[i] \in P
        BY <2>5, <2>9 DEF FirstInOrder
      <4> HIDE DEF t, m, P
      <4>2. j # m + 1
        BY <2>5, <3>1, <4>1
      <4>3. i \in 1..m /\ j \in 1..m /\ t[i] = s[i] /\ t[j] = s[j]
        BY <2>5, <4>1, <4>2
      <4>4. s[i] \in A /\ s[j] \in P /\ i < j /\ i \in DOMAIN s /\ j \in DOMAIN s
        BY <2>5, <4>1, <4>3
      <4>5. s[i] \in P
        BY <3>2, <4>4 DEF FirstInOrder, P
      <4> QED BY <4>3, <4>5
    <3> QED BY <3>4, <3>5
  <2>10. CASE First(t, A, n) = Among(t, A)
    <3>1. ToSet(First(t, A, n)) = ToSet(t) \cap A
      BY <2>1, <2>10, AmongSet
    <3>2. TakesFirst(t, A, n)
      <4>1. ToSet(t) \cap (ToSet(t) \cap A) = ToSet(t) \cap A
        OBVIOUS
      <4>2. Among(t, ToSet(t) \cap A) = Among(t, A)
        <5>1. \A u \in Seq(E) : \A B : ToSet(u) \cap B = ToSet(u) \cap A => Among(u, B) = Among(u, A)
          BY AmongSame
        <5> QED BY <2>1, <4>1, <5>1
      <4> QED BY <2>10, <3>1, <4>2, Zenon DEF TakesFirst
    <3>3. FirstInOrder(t, A, n)
      <4>1. \A i \in DOMAIN t : t[i] \in ToSet(t)
        BY DEF ToSet
      <4> HIDE DEF t
      <4> QED BY <3>1, <4>1 DEF FirstInOrder
    <3> QED BY <3>2, <3>3
  <2> QED BY <2>8, <2>9, <2>10
<1> HIDE DEF X
<1>3. \A s \in Seq(E) : s \in X
  BY <1>1, <1>2, SeqInd
<1> QED BY <1>3 DEF X

-----------------------------------------------------------------------------
(* Keys                                                                     *)

\* The keys of the entries, in their order.
Keys(s) == [i \in 1..Len(s) |-> s[i].key]

LEMMA KeysAppend ==
    ASSUME NEW E, NEW s \in Seq(E), NEW e \in E
    PROVE  Keys(Append(s, e)) = Append(Keys(s), e.key)
<1> DEFINE t == Append(s, e)
           m == Len(s)
           K == {x.key : x \in E}
<1>1. /\ t \in Seq(E) /\ m \in Nat /\ Len(t) = m + 1 /\ t[m + 1] = e
      /\ \A i \in 1..m : t[i] = s[i]
  BY AppendPlaces
<1>2. \A u \in Seq(E) : Keys(u) \in Seq(K) /\ Len(Keys(u)) = Len(u) /\ \A i \in 1..Len(u) : Keys(u)[i] = u[i].key
  <2> SUFFICES ASSUME NEW u \in Seq(E)
               PROVE  Keys(u) \in Seq(K) /\ Len(Keys(u)) = Len(u) /\ \A i \in 1..Len(u) : Keys(u)[i] = u[i].key
    OBVIOUS
  <2>1. \A i \in 1..Len(u) : u[i].key \in K
    BY ElementOfSeq
  <2>2. Len(u) \in Nat
    OBVIOUS
  <2> HIDE DEF K
  <2> QED BY <2>1, <2>2 DEF Keys
<1>3. e.key \in K
  OBVIOUS
<1> HIDE DEF K
<1> DEFINE a == Keys(t)
           b == Append(Keys(s), e.key)
<1>4. a \in Seq(K) /\ Len(a) = m + 1 /\ \A i \in 1..(m + 1) : a[i] = t[i].key
  BY <1>1, <1>2
<1>5. /\ b \in Seq(K) /\ Len(b) = m + 1 /\ b[m + 1] = e.key
      /\ \A i \in 1..m : b[i] = s[i].key
  <2>1. Keys(s) \in Seq(K) /\ Len(Keys(s)) = m /\ \A i \in 1..m : Keys(s)[i] = s[i].key
    BY <1>2
  <2> QED BY <1>1, <1>3, <2>1, AppendPlaces
<1> HIDE DEF a, b, t, m
<1>6. \A i \in 1..(m + 1) : i \in 1..m \/ i = m + 1
  BY <1>1
<1>7. \A i \in 1..(m + 1) : a[i] = b[i]
  BY <1>1, <1>4, <1>5, <1>6
<1>8. a = b
  BY <1>4, <1>5, <1>7, SeqEqual
<1> QED BY <1>8 DEF a, b, t

\* A set of entries and a set of keys that agree on the sequence.
Agree(s, A, K) == \A x \in ToSet(s) : x \in A <=> x.key \in K

\* Keys are taken as their entries are.
LEMMA KeysAmong ==
    \A E, A, K : \A s \in Seq(E) : Agree(s, A, K) => Among(Keys(s), K) = Keys(Among(s, A))
<1> TAKE E, A, K
<1> DEFINE X == {s \in Seq(E) : Agree(s, A, K) => Among(Keys(s), K) = Keys(Among(s, A))}
<1>1. <<>> \in X
  <2>1. Keys(<<>>) = <<>>
    BY DEF Keys
  <2> QED BY <2>1, AmongEmpty
<1>2. ASSUME NEW s \in Seq(E), NEW e \in E, s \in X
      PROVE  Append(s, e) \in X
  <2>1. Longer(s, A, e) /\ Append(s, e) \in Seq(E)
    BY AmongAppend
  <2>2. SUFFICES ASSUME Agree(Append(s, e), A, K)
                 PROVE  Among(Keys(Append(s, e)), K) = Keys(Among(Append(s, e), A))
    BY <2>1
  <2>3. ToSet(Append(s, e)) = ToSet(s) \cup {e}
    BY SetAppend
  <2>4. Agree(s, A, K) /\ (e \in A <=> e.key \in K)
    BY <2>2, <2>3 DEF Agree
  <2>5. Among(Keys(s), K) = Keys(Among(s, A))
    BY <1>2, <2>4
  <2>6. Keys(Append(s, e)) = Append(Keys(s), e.key) /\ Keys(Append(Among(s, A), e)) = Append(Keys(Among(s, A)), e.key)
    <3>1. \A t \in Seq(E) : Keys(Append(t, e)) = Append(Keys(t), e.key)
      BY KeysAppend
    <3> QED BY <3>1, AmongType
  <2>7. Longer(Keys(s), K, e.key)
    <3> DEFINE F == {x.key : x \in E}
    <3>1. Keys(s) \in Seq(F)
      <4>1. \A i \in 1..Len(s) : s[i].key \in F
        BY ElementOfSeq
      <4>2. Len(s) \in Nat
        OBVIOUS
      <4> HIDE DEF F
      <4> QED BY <4>1, <4>2 DEF Keys
    <3>2. e.key \in F
      OBVIOUS
    <3> HIDE DEF F
    <3>3. \A t \in Seq(F), x \in F : Longer(t, K, x)
      BY AmongAppend
    <3> QED BY <3>1, <3>2, <3>3
  <2>8. CASE e \in A
    BY <2>1, <2>4, <2>5, <2>6, <2>7, <2>8, Zenon DEF Longer
  <2>9. CASE e \notin A
    BY <2>1, <2>4, <2>5, <2>6, <2>7, <2>9, Zenon DEF Longer
  <2> QED BY <2>8, <2>9
<1> HIDE DEF X
<1>3. \A s \in Seq(E) : s \in X
  BY <1>1, <1>2, SeqInd
<1> QED BY <1>3 DEF X

-----------------------------------------------------------------------------
(* The operators of the manager                                             *)

Entry == [key : Key, bytes : Sizes, pinned : BOOLEAN]
PinnedEntry == {e \in Entry : e.pinned}
UnpinnedEntry == {e \in Entry : ~e.pinned}
KeyedEntry(k) == {e \in Entry : e.key = k}
OtherEntry(k) == {e \in Entry : e.key # k}

LEMMA EntriesWeighed == Weighed(Entry)
BY RuntimeAssumption DEF Weighed, Entry

\* What each operator takes.
OperatorsOf(s) ==
    /\ Unpinned(s) = Among(s, UnpinnedEntry)
    /\ Pinned(s) = Among(s, PinnedEntry)
    /\ \A k : Of(s, k) = Among(s, KeyedEntry(k)) /\ Others(s, k) = Among(s, OtherEntry(k))

LEMMA Operators == \A s \in Seq(Entry) : OperatorsOf(s)
<1> SUFFICES ASSUME NEW s \in Seq(Entry) PROVE OperatorsOf(s)
  OBVIOUS
<1>1. ToSet(s) \subseteq Entry
  BY SetOf
<1>2. \A A, B : ToSet(s) \cap A = ToSet(s) \cap B => Among(s, A) = Among(s, B)
  BY AmongSame
<1> HIDE DEF Entry
<1>3. Unpinned(s) = Among(s, UnpinnedEntry)
  <2>1. ToSet(s) \cap {e \in ToSet(s) : ~e.pinned} = ToSet(s) \cap UnpinnedEntry
    BY <1>1 DEF UnpinnedEntry
  <2> QED BY <1>2, <2>1, Zenon DEF Unpinned
<1>4. Pinned(s) = Among(s, PinnedEntry)
  <2>1. ToSet(s) \cap {e \in ToSet(s) : e.pinned} = ToSet(s) \cap PinnedEntry
    BY <1>1 DEF PinnedEntry
  <2> QED BY <1>2, <2>1, Zenon DEF Pinned
<1>5. ASSUME NEW k
      PROVE  Of(s, k) = Among(s, KeyedEntry(k)) /\ Others(s, k) = Among(s, OtherEntry(k))
  <2>1. ToSet(s) \cap {e \in ToSet(s) : e.key = k} = ToSet(s) \cap KeyedEntry(k)
    BY <1>1 DEF KeyedEntry
  <2>2. ToSet(s) \cap {e \in ToSet(s) : e.key # k} = ToSet(s) \cap OtherEntry(k)
    BY <1>1 DEF OtherEntry
  <2> QED BY <1>2, <2>1, <2>2, Zenon DEF Of, Others
<1> QED BY <1>3, <1>4, <1>5, Zenon DEF OperatorsOf

\* A loop ends after a number of rounds that is enough, or that leaves nothing.
RoundsOK(s, enough) ==
    Rounds(s, enough) \in 0..Len(Unpinned(s)) /\ Rounds(s, enough) \in enough \cup {Len(Unpinned(s))}

LEMMA RoundsIs ==
    \A s \in Seq(Entry) : \A enough \in SUBSET (0..Len(Unpinned(s))) : RoundsOK(s, enough)
<1> SUFFICES ASSUME NEW s \in Seq(Entry), NEW enough \in SUBSET (0..Len(Unpinned(s)))
             PROVE  RoundsOK(s, enough)
  OBVIOUS
<1> DEFINE N == Len(Unpinned(s))
           T == enough \cup {N}
<1>1. Unpinned(s) \in Seq(Entry)
  BY Operators, AmongType DEF OperatorsOf
<1>2. N \in Nat /\ enough \subseteq 0..N
  BY <1>1, LenProperties
<1> HIDE DEF N
<1>3. T \in SUBSET Nat /\ T # {} /\ T \subseteq 0..N
  BY <1>2
<1> HIDE DEF T
<1>4. \E m \in T : \A k \in T : m <= k
  BY <1>3, Least
<1>5. Min(T) \in T
  BY <1>4 DEF Min
<1>6. Rounds(s, enough) = Min(T)
  BY DEF Rounds, T, N
<1> QED BY <1>3, <1>5, <1>6 DEF RoundsOK, T, N

\* What n evictions leave: entries with distinct keys, the pinned ones among
\* them, and the bytes that are not freed.
LeftOK(s, n) ==
    /\ Left(s, n) \in Seq(Entry) /\ Distinct(Left(s, n))
    /\ Freed(s, n) \in Nat
    /\ Bytes(s) = Bytes(Left(s, n)) + Freed(s, n)
    /\ Pinned(Left(s, n)) = Pinned(s)
    /\ ToSet(Left(s, n)) = ToSet(s) \ ToSet(First(s, UnpinnedEntry, n))
    /\ n = Len(Unpinned(s)) => Left(s, n) = Pinned(s)

LEMMA LeftIs ==
    ASSUME NEW s \in Seq(Entry), Distinct(s), NEW n \in 0..Len(Unpinned(s))
    PROVE  LeftOK(s, n)
<1> DEFINE F == First(s, UnpinnedEntry, n)
           P == ToSet(F)
           S == ToSet(s)
           t == Left(s, n)
<1>1. OperatorsOf(s) /\ Weighed(Entry) /\ S \subseteq Entry
  BY Operators, EntriesWeighed, SetOf
<1>2. n \in 0..Len(Among(s, UnpinnedEntry)) /\ F = SubSeq(Unpinned(s), 1, n)
  BY <1>1 DEF OperatorsOf, First
<1>3. F \in Seq(Entry) /\ P \subseteq S \cap UnpinnedEntry
  BY <1>2, FirstType
<1>4. Among(s, P) = F
  <2>1. FirstOK(s, UnpinnedEntry)
    BY FirstTaken
  <2> QED BY <1>2, <2>1 DEF FirstOK, TakesFirst
<1>5. t = Among(s, S \ P)
  BY <1>2, Zenon DEF Left
<1>6. t \in Seq(Entry) /\ Distinct(t) /\ ToSet(t) = S \ P
  <2>1. ToSet(Among(s, S \ P)) = S \cap (S \ P)
    BY AmongSet
  <2>2. Among(s, S \ P) \in Seq(Entry) /\ Distinct(Among(s, S \ P))
    BY AmongType, AmongDistinct
  <2> QED BY <1>5, <2>1, <2>2
<1>7. Freed(s, n) = Bytes(F)
  BY <1>2, Zenon DEF Freed
<1>8. Bytes(F) \in Nat /\ Bytes(t) \in Nat
  BY <1>1, <1>3, <1>6, BytesNat
<1>9. Bytes(s) = Bytes(t) + Bytes(F)
  <2>1. (S \ P) \cap P = {} /\ S \subseteq (S \ P) \cup P
    OBVIOUS
  <2>2. \A A, B : A \cap B = {} => Split(s, A, B)
    BY <1>1, BytesSplit
  <2>3. \A A : S \subseteq A => Among(s, A) = s
    BY AmongAll
  <2> HIDE DEF S, P, F, t
  <2>4. Split(s, S \ P, P)
    BY <2>1, <2>2, Zenon
  <2>5. Among(s, (S \ P) \cup P) = s
    BY <2>1, <2>3, Zenon
  <2> QED BY <1>4, <1>5, <2>4, <2>5, Zenon DEF Split
<1>10. Pinned(t) = Pinned(s)
  <2>1. Pinned(t) = Among(t, PinnedEntry)
    BY <1>6, Operators DEF OperatorsOf
  <2>2. Among(Among(s, S \ P), PinnedEntry) = Among(s, (S \ P) \cap PinnedEntry)
    BY AmongTwice
  <2>3. S \cap ((S \ P) \cap PinnedEntry) = S \cap PinnedEntry
    BY <1>3 DEF PinnedEntry, UnpinnedEntry
  <2>4. \A A, B : S \cap A = S \cap B => Among(s, A) = Among(s, B)
    BY AmongSame
  <2>5. Among(s, (S \ P) \cap PinnedEntry) = Among(s, PinnedEntry)
    BY <2>3, <2>4
  <2> QED BY <1>1, <1>5, <2>1, <2>2, <2>5, Zenon DEF OperatorsOf
<1>11. ASSUME n = Len(Unpinned(s))
       PROVE  t = Pinned(s)
  <2>1. Unpinned(s) \in Seq(Entry) /\ ToSet(Unpinned(s)) = S \cap UnpinnedEntry
    BY <1>1, AmongType, AmongSet DEF OperatorsOf
  <2>2. F = Unpinned(s)
    BY <1>2, <1>11, <2>1, SubSeqFull
  <2>3. S \cap (S \ P) = S \cap PinnedEntry
    BY <1>1, <2>1, <2>2 DEF PinnedEntry, UnpinnedEntry
  <2>4. \A A, B : S \cap A = S \cap B => Among(s, A) = Among(s, B)
    BY AmongSame
  <2>5. Among(s, S \ P) = Among(s, PinnedEntry)
    BY <2>3, <2>4
  <2> QED BY <1>1, <1>5, <2>5, Zenon DEF OperatorsOf
<1> QED BY <1>6, <1>7, <1>8, <1>9, <1>10, <1>11 DEF LeftOK

\* What is taken weighs no more.
LEMMA Lighter ==
    ASSUME NEW s \in Seq(Entry), NEW A
    PROVE  Bytes(Among(s, A)) <= Bytes(s)
<1> DEFINE B == ToSet(s) \ A
<1>1. A \cap B = {} /\ ToSet(s) \subseteq A \cup B
  OBVIOUS
<1> HIDE DEF B
<1>2. Split(s, A, B)
  BY <1>1, EntriesWeighed, BytesSplit
<1>3. Among(s, A \cup B) = s
  <2>1. \A C : ToSet(s) \subseteq C => Among(s, C) = s
    BY AmongAll
  <2> QED BY <1>1, <2>1, Zenon
<1>4. Bytes(Among(s, A)) \in Nat /\ Bytes(Among(s, B)) \in Nat /\ Bytes(s) \in Nat
  BY EntriesWeighed, BytesNat
<1>5. Bytes(Among(s, A)) + Bytes(Among(s, B)) = Bytes(s)
  BY <1>2, <1>3, Zenon DEF Split
<1> QED BY <1>4, <1>5

\* A sequence of one.
LEMMA Alone ==
    \A e \in Entry : /\ <<e>> \in Seq(Entry) /\ Bytes(<<e>>) = e.bytes
                     /\ Among(<<e>>, PinnedEntry) = IF e.pinned THEN <<e>> ELSE <<>>
<1> SUFFICES ASSUME NEW e \in Entry
             PROVE  /\ <<e>> \in Seq(Entry) /\ Bytes(<<e>>) = e.bytes
                    /\ Among(<<e>>, PinnedEntry) = IF e.pinned THEN <<e>> ELSE <<>>
  OBVIOUS
<1>1. <<>> \in Seq(Entry) /\ <<e>> \in Seq(Entry) /\ Append(<<>>, e) = <<e>>
  OBVIOUS
<1>2. Heavier(<<>>, e) /\ Longer(<<>>, PinnedEntry, e)
  <2>1. \A s \in Seq(Entry) : Heavier(s, e) /\ Longer(s, PinnedEntry, e)
    BY EntriesWeighed, BytesLonger, AmongAppend
  <2> QED BY <1>1, <2>1, Zenon
<1>3. e.bytes \in Nat
  BY EntriesWeighed DEF Weighed
<1>4. Bytes(<<e>>) = 0 + e.bytes
  BY <1>1, <1>2, BytesEmpty, Zenon DEF Heavier
<1>5. Among(<<e>>, PinnedEntry) = IF e \in PinnedEntry THEN <<e>> ELSE <<>>
  BY <1>1, <1>2, AmongEmpty, Zenon DEF Longer
<1> QED BY <1>1, <1>3, <1>4, <1>5 DEF PinnedEntry

\* Two entries of distinct keys are the same if their keys are.
LEMMA SameEntry ==
    ASSUME NEW s \in Seq(Entry), Distinct(s), NEW x \in ToSet(s), NEW y \in ToSet(s), x.key = y.key
    PROVE  x = y
BY DEF Distinct, ToSet

\* Members come in their order.
OrderKept(s, A) ==
    \A i, j \in DOMAIN s :
        i < j /\ s[i] \in A /\ s[j] \in A =>
            \E m, n \in DOMAIN Among(s, A) :
                m < n /\ Among(s, A)[m] = s[i] /\ Among(s, A)[n] = s[j]

LEMMA AmongOrder == \A E, A : \A s \in Seq(E) : OrderKept(s, A)
<1> TAKE E, A
<1> DEFINE X == {s \in Seq(E) : OrderKept(s, A)}
<1>1. <<>> \in X
  BY DEF OrderKept
<1>2. ASSUME NEW s \in Seq(E), NEW e \in E, s \in X
      PROVE  Append(s, e) \in X
  <2> DEFINE t == Append(s, e)
             m == Len(s)
             u == Among(s, A)
             v == Among(t, A)
  <2>1. Longer(s, A, e) /\ t \in Seq(E) /\ u \in Seq(E) /\ ToSet(u) = ToSet(s) \cap A
    BY AmongAppend, AmongType, AmongSet
  <2>2. /\ m \in Nat /\ DOMAIN s = 1..m /\ DOMAIN t = 1..(m + 1) /\ t[m + 1] = e
        /\ \A i \in 1..m : t[i] = s[i]
    BY AppendPlaces
  <2>3. v = IF e \in A THEN Append(u, e) ELSE u
    BY <2>1, Zenon DEF Longer
  <2>4. /\ Len(u) \in Nat /\ DOMAIN u = 1..Len(u)
        /\ e \in A => DOMAIN v = 1..(Len(u) + 1) /\ v[Len(u) + 1] = e /\ \A i \in 1..Len(u) : v[i] = u[i]
    <3>1. \A w \in Seq(E) : /\ Len(w) \in Nat /\ DOMAIN w = 1..Len(w)
                            /\ DOMAIN Append(w, e) = 1..(Len(w) + 1) /\ Append(w, e)[Len(w) + 1] = e
                            /\ \A i \in 1..Len(w) : Append(w, e)[i] = w[i]
      BY AppendPlaces
    <3> HIDE DEF u, v
    <3> QED BY <2>1, <2>3, <3>1
  <2>5. \A i \in 1..m : s[i] \in ToSet(s)
    BY <2>2 DEF ToSet
  <2>6. \A x \in ToSet(u) : \E i \in 1..Len(u) : u[i] = x
    <3>1. ToSet(u) = {u[i] : i \in DOMAIN u}
      BY DEF ToSet
    <3> HIDE DEF u
    <3> QED BY <2>4, <3>1
  <2>7. OrderKept(s, A)
    BY <1>2
  <2> SUFFICES OrderKept(t, A)
    BY <2>1
  <2> HIDE DEF t, m
  <2>8. SUFFICES ASSUME NEW i \in 1..(m + 1), NEW j \in 1..(m + 1), i < j, t[i] \in A, t[j] \in A
                 PROVE  \E a, b \in DOMAIN v : a < b /\ v[a] = t[i] /\ v[b] = t[j]
    BY <2>2 DEF OrderKept
  <2>9. i \in 1..m
    BY <2>2, <2>8
  <2>10. CASE j = m + 1
    <3>1. e \in A /\ s[i] \in ToSet(u)
      BY <2>1, <2>2, <2>5, <2>8, <2>9, <2>10
    <3>2. PICK a \in 1..Len(u) : u[a] = s[i]
      BY <2>6, <3>1
    <3> HIDE DEF u, v
    <3>3. a \in DOMAIN v /\ v[a] = t[i]
      BY <2>2, <2>4, <2>9, <3>1, <3>2
    <3>4. Len(u) + 1 \in DOMAIN v /\ v[Len(u) + 1] = t[j] /\ a < Len(u) + 1
      BY <2>2, <2>4, <2>10, <3>1, <3>2
    <3> QED BY <3>3, <3>4
  <2>11. CASE j # m + 1
    <3>1. j \in 1..m /\ s[i] \in A /\ s[j] \in A
      BY <2>2, <2>8, <2>9, <2>11
    <3>2. PICK a, b \in DOMAIN u : a < b /\ u[a] = s[i] /\ u[b] = s[j]
      BY <2>2, <2>7, <2>8, <2>9, <3>1 DEF OrderKept
    <3> HIDE DEF u, v
    <3>3. a \in DOMAIN v /\ b \in DOMAIN v /\ v[a] = u[a] /\ v[b] = u[b]
      BY <2>3, <2>4, <3>2
    <3> QED BY <2>2, <2>9, <3>1, <3>2, <3>3
  <2> QED BY <2>10, <2>11
<1> HIDE DEF X
<1>3. \A s \in Seq(E) : s \in X
  BY <1>1, <1>2, SeqInd
<1> QED BY <1>3 DEF X

\* The keys that stay are those of the entries that stay.
KeptKeys(s, t) == Among(Keys(s), {j \in Key : Cached(t, j)}) = Keys(t)

LEMMA TakenKeys == \A A : \A s \in Seq(Entry) : Distinct(s) => KeptKeys(s, Among(s, A))
<1> SUFFICES ASSUME NEW A, NEW s \in Seq(Entry), Distinct(s)
             PROVE  KeptKeys(s, Among(s, A))
  OBVIOUS
<1> DEFINE t == Among(s, A)
           K == {j \in Key : Cached(t, j)}
<1>1. ToSet(t) = ToSet(s) \cap A /\ ToSet(s) \subseteq Entry
  BY AmongSet, SetOf
<1>2. ASSUME NEW x \in ToSet(s)
      PROVE  x \in A <=> x.key \in K
  <2>1. x.key \in Key
    BY <1>1 DEF Entry
  <2>2. x \in A => Cached(t, x.key)
    BY <1>1 DEF Cached
  <2>3. ASSUME Cached(t, x.key) PROVE x \in A
    <3>1. PICK y \in ToSet(t) : y.key = x.key
      BY <2>3 DEF Cached
    <3>2. y = x
      BY <1>1, <3>1, SameEntry
    <3> QED BY <1>1, <3>2
  <2> QED BY <2>1, <2>2, <2>3
<1> HIDE DEF t, K
<1>3. Agree(s, A, K)
  BY <1>2 DEF Agree
<1>4. \A L : Agree(s, A, L) => Among(Keys(s), L) = Keys(Among(s, A))
  BY KeysAmong
<1> QED BY <1>3, <1>4, Zenon DEF KeptKeys, t, K

\* Evictions go by place: who leaves is unpinned, and so do the unpinned before.
LeavesInOrder(s, t) ==
    \A i, j \in DOMAIN s :
        i < j /\ ~Cached(t, s[j].key) => s[i].pinned \/ ~Cached(t, s[i].key)
LeavesUnpinned(s, t) == \A x \in ToSet(s) : ~Cached(t, x.key) => ~x.pinned

LEMMA LeftOrder ==
    ASSUME NEW s \in Seq(Entry), Distinct(s), NEW n \in 0..Len(Unpinned(s))
    PROVE  LeavesInOrder(s, Left(s, n)) /\ LeavesUnpinned(s, Left(s, n))
<1> DEFINE P == ToSet(First(s, UnpinnedEntry, n))
           t == Left(s, n)
<1>1. ToSet(t) = ToSet(s) \ P
  BY LeftIs DEF LeftOK
<1>2. Unpinned(s) = Among(s, UnpinnedEntry) /\ ToSet(s) \subseteq Entry
  BY Operators, SetOf DEF OperatorsOf
<1>3. FirstInOrder(s, UnpinnedEntry, n)
  BY <1>2, FirstTaken DEF FirstOK
<1>4. P \subseteq ToSet(s) \cap UnpinnedEntry
  BY <1>2, FirstType
<1>5. \A i \in DOMAIN s : s[i] \in ToSet(s)
  BY DEF ToSet
<1>6. \A x \in ToSet(s) : Cached(t, x.key) <=> x \notin P
  <2> SUFFICES ASSUME NEW x \in ToSet(s) PROVE Cached(t, x.key) <=> x \notin P
    OBVIOUS
  <2>1. x \notin P => Cached(t, x.key)
    BY <1>1 DEF Cached
  <2>2. ASSUME Cached(t, x.key) PROVE x \notin P
    <3>1. PICK y \in ToSet(t) : y.key = x.key
      BY <2>2 DEF Cached
    <3>2. y = x
      BY <1>1, <3>1, SameEntry
    <3> QED BY <1>1, <3>2
  <2> QED BY <2>1, <2>2
<1> HIDE DEF t
<1>7. LeavesUnpinned(s, t)
  BY <1>4, <1>6 DEF LeavesUnpinned, UnpinnedEntry
<1>8. LeavesInOrder(s, t)
  <2> SUFFICES ASSUME NEW i \in DOMAIN s, NEW j \in DOMAIN s, i < j, ~Cached(t, s[j].key),
                      ~s[i].pinned, Cached(t, s[i].key)
               PROVE  FALSE
    BY DEF LeavesInOrder
  <2>1. s[j] \in P /\ s[i] \in UnpinnedEntry /\ s[i] \notin P
    BY <1>2, <1>5, <1>6 DEF UnpinnedEntry
  <2> QED BY <1>3, <2>1 DEF FirstInOrder
<1> QED BY <1>7, <1>8 DEF t

-----------------------------------------------------------------------------
(* The invariant of the manager, and what its operations do                 *)

\* The totals are those of the entries, each key has one, and the history lists
\* the keys as the entries are.
Sessions ==
    /\ caches \in Seq(Entry) /\ Distinct(caches)
    /\ total = Bytes(caches) /\ total <= MaxBytes
    /\ pinnedBytes = Bytes(Pinned(caches)) /\ pinnedBytes <= MaxPinned
    /\ recency = Keys(caches)

\* What ColdestGo says of a step.
Coldest ==
    \A i \in DOMAIN recency :
        Evicted(recency[i]) =>
            /\ IsPinned(recency[i]) => pinnedBytes' < pinnedBytes
            /\ \A j \in 1..(i - 1) :
                \/ IsPinned(recency[j])
                \/ Evicted(recency[j])
                \/ recency[j] = Last(recency')

\* The history, place by place.
LEMMA Places ==
    ASSUME Sessions
    PROVE  /\ DOMAIN recency = DOMAIN caches /\ DOMAIN caches = 1..Len(caches) /\ Len(caches) \in Nat
           /\ \A i \in DOMAIN caches : /\ caches[i] \in ToSet(caches) /\ caches[i] \in Entry
                                       /\ recency[i] = caches[i].key
                                       /\ Cached(caches, recency[i])
                                       /\ IsPinned(recency[i]) <=> caches[i].pinned
<1>1. caches \in Seq(Entry) /\ Distinct(caches) /\ recency = Keys(caches)
  BY DEF Sessions
<1>2. /\ DOMAIN caches = 1..Len(caches) /\ Len(caches) \in Nat
      /\ \A i \in DOMAIN caches : caches[i] \in ToSet(caches) /\ caches[i] \in Entry
  BY <1>1, LenProperties, ElementOfSeq DEF ToSet
<1>3. DOMAIN recency = DOMAIN caches /\ \A i \in DOMAIN caches : recency[i] = caches[i].key
  BY <1>1, <1>2 DEF Keys
<1>4. ToSet(Pinned(caches)) = ToSet(caches) \cap PinnedEntry
  BY <1>1, Operators, AmongSet DEF OperatorsOf
<1>5. ASSUME NEW i \in DOMAIN caches
      PROVE  /\ Cached(caches, recency[i])
             /\ IsPinned(recency[i]) <=> caches[i].pinned
  <2>1. Cached(caches, recency[i])
    BY <1>2, <1>3 DEF Cached
  <2>2. caches[i].pinned => IsPinned(recency[i])
    BY <1>2, <1>3, <1>4 DEF IsPinned, Cached, PinnedEntry
  <2>3. ASSUME IsPinned(recency[i]) PROVE caches[i].pinned
    <3>1. PICK y \in ToSet(Pinned(caches)) : y.key = caches[i].key
      BY <1>3, <2>3 DEF IsPinned, Cached
    <3>2. y = caches[i]
      BY <1>1, <1>2, <1>4, <3>1, SameEntry
    <3> QED BY <1>4, <3>1, <3>2 DEF PinnedEntry
  <2> QED BY <2>1, <2>2, <2>3
<1> QED BY <1>2, <1>3, <1>5

\* A loop of evictions.
LEMMA EvictStep ==
    ASSUME Sessions, NEW target, Evict(target), UsesNothing
    PROVE  Sessions' /\ Coldest
<1> DEFINE enough == {m \in 0..Len(Unpinned(caches)) :
                        IF target = 0 THEN m = 1 ELSE Freed(caches, m) >= target}
<1>1. caches \in Seq(Entry) /\ Distinct(caches)
  BY DEF Sessions
<1>2. PICK n : /\ n = EvictRounds(caches, target)
               /\ caches' = Left(caches, n)
               /\ total' = total - Freed(caches, n)
               /\ pinnedBytes' = pinnedBytes
  BY DEF Evict
<1>3. n \in 0..Len(Unpinned(caches))
  <2>1. n = Rounds(caches, enough)
    BY <1>2, Zenon DEF EvictRounds
  <2>2. enough \in SUBSET (0..Len(Unpinned(caches)))
    OBVIOUS
  <2> HIDE DEF enough
  <2>3. RoundsOK(caches, enough)
    BY <1>1, <2>2, RoundsIs, Zenon
  <2> QED BY <2>1, <2>3 DEF RoundsOK
<1>4. LeftOK(caches, n) /\ LeavesInOrder(caches, caches') /\ LeavesUnpinned(caches, caches')
  BY <1>1, <1>2, <1>3, LeftIs, LeftOrder
<1>5. /\ caches' \in Seq(Entry) /\ Distinct(caches') /\ Pinned(caches') = Pinned(caches)
      /\ Freed(caches, n) \in Nat /\ Bytes(caches) = Bytes(caches') + Freed(caches, n)
  BY <1>2, <1>4 DEF LeftOK
<1>6. Bytes(caches') \in Nat /\ MaxBytes \in Nat
  BY <1>5, EntriesWeighed, BytesNat, BudgetAssumption
<1>7. total' = Bytes(caches') /\ total' <= MaxBytes
  BY <1>2, <1>5, <1>6 DEF Sessions
<1>8. recency' = Keys(caches')
  <2>1. KeptKeys(caches, caches')
    BY <1>1, <1>2, TakenKeys DEF Left
  <2> QED BY <2>1 DEF UsesNothing, KeptKeys, Sessions
<1>9. Sessions'
  BY <1>2, <1>5, <1>7, <1>8 DEF Sessions
<1>10. Coldest
  <2> SUFFICES ASSUME NEW i \in DOMAIN recency, Evicted(recency[i])
               PROVE  /\ ~IsPinned(recency[i])
                      /\ \A j \in 1..(i - 1) : IsPinned(recency[j]) \/ Evicted(recency[j])
    BY DEF Coldest
  <2>1. i \in DOMAIN caches /\ ~Cached(caches', caches[i].key)
    BY Places DEF Evicted
  <2>2. ~IsPinned(recency[i])
    BY <1>4, <2>1, Places DEF LeavesUnpinned
  <2>3. ASSUME NEW j \in 1..(i - 1)
        PROVE  IsPinned(recency[j]) \/ Evicted(recency[j])
    <3>1. j \in DOMAIN caches /\ j < i
      BY <2>1, Places
    <3>2. caches[j].pinned \/ ~Cached(caches', caches[j].key)
      BY <1>4, <2>1, <3>1 DEF LeavesInOrder
    <3> QED BY <3>1, <3>2, Places DEF Evicted
  <2> QED BY <2>2, <2>3
<1> QED BY <1>9, <1>10

\* The entries of a key are one.
LEMMA OneOf ==
    ASSUME Sessions, NEW i \in DOMAIN caches
    PROVE  Of(caches, caches[i].key) = <<caches[i]>>
<1> DEFINE k == caches[i].key
<1>1. caches \in Seq(Entry) /\ Distinct(caches) /\ \A j \in DOMAIN caches : caches[j] \in Entry
  BY Places DEF Sessions
<1>2. OnlyAt(caches, KeyedEntry(k), i)
  BY <1>1 DEF OnlyAt, KeyedEntry, Distinct
<1>3. Among(caches, KeyedEntry(k)) = <<caches[i]>>
  BY <1>1, <1>2, AmongOne, Zenon
<1>4. Of(caches, k) = Among(caches, KeyedEntry(k))
  BY <1>1, Operators DEF OperatorsOf
<1> QED BY <1>3, <1>4

\* An entry with a key, and the others.
LEMMA Apart ==
    ASSUME Sessions, NEW k
    PROVE  LET old == Of(caches, k)
               o == Others(caches, k)
           IN  /\ old \in Seq(Entry) /\ o \in Seq(Entry) /\ Distinct(o)
               /\ ToSet(o) = {x \in ToSet(caches) : x.key # k}
               /\ Bytes(old) \in Nat /\ Bytes(o) \in Nat
               /\ Bytes(Pinned(old)) \in Nat /\ Bytes(Pinned(o)) \in Nat
               /\ Bytes(caches) = Bytes(old) + Bytes(o)
               /\ Bytes(Pinned(caches)) = Bytes(Pinned(old)) + Bytes(Pinned(o))
               /\ Bytes(Pinned(o)) <= Bytes(o)
               /\ k \in Key => Among(recency, Key \ {k}) = Keys(o)
<1> DEFINE c == caches
           A == KeyedEntry(k)
           B == OtherEntry(k)
           old == Of(c, k)
           o == Others(c, k)
<1>1. c \in Seq(Entry) /\ Distinct(c) /\ recency = Keys(c)
  BY DEF Sessions
<1>2. old = Among(c, A) /\ o = Among(c, B) /\ Pinned(c) = Among(c, PinnedEntry)
  BY <1>1, Operators DEF OperatorsOf
<1>3. old \in Seq(Entry) /\ o \in Seq(Entry) /\ Distinct(o) /\ Pinned(c) \in Seq(Entry)
  BY <1>1, <1>2, AmongType, AmongDistinct
<1>4. Pinned(old) = Among(old, PinnedEntry) /\ Pinned(o) = Among(o, PinnedEntry)
  BY <1>3, Operators DEF OperatorsOf
<1>5. /\ Bytes(old) \in Nat /\ Bytes(o) \in Nat
      /\ Bytes(Pinned(old)) \in Nat /\ Bytes(Pinned(o)) \in Nat
  BY <1>3, <1>4, EntriesWeighed, BytesNat
<1>6. A \cap B = {} /\ A \cup B = Entry
  BY DEF KeyedEntry, OtherEntry
<1>7. \A s \in Seq(Entry) : Split(s, A, B) /\ Among(s, A \cup B) = s
  <2>1. \A s \in Seq(Entry) : ToSet(s) \subseteq Entry
    BY SetOf
  <2> HIDE DEF A, B
  <2> QED BY <1>6, <2>1, EntriesWeighed, BytesSplit, AmongAll
<1>8. Bytes(c) = Bytes(old) + Bytes(o)
  BY <1>1, <1>2, <1>7, Zenon DEF Split
<1>9. Bytes(Pinned(c)) = Bytes(Pinned(old)) + Bytes(Pinned(o))
  <2>1. Among(Pinned(c), A) = Pinned(old) /\ Among(Pinned(c), B) = Pinned(o)
    <3>1. \A D, F : Among(Among(c, D), F) = Among(c, D \cap F)
      BY <1>1, AmongTwice
    <3>2. PinnedEntry \cap A = A \cap PinnedEntry /\ PinnedEntry \cap B = B \cap PinnedEntry
      OBVIOUS
    <3> HIDE DEF A, B, c, old, o
    <3>3. /\ Among(Among(c, PinnedEntry), A) = Among(Among(c, A), PinnedEntry)
          /\ Among(Among(c, PinnedEntry), B) = Among(Among(c, B), PinnedEntry)
      <4>1. /\ Among(Among(c, PinnedEntry), A) = Among(c, PinnedEntry \cap A)
            /\ Among(Among(c, PinnedEntry), B) = Among(c, PinnedEntry \cap B)
            /\ Among(Among(c, A), PinnedEntry) = Among(c, A \cap PinnedEntry)
            /\ Among(Among(c, B), PinnedEntry) = Among(c, B \cap PinnedEntry)
        BY <3>1, Zenon
      <4> QED BY <3>2, <4>1, Zenon
    <3> QED BY <1>2, <1>4, <3>3, Zenon
  <2>2. Split(Pinned(c), A, B) /\ Among(Pinned(c), A \cup B) = Pinned(c)
    BY <1>3, <1>7, Zenon
  <2> QED BY <2>1, <2>2, Zenon DEF Split
<1>10. ToSet(o) = {x \in ToSet(c) : x.key # k}
  <2>1. ToSet(o) = ToSet(c) \cap B /\ ToSet(c) \subseteq Entry
    BY <1>1, <1>2, AmongSet, SetOf
  <2> QED BY <2>1 DEF OtherEntry
<1>11. Bytes(Pinned(o)) <= Bytes(o)
  BY <1>3, <1>4, Lighter
<1>12. ASSUME k \in Key PROVE Among(recency, Key \ {k}) = Keys(o)
  <2>1. Agree(c, B, Key \ {k})
    <3>1. ToSet(c) \subseteq Entry
      BY <1>1, SetOf
    <3> QED BY <3>1 DEF Agree, OtherEntry, Entry
  <2>2. \A K : Agree(c, B, K) => Among(Keys(c), K) = Keys(Among(c, B))
    BY <1>1, KeysAmong
  <2> QED BY <1>1, <1>2, <2>1, <2>2, Zenon
<1> QED BY <1>3, <1>5, <1>8, <1>9, <1>10, <1>11, <1>12

\* What a store makes of the entries, before any is evicted.
NewEntry(k, bytes) == [key |-> k, bytes |-> bytes, pinned |-> FALSE]

LEMMA StoredIs ==
    ASSUME Sessions, NEW k \in Key, NEW bytes \in Sizes
    PROVE  LET o == Others(caches, k)
               e == NewEntry(k, bytes)
               s == Stored(k, bytes)
           IN  /\ e \in Entry /\ s = Append(o, e)
               /\ s \in Seq(Entry) /\ Distinct(s) /\ ToSet(s) = ToSet(o) \cup {e}
               /\ Bytes(s) = Bytes(o) + bytes
               /\ Pinned(s) = Pinned(o)
               /\ Keys(s) = Append(Keys(o), k)
<1> DEFINE o == Others(caches, k)
           e == NewEntry(k, bytes)
           s == Stored(k, bytes)
<1>1. e \in Entry /\ e.key = k /\ e.bytes = bytes /\ ~e.pinned
  BY DEF Entry, NewEntry
<1>2. s = Append(o, e)
  BY Zenon DEF Stored, NewEntry
<1>3. o \in Seq(Entry) /\ Distinct(o) /\ ToSet(o) = {x \in ToSet(caches) : x.key # k}
  BY Apart
<1> HIDE DEF o, e, s
<1>4. s \in Seq(Entry) /\ ToSet(s) = ToSet(o) \cup {e}
  BY <1>1, <1>2, <1>3, SetAppend
<1>5. Distinct(s)
  <2>1. \A t \in Seq(Entry) : Distinct(t) /\ (\A x \in ToSet(t) : x.key # e.key) => Distinct(Append(t, e))
    BY <1>1, DistinctAppend
  <2> QED BY <1>1, <1>2, <1>3, <2>1
<1>6. Bytes(s) = Bytes(o) + bytes
  <2>1. Heavier(o, e)
    BY <1>1, <1>3, EntriesWeighed, BytesLonger
  <2> QED BY <1>1, <1>2, <2>1, Zenon DEF Heavier
<1>7. Pinned(s) = Pinned(o)
  <2>1. Longer(o, PinnedEntry, e)
    BY <1>1, <1>3, AmongAppend
  <2>2. e \notin PinnedEntry
    BY <1>1 DEF PinnedEntry
  <2>3. Pinned(s) = Among(s, PinnedEntry) /\ Pinned(o) = Among(o, PinnedEntry)
    BY <1>3, <1>4, Operators DEF OperatorsOf
  <2> QED BY <1>2, <2>1, <2>2, <2>3, Zenon DEF Longer
<1>8. Keys(s) = Append(Keys(o), k)
  <2>1. \A t \in Seq(Entry) : Keys(Append(t, e)) = Append(Keys(t), e.key)
    BY <1>1, KeysAppend
  <2> QED BY <1>1, <1>2, <1>3, <2>1, Zenon
<1> QED BY <1>1, <1>2, <1>4, <1>5, <1>6, <1>7, <1>8 DEF o, e, s

\* What the rounds of a store leave fits the budget.
LEMMA StoreRounds ==
    ASSUME Sessions, NEW k \in Key, NEW bytes \in Sizes,
           NEW n, n = BudgetRounds(Stored(k, bytes), Bytes(Stored(k, bytes)))
    PROVE  /\ n \in 0..Len(Unpinned(Stored(k, bytes)))
           /\ Bytes(Left(Stored(k, bytes), n)) <= MaxBytes
<1> DEFINE s == Stored(k, bytes)
           o == Others(caches, k)
           held == Bytes(s)
           enough == {m \in 0..Len(Unpinned(s)) : held - Freed(s, m) <= MaxBytes}
<1>1. s \in Seq(Entry) /\ Distinct(s) /\ Pinned(s) = Pinned(o)
  BY StoredIs
<1>2. Bytes(Pinned(o)) <= MaxBytes
  <2>1. /\ Bytes(Pinned(o)) <= Bytes(o) /\ Bytes(caches) = Bytes(Of(caches, k)) + Bytes(o)
        /\ Bytes(Pinned(o)) \in Nat /\ Bytes(o) \in Nat /\ Bytes(Of(caches, k)) \in Nat
    BY Apart
  <2>2. Bytes(caches) <= MaxBytes /\ MaxBytes \in Nat
    BY BudgetAssumption DEF Sessions
  <2> HIDE DEF o
  <2> QED BY <2>1, <2>2
<1> HIDE DEF s, o
<1>3. n = Rounds(s, enough)
  BY Zenon DEF BudgetRounds, s
<1>4. enough \in SUBSET (0..Len(Unpinned(s)))
  OBVIOUS
<1>5. n \in 0..Len(Unpinned(s)) /\ (n \in enough \/ n = Len(Unpinned(s)))
  <2> HIDE DEF enough
  <2>1. RoundsOK(s, enough)
    BY <1>1, <1>4, RoundsIs, Zenon
  <2> QED BY <1>3, <2>1 DEF RoundsOK
<1>6. LeftOK(s, n)
  BY <1>1, <1>5, LeftIs
<1>7. /\ Left(s, n) \in Seq(Entry) /\ Freed(s, n) \in Nat /\ Bytes(s) = Bytes(Left(s, n)) + Freed(s, n)
      /\ n = Len(Unpinned(s)) => Left(s, n) = Pinned(s)
  BY <1>6 DEF LeftOK
<1>8. Bytes(Left(s, n)) \in Nat
  BY <1>7, EntriesWeighed, BytesNat
<1>9. CASE n \in enough
  <2>1. held - Freed(s, n) <= MaxBytes
    BY <1>9
  <2>2. held = Bytes(Left(s, n)) + Freed(s, n)
    BY <1>7
  <2> HIDE DEF held
  <2>3. Bytes(Left(s, n)) <= MaxBytes
    BY <1>7, <1>8, <2>1, <2>2
  <2> QED BY <1>5, <2>3 DEF s
<1>10. CASE n = Len(Unpinned(s))
  <2>1. Left(s, n) = Pinned(o)
    BY <1>1, <1>7, <1>10
  <2> QED BY <1>2, <1>5, <2>1 DEF s
<1> QED BY <1>5, <1>9, <1>10

\* A store.
Stores(k, bytes, n) ==
    /\ n = BudgetRounds(Stored(k, bytes), Bytes(Stored(k, bytes)))
    /\ caches' = Left(Stored(k, bytes), n)
    /\ total' = Bytes(Stored(k, bytes)) - Freed(Stored(k, bytes), n)
    /\ pinnedBytes' = pinnedBytes - Bytes(Pinned(Of(caches, k)))

LEMMA StoreIs ==
    ASSUME Sessions, NEW k \in Key, NEW bytes \in Sizes, Store(k, bytes)
    PROVE  \E n : Stores(k, bytes, n)
<1> DEFINE held == total - Bytes(Of(caches, k)) + bytes
<1>1. held = Bytes(Stored(k, bytes))
  <2>1. /\ Bytes(caches) = Bytes(Of(caches, k)) + Bytes(Others(caches, k))
        /\ Bytes(Of(caches, k)) \in Nat /\ Bytes(Others(caches, k)) \in Nat
    BY Apart
  <2>2. Bytes(Stored(k, bytes)) = Bytes(Others(caches, k)) + bytes
    BY StoredIs
  <2>3. bytes \in Nat /\ total = Bytes(caches)
    BY RuntimeAssumption DEF Sessions
  <2> QED BY <2>1, <2>2, <2>3
<1>2. \E n : /\ n = BudgetRounds(Stored(k, bytes), held)
             /\ caches' = Left(Stored(k, bytes), n)
             /\ total' = held - Freed(Stored(k, bytes), n)
             /\ pinnedBytes' = pinnedBytes - Bytes(Pinned(Of(caches, k)))
  BY Zenon DEF Store
<1> HIDE DEF held
<1> QED BY <1>1, <1>2, Zenon DEF Stores

LEMMA StoreSessions ==
    ASSUME Sessions, NEW k \in Key, NEW bytes \in Sizes, NEW n, Stores(k, bytes, n), Uses(k)
    PROVE  /\ Sessions'
           /\ LeavesInOrder(Stored(k, bytes), caches') /\ LeavesUnpinned(Stored(k, bytes), caches')
<1> DEFINE s == Stored(k, bytes)
           o == Others(caches, k)
<1>1. /\ s \in Seq(Entry) /\ Distinct(s) /\ Pinned(s) = Pinned(o)
      /\ Keys(s) = Append(Keys(o), k)
  BY StoredIs
<1>2. n \in 0..Len(Unpinned(s)) /\ Bytes(Left(s, n)) <= MaxBytes
  BY StoreRounds DEF Stores
<1>3. caches' = Left(s, n) /\ total' = Bytes(s) - Freed(s, n)
  BY DEF Stores
<1>4. LeftOK(s, n) /\ LeavesInOrder(s, caches') /\ LeavesUnpinned(s, caches')
  BY <1>1, <1>2, <1>3, LeftIs, LeftOrder
<1>5. /\ caches' \in Seq(Entry) /\ Distinct(caches') /\ Pinned(caches') = Pinned(s)
      /\ Freed(s, n) \in Nat /\ Bytes(s) = Bytes(caches') + Freed(s, n)
  BY <1>3, <1>4 DEF LeftOK
<1>6. Bytes(caches') \in Nat
  BY <1>5, EntriesWeighed, BytesNat
<1>7. total' = Bytes(caches') /\ total' <= MaxBytes
  BY <1>2, <1>3, <1>5, <1>6
<1>8. pinnedBytes' = Bytes(Pinned(caches')) /\ pinnedBytes' <= MaxPinned
  <2>1. /\ Bytes(Pinned(caches)) = Bytes(Pinned(Of(caches, k))) + Bytes(Pinned(o))
        /\ Bytes(Pinned(Of(caches, k))) \in Nat /\ Bytes(Pinned(o)) \in Nat
    BY Apart
  <2>2. /\ pinnedBytes = Bytes(Pinned(caches)) /\ pinnedBytes <= MaxPinned /\ MaxPinned \in Nat
        /\ pinnedBytes' = pinnedBytes - Bytes(Pinned(Of(caches, k)))
    BY BudgetAssumption DEF Sessions, Stores
  <2>3. Pinned(caches') = Pinned(o)
    BY <1>1, <1>5
  <2> HIDE DEF o
  <2> QED BY <2>1, <2>2, <2>3
<1>9. recency' = Keys(caches')
  <2>1. KeptKeys(s, caches')
    BY <1>1, <1>3, TakenKeys DEF Left
  <2>2. Among(recency, Key \ {k}) = Keys(o)
    BY Apart
  <2> QED BY <1>1, <2>1, <2>2, Zenon DEF Uses, KeptKeys
<1> QED BY <1>4, <1>5, <1>7, <1>8, <1>9 DEF Sessions

\* The last of a store's keys that stay: the new entry's, when it stays.
LEMMA StoreLast ==
    ASSUME Sessions, NEW k \in Key, NEW bytes \in Sizes, NEW n, Stores(k, bytes, n),
           Sessions', Cached(caches', k)
    PROVE  Last(recency') = k
<1> DEFINE s == Stored(k, bytes)
           o == Others(caches, k)
           e == NewEntry(k, bytes)
           T == ToSet(s) \ ToSet(SubSeq(Unpinned(s), 1, n))
<1>1. /\ e \in Entry /\ s = Append(o, e) /\ s \in Seq(Entry) /\ ToSet(s) = ToSet(o) \cup {e}
      /\ e.key = k
  BY StoredIs DEF NewEntry
<1>2. o \in Seq(Entry) /\ ToSet(o) = {x \in ToSet(caches) : x.key # k}
  BY Apart
<1>3. caches' = Among(s, T)
  BY Zenon DEF Stores, Left
<1> HIDE DEF s, o, e, T
<1>4. e \in T
  <2>1. ToSet(caches') = ToSet(s) \cap T
    BY <1>1, <1>3, AmongSet
  <2>2. PICK x \in ToSet(caches') : x.key = k
    BY DEF Cached
  <2>3. x \in ToSet(s) /\ x \notin ToSet(o)
    BY <1>2, <2>1, <2>2
  <2>4. x = e
    BY <1>1, <2>3
  <2> QED BY <2>1, <2>2, <2>4
<1>5. Among(o, T) \in Seq(Entry)
  BY <1>2, AmongType
<1>6. caches' = Append(Among(o, T), e)
  <2>1. Longer(o, T, e)
    BY <1>1, <1>2, AmongAppend
  <2> QED BY <1>1, <1>3, <1>4, <2>1, Zenon DEF Longer
<1> DEFINE u == Among(o, T)
           m == Len(u)
<1>7. m \in Nat /\ Len(Append(u, e)) = m + 1 /\ Append(u, e)[m + 1] = e
  BY <1>1, <1>5
<1>8. recency' = Keys(caches')
  BY DEF Sessions
<1> HIDE DEF u, m
<1>9. Len(caches') = m + 1 /\ caches'[m + 1] = e
  BY <1>6, <1>7 DEF u
<1>10. recency' = [i \in 1..(m + 1) |-> caches'[i].key]
  BY <1>8, <1>9 DEF Keys
<1>11. Len(recency') = m + 1
  BY <1>7, <1>10
<1>12. recency'[m + 1] = k
  BY <1>1, <1>7, <1>9, <1>10
<1> QED BY <1>11, <1>12 DEF Last

\* An entry that a store takes with its pin takes bytes from the pinned ones.
LEMMA StoreUnpins ==
    ASSUME Sessions, NEW i \in DOMAIN caches, caches[i].pinned,
           NEW bytes, NEW n, Stores(caches[i].key, bytes, n)
    PROVE  pinnedBytes' < pinnedBytes
<1> DEFINE x == caches[i]
           k == x.key
<1>1. x \in Entry /\ Of(caches, k) = <<x>>
  BY Places, OneOf
<1>2. x.bytes \in Nat /\ x.bytes # 0
  BY <1>1, RuntimeAssumption DEF Entry
<1>3. Bytes(Pinned(<<x>>)) = x.bytes
  <2>1. <<x>> \in Seq(Entry) /\ Bytes(<<x>>) = x.bytes /\ Among(<<x>>, PinnedEntry) = <<x>>
    BY <1>1, Alone
  <2>2. Pinned(<<x>>) = Among(<<x>>, PinnedEntry)
    BY <2>1, Operators DEF OperatorsOf
  <2> QED BY <2>1, <2>2
<1>4. Bytes(Pinned(Of(caches, k))) = x.bytes
  BY <1>1, <1>3
<1>5. pinnedBytes' = pinnedBytes - x.bytes
  BY <1>4 DEF Stores
<1>6. pinnedBytes \in Nat
  <2>1. caches \in Seq(Entry) /\ pinnedBytes = Bytes(Pinned(caches))
    BY DEF Sessions
  <2>2. Pinned(caches) = Among(caches, PinnedEntry)
    BY <2>1, Operators DEF OperatorsOf
  <2> QED BY <2>1, <2>2, EntriesWeighed, BytesNat
<1> QED BY <1>2, <1>5, <1>6

LEMMA StoreStep ==
    ASSUME Sessions, NEW k \in Key, NEW bytes \in Sizes, Store(k, bytes), Uses(k)
    PROVE  Sessions' /\ Coldest
<1>1. PICK n : Stores(k, bytes, n)
  BY StoreIs
<1> DEFINE s == Stored(k, bytes)
           o == Others(caches, k)
           e == NewEntry(k, bytes)
<1>2. Sessions' /\ LeavesInOrder(s, caches') /\ LeavesUnpinned(s, caches')
  BY <1>1, StoreSessions
<1>3. /\ e \in Entry /\ s = Append(o, e) /\ s \in Seq(Entry) /\ ToSet(s) = ToSet(o) \cup {e}
      /\ e.key = k
  BY StoredIs DEF NewEntry
<1>4. o \in Seq(Entry) /\ ToSet(o) = {x \in ToSet(caches) : x.key # k}
  BY Apart
<1> HIDE DEF s, o, e
<1>5. /\ Len(o) \in Nat /\ DOMAIN o = 1..Len(o) /\ DOMAIN s = 1..(Len(o) + 1)
      /\ s[Len(o) + 1] = e /\ \A i \in 1..Len(o) : s[i] = o[i]
  BY <1>3, <1>4, AppendPlaces
<1> SUFFICES ASSUME NEW i \in DOMAIN recency, Evicted(recency[i])
             PROVE  /\ IsPinned(recency[i]) => pinnedBytes' < pinnedBytes
                    /\ \A j \in 1..(i - 1) :
                        \/ IsPinned(recency[j])
                        \/ Evicted(recency[j])
                        \/ recency[j] = Last(recency')
  BY <1>2 DEF Coldest
<1>6. /\ i \in DOMAIN caches /\ recency[i] = caches[i].key /\ ~Cached(caches', caches[i].key)
      /\ caches[i] \in ToSet(caches) /\ (IsPinned(recency[i]) <=> caches[i].pinned)
  BY Places DEF Evicted
<1>7. ASSUME NEW j \in 1..(i - 1)
      PROVE  /\ j \in DOMAIN caches /\ j < i /\ recency[j] = caches[j].key
             /\ caches[j] \in ToSet(caches) /\ (IsPinned(recency[j]) <=> caches[j].pinned)
             /\ Evicted(recency[j]) <=> ~Cached(caches', caches[j].key)
  <2>1. j \in DOMAIN caches /\ j < i
    BY <1>6, Places
  <2> QED BY <2>1, Places DEF Evicted
<1>8. CASE caches[i].key = k
  <2>1. IsPinned(recency[i]) => pinnedBytes' < pinnedBytes
    BY <1>1, <1>6, <1>8, StoreUnpins
  <2>2. ASSUME NEW j \in 1..(i - 1)
        PROVE  IsPinned(recency[j]) \/ Evicted(recency[j])
    <3>1. caches[j].key # k
      <4>1. j \in DOMAIN caches /\ j < i
        BY <1>7
      <4>2. i # j
        BY <1>6, <4>1, Places
      <4> QED BY <1>6, <1>8, <4>1, <4>2 DEF Sessions, Distinct
    <3>2. caches[j] \in ToSet(o)
      BY <1>4, <1>7, <3>1
    <3>3. PICK m \in 1..Len(o) : o[m] = caches[j]
      BY <1>5, <3>2 DEF ToSet
    <3>4. m \in DOMAIN s /\ Len(o) + 1 \in DOMAIN s /\ m < Len(o) + 1 /\ s[m] = caches[j]
      BY <1>5, <3>3
    <3>5. ~Cached(caches', s[Len(o) + 1].key)
      BY <1>3, <1>5, <1>6, <1>8
    <3>6. s[m].pinned \/ ~Cached(caches', s[m].key)
      BY <1>2, <3>4, <3>5 DEF LeavesInOrder
    <3> QED BY <1>7, <3>4, <3>6
  <2> QED BY <2>1, <2>2
<1>9. CASE caches[i].key # k
  <2>1. caches[i] \in ToSet(o) /\ caches[i] \in ToSet(s)
    BY <1>3, <1>4, <1>6, <1>9
  <2>2. ~IsPinned(recency[i])
    BY <1>2, <1>6, <2>1 DEF LeavesUnpinned
  <2>3. ASSUME NEW j \in 1..(i - 1)
        PROVE  IsPinned(recency[j]) \/ Evicted(recency[j]) \/ recency[j] = Last(recency')
    <3>1. CASE caches[j].key = k
      <4>1. CASE Cached(caches', k)
        BY <1>1, <1>2, <1>7, <3>1, <4>1, StoreLast
      <4>2. CASE ~Cached(caches', k)
        BY <1>7, <3>1, <4>2
      <4> QED BY <4>1, <4>2
    <3>2. CASE caches[j].key # k
      <4>1. caches \in Seq(Entry) /\ o = Among(caches, OtherEntry(k))
        BY Operators DEF OperatorsOf, Sessions, o
      <4>2. caches[j] \in OtherEntry(k) /\ caches[i] \in OtherEntry(k)
        BY <1>6, <1>7, <1>9, <3>2, <4>1, SetOf DEF OtherEntry
      <4>3. OrderKept(caches, OtherEntry(k))
        BY <4>1, AmongOrder
      <4>4. PICK a, b \in DOMAIN o : a < b /\ o[a] = caches[j] /\ o[b] = caches[i]
        BY <1>6, <1>7, <4>1, <4>2, <4>3 DEF OrderKept
      <4>5. a \in DOMAIN s /\ b \in DOMAIN s /\ s[a] = caches[j] /\ s[b] = caches[i]
        BY <1>5, <4>4
      <4>6. s[a].pinned \/ ~Cached(caches', s[a].key)
        BY <1>2, <1>6, <4>4, <4>5 DEF LeavesInOrder
      <4> QED BY <1>7, <4>5, <4>6
    <3> QED BY <3>1, <3>2
  <2> QED BY <2>2, <2>3
<1> QED BY <1>8, <1>9

\* A lookup moves the entry to the end.
LEMMA RetrieveStep ==
    ASSUME Sessions, NEW k \in Key, Cached(caches, k), Retrieve(k), Uses(k)
    PROVE  Sessions' /\ Coldest
<1> DEFINE o == Others(caches, k)
<1>1. PICK i \in DOMAIN caches : caches[i].key = k
  BY DEF Cached, ToSet
<1> DEFINE x == caches[i]
           t == Append(o, x)
<1>2. x \in Entry /\ x \in ToSet(caches) /\ x.key = k /\ Of(caches, k) = <<x>>
  BY <1>1, Places, OneOf
<1>3. /\ o \in Seq(Entry) /\ Distinct(o) /\ ToSet(o) = {y \in ToSet(caches) : y.key # k}
      /\ Bytes(caches) = Bytes(<<x>>) + Bytes(o)
      /\ Bytes(Pinned(caches)) = Bytes(Pinned(<<x>>)) + Bytes(Pinned(o))
      /\ Bytes(o) \in Nat /\ Bytes(Pinned(o)) \in Nat
      /\ Among(recency, Key \ {k}) = Keys(o)
  BY <1>2, Apart
<1> HIDE DEF o, x, t
<1>4. caches' = t
  <2>1. caches' = o \o <<x>>
    BY <1>2 DEF Retrieve, Touched, o
  <2>2. o \o <<x>> = Append(o, x)
    BY <1>2, <1>3, AppendIsConcat
  <2> QED BY <2>1, <2>2 DEF t
<1>5. t \in Seq(Entry) /\ Distinct(t) /\ ToSet(t) = ToSet(caches)
  <2>1. \A s \in Seq(Entry) : Distinct(s) /\ (\A y \in ToSet(s) : y.key # x.key) => Distinct(Append(s, x))
    BY <1>2, DistinctAppend
  <2>2. t \in Seq(Entry) /\ ToSet(t) = ToSet(o) \cup {x}
    BY <1>2, <1>3, SetAppend DEF t
  <2>3. Distinct(t)
    BY <1>2, <1>3, <2>1 DEF t
  <2>4. ASSUME NEW y \in ToSet(caches), y.key = k PROVE y = x
    BY <1>2, <2>4, SameEntry DEF Sessions
  <2>5. ToSet(o) \cup {x} = ToSet(caches)
    BY <1>2, <1>3, <2>4
  <2> QED BY <2>2, <2>3, <2>5
<1>6. Bytes(t) = Bytes(caches)
  <2>1. Heavier(o, x)
    BY <1>2, <1>3, EntriesWeighed, BytesLonger
  <2>2. Bytes(<<x>>) = x.bytes /\ x.bytes \in Nat
    BY <1>2, Alone, EntriesWeighed DEF Weighed
  <2>3. Bytes(t) = Bytes(o) + x.bytes
    BY <2>1, Zenon DEF Heavier, t
  <2> QED BY <1>3, <2>2, <2>3
<1>7. Bytes(Pinned(t)) = Bytes(Pinned(caches))
  <2>1. Longer(o, PinnedEntry, x)
    BY <1>2, <1>3, AmongAppend
  <2>2. Pinned(t) = Among(t, PinnedEntry) /\ Pinned(o) = Among(o, PinnedEntry)
    BY <1>3, <1>5, Operators DEF OperatorsOf
  <2>3. <<x>> \in Seq(Entry) /\ Among(<<x>>, PinnedEntry) = IF x.pinned THEN <<x>> ELSE <<>>
    BY <1>2, Alone
  <2>4. Pinned(<<x>>) = IF x.pinned THEN <<x>> ELSE <<>>
    BY <2>3, Operators DEF OperatorsOf
  <2>5. CASE x.pinned
    <3>1. x \in PinnedEntry
      BY <1>2, <2>5 DEF PinnedEntry
    <3>2. Pinned(t) = Append(Pinned(o), x)
      BY <2>1, <2>2, <3>1, Zenon DEF Longer, t
    <3>3. Heavier(Pinned(o), x)
      BY <1>2, <1>3, <2>2, AmongType, EntriesWeighed, BytesLonger
    <3>4. Bytes(Pinned(t)) = Bytes(Pinned(o)) + x.bytes
      BY <3>2, <3>3, Zenon DEF Heavier
    <3>5. Bytes(Pinned(<<x>>)) = x.bytes /\ x.bytes \in Nat
      BY <1>2, <2>4, <2>5, Alone, EntriesWeighed DEF Weighed
    <3> QED BY <1>3, <3>4, <3>5
  <2>6. CASE ~x.pinned
    <3>1. x \notin PinnedEntry
      BY <2>6 DEF PinnedEntry
    <3>2. Pinned(t) = Pinned(o)
      BY <2>1, <2>2, <3>1, Zenon DEF Longer, t
    <3>3. Bytes(Pinned(<<x>>)) = 0
      BY <2>4, <2>6, BytesEmpty
    <3> QED BY <1>3, <3>2, <3>3
  <2> QED BY <2>5, <2>6
<1>8. recency' = Keys(t)
  <2>1. Keys(t) = Append(Keys(o), k)
    <3>1. \A s \in Seq(Entry) : Keys(Append(s, x)) = Append(Keys(s), x.key)
      BY <1>2, KeysAppend
    <3> QED BY <1>2, <1>3, <3>1, Zenon DEF t
  <2>2. KeptKeys(t, Among(t, ToSet(t)))
    BY <1>5, TakenKeys
  <2>3. Among(t, ToSet(t)) = t
    BY <1>5, AmongAll
  <2>4. KeptKeys(t, t)
    BY <2>2, <2>3
  <2> QED BY <1>3, <1>4, <2>1, <2>4, Zenon DEF Uses, KeptKeys
<1>9. total' = total /\ pinnedBytes' = pinnedBytes
  BY DEF Retrieve
<1>10. Sessions'
  BY <1>4, <1>5, <1>6, <1>7, <1>8, <1>9 DEF Sessions
<1>11. Coldest
  BY <1>4, <1>5 DEF Coldest, Evicted, Cached
<1> QED BY <1>10, <1>11

-----------------------------------------------------------------------------
(* Pinning                                                                  *)

WithPin(e, k) == IF e.key = k THEN [e EXCEPT !.pinned = TRUE] ELSE e
Pinning(s, k) == [i \in DOMAIN s |-> WithPin(s[i], k)]

LEMMA PinnedOne ==
    ASSUME NEW e \in Entry, NEW k
    PROVE  /\ WithPin(e, k) \in Entry /\ WithPin(e, k).key = e.key /\ WithPin(e, k).bytes = e.bytes
           /\ WithPin(e, k) \in PinnedEntry <=> e \in PinnedEntry \cup KeyedEntry(k)
BY DEF WithPin, Entry, PinnedEntry, KeyedEntry

LEMMA PinningType ==
    ASSUME NEW s \in Seq(Entry), NEW k
    PROVE  /\ Pinning(s, k) \in Seq(Entry) /\ Len(Pinning(s, k)) = Len(s) /\ Len(s) \in Nat
           /\ DOMAIN Pinning(s, k) = DOMAIN s /\ DOMAIN s = 1..Len(s)
           /\ \A i \in 1..Len(s) : s[i] \in Entry /\ Pinning(s, k)[i] = WithPin(s[i], k)
<1>1. DOMAIN s = 1..Len(s) /\ Len(s) \in Nat /\ \A i \in 1..Len(s) : s[i] \in Entry
  BY LenProperties, ElementOfSeq
<1>2. \A i \in 1..Len(s) : WithPin(s[i], k) \in Entry
  BY <1>1, PinnedOne
<1> HIDE DEF Entry
<1> QED BY <1>1, <1>2 DEF Pinning

\* Of a sequence one longer.
LEMMA PinningAppend ==
    ASSUME NEW s \in Seq(Entry), NEW e \in Entry, NEW k
    PROVE  Pinning(Append(s, e), k) = Append(Pinning(s, k), WithPin(e, k))
<1> DEFINE t == Append(s, e)
           m == Len(s)
           a == Pinning(t, k)
           b == Append(Pinning(s, k), WithPin(e, k))
<1>1. t \in Seq(Entry) /\ m \in Nat /\ Len(t) = m + 1 /\ t[m + 1] = e /\ \A i \in 1..m : t[i] = s[i]
  BY AppendPlaces
<1>2. a \in Seq(Entry) /\ Len(a) = m + 1 /\ \A i \in 1..(m + 1) : a[i] = WithPin(t[i], k)
  BY <1>1, PinningType
<1>3. /\ b \in Seq(Entry) /\ Len(b) = m + 1 /\ b[m + 1] = WithPin(e, k)
      /\ \A i \in 1..m : b[i] = WithPin(s[i], k)
  <2>1. /\ Pinning(s, k) \in Seq(Entry) /\ Len(Pinning(s, k)) = m
        /\ \A i \in 1..m : Pinning(s, k)[i] = WithPin(s[i], k)
    BY PinningType
  <2>2. WithPin(e, k) \in Entry
    BY PinnedOne
  <2>3. \A u \in Seq(Entry), x \in Entry :
            /\ Append(u, x) \in Seq(Entry) /\ Len(Append(u, x)) = Len(u) + 1 /\ Append(u, x)[Len(u) + 1] = x
            /\ \A i \in 1..Len(u) : Append(u, x)[i] = u[i]
    BY AppendPlaces
  <2> HIDE DEF Entry, m
  <2> QED BY <1>1, <2>1, <2>2, <2>3
<1> HIDE DEF a, b, t, m
<1>4. \A i \in 1..(m + 1) : i \in 1..m \/ i = m + 1
  BY <1>1
<1>5. \A i \in 1..(m + 1) : a[i] = b[i]
  BY <1>1, <1>2, <1>3, <1>4
<1>6. a = b
  BY <1>2, <1>3, <1>5, SeqEqual
<1> QED BY <1>6 DEF a, b, t

\* What pinning leaves of the bytes, and what it pins.
PinsOK(s, k) ==
    /\ Bytes(Pinning(s, k)) = Bytes(s)
    /\ Bytes(Among(Pinning(s, k), PinnedEntry)) = Bytes(Among(s, PinnedEntry \cup KeyedEntry(k)))

LEMMA PinningBytes == \A k : \A s \in Seq(Entry) : PinsOK(s, k)
<1> TAKE k
<1> DEFINE X == {s \in Seq(Entry) : PinsOK(s, k)}
<1>1. <<>> \in X
  <2>1. Pinning(<<>>, k) = <<>>
    BY DEF Pinning
  <2> QED BY <2>1, AmongEmpty DEF PinsOK
<1>2. ASSUME NEW s \in Seq(Entry), NEW e \in Entry, s \in X
      PROVE  Append(s, e) \in X
  <2> DEFINE B == PinnedEntry \cup KeyedEntry(k)
             p == Pinning(s, k)
             f == WithPin(e, k)
  <2>1. Pinning(Append(s, e), k) = Append(p, f) /\ p \in Seq(Entry) /\ Append(s, e) \in Seq(Entry)
    BY PinningAppend, PinningType
  <2>2. f \in Entry /\ f.bytes = e.bytes /\ (f \in PinnedEntry <=> e \in B)
    BY PinnedOne
  <2>3. Bytes(p) = Bytes(s) /\ Bytes(Among(p, PinnedEntry)) = Bytes(Among(s, B))
    BY <1>2 DEF PinsOK
  <2> HIDE DEF B, p, f
  <2>4. Longer(s, B, e) /\ Longer(p, PinnedEntry, f)
    BY <2>1, <2>2, AmongAppend
  <2>5. \A t \in Seq(Entry), x \in Entry : Heavier(t, x)
    BY EntriesWeighed, BytesLonger
  <2>6. Among(p, PinnedEntry) \in Seq(Entry) /\ Among(s, B) \in Seq(Entry)
    BY <2>1, AmongType
  <2>7. Bytes(Append(p, f)) = Bytes(Append(s, e))
    BY <2>1, <2>2, <2>3, <2>5, Zenon DEF Heavier
  <2>8. Bytes(Among(Append(p, f), PinnedEntry)) = Bytes(Among(Append(s, e), B))
    <3>1. CASE e \in B
      <4>1. Bytes(Among(Append(p, f), PinnedEntry)) = Bytes(Among(p, PinnedEntry)) + f.bytes
        BY <2>2, <2>4, <2>5, <2>6, <3>1, Zenon DEF Heavier, Longer
      <4>2. Bytes(Among(Append(s, e), B)) = Bytes(Among(s, B)) + e.bytes
        BY <2>4, <2>5, <2>6, <3>1, Zenon DEF Heavier, Longer
      <4> QED BY <2>2, <2>3, <4>1, <4>2, Zenon
    <3>2. CASE e \notin B
      BY <2>2, <2>3, <2>4, <3>2, Zenon DEF Longer
    <3> QED BY <3>1, <3>2
  <2> QED BY <2>1, <2>7, <2>8, Zenon DEF PinsOK, B, p
<1> HIDE DEF X
<1>3. \A s \in Seq(Entry) : s \in X
  BY <1>1, <1>2, SeqInd
<1> QED BY <1>3 DEF X

LEMMA PinStep ==
    ASSUME Sessions, NEW k \in Key, Pin(k), recency' = recency
    PROVE  Sessions' /\ Coldest
<1> DEFINE c == caches
           U == KeyedEntry(k) \cap UnpinnedEntry
           bytes == Bytes(Of(c, k))
<1>1. c \in Seq(Entry) /\ Distinct(c) /\ ToSet(c) \subseteq Entry /\ OperatorsOf(c)
  BY SetOf, Operators DEF Sessions
<1>2. caches' = Pinning(c, k)
  BY DEF Pin, Pinning, WithPin
<1>3. /\ pinnedBytes + bytes <= MaxPinned /\ pinnedBytes' = pinnedBytes + bytes /\ total' = total
      /\ Cached(Unpinned(c), k)
  BY DEF Pin
<1>4. /\ Pinning(c, k) \in Seq(Entry) /\ DOMAIN Pinning(c, k) = DOMAIN c /\ DOMAIN c = 1..Len(c)
      /\ Len(Pinning(c, k)) = Len(c)
      /\ \A i \in DOMAIN c : c[i] \in Entry /\ Pinning(c, k)[i].key = c[i].key
  <2>1. \A i \in DOMAIN c : c[i] \in Entry /\ Pinning(c, k)[i] = WithPin(c[i], k)
    BY <1>1, PinningType
  <2>2. \A e \in Entry : WithPin(e, k).key = e.key
    BY PinnedOne
  <2> HIDE DEF c
  <2> QED BY <1>1, <2>1, <2>2, PinningType
<1>5. ToSet(c) \cap U = ToSet(c) \cap KeyedEntry(k)
  <2>1. ToSet(Unpinned(c)) = ToSet(c) \cap UnpinnedEntry
    BY <1>1, AmongSet DEF OperatorsOf
  <2>2. PICK y \in ToSet(c) : y.key = k /\ y \in UnpinnedEntry
    BY <1>3, <2>1 DEF Cached
  <2>3. \A x \in ToSet(c) : x.key = k => x = y
    BY <1>1, <2>2, SameEntry
  <2> QED BY <2>2, <2>3 DEF KeyedEntry
<1> HIDE DEF c, U
<1>6. Bytes(Among(c, PinnedEntry \cup KeyedEntry(k))) = Bytes(Pinned(c)) + bytes
  <2>1. \A A, B : ToSet(c) \cap A = ToSet(c) \cap B => Among(c, A) = Among(c, B)
    BY <1>1, AmongSame
  <2>2. Among(c, U) = Among(c, KeyedEntry(k))
    BY <1>5, <2>1, Zenon
  <2>3. PinnedEntry \cap U = {}
    BY DEF PinnedEntry, UnpinnedEntry, U
  <2>4. Split(c, PinnedEntry, U)
    BY <1>1, <2>3, EntriesWeighed, BytesSplit
  <2>5. PinnedEntry \cup U = PinnedEntry \cup KeyedEntry(k)
    BY DEF PinnedEntry, UnpinnedEntry, KeyedEntry, U
  <2>6. Pinned(c) = Among(c, PinnedEntry) /\ Of(c, k) = Among(c, KeyedEntry(k))
    BY <1>1 DEF OperatorsOf
  <2> QED BY <2>2, <2>4, <2>5, <2>6, Zenon DEF Split
<1>7. PinsOK(c, k)
  BY <1>1, PinningBytes
<1>8. Pinned(caches') = Among(caches', PinnedEntry)
  BY <1>2, <1>4, Operators DEF OperatorsOf
<1>9. Bytes(caches') = Bytes(c) /\ Bytes(Pinned(caches')) = Bytes(Pinned(c)) + bytes
  BY <1>2, <1>6, <1>7, <1>8, Zenon DEF PinsOK
<1>10. Distinct(caches')
  BY <1>1, <1>2, <1>4 DEF Distinct
<1>11. Keys(caches') = Keys(c)
  BY <1>2, <1>4 DEF Keys
<1>12. Sessions'
  BY <1>2, <1>3, <1>4, <1>9, <1>10, <1>11 DEF Sessions, c
<1>13. ASSUME NEW i \in DOMAIN recency PROVE ~Evicted(recency[i])
  <2>1. i \in DOMAIN c /\ recency[i] = c[i].key
    BY Places DEF c
  <2>2. caches'[i].key = c[i].key /\ i \in DOMAIN caches'
    BY <1>2, <1>4, <2>1
  <2> QED BY <2>1, <2>2 DEF Evicted, Cached, ToSet
<1> QED BY <1>12, <1>13 DEF Coldest

-----------------------------------------------------------------------------
(* The invariant of the gates                                               *)

Modes == {"none", "dense_fallback", "dense_requested", "dense_short_context", "sparse_compacted"}
Steps == [at : {"enforce", "store", "attend", "update"}, key : Key, share : 1..Full,
          quantised : BOOLEAN, mode : Modes]
Profiles == [ratio : Ratios, clean : 0..(Stabilization - 1), sparseOff : BOOLEAN, quantOff : BOOLEAN]

\* What the gates look at has the types the code gives it.
Types ==
    /\ active \in Memory /\ pressure \in BOOLEAN /\ emergency \in BOOLEAN
    /\ profiles \in [Profile -> Profiles]
    /\ config \in Configs
    /\ Running => step \in Steps

\* Nothing forbids sparse attention for a key.
Allowed(k) ==
    /\ config.sparse
    /\ config.guarded => ~Disabled
    /\ config.adaptive => ~profiles[ProfileOf[k]].sparseOff

\* A step that asks attention for less than everything is allowed to, up to
\* the answer; and only an answer is sparse.
GateKept ==
    Running =>
        /\ step.at # "update" => step.mode = "none"
        /\ step.at # "update" /\ step.share < Full => Allowed(step.key)
        /\ step.mode = "sparse_compacted" => Allowed(step.key)

IInv == Types /\ GateKept

-----------------------------------------------------------------------------
(* The operators                                                            *)

LEMMA RatioTypes ==
    ASSUME NEW r \in Ratios
    PROVE  Raised(r) \in Ratios /\ Lowered(r) \in Ratios
  BY SparsityAssumption DEF Raised, Lowered, Ratios

\* Whatever an audit says, an update keeps the types of a profile.
LEMMA UpdatedType ==
    ASSUME NEW s \in Profiles, NEW success \in BOOLEAN, NEW fellBack \in BOOLEAN,
           NEW sparse \in Quality, NEW quant \in Quality
    PROVE  Updated(s, success, fellBack, sparse, quant) \in Profiles
<1>1. s.ratio \in Ratios /\ s.clean \in 0..(Stabilization - 1) BY DEF Profiles
<1>2. Raised(s.ratio) \in Ratios /\ Lowered(s.ratio) \in Ratios BY <1>1, RatioTypes
<1>3. 0 \in 0..(Stabilization - 1) BY SparsityAssumption
<1>4. s.clean + 1 >= Stabilization \/ s.clean + 1 \in 0..(Stabilization - 1)
    BY <1>1, SparsityAssumption
<1>5. FellBack(s) \in Profiles BY <1>2, <1>3 DEF FellBack, Profiles
<1>6. SparseDegraded(s, sparse) \in Profiles BY <1>2, <1>3 DEF SparseDegraded, Profiles
<1>7. QuantDegraded(s, quant) \in Profiles BY <1>3 DEF QuantDegraded, Profiles
<1>8. Clean(s) \in Profiles BY <1>2, <1>3, <1>4 DEF Clean, Profiles
<1> QED BY <1>5, <1>6, <1>7, <1>8, Zenon DEF Updated

\* A step without sparse attention turns it off.
LEMMA FallbackTurnsOff ==
    ASSUME NEW s \in Profiles, NEW fellBack \in BOOLEAN, NEW sparse, NEW quant
    PROVE  Updated(s, FALSE, fellBack, sparse, quant).sparseOff = TRUE
<1>1. Updated(s, FALSE, fellBack, sparse, quant) = FellBack(s) BY DEF Updated
<1>2. FellBack(s).sparseOff = TRUE BY DEF FellBack, Profiles
<1> QED BY <1>1, <1>2

\* Attention is sparse only for a step that asked for less than everything,
\* and only when the guard had nothing against it.
LEMMA SparseMode ==
    ASSUME NEW k, NEW share \in Nat, Mode(k, share) = "sparse_compacted"
    PROVE  share < Full /\ ~Refused
  BY SparsityAssumption DEF Mode

LEMMA ModeType ==
    ASSUME NEW k \in Key, NEW share \in Nat
    PROVE  Mode(k, share) \in Modes
<1>1. Full \in Nat \ {0} /\ Blocks[k] \in Nat BY SparsityAssumption, RuntimeAssumption
<1>2. share >= Full \/ share < Full BY <1>1
<1>3. KeptBlocks(k, share) \in Nat
  <2>1. (Blocks[k] * share + Full - 1) \div Full \in Nat BY <1>1
  <2> QED BY <2>1 DEF KeptBlocks
<1>4. CASE KeptBlocks(k, share) >= Blocks[k] BY <1>2, <1>4, Zenon DEF Mode, Modes
<1>5. CASE KeptBlocks(k, share) < Blocks[k] BY <1>2, <1>5, Zenon DEF Mode, Modes
<1> QED BY <1>1, <1>3, <1>4, <1>5

-----------------------------------------------------------------------------
(* The invariant                                                            *)

LEMMA InvInit == Init => IInv
<1> SUFFICES ASSUME Init PROVE IInv OBVIOUS
<1>1. ~Running BY DEF Init, Running
<1>2. Types
  <2>1. active \in Memory BY DEF Init, GuardInit
  <2>2. profiles \in [Profile -> Profiles]
      BY SparsityAssumption DEF Init, SparsityInit, Profiles, Ratios
  <2> QED BY <1>1, <2>1, <2>2 DEF Types, Init, GuardInit
<1> QED BY <1>1, <1>2 DEF IInv, GateKept

\* What the gates let a step ask for.
LEMMA GateSound ==
    ASSUME Types, NEW k \in Key, NEW share \in Shares(k, SparseGate(k))
    PROVE  share \in 1..Full /\ (share < Full => Allowed(k))
<1>1. Full \in Nat /\ Full \in 1..Full /\ InitialRatio \in 1..Full BY SparsityAssumption
<1>2. profiles[ProfileOf[k]].ratio \in 1..Full
  <2>1. profiles[ProfileOf[k]] \in Profiles BY RuntimeAssumption DEF Types
  <2> QED BY <2>1 DEF Profiles, Ratios
<1>3. Overrides \subseteq 1..Full BY RuntimeAssumption
<1>4. SparseGate(k) \in BOOLEAN /\ config.adaptive \in BOOLEAN
    BY RuntimeAssumption DEF SparseGate, Types
<1>5. CASE SparseGate(k)
  <2>1. \/ Shares(k, SparseGate(k)) = Overrides \cup {profiles[ProfileOf[k]].ratio}
        \/ Shares(k, SparseGate(k)) = Overrides \cup {InitialRatio}
      BY <1>4, <1>5, Zenon DEF Shares
  <2>2. share \in 1..Full BY <1>1, <1>2, <1>3, <2>1
  <2> QED BY <1>5, <2>2 DEF SparseGate, Allowed
<1>6. CASE ~SparseGate(k)
  <2>1. share = Full BY <1>6 DEF Shares
  <2> QED BY <2>1, <1>1
<1> QED BY <1>5, <1>6

\* A step that begins while nothing moves but the caches is a sound one.
LEMMA BeginSound ==
    ASSUME Types, NEW k \in Key, NEW at \in {"enforce", "store", "attend"}, NEW quantised \in BOOLEAN,
           Begins(k, at, quantised),
           UNCHANGED <<guardVars, profiles, config>>
    PROVE  IInv'
<1>1. PICK share \in Shares(k, SparseGate(k)) :
        step' = [at |-> at, key |-> k, share |-> share, quantised |-> quantised, mode |-> "none"]
    BY DEF Begins
<1>2. share \in 1..Full /\ (share < Full => Allowed(k)) BY GateSound
<1>3. step' \in Steps BY <1>1, <1>2 DEF Steps, Modes
<1>4. Types' BY <1>3 DEF Types, guardVars
<1>5. /\ step'.at = at
      /\ step'.key = k
      /\ step'.share = share
      /\ step'.mode = "none"
    BY <1>1
<1>6. step'.share < Full => Allowed(step.key)'
  <2>1. step'.share < Full => Allowed(k) BY <1>2, <1>5
  <2>2. Allowed(step.key)' <=> Allowed(k) BY <1>5 DEF Allowed, Disabled, guardVars
  <2> QED BY <2>1, <2>2
<1>7. GateKept' BY <1>5, <1>6 DEF GateKept
<1> QED BY <1>4, <1>7 DEF IInv

LEMMA BeginInv ==
    ASSUME IInv, Begin
    PROVE  IInv'
<1>0. Types BY DEF IInv
<1>1. ASSUME NEW k \in Key, BeginHit(k) PROVE IInv'
  <2>1. Begins(k, "attend", TRUE) BY <1>1 DEF BeginHit
  <2>2. UNCHANGED <<guardVars, profiles, config>> BY <1>1 DEF BeginHit
  <2> QED BY <1>0, <2>1, <2>2, BeginSound
<1>2. ASSUME NEW k \in Key, BeginMiss(k) PROVE IInv'
  <2> DEFINE at == IF config.guarded THEN "enforce" ELSE "store"
  <2>1. Begins(k, at, FALSE) BY <1>2 DEF BeginMiss
  <2>2. UNCHANGED <<guardVars, profiles, config>> BY <1>2 DEF BeginMiss
  <2>3. at \in {"enforce", "store", "attend"} OBVIOUS
  <2> HIDE DEF at
  <2> QED BY <1>0, <2>1, <2>2, <2>3, BeginSound
<1>3. ASSUME NEW k \in Key, BeginUnquantised(k) PROVE IInv'
  <2>1. Begins(k, "attend", FALSE) BY <1>3 DEF BeginUnquantised
  <2>2. UNCHANGED <<guardVars, profiles, config>> BY <1>3 DEF BeginUnquantised
  <2> QED BY <1>0, <2>1, <2>2, BeginSound
<1> QED BY <1>1, <1>2, <1>3 DEF Begin

\* The second look at the gates is what keeps the invariant: the guard may have
\* entered emergency mode.
LEMMA EnforceInv ==
    ASSUME IInv, Enforce
    PROVE  IInv'
<1>1. Running /\ step \in Steps /\ step.at = "enforce" BY DEF IInv, Types, Enforce
<1>2. step.mode = "none" /\ (step.share < Full => Allowed(step.key))
    BY <1>1 DEF IInv, GateKept
<1>3. Full \in Nat /\ Full \in 1..Full BY SparsityAssumption
<1>4. active' = active /\ pressure' \in BOOLEAN /\ emergency' \in BOOLEAN
    BY DEF Enforce, EnforceSafety, IInv, Types
<1>5. UNCHANGED <<profiles, config>> BY DEF Enforce
<1>6. CASE Disabled'
  <2>1. step' = [step EXCEPT !.at = "attend", !.share = Full] BY <1>6 DEF Enforce
  <2>2. step' \in Steps BY <1>1, <1>3, <2>1 DEF Steps
  <2>3. step'.share = Full /\ step'.mode = "none" BY <1>1, <1>2, <2>1 DEF Steps
  <2>4. Types' BY <1>4, <1>5, <2>2 DEF IInv, Types
  <2>5. GateKept' BY <1>3, <2>3 DEF GateKept
  <2> QED BY <2>4, <2>5 DEF IInv
<1>7. CASE ~Disabled'
  <2>1. step' = [step EXCEPT !.at = "store"] BY <1>7 DEF Enforce
  <2>2. step' \in Steps BY <1>1, <2>1 DEF Steps
  <2>3. step'.share = step.share /\ step'.key = step.key /\ step'.mode = "none"
      BY <1>1, <1>2, <2>1 DEF Steps
  <2>4. Types' BY <1>4, <1>5, <2>2 DEF IInv, Types
  <2>5. step'.share < Full => Allowed(step.key)'
      BY <1>2, <1>5, <1>7, <2>3 DEF Allowed
  <2>6. GateKept' BY <2>3, <2>5 DEF GateKept
  <2> QED BY <2>4, <2>6 DEF IInv
<1> QED BY <1>6, <1>7

LEMMA StoreInv ==
    ASSUME IInv, StoreEntry \/ StoreRaises
    PROVE  IInv'
<1>1. UNCHANGED <<guardVars, profiles, config>> BY DEF StoreEntry, StoreRaises
<1>2. CASE StoreRaises
  <2>1. ~Running' BY <1>2 DEF StoreRaises, Running
  <2> QED BY <1>1, <2>1 DEF IInv, Types, GateKept, guardVars
<1>3. CASE StoreEntry
  <2>1. Running /\ step \in Steps /\ step.at = "store" BY <1>3 DEF IInv, Types, StoreEntry
  <2> DEFINE read == config.readBack /\ Cached(caches', step.key)
  <2>2. step' = [step EXCEPT !.at = "attend", !.quantised = read] BY <1>3 DEF StoreEntry
  <2>3. read \in BOOLEAN BY RuntimeAssumption DEF IInv, Types, Cached
  <2> HIDE DEF read
  <2>4. step' \in Steps BY <2>1, <2>2, <2>3 DEF Steps
  <2>5. step'.at = "attend" /\ step'.share = step.share /\ step'.key = step.key
        /\ step'.mode = step.mode
      BY <2>1, <2>2 DEF Steps
  <2>6. Types' BY <1>1, <2>4 DEF IInv, Types, guardVars
  <2>7. step.mode = "none" /\ (step.share < Full => Allowed(step.key))
      BY <2>1 DEF IInv, GateKept
  <2>8. step'.share < Full => Allowed(step.key)'
      BY <1>1, <2>5, <2>7 DEF Allowed, Disabled, guardVars
  <2>9. GateKept' BY <2>5, <2>7, <2>8 DEF GateKept
  <2> QED BY <2>6, <2>9 DEF IInv
<1> QED BY <1>2, <1>3

\* The guard was asked when attention is sparse, and its answer cleared the flag.
LEMMA AttendInv ==
    ASSUME IInv, Attend
    PROVE  IInv'
<1>1. Running /\ step \in Steps /\ step.at = "attend" BY DEF IInv, Types, Attend
<1>2. step.share \in Nat /\ step.key \in Key BY <1>1 DEF Steps
<1>3. step.share < Full => Allowed(step.key) BY <1>1 DEF IInv, GateKept
<1>4. active' = active /\ pressure' \in BOOLEAN /\ emergency' = emergency
    BY DEF Attend, CheckPressure, guardVars, IInv, Types
<1>5. UNCHANGED <<profiles, config>> BY DEF Attend
<1> DEFINE mode == Mode(step.key, step.share)
<1>6. step' = [step EXCEPT !.at = "update", !.mode = mode] BY DEF Attend
<1>7. mode \in Modes BY <1>2, ModeType
<1>8. mode = "sparse_compacted" => step.share < Full /\ ~Refused BY <1>2, SparseMode
<1> HIDE DEF mode
<1>9. step' \in Steps BY <1>1, <1>6, <1>7 DEF Steps
<1>10. step'.at = "update" /\ step'.key = step.key /\ step'.mode = mode BY <1>1, <1>6 DEF Steps
<1>11. Types' BY <1>4, <1>5, <1>9 DEF IInv, Types
<1>12. ASSUME mode = "sparse_compacted", config.guarded PROVE pressure' = FALSE
  <2>1. ~Mixed /\ ~(active + Footprint[step.key] > SoftLimit) BY <1>8, <1>12 DEF Refused
  <2>2. pressure' = (\/ active + Footprint[step.key] > HardLimit
                     \/ active + Footprint[step.key] > SoftLimit)
      BY <1>12, <2>1 DEF Attend, CheckPressure
  <2>3. active \in Nat /\ Footprint[step.key] \in Nat /\ SoftLimit \in Nat /\ HardLimit \in Nat
        /\ SoftLimit <= HardLimit
      BY <1>2, GuardAssumption, RuntimeAssumption DEF IInv, Types
  <2> QED BY <2>1, <2>2, <2>3
<1>13. mode = "sparse_compacted" => Allowed(step.key)'
  <2>1. SUFFICES ASSUME mode = "sparse_compacted" PROVE Allowed(step.key)' OBVIOUS
  <2>2. Allowed(step.key) BY <2>1, <1>3, <1>8
  <2>3. config.guarded => ~Disabled' BY <2>1, <2>2, <1>4, <1>12 DEF Allowed, Disabled
  <2> QED BY <2>2, <2>3, <1>5, <1>10 DEF Allowed
<1>14. GateKept' BY <1>10, <1>13 DEF GateKept
<1> QED BY <1>11, <1>14 DEF IInv

LEMMA FinishInv ==
    ASSUME IInv, Finish
    PROVE  IInv'
<1>1. ~Running' BY DEF Finish, Running
<1>2. profiles' \in [Profile -> Profiles]
  <2>1. CASE UNCHANGED profiles BY <2>1 DEF IInv, Types
  <2>2. CASE config.adaptive /\ config.audit
    <3>1. PICK sparse \in Quality, quant \in IF step.quantised THEN Quality ELSE {"good"} :
            Update(ProfileOf[step.key], SparseSuccess, FallbackUsed, sparse, quant)
        BY <2>2 DEF Finish
    <3>2. quant \in Quality BY DEF Quality
    <3>3. step.key \in Key BY DEF IInv, Types, Finish, Steps
    <3>4. ProfileOf[step.key] \in Profile BY <3>3, RuntimeAssumption
    <3> DEFINE p == ProfileOf[step.key]
               new == Updated(profiles[p], SparseSuccess, FallbackUsed, sparse, quant)
    <3>5. profiles[p] \in Profiles BY <3>4 DEF IInv, Types
    <3>6. SparseSuccess \in BOOLEAN /\ FallbackUsed \in BOOLEAN
        BY DEF SparseSuccess, FallbackUsed
    <3>7. new \in Profiles BY <3>2, <3>5, <3>6, UpdatedType
    <3>8. profiles' = [profiles EXCEPT ![p] = new] BY <3>1 DEF Update
    <3> HIDE DEF p, new
    <3> QED BY <3>7, <3>8 DEF IInv, Types
  <2> QED BY <2>1, <2>2 DEF Finish
<1>3. UNCHANGED <<guardVars, config>> BY DEF Finish
<1> QED BY <1>1, <1>2, <1>3 DEF IInv, Types, GateKept, guardVars

\* The owner acts between steps, and the rest of the program moves the memory in
\* use only.
LEMMA OtherInv ==
    ASSUME IInv, Owner \/ Environment \/ UNCHANGED vars
    PROVE  IInv'
<1>1. CASE Owner
  <2>1. ~Running /\ step' = step /\ UNCHANGED <<profiles, config>>
      BY <1>1 DEF Owner, OwnerStores, OwnerPins, OwnerEvicts, OwnerExitsEmergency
  <2>2. ~Running' BY <2>1 DEF Running
  <2>3. active' = active /\ pressure' \in BOOLEAN /\ emergency' \in BOOLEAN
      BY <1>1 DEF Owner, OwnerStores, OwnerPins, OwnerEvicts, OwnerExitsEmergency,
                  ExitEmergency, guardVars, IInv, Types
  <2> QED BY <2>1, <2>2, <2>3 DEF IInv, Types, GateKept
<1>2. CASE Environment
  <2>1. active' \in Memory /\ UNCHANGED <<pressure, emergency, profiles, config, step>>
      BY <1>2, GuardAssumption DEF Environment, MemoryMoves
  <2> QED BY <2>1 DEF IInv, Types, GateKept, Running, Allowed, Disabled
<1>3. CASE UNCHANGED vars
    BY <1>3 DEF IInv, Types, GateKept, Running, Allowed, Disabled, vars, guardVars
<1> QED BY <1>1, <1>2, <1>3

LEMMA InvNext == IInv /\ [Next]_vars => IInv'
<1> SUFFICES ASSUME IInv, [Next]_vars PROVE IInv' OBVIOUS
<1>1. CASE Begin BY <1>1, BeginInv
<1>2. CASE Continue BY <1>2, EnforceInv, StoreInv, AttendInv, FinishInv DEF Continue
<1>3. CASE Owner \/ Environment \/ UNCHANGED vars BY <1>3, OtherInv
<1> QED BY <1>1, <1>2, <1>3 DEF Next

\* The inductive invariant of the decode step.
THEOREM DecodeInvariant == Spec => []IInv
<1> QED BY InvInit, InvNext, PTL DEF Spec

-----------------------------------------------------------------------------
(* The invariant of the sessions                                            *)

LEMMA SessionsInit == Init => Sessions
<1> SUFFICES ASSUME Init PROVE Sessions OBVIOUS
<1>1. caches = <<>> /\ total = 0 /\ pinnedBytes = 0 /\ recency = <<>> BY DEF Init, SessionInit
<1>2. <<>> \in Seq(Entry) /\ Distinct(<<>>) BY DEF Distinct
<1>3. Pinned(<<>>) = <<>>
  <2>1. Pinned(<<>>) = Among(<<>>, PinnedEntry) BY <1>2, Operators DEF OperatorsOf
  <2> QED BY <2>1, AmongEmpty
<1>4. Keys(<<>>) = <<>> BY DEF Keys
<1> QED BY <1>1, <1>2, <1>3, <1>4, BytesEmpty, BudgetAssumption DEF Sessions

\* When the caches stay as they are, so does the history, and nothing is evicted.
LEMMA SessionsStay ==
    ASSUME Sessions, UNCHANGED sessionVars, UsesNothing \/ recency' = recency
    PROVE  Sessions' /\ Coldest
<1>1. caches' = caches /\ total' = total /\ pinnedBytes' = pinnedBytes BY DEF sessionVars
<1>2. caches \in Seq(Entry) /\ Distinct(caches) /\ recency = Keys(caches) BY DEF Sessions
<1>3. Among(recency, {j \in Key : Cached(caches, j)}) = recency
  <2>1. KeptKeys(caches, Among(caches, ToSet(caches))) BY <1>2, TakenKeys
  <2>2. Among(caches, ToSet(caches)) = caches BY <1>2, AmongAll
  <2>3. KeptKeys(caches, caches) BY <2>1, <2>2
  <2> QED BY <1>2, <2>3 DEF KeptKeys
<1>4. recency' = recency BY <1>1, <1>3 DEF UsesNothing
<1>5. Sessions' BY <1>1, <1>4 DEF Sessions
<1>6. Coldest BY <1>1 DEF Coldest, Evicted
<1> QED BY <1>5, <1>6

LEMMA SessionsNext ==
    ASSUME IInv, Sessions, [Next]_vars
    PROVE  Sessions' /\ Coldest
<1>1. ASSUME NEW k \in Key, BeginHit(k) PROVE Sessions' /\ Coldest
  <2>1. Cached(caches, k) /\ Retrieve(k) /\ Uses(k) BY <1>1 DEF BeginHit
  <2> QED BY <2>1, RetrieveStep
<1>2. CASE StoreEntry
  <2>1. step.key \in Key BY <1>2 DEF IInv, Types, Steps, StoreEntry
  <2>2. PICK bytes \in Sizes : Store(step.key, bytes) BY <1>2 DEF StoreEntry
  <2>3. Uses(step.key) BY <1>2 DEF StoreEntry
  <2> QED BY <2>1, <2>2, <2>3, StoreStep
<1>3. CASE OwnerStores
  <2>1. PICK k \in Key, bytes \in Sizes : Store(k, bytes) /\ Uses(k) BY <1>3 DEF OwnerStores
  <2> QED BY <2>1, StoreStep
<1>4. CASE OwnerPins
  <2>1. PICK k \in Key : Pin(k) BY <1>4 DEF OwnerPins
  <2>2. recency' = recency BY <1>4 DEF OwnerPins
  <2> QED BY <2>1, <2>2, PinStep
<1>5. CASE OwnerEvicts
  <2>1. PICK target \in Sizes \cup {0} : Evict(target) BY <1>5 DEF OwnerEvicts
  <2>2. UsesNothing BY <1>5 DEF OwnerEvicts
  <2> QED BY <2>1, <2>2, EvictStep
<1>6. CASE Enforce
  <2>1. UsesNothing BY <1>6 DEF Enforce
  <2>2. Evict(Target(Estimate[step.key])) \/ UNCHANGED sessionVars BY <1>6 DEF Enforce
  <2> QED BY <2>1, <2>2, EvictStep, SessionsStay
<1>7. CASE UNCHANGED sessionVars /\ recency' = recency BY <1>7, SessionsStay
<1>8. ASSUME NEW k \in Key, BeginMiss(k) \/ BeginUnquantised(k)
      PROVE  UNCHANGED sessionVars /\ recency' = recency
    BY <1>8 DEF BeginMiss, BeginUnquantised
<1>9. StoreRaises \/ Attend \/ Finish \/ OwnerExitsEmergency \/ Environment \/ UNCHANGED vars
        => UNCHANGED sessionVars /\ recency' = recency
    BY DEF StoreRaises, Attend, Finish, OwnerExitsEmergency, Environment, vars
<1> QED BY <1>1, <1>2, <1>3, <1>4, <1>5, <1>6, <1>7, <1>8, <1>9
        DEF Next, Begin, Continue, Owner

\* The inductive invariant of the sessions: totals, budgets, one entry a key, and
\* a history in the order of the entries.
THEOREM DecodeSessions == Spec => []Sessions
<1>1. Sessions /\ IInv /\ [Next]_vars => Sessions' BY SessionsNext
<1> QED BY <1>1, SessionsInit, DecodeInvariant, PTL DEF Spec

-----------------------------------------------------------------------------
(* The properties                                                           *)

\* Sparse attention never runs in emergency mode, under pressure or against the
\* controller, for any limits and however the memory in use moves.
THEOREM DecodeSparseAllowed == Spec => []SparseOnlyWhenAllowed
<1>1. IInv => SparseOnlyWhenAllowed BY DEF IInv, GateKept, SparseOnlyWhenAllowed, Allowed
<1> QED BY <1>1, DecodeInvariant, PTL

\* One step never turns sparse attention on again for a profile.
LEMMA StaysOffStep ==
    ASSUME IInv, [Next]_vars, NEW p \in Profile, profiles[p].sparseOff
    PROVE  profiles'[p].sparseOff
<1>1. CASE UNCHANGED profiles BY <1>1
<1>2. CASE Finish /\ config.adaptive /\ config.audit
  <2>1. PICK sparse \in Quality, quant \in IF step.quantised THEN Quality ELSE {"good"} :
          Update(ProfileOf[step.key], SparseSuccess, FallbackUsed, sparse, quant)
      BY <1>2 DEF Finish
  <2>2. Running /\ step.key \in Key BY <1>2 DEF IInv, Types, Finish, Steps
  <2> DEFINE q == ProfileOf[step.key]
             new == Updated(profiles[q], SparseSuccess, FallbackUsed, sparse, quant)
  <2>3. profiles' = [profiles EXCEPT ![q] = new] BY <2>1 DEF Update
  <2>4. CASE p # q
    <3> HIDE DEF q, new
    <3> QED BY <2>3, <2>4 DEF IInv, Types
  <2>5. CASE p = q
    <3>1. ~SparseSuccess
        BY <1>2, <2>2, <2>5 DEF IInv, GateKept, Allowed, SparseSuccess
    <3>2. SparseSuccess = FALSE BY <3>1 DEF SparseSuccess
    <3>3. profiles[q] \in Profiles BY <2>5 DEF IInv, Types
    <3>4. FallbackUsed \in BOOLEAN BY DEF FallbackUsed
    <3>5. new.sparseOff = TRUE BY <3>2, <3>3, <3>4, FallbackTurnsOff
    <3>6. profiles'[p] = new
      <4> HIDE DEF q, new
      <4> QED BY <2>3, <2>5 DEF IInv, Types
    <3> QED BY <3>5, <3>6
  <2> QED BY <2>4, <2>5
<1>3. UNCHANGED profiles \/ (Finish /\ config.adaptive /\ config.audit)
    BY DEF Next, Begin, BeginHit, BeginMiss, BeginUnquantised, Continue, Enforce, StoreEntry,
           StoreRaises, Attend, Finish, Owner, OwnerStores, OwnerPins, OwnerEvicts,
           OwnerExitsEmergency, Environment, vars
<1> QED BY <1>1, <1>2, <1>3

\* A profile that lost sparse attention never gets it back.
THEOREM DecodeStaysOff == Spec => SparseStaysOff
<1>1. IInv /\ [Next]_vars =>
        [\A p \in Profile : profiles[p].sparseOff => profiles'[p].sparseOff]_vars
    BY StaysOffStep
<1> QED BY <1>1, DecodeInvariant, PTL DEF SparseStaysOff, Spec

\* The variables keep their types: each key has one entry, a ratio stays in its
\* range and a share is never nothing.
THEOREM DecodeTypes == Spec => []TypeOK
<1>1. ASSUME Sessions, IInv PROVE TypeOK
  <2>1. \A e \in ToSet(caches) : e.key \in Key /\ e.bytes \in Sizes /\ e.pinned \in BOOLEAN
    <3>1. ToSet(caches) \subseteq Entry BY <1>1, SetOf DEF Sessions
    <3> QED BY <3>1 DEF Entry
  <2>2. \A i, j \in DOMAIN caches : i # j => caches[i].key # caches[j].key
      BY <1>1 DEF Sessions, Distinct
  <2>3. \A p \in Profile : profiles[p].ratio \in Ratios /\ profiles[p].clean \in 0..(Stabilization - 1)
      BY <1>1 DEF IInv, Types, Profiles
  <2>4. Running => /\ step.at \in {"enforce", "store", "attend", "update"}
                   /\ step.key \in Key
                   /\ step.share \in 1..Full
      BY <1>1 DEF IInv, Types, Steps
  <2> QED BY <1>1, <2>1, <2>2, <2>3, <2>4 DEF TypeOK, IInv, Types
<1> QED BY <1>1, DecodeSessions, DecodeInvariant, PTL

\* The running totals are those of the entries and both budgets hold, whatever is
\* replaced, pinned or evicted, and by whom.
THEOREM DecodeBytesExact == Spec => []BytesExact
<1>1. Sessions => BytesExact BY DEF Sessions, BytesExact
<1> QED BY <1>1, DecodeSessions, PTL

\* An entry that leaves was used before each unpinned entry that stays, and a
\* pinned one leaves only with its pin.
THEOREM DecodeColdestGo == Spec => ColdestGo
<1>1. IInv /\ Sessions /\ [Next]_vars =>
        [\A i \in DOMAIN recency :
            Evicted(recency[i]) =>
                /\ IsPinned(recency[i]) => pinnedBytes' < pinnedBytes
                /\ \A j \in 1..(i - 1) :
                    \/ IsPinned(recency[j])
                    \/ Evicted(recency[j])
                    \/ recency[j] = Last(recency')]_vars
    BY SessionsNext DEF Coldest
<1> QED BY <1>1, DecodeInvariant, DecodeSessions, PTL DEF ColdestGo, Spec
=============================================================================
