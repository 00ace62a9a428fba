--------------------------- MODULE AsyncWriterProofs ---------------------------
(***************************************************************************)
(* TLAPS proofs about AsyncWriter and ClickHouseClient, for every load,    *)
(* batch size and queue bound: the types, the statistics, that no event    *)
(* vanishes, and that the writer implements LossyChannel.                  *)
(*                                                                         *)
(* The events between write() and the client are one line: what the worker *)
(* has, the queue, the flush, the batch, and the event that waits for the  *)
(* flush.  A step leaves the line as it is, appends an event, takes out a  *)
(* run of events and adds them to the dropped ones, hands the front to the *)
(* client, or forgets all of it with the process (Effect).  The invariant  *)
(* says that what was handed over, followed by the line, is in the order   *)
(* of the calls and has no dropped event (Order), that a count in progress *)
(* is of events dropped already (Counts), and that a drain has the client's *)
(* whole queue in its hands (Drained).                                     *)
(***************************************************************************)
EXTENDS AsyncWriter, PoolLemmas

-----------------------------------------------------------------------------
(* A queue of batches as one sequence of events                            *)

\* What is taken from the front was at the front.
LEMMA FlattenTail ==
    ASSUME NEW S, NEW s \in Seq(Seq(S)), s # <<>>
    PROVE  FlattenSeq(s) = Head(s) \o FlattenSeq(Tail(s))
<1> DEFINE t == Tail(s)
           n == Len(t)
<1>1. /\ t \in Seq(Seq(S)) /\ n \in Nat /\ Len(s) = n + 1 /\ Head(s) = s[1]
      /\ Head(s) \in Seq(S) /\ \A i \in 1..n : t[i] = s[i + 1]
  BY HeadTailProperties
<1> HIDE DEF t
<1>2. PICK F \in [1..(n + 1) -> Seq(S)] : Joins(F, s, n + 1) /\ FlattenSeq(s) = F[n + 1]
  BY <1>1, FlattenIs
<1>3. CASE t = <<>>
  <2>1. n = 0 /\ FlattenSeq(t) = <<>>
    BY <1>3, FlattenEmpty
  <2>2. F[1] = s[1]
    BY <1>2, <2>1 DEF Joins
  <2>3. Head(s) \o <<>> = Head(s)
    BY <1>1
  <2>4. FlattenSeq(s) = Head(s)
    BY <1>1, <1>2, <2>1, <2>2
  <2> QED BY <2>1, <2>3, <2>4 DEF t
<1>4. CASE t # <<>>
  <2>1. PICK G \in [1..n -> Seq(S)] : Joins(G, t, n) /\ FlattenSeq(t) = G[n]
    BY <1>1, <1>4, FlattenIs
  <2>2. n \in 1..n
    BY <1>1, <1>4, EmptySeq
  <2> DEFINE T == {k \in 1..n : F[k + 1] # Head(s) \o G[k]}
  <2>3. T = {}
    <3>1. SUFFICES ASSUME T # {}
                  PROVE  FALSE
      OBVIOUS
    <3>2. T \in SUBSET Nat
      BY <1>1
    <3>3. PICK m \in T : \A k \in T : m <= k
      BY <3>1, <3>2, Least
    <3>4. m \in 1..n /\ m \in Nat /\ F[m + 1] # Head(s) \o G[m]
      BY <1>1, SMTT(25)
    <3>5. F[m + 1] = F[m] \o t[m]
      <4>1. m + 1 \in 1..(n + 1) /\ m + 1 # 1 /\ m + 1 - 1 = m
        BY <1>1, <3>4
      <4>2. F[m + 1] = F[m] \o s[m + 1]
        <5>1. Joins(F, s, n + 1)
          BY <1>2
        <5>2. n + 1 \in Nat /\ m \in Nat /\ m # 0
          BY <1>1, <3>4
        <5> QED BY <4>1, <5>1, <5>2, NextJoin, ZenonT(30)
      <4>3. t[m] = s[m + 1]
        BY <1>1, <3>4
      <4> QED BY <4>2, <4>3
    <3>6. G[m] = IF m = 1 THEN t[m] ELSE G[m - 1] \o t[m]
      BY <2>1, <3>4 DEF Joins
    <3>7. t[m] \in Seq(S)
      BY <1>1, <3>4, ElementOfSeq
    <3>8. CASE m = 1
      <4>1. F[1] = s[1]
        BY <1>1, <1>2 DEF Joins
      <4> QED BY <1>1, <3>4, <3>5, <3>6, <3>8, <4>1
    <3>9. CASE m # 1
      <4>1. m - 1 \in 1..n /\ ~ m <= m - 1 /\ m - 1 + 1 = m
        BY <1>1, <3>4, <3>9
      <4>2. F[m] = Head(s) \o G[m - 1]
        BY <3>3, <4>1
      <4>3. G[m - 1] \in Seq(S)
        BY <2>1, <4>1
      <4>4. (Head(s) \o G[m - 1]) \o t[m] = Head(s) \o (G[m - 1] \o t[m])
        <5>1. Head(s) \in Seq(S)
          BY <1>1
        <5>2. Assoc(Head(s), G[m - 1], t[m])
          BY <3>7, <4>3, <5>1, Associative, Zenon
        <5> QED BY <5>2, Zenon DEF Assoc
      <4> QED BY <3>4, <3>5, <3>6, <3>9, <4>2, <4>4
    <3> QED BY <3>8, <3>9
  <2>4. F[n + 1] = Head(s) \o G[n]
    BY <2>2, <2>3
  <2> QED BY <1>2, <2>1, <2>4 DEF t
<1> QED BY <1>3, <1>4

\* The elements are those of the parts.
LEMMA ConcatSet ==
    ASSUME NEW S, NEW s \in Seq(S), NEW t \in Seq(S)
    PROVE  ToSet(s \o t) = ToSet(s) \cup ToSet(t)
<1>1. \A q \in Seq(S) : ToSet(q) = {q[i] : i \in 1..Len(q)}
  BY DEF ToSet
<1>2. s \o t \in Seq(S) /\ Len(s) \in Nat /\ Len(t) \in Nat /\ Len(s \o t) = Len(s) + Len(t)
  BY ConcatProperties
<1>3. \A i \in 1..(Len(s) + Len(t)) : (s \o t)[i] = IF i <= Len(s) THEN s[i] ELSE t[i - Len(s)]
  OBVIOUS
<1>4. ASSUME NEW x \in ToSet(s \o t)
      PROVE  x \in ToSet(s) \cup ToSet(t)
  <2>1. PICK i \in 1..(Len(s) + Len(t)) : x = (s \o t)[i]
    BY <1>1, <1>2, ZenonT(30)
  <2>2. CASE i <= Len(s)
    BY <1>1, <1>2, <1>3, <2>1, <2>2
  <2>3. CASE ~ i <= Len(s)
    <3>1. i - Len(s) \in 1..Len(t) /\ x = t[i - Len(s)]
      BY <1>2, <1>3, <2>1, <2>3
    <3> QED BY <1>1, <3>1
  <2> QED BY <2>2, <2>3
<1>5. ASSUME NEW x \in ToSet(s)
      PROVE  x \in ToSet(s \o t)
  <2>1. PICK i \in 1..Len(s) : x = s[i]
    BY <1>1
  <2>2. i \in 1..(Len(s) + Len(t)) /\ i <= Len(s) /\ (s \o t)[i] = x
    BY <1>2, <1>3, <2>1
  <2> QED BY <1>1, <1>2, <2>2
<1>6. ASSUME NEW x \in ToSet(t)
      PROVE  x \in ToSet(s \o t)
  <2>1. PICK i \in 1..Len(t) : x = t[i]
    BY <1>1
  <2> DEFINE j == i + Len(s)
  <2>2. j \in 1..(Len(s) + Len(t)) /\ ~ j <= Len(s) /\ j - Len(s) = i
    BY <1>2
  <2>3. (s \o t)[j] = x
    BY <1>3, <2>1, <2>2
  <2> QED BY <1>1, <1>2, <2>2, <2>3
<1> QED BY <1>4, <1>5, <1>6

\* ConcatSet, for all sequences at once.
LEMMA ConcatSets == \A S : \A s, t \in Seq(S) : ToSet(s \o t) = ToSet(s) \cup ToSet(t)
BY ConcatSet

Union(s, n) == UNION {ToSet(s[i]) : i \in 1..n}

\* The elements of the first k sequences joined.
LEMMA JoinSet ==
    ASSUME NEW S, NEW s \in Seq(Seq(S)), NEW n \in Nat,
           NEW F \in [1..n -> Seq(S)], Joins(F, s, n), n <= Len(s)
    PROVE  \A k \in 1..n : ToSet(F[k]) = Union(s, k)
<1> DEFINE T == {k \in 1..n : ToSet(F[k]) # Union(s, k)}
<1>1. SUFFICES ASSUME T # {}
              PROVE  FALSE
  OBVIOUS
<1>2. T \in SUBSET Nat
  OBVIOUS
<1>3. PICK m \in T : \A k \in T : m <= k
  BY <1>1, <1>2, Least
<1>4. m \in 1..n /\ m \in Nat /\ ToSet(F[m]) # Union(s, m)
  OBVIOUS
<1>5. F[m] = IF m = 1 THEN s[m] ELSE F[m - 1] \o s[m]
  BY <1>4 DEF Joins
<1>6. CASE m = 1
  <2>1. 1..1 = {1}
    OBVIOUS
  <2>2. Union(s, 1) = ToSet(s[1])
    BY <2>1, Zenon DEF Union
  <2> QED BY <1>4, <1>5, <1>6, <2>2
<1>7. CASE m # 1
  <2>1. m - 1 \in 1..n /\ ~ m <= m - 1 /\ 1..m = 1..(m - 1) \cup {m} /\ m \in 1..Len(s)
    BY <1>4, <1>7, LenProperties
  <2>2. ToSet(F[m - 1]) = Union(s, m - 1)
    BY <1>3, <2>1
  <2>3. Union(s, m) = Union(s, m - 1) \cup ToSet(s[m])
    BY <2>1, Zenon DEF Union
  <2>4. F[m - 1] \in Seq(S) /\ s[m] \in Seq(S)
    BY <2>1, ElementOfSeq
  <2>5. ToSet(F[m - 1] \o s[m]) = ToSet(F[m - 1]) \cup ToSet(s[m])
    BY <2>4, ConcatSets, ZenonT(30)
  <2> QED BY <1>4, <1>5, <1>7, <2>2, <2>3, <2>5
<1> QED BY <1>6, <1>7

\* The elements of what is joined are those of the parts.
LEMMA FlattenToSet ==
    ASSUME NEW S, NEW s \in Seq(Seq(S))
    PROVE  ToSet(FlattenSeq(s)) = Union(s, Len(s))
<1>1. CASE s = <<>>
  <2>1. ToSet(<<>>) = {} /\ 1..Len(<<>>) = {}
    BY DEF ToSet
  <2>2. Union(<<>>, Len(<<>>)) = {}
    BY <2>1, Zenon DEF Union
  <2> QED BY <1>1, <2>1, <2>2, FlattenEmpty
<1>2. CASE s # <<>>
  <2>1. PICK F \in [1..Len(s) -> Seq(S)] : Joins(F, s, Len(s)) /\ FlattenSeq(s) = F[Len(s)]
    BY <1>2, FlattenIs
  <2>2. Len(s) \in Nat /\ Len(s) \in 1..Len(s)
    BY <1>2, EmptySeq
  <2>3. \A k \in 1..Len(s) : ToSet(F[k]) = Union(s, k)
    <3>1. Len(s) <= Len(s)
      BY <2>2
    <3> QED BY <2>1, <2>2, <3>1, JoinSet
  <2> QED BY <2>1, <2>2, <2>3, Zenon
<1> QED BY <1>1, <1>2

\* G[n] holds the events of table t among the first n.
Gathers(G, s, t, n) ==
    \A i \in 0..n : G[i] = IF i = 0 THEN <<>>
                           ELSE IF Table(s[i]) = t THEN Append(G[i - 1], s[i]) ELSE G[i - 1]
GatheredFrom(s, t, n) == {s[i] : i \in {j \in 1..n : Table(s[j]) = t}}

\* The elements of a sequence with one more.
LEMMA AppendSet ==
    ASSUME NEW S, NEW s \in Seq(S), NEW x \in S
    PROVE  ToSet(Append(s, x)) = ToSet(s) \cup {x}
<1>1. \A q \in Seq(S) : ToSet(q) = {q[i] : i \in 1..Len(q)}
  BY DEF ToSet
<1>2. /\ Append(s, x) \in Seq(S) /\ Len(s) \in Nat /\ Len(Append(s, x)) = Len(s) + 1
      /\ Append(s, x)[Len(s) + 1] = x /\ \A i \in 1..Len(s) : Append(s, x)[i] = s[i]
  OBVIOUS
<1>3. 1..(Len(s) + 1) = 1..Len(s) \cup {Len(s) + 1}
  BY <1>2
<1> DEFINE t == Append(s, x)
<1>4. ToSet(t) = {t[i] : i \in 1..(Len(s) + 1)}
  BY <1>1, <1>2
<1>5. t[Len(s) + 1] = x /\ \A i \in 1..Len(s) : t[i] = s[i]
  BY <1>2
<1>6. ToSet(s) = {s[i] : i \in 1..Len(s)}
  BY <1>1
<1> HIDE DEF t
<1>7. ToSet(t) = ToSet(s) \cup {x}
  BY <1>3, <1>4, <1>5, <1>6
<1> QED BY <1>7 DEF t

\* The events of a table among the first n can be gathered.
LEMMA GatherExists ==
    ASSUME NEW S, NEW s \in Seq(S), NEW t, NEW n \in 0..Len(s)
    PROVE  \E G \in [0..n -> Seq(S)] : Gathers(G, s, t, n)
<1> DEFINE T == {k \in 0..Len(s) : ~ \E G \in [0..k -> Seq(S)] : Gathers(G, s, t, k)}
<1>1. \A i \in 1..Len(s) : s[i] \in S
  BY ElementOfSeq
<1>2. Len(s) \in Nat
  OBVIOUS
<1>3. SUFFICES ASSUME T # {}
              PROVE  FALSE
  OBVIOUS
<1>4. T \in SUBSET Nat
  BY <1>2
<1>5. PICK m \in T : \A k \in T : m <= k
  BY <1>3, <1>4, Least
<1>6. m \in 0..Len(s) /\ m \in Nat /\ ~ \E G \in [0..m -> Seq(S)] : Gathers(G, s, t, m)
  BY <1>2
<1>7. CASE m = 0
  <2> DEFINE G == [i \in 0..0 |-> <<>>]
  <2>1. G \in [0..m -> Seq(S)]
    BY <1>7
  <2>2. Gathers(G, s, t, m)
    BY <1>7 DEF Gathers
  <2> QED BY <1>6, <2>1, <2>2
<1>8. CASE m # 0
  <2>1. m - 1 \in 0..Len(s) /\ ~ m <= m - 1 /\ m \in 1..Len(s)
    BY <1>2, <1>6, <1>8
  <2>2. PICK H \in [0..(m - 1) -> Seq(S)] : Gathers(H, s, t, m - 1)
    BY <1>5, <2>1
  <2> DEFINE v == IF Table(s[m]) = t THEN Append(H[m - 1], s[m]) ELSE H[m - 1]
             G == [i \in 0..m |-> IF i = m THEN v ELSE H[i]]
  <2>3. v \in Seq(S)
    <3>1. H[m - 1] \in Seq(S) /\ s[m] \in S
      BY <1>1, <2>1, <2>2
    <3> QED BY <3>1
  <2> HIDE DEF v
  <2>4. G \in [0..m -> Seq(S)]
    <3>1. \A i \in 0..m : i # m => i \in 0..(m - 1)
      BY <1>6
    <3> QED BY <2>2, <2>3, <3>1
  <2>5. Gathers(G, s, t, m)
    <3>1. ASSUME NEW i \in 0..m
          PROVE  G[i] = IF i = 0 THEN <<>>
                        ELSE IF Table(s[i]) = t THEN Append(G[i - 1], s[i]) ELSE G[i - 1]
      <4>1. CASE i = m
        <5>1. m \in 0..m /\ m - 1 \in 0..m /\ m - 1 # m
          BY <1>2, <1>6, <1>8
        <5>2. G[m] = v /\ G[m - 1] = H[m - 1]
          BY <5>1
        <5> QED BY <1>8, <4>1, <5>2 DEF v
      <4>2. CASE i # m
        <5>1. i \in 0..(m - 1) /\ (i # 0 => i - 1 \in 0..m /\ i - 1 # m)
          BY <1>6, <4>2
        <5>2. G[i] = H[i] /\ (i # 0 => G[i - 1] = H[i - 1])
          BY <4>2, <5>1
        <5>3. H[i] = IF i = 0 THEN <<>>
                     ELSE IF Table(s[i]) = t THEN Append(H[i - 1], s[i]) ELSE H[i - 1]
          BY <2>2, <5>1 DEF Gathers
        <5> QED BY <5>2, <5>3
      <4> QED BY <4>1, <4>2
    <3> QED BY <3>1 DEF Gathers
  <2> QED BY <1>6, <2>4, <2>5
<1> QED BY <1>7, <1>8

\* Whatever gathers them gathers these.
LEMMA GatherIs ==
    ASSUME NEW S, NEW s \in Seq(S), NEW t, NEW G, Gathers(G, s, t, Len(s))
    PROVE  G[Len(s)] \in Seq(S) /\ ToSet(G[Len(s)]) = GatheredFrom(s, t, Len(s))
<1> DEFINE Good(k) == G[k] \in Seq(S) /\ ToSet(G[k]) = GatheredFrom(s, t, k)
           T == {k \in 0..Len(s) : ~ Good(k)}
<1>1. Len(s) \in Nat /\ \A i \in 1..Len(s) : s[i] \in S
  BY ElementOfSeq
<1>2. T = {}
  <2>1. SUFFICES ASSUME T # {}
                PROVE  FALSE
    OBVIOUS
  <2>2. T \in SUBSET Nat
    BY <1>1
  <2>3. PICK m \in T : \A k \in T : m <= k
    BY <2>1, <2>2, Least
  <2>4. m \in 0..Len(s) /\ m \in Nat /\ ~ Good(m)
    BY <1>1
  <2>5. G[m] = IF m = 0 THEN <<>>
               ELSE IF Table(s[m]) = t THEN Append(G[m - 1], s[m]) ELSE G[m - 1]
    BY <2>4 DEF Gathers
  <2>6. CASE m = 0
    <3>1. G[0] = <<>>
      BY <2>5, <2>6
    <3>2. <<>> \in Seq(S) /\ ToSet(<<>>) = {} /\ 1..0 = {}
      BY DEF ToSet
    <3>3. GatheredFrom(s, t, 0) = {}
      BY <3>2, Zenon DEF GatheredFrom
    <3> QED BY <2>4, <2>6, <3>1, <3>2, <3>3
  <2>7. CASE m # 0
    <3>1. /\ m - 1 \in 0..Len(s) /\ ~ m <= m - 1 /\ m \in 1..Len(s)
          /\ 1..m = 1..(m - 1) \cup {m}
      BY <1>1, <2>4, <2>7
    <3>2. Good(m - 1)
      BY <2>3, <3>1
    <3>3. GatheredFrom(s, t, m) = GatheredFrom(s, t, m - 1)
                                    \cup (IF Table(s[m]) = t THEN {s[m]} ELSE {})
      BY <3>1 DEF GatheredFrom
    <3>4. CASE Table(s[m]) = t
      <4>1. G[m] = Append(G[m - 1], s[m]) /\ s[m] \in S /\ G[m - 1] \in Seq(S)
        BY <1>1, <2>5, <2>7, <3>1, <3>2, <3>4
      <4>2. ToSet(G[m]) = ToSet(G[m - 1]) \cup {s[m]} /\ G[m] \in Seq(S)
        BY <4>1, AppendSet
      <4> QED BY <2>4, <3>2, <3>3, <3>4, <4>2
    <3>5. CASE Table(s[m]) # t
      <4>1. G[m] = G[m - 1]
        BY <2>5, <2>7, <3>5
      <4> QED BY <2>4, <3>2, <3>3, <3>5, <4>1
    <3> QED BY <3>4, <3>5
  <2> QED BY <2>6, <2>7
<1> QED BY <1>1, <1>2

\* The events of a table are those of the queue that belong to it.
LEMMA OfTableIs ==
    ASSUME NEW S, NEW s \in Seq(S), NEW t
    PROVE  OfTable(s, t) \in Seq(S) /\ ToSet(OfTable(s, t)) = {e \in ToSet(s) : Table(e) = t}
<1> DEFINE R(G) == G = [n \in 0..Len(s) |->
                        IF n = 0 THEN <<>>
                        ELSE IF Table(s[n]) = t THEN Append(G[n - 1], s[n]) ELSE G[n - 1]]
           C == CHOOSE G : R(G)
<1>1. OfTable(s, t) = C[Len(s)]
  BY Zenon DEF OfTable
<1>2. Len(s) \in Nat /\ Len(s) \in 0..Len(s)
  OBVIOUS
<1>3. PICK G \in [0..Len(s) -> Seq(S)] : Gathers(G, s, t, Len(s))
  BY <1>2, GatherExists
<1>4. R(G)
  <2>1. G = [i \in 0..Len(s) |-> G[i]]
    BY <1>3
  <2> QED BY <1>3, <2>1 DEF Gathers
<1>5. R(C)
  BY <1>4, Zenon
<1>6. Gathers(C, s, t, Len(s))
  <2> HIDE DEF C
  <2> QED BY <1>5 DEF Gathers
<1> HIDE DEF C
<1>7. C[Len(s)] \in Seq(S) /\ ToSet(C[Len(s)]) = GatheredFrom(s, t, Len(s))
  BY <1>6, GatherIs
<1>8. GatheredFrom(s, t, Len(s)) = {e \in ToSet(s) : Table(e) = t}
  BY DEF GatheredFrom, ToSet
<1> QED BY <1>1, <1>7, <1>8

EventSeqs == Seq(Nat)

\* From the worker back to the callers: what the worker has, the queue, the flush,
\* the batch and the event that waits for the flush.
Line(w, q, h, b, f) == w \o (q \o (h \o (b \o f)))

\* Sequences of events joined are one.
LEMMA Closed == \A s, t \in EventSeqs : s \o t \in EventSeqs
BY ConcatProperties DEF EventSeqs

\* It does not matter which two are joined first.
LEMMA Together == \A s, t, u \in EventSeqs : Assoc(s, t, u)
BY Associative, Zenon DEF EventSeqs

\* The empty sequence joined to another changes nothing.
LEMMA Nothing == <<>> \in EventSeqs /\ \A s \in EventSeqs : s \o <<>> = s /\ <<>> \o s = s
BY ConcatEmptySeq DEF EventSeqs

\* The parts can be moved from one place to the next.
LEMMA Moves ==
    ASSUME NEW w \in EventSeqs, NEW q \in EventSeqs,
           NEW h \in EventSeqs, NEW b \in EventSeqs, NEW f \in EventSeqs
    PROVE  /\ Line(w, q, h, b, f) \in EventSeqs
           /\ Line(<<>>, w \o q, h, b, f) = Line(w, q, h, b, f)
           /\ Line(w, q \o h, <<>>, b, f) = Line(w, q, h, b, f)
           /\ Line(w, q, b, <<>>, f) = Line(w, q, <<>>, b, f)
           /\ Line(w, q, <<>>, f, <<>>) = Line(w, q, <<>>, <<>>, f)
           /\ Line(w, q, f, <<>>, <<>>) = Line(w, q, <<>>, <<>>, f)
<1> DEFINE x1 == b \o f
           x2 == h \o x1
           x3 == q \o x2
           x4 == w \o x3
<1>1. x1 \in EventSeqs /\ x2 \in EventSeqs /\ x3 \in EventSeqs /\ x4 \in EventSeqs
  BY Closed, Zenon
<1>2. Line(w, q, h, b, f) \in EventSeqs
  BY <1>1 DEF Line
<1>4. Line(<<>>, w \o q, h, b, f) = Line(w, q, h, b, f)
  <2>1. Assoc(w, q, x2)
    BY <1>1, Together, Zenon
  <2>2. (w \o q) \o x2 \in EventSeqs
    BY <1>1, Closed, Zenon
  <2>3. <<>> \o ((w \o q) \o x2) = (w \o q) \o x2
    BY <2>2, Nothing
  <2> QED BY <2>1, <2>3, Zenon DEF Line, Assoc
<1>5. Line(w, q \o h, <<>>, b, f) = Line(w, q, h, b, f)
  <2>1. Assoc(q, h, x1) /\ <<>> \o x1 = x1
    BY <1>1, Together, Nothing, Zenon
  <2> QED BY <2>1, Zenon DEF Line, Assoc
<1>6. Line(w, q, b, <<>>, f) = Line(w, q, <<>>, b, f)
  <2>1. <<>> \o f = f /\ <<>> \o (b \o f) = b \o f
    BY <1>1, Nothing, Zenon
  <2> QED BY <2>1, Zenon DEF Line
<1>7. f \o <<>> = f /\ <<>> \o f = f /\ <<>> \o <<>> = <<>>
  BY Nothing, Zenon
<1>8. Line(w, q, <<>>, f, <<>>) = Line(w, q, <<>>, <<>>, f)
  BY <1>7, Zenon DEF Line
<1>9. Line(w, q, f, <<>>, <<>>) = Line(w, q, <<>>, <<>>, f)
  BY <1>7, Zenon DEF Line
<1> QED BY <1>2, <1>4, <1>5, <1>6, <1>8, <1>9

\* The events of the line are those of its parts.
LEMMA LineSet ==
    ASSUME NEW w \in EventSeqs, NEW q \in EventSeqs,
           NEW h \in EventSeqs, NEW b \in EventSeqs, NEW f \in EventSeqs
    PROVE  ToSet(Line(w, q, h, b, f)) =
              ToSet(w) \cup ToSet(q) \cup ToSet(h) \cup ToSet(b) \cup ToSet(f)
<1> DEFINE x1 == b \o f
           x2 == h \o x1
           x3 == q \o x2
           x4 == w \o x3
<1>1. x1 \in EventSeqs /\ x2 \in EventSeqs /\ x3 \in EventSeqs /\ x4 \in EventSeqs
  BY Closed, Zenon
<1>2. \A s, t \in EventSeqs : ToSet(s \o t) = ToSet(s) \cup ToSet(t)
  BY ConcatSet DEF EventSeqs
<1>3. ToSet(x1) = ToSet(b) \cup ToSet(f)
  BY <1>2, Zenon
<1>4. ToSet(x2) = ToSet(h) \cup ToSet(x1)
  BY <1>1, <1>2, Zenon
<1>5. ToSet(x3) = ToSet(q) \cup ToSet(x2)
  BY <1>1, <1>2, Zenon
<1>6. ToSet(x4) = ToSet(w) \cup ToSet(x3)
  BY <1>1, <1>2, Zenon
<1>8. Line(w, q, h, b, f) = x4
  BY DEF Line
<1> HIDE DEF x1, x2, x3, x4
<1> QED BY <1>3, <1>4, <1>5, <1>6, <1>8, Zenon

\* In the batch, in the flush, or with the caller that waits for the flush.
ComesLast(w, q, b, e) ==
    /\ Line(w, q, <<>>, Append(b, e), <<>>) = Append(Line(w, q, <<>>, b, <<>>), e)
    /\ Line(w, q, Append(b, e), <<>>, <<>>) = Append(Line(w, q, <<>>, b, <<>>), e)
    /\ Line(w, q, b, <<>>, <<e>>) = Append(Line(w, q, <<>>, b, <<>>), e)

\* An accepted event is the last of the line, wherever it waits.
LEMMA Enters ==
    ASSUME NEW w \in EventSeqs, NEW q \in EventSeqs,
           NEW b \in EventSeqs, NEW e \in Nat
    PROVE  ComesLast(w, q, b, e)
<1> DEFINE x == w \o q
           f == <<e>>
<1>0. f \in EventSeqs
  BY DEF EventSeqs
<1>1. f \in EventSeqs /\ x \in EventSeqs
  BY <1>0, Closed, Zenon
<1>2. ASSUME NEW s \in EventSeqs
      PROVE  Append(s, e) = s \o f /\ s \o f \in EventSeqs
  <2>1. Append(s, e) = s \o f
    BY DEF EventSeqs
  <2> QED BY <1>1, <2>1, Closed
<1> HIDE DEF f
<1>3. ASSUME NEW s \in EventSeqs
      PROVE  w \o (q \o s) = x \o s
  <2>2. Assoc(w, q, s)
    BY Together, Zenon
  <2> QED BY <2>2, Zenon DEF Assoc
<1>4. <<>> \o <<>> = <<>> /\ b \o <<>> = b /\ <<>> \o b = b
  BY Nothing, Zenon
<1>5. Line(w, q, <<>>, b, <<>>) = x \o b
  BY <1>3, <1>4, Zenon DEF Line
<1> HIDE DEF x
<1>6. x \o b \in EventSeqs /\ b \o f \in EventSeqs
  BY <1>1, Closed, Zenon
<1>7. Append(x \o b, e) = (x \o b) \o f /\ Append(b, e) = b \o f
  BY <1>2, <1>6
<1>8. (x \o b) \o f = x \o (b \o f)
  <2>1. Assoc(x, b, f)
    BY <1>1, Together, Zenon
  <2> QED BY <2>1, Zenon DEF Assoc
<1>9. (b \o f) \o <<>> = b \o f /\ <<>> \o (b \o f) = b \o f /\ <<>> \o f = f
  BY <1>1, <1>6, Nothing, Zenon
<1>10. w \o (q \o (b \o f)) = x \o (b \o f)
  BY <1>3, <1>6
<1>11. Line(w, q, <<>>, b \o f, <<>>) = x \o (b \o f)
  BY <1>9, <1>10, Zenon DEF Line
<1>12. Line(w, q, b \o f, <<>>, <<>>) = x \o (b \o f)
  BY <1>4, <1>9, <1>10, Zenon DEF Line
<1>13. Line(w, q, b, <<>>, f) = x \o (b \o f)
  BY <1>9, <1>10, Zenon DEF Line
<1> QED BY <1>5, <1>7, <1>8, <1>11, <1>12, <1>13, Zenon DEF f, ComesLast

\* The elements of two sequences joined, by their places.
LEMMA TwoParts ==
    ASSUME NEW x \in EventSeqs, NEW y \in EventSeqs
    PROVE  /\ x \o y \in EventSeqs /\ Len(x) \in Nat /\ Len(y) \in Nat
           /\ Len(x \o y) = Len(x) + Len(y)
           /\ \A k \in 1..Len(x) : (x \o y)[k] = x[k]
           /\ \A k \in 1..Len(y) : (x \o y)[Len(x) + k] = y[k]
<1> DEFINE z == x \o y
           lx == Len(x)
           ly == Len(y)
<1>1. /\ z \in EventSeqs /\ lx \in Nat /\ ly \in Nat /\ Len(z) = lx + ly
      /\ \A i \in 1..(lx + ly) : z[i] = IF i <= lx THEN x[i] ELSE y[i - lx]
  BY DEF EventSeqs
<1> HIDE DEF z, lx, ly
<1>2. \A k \in 1..lx : z[k] = x[k]
  BY <1>1
<1>3. ASSUME NEW k \in 1..ly
      PROVE  z[lx + k] = y[k]
  <2>1. PICK i \in 1..(lx + ly) : i = lx + k
    BY <1>1
  <2>2. ~ i <= lx /\ i - lx = k
    BY <1>1, <2>1
  <2>3. z[i] = y[i - lx]
    BY <1>1, <2>2
  <2> QED BY <2>1, <2>2, <2>3
<1> QED BY <1>1, <1>2, <1>3 DEF z, lx, ly

\* The elements of three sequences joined, by their places.
LEMMA ThreeParts ==
    ASSUME NEW a \in EventSeqs, NEW M \in EventSeqs, NEW c \in EventSeqs,
           NEW s, s = a \o (M \o c)
    PROVE  /\ s \in EventSeqs /\ Len(a) \in Nat /\ Len(M) \in Nat /\ Len(c) \in Nat
           /\ Len(s) = Len(a) + (Len(M) + Len(c))
           /\ \A k \in 1..Len(a) : s[k] = a[k]
           /\ \A k \in 1..Len(M) : s[Len(a) + k] = M[k]
           /\ \A k \in 1..Len(c) : s[Len(a) + (Len(M) + k)] = c[k]
<1> DEFINE m == M \o c
<1>0. s = a \o m
  OBVIOUS
<1>1. /\ m \in EventSeqs /\ Len(M) \in Nat /\ Len(c) \in Nat
      /\ Len(m) = Len(M) + Len(c)
      /\ \A k \in 1..Len(M) : m[k] = M[k]
      /\ \A k \in 1..Len(c) : m[Len(M) + k] = c[k]
  BY TwoParts
<1> HIDE DEF m
<1>2. /\ s \in EventSeqs /\ Len(a) \in Nat
      /\ Len(s) = Len(a) + Len(m)
      /\ \A k \in 1..Len(a) : s[k] = a[k]
      /\ \A k \in 1..Len(m) : s[Len(a) + k] = m[k]
  <2>1. /\ a \o m \in EventSeqs /\ Len(a) \in Nat
        /\ Len(a \o m) = Len(a) + Len(m)
        /\ \A k \in 1..Len(a) : (a \o m)[k] = a[k]
        /\ \A k \in 1..Len(m) : (a \o m)[Len(a) + k] = m[k]
    BY <1>1, TwoParts
  <2> QED BY <1>0, <2>1, Zenon
<1>3. \A k \in 1..Len(M) : s[Len(a) + k] = M[k]
  BY <1>1, <1>2
<1>4. ASSUME NEW k \in 1..Len(c)
      PROVE  s[Len(a) + (Len(M) + k)] = c[k]
  <2>1. Len(M) + k \in 1..Len(m)
    BY <1>1
  <2>2. s[Len(a) + (Len(M) + k)] = m[Len(M) + k]
    BY <1>2, <2>1
  <2> QED BY <1>1, <2>2
<1>5. Len(s) = Len(a) + (Len(M) + Len(c))
  BY <1>1, <1>2
<1> QED BY <1>1, <1>2, <1>3, <1>4, <1>5

\* The events of a sequence, by their places.
LEMMA EventSet == \A q \in EventSeqs : ToSet(q) = {q[i] : i \in 1..Len(q)}
BY DEF ToSet, EventSeqs

Piece(v, s, p, n) == v \in EventSeqs /\ Len(v) = n /\ \A i \in 1..n : v[i] = s[p + i]

\* What SubSeq takes out, by its places.
LEMMA Pieces ==
    \A s \in EventSeqs : \A p, n \in Nat : \A lo, hi :
        lo = p + 1 /\ hi = p + n /\ p + n <= Len(s) => Piece(SubSeq(s, lo, hi), s, p, n)
<1> SUFFICES ASSUME NEW s \in EventSeqs, NEW p \in Nat, NEW n \in Nat, NEW lo, NEW hi,
                   lo = p + 1, hi = p + n, p + n <= Len(s)
            PROVE  Piece(SubSeq(s, lo, hi), s, p, n)
  BY Zenon
<1>1. \A i \in lo..hi : s[i] \in Nat
  <2>1. \A i \in 1..Len(s) : s[i] \in Nat
    BY ElementOfSeq DEF EventSeqs
  <2>2. Len(s) \in Nat
    BY LenProperties DEF EventSeqs
  <2> QED BY <2>1, <2>2
<1> DEFINE v == SubSeq(s, lo, hi)
<1>2. /\ v \in EventSeqs /\ Len(v) = (IF lo <= hi THEN hi - lo + 1 ELSE 0)
      /\ \A i \in 1..(hi - lo + 1) : v[i] = s[lo + i - 1]
  BY <1>1, SubSeqProperties DEF EventSeqs
<1> HIDE DEF v, Piece
<1>3. Len(v) = n /\ hi - lo + 1 = n
  BY <1>2
<1>4. \A i \in 1..n : lo + i - 1 = p + i
  OBVIOUS
<1>5. \A i \in 1..n : v[i] = s[p + i]
  BY <1>2, <1>3, <1>4
<1> QED BY <1>2, <1>3, <1>5 DEF v, Piece

\* A run M of events is taken out of s.
Cut(s, t, M) == \E a, c \in EventSeqs : s = a \o (M \o c) /\ t = a \o c

\* What the worker has, the oldest batch and the batch of the flush are runs of the line.
LEMMA CutFromLine ==
    ASSUME NEW w \in EventSeqs, NEW x \in EventSeqs, NEW q \in EventSeqs,
           NEW h \in EventSeqs, NEW b \in EventSeqs, NEW f \in EventSeqs
    PROVE  /\ Cut(Line(w, q, h, b, f), Line(<<>>, q, h, b, f), w)
           /\ Cut(Line(w, x \o q, h, b, f), Line(w, q, h, b, f), x)
           /\ Cut(Line(w, q, h, b, f), Line(w, q, <<>>, b, f), h)
<1> DEFINE x1 == b \o f
           x2 == h \o x1
           x3 == q \o x2
<1>1. x1 \in EventSeqs /\ x2 \in EventSeqs /\ x3 \in EventSeqs /\ w \o q \in EventSeqs
  BY Closed, Zenon
<1>2. <<>> \in EventSeqs /\ <<>> \o x3 = x3 /\ <<>> \o (w \o x3) = w \o x3 /\ <<>> \o x1 = x1
  <2>1. w \o x3 \in EventSeqs
    BY <1>1, Closed, Zenon
  <2> QED BY <1>1, <2>1, Nothing, Zenon
<1>3. Cut(Line(w, q, h, b, f), Line(<<>>, q, h, b, f), w)
  <2>1. Line(w, q, h, b, f) = <<>> \o (w \o x3) /\ Line(<<>>, q, h, b, f) = <<>> \o x3
    BY <1>2, Zenon DEF Line
  <2> QED BY <1>1, <1>2, <2>1, Zenon DEF Cut
<1>4. Cut(Line(w, x \o q, h, b, f), Line(w, q, h, b, f), x)
  <2>1. Assoc(x, q, x2)
    BY <1>1, Together, Zenon
  <2>2. Line(w, x \o q, h, b, f) = w \o (x \o x3) /\ Line(w, q, h, b, f) = w \o x3
    BY <2>1, Zenon DEF Line, Assoc
  <2> QED BY <1>1, <2>2, Zenon DEF Cut
<1>5. Cut(Line(w, q, h, b, f), Line(w, q, <<>>, b, f), h)
  <2>1. Assoc(w, q, x2) /\ Assoc(w, q, x1)
    BY <1>1, Together, Zenon
  <2>2. Line(w, q, h, b, f) = (w \o q) \o (h \o x1)
    BY <2>1, Zenon DEF Line, Assoc
  <2>3. Line(w, q, <<>>, b, f) = (w \o q) \o x1
    BY <1>2, <2>1, Zenon DEF Line, Assoc
  <2> QED BY <1>1, <2>2, <2>3, Zenon DEF Cut
<1> QED BY <1>3, <1>4, <1>5

\* What the worker has is at the front.
Leads(w, q, h, b, f) == Line(w, q, h, b, f) = w \o Line(<<>>, q, h, b, f)

\* The line begins with what the worker has.
LEMMA WorkerInFront == \A w, q, h, b, f \in EventSeqs : Leads(w, q, h, b, f)
<1> SUFFICES ASSUME NEW w \in EventSeqs, NEW q \in EventSeqs,
                    NEW h \in EventSeqs, NEW b \in EventSeqs, NEW f \in EventSeqs
             PROVE  Leads(w, q, h, b, f)
  BY Zenon
<1> DEFINE x3 == q \o (h \o (b \o f))
<1>1. x3 \in EventSeqs
  BY Closed, Zenon
<1>2. <<>> \o x3 = x3
  BY <1>1, Nothing, Zenon
<1> QED BY <1>2, Zenon DEF Line, Leads

\* A run of s is a run of d and s joined.
LEMMA CutBehind ==
    ASSUME NEW d \in EventSeqs, NEW s \in EventSeqs, NEW t \in EventSeqs,
           NEW M \in EventSeqs, Cut(s, t, M)
    PROVE  Cut(d \o s, d \o t, M)
<1>1. PICK a, c \in EventSeqs : s = a \o (M \o c) /\ t = a \o c
  BY DEF Cut
<1>2. M \o c \in EventSeqs /\ d \o a \in EventSeqs
  BY Closed, Zenon
<1>3. Assoc(d, a, M \o c) /\ Assoc(d, a, c)
  BY <1>2, Together, Zenon
<1>4. d \o s = (d \o a) \o (M \o c) /\ d \o t = (d \o a) \o c
  BY <1>1, <1>3, Zenon DEF Assoc
<1> QED BY <1>2, <1>4, Zenon DEF Cut

\* The events of s are increasing, and accepted.
InOrder(s, n) ==
    \A i \in 1..Len(s) : s[i] \in 1..n /\ \A j \in 1..Len(s) : j < i => s[j] < s[i]

\* A new number at the end keeps the order.
LEMMA OrderEnters ==
    ASSUME NEW n \in Nat, NEW s \in EventSeqs, InOrder(s, n)
    PROVE  /\ Append(s, n + 1) \in EventSeqs
           /\ InOrder(Append(s, n + 1), n + 1)
           /\ \A e \in ToSet(s) : e \in 1..n
<1> DEFINE t == Append(s, n + 1)
<1>1. t \in EventSeqs /\ Len(s) \in Nat /\ Len(t) = Len(s) + 1
      /\ t[Len(s) + 1] = n + 1 /\ \A i \in 1..Len(s) : t[i] = s[i]
  BY DEF EventSeqs
<1>2. \A e \in ToSet(s) : e \in 1..n
  BY DEF ToSet, InOrder, EventSeqs
<1> HIDE DEF t
<1>3. InOrder(t, n + 1)
  <2>1. ASSUME NEW i \in 1..Len(t)
        PROVE  t[i] \in 1..(n + 1) /\ \A j \in 1..Len(t) : j < i => t[j] < t[i]
    <3>1. CASE i \in 1..Len(s)
      <4>1. t[i] = s[i] /\ s[i] \in 1..n
        BY <1>1, <3>1 DEF InOrder
      <4>2. ASSUME NEW j \in 1..Len(t), j < i
            PROVE  t[j] < t[i]
        <5>1. j \in 1..Len(s)
          BY <1>1, <3>1, <4>2
        <5> QED BY <1>1, <3>1, <4>1, <4>2, <5>1 DEF InOrder
      <4>3. n \in Nat /\ t[i] \in 1..(n + 1)
        BY <4>1
      <4> QED BY <4>2, <4>3
    <3>2. CASE i \notin 1..Len(s)
      <4>1. i = Len(s) + 1
        BY <1>1, <3>2
      <4>2. ASSUME NEW j \in 1..Len(t), j < i
            PROVE  t[j] < n + 1
        <5>1. j \in 1..Len(s)
          BY <1>1, <4>1, <4>2
        <5>2. t[j] = s[j] /\ s[j] \in 1..n
          BY <1>1, <5>1 DEF InOrder
        <5> QED BY <5>2
      <4> QED BY <1>1, <4>1, <4>2
    <3> QED BY <3>1, <3>2
  <2> QED BY <2>1 DEF InOrder
<1> QED BY <1>1, <1>2, <1>3 DEF t

\* What is left after a run was taken out is in order, and has none of its events.
LEMMA OrderCut ==
    ASSUME NEW n \in Nat, NEW s \in EventSeqs, NEW t \in EventSeqs, NEW M \in EventSeqs,
           Cut(s, t, M), InOrder(s, n)
    PROVE  /\ InOrder(t, n) /\ InOrder(M, n)
           /\ ToSet(s) = ToSet(t) \cup ToSet(M)
           /\ ToSet(t) \cap ToSet(M) = {}
<1>1. PICK a, c \in EventSeqs : s = a \o (M \o c) /\ t = a \o c
  BY DEF Cut
<1> DEFINE la == Len(a)
           lm == Len(M)
           lc == Len(c)
<1>2. /\ la \in Nat /\ lm \in Nat /\ lc \in Nat /\ Len(t) = la + lc
      /\ \A k \in 1..la : t[k] = a[k]
      /\ \A k \in 1..lc : t[la + k] = c[k]
  BY <1>1, TwoParts
<1>3. /\ Len(s) = la + (lm + lc)
      /\ \A k \in 1..la : s[k] = a[k]
      /\ \A k \in 1..lm : s[la + k] = M[k]
      /\ \A k \in 1..lc : s[la + (lm + k)] = c[k]
  BY <1>1, ThreeParts
<1> HIDE DEF la, lm, lc
<1> DEFINE at == [i \in 1..(la + lc) |-> IF i <= la THEN i ELSE i + lm]
<1>6. \A i \in 1..(la + lc) : at[i] \in 1..Len(s) /\ t[i] = s[at[i]]
  <2>1. SUFFICES ASSUME NEW i \in 1..(la + lc)
                 PROVE  at[i] \in 1..Len(s) /\ t[i] = s[at[i]]
    OBVIOUS
  <2>2. CASE i <= la
    <3>1. at[i] = i /\ i \in 1..la /\ i \in 1..(la + (lm + lc))
      BY <1>2, <2>2
    <3> QED BY <1>2, <1>3, <3>1
  <2>3. CASE ~ i <= la
    <3>1. PICK k \in 1..lc : i = la + k
      <4>1. i - la \in 1..lc /\ i = la + (i - la)
        BY <1>2, <2>3
      <4> QED BY <4>1
    <3>2. at[i] = i + lm
      BY <2>3
    <3>3. i + lm = la + (lm + k) /\ i + lm \in 1..(la + (lm + lc))
      BY <1>2, <3>1
    <3>4. t[i] = c[k]
      BY <1>2, <3>1
    <3>5. s[la + (lm + k)] = c[k]
      BY <1>3
    <3> QED BY <1>3, <3>2, <3>3, <3>4, <3>5
  <2> QED BY <2>2, <2>3
<1>7. \A i, j \in 1..(la + lc) : j < i => at[j] < at[i]
  BY <1>2
<1>8. \A k \in 1..lm : k + la \in 1..Len(s) /\ M[k] = s[k + la]
  <2>1. SUFFICES ASSUME NEW k \in 1..lm
                 PROVE  k + la \in 1..Len(s) /\ M[k] = s[k + la]
    OBVIOUS
  <2>2. k + la \in 1..(la + (lm + lc)) /\ k + la = la + k
    BY <1>2
  <2> QED BY <1>3, <2>2
<1>9. \A i \in 1..(la + lc), k \in 1..lm : at[i] # k + la
  BY <1>2
<1>10. \A p \in 1..Len(s) : (\E i \in 1..(la + lc) : at[i] = p) \/ (\E k \in 1..lm : p = k + la)
  <2>1. SUFFICES ASSUME NEW p \in 1..(la + (lm + lc))
                 PROVE  (\E i \in 1..(la + lc) : at[i] = p) \/ (\E k \in 1..lm : p = k + la)
    BY <1>3
  <2>2. CASE p <= la
    <3>1. p \in 1..(la + lc) /\ at[p] = p
      BY <1>2, <2>2
    <3> QED BY <3>1
  <2>3. CASE ~ (p <= la) /\ p <= la + lm
    <3>1. p - la \in 1..lm /\ p = p - la + la
      BY <1>2, <2>3
    <3> QED BY <3>1
  <2>4. CASE ~ (p <= la + lm)
    <3>1. p - lm \in 1..(la + lc) /\ at[p - lm] = p
      BY <1>2, <2>4
    <3> QED BY <3>1
  <2> QED BY <2>2, <2>3, <2>4
<1> HIDE DEF at
<1>11. \A i, j \in 1..Len(s) : s[i] \in 1..n /\ (j < i => s[j] < s[i])
  BY DEF InOrder
<1>12. InOrder(t, n)
  <2>1. Len(t) = la + lc
    BY <1>2
  <2>2. ASSUME NEW i \in 1..(la + lc)
        PROVE  t[i] \in 1..n /\ \A j \in 1..(la + lc) : j < i => t[j] < t[i]
    <3>1. at[i] \in 1..Len(s) /\ t[i] = s[at[i]]
      BY <1>6
    <3>2. ASSUME NEW j \in 1..(la + lc), j < i
          PROVE  t[j] < t[i]
      <4>1. at[j] \in 1..Len(s) /\ t[j] = s[at[j]] /\ at[j] < at[i]
        BY <1>6, <1>7, <3>2
      <4> QED BY <1>11, <3>1, <4>1
    <3> QED BY <1>11, <3>1, <3>2
  <2> QED BY <2>1, <2>2 DEF InOrder
<1>13. lm = Len(M)
  BY DEF lm
<1>14. InOrder(M, n)
  <2>1. \A k, l \in 1..lm : l < k => l + la < k + la
    BY <1>2
  <2> QED BY <1>8, <1>11, <1>13, <2>1 DEF InOrder
<1>15. /\ ToSet(s) = {s[i] : i \in 1..Len(s)}
       /\ ToSet(t) = {t[i] : i \in 1..(la + lc)}
       /\ ToSet(M) = {M[i] : i \in 1..lm}
  BY <1>2, <1>13, EventSet
<1>16. ToSet(s) = ToSet(t) \cup ToSet(M)
  <2>1. \A p \in 1..Len(s) : s[p] \in ToSet(t) \cup ToSet(M)
    BY <1>6, <1>8, <1>10, <1>15
  <2>2. ToSet(t) \subseteq ToSet(s)
    BY <1>6, <1>15
  <2>3. ToSet(M) \subseteq ToSet(s)
    BY <1>8, <1>15
  <2> QED BY <1>15, <2>1, <2>2, <2>3
<1>17. \A i, j \in 1..Len(s) : i # j => s[i] # s[j]
  <2>1. Len(s) \in Nat
    BY <1>2, <1>3
  <2>2. \A i, j \in 1..Len(s) : s[i] \in Int /\ s[j] \in Int /\ (i # j => i < j \/ j < i)
    BY <1>11, <2>1
  <2> QED BY <1>11, <2>2
<1>18. ToSet(t) \cap ToSet(M) = {}
  BY <1>6, <1>8, <1>9, <1>15, <1>17
<1> QED BY <1>12, <1>14, <1>16, <1>18

\* A run that is taken out is what the channel calls lost.
LEMMA CutIsLost ==
    ASSUME NEW s \in EventSeqs, NEW t \in EventSeqs, NEW M \in EventSeqs, Cut(s, t, M), M # <<>>
    PROVE  \E m, n \in 0..Len(s) : m < n /\ t = SubSeq(s, 1, m) \o SubSeq(s, n + 1, Len(s))
<1>1. PICK a, c \in EventSeqs : s = a \o (M \o c) /\ t = a \o c
  BY DEF Cut
<1> DEFINE la == Len(a)
           lm == Len(M)
           lc == Len(c)
<1>2. lm # 0
  BY EmptySeq DEF EventSeqs
<1>4. /\ la \in Nat /\ lm \in Nat /\ lc \in Nat
      /\ Len(s) = la + (lm + lc)
      /\ \A k \in 1..la : s[k] = a[k]
      /\ \A k \in 1..lc : s[la + (lm + k)] = c[k]
  BY <1>1, ThreeParts
<1>5. SubSeq(s, 1, la) = a
  <2> DEFINE v == SubSeq(s, 1, la)
  <2> HIDE DEF la
  <2>1. 0 + la <= Len(s) /\ 1 = 0 + 1 /\ la = 0 + la /\ \A i \in 1..la : 0 + i = i
    BY <1>4
  <2>2. v \in EventSeqs /\ Len(v) = la /\ \A i \in 1..la : v[i] = s[0 + i]
    <3>1. 0 \in Nat /\ la \in Nat
      BY <1>4
    <3>2. s \in EventSeqs
      BY <1>1, TwoParts, ThreeParts
    <3> HIDE DEF v
    <3>3. Piece(v, s, 0, la)
      BY <2>1, <3>1, <3>2, Pieces, Zenon DEF v
    <3> QED BY <3>3, Zenon DEF Piece
  <2> HIDE DEF v
  <2>3. \A i \in 1..la : v[i] = a[i]
    BY <1>4, <2>1, <2>2
  <2>4. v = a
    BY <2>2, <2>3, SeqEqual DEF EventSeqs, la
  <2> QED BY <2>1, <2>4, Zenon DEF v
<1>6. SubSeq(s, la + lm + 1, Len(s)) = c
  <2> DEFINE p == la + lm
             v == SubSeq(s, p + 1, Len(s))
  <2> HIDE DEF la, lm, lc
  <2>1. /\ (la + lm) + lc = Len(s) /\ la + lm \in Nat /\ (la + lm) + lc <= Len(s)
        /\ \A i \in 1..lc : (la + lm) + i = la + (lm + i)
    BY <1>4
  <2>2. v \in EventSeqs /\ Len(v) = lc /\ \A i \in 1..lc : v[i] = s[p + i]
    <3> HIDE DEF v, p
    <3>1. p \in Nat /\ lc \in Nat /\ p + lc <= Len(s) /\ Len(s) = p + lc
      BY <1>4, <2>1 DEF p
    <3>2. Piece(v, s, p, lc)
      BY <3>1, Pieces, Zenon DEF v
    <3> QED BY <3>2, Zenon DEF Piece
  <2> HIDE DEF v
  <2>3. \A i \in 1..lc : v[i] = c[i]
    BY <1>4, <2>1, <2>2 DEF p
  <2>4. v = c
    BY <2>2, <2>3, SeqEqual DEF EventSeqs, lc
  <2> QED BY <2>1, <2>4, Zenon DEF v
<1>7. la \in 0..Len(s) /\ la + lm \in 0..Len(s) /\ la < la + lm
  BY <1>2, <1>4
<1>8. t = SubSeq(s, 1, la) \o SubSeq(s, la + lm + 1, Len(s))
  BY <1>1, <1>5, <1>6, Zenon
<1> HIDE DEF la, lm
<1> QED BY <1>7, <1>8

\* What is taken from the front is what the channel calls delivered.
LEMMA FrontIsDelivered ==
    ASSUME NEW w \in EventSeqs, NEW t \in EventSeqs, w # <<>>
    PROVE  /\ Len(w) \in 1..Len(w \o t)
           /\ w = SubSeq(w \o t, 1, Len(w))
           /\ t = SubSeq(w \o t, Len(w) + 1, Len(w \o t))
<1> DEFINE s == w \o t
           lw == Len(w)
           lt == Len(t)
<1>1. lw # 0
  BY EmptySeq DEF EventSeqs
<1>2. /\ s \in EventSeqs /\ lw \in Nat /\ lt \in Nat /\ Len(s) = lw + lt
      /\ \A k \in 1..lw : s[k] = w[k]
      /\ \A k \in 1..lt : s[lw + k] = t[k]
  BY TwoParts
<1> HIDE DEF s
<1>3. SubSeq(s, 1, lw) = w
  <2> DEFINE v == SubSeq(s, 1, lw)
  <2> HIDE DEF lw
  <2>1. 0 + lw <= Len(s) /\ 1 = 0 + 1 /\ lw = 0 + lw /\ \A i \in 1..lw : 0 + i = i
    BY <1>2
  <2>2. v \in EventSeqs /\ Len(v) = lw /\ \A i \in 1..lw : v[i] = s[0 + i]
    <3>1. 0 \in Nat /\ lw \in Nat
      BY <1>2
    <3>2. s \in EventSeqs
      BY <1>2
    <3> HIDE DEF v
    <3>3. Piece(v, s, 0, lw)
      BY <2>1, <3>1, <3>2, Pieces, Zenon DEF v
    <3> QED BY <3>3, Zenon DEF Piece
  <2> HIDE DEF v
  <2>3. \A i \in 1..lw : v[i] = w[i]
    BY <1>2, <2>1, <2>2
  <2>4. v = w
    BY <2>2, <2>3, SeqEqual DEF EventSeqs, lw
  <2> QED BY <2>1, <2>4, Zenon DEF v
<1>4. SubSeq(s, lw + 1, Len(s)) = t
  <2> DEFINE v == SubSeq(s, lw + 1, Len(s))
  <2> HIDE DEF lw, lt
  <2>1. lw + lt = Len(s) /\ lw + lt <= Len(s)
    BY <1>2
  <2>2. v \in EventSeqs /\ Len(v) = lt /\ \A i \in 1..lt : v[i] = s[lw + i]
    <3>1. lw \in Nat /\ lt \in Nat /\ lw + lt <= Len(s) /\ Len(s) = lw + lt /\ s \in EventSeqs
      BY <1>2, <2>1
    <3> HIDE DEF v
    <3>2. Piece(v, s, lw, lt)
      BY <3>1, Pieces, Zenon DEF v
    <3> QED BY <3>2, Zenon DEF Piece
  <2> HIDE DEF v
  <2>3. \A i \in 1..lt : v[i] = t[i]
    BY <1>2, <2>2
  <2>4. v = t
    BY <2>2, <2>3, SeqEqual DEF EventSeqs, lt
  <2> QED BY <2>1, <2>4, Zenon DEF v
<1>5. lw \in 1..Len(s)
  BY <1>1, <1>2
<1> QED BY <1>3, <1>4, <1>5, Zenon DEF s

-----------------------------------------------------------------------------
(* The invariant                                                           *)

Batches == [task : ToSet(Load), events : EventSeqs]

\* What may be in the queue: a batch with events, or the sentinel of stop().
Fitting == {b \in Batches : Len(b.events) \in 1..BatchSize}
Entries == Fitting \cup {Sentinel}
QueueOK(q) == q \in Seq(Entries) /\ Len(q) <= QueueSize

\* The batch that fills is never full.
BatchOK(b) == b = NoBatch \/ (b \in Batches /\ Len(b.events) < BatchSize)

\* A flush has a batch with events in its hands.
FlushSteps == {"put", "makeRoom", "countOldest", "putAgain", "discard", "countOwn"}
Flushes == [step : FlushSteps, who : {"caller", "timer", "stop"}, out : Fitting,
            first : Nat, base : Nat, lost : EventSeqs]
HolderOK(h) == h = Free \/ (h \in Flushes /\ (h.first # 0 => h.first \in 1..Len(Load)))

Filled == {s \in EventSeqs : s # <<>>}
WorkerOK(w) ==
    \/ w \in {Polling, Ended, [step |-> "empty"]}
    \/ w \in [step : {"send", "sending"}, events : Filled, tried : Nat]
    \/ w \in [step : {"count"}, events : EventSeqs, base : Nat]

CallOK(c) ==
    \/ c \in {Idle, [phase |-> "returned"]}
    \/ c \in [phase : {"insert"}, events : EventSeqs, tried : Nat]
    \/ c \in [phase : {"drain"}, events : EventSeqs, left : SUBSET {Table(0), Table(1)}, allFlushed : BOOLEAN]

Types ==
    /\ accepted \in 0..Len(Load)
    /\ pending \in EventSeqs /\ rows \in EventSeqs /\ handed \in EventSeqs
    /\ file = NoFile \/ file \in EventSeqs
    /\ registered \in BOOLEAN /\ stopEvent \in BOOLEAN
    /\ late \in BOOLEAN /\ running \in BOOLEAN
    /\ handler \in {"idle", "saved"}
    /\ faults \in 0..MaxFaults /\ signals \in 0..MaxSignals
    /\ BatchOK(batch) /\ QueueOK(queue) /\ HolderOK(holder)
    /\ WorkerOK(worker) /\ CallOK(call)
    /\ timer \in {"armed", "flushing", "fired", "rearming", "off"}
    /\ stop \in {"no", "cancel", "flush", "flushing", "sentinel", "join", "close", "done"}
    /\ eventsWritten \in Nat /\ eventsDropped \in Nat
    /\ dropped \subseteq 1..accepted

\* Who is where: the batch is empty while a flush runs, the flush is that of the
\* timer or of stop() while they wait for it, and the client is called by a worker
\* that sends, with the events of its batch.
Shape ==
    /\ holder # Free => InBatch(batch) = <<>>
    /\ timer = "flushing" => holder # Free /\ holder.who = "timer"
    /\ stop = "flushing" => holder # Free /\ holder.who = "stop"
    /\ (call # Idle) <=> (worker.step = "sending")
    /\ call.phase = "insert" => call.events = worker.events

\* The client holds accepted events only, and what was saved before.
Known(s, n) == \A e \in ToSet(s) : e \in 0..n
Ranges ==
    /\ Known(pending, accepted) /\ Known(rows, accepted)
    /\ file # NoFile => Known(file, accepted)
    /\ call.phase \in {"insert", "drain"} => Known(call.events, accepted)

\* A drain has the whole queue in its hands, and what it has sent is there.
Drained ==
    call.phase = "drain" =>
        /\ ToSet(pending) \subseteq ToSet(call.events)
        /\ call.allFlushed =>
              \A e \in ToSet(call.events) : Table(e) \in call.left \/ e \in ToSet(rows)

\* Nothing on its way was dropped, and all is in the order of the calls.
Order ==
    /\ InOrder(handed \o Transit, accepted)
    /\ ToSet(handed \o Transit) \cap dropped = {}

\* A count that was begun is of events dropped already.
Counts ==
    /\ eventsDropped <= Cardinality(dropped)
    /\ holder.step \in {"countOldest", "countOwn"} =>
          holder.base + Len(holder.lost) <= Cardinality(dropped)
    /\ worker.step = "count" => worker.base + Len(worker.events) <= Cardinality(dropped)
    /\ running => eventsWritten = Len(handed) - (IF worker.step = "sending"
                                                 THEN Len(worker.events) ELSE 0)

IInv == Types /\ Shape /\ Ranges /\ Drained /\ Order /\ Counts

-----------------------------------------------------------------------------
(* The parts of the line                                                   *)

\* Lengths of sequences of events.
LEMMA Lengths ==
    /\ <<>> \in EventSeqs /\ Len(<<>>) = 0
    /\ \A s \in EventSeqs : Len(s) \in Nat /\ (Len(s) = 0 <=> s = <<>>)
    /\ \A s \in EventSeqs, e \in Nat : Append(s, e) \in EventSeqs /\ Len(Append(s, e)) = Len(s) + 1
    /\ \A e \in Nat : <<e>> \in EventSeqs /\ Len(<<e>>) = 1 /\ Append(<<>>, e) = <<e>>
<1>1. \A s \in EventSeqs : Len(s) \in Nat /\ (Len(s) = 0 <=> s = <<>>)
  BY EmptySeq DEF EventSeqs
<1>2. \A s \in EventSeqs, e \in Nat : Append(s, e) \in EventSeqs /\ Len(Append(s, e)) = Len(s) + 1
  BY DEF EventSeqs
<1>3. \A e \in Nat : <<e>> \in EventSeqs /\ Len(<<e>>) = 1 /\ Append(<<>>, e) = <<e>>
  BY DEF EventSeqs
<1> QED BY <1>1, <1>2, <1>3, EmptySeq DEF EventSeqs

\* The marks for no batch and for the sentinel are no batches.
LEMMA Marks == NoBatch \notin Batches /\ Sentinel \notin Batches /\ Load \in Seq(ToSet(Load))
BY WriterAssumption DEF Batches, EventSeqs

\* An entry of the queue carries a sequence of events.
LEMMA EntryIn == \A x \in Entries : EventsOf(x) \in EventSeqs
BY Marks, Lengths DEF Entries, Fitting, Batches, EventsOf

\* The words of a queue: what FlattenSeq joins.
Parts(q) == [i \in 1..Len(q) |-> EventsOf(q[i])]

\* The words are sequences of events.
LEMMA PartsIn ==
    ASSUME NEW q \in Seq(Entries)
    PROVE  Parts(q) \in Seq(EventSeqs) /\ Len(Parts(q)) = Len(q) /\ Len(q) \in Nat
<1>1. Len(q) \in Nat /\ \A i \in 1..Len(q) : q[i] \in Entries
  BY ElementOfSeq, LenProperties
<1>2. Parts(q) \in [1..Len(q) -> EventSeqs]
  BY <1>1, EntryIn DEF Parts
<1>3. \A n \in Nat : \A S : \A f \in [1..n -> S] : f \in Seq(S) /\ Len(f) = n
  OBVIOUS
<1> QED BY <1>1, <1>2, <1>3, Zenon

\* The events of the queue are its words joined.
LEMMA QueuedIs == \A q : Queued(q) = FlattenSeq(Parts(q))
BY Zenon DEF Queued, Parts

\* They are a sequence of events.
LEMMA QueuedIn ==
    ASSUME NEW q \in Seq(Entries)
    PROVE  Queued(q) \in EventSeqs
<1>1. Parts(q) \in Seq(Seq(Nat))
  BY PartsIn DEF EventSeqs
<1>2. FlattenSeq(Parts(q)) \in Seq(Nat)
  BY <1>1, FlattenIn
<1> QED BY <1>2, QueuedIs, Zenon DEF EventSeqs

\* An empty queue has none.
LEMMA QueuedEmpty == Queued(<<>>) = <<>>
<1>1. Parts(<<>>) = <<>>
  BY DEF Parts
<1> QED BY <1>1, QueuedIs, FlattenEmpty, Zenon

\* A batch that is put in comes behind the others.
LEMMA QueuedAppend ==
    ASSUME NEW q \in Seq(Entries), NEW x \in Entries
    PROVE  /\ Append(q, x) \in Seq(Entries) /\ Len(Append(q, x)) = Len(q) + 1
           /\ Queued(Append(q, x)) = Queued(q) \o EventsOf(x)
<1> DEFINE t == Append(q, x)
           p == Parts(q)
<1>1. /\ t \in Seq(Entries) /\ Len(t) = Len(q) + 1 /\ Len(q) \in Nat
      /\ t[Len(q) + 1] = x /\ \A i \in 1..Len(q) : t[i] = q[i]
  BY AppendFacts
<1>2. p \in Seq(Seq(Nat)) /\ Len(p) = Len(q) /\ EventsOf(x) \in Seq(Nat)
  BY PartsIn, EntryIn DEF EventSeqs
<1>3. Parts(t) = Append(p, EventsOf(x))
  <2> DEFINE u == Append(p, EventsOf(x))
             v == Parts(t)
  <2>1. /\ u \in Seq(Seq(Nat)) /\ Len(u) = Len(q) + 1
        /\ u[Len(q) + 1] = EventsOf(x) /\ \A i \in 1..Len(q) : u[i] = p[i]
    <3>1. u \in Seq(Seq(Nat)) /\ Len(u) = Len(p) + 1
          /\ u[Len(p) + 1] = EventsOf(x) /\ \A i \in 1..Len(p) : u[i] = p[i]
      BY <1>2, AppendFacts
    <3> QED BY <1>2, <3>1
  <2>2. v \in Seq(Seq(Nat)) /\ Len(v) = Len(q) + 1
    BY <1>1, PartsIn DEF EventSeqs
  <2>3. \A i \in 1..(Len(q) + 1) : v[i] = EventsOf(t[i])
    BY <1>1 DEF Parts
  <2>4. \A i \in 1..Len(q) : p[i] = EventsOf(q[i])
    BY DEF Parts
  <2>5. \A i \in 1..(Len(q) + 1) : i \in 1..Len(q) \/ i = Len(q) + 1
    BY <1>1
  <2> HIDE DEF u, v, t, p
  <2>6. \A i \in 1..(Len(q) + 1) : u[i] = v[i]
    BY <1>1, <2>1, <2>3, <2>4, <2>5
  <2>7. u = v
    BY <2>1, <2>2, <2>6, SeqEqual
  <2> QED BY <2>7, Zenon DEF u, v
<1>4. FlattenSeq(Append(p, EventsOf(x))) = FlattenSeq(p) \o EventsOf(x)
  BY <1>2, FlattenAppend
<1>5. Queued(t) = Queued(q) \o EventsOf(x)
  BY <1>3, <1>4, QueuedIs, Zenon
<1> QED BY <1>1, <1>5

\* What is taken out was in front.
LEMMA QueuedTail ==
    ASSUME NEW q \in Seq(Entries), q # <<>>
    PROVE  /\ Tail(q) \in Seq(Entries) /\ Len(Tail(q)) = Len(q) - 1 /\ Head(q) \in Entries
           /\ Len(q) \in Nat /\ Len(q) # 0
           /\ Queued(q) = EventsOf(Head(q)) \o Queued(Tail(q))
<1> DEFINE t == Tail(q)
           p == Parts(q)
<1>1. /\ t \in Seq(Entries) /\ Len(t) = Len(q) - 1 /\ Len(q) \in Nat /\ Len(q) # 0
      /\ Head(q) \in Entries /\ \A i \in 1..Len(t) : t[i] = q[i + 1]
  BY HeadTailProperties, EmptySeq
<1>2. Head(q) = q[1]
  OBVIOUS
<1>3. p \in Seq(Seq(Nat)) /\ Len(p) = Len(q)
  BY PartsIn DEF EventSeqs
<1>4. p # <<>>
  BY <1>1, <1>3
<1>5. Head(p) = EventsOf(Head(q))
  <2>1. p[1] = EventsOf(q[1])
    BY <1>1 DEF Parts
  <2> HIDE DEF p
  <2>2. Head(p) = p[1]
    BY <1>3, <1>4
  <2> QED BY <1>2, <2>1, <2>2
<1>6. Tail(p) = Parts(t)
  <2> DEFINE u == Tail(p)
             v == Parts(t)
  <2> HIDE DEF p
  <2>1. u \in Seq(Seq(Nat)) /\ Len(u) = Len(q) - 1 /\ \A i \in 1..(Len(q) - 1) : u[i] = p[i + 1]
    <3>1. u \in Seq(Seq(Nat)) /\ Len(u) = Len(p) - 1 /\ \A i \in 1..Len(u) : u[i] = p[i + 1]
      BY <1>3, <1>4, HeadTailProperties
    <3> QED BY <1>3, <3>1
  <2>2. v \in Seq(Seq(Nat)) /\ Len(v) = Len(q) - 1
    BY <1>1, PartsIn DEF EventSeqs
  <2>3. \A i \in 1..(Len(q) - 1) : v[i] = EventsOf(t[i])
    BY <1>1 DEF Parts
  <2>4. \A i \in 1..(Len(q) - 1) : i + 1 \in 1..Len(q)
    BY <1>1
  <2>5. \A j \in 1..Len(q) : p[j] = EventsOf(q[j])
    BY DEF Parts, p
  <2> HIDE DEF u, v, t
  <2>6. \A i \in 1..(Len(q) - 1) : u[i] = v[i]
    BY <1>1, <2>1, <2>3, <2>4, <2>5
  <2>7. u = v
    BY <2>1, <2>2, <2>6, SeqEqual
  <2> QED BY <2>7, Zenon DEF u, v
<1>7. FlattenSeq(p) = Head(p) \o FlattenSeq(Tail(p))
  BY <1>3, <1>4, FlattenTail
<1>8. Queued(q) = EventsOf(Head(q)) \o Queued(t)
  BY <1>5, <1>6, <1>7, QueuedIs, Zenon
<1> QED BY <1>1, <1>8

\* The events of the queue are those of its batches.
LEMMA QueuedSet ==
    ASSUME NEW q \in Seq(Entries)
    PROVE  ToSet(Queued(q)) = UNION {ToSet(b.events) : b \in ToSet(q) \ {Sentinel}}
<1>1. Parts(q) \in Seq(Seq(Nat)) /\ Len(Parts(q)) = Len(q)
  BY PartsIn DEF EventSeqs
<1>2. ToSet(Queued(q)) = Union(Parts(q), Len(q))
  BY <1>1, FlattenToSet, QueuedIs
<1>3. ToSet(q) = {q[i] : i \in 1..Len(q)}
  BY DEF ToSet
<1>4. \A i \in 1..Len(q) : Parts(q)[i] = EventsOf(q[i])
  BY DEF Parts
<1>5. ToSet(<<>>) = {}
  BY DEF ToSet
<1>6. \A e : e \in Union(Parts(q), Len(q)) <=> \E i \in 1..Len(q) : e \in ToSet(EventsOf(q[i]))
  BY <1>4, Zenon DEF Union
<1>7. \A x : ToSet(EventsOf(x)) = IF x = Sentinel THEN {} ELSE ToSet(x.events)
  BY <1>5, Zenon DEF EventsOf
<1>8. \A e : e \in Union(Parts(q), Len(q)) <=> \E x \in ToSet(q) \ {Sentinel} : e \in ToSet(x.events)
  BY <1>3, <1>6, <1>7, Zenon
<1> QED BY <1>2, <1>8, Zenon

\* The line as the state has it.
Events(w, q, h, b) == Line(AtWorker(w), Queued(q), InFlush(h), InBatch(b), Waiting(h))
T1 == Events(worker, queue, holder, batch)
T2 == Events(worker', queue', holder', batch')

\* The parts of the line are sequences of events.
LEMMA PartTypes ==
    ASSUME NEW w, NEW q, NEW h, NEW b, WorkerOK(w), QueueOK(q), HolderOK(h), BatchOK(b)
    PROVE  /\ AtWorker(w) \in EventSeqs /\ Queued(q) \in EventSeqs /\ InFlush(h) \in EventSeqs
           /\ InBatch(b) \in EventSeqs /\ Waiting(h) \in EventSeqs
<1>0. <<>> \in EventSeqs
  BY Lengths
<1>1. AtWorker(w) \in EventSeqs
  <2>1. CASE w.step = "send"
    <3>1. w \in [step : {"send", "sending"}, events : Filled, tried : Nat]
      BY <2>1 DEF WorkerOK, Polling, Ended
    <3> QED BY <2>1, <3>1 DEF AtWorker, Filled
  <2>2. CASE w.step # "send"
    BY <1>0, <2>2 DEF AtWorker
  <2> QED BY <2>1, <2>2
<1>2. Queued(q) \in EventSeqs
  BY QueuedIn DEF QueueOK
<1>3. InFlush(h) \in EventSeqs /\ Waiting(h) \in EventSeqs
  <2>1. CASE h = Free
    BY <1>0, <2>1 DEF InFlush, Waiting, Free
  <2>2. CASE h # Free
    <3>1. h \in Flushes
      BY <2>2 DEF HolderOK
    <3>2. h.first \in Nat /\ h.out \in Batches
      BY <3>1 DEF Flushes, Fitting
    <3>3. h.out.events \in EventSeqs
      BY <3>2 DEF Batches
    <3>4. <<h.first>> \in EventSeqs
      BY <3>2, Lengths
    <3> QED BY <1>0, <3>3, <3>4 DEF InFlush, Waiting
  <2> QED BY <2>1, <2>2
<1>4. InBatch(b) \in EventSeqs
  BY Lengths DEF InBatch, BatchOK, Batches
<1> QED BY <1>1, <1>2, <1>3, <1>4

\* A step begins a flush of b.
LEMMA FlushBegins ==
    ASSUME NEW who \in {"caller", "timer", "stop"}, NEW b \in Fitting, NEW first \in 0..Len(Load),
           BeginFlush(who, b, first)
    PROVE  /\ HolderOK(holder') /\ BatchOK(batch') /\ holder' # Free
           /\ holder'.who = who /\ holder'.step = "put"
           /\ InBatch(batch') = <<>> /\ InFlush(holder') = b.events
           /\ Waiting(holder') = IF first = 0 THEN <<>> ELSE <<first>>
<1>1. BatchSize \in Nat \ {0} /\ Len(Load) \in Nat
  BY WriterAssumption, Marks, LenProperties
<1>2. b \in Batches /\ batch' = [b EXCEPT !.events = <<>>]
  BY DEF BeginFlush, Fitting
<1>3. batch' \in Batches /\ batch'.events = <<>>
  BY <1>2, Lengths DEF Batches
<1>4. BatchOK(batch') /\ InBatch(batch') = <<>>
  BY <1>1, <1>3, Lengths, Marks DEF BatchOK, InBatch
<1>5. holder' = [step |-> "put", who |-> who, out |-> b, first |-> first, base |-> 0, lost |-> <<>>]
  BY DEF BeginFlush
<1>6. holder' \in Flushes
  BY <1>1, <1>5, Lengths DEF Flushes, FlushSteps
<1>7. holder' # Free /\ holder'.who = who /\ holder'.step = "put"
      /\ holder'.out = b /\ holder'.first = first
  BY <1>5 DEF Free
<1>8. HolderOK(holder')
  BY <1>1, <1>6, <1>7 DEF HolderOK
<1>9. InFlush(holder') = b.events
  BY <1>7 DEF InFlush
<1>10. Waiting(holder') = IF first = 0 THEN <<>> ELSE <<first>>
  BY <1>7 DEF Waiting
<1> QED BY <1>4, <1>7, <1>8, <1>9, <1>10

\* An event opens a batch, and flushes it when it is full already.
LEMMA BatchOpens ==
    ASSUME NEW task \in ToSet(Load), NEW e \in 1..Len(Load), OpenBatch(task, e)
    PROVE  /\ HolderOK(holder') /\ BatchOK(batch') /\ holder'.step \in {"free", "put"}
           /\ holder' # Free => InBatch(batch') = <<>> /\ holder'.who = "caller"
           /\ \A w, q \in EventSeqs :
                 Line(w, q, InFlush(holder'), InBatch(batch'), Waiting(holder'))
                    = Line(w, q, <<>>, <<>>, <<e>>)
<1> DEFINE b == [task |-> task, events |-> <<e>>]
<1>1. BatchSize \in Nat \ {0} /\ Len(Load) \in Nat /\ e \in Nat
  BY WriterAssumption, Marks, LenProperties
<1>2. b \in Batches /\ Len(b.events) = 1 /\ b.events = <<e>> /\ <<e>> \in EventSeqs
  BY <1>1, Lengths DEF Batches
<1>3. \A w, q \in EventSeqs : /\ Line(w, q, <<>>, <<e>>, <<>>) = Line(w, q, <<>>, <<>>, <<e>>)
                              /\ Line(w, q, <<e>>, <<>>, <<>>) = Line(w, q, <<>>, <<>>, <<e>>)
  <2>1. <<e>> \in EventSeqs /\ <<>> \in EventSeqs
    BY <1>2, Lengths
  <2>2. ASSUME NEW f \in EventSeqs, NEW w \in EventSeqs, NEW q \in EventSeqs
        PROVE  /\ Line(w, q, <<>>, f, <<>>) = Line(w, q, <<>>, <<>>, f)
               /\ Line(w, q, f, <<>>, <<>>) = Line(w, q, <<>>, <<>>, f)
    BY <2>1, Moves
  <2> QED BY <2>1, <2>2, Zenon
<1>4. CASE BatchSize = 1
  <2>1. BeginFlush("caller", b, 0) /\ b \in Fitting /\ 0 \in 0..Len(Load)
    BY <1>1, <1>2, <1>4 DEF OpenBatch, Fitting
  <2>2. /\ HolderOK(holder') /\ BatchOK(batch') /\ holder' # Free
        /\ holder'.who = "caller" /\ holder'.step = "put"
        /\ InBatch(batch') = <<>> /\ InFlush(holder') = b.events /\ Waiting(holder') = <<>>
    <3> HIDE DEF b
    <3> QED BY <2>1, FlushBegins
  <2> QED BY <1>2, <1>3, <2>2
<1>5. CASE BatchSize # 1
  <2>1. batch' = b /\ holder' = Free
    BY <1>5 DEF OpenBatch
  <2>2. BatchOK(batch') /\ InBatch(batch') = <<e>>
    BY <1>1, <1>2, <1>5, <2>1, Marks DEF BatchOK, InBatch
  <2>3. HolderOK(holder') /\ holder'.step = "free" /\ InFlush(holder') = <<>> /\ Waiting(holder') = <<>>
    BY <2>1 DEF HolderOK, Free, InFlush, Waiting
  <2> QED BY <1>3, <2>1, <2>2, <2>3
<1> QED BY <1>4, <1>5

\* At the end of a flush the event that waited opens a batch.
LEMMA FlushEnds ==
    ASSUME HolderOK(holder), holder # Free, BatchOK(batch), InBatch(batch) = <<>>, EndFlush
    PROVE  /\ HolderOK(holder') /\ BatchOK(batch') /\ holder'.step \in {"free", "put"}
           /\ holder' # Free => InBatch(batch') = <<>> /\ holder'.who = "caller"
           /\ \A w, q \in EventSeqs :
                 Line(w, q, InFlush(holder'), InBatch(batch'), Waiting(holder'))
                    = Line(w, q, <<>>, <<>>, Waiting(holder))
<1>1. holder \in Flushes /\ holder.first \in Nat /\ (holder.first # 0 => holder.first \in 1..Len(Load))
  BY DEF HolderOK, Flushes
<1>2. CASE holder.first # 0
  <2>1. OpenBatch(Load[holder.first], holder.first)
    BY <1>2 DEF EndFlush
  <2>2. Load[holder.first] \in ToSet(Load)
    BY <1>1, <1>2, Marks, ElementOfSeq
  <2>3. Waiting(holder) = <<holder.first>>
    BY <1>2 DEF Waiting
  <2> QED BY <1>1, <1>2, <2>1, <2>2, <2>3, BatchOpens
<1>3. CASE holder.first = 0
  <2>1. holder' = Free /\ batch' = batch
    BY <1>3 DEF EndFlush
  <2>2. HolderOK(holder') /\ holder'.step = "free" /\ InFlush(holder') = <<>>
        /\ Waiting(holder') = <<>> /\ Waiting(holder) = <<>>
    BY <1>3, <2>1 DEF HolderOK, Free, InFlush, Waiting
  <2>3. BatchOK(batch') /\ InBatch(batch') = <<>>
    BY <2>1
  <2> QED BY <2>1, <2>2, <2>3
<1> QED BY <1>2, <1>3

-----------------------------------------------------------------------------
(* What a step does to the line                                            *)

Stays == T2 = T1 /\ UNCHANGED <<handed, accepted, dropped>>
Accepts ==
    /\ T2 = Append(T1, accepted + 1)
    /\ accepted' = accepted + 1
    /\ UNCHANGED <<handed, dropped>>
Drops(M) ==
    /\ M \in EventSeqs
    /\ Cut(T1, T2, M)
    /\ dropped' = dropped \cup ToSet(M)
    /\ UNCHANGED <<handed, accepted>>
Delivers(M) ==
    /\ M \in Filled
    /\ T1 = M \o T2
    /\ handed' = handed \o M
    /\ UNCHANGED <<accepted, dropped>>
Forgets == T2 = <<>> /\ ~running' /\ UNCHANGED <<handed, accepted, dropped>>

\* So they are in every state of the invariant.
LEMMA LineTypes ==
    ASSUME Types
    PROVE  /\ AtWorker(worker) \in EventSeqs /\ Queued(queue) \in EventSeqs
           /\ InFlush(holder) \in EventSeqs /\ InBatch(batch) \in EventSeqs
           /\ Waiting(holder) \in EventSeqs
           /\ <<>> \in EventSeqs
BY PartTypes, Lengths DEF Types

\* A batch that is put moves from the flush to the queue: the line stays.
LEMMA PutStep ==
    ASSUME Types, Shape, Put
    PROVE  Types' /\ Shape' /\ Stays
<1>1. holder.step \in {"put", "putAgain"} /\ holder # Free /\ holder \in Flushes
      /\ HolderOK(holder) /\ BatchOK(batch) /\ InBatch(batch) = <<>>
  BY DEF Put, Types, Shape, HolderOK, Free
<1>2. EndFlush /\ queue' = Append(queue, holder.out) /\ Len(queue) < QueueSize
  BY DEF Put
<1>3. /\ HolderOK(holder') /\ BatchOK(batch') /\ holder'.step \in {"free", "put"}
      /\ holder' # Free => InBatch(batch') = <<>> /\ holder'.who = "caller"
      /\ \A w, q \in EventSeqs :
            Line(w, q, InFlush(holder'), InBatch(batch'), Waiting(holder'))
               = Line(w, q, <<>>, <<>>, Waiting(holder))
  BY <1>1, <1>2, FlushEnds
<1>4. holder.out \in Entries /\ holder.out # Sentinel /\ holder.out.events \in EventSeqs
  BY <1>1, Marks DEF Flushes, Entries, Fitting, Batches
<1>5. queue \in Seq(Entries) /\ Len(queue) \in Nat
  BY PartsIn DEF Types, QueueOK
<1>6. queue' \in Seq(Entries) /\ Len(queue') = Len(queue) + 1
      /\ Queued(queue') = Queued(queue) \o holder.out.events
  <2>1. EventsOf(holder.out) = holder.out.events
    BY <1>4 DEF EventsOf
  <2> QED BY <1>2, <1>4, <1>5, <2>1, QueuedAppend
<1>7. QueueOK(queue')
  BY <1>2, <1>5, <1>6, WriterAssumption DEF QueueOK
<1>8. timer' = (IF holder.who = "timer" THEN "fired" ELSE timer)
      /\ stop' = (IF holder.who = "stop" THEN "sentinel" ELSE stop)
  BY <1>2 DEF EndFlush
<1>9. UNCHANGED <<clientVars, accepted, worker, stopEvent, late, running,
                  eventsWritten, eventsDropped, dropped, handed>>
  BY DEF Put
<1>10. Types'
  BY <1>3, <1>7, <1>8, <1>9 DEF Types, clientVars
<1>11. Shape'
  BY <1>3, <1>8, <1>9 DEF Shape, clientVars
<1>12. T2 = T1
  <2>1. InFlush(holder) = holder.out.events
    BY <1>1 DEF InFlush
  <2> DEFINE w == AtWorker(worker)
             q == Queued(queue)
             h == holder.out.events
             f == Waiting(holder)
  <2>2. w \in EventSeqs /\ q \in EventSeqs /\ h \in EventSeqs /\ f \in EventSeqs
        /\ <<>> \in EventSeqs /\ q \o h \in EventSeqs
    BY <1>4, LineTypes, Closed
  <2>3. T1 = Line(w, q, h, <<>>, f)
    BY <1>1, <2>1, Zenon DEF T1, Events
  <2>4. T2 = Line(w, q \o h, InFlush(holder'), InBatch(batch'), Waiting(holder'))
    BY <1>6, <1>9, Zenon DEF T2, Events
  <2> HIDE DEF w, q, h, f
  <2>5. T2 = Line(w, q \o h, <<>>, <<>>, f)
    BY <1>3, <2>2, <2>4, Zenon DEF f
  <2> QED BY <2>2, <2>3, <2>5, Moves
<1> QED BY <1>9, <1>10, <1>11, <1>12 DEF Stays

\* Steps that touch none of the parts.
LEMMA Quiet ==
    ASSUME UNCHANGED <<worker, queue, holder, batch>>
    PROVE  T2 = T1
BY Zenon DEF T1, T2, Events

\* A full queue changes what the flush does next.
LEMMA PutFullStep ==
    ASSUME Types, Shape, PutFull
    PROVE  Types' /\ Shape' /\ Stays
<1>1. holder.step = "put" /\ holder # Free /\ holder \in Flushes /\ HolderOK(holder)
  BY DEF PutFull, Types, HolderOK, Free
<1>2. holder' = [holder EXCEPT !.step = IF DropOldest THEN "makeRoom" ELSE "discard"]
      /\ UNCHANGED <<clientVars, accepted, batch, queue, timer, worker, stop, stopEvent,
                     late, running, eventsWritten, eventsDropped, dropped, handed>>
  BY DEF PutFull
<1>3. /\ holder' \in Flushes /\ holder'.step \in {"makeRoom", "discard"}
      /\ holder'.who = holder.who /\ holder'.out = holder.out /\ holder'.first = holder.first
  BY <1>1, <1>2 DEF Flushes, FlushSteps
<1>4. holder' # Free /\ HolderOK(holder')
  BY <1>1, <1>3 DEF HolderOK, Free
<1>5. Types'
  BY <1>2, <1>4 DEF Types, clientVars
<1>6. Shape'
  BY <1>1, <1>2, <1>3, <1>4 DEF Shape, clientVars
<1>7. InFlush(holder') = InFlush(holder) /\ Waiting(holder') = Waiting(holder)
  BY <1>1, <1>3, <1>4 DEF InFlush, Waiting
<1>8. T2 = T1
  BY <1>2, <1>7, Zenon DEF T1, T2, Events
<1> QED BY <1>2, <1>5, <1>6, <1>8 DEF Stays

\* The count of the oldest batch ends.
LEMMA CountOldestStep ==
    ASSUME Types, Shape, CountOldest
    PROVE  Types' /\ Shape' /\ Stays
<1>1. holder.step = "countOldest" /\ holder # Free /\ holder \in Flushes /\ HolderOK(holder)
  BY DEF CountOldest, Types, HolderOK, Free
<1>2. holder' = [holder EXCEPT !.step = "putAgain"]
      /\ eventsDropped' = holder.base + Len(holder.lost)
      /\ UNCHANGED <<clientVars, accepted, batch, queue, timer, worker, stop, stopEvent,
                     late, running, eventsWritten, dropped, handed>>
  BY DEF CountOldest
<1>3. /\ holder' \in Flushes /\ holder'.step = "putAgain"
      /\ holder'.who = holder.who /\ holder'.out = holder.out /\ holder'.first = holder.first
  BY <1>1, <1>2 DEF Flushes, FlushSteps
<1>4. holder' # Free /\ HolderOK(holder')
  BY <1>1, <1>3 DEF HolderOK, Free
<1>5. eventsDropped' \in Nat
  <2>1. holder.base \in Nat /\ holder.lost \in EventSeqs
    BY <1>1 DEF Flushes
  <2>2. Len(holder.lost) \in Nat
    BY <2>1, Lengths
  <2> QED BY <1>2, <2>1, <2>2
<1>6. Types'
  BY <1>2, <1>4, <1>5 DEF Types, clientVars
<1>7. Shape'
  BY <1>1, <1>2, <1>3, <1>4 DEF Shape, clientVars
<1>8. InFlush(holder') = InFlush(holder) /\ Waiting(holder') = Waiting(holder)
  BY <1>1, <1>3, <1>4 DEF InFlush, Waiting
<1>9. T2 = T1
  BY <1>2, <1>8, Zenon DEF T1, T2, Events
<1> QED BY <1>2, <1>6, <1>7, <1>9 DEF Stays

\* The count of the own batch ends, and the flush with it.
LEMMA CountOwnStep ==
    ASSUME Types, Shape, CountOwn
    PROVE  Types' /\ Shape' /\ Stays
<1>1. holder.step = "countOwn" /\ holder # Free /\ holder \in Flushes
      /\ HolderOK(holder) /\ BatchOK(batch) /\ InBatch(batch) = <<>>
  BY DEF CountOwn, Types, Shape, HolderOK, Free
<1>2. EndFlush /\ eventsDropped' = holder.base + Len(holder.lost)
      /\ UNCHANGED <<clientVars, accepted, queue, worker, stopEvent, late, running,
                     eventsWritten, dropped, handed>>
  BY DEF CountOwn
<1>3. /\ HolderOK(holder') /\ BatchOK(batch') /\ holder'.step \in {"free", "put"}
      /\ holder' # Free => InBatch(batch') = <<>> /\ holder'.who = "caller"
      /\ \A w, q \in EventSeqs :
            Line(w, q, InFlush(holder'), InBatch(batch'), Waiting(holder'))
               = Line(w, q, <<>>, <<>>, Waiting(holder))
  BY <1>1, <1>2, FlushEnds
<1>4. eventsDropped' \in Nat
  <2>1. holder.base \in Nat /\ holder.lost \in EventSeqs
    BY <1>1 DEF Flushes
  <2>2. Len(holder.lost) \in Nat
    BY <2>1, Lengths
  <2> QED BY <1>2, <2>1, <2>2
<1>5. timer' = (IF holder.who = "timer" THEN "fired" ELSE timer)
      /\ stop' = (IF holder.who = "stop" THEN "sentinel" ELSE stop)
  BY <1>2 DEF EndFlush
<1>6. Types'
  BY <1>2, <1>3, <1>4, <1>5 DEF Types, clientVars
<1>7. Shape'
  BY <1>2, <1>3, <1>5 DEF Shape, clientVars
<1>8. InFlush(holder) = <<>>
  BY <1>1 DEF InFlush
<1>9. T2 = T1
  <2>1. AtWorker(worker) \in EventSeqs /\ Queued(queue) \in EventSeqs
    BY LineTypes
  <2>2. T2 = Line(AtWorker(worker), Queued(queue), InFlush(holder'), InBatch(batch'), Waiting(holder'))
    BY <1>2, Zenon DEF T2, Events
  <2>3. T1 = Line(AtWorker(worker), Queued(queue), <<>>, <<>>, Waiting(holder))
    BY <1>1, <1>8, Zenon DEF T1, Events
  <2> QED BY <1>3, <2>1, <2>2, <2>3, Zenon
<1> QED BY <1>2, <1>6, <1>7, <1>9 DEF Stays

\* The flush counts events as dropped: they leave the flush's hands or the queue.
LEMMA CountBegins ==
    ASSUME Types, holder \in Flushes, NEW s \in EventSeqs,
           NEW step \in {"countOldest", "countOwn"}, BeginCount(s, step)
    PROVE  /\ HolderOK(holder') /\ holder' # Free /\ holder'.step = step
           /\ holder'.who = holder.who /\ holder'.out = holder.out
           /\ holder'.base = eventsDropped /\ holder'.lost = s
           /\ Waiting(holder') = Waiting(holder)
           /\ InFlush(holder') = IF step = "countOwn" THEN <<>> ELSE holder.out.events
           /\ dropped' = dropped \cup ToSet(s)
<1>1. holder' = [holder EXCEPT !.step = step, !.base = eventsDropped, !.lost = s]
      /\ dropped' = dropped \cup ToSet(s)
  BY DEF BeginCount
<1>2. eventsDropped \in Nat /\ HolderOK(holder) /\ holder # Free
  BY DEF Types, Flushes, FlushSteps, Free
<1>3. holder' \in Flushes /\ holder'.step = step /\ holder'.who = holder.who
      /\ holder'.out = holder.out /\ holder'.first = holder.first
      /\ holder'.base = eventsDropped /\ holder'.lost = s
  BY <1>1, <1>2 DEF Flushes, FlushSteps
<1>4. HolderOK(holder') /\ holder' # Free
  BY <1>2, <1>3 DEF HolderOK, Free
<1>5. Waiting(holder') = Waiting(holder)
  BY <1>2, <1>3, <1>4 DEF Waiting
<1>6. InFlush(holder') = IF step = "countOwn" THEN <<>> ELSE holder.out.events
  BY <1>3 DEF InFlush
<1> QED BY <1>1, <1>3, <1>4, <1>5, <1>6

\* The line, put together from the left as Transit does.
Left(w, q, h, b, f) == w \o q \o h \o b \o f = Line(w, q, h, b, f)

\* Both ways to put the line together give the same.
LEMMA FromTheLeft ==
    \A w, q, h, b, f \in EventSeqs : Left(w, q, h, b, f)
<1> SUFFICES ASSUME NEW w \in EventSeqs, NEW q \in EventSeqs, NEW h \in EventSeqs,
                   NEW b \in EventSeqs, NEW f \in EventSeqs
            PROVE  Left(w, q, h, b, f)
  BY Zenon
<1> DEFINE x1 == b \o f
           x2 == h \o x1
<1>1. x1 \in EventSeqs /\ x2 \in EventSeqs /\ w \o q \in EventSeqs /\ (w \o q) \o h \in EventSeqs
  BY Closed, Zenon
<1>2. Assoc((w \o q) \o h, b, f) /\ Assoc(w \o q, h, x1) /\ Assoc(w, q, x2)
  BY <1>1, Together, Zenon
<1> QED BY <1>2, Zenon DEF Assoc, Line, Left

\* The line is what the model calls Transit,
LEMMA TransitIs ==
    ASSUME NEW w, NEW q, NEW h, NEW b, WorkerOK(w), QueueOK(q), HolderOK(h), BatchOK(b)
    PROVE  /\ AtWorker(w) \o Queued(q) \o InFlush(h) \o InBatch(b) \o Waiting(h) = Events(w, q, h, b)
           /\ Events(w, q, h, b) \in EventSeqs
<1>1. /\ AtWorker(w) \in EventSeqs /\ Queued(q) \in EventSeqs /\ InFlush(h) \in EventSeqs
      /\ InBatch(b) \in EventSeqs /\ Waiting(h) \in EventSeqs
  BY PartTypes
<1>2. Line(AtWorker(w), Queued(q), InFlush(h), InBatch(b), Waiting(h)) \in EventSeqs
  BY <1>1, Moves
<1>3. Left(AtWorker(w), Queued(q), InFlush(h), InBatch(b), Waiting(h))
  BY <1>1, FromTheLeft, Zenon
<1> QED BY <1>2, <1>3, Zenon DEF Events, Left

\* before a step
LEMMA TransitNow ==
    ASSUME Types
    PROVE  Transit = T1 /\ T1 \in EventSeqs
<1>1. WorkerOK(worker) /\ QueueOK(queue) /\ HolderOK(holder) /\ BatchOK(batch)
  BY DEF Types
<1>2. /\ AtWorker(worker) \o Queued(queue) \o InFlush(holder) \o InBatch(batch) \o Waiting(holder)
            = Events(worker, queue, holder, batch)
      /\ Events(worker, queue, holder, batch) \in EventSeqs
  BY <1>1, TransitIs
<1> QED BY <1>2, Zenon DEF Transit, T1

\* and after it.
LEMMA TransitThen ==
    ASSUME Types'
    PROVE  Transit' = T2 /\ T2 \in EventSeqs
<1>1. WorkerOK(worker') /\ QueueOK(queue') /\ HolderOK(holder') /\ BatchOK(batch')
  BY DEF Types
<1>2. /\ AtWorker(worker') \o Queued(queue') \o InFlush(holder') \o InBatch(batch') \o Waiting(holder')
            = Events(worker', queue', holder', batch')
      /\ Events(worker', queue', holder', batch') \in EventSeqs
  BY <1>1, TransitIs
<1>3. Transit' = AtWorker(worker') \o Queued(queue') \o InFlush(holder') \o InBatch(batch')
                    \o Waiting(holder')
  BY DEF Transit
<1> QED BY <1>2, <1>3, Zenon DEF T2

\* The events on their way were accepted, and come after those handed over.
LEMMA OnTheirWay ==
    ASSUME Types, Order
    PROVE  /\ T1 \in EventSeqs /\ accepted \in Nat /\ handed \in EventSeqs
           /\ handed \o T1 \in EventSeqs
           /\ InOrder(handed \o T1, accepted)
           /\ ToSet(handed \o T1) = ToSet(handed) \cup ToSet(T1)
           /\ (ToSet(handed) \cup ToSet(T1)) \cap dropped = {}
           /\ \A e \in ToSet(handed) \cup ToSet(T1) : e \in 1..accepted
           /\ ToSet(T1) = ToSet(AtWorker(worker)) \cup ToSet(Queued(queue)) \cup ToSet(InFlush(holder))
                             \cup ToSet(InBatch(batch)) \cup ToSet(Waiting(holder))
<1>1. Transit = T1 /\ T1 \in EventSeqs
  BY TransitNow
<1>2. handed \in EventSeqs /\ accepted \in Nat
  <2>1. Len(Load) \in Nat
    BY Marks, LenProperties
  <2> QED BY <2>1 DEF Types
<1>3. handed \o T1 \in EventSeqs
  BY <1>1, <1>2, Closed, Zenon
<1>4. InOrder(handed \o T1, accepted) /\ ToSet(handed \o T1) \cap dropped = {}
  BY <1>1, Zenon DEF Order
<1>5. ToSet(handed \o T1) = ToSet(handed) \cup ToSet(T1)
  BY <1>1, <1>2, ConcatSets, ZenonT(30) DEF EventSeqs
<1>6. \A e \in ToSet(handed \o T1) : e \in 1..accepted
  BY <1>2, <1>3, <1>4, OrderEnters
<1>7. ToSet(T1) = ToSet(AtWorker(worker)) \cup ToSet(Queued(queue)) \cup ToSet(InFlush(holder))
                     \cup ToSet(InBatch(batch)) \cup ToSet(Waiting(holder))
  <2>1. ToSet(Line(AtWorker(worker), Queued(queue), InFlush(holder), InBatch(batch), Waiting(holder)))
           = ToSet(AtWorker(worker)) \cup ToSet(Queued(queue)) \cup ToSet(InFlush(holder))
                \cup ToSet(InBatch(batch)) \cup ToSet(Waiting(holder))
    BY LineTypes, LineSet
  <2> QED BY <2>1, Zenon DEF T1, Events
<1> QED BY <1>1, <1>2, <1>3, <1>4, <1>5, <1>6, <1>7

\* The oldest entry leaves the queue: the sentinel, or a batch that is dropped.
LEMMA MakeRoomStep ==
    ASSUME Types, Shape, Order, MakeRoom
    PROVE  /\ Types' /\ Shape'
           /\ \/ Stays /\ holder'.step = "putAgain"
              \/ Drops(holder'.lost) /\ holder'.base = eventsDropped
<1>1. holder.step = "makeRoom" /\ holder # Free /\ holder \in Flushes /\ HolderOK(holder)
  BY DEF MakeRoom, Types, HolderOK, Free
<1>2. queue # <<>> /\ queue' = Tail(queue)
      /\ UNCHANGED <<clientVars, accepted, batch, timer, worker, stop, stopEvent,
                     late, running, eventsWritten, eventsDropped, handed>>
  BY DEF MakeRoom
<1>3. queue \in Seq(Entries) /\ Len(queue) <= QueueSize /\ QueueSize \in Nat
  BY WriterAssumption DEF Types, QueueOK
<1>4. queue' \in Seq(Entries) /\ Len(queue') = Len(queue) - 1 /\ Head(queue) \in Entries
      /\ Len(queue) \in Nat
      /\ Queued(queue) = EventsOf(Head(queue)) \o Queued(queue')
  BY <1>2, <1>3, QueuedTail
<1>5. QueueOK(queue')
  BY <1>3, <1>4 DEF QueueOK
<1>6. InFlush(holder) = holder.out.events
  BY <1>1 DEF InFlush
<1> DEFINE w == AtWorker(worker)
           x == EventsOf(Head(queue))
           q == Queued(queue')
           h == holder.out.events
           b == InBatch(batch)
           f == Waiting(holder)
<1>7. w \in EventSeqs /\ x \in EventSeqs /\ q \in EventSeqs /\ h \in EventSeqs
      /\ b \in EventSeqs /\ f \in EventSeqs /\ <<>> \in EventSeqs
  BY <1>4, <1>6, LineTypes, QueuedIn, EntryIn
<1>8. T1 = Line(w, x \o q, h, b, f)
  BY <1>4, <1>6, Zenon DEF T1, Events
<1>9. CASE Head(queue) = Sentinel
  <2>1. holder' = [holder EXCEPT !.step = "putAgain"] /\ UNCHANGED dropped
    BY <1>9 DEF MakeRoom
  <2>2. /\ holder' \in Flushes /\ holder'.step = "putAgain"
        /\ holder'.who = holder.who /\ holder'.out = holder.out /\ holder'.first = holder.first
    BY <1>1, <2>1 DEF Flushes, FlushSteps
  <2>3. holder' # Free /\ HolderOK(holder')
    BY <1>1, <2>2 DEF HolderOK, Free
  <2>4. Types'
    BY <1>2, <1>5, <2>1, <2>3 DEF Types, clientVars
  <2>5. Shape'
    BY <1>1, <1>2, <2>2, <2>3 DEF Shape, clientVars
  <2>6. InFlush(holder') = h /\ Waiting(holder') = f
    BY <1>1, <2>2, <2>3 DEF InFlush, Waiting
  <2>7. x = <<>>
    BY <1>9 DEF EventsOf
  <2>8. x \o q = q
    BY <1>7, <2>7, Nothing
  <2>9. T2 = Line(w, q, h, b, f)
    BY <1>2, <2>6, Zenon DEF T2, Events
  <2>10. T2 = T1
    BY <1>8, <2>8, <2>9, Zenon
  <2> QED BY <1>2, <2>1, <2>2, <2>4, <2>5, <2>10 DEF Stays
<1>10. CASE Head(queue) # Sentinel
  <2>1. BeginCount(Head(queue).events, "countOldest")
    BY <1>10 DEF MakeRoom
  <2>2. x = Head(queue).events
    BY <1>10 DEF EventsOf
  <2>3. /\ HolderOK(holder') /\ holder' # Free /\ holder'.step = "countOldest"
        /\ holder'.who = holder.who /\ holder'.out = holder.out
        /\ holder'.base = eventsDropped /\ holder'.lost = x
        /\ Waiting(holder') = Waiting(holder) /\ InFlush(holder') = h
        /\ dropped' = dropped \cup ToSet(x)
    BY <1>1, <1>7, <2>1, <2>2, CountBegins
  <2>4. ToSet(x) \subseteq 1..accepted
    <3>0. \A s, t \in EventSeqs : ToSet(s \o t) = ToSet(s) \cup ToSet(t)
      BY ConcatSet DEF EventSeqs
    <3>1. ToSet(x \o q) = ToSet(x) \cup ToSet(q) /\ Queued(queue) = x \o q
      BY <1>4, <1>7, <3>0, Zenon
    <3> QED BY <3>1, OnTheirWay
  <2>5. Types'
    BY <1>2, <1>5, <2>3, <2>4, ZenonT(30) DEF Types, clientVars
  <2>6. Shape'
    BY <1>1, <1>2, <2>3 DEF Shape, clientVars
  <2>7. T2 = Line(w, q, h, b, f)
    BY <1>2, <2>3, Zenon DEF T2, Events
  <2> HIDE DEF w, x, q, h, b, f
  <2>8. Cut(T1, T2, x)
    BY <1>7, <1>8, <2>7, CutFromLine
  <2>9. Drops(x)
    BY <1>2, <1>7, <2>3, <2>8 DEF Drops
  <2> QED BY <2>3, <2>5, <2>6, <2>9
<1> QED BY <1>9, <1>10

\* The batch of the flush is dropped.
LEMMA DiscardStep ==
    ASSUME Types, Shape, Order, Discard
    PROVE  Types' /\ Shape' /\ Drops(holder'.lost) /\ holder'.base = eventsDropped
<1>1. holder.step \in {"discard", "makeRoom", "putAgain"} /\ holder # Free
      /\ holder \in Flushes /\ HolderOK(holder)
  BY DEF Discard, Types, HolderOK, Free
<1>2. BeginCount(holder.out.events, "countOwn")
      /\ UNCHANGED <<clientVars, accepted, batch, queue, timer, worker, stop, stopEvent,
                     late, running, eventsWritten, eventsDropped, handed>>
  BY DEF Discard
<1> DEFINE w == AtWorker(worker)
           q == Queued(queue)
           h == holder.out.events
           b == InBatch(batch)
           f == Waiting(holder)
<1>3. InFlush(holder) = h
  BY <1>1 DEF InFlush
<1>4. w \in EventSeqs /\ q \in EventSeqs /\ h \in EventSeqs
      /\ b \in EventSeqs /\ f \in EventSeqs
  BY <1>3, LineTypes
<1>5. /\ HolderOK(holder') /\ holder' # Free /\ holder'.step = "countOwn"
      /\ holder'.who = holder.who /\ holder'.base = eventsDropped /\ holder'.lost = h
      /\ Waiting(holder') = f /\ InFlush(holder') = <<>>
      /\ dropped' = dropped \cup ToSet(h)
  BY <1>1, <1>2, <1>4, CountBegins
<1>6. ToSet(h) \subseteq 1..accepted
  BY <1>3, OnTheirWay
<1>7. Types'
  BY <1>2, <1>5, <1>6, ZenonT(30) DEF Types, clientVars
<1>8. Shape'
  BY <1>1, <1>2, <1>5 DEF Shape, clientVars
<1>9. T1 = Line(w, q, h, b, f)
  BY <1>3, Zenon DEF T1, Events
<1>10. T2 = Line(w, q, <<>>, b, f)
  BY <1>2, <1>5, Zenon DEF T2, Events
<1> HIDE DEF w, q, h, b, f
<1>11. Cut(T1, T2, h)
  BY <1>4, <1>9, <1>10, CutFromLine
<1>12. Drops(h)
  BY <1>2, <1>4, <1>5, <1>11 DEF Drops
<1> QED BY <1>5, <1>7, <1>8, <1>12

\* The bounds are numbers.
LEMMA Bounds == BatchSize \in Nat /\ BatchSize # 0 /\ QueueSize \in Nat /\ MaxRetries \in Nat
BY WriterAssumption

\* An accepted event comes last, with its batch, behind it or in a batch of its own.
LEMMA WriteStep ==
    ASSUME Types, Shape, Write
    PROVE  Types' /\ Shape' /\ Accepts
<1> DEFINE e == accepted + 1
           w == AtWorker(worker)
           q == Queued(queue)
           s == InBatch(batch)
<1>1. /\ accepted < Len(Load) /\ holder = Free /\ accepted' = e
      /\ UNCHANGED <<clientVars, queue, timer, worker, stop, stopEvent, late,
                     running, eventsWritten, eventsDropped, dropped, handed>>
  BY DEF Write
<1>2. accepted \in Nat /\ Len(Load) \in Nat /\ e \in 1..Len(Load) /\ e \in Nat /\ e # 0
      /\ e \in 0..Len(Load) /\ dropped \subseteq 1..e /\ Load[e] \in ToSet(Load)
  <2>1. Len(Load) \in Nat
    BY Marks, LenProperties
  <2>2. e \in 1..Len(Load) /\ accepted \in Nat
    BY <1>1, <2>1 DEF Types
  <2>3. Load[e] \in ToSet(Load)
    BY <2>2, Marks, ElementOfSeq
  <2> QED BY <2>1, <2>2, <2>3 DEF Types
<1>3. w \in EventSeqs /\ q \in EventSeqs /\ s \in EventSeqs /\ <<>> \in EventSeqs
  BY LineTypes
<1>4. T1 = Line(w, q, <<>>, s, <<>>)
  <2>1. InFlush(holder) = <<>> /\ Waiting(holder) = <<>>
    BY <1>1 DEF InFlush, Waiting, Free
  <2> QED BY <2>1, Zenon DEF T1, Events
<1>5. T2 = Line(w, q, InFlush(holder'), InBatch(batch'), Waiting(holder'))
  BY <1>1, Zenon DEF T2, Events
<1> HIDE DEF w, q, e
<1>6. /\ Line(w, q, <<>>, Append(s, e), <<>>) = Append(T1, e)
      /\ Line(w, q, Append(s, e), <<>>, <<>>) = Append(T1, e)
      /\ Line(w, q, s, <<>>, <<e>>) = Append(T1, e)
  <2> HIDE DEF s
  <2>1. /\ Line(w, q, <<>>, Append(s, e), <<>>) = Append(Line(w, q, <<>>, s, <<>>), e)
        /\ Line(w, q, Append(s, e), <<>>, <<>>) = Append(Line(w, q, <<>>, s, <<>>), e)
        /\ Line(w, q, s, <<>>, <<e>>) = Append(Line(w, q, <<>>, s, <<>>), e)
    <3>1. \A x, y, b \in EventSeqs, f \in Nat : ComesLast(x, y, b, f)
      BY Enters
    <3>2. ComesLast(w, q, s, e)
      BY <1>2, <1>3, <3>1, ZenonT(30)
    <3> QED BY <3>2, Zenon DEF ComesLast
  <2> QED BY <1>4, <2>1, Zenon
<1>7. CASE batch = NoBatch \/ batch.task # Load[e] \/ Len(batch.events) >= BatchSize
  <2>1. CASE HasEvents(batch)
    <3>1. BeginFlush("caller", batch, e)
      BY <1>7, <2>1 DEF Write, e
    <3>2. batch \in Fitting /\ s = batch.events
      <4>1. batch # NoBatch /\ batch.events # <<>>
        BY <2>1 DEF HasEvents
      <4>2. batch \in Batches /\ Len(batch.events) < BatchSize
        BY <4>1 DEF Types, BatchOK
      <4>3. batch.events \in EventSeqs
        BY <4>2 DEF Batches
      <4>4. Len(batch.events) \in 1..BatchSize
        <5>1. Len(batch.events) \in Nat /\ Len(batch.events) # 0
          BY <4>1, <4>3, Lengths
        <5> QED BY <4>2, <5>1, Bounds
      <4> QED BY <4>1, <4>2, <4>4 DEF Fitting, InBatch
    <3>3. /\ HolderOK(holder') /\ BatchOK(batch') /\ holder' # Free
          /\ InBatch(batch') = <<>> /\ InFlush(holder') = s
          /\ Waiting(holder') = IF e = 0 THEN <<>> ELSE <<e>>
      BY <1>2, <3>1, <3>2, FlushBegins
    <3>4. T2 = Line(w, q, s, <<>>, <<e>>)
      BY <1>2, <1>5, <3>3, Zenon
    <3>5. T2 = Append(T1, e)
      BY <1>6, <3>4, Zenon
    <3>6. Types'
      BY <1>1, <1>2, <3>3 DEF Types, clientVars
    <3>7. Shape'
      BY <1>1, <3>3 DEF Shape, clientVars
    <3> QED BY <1>1, <3>5, <3>6, <3>7 DEF Accepts, e
  <2>2. CASE ~ HasEvents(batch)
    <3>1. OpenBatch(Load[e], e)
      BY <1>7, <2>2 DEF Write, e
    <3>2. /\ HolderOK(holder') /\ BatchOK(batch')
          /\ holder' # Free => InBatch(batch') = <<>>
          /\ \A u, v \in EventSeqs :
                Line(u, v, InFlush(holder'), InBatch(batch'), Waiting(holder'))
                   = Line(u, v, <<>>, <<>>, <<e>>)
      BY <1>2, <3>1, BatchOpens
    <3>3. s = <<>>
      BY <2>2 DEF HasEvents, InBatch
    <3>4. T2 = Line(w, q, <<>>, <<>>, <<e>>)
      BY <1>3, <1>5, <3>2, Zenon
    <3>5. T2 = Append(T1, e)
      <4> HIDE DEF s
      <4> QED BY <1>6, <3>3, <3>4, Zenon
    <3>6. Types'
      BY <1>1, <1>2, <3>2 DEF Types, clientVars
    <3>7. Shape'
      BY <1>1, <3>2 DEF Shape, clientVars
    <3> QED BY <1>1, <3>5, <3>6, <3>7 DEF Accepts, e
  <2> QED BY <2>1, <2>2
<1>8. CASE ~ (batch = NoBatch \/ batch.task # Load[e] \/ Len(batch.events) >= BatchSize)
  <2> DEFINE b == [batch EXCEPT !.events = Append(@, e)]
  <2>1. batch \in Batches /\ batch # NoBatch /\ s = batch.events /\ Len(batch.events) < BatchSize
    BY <1>8 DEF Types, BatchOK, InBatch
  <2>2. batch.events \in EventSeqs /\ Len(batch.events) \in Nat
    BY <2>1, Lengths DEF Batches
  <2>3. Append(batch.events, e) \in EventSeqs /\ Len(Append(batch.events, e)) = Len(batch.events) + 1
    BY <1>2, <2>2, Lengths
  <2>4. b \in Batches /\ b.events = Append(s, e) /\ Len(b.events) \in 1..BatchSize
    <3>1. b \in Batches /\ b.events = Append(batch.events, e)
      BY <2>1, <2>3 DEF Batches
    <3>2. Len(batch.events) + 1 \in 1..BatchSize
      BY <2>1, <2>2, Bounds
    <3> QED BY <2>1, <2>3, <3>1, <3>2
  <2>5. IF Len(b.events) >= BatchSize THEN BeginFlush("caller", b, 0) ELSE batch' = b /\ holder' = Free
    BY <1>8 DEF Write, e
  <2>6. CASE Len(b.events) >= BatchSize
    <3>1. BeginFlush("caller", b, 0) /\ b \in Fitting /\ 0 \in 0..Len(Load)
      <4>1. BeginFlush("caller", b, 0)
        BY <2>5, <2>6
      <4>2. 0 \in 0..Len(Load)
        BY <1>2
      <4> HIDE DEF b
      <4> QED BY <2>4, <4>1, <4>2 DEF Fitting
    <3>2. /\ HolderOK(holder') /\ BatchOK(batch') /\ holder' # Free
          /\ InBatch(batch') = <<>> /\ InFlush(holder') = b.events /\ Waiting(holder') = <<>>
      <4> HIDE DEF b
      <4> QED BY <3>1, FlushBegins
    <3>3. T2 = Line(w, q, Append(s, e), <<>>, <<>>)
      BY <1>5, <2>4, <3>2, Zenon
    <3>4. T2 = Append(T1, e)
      BY <1>6, <3>3, Zenon
    <3>5. Types'
      BY <1>1, <1>2, <3>2 DEF Types, clientVars
    <3>6. Shape'
      BY <1>1, <3>2 DEF Shape, clientVars
    <3> QED BY <1>1, <3>4, <3>5, <3>6 DEF Accepts, e
  <2>7. CASE ~ Len(b.events) >= BatchSize
    <3>1. batch' = b /\ holder' = Free
      BY <2>5, <2>7
    <3>2. BatchOK(batch') /\ InBatch(batch') = Append(s, e)
      <4> HIDE DEF b
      <4>1. Len(b.events) < BatchSize
        BY <2>4, <2>7, Bounds
      <4>2. b # NoBatch
        BY <2>4, Marks
      <4> QED BY <2>4, <3>1, <4>1, <4>2 DEF BatchOK, InBatch
    <3>3. HolderOK(holder') /\ InFlush(holder') = <<>> /\ Waiting(holder') = <<>>
      BY <3>1 DEF HolderOK, Free, InFlush, Waiting
    <3>4. T2 = Line(w, q, <<>>, Append(s, e), <<>>)
      BY <1>5, <3>2, <3>3, Zenon
    <3>5. T2 = Append(T1, e)
      BY <1>6, <3>4, Zenon
    <3>6. Types'
      BY <1>1, <1>2, <3>2, <3>3 DEF Types, clientVars
    <3>7. Shape'
      BY <1>1, <3>1 DEF Shape, clientVars
    <3> QED BY <1>1, <3>5, <3>6, <3>7 DEF Accepts, e
  <2> QED BY <2>6, <2>7
<1> QED BY <1>7, <1>8

\* A flush of the timer or of stop() takes the batch, and the line stays.
LEMMA FlushKeeps ==
    ASSUME Types, holder = Free, HasEvents(batch), NEW who \in {"timer", "stop"},
           BeginFlush(who, batch, 0), UNCHANGED <<worker, queue>>
    PROVE  /\ HolderOK(holder') /\ BatchOK(batch') /\ holder' # Free
           /\ holder'.who = who /\ InBatch(batch') = <<>> /\ holder'.step = "put"
           /\ T2 = T1
<1>1. batch # NoBatch /\ batch.events # <<>>
  BY DEF HasEvents
<1>2. batch \in Batches /\ Len(batch.events) < BatchSize /\ InBatch(batch) = batch.events
  BY <1>1 DEF Types, BatchOK, InBatch
<1>3. batch.events \in EventSeqs
  BY <1>2 DEF Batches
<1>4. batch \in Fitting
  <2>1. Len(batch.events) \in Nat /\ Len(batch.events) # 0
    BY <1>1, <1>3, Lengths
  <2>2. Len(batch.events) \in 1..BatchSize
    BY <1>2, <2>1, Bounds
  <2> QED BY <1>2, <2>2 DEF Fitting
<1>5. 0 \in 0..Len(Load)
  BY Marks, LenProperties
<1>6. /\ HolderOK(holder') /\ BatchOK(batch') /\ holder' # Free
      /\ holder'.who = who /\ holder'.step = "put"
      /\ InBatch(batch') = <<>> /\ InFlush(holder') = batch.events /\ Waiting(holder') = <<>>
  BY <1>4, <1>5, FlushBegins
<1> DEFINE w == AtWorker(worker)
           q == Queued(queue)
           b == batch.events
<1>7. w \in EventSeqs /\ q \in EventSeqs /\ b \in EventSeqs /\ <<>> \in EventSeqs
  BY <1>3, LineTypes
<1>8. T1 = Line(w, q, <<>>, b, <<>>)
  <2>1. InFlush(holder) = <<>> /\ Waiting(holder) = <<>>
    BY DEF InFlush, Waiting, Free
  <2> QED BY <1>2, <2>1, Zenon DEF T1, Events
<1>9. T2 = Line(w, q, b, <<>>, <<>>)
  BY <1>6, Zenon DEF T2, Events
<1> HIDE DEF w, q, b
<1>10. T2 = T1
  BY <1>7, <1>8, <1>9, Moves
<1> QED BY <1>6, <1>10

\* The timer begins a flush when there is something to flush.
LEMMA TimerFiresStep ==
    ASSUME Types, Shape, TimerFires
    PROVE  Types' /\ Shape' /\ Stays
<1>1. /\ holder = Free
      /\ UNCHANGED <<clientVars, accepted, queue, worker, stop, stopEvent, late,
                     running, eventsWritten, eventsDropped, dropped, handed>>
  BY DEF TimerFires
<1>2. CASE HasEvents(batch)
  <2>1. BeginFlush("timer", batch, 0) /\ timer' = "flushing"
    BY <1>2 DEF TimerFires
  <2>2. /\ HolderOK(holder') /\ BatchOK(batch') /\ holder' # Free
        /\ holder'.who = "timer" /\ InBatch(batch') = <<>> /\ T2 = T1
    BY <1>1, <1>2, <2>1, FlushKeeps
  <2>3. Types'
    BY <1>1, <2>1, <2>2 DEF Types, clientVars
  <2>4. Shape'
    BY <1>1, <2>1, <2>2 DEF Shape, clientVars
  <2> QED BY <1>1, <2>2, <2>3, <2>4 DEF Stays
<1>3. CASE ~ HasEvents(batch)
  <2>1. timer' = "fired" /\ UNCHANGED <<batch, holder>>
    BY <1>3 DEF TimerFires
  <2>2. T2 = T1
    BY <1>1, <2>1, Quiet
  <2>3. Types'
    BY <1>1, <2>1 DEF Types, clientVars
  <2>4. Shape'
    BY <1>1, <2>1 DEF Shape, clientVars
  <2> QED BY <1>1, <2>2, <2>3, <2>4 DEF Stays
<1> QED BY <1>2, <1>3

\* The timer is armed again, or not.
LEMMA ScheduleFlushStep ==
    ASSUME Types, Shape, ScheduleFlush
    PROVE  Types' /\ Shape' /\ Stays
<1>1. timer' \in {"off", "rearming", "armed"}
  BY DEF ScheduleFlush
<1>2. UNCHANGED <<clientVars, accepted, batch, queue, holder, worker, stop, stopEvent,
                  late, running, eventsWritten, eventsDropped, dropped, handed>>
  BY DEF ScheduleFlush
<1>3. T2 = T1
  BY <1>2, Quiet
<1>4. Types'
  BY <1>1, <1>2 DEF Types, clientVars
<1>5. Shape'
  BY <1>1, <1>2 DEF Shape, clientVars
<1> QED BY <1>2, <1>3, <1>4, <1>5 DEF Stays

\* What is known of the worker at each of its steps.
LEMMA WorkerIs ==
    ASSUME NEW w, WorkerOK(w)
    PROVE  /\ w.step = "poll" => w = Polling
           /\ w.step = "empty" => w = [step |-> "empty"]
           /\ w.step \in {"send", "sending"} =>
                 w \in [step : {"send", "sending"}, events : Filled, tried : Nat]
           /\ w.step = "count" => w \in [step : {"count"}, events : EventSeqs, base : Nat]
           /\ w.step # "send" => AtWorker(w) = <<>>
           /\ w.step = "send" => AtWorker(w) = w.events
BY DEF WorkerOK, Polling, Ended, AtWorker

\* The worker takes the oldest batch: the line stays.
LEMMA WorkerGetsStep ==
    ASSUME Types, Shape, WorkerGets
    PROVE  Types' /\ Shape' /\ Stays
<1>1. /\ worker.step = "poll" /\ queue # <<>> /\ queue' = Tail(queue)
      /\ UNCHANGED <<clientVars, accepted, batch, holder, timer, stop, stopEvent, late, running,
                     eventsWritten, eventsDropped, dropped, handed>>
  BY DEF WorkerGets, WorkerUnchanged
<1>2. worker = Polling /\ AtWorker(worker) = <<>>
  BY <1>1, WorkerIs DEF Types
<1>3. queue \in Seq(Entries) /\ Len(queue) <= QueueSize /\ QueueSize \in Nat
  BY Bounds DEF Types, QueueOK
<1>4. queue' \in Seq(Entries) /\ Len(queue') = Len(queue) - 1 /\ Head(queue) \in Entries
      /\ Len(queue) \in Nat
      /\ Queued(queue) = EventsOf(Head(queue)) \o Queued(queue')
  BY <1>1, <1>3, QueuedTail
<1>5. QueueOK(queue')
  BY <1>3, <1>4 DEF QueueOK
<1> DEFINE x == EventsOf(Head(queue))
           q == Queued(queue')
           h == InFlush(holder)
           b == InBatch(batch)
           f == Waiting(holder)
<1>6. x \in EventSeqs /\ q \in EventSeqs /\ h \in EventSeqs
      /\ b \in EventSeqs /\ f \in EventSeqs /\ <<>> \in EventSeqs
  BY <1>4, LineTypes, QueuedIn, EntryIn
<1>7. WorkerOK(worker') /\ worker'.step # "sending" /\ worker'.step # "count" /\ AtWorker(worker') = x
  <2>1. CASE Head(queue) = Sentinel
    <3>1. worker' = Ended
      BY <2>1 DEF WorkerGets
    <3> QED BY <2>1, <3>1 DEF WorkerOK, Ended, AtWorker, EventsOf
  <2>2. CASE Head(queue) # Sentinel
    <3>1. worker' = [step |-> "send", events |-> Head(queue).events, tried |-> 0]
      BY <2>2 DEF WorkerGets
    <3>2. Head(queue) \in Batches /\ Len(Head(queue).events) \in 1..BatchSize
      BY <1>4, <2>2 DEF Entries, Fitting
    <3>3. Head(queue).events \in EventSeqs
      BY <3>2 DEF Batches
    <3>4. Head(queue).events \in Filled
      <4>1. Len(Head(queue).events) # 0
        BY <3>2, Bounds
      <4>2. Head(queue).events # <<>>
        BY <3>3, <4>1, Lengths
      <4> QED BY <3>3, <4>2, Zenon DEF Filled
    <3>5. worker' \in [step : {"send", "sending"}, events : Filled, tried : Nat]
      BY <3>1, <3>4
    <3> QED BY <2>2, <3>1, <3>5 DEF WorkerOK, AtWorker, EventsOf
  <2> QED BY <2>1, <2>2
<1>8. call = Idle
  BY <1>1 DEF Shape
<1>9. Types'
  BY <1>1, <1>5, <1>7 DEF Types, clientVars
<1>10. Shape'
  BY <1>1, <1>7, <1>8 DEF Shape, clientVars, Idle
<1>11. T1 = Line(<<>>, x \o q, h, b, f)
  BY <1>2, <1>4, Zenon DEF T1, Events
<1>12. T2 = Line(x, q, h, b, f)
  BY <1>1, <1>7, Zenon DEF T2, Events
<1> HIDE DEF x, q, h, b, f
<1>13. Line(<<>>, x \o q, h, b, f) = Line(x, q, h, b, f)
  BY <1>6, Moves
<1>14. T2 = T1
  BY <1>11, <1>12, <1>13, Zenon
<1> QED BY <1>1, <1>9, <1>10, <1>14 DEF Stays

\* The worker has nothing in its hands before the step and after.
LEMMA WorkerIdles ==
    ASSUME AtWorker(worker) = <<>>, AtWorker(worker') = <<>>, UNCHANGED <<queue, holder, batch>>
    PROVE  T2 = T1
BY Zenon DEF T1, T2, Events

\* The poll of the worker ends without a batch.
LEMMA WorkerPollsEmptyStep ==
    ASSUME Types, Shape, WorkerPollsEmpty
    PROVE  Types' /\ Shape' /\ Stays
<1>1. /\ worker.step = "poll" /\ worker' = [step |-> "empty"]
      /\ UNCHANGED <<clientVars, accepted, batch, queue, holder, timer, stop, stopEvent, late, running,
                     eventsWritten, eventsDropped, dropped, handed>>
  BY DEF WorkerPollsEmpty, WorkerUnchanged
<1>2. WorkerOK(worker') /\ worker'.step = "empty" /\ AtWorker(worker') = <<>> /\ AtWorker(worker) = <<>>
  BY <1>1 DEF WorkerOK, AtWorker
<1>3. call = Idle
  BY <1>1 DEF Shape
<1>4. Types'
  BY <1>1, <1>2 DEF Types, clientVars
<1>5. Shape'
  BY <1>1, <1>2, <1>3 DEF Shape, clientVars, Idle
<1>6. T2 = T1
  BY <1>1, <1>2, WorkerIdles
<1> QED BY <1>1, <1>4, <1>5, <1>6 DEF Stays

\* The worker goes on, or ends.
LEMMA WorkerLooksAtStopStep ==
    ASSUME Types, Shape, WorkerLooksAtStop
    PROVE  Types' /\ Shape' /\ Stays
<1>1. /\ worker.step = "empty" /\ worker' \in {Ended, Polling}
      /\ UNCHANGED <<clientVars, accepted, batch, queue, holder, timer, stop, stopEvent, late, running,
                     eventsWritten, eventsDropped, dropped, handed>>
  BY DEF WorkerLooksAtStop, WorkerUnchanged
<1>2. WorkerOK(worker') /\ worker'.step \in {"ended", "poll"} /\ AtWorker(worker') = <<>>
      /\ AtWorker(worker) = <<>>
  BY <1>1 DEF WorkerOK, AtWorker, Ended, Polling
<1>3. call = Idle
  BY <1>1 DEF Shape
<1>4. Types'
  BY <1>1, <1>2 DEF Types, clientVars
<1>5. Shape'
  BY <1>1, <1>2, <1>3 DEF Shape, clientVars, Idle
<1>6. T2 = T1
  BY <1>1, <1>2, WorkerIdles
<1> QED BY <1>1, <1>4, <1>5, <1>6 DEF Stays

\* What the worker hands to the client leaves the line at the front.
LEMMA WorkerSendsStep ==
    ASSUME Types, Shape, WorkerSends
    PROVE  Types' /\ Shape' /\ Delivers(worker.events)
<1> DEFINE w == worker.events
<1>1. /\ worker.step = "send" /\ worker' = [worker EXCEPT !.step = "sending"]
      /\ call' = [phase |-> "insert", events |-> w, tried |-> 0]
      /\ handed' = handed \o w
      /\ UNCHANGED <<pending, rows, file, registered, handler, faults, signals, accepted, batch, queue,
                     holder, timer, stop, stopEvent, late, running, eventsWritten, eventsDropped, dropped>>
  BY DEF WorkerSends, WorkerUnchanged, StartCall
<1>2. worker \in [step : {"send", "sending"}, events : Filled, tried : Nat] /\ AtWorker(worker) = w
  BY <1>1, WorkerIs DEF Types
<1>3. w \in Filled /\ w \in EventSeqs /\ w # <<>>
  BY <1>2 DEF Filled
<1>4. worker' \in [step : {"send", "sending"}, events : Filled, tried : Nat]
      /\ worker'.step = "sending" /\ worker'.events = w
  BY <1>1, <1>2
<1>5. WorkerOK(worker') /\ AtWorker(worker') = <<>>
  BY <1>4 DEF WorkerOK, AtWorker
<1>6. CallOK(call') /\ call' # Idle /\ call'.phase = "insert" /\ call'.events = w
  BY <1>1, <1>3 DEF CallOK, Idle
<1>7. handed' \in EventSeqs
  <2>1. handed \in EventSeqs
    BY DEF Types
  <2> QED BY <1>1, <1>3, <2>1, Closed
<1>8. Types'
  BY <1>1, <1>5, <1>6, <1>7 DEF Types
<1>9. Shape'
  BY <1>1, <1>4, <1>6 DEF Shape
<1>10. T1 = w \o T2
  <2> DEFINE q == Queued(queue)
             h == InFlush(holder)
             b == InBatch(batch)
             f == Waiting(holder)
  <2>1. q \in EventSeqs /\ h \in EventSeqs /\ b \in EventSeqs /\ f \in EventSeqs
    BY LineTypes
  <2>2. T1 = Line(w, q, h, b, f)
    BY <1>2, Zenon DEF T1, Events
  <2>3. T2 = Line(<<>>, q, h, b, f)
    BY <1>1, <1>5, Zenon DEF T2, Events
  <2> HIDE DEF w, q, h, b, f
  <2>4. w \in EventSeqs
    BY <1>3
  <2>5. Leads(w, q, h, b, f)
    BY <2>1, <2>4, WorkerInFront, Zenon
  <2> QED BY <2>2, <2>3, <2>5, Zenon DEF Leads
<1> QED BY <1>1, <1>3, <1>8, <1>9, <1>10 DEF Delivers

\* The call of the client is over.
LEMMA WorkerSentStep ==
    ASSUME Types, Shape, WorkerSent
    PROVE  Types' /\ Shape' /\ Stays
<1>1. /\ worker.step = "sending" /\ call' = Idle /\ worker' = Polling
      /\ eventsWritten' = eventsWritten + Len(worker.events)
      /\ UNCHANGED <<pending, rows, file, registered, handler, faults, signals, accepted, batch, queue,
                     holder, timer, stop, stopEvent, late, running, eventsDropped, dropped, handed>>
  BY DEF WorkerSent, WorkerUnchanged
<1>2. worker \in [step : {"send", "sending"}, events : Filled, tried : Nat] /\ AtWorker(worker) = <<>>
  BY <1>1, WorkerIs DEF Types
<1>3. WorkerOK(worker') /\ AtWorker(worker') = <<>> /\ worker'.step = "poll"
  BY <1>1 DEF WorkerOK, AtWorker, Polling
<1>4. eventsWritten' \in Nat
  <2>1. worker.events \in EventSeqs
    BY <1>2 DEF Filled
  <2>2. Len(worker.events) \in Nat
    BY <2>1, Lengths
  <2>3. eventsWritten \in Nat
    BY DEF Types
  <2> QED BY <1>1, <2>2, <2>3
<1>5. CallOK(call') /\ call' = Idle /\ call'.phase = "idle"
  BY <1>1 DEF CallOK, Idle
<1>6. Types'
  BY <1>1, <1>3, <1>4, <1>5 DEF Types
<1>7. Shape'
  BY <1>1, <1>3, <1>5 DEF Shape
<1>8. T2 = T1
  BY <1>1, <1>2, <1>3, WorkerIdles
<1> QED BY <1>1, <1>6, <1>7, <1>8 DEF Stays

\* A batch that cannot be sent is tried again, or dropped.
LEMMA WorkerRetriesStep ==
    ASSUME Types, Shape, Order, WorkerRetries
    PROVE  Types' /\ Shape' /\ (Stays \/ Drops(worker.events))
<1> DEFINE w == worker.events
<1>1. /\ worker.step = "send"
      /\ UNCHANGED <<clientVars, accepted, batch, queue, holder, timer, stop, stopEvent, late, running,
                     eventsWritten, eventsDropped, handed>>
  BY DEF WorkerRetries, WorkerUnchanged
<1>2. worker \in [step : {"send", "sending"}, events : Filled, tried : Nat] /\ AtWorker(worker) = w
  BY <1>1, WorkerIs DEF Types
<1>3. w \in Filled /\ w \in EventSeqs /\ worker.tried \in Nat
  BY <1>2 DEF Filled
<1>4. call = Idle
  BY <1>1 DEF Shape
<1>5. CASE worker' = [worker EXCEPT !.tried = @ + 1] /\ UNCHANGED dropped
  <2>1. worker' \in [step : {"send", "sending"}, events : Filled, tried : Nat]
        /\ worker'.step = "send" /\ worker'.events = w
    BY <1>1, <1>2, <1>5
  <2>2. WorkerOK(worker') /\ AtWorker(worker') = AtWorker(worker)
    BY <1>2, <2>1 DEF WorkerOK, AtWorker
  <2>3. Types'
    BY <1>1, <1>5, <2>2 DEF Types, clientVars
  <2>4. Shape'
    BY <1>1, <1>4, <2>1 DEF Shape, clientVars, Idle
  <2>5. T2 = T1
    BY <1>1, <2>2, Zenon DEF T1, T2, Events
  <2> QED BY <1>1, <1>5, <2>3, <2>4, <2>5 DEF Stays
<1>6. CASE /\ worker' = [step |-> "count", events |-> w, base |-> eventsDropped]
           /\ dropped' = dropped \cup ToSet(w)
  <2>1. eventsDropped \in Nat
    BY DEF Types
  <2>2. worker' \in [step : {"count"}, events : EventSeqs, base : Nat] /\ worker'.step = "count"
    BY <1>3, <1>6, <2>1
  <2>3. WorkerOK(worker') /\ AtWorker(worker') = <<>>
    BY <2>2 DEF WorkerOK, AtWorker
  <2>4. ToSet(w) \subseteq 1..accepted
    BY <1>2, OnTheirWay
  <2>5. dropped' \subseteq 1..accepted
    BY <1>6, <2>4 DEF Types
  <2>6. Types'
    BY <1>1, <2>3, <2>5 DEF Types, clientVars
  <2>7. Shape'
    BY <1>1, <1>4, <2>2 DEF Shape, clientVars, Idle
  <2> DEFINE q == Queued(queue)
             h == InFlush(holder)
             b == InBatch(batch)
             f == Waiting(holder)
  <2>8. q \in EventSeqs /\ h \in EventSeqs /\ b \in EventSeqs /\ f \in EventSeqs
    BY LineTypes
  <2>9. T1 = Line(w, q, h, b, f)
    BY <1>2, Zenon DEF T1, Events
  <2>10. T2 = Line(<<>>, q, h, b, f)
    BY <1>1, <2>3, Zenon DEF T2, Events
  <2> HIDE DEF w, q, h, b, f
  <2>11. Cut(T1, T2, w)
    BY <1>3, <2>8, <2>9, <2>10, CutFromLine
  <2>12. Drops(w)
    BY <1>1, <1>3, <1>6, <2>11 DEF Drops
  <2> QED BY <2>6, <2>7, <2>12 DEF w
<1> QED BY <1>5, <1>6 DEF WorkerRetries

\* The count of the worker ends.
LEMMA WorkerCountsDroppedStep ==
    ASSUME Types, Shape, WorkerCountsDropped
    PROVE  Types' /\ Shape' /\ Stays
<1>1. /\ worker.step = "count" /\ worker' = Polling
      /\ eventsDropped' = worker.base + Len(worker.events)
      /\ UNCHANGED <<clientVars, accepted, batch, queue, holder, timer, stop, stopEvent, late, running,
                     eventsWritten, dropped, handed>>
  BY DEF WorkerCountsDropped, WorkerUnchanged
<1>2. worker \in [step : {"count"}, events : EventSeqs, base : Nat] /\ AtWorker(worker) = <<>>
  BY <1>1, WorkerIs DEF Types
<1>3. WorkerOK(worker') /\ AtWorker(worker') = <<>> /\ worker'.step = "poll"
  BY <1>1 DEF WorkerOK, AtWorker, Polling
<1>4. eventsDropped' \in Nat
  <2>1. Len(worker.events) \in Nat /\ worker.base \in Nat
    BY <1>2, Lengths
  <2> QED BY <1>1, <2>1
<1>5. call = Idle
  BY <1>1 DEF Shape
<1>6. Types'
  BY <1>1, <1>3, <1>4 DEF Types, clientVars
<1>7. Shape'
  BY <1>1, <1>3, <1>5 DEF Shape, clientVars, Idle
<1>8. T2 = T1
  BY <1>1, <1>2, <1>3, WorkerIdles
<1> QED BY <1>1, <1>6, <1>7, <1>8 DEF Stays

-----------------------------------------------------------------------------
(* The client                                                              *)

\* The events of two sequences joined.
LEMMA JoinedSet == \A s, t \in EventSeqs : s \o t \in EventSeqs /\ ToSet(s \o t) = ToSet(s) \cup ToSet(t)
BY ConcatSet, Closed DEF EventSeqs

\* Two sequences of accepted events joined are one.
LEMMA KnownJoined ==
    ASSUME NEW s \in EventSeqs, NEW t \in EventSeqs, NEW n, Known(s, n), Known(t, n)
    PROVE  s \o t \in EventSeqs /\ Known(s \o t, n)
<1>1. s \o t \in EventSeqs /\ ToSet(s \o t) = ToSet(s) \cup ToSet(t)
  BY JoinedSet, Zenon
<1> QED BY <1>1, Zenon DEF Known

\* The empty sequence has no events.
LEMMA KnownEmpty == <<>> \in EventSeqs /\ ToSet(<<>>) = {} /\ \A n : Known(<<>>, n)
<1>1. ToSet(<<>>) = {}
  BY DEF ToSet
<1> QED BY <1>1, Lengths, Zenon DEF Known

\* There are two tables.
LEMMA TableIn == \A e : Table(e) \in {Table(0), Table(1)}
BY DEF Table

\* The events of a table are those of the sequence that go there.
LEMMA KnownTable ==
    ASSUME NEW s \in EventSeqs, NEW t, NEW n, Known(s, n)
    PROVE  /\ OfTable(s, t) \in EventSeqs /\ Known(OfTable(s, t), n)
           /\ \A e \in ToSet(s) : Table(e) = t => e \in ToSet(OfTable(s, t))
<1>1. OfTable(s, t) \in EventSeqs /\ ToSet(OfTable(s, t)) = {e \in ToSet(s) : Table(e) = t}
  BY OfTableIs DEF EventSeqs
<1> QED BY <1>1, Zenon DEF Known

\* What is known of a call at each of its phases.
LEMMA CallIs ==
    ASSUME NEW c, CallOK(c)
    PROVE  /\ c.phase = "insert" => c \in [phase : {"insert"}, events : EventSeqs, tried : Nat]
           /\ c.phase = "drain" => c \in [phase : {"drain"}, events : EventSeqs,
                                          left : SUBSET {Table(0), Table(1)}, allFlushed : BOOLEAN]
BY DEF CallOK, Idle

\* The client's part of the invariant.
ClientPart ==
    /\ pending \in EventSeqs /\ rows \in EventSeqs
    /\ faults \in 0..MaxFaults /\ CallOK(call) /\ call # Idle
    /\ Known(pending, accepted) /\ Known(rows, accepted)
    /\ call.phase \in {"insert", "drain"} => Known(call.events, accepted)
    /\ Drained

\* An INSERT succeeds.
LEMMA InsertStep ==
    ASSUME ClientPart, Insert, UNCHANGED accepted
    PROVE  ClientPart' /\ call'.phase # "insert" /\ call'.phase # "idle"
<1>1. call \in [phase : {"insert"}, events : EventSeqs, tried : Nat] /\ Known(call.events, accepted)
      /\ pending \in EventSeqs /\ rows \in EventSeqs /\ Known(pending, accepted) /\ Known(rows, accepted)
      /\ faults \in 0..MaxFaults
  BY CallIs DEF Insert, ClientPart
<1>2. rows' = rows \o call.events /\ UNCHANGED <<pending, faults>>
  BY DEF Insert
<1>3. rows' \in EventSeqs /\ Known(rows', accepted)
  BY <1>1, <1>2, KnownJoined
<1>4. CASE pending = <<>>
  <2>1. call' = [phase |-> "returned"]
    BY <1>4 DEF Insert
  <2>2. call'.phase = "returned" /\ CallOK(call') /\ call' # Idle
    BY <2>1 DEF CallOK, Idle
  <2> QED BY <1>1, <1>2, <1>3, <2>2 DEF ClientPart, Drained
<1>5. CASE pending # <<>>
  <2>1. call' = [phase |-> "drain", events |-> pending, left |-> TablesOf(pending), allFlushed |-> TRUE]
    BY <1>5 DEF Insert
  <2>2. TablesOf(pending) \in SUBSET {Table(0), Table(1)}
        /\ \A e \in ToSet(pending) : Table(e) \in TablesOf(pending)
    BY TableIn, Zenon DEF TablesOf
  <2>3. call'.phase = "drain" /\ call'.events = pending /\ call'.left = TablesOf(pending)
        /\ call' # Idle
        /\ call' \in [phase : {"drain"}, events : EventSeqs,
                      left : SUBSET {Table(0), Table(1)}, allFlushed : BOOLEAN]
    BY <1>1, <2>1, <2>2 DEF Idle
  <2>4. CallOK(call')
    BY <2>3 DEF CallOK
  <2>5. Drained'
    BY <1>2, <2>2, <2>3 DEF Drained
  <2> QED BY <1>1, <1>2, <1>3, <2>3, <2>4, <2>5 DEF ClientPart
<1> QED BY <1>4, <1>5

\* A failed request leaves the rows, or adds all of them.
LEMMA FailsStep ==
    ASSUME rows \in EventSeqs, Known(rows, accepted), faults \in 0..MaxFaults,
           NEW s \in EventSeqs, Known(s, accepted), Fails(s), UNCHANGED accepted
    PROVE  /\ rows' \in EventSeqs /\ Known(rows', accepted) /\ faults' \in 0..MaxFaults
           /\ ToSet(rows) \subseteq ToSet(rows')
<1>1. rows \o s \in EventSeqs /\ Known(rows \o s, accepted)
  BY KnownJoined
<1>2. ToSet(rows) \subseteq ToSet(rows \o s)
  BY JoinedSet, Zenon
<1>3. faults' \in 0..MaxFaults
  BY ClientAssumption DEF Fails
<1> QED BY <1>1, <1>2, <1>3 DEF Fails

\* An INSERT fails.
LEMMA InsertFailsStep ==
    ASSUME ClientPart, InsertFails, UNCHANGED accepted
    PROVE  /\ ClientPart' /\ call'.phase # "idle"
           /\ call'.phase = "insert" => call'.events = call.events
<1>1. call \in [phase : {"insert"}, events : EventSeqs, tried : Nat] /\ Known(call.events, accepted)
      /\ pending \in EventSeqs /\ rows \in EventSeqs /\ Known(pending, accepted) /\ Known(rows, accepted)
      /\ faults \in 0..MaxFaults
  BY CallIs DEF InsertFails, ClientPart
<1>2. Fails(call.events)
  BY DEF InsertFails
<1>3. rows' \in EventSeqs /\ Known(rows', accepted) /\ faults' \in 0..MaxFaults
  BY <1>1, <1>2, FailsStep
<1>4. CASE call' = [call EXCEPT !.tried = @ + 1] /\ UNCHANGED pending
  <2>1. call' \in [phase : {"insert"}, events : EventSeqs, tried : Nat]
        /\ call'.phase = "insert" /\ call'.events = call.events /\ call' # Idle
    BY <1>1, <1>4 DEF Idle
  <2>2. CallOK(call')
    BY <2>1 DEF CallOK
  <2> QED BY <1>1, <1>3, <1>4, <2>1, <2>2 DEF ClientPart, Drained
<1>5. CASE pending' = pending \o call.events /\ call' = [phase |-> "returned"]
  <2>1. pending' \in EventSeqs /\ Known(pending', accepted)
    BY <1>1, <1>5, KnownJoined
  <2>2. call'.phase = "returned" /\ CallOK(call') /\ call' # Idle
    BY <1>5 DEF CallOK, Idle
  <2> QED BY <1>3, <2>1, <2>2 DEF ClientPart, Drained
<1> QED BY <1>4, <1>5 DEF InsertFails

\* A table takes its events of the queue.
LEMMA DrainTableStep ==
    ASSUME ClientPart, DrainTable, UNCHANGED accepted
    PROVE  ClientPart' /\ call'.phase # "insert" /\ call'.phase # "idle"
<1> DEFINE t == NextTable
           s == OfTable(call.events, t)
<1>1. call \in [phase : {"drain"}, events : EventSeqs,
                left : SUBSET {Table(0), Table(1)}, allFlushed : BOOLEAN]
      /\ Known(call.events, accepted)
      /\ pending \in EventSeqs /\ rows \in EventSeqs /\ Known(pending, accepted) /\ Known(rows, accepted)
      /\ faults \in 0..MaxFaults /\ call.phase = "drain"
  BY CallIs DEF DrainTable, ClientPart
<1>2. call' = [call EXCEPT !.left = @ \ {t}] /\ rows' = rows \o s /\ UNCHANGED <<pending, faults>>
  BY DEF DrainTable
<1> HIDE DEF t
<1>3. s \in EventSeqs /\ Known(s, accepted) /\ \A e \in ToSet(call.events) : Table(e) = t => e \in ToSet(s)
  BY <1>1, KnownTable
<1> HIDE DEF s
<1>4. rows' \in EventSeqs /\ Known(rows', accepted)
  BY <1>1, <1>2, <1>3, KnownJoined
<1>5. ToSet(rows') = ToSet(rows) \cup ToSet(s)
  BY <1>1, <1>2, <1>3, JoinedSet, Zenon
<1>6. /\ call' \in [phase : {"drain"}, events : EventSeqs,
                    left : SUBSET {Table(0), Table(1)}, allFlushed : BOOLEAN]
      /\ call'.phase = "drain" /\ call'.events = call.events
      /\ call'.left = call.left \ {t} /\ call'.allFlushed = call.allFlushed /\ call' # Idle
  BY <1>1, <1>2 DEF Idle
<1>7. CallOK(call')
  BY <1>6 DEF CallOK
<1>8. Drained
  BY DEF ClientPart
<1>9. Drained'
  <2>1. ToSet(pending') \subseteq ToSet(call'.events)
    BY <1>1, <1>2, <1>6, <1>8 DEF Drained
  <2>2. ASSUME call'.allFlushed, NEW e \in ToSet(call'.events)
        PROVE  Table(e) \in call'.left \/ e \in ToSet(rows')
    BY <1>1, <1>3, <1>5, <1>6, <1>8, <2>2 DEF Drained
  <2> QED BY <2>1, <2>2 DEF Drained
<1> QED BY <1>1, <1>2, <1>4, <1>6, <1>7, <1>9 DEF ClientPart

\* A table does not take them, or its answer is lost.
LEMMA DrainTableFailsStep ==
    ASSUME ClientPart, DrainTableFails, UNCHANGED accepted
    PROVE  ClientPart' /\ call'.phase # "insert" /\ call'.phase # "idle"
<1> DEFINE t == NextTable
           s == OfTable(call.events, t)
<1>1. call \in [phase : {"drain"}, events : EventSeqs,
                left : SUBSET {Table(0), Table(1)}, allFlushed : BOOLEAN]
      /\ Known(call.events, accepted)
      /\ pending \in EventSeqs /\ rows \in EventSeqs /\ Known(pending, accepted) /\ Known(rows, accepted)
      /\ faults \in 0..MaxFaults /\ call.phase = "drain"
  BY CallIs DEF DrainTableFails, ClientPart
<1>2. call' = [call EXCEPT !.left = @ \ {t}, !.allFlushed = FALSE] /\ Fails(s) /\ UNCHANGED pending
  BY DEF DrainTableFails
<1> HIDE DEF t
<1>3. s \in EventSeqs /\ Known(s, accepted)
  BY <1>1, KnownTable
<1> HIDE DEF s
<1>4. rows' \in EventSeqs /\ Known(rows', accepted) /\ faults' \in 0..MaxFaults
  BY <1>1, <1>2, <1>3, FailsStep
<1>5. /\ call' \in [phase : {"drain"}, events : EventSeqs,
                    left : SUBSET {Table(0), Table(1)}, allFlushed : BOOLEAN]
      /\ call'.phase = "drain" /\ call'.events = call.events
      /\ call'.allFlushed = FALSE /\ call' # Idle
  BY <1>1, <1>2 DEF Idle
<1>6. CallOK(call')
  BY <1>5 DEF CallOK
<1>7. Drained'
  <2>1. Drained
    BY DEF ClientPart
  <2> QED BY <1>1, <1>2, <1>5, <2>1 DEF Drained
<1> QED BY <1>1, <1>2, <1>4, <1>5, <1>6, <1>7 DEF ClientPart

\* The drain is over.
LEMMA DrainEndsStep ==
    ASSUME ClientPart, DrainEnds, UNCHANGED accepted
    PROVE  ClientPart' /\ call'.phase # "insert" /\ call'.phase # "idle"
<1>1. pending' \in {<<>>, pending} /\ call' = [phase |-> "returned"] /\ UNCHANGED <<rows, faults>>
  BY DEF DrainEnds
<1>2. call'.phase = "returned" /\ CallOK(call') /\ call' # Idle
  BY <1>1 DEF CallOK, Idle
<1>3. pending' \in EventSeqs /\ Known(pending', accepted)
  BY <1>1, KnownEmpty DEF ClientPart
<1> QED BY <1>1, <1>2, <1>3 DEF ClientPart, Drained

\* The worker's calls of the client leave the writer alone.
LEMMA WorkerCallStep ==
    ASSUME Types, Shape, Ranges, Drained, WorkerCall
    PROVE  Types' /\ Shape' /\ Ranges' /\ Drained' /\ Stays /\ UNCHANGED writerVars
<1>1. ClientStep /\ UNCHANGED writerVars
  BY DEF WorkerCall
<1>2. UNCHANGED <<file, registered, handler, signals, accepted>>
  BY <1>1 DEF ClientStep, Insert, InsertFails, DrainTable, DrainTableFails, DrainEnds, writerVars
<1>3. call.phase \in {"insert", "drain"}
  BY <1>1 DEF ClientStep, Insert, InsertFails, DrainTable, DrainTableFails, DrainEnds
<1>4. call # Idle
  BY <1>3 DEF Idle
<1>5. ClientPart
  BY <1>4 DEF ClientPart, Types, Ranges
<1>6. /\ ClientPart' /\ call'.phase # "idle"
      /\ call'.phase = "insert" => call.phase = "insert" /\ call'.events = call.events
  <2>1. CASE Insert
    BY <1>2, <1>5, <2>1, InsertStep
  <2>2. CASE InsertFails
    <3>1. call.phase = "insert"
      BY <2>2 DEF InsertFails
    <3> QED BY <1>2, <1>5, <2>2, <3>1, InsertFailsStep
  <2>3. CASE DrainTable
    BY <1>2, <1>5, <2>3, DrainTableStep
  <2>4. CASE DrainTableFails
    BY <1>2, <1>5, <2>4, DrainTableFailsStep
  <2>5. CASE DrainEnds
    BY <1>2, <1>5, <2>5, DrainEndsStep
  <2> QED BY <1>1, <2>1, <2>2, <2>3, <2>4, <2>5 DEF ClientStep
<1>7. Types'
  BY <1>1, <1>2, <1>6 DEF Types, ClientPart, writerVars
<1>8. Shape'
  BY <1>1, <1>4, <1>6 DEF Shape, ClientPart, writerVars
<1>9. Ranges'
  BY <1>2, <1>6 DEF Ranges, ClientPart
<1>10. Drained'
  BY <1>6 DEF ClientPart
<1>11. Stays
  <2>1. UNCHANGED <<worker, queue, holder, batch, handed, accepted, dropped>>
    BY <1>1 DEF writerVars
  <2>2. T2 = T1
    BY <2>1, Quiet
  <2> QED BY <2>1, <2>2 DEF Stays
<1> QED BY <1>1, <1>7, <1>8, <1>9, <1>10, <1>11

-----------------------------------------------------------------------------
(* stop, the signal handler and the end of the process                     *)

\* The steps of stop() leave the line as it is.
LEMMA StopBeginsStep ==
    ASSUME Types, Shape, StopBegins
    PROVE  Types' /\ Shape' /\ Stays
<1>1. /\ stop' = "cancel" /\ stopEvent' = TRUE
      /\ UNCHANGED <<clientVars, accepted, batch, queue, holder, timer, worker, late, running,
                     eventsWritten, eventsDropped, dropped, handed>>
  BY DEF StopBegins, StopUnchanged
<1>2. T2 = T1
  BY <1>1, Quiet
<1>3. Types'
  BY <1>1 DEF Types, clientVars
<1>4. Shape'
  BY <1>1 DEF Shape, clientVars
<1> QED BY <1>1, <1>2, <1>3, <1>4 DEF Stays

\* The timer is cancelled.
LEMMA StopCancelsStep ==
    ASSUME Types, Shape, StopCancels
    PROVE  Types' /\ Shape' /\ Stays
<1>1. /\ stop' = "flush" /\ timer' \in {timer, "off"}
      /\ UNCHANGED <<clientVars, accepted, batch, queue, holder, worker, stopEvent, late, running,
                     eventsWritten, eventsDropped, dropped, handed>>
  BY DEF StopCancels, StopUnchanged
<1>2. T2 = T1
  BY <1>1, Quiet
<1>3. Types'
  BY <1>1 DEF Types, clientVars
<1>4. Shape'
  BY <1>1 DEF Shape, clientVars
<1> QED BY <1>1, <1>2, <1>3, <1>4 DEF Stays

\* The last flush begins.
LEMMA StopFlushesStep ==
    ASSUME Types, Shape, StopFlushes
    PROVE  Types' /\ Shape' /\ Stays
<1>1. /\ stop = "flush" /\ holder = Free
      /\ UNCHANGED <<clientVars, accepted, queue, timer, worker, stopEvent, late, running,
                     eventsWritten, eventsDropped, dropped, handed>>
  BY DEF StopFlushes, StopUnchanged
<1>2. CASE HasEvents(batch)
  <2>1. BeginFlush("stop", batch, 0) /\ stop' = "flushing"
    BY <1>2 DEF StopFlushes
  <2>2. /\ HolderOK(holder') /\ BatchOK(batch') /\ holder' # Free
        /\ holder'.who = "stop" /\ InBatch(batch') = <<>> /\ T2 = T1
    BY <1>1, <1>2, <2>1, FlushKeeps
  <2>3. Types'
    BY <1>1, <2>1, <2>2 DEF Types, clientVars
  <2>4. Shape'
    BY <1>1, <2>1, <2>2 DEF Shape, clientVars
  <2> QED BY <1>1, <2>2, <2>3, <2>4 DEF Stays
<1>3. CASE ~ HasEvents(batch)
  <2>1. stop' = "sentinel" /\ UNCHANGED <<batch, holder>>
    BY <1>3 DEF StopFlushes
  <2>2. T2 = T1
    BY <1>1, <2>1, Quiet
  <2>3. Types'
    BY <1>1, <2>1 DEF Types, clientVars
  <2>4. Shape'
    BY <1>1, <2>1 DEF Shape, clientVars
  <2> QED BY <1>1, <2>2, <2>3, <2>4 DEF Stays
<1> QED BY <1>2, <1>3

\* The sentinel carries no events.
LEMMA StopSendsSentinelStep ==
    ASSUME Types, Shape, StopSendsSentinel
    PROVE  Types' /\ Shape' /\ Stays
<1>1. /\ stop' = "join"
      /\ UNCHANGED <<clientVars, accepted, batch, holder, timer, worker, stopEvent, late, running,
                     eventsWritten, eventsDropped, dropped, handed>>
  BY DEF StopSendsSentinel, StopUnchanged
<1>2. QueueOK(queue') /\ Queued(queue') = Queued(queue)
  <2>1. CASE queue' = queue
    BY <2>1 DEF Types
  <2>2. CASE Len(queue) < QueueSize /\ queue' = Append(queue, Sentinel)
    <3>1. queue \in Seq(Entries) /\ Sentinel \in Entries /\ Len(queue) \in Nat
      BY PartsIn DEF Types, QueueOK, Entries
    <3>2. queue' \in Seq(Entries) /\ Len(queue') = Len(queue) + 1
          /\ Queued(queue') = Queued(queue) \o EventsOf(Sentinel)
      BY <2>2, <3>1, QueuedAppend
    <3>3. EventsOf(Sentinel) = <<>>
      BY Zenon DEF EventsOf
    <3>4. Queued(queue) \in EventSeqs
      BY <3>1, QueuedIn
    <3>5. Queued(queue') = Queued(queue)
      BY <3>2, <3>3, <3>4, Nothing
    <3> QED BY <2>2, <3>1, <3>2, <3>5, Bounds DEF QueueOK
  <2> QED BY <2>1, <2>2 DEF StopSendsSentinel
<1>3. T2 = T1
  BY <1>1, <1>2, Zenon DEF T1, T2, Events
<1>4. Types'
  BY <1>1, <1>2 DEF Types, clientVars
<1>5. Shape'
  BY <1>1 DEF Shape, clientVars
<1> QED BY <1>1, <1>3, <1>4, <1>5 DEF Stays

\* stop() has waited for the worker.
LEMMA StopJoinsStep ==
    ASSUME Types, Shape, StopJoins
    PROVE  Types' /\ Shape' /\ Stays
<1>1. /\ stop' = "close"
      /\ UNCHANGED <<clientVars, accepted, batch, queue, holder, timer, worker, stopEvent, late, running,
                     eventsWritten, eventsDropped, dropped, handed>>
  BY DEF StopJoins, StopUnchanged
<1>2. T2 = T1
  BY <1>1, Quiet
<1>3. Types'
  BY <1>1 DEF Types, clientVars
<1>4. Shape'
  BY <1>1 DEF Shape, clientVars
<1> QED BY <1>1, <1>2, <1>3, <1>4 DEF Stays

\* The client is closed.
LEMMA StopClosesStep ==
    ASSUME Types, Shape, StopCloses
    PROVE  Types' /\ Shape' /\ Stays
<1>1. /\ stop' = "done" /\ registered' = FALSE
      /\ UNCHANGED <<pending, rows, file, call, handler, faults, signals, accepted, batch, queue, holder,
                     timer, worker, stopEvent, late, running,
                     eventsWritten, eventsDropped, dropped, handed>>
  BY DEF StopCloses, StopUnchanged, Close
<1>2. T2 = T1
  BY <1>1, Quiet
<1>3. Types'
  BY <1>1 DEF Types
<1>4. Shape'
  BY <1>1 DEF Shape
<1> QED BY <1>1, <1>2, <1>3, <1>4 DEF Stays

\* The deadline of stop() passes.
LEMMA DeadlineStep ==
    ASSUME Types, Shape, Deadline
    PROVE  Types' /\ Shape' /\ Stays
<1>1. /\ late' = TRUE
      /\ UNCHANGED <<clientVars, accepted, batch, queue, holder, timer, worker, stop, stopEvent, running,
                     eventsWritten, eventsDropped, dropped, handed>>
  BY DEF Deadline, StopUnchanged
<1>2. T2 = T1
  BY <1>1, Quiet
<1>3. Types'
  BY <1>1 DEF Types, clientVars
<1>4. Shape'
  BY <1>1 DEF Shape, clientVars
<1> QED BY <1>1, <1>2, <1>3, <1>4 DEF Stays

\* The handler saves the queue of the client, or clears it.
LEMMA SignalStep ==
    ASSUME Types, Shape, Ranges, Drained, Signal
    PROVE  Types' /\ Shape' /\ Ranges' /\ Drained' /\ Stays /\ UNCHANGED writerVars
<1>1. UNCHANGED writerVars /\ UNCHANGED <<rows, registered, call, faults>>
  BY DEF Signal, SignalSaves, SignalClears
<1>2. /\ pending' \in {<<>>, pending} /\ handler' \in {"idle", "saved"}
      /\ signals' \in 0..MaxSignals /\ file' \in {file, pending}
  BY ClientAssumption DEF Signal, SignalSaves, SignalClears, Types
<1>3. pending' \in EventSeqs /\ Known(pending', accepted) /\ ToSet(pending') \subseteq ToSet(pending)
  BY <1>2, KnownEmpty DEF Types, Ranges
<1>4. (file' = NoFile \/ file' \in EventSeqs) /\ (file' # NoFile => Known(file', accepted))
  BY <1>2 DEF Types, Ranges
<1>5. Types'
  BY <1>1, <1>2, <1>3, <1>4 DEF Types, writerVars
<1>6. Shape'
  BY <1>1 DEF Shape, writerVars
<1>7. Ranges'
  BY <1>1, <1>3, <1>4 DEF Ranges, writerVars
<1>8. Drained'
  BY <1>1, <1>3 DEF Drained
<1>9. Stays
  <2>1. UNCHANGED <<worker, queue, holder, batch, handed, accepted, dropped>>
    BY <1>1 DEF writerVars
  <2>2. T2 = T1
    BY <2>1, Quiet
  <2> QED BY <2>1, <2>2 DEF Stays
<1> QED BY <1>1, <1>5, <1>6, <1>7, <1>8, <1>9

\* The process ends, and with it what is on its way.
LEMMA ExitStep ==
    ASSUME Types, Shape, Ranges, Drained, Exit
    PROVE  Types' /\ Shape' /\ Ranges' /\ Drained' /\ Forgets
<1>1. /\ holder = Free /\ file' \in {file, pending}
      /\ pending' = <<>> /\ call' = Idle /\ handler' = "idle" /\ registered' = FALSE
      /\ running' = FALSE /\ batch' = NoBatch /\ queue' = <<>> /\ timer' = "off" /\ worker' = Ended
      /\ stop \in {"no", "done"}
      /\ UNCHANGED <<rows, faults, signals, accepted, holder, stop, stopEvent, late,
                     eventsWritten, eventsDropped, dropped, handed>>
  BY DEF Exit, ExitSaves
<1>2. (file' = NoFile \/ file' \in EventSeqs) /\ (file' # NoFile => Known(file', accepted))
  BY <1>1 DEF Types, Ranges
<1>3. QueueOK(queue')
  <2>1. <<>> \in Seq(Entries) /\ Len(<<>>) = 0
    BY EmptySeq
  <2> QED BY <1>1, <2>1, Bounds DEF QueueOK
<1>4. BatchOK(batch') /\ WorkerOK(worker') /\ CallOK(call') /\ worker'.step = "ended" /\ call'.phase = "idle"
  BY <1>1 DEF BatchOK, WorkerOK, CallOK, Ended, Idle
<1>5. Types'
  BY <1>1, <1>2, <1>3, <1>4, KnownEmpty DEF Types
<1>6. Shape'
  BY <1>1, <1>4 DEF Shape
<1>7. Ranges'
  BY <1>1, <1>2, <1>4, KnownEmpty DEF Ranges
<1>8. Drained'
  BY <1>4 DEF Drained
<1>9. T2 = <<>>
  <2>1. AtWorker(worker') = <<>> /\ InFlush(holder') = <<>> /\ InBatch(batch') = <<>>
        /\ Waiting(holder') = <<>>
    BY <1>1, <1>4 DEF AtWorker, InFlush, InBatch, Waiting, Free
  <2>2. Queued(queue') = <<>>
    BY <1>1, QueuedEmpty
  <2>3. T2 = Line(<<>>, <<>>, <<>>, <<>>, <<>>)
    BY <2>1, <2>2, Zenon DEF T2, Events
  <2>4. <<>> \o <<>> = <<>>
    BY Nothing, Zenon
  <2> QED BY <2>3, <2>4, Zenon DEF Line
<1> QED BY <1>1, <1>5, <1>6, <1>7, <1>8, <1>9 DEF Forgets

-----------------------------------------------------------------------------
(* The order of the line                                                   *)

\* What a step may do to the line.
Effect == Stays \/ Accepts \/ (\E M : Drops(M)) \/ (\E M : Delivers(M)) \/ Forgets

Behind(d, s, e) == d \o Append(s, e) = Append(d \o s, e)

\* An event behind the line is behind the line and what was handed over.
LEMMA AppendsBehind == \A d, s \in EventSeqs : \A e \in Nat : Behind(d, s, e)
<1> SUFFICES ASSUME NEW d \in EventSeqs, NEW s \in EventSeqs, NEW e \in Nat
             PROVE  Behind(d, s, e)
  BY Zenon
<1> DEFINE f == <<e>>
<1>1. \A t \in EventSeqs : Append(t, e) = t \o f
  BY DEF EventSeqs
<1>2. f \in EventSeqs
  BY Lengths
<1> HIDE DEF f
<1>3. d \o s \in EventSeqs /\ Assoc(d, s, f)
  BY <1>2, Closed, Together, Zenon
<1> QED BY <1>1, <1>3, Zenon DEF Behind, Assoc

\* Whatever a step does to the line, the order of the events is kept.
LEMMA OrderStep ==
    ASSUME Types, Types', Order, Effect
    PROVE  Order'
<1>1. /\ T1 \in EventSeqs /\ accepted \in Nat /\ handed \in EventSeqs
      /\ handed \o T1 \in EventSeqs
      /\ InOrder(handed \o T1, accepted)
      /\ ToSet(handed \o T1) = ToSet(handed) \cup ToSet(T1)
      /\ (ToSet(handed) \cup ToSet(T1)) \cap dropped = {}
      /\ \A e \in ToSet(handed) \cup ToSet(T1) : e \in 1..accepted
  BY OnTheirWay
<1>2. Transit' = T2 /\ T2 \in EventSeqs
  BY TransitThen
<1> SUFFICES /\ InOrder(handed' \o T2, accepted')
             /\ ToSet(handed' \o T2) \cap dropped' = {}
  BY <1>2, Zenon DEF Order
<1> DEFINE s == handed \o T1
           t == handed' \o T2
<1> HIDE DEF s
<1>3. s \in EventSeqs /\ InOrder(s, accepted) /\ ToSet(s) \cap dropped = {}
  BY <1>1 DEF s
<1>4. CASE Stays
  <2>1. t = s
    BY <1>4, Zenon DEF Stays, s
  <2> HIDE DEF t
  <2> QED BY <1>3, <1>4, <2>1, Zenon DEF Stays, t
<1>5. CASE Accepts
  <2>1. accepted' = accepted + 1 /\ accepted + 1 \in Nat /\ handed' = handed /\ dropped' = dropped
        /\ T2 = Append(T1, accepted + 1)
    BY <1>1, <1>5 DEF Accepts
  <2>2. Behind(handed, T1, accepted + 1)
    BY <1>1, <2>1, AppendsBehind, Zenon
  <2>3. t = Append(s, accepted + 1)
    BY <2>1, <2>2, Zenon DEF Behind, s
  <2> HIDE DEF t
  <2>4. InOrder(t, accepted')
    BY <1>1, <1>3, <2>1, <2>3, OrderEnters
  <2>5. ToSet(t) = ToSet(s) \cup {accepted + 1}
    BY <1>3, <2>1, <2>3, AppendSet DEF EventSeqs
  <2>6. accepted + 1 \notin dropped
    BY <1>1 DEF Types
  <2> QED BY <1>3, <2>1, <2>4, <2>5, <2>6 DEF t
<1>6. CASE \E M : Drops(M)
  <2>1. PICK M : Drops(M)
    BY <1>6
  <2>2. M \in EventSeqs /\ Cut(T1, T2, M) /\ dropped' = dropped \cup ToSet(M)
        /\ handed' = handed /\ accepted' = accepted
    BY <2>1 DEF Drops
  <2>3. Cut(s, handed \o T2, M)
    BY <1>1, <1>2, <2>2, CutBehind DEF s
  <2>4. t = handed \o T2
    BY <2>2
  <2>5. t \in EventSeqs /\ Cut(s, t, M)
    BY <1>1, <1>2, <2>3, <2>4, Closed
  <2> HIDE DEF t
  <2>6. InOrder(t, accepted) /\ ToSet(s) = ToSet(t) \cup ToSet(M) /\ ToSet(t) \cap ToSet(M) = {}
    BY <1>1, <1>3, <2>2, <2>5, OrderCut
  <2> QED BY <1>3, <2>2, <2>6 DEF t
<1>7. CASE \E M : Delivers(M)
  <2>1. PICK M : Delivers(M)
    BY <1>7
  <2>2. M \in EventSeqs /\ T1 = M \o T2 /\ handed' = handed \o M
        /\ dropped' = dropped /\ accepted' = accepted
    BY <2>1 DEF Delivers, Filled
  <2>3. Assoc(handed, M, T2)
    BY <1>1, <1>2, <2>2, Together, Zenon
  <2>4. t = s
    BY <2>2, <2>3, Zenon DEF Assoc, s
  <2> HIDE DEF t
  <2> QED BY <1>3, <2>2, <2>4 DEF t
<1>8. CASE Forgets
  <2>1. T2 = <<>> /\ handed' = handed /\ dropped' = dropped /\ accepted' = accepted
    BY <1>8 DEF Forgets
  <2>2. T1 \o <<>> = T1 /\ handed \o <<>> = handed /\ <<>> \in EventSeqs
    BY <1>1, Nothing, Zenon
  <2>3. t = handed \o <<>>
    BY <2>1
  <2>4. s = handed \o (T1 \o <<>>)
    BY <2>2, Zenon DEF s
  <2>5. Cut(s, t, T1)
    BY <1>1, <2>2, <2>3, <2>4, Zenon DEF Cut
  <2>6. t \in EventSeqs
    BY <1>1, <2>2, <2>3
  <2> HIDE DEF t
  <2>7. InOrder(t, accepted) /\ ToSet(s) = ToSet(t) \cup ToSet(T1)
    BY <1>1, <1>3, <2>5, <2>6, OrderCut
  <2> QED BY <1>3, <2>1, <2>7 DEF t
<1> QED BY <1>4, <1>5, <1>6, <1>7, <1>8 DEF Effect

-----------------------------------------------------------------------------
(* What is counted                                                         *)

\* A run of events in their order has no event twice.
LEMMA OrderedCount ==
    ASSUME NEW n \in Nat, NEW s \in EventSeqs, InOrder(s, n)
    PROVE  IsFiniteSet(ToSet(s)) /\ Cardinality(ToSet(s)) = Len(s) /\ Len(s) \in Nat
<1> DEFINE m == Len(s)
<1>1. m \in Nat /\ s \in [1..m -> Nat] /\ ToSet(s) = {s[i] : i \in 1..m}
  BY LenProperties, EventSet DEF EventSeqs
<1> HIDE DEF m
<1>2. \A i, j \in 1..m : i # j => s[i] # s[j]
  <2>1. \A i \in 1..m : \A j \in 1..m : s[i] \in 1..n /\ (j < i => s[j] < s[i])
    BY DEF InOrder, m
  <2>2. \A i, j \in 1..m : i # j => i < j \/ j < i
    BY <1>1
  <2> QED BY <2>1, <2>2
<1>3. s \in Bijection(1..m, ToSet(s))
  BY <1>1, <1>2 DEF Bijection, Injection, Surjection, IsInjective
<1>4. Cardinality(ToSet(s)) = m
  <2>1. ExistsBijection(1..m, ToSet(s))
    BY <1>3 DEF ExistsBijection
  <2> QED BY <1>1, <2>1, FS_CountingElements
<1>5. IsFiniteSet(ToSet(s))
  <2>1. ToSet(s) \in SUBSET (1..n)
    BY <1>1 DEF InOrder, m
  <2>2. IsFiniteSet(1..n)
    BY FS_Interval
  <2> QED BY <2>1, <2>2, FS_Subset
<1> QED BY <1>1, <1>4, <1>5 DEF m

\* The set of dropped events is finite, and never shrinks.
LEMMA DroppedGrows ==
    ASSUME Types, Types', dropped \subseteq dropped'
    PROVE  /\ IsFiniteSet(dropped) /\ Cardinality(dropped) \in Nat /\ Cardinality(dropped') \in Nat
           /\ Cardinality(dropped) <= Cardinality(dropped')
<1>1. Len(Load) \in Nat
  BY Marks, LenProperties
<1>2. accepted \in Nat /\ accepted' \in Nat
  BY <1>1 DEF Types
<1>3. IsFiniteSet(1..accepted) /\ IsFiniteSet(1..accepted')
  BY <1>2, FS_Interval
<1>4. IsFiniteSet(dropped) /\ IsFiniteSet(dropped')
  BY <1>3, FS_Subset DEF Types
<1> QED BY <1>4, FS_Subset, FS_CardinalityType

\* What a step drops was not dropped before, and each event is one more.
LEMMA DropsCount ==
    ASSUME Types, Types', Order, NEW M, Drops(M)
    PROVE  /\ dropped \subseteq dropped'
           /\ Len(M) \in Nat
           /\ Cardinality(dropped') = Cardinality(dropped) + Len(M)
<1>1. /\ T1 \in EventSeqs /\ accepted \in Nat /\ handed \in EventSeqs
      /\ handed \o T1 \in EventSeqs
      /\ InOrder(handed \o T1, accepted)
      /\ ToSet(handed \o T1) = ToSet(handed) \cup ToSet(T1)
      /\ (ToSet(handed) \cup ToSet(T1)) \cap dropped = {}
  BY OnTheirWay
<1>2. M \in EventSeqs /\ Cut(T1, T2, M) /\ dropped' = dropped \cup ToSet(M)
  BY DEF Drops
<1>3. T2 \in EventSeqs
  BY TransitThen
<1> DEFINE s == handed \o T1
           t == handed \o T2
<1>4. s \in EventSeqs /\ t \in EventSeqs /\ InOrder(s, accepted) /\ Cut(s, t, M)
  BY <1>1, <1>2, <1>3, Closed, CutBehind
<1> HIDE DEF s, t
<1>5. InOrder(M, accepted) /\ ToSet(s) = ToSet(t) \cup ToSet(M)
  BY <1>1, <1>2, <1>4, OrderCut
<1>6. ToSet(M) \cap dropped = {}
  BY <1>1, <1>5 DEF s
<1>7. IsFiniteSet(ToSet(M)) /\ Cardinality(ToSet(M)) = Len(M) /\ Len(M) \in Nat
  BY <1>1, <1>2, <1>5, OrderedCount
<1>8. IsFiniteSet(dropped) /\ Cardinality(dropped) \in Nat
  BY <1>2, DroppedGrows
<1>9. dropped \cap ToSet(M) = {} /\ Cardinality({}) = 0
  BY <1>6, FS_EmptySet
<1>10. Cardinality(dropped') = Cardinality(dropped) + Cardinality(ToSet(M)) - 0
  <2>1. Cardinality(dropped \cup ToSet(M))
           = Cardinality(dropped) + Cardinality(ToSet(M)) - Cardinality(dropped \cap ToSet(M))
    BY <1>7, <1>8, FS_Union
  <2> QED BY <1>2, <1>9, <2>1, Zenon
<1> QED BY <1>2, <1>7, <1>8, <1>10

\* The counts stay below what was dropped, whoever reads and writes them.
LEMMA CountsStep ==
    ASSUME Types, Types', Counts, dropped \subseteq dropped',
           eventsDropped' = eventsDropped \/ eventsDropped' <= Cardinality(dropped),
           holder'.step \in {"countOldest", "countOwn"} =>
               \/ holder' = holder
               \/ holder'.base + Len(holder'.lost) <= Cardinality(dropped'),
           worker'.step = "count" =>
               \/ worker' = worker
               \/ worker'.base + Len(worker'.events) <= Cardinality(dropped'),
           running' => /\ running
                       /\ \/ /\ UNCHANGED <<eventsWritten, handed>>
                             /\ \/ worker' = worker
                                \/ worker.step # "sending" /\ worker'.step # "sending"
                          \/ eventsWritten' = Len(handed')
                                - (IF worker'.step = "sending" THEN Len(worker'.events) ELSE 0)
    PROVE  Counts'
<1>1. /\ Cardinality(dropped) \in Nat /\ Cardinality(dropped') \in Nat
      /\ Cardinality(dropped) <= Cardinality(dropped')
  BY DroppedGrows
<1>2. eventsDropped' <= Cardinality(dropped')
  BY <1>1 DEF Counts, Types
<1>3. holder'.step \in {"countOldest", "countOwn"} =>
          holder'.base + Len(holder'.lost) <= Cardinality(dropped')
  <2>1. SUFFICES ASSUME holder'.step \in {"countOldest", "countOwn"}, holder' = holder
                 PROVE  holder'.base + Len(holder'.lost) <= Cardinality(dropped')
    OBVIOUS
  <2>2. holder \in Flushes
    BY <2>1 DEF Types, HolderOK, Free
  <2>3. holder.base \in Nat /\ Len(holder.lost) \in Nat
    BY <2>2, Lengths DEF Flushes
  <2>4. holder.base + Len(holder.lost) <= Cardinality(dropped)
    BY <2>1 DEF Counts
  <2> QED BY <1>1, <2>1, <2>3, <2>4
<1>4. worker'.step = "count" => worker'.base + Len(worker'.events) <= Cardinality(dropped')
  <2>1. SUFFICES ASSUME worker'.step = "count", worker' = worker
                 PROVE  worker'.base + Len(worker'.events) <= Cardinality(dropped')
    OBVIOUS
  <2>2. worker \in [step : {"count"}, events : EventSeqs, base : Nat]
    BY <2>1, WorkerIs DEF Types
  <2>3. worker.base \in Nat /\ Len(worker.events) \in Nat
    BY <2>2, Lengths
  <2>4. worker.base + Len(worker.events) <= Cardinality(dropped)
    BY <2>1 DEF Counts
  <2> QED BY <1>1, <2>1, <2>3, <2>4
<1>5. running' => eventsWritten' = Len(handed') - (IF worker'.step = "sending"
                                                   THEN Len(worker'.events) ELSE 0)
  BY DEF Counts
<1> QED BY <1>2, <1>3, <1>4, <1>5 DEF Counts

-----------------------------------------------------------------------------
(* What the client is known to hold                                        *)

\* Steps that leave the client alone keep what is known of it.
LEMMA RangesStep ==
    ASSUME Types, Types', Ranges, Drained, accepted' \in {accepted, accepted + 1},
           UNCHANGED <<pending, rows, file>>,
           \/ call' = call
           \/ call'.phase = "idle"
           \/ call'.phase = "insert" /\ Known(call'.events, accepted)
    PROVE  Ranges' /\ Drained'
<1>1. accepted \in Nat
  <2>1. Len(Load) \in Nat
    BY Marks, LenProperties
  <2> QED BY <2>1 DEF Types
<1>2. \A s : Known(s, accepted) => Known(s, accepted')
  <2>1. 0..accepted \subseteq 0..accepted'
    BY <1>1
  <2> QED BY <2>1 DEF Known
<1>3. Ranges'
  BY <1>2 DEF Ranges
<1>4. Drained'
  BY DEF Drained
<1> QED BY <1>3, <1>4

-----------------------------------------------------------------------------
(* The invariant is inductive                                              *)

\* A step that leaves the worker, the client and the counts alone.
LEMMA PlainStep ==
    ASSUME IInv, Types', Shape', Stays \/ Accepts,
           UNCHANGED <<pending, rows, file, call, worker, running, eventsWritten, eventsDropped>>,
           holder' = holder \/ holder'.step \notin {"countOldest", "countOwn"}
    PROVE  IInv' /\ Effect
<1>1. UNCHANGED <<handed, dropped>> /\ accepted' \in {accepted, accepted + 1}
  BY DEF Stays, Accepts
<1>2. Ranges' /\ Drained'
  BY <1>1, RangesStep DEF IInv
<1>3. Effect
  BY DEF Effect
<1>4. Order'
  BY <1>3, OrderStep DEF IInv
<1>5. Counts'
  BY <1>1, CountsStep DEF IInv
<1> QED BY <1>2, <1>3, <1>4, <1>5 DEF IInv

\* A flush begins to count, at a value that is right by then.
LEMMA CountsBegin ==
    ASSUME Types, Types', Counts, dropped \subseteq dropped',
           UNCHANGED <<worker, running, eventsWritten, eventsDropped, handed>>,
           holder'.base + Len(holder'.lost) <= Cardinality(dropped')
    PROVE  Counts'
<1>1. /\ Cardinality(dropped) \in Nat /\ Cardinality(dropped') \in Nat
      /\ Cardinality(dropped) <= Cardinality(dropped')
  BY DroppedGrows
<1>2. eventsDropped' <= Cardinality(dropped')
  BY <1>1 DEF Counts, Types
<1>3. worker'.step = "count" => worker'.base + Len(worker'.events) <= Cardinality(dropped')
  <2>1. SUFFICES ASSUME worker.step = "count"
                 PROVE  worker.base + Len(worker.events) <= Cardinality(dropped')
    OBVIOUS
  <2>2. worker \in [step : {"count"}, events : EventSeqs, base : Nat]
    BY <2>1, WorkerIs DEF Types
  <2>3. worker.base \in Nat /\ Len(worker.events) \in Nat
    BY <2>2, Lengths
  <2>4. worker.base + Len(worker.events) <= Cardinality(dropped)
    BY <2>1 DEF Counts
  <2> QED BY <1>1, <2>3, <2>4
<1> QED BY <1>2, <1>3 DEF Counts

\* The count ends.
LEMMA CountEnds ==
    ASSUME IInv, Types', Shape', Stays,
           UNCHANGED <<pending, rows, file, call, worker, running, eventsWritten>>,
           holder'.step \notin {"countOldest", "countOwn"},
           eventsDropped' <= Cardinality(dropped)
    PROVE  IInv' /\ Effect
<1>1. UNCHANGED <<handed, dropped, accepted>>
  BY DEF Stays
<1>2. Ranges' /\ Drained'
  BY <1>1, RangesStep DEF IInv
<1>3. Effect
  BY DEF Effect
<1>4. Order'
  BY <1>3, OrderStep DEF IInv
<1>5. Counts'
  BY <1>1, CountsStep DEF IInv
<1> QED BY <1>2, <1>3, <1>4, <1>5 DEF IInv

\* Each step of a flush keeps the invariant,
LEMMA FlushInv ==
    ASSUME IInv, Flush
    PROVE  IInv' /\ Effect
<1>0. Types /\ Shape /\ Ranges /\ Drained /\ Order /\ Counts
  BY DEF IInv
<1>1. CASE Put
  <2>1. Types' /\ Shape' /\ Stays
    BY <1>0, <1>1, PutStep
  <2>2. holder'.step \in {"put", "free"}
    BY <1>1 DEF Put, EndFlush, OpenBatch, BeginFlush, Free
  <2>3. UNCHANGED <<pending, rows, file, call, worker, running, eventsWritten, eventsDropped>>
    BY <1>1 DEF Put, clientVars
  <2> QED BY <2>1, <2>2, <2>3, PlainStep
<1>2. CASE PutFull
  <2>1. Types' /\ Shape' /\ Stays
    BY <1>0, <1>2, PutFullStep
  <2>2. holder'.step \in {"makeRoom", "discard"}
    <3>1. holder \in Flushes
      BY <1>0, <1>2 DEF PutFull, Types, HolderOK, Free
    <3> QED BY <1>2, <3>1 DEF PutFull, Flushes
  <2>3. UNCHANGED <<pending, rows, file, call, worker, running, eventsWritten, eventsDropped>>
    BY <1>2 DEF PutFull, clientVars
  <2> QED BY <2>1, <2>2, <2>3, PlainStep
<1>3. CASE MakeRoom
  <2>1. UNCHANGED <<pending, rows, file, call, worker, running, eventsWritten, eventsDropped,
                    accepted, handed>>
    BY <1>3 DEF MakeRoom, clientVars
  <2>2. /\ Types' /\ Shape'
        /\ \/ Stays /\ holder'.step = "putAgain"
           \/ Drops(holder'.lost) /\ holder'.base = eventsDropped
    BY <1>0, <1>3, MakeRoomStep
  <2>3. CASE Stays /\ holder'.step = "putAgain"
    BY <2>1, <2>2, <2>3, PlainStep
  <2>4. CASE Drops(holder'.lost) /\ holder'.base = eventsDropped
    <3>1. Effect
      BY <2>4 DEF Effect
    <3>2. Order'
      BY <1>0, <2>2, <3>1, OrderStep
    <3>3. Ranges' /\ Drained'
      BY <1>0, <2>1, <2>2, RangesStep
    <3>4. /\ dropped \subseteq dropped' /\ Len(holder'.lost) \in Nat
          /\ Cardinality(dropped') = Cardinality(dropped) + Len(holder'.lost)
      BY <1>0, <2>2, <2>4, DropsCount
    <3>5. holder'.base + Len(holder'.lost) <= Cardinality(dropped')
      <4>1. eventsDropped \in Nat /\ eventsDropped <= Cardinality(dropped) /\ Cardinality(dropped) \in Nat
        BY <1>0, <2>2, <3>4, DroppedGrows DEF Types, Counts
      <4> QED BY <2>4, <3>4, <4>1
    <3>6. Counts'
      BY <1>0, <2>1, <2>2, <3>4, <3>5, CountsBegin
    <3> QED BY <2>2, <3>1, <3>2, <3>3, <3>6 DEF IInv
  <2> QED BY <2>2, <2>3, <2>4
<1>4. CASE Discard
  <2>1. UNCHANGED <<pending, rows, file, call, worker, running, eventsWritten, eventsDropped,
                    accepted, handed>>
    BY <1>4 DEF Discard, clientVars
  <2>2. /\ Types' /\ Shape' /\ Drops(holder'.lost) /\ holder'.base = eventsDropped
    BY <1>0, <1>4, DiscardStep
  <2>3. Effect
    BY <2>2 DEF Effect
  <2>4. Order'
    BY <1>0, <2>2, <2>3, OrderStep
  <2>5. Ranges' /\ Drained'
    BY <1>0, <2>1, <2>2, RangesStep
  <2>6. /\ dropped \subseteq dropped' /\ Len(holder'.lost) \in Nat
        /\ Cardinality(dropped') = Cardinality(dropped) + Len(holder'.lost)
    BY <1>0, <2>2, DropsCount
  <2>7. holder'.base + Len(holder'.lost) <= Cardinality(dropped')
    <3>1. eventsDropped \in Nat /\ eventsDropped <= Cardinality(dropped) /\ Cardinality(dropped) \in Nat
      BY <1>0, <2>2, <2>6, DroppedGrows DEF Types, Counts
    <3> QED BY <2>2, <2>6, <3>1
  <2>8. Counts'
    BY <1>0, <2>1, <2>2, <2>6, <2>7, CountsBegin
  <2> QED BY <2>2, <2>3, <2>4, <2>5, <2>8 DEF IInv
<1>5. CASE CountOldest
  <2>1. /\ UNCHANGED <<pending, rows, file, call, worker, running, eventsWritten, accepted, handed, dropped>>
        /\ holder.step = "countOldest" /\ holder' = [holder EXCEPT !.step = "putAgain"]
        /\ eventsDropped' = holder.base + Len(holder.lost)
    BY <1>5 DEF CountOldest, clientVars
  <2>2. Types' /\ Shape' /\ Stays
    BY <1>0, <1>5, CountOldestStep
  <2>3. holder'.step = "putAgain"
    <3>1. holder \in Flushes
      BY <1>0, <2>1 DEF Types, HolderOK, Free
    <3> QED BY <2>1, <3>1 DEF Flushes
  <2>4. eventsDropped' <= Cardinality(dropped)
    BY <1>0, <2>1 DEF Counts
  <2> QED BY <1>0, <2>1, <2>2, <2>3, <2>4, CountEnds
<1>6. CASE CountOwn
  <2>1. /\ UNCHANGED <<pending, rows, file, call, worker, running, eventsWritten, accepted, handed, dropped>>
        /\ holder.step = "countOwn"
        /\ eventsDropped' = holder.base + Len(holder.lost)
    BY <1>6 DEF CountOwn, clientVars
  <2>2. Types' /\ Shape' /\ Stays
    BY <1>0, <1>6, CountOwnStep
  <2>3. holder'.step \in {"put", "free"}
    BY <1>6 DEF CountOwn, EndFlush, OpenBatch, BeginFlush, Free
  <2>4. eventsDropped' <= Cardinality(dropped)
    BY <1>0, <2>1 DEF Counts
  <2> QED BY <1>0, <2>1, <2>2, <2>3, <2>4, CountEnds
<1> QED BY <1>1, <1>2, <1>3, <1>4, <1>5, <1>6 DEF Flush

\* so does a write,
LEMMA WriteInv ==
    ASSUME IInv, Write
    PROVE  IInv' /\ Effect
<1>1. Types' /\ Shape' /\ Accepts
  BY WriteStep DEF IInv
<1>2. UNCHANGED <<pending, rows, file, call, worker, running, eventsWritten, eventsDropped>>
  BY DEF Write, clientVars
<1>3. holder'.step \notin {"countOldest", "countOwn"}
  BY DEF Write, OpenBatch, BeginFlush, Free
<1> QED BY <1>1, <1>2, <1>3, PlainStep

\* the timer,
LEMMA TimerInv ==
    ASSUME IInv, TimerFires \/ ScheduleFlush
    PROVE  IInv' /\ Effect
<1>1. Types' /\ Shape' /\ Stays
  BY TimerFiresStep, ScheduleFlushStep DEF IInv
<1>2. UNCHANGED <<pending, rows, file, call, worker, running, eventsWritten, eventsDropped>>
  BY DEF TimerFires, ScheduleFlush, clientVars
<1>3. holder' = holder \/ holder'.step \notin {"countOldest", "countOwn"}
  BY DEF TimerFires, ScheduleFlush, BeginFlush
<1> QED BY <1>1, <1>2, <1>3, PlainStep

\* stop(),
LEMMA StopInv ==
    ASSUME IInv, StopBegins \/ Stop \/ Deadline
    PROVE  IInv' /\ Effect
<1>1. Types' /\ Shape' /\ Stays
  BY StopBeginsStep, StopCancelsStep, StopFlushesStep, StopSendsSentinelStep, StopJoinsStep,
     StopClosesStep, DeadlineStep DEF IInv, Stop
<1>2. UNCHANGED <<pending, rows, file, call, worker, running, eventsWritten, eventsDropped>>
  BY DEF StopBegins, Stop, StopCancels, StopFlushes, StopSendsSentinel, StopJoins, StopCloses, Deadline,
         StopUnchanged, clientVars
<1>3. holder' = holder \/ holder'.step \notin {"countOldest", "countOwn"}
  BY DEF StopBegins, Stop, StopCancels, StopFlushes, StopSendsSentinel, StopJoins, StopCloses, Deadline,
         BeginFlush
<1> QED BY <1>1, <1>2, <1>3, PlainStep

\* A step of the worker that calls the client no more than before.
LEMMA WorkerPlain ==
    ASSUME IInv, Types', Shape', Stays,
           UNCHANGED <<pending, rows, file, call, running, holder, eventsWritten>>,
           worker.step # "sending", worker'.step \notin {"sending", "count"},
           eventsDropped' = eventsDropped \/ eventsDropped' <= Cardinality(dropped)
    PROVE  IInv' /\ Effect
<1>1. UNCHANGED <<handed, dropped, accepted>>
  BY DEF Stays
<1>2. Ranges' /\ Drained'
  BY <1>1, RangesStep DEF IInv
<1>3. Effect
  BY DEF Effect
<1>4. Order'
  BY <1>3, OrderStep DEF IInv
<1>5. Counts'
  BY <1>1, CountsStep DEF IInv
<1> QED BY <1>2, <1>3, <1>4, <1>5 DEF IInv

\* the worker, with its calls of the client,
LEMMA WorkerInv ==
    ASSUME IInv, Worker
    PROVE  IInv' /\ Effect
<1>0. Types /\ Shape /\ Ranges /\ Drained /\ Order /\ Counts
  BY DEF IInv
<1>1. CASE WorkerGets
  <2>1. Types' /\ Shape' /\ Stays
    BY <1>0, <1>1, WorkerGetsStep
  <2>2. worker.step # "sending" /\ worker'.step \notin {"sending", "count"}
    BY <1>1 DEF WorkerGets, Ended
  <2>3. UNCHANGED <<pending, rows, file, call, running, holder, eventsWritten, eventsDropped>>
    BY <1>1 DEF WorkerGets, WorkerUnchanged, clientVars
  <2> QED BY <2>1, <2>2, <2>3, WorkerPlain
<1>2. CASE WorkerPollsEmpty
  <2>1. Types' /\ Shape' /\ Stays
    BY <1>0, <1>2, WorkerPollsEmptyStep
  <2>2. worker.step # "sending" /\ worker'.step \notin {"sending", "count"}
    BY <1>2 DEF WorkerPollsEmpty
  <2>3. UNCHANGED <<pending, rows, file, call, running, holder, eventsWritten, eventsDropped>>
    BY <1>2 DEF WorkerPollsEmpty, WorkerUnchanged, clientVars
  <2> QED BY <2>1, <2>2, <2>3, WorkerPlain
<1>3. CASE WorkerLooksAtStop
  <2>1. Types' /\ Shape' /\ Stays
    BY <1>0, <1>3, WorkerLooksAtStopStep
  <2>2. worker.step # "sending" /\ worker'.step \notin {"sending", "count"}
    BY <1>3 DEF WorkerLooksAtStop, Ended, Polling
  <2>3. UNCHANGED <<pending, rows, file, call, running, holder, eventsWritten, eventsDropped>>
    BY <1>3 DEF WorkerLooksAtStop, WorkerUnchanged, clientVars
  <2> QED BY <2>1, <2>2, <2>3, WorkerPlain
<1>4. CASE WorkerSends
  <2>1. Types' /\ Shape' /\ Delivers(worker.events)
    BY <1>0, <1>4, WorkerSendsStep
  <2>2. /\ worker.step = "send" /\ worker' = [worker EXCEPT !.step = "sending"]
        /\ call' = [phase |-> "insert", events |-> worker.events, tried |-> 0]
        /\ handed' = handed \o worker.events
        /\ UNCHANGED <<pending, rows, file, accepted, running, holder, eventsWritten, eventsDropped, dropped>>
    BY <1>4 DEF WorkerSends, WorkerUnchanged, StartCall
  <2>3. worker \in [step : {"send", "sending"}, events : Filled, tried : Nat]
        /\ AtWorker(worker) = worker.events
    BY <1>0, <2>2, WorkerIs DEF Types
  <2>4. worker'.step = "sending" /\ worker'.events = worker.events
    BY <2>2, <2>3
  <2>5. Effect
    BY <2>1 DEF Effect
  <2>6. Order'
    BY <1>0, <2>1, <2>5, OrderStep
  <2>7. call'.phase = "insert" /\ call'.events = worker.events
    BY <2>2
  <2>8. Known(worker.events, accepted)
    <3>1. \A e \in ToSet(worker.events) : e \in 1..accepted
      BY <1>0, <2>3, OnTheirWay
    <3>2. \A e \in 1..accepted : e \in 0..accepted
      OBVIOUS
    <3> QED BY <3>1, <3>2, Zenon DEF Known
  <2>9. Ranges' /\ Drained'
    BY <1>0, <2>1, <2>2, <2>7, <2>8, RangesStep
  <2>10. running' => running /\ eventsWritten' = Len(handed') - Len(worker'.events)
    <3>1. worker.events \in EventSeqs /\ handed \in EventSeqs
      BY <1>0, <2>3 DEF Filled, Types
    <3>2. Len(handed') = Len(handed) + Len(worker.events) /\ Len(handed) \in Nat
          /\ Len(worker.events) \in Nat
      BY <2>2, <3>1, TwoParts
    <3>3. running => eventsWritten = Len(handed)
      <4>1. running => eventsWritten = Len(handed) - 0
        BY <1>0, <2>2, Zenon DEF Counts
      <4> QED BY <3>2, <4>1
    <3> QED BY <2>2, <2>4, <3>2, <3>3
  <2>11. Counts'
    BY <1>0, <2>1, <2>2, <2>4, <2>10, CountsStep
  <2> QED BY <2>1, <2>5, <2>6, <2>9, <2>11 DEF IInv
<1>5. CASE WorkerSent
  <2>1. Types' /\ Shape' /\ Stays
    BY <1>0, <1>5, WorkerSentStep
  <2>2. /\ worker.step = "sending" /\ worker' = Polling /\ call' = Idle
        /\ eventsWritten' = eventsWritten + Len(worker.events)
        /\ UNCHANGED <<pending, rows, file, accepted, running, holder, eventsDropped, dropped, handed>>
    BY <1>5 DEF WorkerSent, WorkerUnchanged
  <2>3. worker'.step = "poll" /\ call'.phase = "idle"
    BY <2>2 DEF Polling, Idle
  <2>4. Effect
    BY <2>1 DEF Effect
  <2>5. Order'
    BY <1>0, <2>1, <2>4, OrderStep
  <2>6. Ranges' /\ Drained'
    BY <1>0, <2>1, <2>2, <2>3, RangesStep
  <2>7. running' => running /\ eventsWritten' = Len(handed') - 0
    <3>1. worker \in [step : {"send", "sending"}, events : Filled, tried : Nat]
      BY <1>0, <2>2, WorkerIs DEF Types
    <3>2. worker.events \in EventSeqs /\ handed \in EventSeqs
      BY <1>0, <3>1 DEF Filled, Types
    <3>3. Len(handed) \in Nat /\ Len(worker.events) \in Nat
      BY <3>2, Lengths
    <3>4. running => eventsWritten = Len(handed) - Len(worker.events)
      BY <1>0, <2>2, Zenon DEF Counts
    <3> QED BY <2>2, <3>3, <3>4
  <2>8. Counts'
    BY <1>0, <2>1, <2>2, <2>3, <2>7, CountsStep
  <2> QED BY <2>1, <2>4, <2>5, <2>6, <2>8 DEF IInv
<1>6. CASE WorkerRetries
  <2>1. Types' /\ Shape' /\ (Stays \/ Drops(worker.events))
    BY <1>0, <1>6, WorkerRetriesStep
  <2>2. /\ worker.step = "send"
        /\ UNCHANGED <<pending, rows, file, call, accepted, running, holder,
                       eventsWritten, eventsDropped, handed>>
    BY <1>6 DEF WorkerRetries, WorkerUnchanged, clientVars
  <2>3. worker \in [step : {"send", "sending"}, events : Filled, tried : Nat]
    BY <1>0, <2>2, WorkerIs DEF Types
  <2>4. Effect
    BY <2>1 DEF Effect
  <2>5. Order'
    BY <1>0, <2>1, <2>4, OrderStep
  <2>6. Ranges' /\ Drained'
    BY <1>0, <2>1, <2>2, RangesStep
  <2>7. CASE worker' = [worker EXCEPT !.tried = @ + 1] /\ UNCHANGED dropped
    <3>1. worker'.step = "send"
      BY <2>2, <2>3, <2>7
    <3>2. Counts'
      BY <1>0, <2>1, <2>2, <2>7, <3>1, CountsStep
    <3> QED BY <2>1, <2>4, <2>5, <2>6, <3>2 DEF IInv
  <2>8. CASE /\ worker' = [step |-> "count", events |-> worker.events, base |-> eventsDropped]
             /\ dropped' = dropped \cup ToSet(worker.events)
    <3>1. worker'.step = "count" /\ worker'.base = eventsDropped /\ worker'.events = worker.events
      BY <2>8
    <3>2. CASE Stays
      <4>1. dropped' = dropped /\ ToSet(worker.events) \subseteq dropped
        BY <2>8, <3>2 DEF Stays
      <4>2. worker.events \in EventSeqs /\ worker.events # <<>>
        BY <2>3 DEF Filled
      <4>3. AtWorker(worker) = worker.events
        BY <1>0, <2>2, WorkerIs DEF Types
      <4>4. ToSet(worker.events) \cap dropped = {}
        BY <1>0, <4>3, OnTheirWay
      <4>5. worker.events[1] \in ToSet(worker.events)
        <5>1. Len(worker.events) \in Nat /\ Len(worker.events) # 0
          BY <4>2, Lengths
        <5>2. 1 \in 1..Len(worker.events)
          BY <5>1
        <5> QED BY <4>2, <5>2, EventSet
      <4> QED BY <4>1, <4>4, <4>5
    <3>3. CASE Drops(worker.events)
      <4>1. /\ dropped \subseteq dropped' /\ Len(worker.events) \in Nat
            /\ Cardinality(dropped') = Cardinality(dropped) + Len(worker.events)
        BY <1>0, <2>1, <3>3, DropsCount
      <4>2. worker'.base + Len(worker'.events) <= Cardinality(dropped')
        <5>1. eventsDropped \in Nat /\ eventsDropped <= Cardinality(dropped) /\ Cardinality(dropped) \in Nat
          BY <1>0, <2>1, <4>1, DroppedGrows DEF Types, Counts
        <5> QED BY <3>1, <4>1, <5>1
      <4>3. Counts'
        BY <1>0, <2>1, <2>2, <3>1, <4>1, <4>2, CountsStep
      <4> QED BY <2>1, <2>4, <2>5, <2>6, <4>3 DEF IInv
    <3> QED BY <2>1, <3>2, <3>3
  <2> QED BY <1>6, <2>7, <2>8 DEF WorkerRetries
<1>7. CASE WorkerCountsDropped
  <2>1. Types' /\ Shape' /\ Stays
    BY <1>0, <1>7, WorkerCountsDroppedStep
  <2>2. worker.step = "count" /\ worker'.step = "poll"
        /\ eventsDropped' = worker.base + Len(worker.events)
    BY <1>7 DEF WorkerCountsDropped, Polling
  <2>3. UNCHANGED <<pending, rows, file, call, running, holder, eventsWritten>>
    BY <1>7 DEF WorkerCountsDropped, WorkerUnchanged, clientVars
  <2>4. eventsDropped' <= Cardinality(dropped)
    BY <1>0, <2>2 DEF Counts
  <2> QED BY <2>1, <2>2, <2>3, <2>4, WorkerPlain
<1>8. CASE WorkerCall
  <2>1. Types' /\ Shape' /\ Ranges' /\ Drained' /\ Stays /\ UNCHANGED writerVars
    BY <1>0, <1>8, WorkerCallStep
  <2>2. UNCHANGED <<worker, holder, running, eventsWritten, eventsDropped, dropped, handed>>
    BY <2>1 DEF writerVars
  <2>3. Effect
    BY <2>1 DEF Effect
  <2>4. Order'
    BY <1>0, <2>1, <2>3, OrderStep
  <2>5. Counts'
    BY <1>0, <2>1, <2>2, CountsStep
  <2> QED BY <2>1, <2>3, <2>4, <2>5 DEF IInv
<1> QED BY <1>1, <1>2, <1>3, <1>4, <1>5, <1>6, <1>7, <1>8 DEF Worker

\* the signal handler,
LEMMA SignalInv ==
    ASSUME IInv, Signal
    PROVE  IInv' /\ Effect
<1>0. Types /\ Shape /\ Ranges /\ Drained /\ Order /\ Counts
  BY DEF IInv
<1>1. Types' /\ Shape' /\ Ranges' /\ Drained' /\ Stays /\ UNCHANGED writerVars
  BY <1>0, SignalStep
<1>2. UNCHANGED <<worker, holder, running, eventsWritten, eventsDropped, dropped, handed>>
  BY <1>1 DEF writerVars
<1>3. Effect
  BY <1>1 DEF Effect
<1>4. Order'
  BY <1>0, <1>1, <1>3, OrderStep
<1>5. Counts'
  BY <1>0, <1>1, <1>2, CountsStep
<1> QED BY <1>1, <1>3, <1>4, <1>5 DEF IInv

\* and the end of the process.
LEMMA ExitInv ==
    ASSUME IInv, Exit
    PROVE  IInv' /\ Effect
<1>0. Types /\ Shape /\ Ranges /\ Drained /\ Order /\ Counts
  BY DEF IInv
<1>1. Types' /\ Shape' /\ Ranges' /\ Drained' /\ Forgets
  BY <1>0, ExitStep
<1>2. UNCHANGED <<holder, eventsWritten, eventsDropped, dropped, handed>> /\ running' = FALSE
      /\ worker'.step = "ended"
  BY DEF Exit, Ended
<1>3. Effect
  BY <1>1 DEF Effect
<1>4. Order'
  BY <1>0, <1>1, <1>3, OrderStep
<1>5. Counts'
  BY <1>0, <1>1, <1>2, CountsStep
<1> QED BY <1>1, <1>3, <1>4, <1>5 DEF IInv

\* A new process has the invariant.
LEMMA InitInv ==
    ASSUME Init
    PROVE  IInv
<1>1. /\ accepted = 0 /\ batch = NoBatch /\ queue = <<>> /\ holder = Free /\ timer = "armed"
      /\ worker = Polling /\ stop = "no" /\ stopEvent = FALSE /\ late = FALSE /\ running = TRUE
      /\ eventsWritten = 0 /\ eventsDropped = 0 /\ dropped = {} /\ handed = <<>>
      /\ rows = <<>> /\ registered = TRUE /\ call = Idle /\ handler = "idle" /\ faults = 0 /\ signals = 0
      /\ Replayed
  BY DEF Init, ClientInit
<1>2. <<>> \in EventSeqs /\ <<0>> \in EventSeqs /\ ToSet(<<>>) = {} /\ ToSet(<<0>>) = {0} /\ Len(<<>>) = 0
  <2>1. ToSet(<<0>>) = {0}
    BY DEF ToSet
  <2> QED BY <2>1, Lengths, KnownEmpty
<1>3. Len(Load) \in Nat
  BY Marks, LenProperties
<1>4. /\ pending \in EventSeqs /\ Known(pending, 0) /\ Known(rows, 0)
      /\ file = NoFile \/ (file \in EventSeqs /\ Known(file, 0))
  BY <1>1, <1>2 DEF Replayed, Known
<1>5. QueueOK(queue)
  <2>1. <<>> \in Seq(Entries)
    BY EmptySeq
  <2> QED BY <1>1, <1>2, <2>1, Bounds DEF QueueOK
<1>6. BatchOK(batch) /\ HolderOK(holder) /\ WorkerOK(worker) /\ CallOK(call)
  BY <1>1 DEF BatchOK, HolderOK, WorkerOK, CallOK
<1>7. Types
  <2>1. accepted \in 0..Len(Load) /\ faults \in 0..MaxFaults /\ signals \in 0..MaxSignals
    BY <1>1, <1>3, ClientAssumption
  <2>2. rows \in EventSeqs /\ handed \in EventSeqs /\ eventsWritten \in Nat /\ eventsDropped \in Nat
    BY <1>1, <1>2
  <2>3. dropped \subseteq 1..accepted
    BY <1>1
  <2> QED BY <1>1, <1>4, <1>5, <1>6, <2>1, <2>2, <2>3 DEF Types
<1>8. worker.step = "poll" /\ holder.step = "free" /\ call.phase = "idle"
  BY <1>1 DEF Polling, Free, Idle
<1>9. Shape
  BY <1>1, <1>8 DEF Shape
<1>10. Ranges /\ Drained
  BY <1>1, <1>4, <1>8 DEF Ranges, Drained
<1>11. Transit = <<>>
  <2>1. AtWorker(worker) = <<>> /\ InFlush(holder) = <<>> /\ InBatch(batch) = <<>> /\ Waiting(holder) = <<>>
    BY <1>1, <1>8 DEF AtWorker, InFlush, InBatch, Waiting
  <2>2. Queued(queue) = <<>>
    BY <1>1, QueuedEmpty
  <2>3. <<>> \o <<>> = <<>>
    BY Nothing, Zenon
  <2> QED BY <2>1, <2>2, <2>3, Zenon DEF Transit
<1>12. Order
  <2>1. handed \o Transit = <<>>
    BY <1>1, <1>11, Nothing, Zenon
  <2>2. InOrder(<<>>, accepted)
    BY <1>2 DEF InOrder
  <2> QED BY <1>1, <2>1, <2>2, Zenon DEF Order
<1>13. Counts
  <2>1. Cardinality({}) = 0
    BY FS_EmptySet
  <2> QED BY <1>1, <1>2, <1>8, <2>1 DEF Counts
<1> QED BY <1>7, <1>9, <1>10, <1>12, <1>13 DEF IInv

\* The invariant is inductive, and each step has one of the effects.
LEMMA StepInv ==
    ASSUME IInv, [Next]_vars
    PROVE  IInv' /\ (Effect \/ UNCHANGED vars)
<1>1. CASE Next
  BY <1>1, WriteInv, FlushInv, TimerInv, WorkerInv, StopInv, SignalInv, ExitInv DEF Next
<1>2. CASE UNCHANGED vars
  BY <1>2 DEF vars, clientVars, writerVars, IInv, Types, Shape, Ranges, Drained, Order, Counts, Transit
<1> QED BY <1>1, <1>2

\* The invariant on which the other results rest.
THEOREM WriterInvariant == Spec => []IInv
<1>1. Init => IInv
  BY InitInv
<1>2. IInv /\ [Next]_vars => IInv'
  BY StepInv
<1> QED BY <1>1, <1>2, PTL DEF Spec

\* Every event that anybody holds was accepted or saved before, no batch is
\* larger than batch_size and the queue not longer than its bound; the timer and
\* stop() wait for a flush of their own, and only a worker that sends calls.
THEOREM WriterTypes == Spec => []TypeOK
<1>1. IInv => TypeOK
  <2> SUFFICES ASSUME IInv PROVE TypeOK
    OBVIOUS
  <2>1. Types /\ Shape /\ Ranges /\ Order
    BY DEF IInv
  <2>2. EventIn(pending) /\ EventIn(rows) /\ (file = NoFile \/ EventIn(file))
    BY <2>1 DEF Ranges, Known, EventIn
  <2>3. EventIn(handed)
    <3>1. \A e \in ToSet(handed) : e \in 1..accepted
      BY <2>1, OnTheirWay
    <3>2. 1..accepted \subseteq 0..accepted
      OBVIOUS
    <3> QED BY <3>1, <3>2 DEF EventIn
  <2>4. call.phase \in {"idle", "insert", "drain", "returned"}
    BY <2>1 DEF Types, CallOK, Idle
  <2>5. batch # NoBatch => batch.task \in ToSet(Load) /\ Len(batch.events) < BatchSize
    BY <2>1 DEF Types, BatchOK, Batches
  <2>6. /\ Len(queue) <= QueueSize
        /\ \A b \in ToSet(queue) \ {Sentinel} : b.task \in ToSet(Load) /\ Len(b.events) \in 1..BatchSize
    <3>1. queue \in Seq(Entries) /\ Len(queue) <= QueueSize
      BY <2>1 DEF Types, QueueOK
    <3>2. \A b \in ToSet(queue) : b \in Entries
      BY <3>1, ElementOfSeq DEF ToSet
    <3> QED BY <3>1, <3>2 DEF Entries, Fitting, Batches
  <2> QED BY <2>1, <2>2, <2>3, <2>4, <2>5, <2>6 DEF TypeOK, Types, Shape
<1> QED BY <1>1, WriterInvariant, PTL

\* The statistics report no more than what happened, and no event is both
\* handed over and counted as dropped, although the worker and the flush add to
\* events_dropped without a lock.
THEOREM WriterStatsSound == Spec => []StatsNeverOvercount
<1>1. IInv => StatsNeverOvercount
  <2> SUFFICES ASSUME IInv PROVE StatsNeverOvercount
    OBVIOUS
  <2>1. Types /\ Order /\ Counts
    BY DEF IInv
  <2>2. ToSet(handed) \cap dropped = {}
    BY <2>1, OnTheirWay
  <2> QED BY <2>1, <2>2 DEF StatsNeverOvercount, Counts
<1> QED BY <1>1, WriterInvariant, PTL

-----------------------------------------------------------------------------
(* No event vanishes                                                       *)

Inserting == IF call.phase = "insert" THEN ToSet(call.events) ELSE {}
Filed == IF file = NoFile THEN {} ELSE ToSet(file)
Held == ToSet(T1) \cup Inserting \cup ToSet(pending) \cup ToSet(rows) \cup dropped \cup Filed

\* A sequence of one event.
LEMMA OneEvent == \A e : ToSet(<<e>>) = {e}
BY DEF ToSet

\* What is kept is the line, what the client has, and what was dropped.
LEMMA KeptIs == Types /\ Shape => Kept = Held
<1> SUFFICES ASSUME Types, Shape
             PROVE  Kept = Held
  OBVIOUS
<1> DEFINE a == ToSet(AtWorker(worker))
           q == ToSet(Queued(queue))
           h == ToSet(InFlush(holder))
           b == ToSet(InBatch(batch))
           f == ToSet(Waiting(holder))
<1>1. ToSet(T1) = a \cup q \cup h \cup b \cup f
  <2>1. ToSet(Line(AtWorker(worker), Queued(queue), InFlush(holder), InBatch(batch), Waiting(holder)))
           = a \cup q \cup h \cup b \cup f
    BY LineTypes, LineSet
  <2> QED BY <2>1, Zenon DEF T1, Events
<1>2. ToSet(<<>>) = {}
  BY KnownEmpty
<1>3. a = IF worker.step = "send" THEN ToSet(worker.events) ELSE {}
  BY <1>2, Zenon DEF AtWorker
<1>4. q = UNION {ToSet(x.events) : x \in ToSet(queue) \ {Sentinel}}
  BY QueuedSet DEF Types, QueueOK
<1>5. h = IF holder.step \in {"put", "makeRoom", "countOldest", "putAgain", "discard"}
          THEN ToSet(holder.out.events) ELSE {}
  <2>1. holder.step \in FlushSteps \cup {"free"}
    BY DEF Types, HolderOK, Flushes, Free
  <2> QED BY <1>2, <2>1 DEF InFlush, FlushSteps
<1>6. b = IF batch = NoBatch THEN {} ELSE ToSet(batch.events)
  BY <1>2, Zenon DEF InBatch
<1>7. f = IF holder = Free THEN {} ELSE {holder.first} \ {0}
  <2>1. ToSet(<<holder.first>>) = {holder.first}
    BY OneEvent
  <2> QED BY <1>2, <2>1 DEF Waiting
<1>8. call.phase = "insert" => ToSet(call.events) = ToSet(worker.events)
  BY DEF Shape
<1> HIDE DEF a, q, h, b, f
<1>9. InMemory = a \cup q \cup h \cup b \cup f \cup Inserting \cup ToSet(pending)
  BY <1>3, <1>4, <1>5, <1>6, <1>7, <1>8 DEF InMemory, Inserting
<1> QED BY <1>1, <1>9 DEF Kept, Held, Filed

\* The events of a sequence are those of the run and of the rest.
LEMMA CutSet ==
    ASSUME NEW s \in EventSeqs, NEW t \in EventSeqs, NEW M \in EventSeqs, Cut(s, t, M)
    PROVE  ToSet(s) = ToSet(t) \cup ToSet(M)
<1>1. PICK a, c \in EventSeqs : s = a \o (M \o c) /\ t = a \o c
  BY DEF Cut
<1>2. M \o c \in EventSeqs
  BY Closed, Zenon
<1>3. /\ ToSet(M \o c) = ToSet(M) \cup ToSet(c)
      /\ ToSet(a \o c) = ToSet(a) \cup ToSet(c)
      /\ ToSet(a \o (M \o c)) = ToSet(a) \cup ToSet(M \o c)
  BY <1>2, JoinedSet, Zenon
<1>4. ToSet(s) = ToSet(a) \cup (ToSet(M) \cup ToSet(c)) /\ ToSet(t) = ToSet(a) \cup ToSet(c)
  BY <1>1, <1>3, Zenon
<1> QED BY <1>4

\* What leaves the line and is not handed over is counted as dropped.
LEMMA LineKept ==
    ASSUME Types, Types', Order, Effect, UNCHANGED handed, NEW e \in ToSet(T1)
    PROVE  \/ e \in ToSet(T2) \cup dropped'
           \/ ~running'
<1>1. /\ T1 \in EventSeqs /\ accepted \in Nat /\ handed \in EventSeqs
      /\ handed \o T1 \in EventSeqs
      /\ InOrder(handed \o T1, accepted)
  BY OnTheirWay
<1>2. T2 \in EventSeqs
  BY TransitThen
<1>3. CASE Stays
  BY <1>3 DEF Stays
<1>4. CASE Accepts
  <2>1. accepted + 1 \in Nat /\ T2 = Append(T1, accepted + 1)
    BY <1>1, <1>4 DEF Accepts
  <2>2. ToSet(T2) = ToSet(T1) \cup {accepted + 1}
    <3>1. \A s \in EventSeqs, k \in Nat : ToSet(Append(s, k)) = ToSet(s) \cup {k}
      BY AppendSet DEF EventSeqs
    <3> QED BY <1>1, <2>1, <3>1, Zenon
  <2> QED BY <2>2
<1>5. CASE \E M : Drops(M)
  <2>1. PICK M : Drops(M)
    BY <1>5
  <2>2. M \in EventSeqs /\ Cut(T1, T2, M) /\ dropped' = dropped \cup ToSet(M)
    BY <2>1 DEF Drops
  <2>3. ToSet(T1) = ToSet(T2) \cup ToSet(M)
    <3>1. \A s, t, K \in EventSeqs : Cut(s, t, K) => ToSet(s) = ToSet(t) \cup ToSet(K)
      BY CutSet
    <3>2. T1 \in EventSeqs /\ T2 \in EventSeqs /\ M \in EventSeqs /\ Cut(T1, T2, M)
      BY <1>1, <1>2, <2>2
    <3> QED BY <3>1, <3>2
  <2> QED BY <2>2, <2>3
<1>6. CASE \E M : Delivers(M)
  <2>1. PICK M : Delivers(M)
    BY <1>6
  <2>2. M \in EventSeqs /\ M # <<>> /\ handed = handed \o M
    BY <2>1 DEF Delivers, Filled
  <2>3. Len(handed \o M) = Len(handed) + Len(M) /\ Len(handed) \in Nat /\ Len(M) \in Nat
    BY <1>1, <2>2, TwoParts
  <2>4. Len(M) # 0
    BY <2>2, Lengths
  <2>5. Len(handed \o M) = Len(handed)
    BY <2>2, Zenon
  <2> QED BY <2>3, <2>4, <2>5
<1>7. CASE Forgets
  BY <1>7 DEF Forgets
<1> QED BY <1>3, <1>4, <1>5, <1>6, <1>7 DEF Effect

\* What was dropped stays dropped.
LEMMA DroppedStay == Effect => dropped \subseteq dropped'
BY DEF Effect, Stays, Accepts, Drops, Delivers, Forgets

\* The client gives up nothing it has: what it inserts it retries, puts in its
\* queue or has sent, and the queue is cleared when each table took its events.
LEMMA ClientKeeps ==
    ASSUME Types, Drained, ClientStep
    PROVE  \A e \in Inserting \cup ToSet(pending) \cup ToSet(rows) :
               e \in Inserting' \cup ToSet(pending') \cup ToSet(rows')
<1>0. pending \in EventSeqs /\ rows \in EventSeqs /\ CallOK(call)
  BY DEF Types
<1>1. CASE Insert
  <2>1. rows' = rows \o call.events /\ pending' = pending /\ call.phase = "insert"
    BY <1>1 DEF Insert
  <2>2. call.events \in EventSeqs
    BY <1>0, <2>1, CallIs
  <2>3. ToSet(rows') = ToSet(rows) \cup ToSet(call.events)
    BY <1>0, <2>1, <2>2, JoinedSet, Zenon
  <2> QED BY <2>1, <2>3 DEF Inserting
<1>2. CASE InsertFails
  <2>1. call.phase = "insert" /\ Fails(call.events)
    BY <1>2 DEF InsertFails
  <2>2. call \in [phase : {"insert"}, events : EventSeqs, tried : Nat]
    BY <1>0, <2>1, CallIs
  <2>3. call.events \in EventSeqs
    BY <2>2
  <2>4. ToSet(rows) \subseteq ToSet(rows')
    <3>1. rows' \in {rows, rows \o call.events}
      BY <2>1 DEF Fails
    <3>2. ToSet(rows \o call.events) = ToSet(rows) \cup ToSet(call.events)
      BY <1>0, <2>3, JoinedSet, Zenon
    <3> QED BY <3>1, <3>2
  <2>5. CASE call' = [call EXCEPT !.tried = @ + 1] /\ UNCHANGED pending
    <3>1. call'.phase = "insert" /\ call'.events = call.events
      BY <2>2, <2>5
    <3> QED BY <2>1, <2>4, <2>5, <3>1 DEF Inserting
  <2>6. CASE pending' = pending \o call.events
    <3>1. ToSet(pending \o call.events) = ToSet(pending) \cup ToSet(call.events)
      BY <1>0, <2>3, JoinedSet, Zenon
    <3> QED BY <2>1, <2>4, <2>6, <3>1 DEF Inserting
  <2> QED BY <1>2, <2>5, <2>6 DEF InsertFails
<1>3. CASE DrainTable \/ DrainTableFails
  <2> DEFINE s == OfTable(call.events, NextTable)
  <2>1. call.phase = "drain" /\ pending' = pending /\ rows' \in {rows, rows \o s}
    BY <1>3 DEF DrainTable, DrainTableFails, Fails
  <2>2. call.events \in EventSeqs
    BY <1>0, <2>1, CallIs
  <2>3. s \in EventSeqs
    BY <2>2, OfTableIs DEF EventSeqs
  <2> HIDE DEF s
  <2>4. ToSet(rows \o s) = ToSet(rows) \cup ToSet(s)
    BY <1>0, <2>3, JoinedSet, Zenon
  <2> QED BY <2>1, <2>4 DEF Inserting
<1>4. CASE DrainEnds
  <2>1. /\ call.phase = "drain" /\ call.left = {} /\ rows' = rows
        /\ pending' = IF call.allFlushed THEN <<>> ELSE pending
    BY <1>4 DEF DrainEnds
  <2>2. CASE call.allFlushed
    <3>1. \A e \in ToSet(pending) : e \in ToSet(rows)
      BY <2>1, <2>2 DEF Drained
    <3> QED BY <2>1, <3>1 DEF Inserting
  <2>3. CASE ~ call.allFlushed
    BY <2>1, <2>3 DEF Inserting
  <2> QED BY <2>2, <2>3
<1> QED BY <1>1, <1>2, <1>3, <1>4 DEF ClientStep

\* Most steps leave the client alone.
ClientWaits ==
    \/ Write \/ Flush \/ TimerFires \/ ScheduleFlush \/ StopBegins \/ Stop \/ Deadline
    \/ WorkerGets \/ WorkerPollsEmpty \/ WorkerLooksAtStop \/ WorkerRetries \/ WorkerCountsDropped

\* Those steps change nothing the client has.
LEMMA Waits == ClientWaits => UNCHANGED <<pending, rows, file, call, handed>>
<1>1. Write \/ Flush \/ TimerFires \/ ScheduleFlush => UNCHANGED <<pending, rows, file, call, handed>>
  BY DEF Write, Flush, Put, PutFull, MakeRoom, Discard, CountOldest, CountOwn, TimerFires,
         ScheduleFlush, clientVars
<1>2. StopBegins \/ Stop \/ Deadline => UNCHANGED <<pending, rows, file, call, handed>>
  BY DEF StopBegins, Stop, StopCancels, StopFlushes, StopSendsSentinel, StopJoins, StopCloses, Deadline,
         StopUnchanged, clientVars
<1>3. WorkerGets \/ WorkerPollsEmpty \/ WorkerLooksAtStop \/ WorkerRetries \/ WorkerCountsDropped
         => UNCHANGED <<pending, rows, file, call, handed>>
  BY DEF WorkerGets, WorkerPollsEmpty, WorkerLooksAtStop, WorkerRetries, WorkerCountsDropped, clientVars
<1> QED BY <1>1, <1>2, <1>3 DEF ClientWaits

\* What is held before a step is held after it.
LEMMA HeldStays ==
    ASSUME IInv, IInv', Effect, Next
    PROVE  \A e \in Held : e \in Held' \/ ~running' \/ handler # handler'
<1>0. Types /\ Shape /\ Ranges /\ Drained /\ Order /\ Types'
  BY DEF IInv
<1>1. dropped \subseteq dropped'
  BY DroppedStay
<1>2. T1' = T2
  BY Zenon DEF T1, T2, Events
<1>3. Held' = ToSet(T2) \cup Inserting' \cup ToSet(pending') \cup ToSet(rows') \cup dropped' \cup Filed'
  BY <1>2, Zenon DEF Held
<1>4. UNCHANGED handed => \A e \in ToSet(T1) : e \in ToSet(T2) \cup dropped' \/ ~running'
  BY <1>0, LineKept
<1>5. CASE ClientWaits
  <2>1. UNCHANGED <<pending, rows, file, call, handed>>
    BY <1>5, Waits
  <2>2. Inserting' = Inserting /\ Filed' = Filed
    BY <2>1 DEF Inserting, Filed
  <2> QED BY <1>1, <1>3, <1>4, <2>1, <2>2 DEF Held
<1>6. CASE WorkerSends
  <2>1. /\ worker.step = "send"
        /\ call' = [phase |-> "insert", events |-> worker.events, tried |-> 0]
        /\ UNCHANGED <<pending, rows, file>>
    BY <1>6 DEF WorkerSends, StartCall
  <2>2. call = Idle
    BY <1>0, <2>1 DEF Shape
  <2>3. Inserting = {} /\ Inserting' = ToSet(worker.events) /\ Filed' = Filed
    BY <2>1, <2>2 DEF Inserting, Idle, Filed
  <2>4. ToSet(T1) = ToSet(worker.events) \cup ToSet(T2)
    <3>1. Delivers(worker.events)
      BY <1>0, <1>6, WorkerSendsStep
    <3>2. worker.events \in EventSeqs /\ T1 = worker.events \o T2
      BY <3>1 DEF Delivers, Filled
    <3>3. T2 \in EventSeqs
      BY <1>0, TransitThen
    <3>4. ToSet(worker.events \o T2) = ToSet(worker.events) \cup ToSet(T2)
      BY <3>2, <3>3, JoinedSet, Zenon
    <3> QED BY <3>2, <3>4
  <2> QED BY <1>1, <1>3, <2>1, <2>3, <2>4 DEF Held
<1>7. CASE WorkerSent
  <2>1. call.phase = "returned" /\ UNCHANGED <<pending, rows, file, handed>>
    BY <1>7 DEF WorkerSent
  <2>2. Inserting = {} /\ Filed' = Filed
    BY <2>1 DEF Inserting, Filed
  <2> QED BY <1>1, <1>3, <1>4, <2>1, <2>2 DEF Held
<1>8. CASE WorkerCall
  <2>1. ClientStep /\ UNCHANGED <<file, handed>>
    BY <1>8 DEF WorkerCall, writerVars, ClientStep, Insert, InsertFails, DrainTable, DrainTableFails, DrainEnds
  <2>2. Filed' = Filed
    BY <2>1 DEF Filed
  <2>3. \A e \in Inserting \cup ToSet(pending) \cup ToSet(rows) :
            e \in Inserting' \cup ToSet(pending') \cup ToSet(rows')
    BY <1>0, <2>1, ClientKeeps
  <2> QED BY <1>1, <1>3, <1>4, <2>1, <2>2, <2>3 DEF Held
<1>9. CASE Signal
  BY <1>9 DEF Signal, SignalSaves, SignalClears
<1>10. CASE Exit
  BY <1>10 DEF Exit
<1> QED BY <1>5, <1>6, <1>7, <1>8, <1>9, <1>10 DEF Next, ClientWaits, Worker

\* While the process runs an event that the writer or the client has is not
\* lost, but for the queue that the signal handler clears.
THEOREM WriterKeepsEvents == Spec => NothingVanishes
<1>1. IInv => Kept = Held
  BY KeptIs DEF IInv
<1>2. IInv /\ [Next]_vars => IInv'
  BY StepInv
<1>3. (IInv => Kept = Held)'
  BY <1>1, PTL
<1>4. IInv /\ [Next]_vars => [\A e \in Kept : e \in Kept' \/ ~running' \/ handler # handler']_vars
  <2> SUFFICES ASSUME IInv, Next
               PROVE  \A e \in Kept : e \in Kept' \/ ~running' \/ handler # handler'
    OBVIOUS
  <2>1. IInv' /\ (Effect \/ UNCHANGED vars)
    BY StepInv
  <2>2. Kept = Held /\ Kept' = Held'
    BY <1>1, <1>3, <2>1
  <2>3. CASE Effect
    <3>1. \A e \in Held : e \in Held' \/ ~running' \/ handler # handler'
      BY <2>1, <2>3, HeldStays
    <3> QED BY <2>2, <3>1, Zenon
  <2>4. CASE UNCHANGED vars
    <3>1. Held' = Held
      BY <2>4 DEF vars, clientVars, writerVars, Held, T1, Inserting, Filed
    <3> QED BY <2>2, <3>1
  <2> QED BY <2>1, <2>3, <2>4
<1> QED BY <1>4, WriterInvariant, PTL DEF Spec, NothingVanishes

-----------------------------------------------------------------------------
(* The writer is a lossy channel                                           *)

\* The operators the channel uses are those of this module.
LEMMA ChannelOps == (\A s : Channel!ToSet(s) = ToSet(s)) /\ (\A s : Channel!Last(s) = Last(s))
BY Zenon DEF Channel!ToSet, ToSet, Channel!Last, Last

\* The last event of a line is the one that was appended.
LEMMA LastOf ==
    ASSUME NEW s \in EventSeqs, NEW e \in Nat
    PROVE  Append(s, e) # <<>> /\ Last(Append(s, e)) = e
<1>1. Len(s) \in Nat /\ Len(Append(s, e)) = Len(s) + 1 /\ Append(s, e)[Len(s) + 1] = e
  BY AppendFacts DEF EventSeqs
<1>2. Append(s, e) # <<>>
  <2>1. Len(Append(s, e)) # 0
    BY <1>1
  <2>2. Len(<<>>) = 0
    BY Lengths
  <2> QED BY <2>1, <2>2, Zenon
<1> QED BY <1>1, <1>2 DEF Last

\* An accepted event is accepted by the channel.
LEMMA AcceptStep ==
    ASSUME Types, Types', Order, Accepts
    PROVE  Channel!Accept
<1>1. /\ T1 \in EventSeqs /\ accepted \in Nat /\ handed \in EventSeqs
      /\ \A e \in ToSet(handed) \cup ToSet(T1) : e \in 1..accepted
  BY OnTheirWay
<1>2. Transit = T1 /\ Transit' = T2
  BY TransitNow, TransitThen
<1>3. T2 = Append(T1, accepted + 1) /\ accepted + 1 \in Nat /\ handed' = handed
  BY <1>1 DEF Accepts
<1>4. T2 # <<>> /\ Last(T2) = accepted + 1
  BY <1>1, <1>3, LastOf
<1>5. ToSet(T1 \o handed) = ToSet(T1) \cup ToSet(handed)
  BY <1>1, JoinedSet, Zenon
<1>6. \A e \in ToSet(T1 \o handed) : e < accepted + 1
  BY <1>1, <1>5
<1>7. Channel!Last(T2) = accepted + 1 /\ Channel!ToSet(T1 \o handed) = ToSet(T1 \o handed)
  BY <1>4, ChannelOps, Zenon
<1>8. /\ Transit' # <<>>
      /\ Transit' = Append(Transit, Channel!Last(Transit'))
      /\ \A e \in Channel!ToSet(Transit \o handed) : e < Channel!Last(Transit')
  BY <1>2, <1>3, <1>4, <1>6, <1>7
<1> QED BY <1>3, <1>8 DEF Channel!Accept

\* A run that leaves the line is lost by the channel.
LEMMA LoseStep ==
    ASSUME Types, Types', NEW M \in EventSeqs, Cut(T1, T2, M), UNCHANGED handed
    PROVE  Channel!Lose \/ UNCHANGED <<Transit, handed>>
<1>1. Transit = T1 /\ Transit' = T2 /\ T1 \in EventSeqs /\ T2 \in EventSeqs
  BY TransitNow, TransitThen
<1>2. CASE M = <<>>
  <2>1. PICK a, c \in EventSeqs : T1 = a \o (M \o c) /\ T2 = a \o c
    BY DEF Cut
  <2>2. <<>> \o c = c
    BY Nothing, Zenon
  <2>3. T2 = T1
    BY <1>2, <2>1, <2>2, Zenon
  <2> QED BY <1>1, <2>3
<1>3. CASE M # <<>>
  <2>1. \A s, t \in EventSeqs : Cut(s, t, M) =>
            \E m, n \in 0..Len(s) : m < n /\ t = SubSeq(s, 1, m) \o SubSeq(s, n + 1, Len(s))
    BY <1>3, CutIsLost
  <2>2. \E m, n \in 0..Len(T1) : m < n /\ T2 = SubSeq(T1, 1, m) \o SubSeq(T1, n + 1, Len(T1))
    BY <1>1, <2>1, Zenon
  <2> QED BY <1>1, <2>2, Zenon DEF Channel!Lose
<1> QED BY <1>2, <1>3

\* What the worker sends is delivered by the channel.
LEMMA DeliverStep ==
    ASSUME Types, Types', NEW M, Delivers(M)
    PROVE  Channel!Deliver
<1>1. Transit = T1 /\ Transit' = T2 /\ T1 \in EventSeqs /\ T2 \in EventSeqs
  BY TransitNow, TransitThen
<1>2. M \in EventSeqs /\ M # <<>> /\ T1 = M \o T2 /\ handed' = handed \o M
  BY DEF Delivers, Filled
<1>3. \A w, t \in EventSeqs : w # <<>> => /\ Len(w) \in 1..Len(w \o t)
                                          /\ w = SubSeq(w \o t, 1, Len(w))
                                          /\ t = SubSeq(w \o t, Len(w) + 1, Len(w \o t))
  BY FrontIsDelivered
<1>4. /\ Len(M) \in 1..Len(T1) /\ M = SubSeq(T1, 1, Len(M))
      /\ T2 = SubSeq(T1, Len(M) + 1, Len(T1))
  BY <1>1, <1>2, <1>3, Zenon
<1>5. \E n \in 1..Len(T1) : handed' = handed \o SubSeq(T1, 1, n) /\ T2 = SubSeq(T1, n + 1, Len(T1))
  BY <1>2, <1>4, Zenon
<1> QED BY <1>1, <1>5, Zenon DEF Channel!Deliver

\* When the process ends the channel loses what is on its way.
LEMMA ForgetStep ==
    ASSUME Types, Types', Forgets
    PROVE  Channel!Lose \/ UNCHANGED <<Transit, handed>>
<1>1. T1 \in EventSeqs /\ T2 = <<>> /\ UNCHANGED handed
  BY TransitNow DEF Forgets
<1>2. <<>> \in EventSeqs /\ T1 \o <<>> = T1 /\ <<>> \o T1 = T1 /\ <<>> \o <<>> = <<>>
  BY <1>1, Nothing, Zenon
<1>3. T1 = <<>> \o (T1 \o <<>>) /\ T2 = <<>> \o <<>>
  BY <1>1, <1>2, Zenon
<1>4. Cut(T1, T2, T1)
  BY <1>2, <1>3, Zenon DEF Cut
<1> QED BY <1>1, <1>4, LoseStep

\* Callers, timer, queue, worker and stop() together are a channel that may lose
\* a run of events, and never reorders, repeats or invents one.
THEOREM WriterImplementsChannel == Spec => ChannelSpec
<1>1. Init => Channel!Init
  <2> SUFFICES ASSUME Init PROVE Channel!Init
    OBVIOUS
  <2>1. /\ queue = <<>> /\ holder = Free /\ batch = NoBatch /\ worker = Polling /\ handed = <<>>
    BY DEF Init
  <2>2. AtWorker(worker) = <<>> /\ InFlush(holder) = <<>> /\ InBatch(batch) = <<>> /\ Waiting(holder) = <<>>
    BY <2>1 DEF AtWorker, InFlush, InBatch, Waiting, Polling, Free
  <2>3. Queued(queue) = <<>> /\ <<>> \o <<>> = <<>>
    BY <2>1, QueuedEmpty, Nothing
  <2>4. Transit = <<>>
    BY <2>2, <2>3, Zenon DEF Transit
  <2> QED BY <2>1, <2>4 DEF Channel!Init
<1>2. IInv /\ [Next]_vars =>
          [Channel!Accept \/ Channel!Lose \/ Channel!Deliver]_(Channel!channelVars)
  <2> SUFFICES ASSUME IInv, [Next]_vars
               PROVE  \/ Channel!Accept \/ Channel!Lose \/ Channel!Deliver
                      \/ UNCHANGED <<Transit, handed>>
    BY DEF Channel!channelVars
  <2>1. IInv' /\ (Effect \/ UNCHANGED vars)
    BY StepInv
  <2>2. Types /\ Types' /\ Order
    BY <2>1 DEF IInv
  <2>3. CASE UNCHANGED vars
    BY <2>3 DEF vars, writerVars, Transit
  <2>4. CASE Stays
    <3>1. Transit = T1 /\ Transit' = T2
      BY <2>2, TransitNow, TransitThen
    <3> QED BY <2>4, <3>1 DEF Stays
  <2>5. CASE Accepts
    BY <2>2, <2>5, AcceptStep
  <2>6. CASE \E M : Drops(M)
    <3>1. PICK M : Drops(M)
      BY <2>6
    <3>2. M \in EventSeqs /\ Cut(T1, T2, M) /\ UNCHANGED handed
      BY <3>1 DEF Drops
    <3> QED BY <2>2, <3>2, LoseStep
  <2>7. CASE \E M : Delivers(M)
    BY <2>2, <2>7, DeliverStep
  <2>8. CASE Forgets
    BY <2>2, <2>8, ForgetStep
  <2> QED BY <2>1, <2>3, <2>4, <2>5, <2>6, <2>7, <2>8 DEF Effect
<1> QED BY <1>1, <1>2, WriterInvariant, PTL DEF Spec, ChannelSpec, Channel!Spec
=============================================================================
