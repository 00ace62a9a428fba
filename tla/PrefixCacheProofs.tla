-------------------------- MODULE PrefixCacheProofs --------------------------
(***************************************************************************)
(* TLAPS proofs about the free queue and about the cache that works on it. *)
(*                                                                         *)
(* FreeBlockQueue, for every set of blocks: the pointer operations keep    *)
(* the list well linked and implement BlockFIFO.  The invariant is that    *)
(* the pointers are those of some sequence s of blocks (Threads): next and *)
(* prev lead from place to place of s, and a block outside s has none.     *)
(* Each operation turns the places of s into those of the sequence the     *)
(* abstract queue goes on with.  Which sequence it is, is what a walk from *)
(* the head finds (Walk, ListedIs).                                        *)
(*                                                                         *)
(* PrefixCache, for any requests, blocks and texts.  Typed is the type     *)
(* invariant with the types of tables and entries in full.  Fits: the list *)
(* is as above, a block is in it exactly if it has no reference, and its   *)
(* references are the places that name it; this needs that no entry is     *)
(* released (FitsUnreleased).  Bounded is what stays when entries are:     *)
(* references never exceed places.  Telling: a block under a chain hash    *)
(* has this hash, and without one gap of a known width its KV data is that *)
(* of the chain's tokens.  A store is a loop over blocks, and a lookup or  *)
(* a release one over the places of a table: what each round keeps, the    *)
(* loop keeps (LoopKeeps).                                                 *)
(***************************************************************************)
EXTENDS PrefixCache, FreeBlockQueue, PoolLemmas

\* The i-th node of a list that holds s: the head, the blocks, the tail.
At(s, i) == IF i = 0 THEN FakeHead ELSE IF i = Len(s) + 1 THEN FakeTail ELSE s[i]

\* What Represents says, with the places named.
Threads(q, s) ==
    /\ IsInjective(s)
    /\ q.num = Len(s)
    /\ \A i \in 0..Len(s) : q.next[At(s, i)] = At(s, i + 1) /\ q.prev[At(s, i + 1)] = At(s, i)
    /\ q.prev[FakeHead] = Nil /\ q.next[FakeTail] = Nil
    /\ \A b \in Block \ ToSet(s) : q.next[b] = Nil /\ q.prev[b] = Nil

LEMMA RepresentsIs ==
    ASSUME NEW q, NEW s
    PROVE  Represents(q, s) <=> Threads(q, s)
BY DEF Represents, Threads, At

\* The places of a list are different nodes.
LEMMA Places ==
    ASSUME NEW s \in Seq(Block), IsInjective(s)
    PROVE  /\ Len(s) \in Nat /\ DOMAIN s = 1..Len(s)
           /\ At(s, 0) = FakeHead /\ At(s, Len(s) + 1) = FakeTail
           /\ \A i \in 1..Len(s) : At(s, i) = s[i] /\ s[i] \in Block
           /\ \A i \in 0..(Len(s) + 1) : At(s, i) \in Node
           /\ \A i, j \in 0..(Len(s) + 1) : At(s, i) = At(s, j) => i = j
<1>1. Len(s) \in Nat /\ DOMAIN s = 1..Len(s) /\ \A i \in 1..Len(s) : s[i] \in Block
  BY LenProperties
<1>2. At(s, 0) = FakeHead /\ At(s, Len(s) + 1) = FakeTail
  BY <1>1 DEF At
<1>3. \A i \in 1..Len(s) : At(s, i) = s[i] /\ s[i] \in Block
  BY <1>1 DEF At
<1>4. \A i \in 0..(Len(s) + 1) : i = 0 \/ i = Len(s) + 1 \/ i \in 1..Len(s)
  BY <1>1
<1>5. \A i \in 0..(Len(s) + 1) : At(s, i) \in Node
  BY <1>2, <1>3, <1>4 DEF Node
<1>6. \A i, j \in 1..Len(s) : s[i] = s[j] => i = j
  BY <1>1 DEF IsInjective
<1>7. FakeHead # FakeTail /\ FakeHead \notin Block /\ FakeTail \notin Block
  BY BlockListAssumption
<1>8. \A i, j \in 0..(Len(s) + 1) : At(s, i) = At(s, j) => i = j
  BY <1>2, <1>3, <1>4, <1>6, <1>7
<1> QED BY <1>1, <1>2, <1>3, <1>5, <1>8

\* The walk from the head finds the places in order.  Only one function
\* satisfies the recursion: two could not differ for a first time.
LEMMA Walk ==
    ASSUME NEW q, NEW s \in Seq(Block), Threads(q, s), NEW n \in 0..(Len(s) + 1)
    PROVE  Reached(q, n) = [i \in 0..n |-> At(s, i)]
<1> DEFINE Eq(f) == f = [i \in 0..n |-> IF i = 0 THEN FakeHead ELSE q.next[f[i - 1]]]
           h == [i \in 0..n |-> At(s, i)]
           g == Reached(q, n)
<1>1. /\ Len(s) \in Nat /\ At(s, 0) = FakeHead /\ n \in Nat /\ n <= Len(s) + 1
      /\ \A i \in 0..Len(s) : q.next[At(s, i)] = At(s, i + 1)
  BY Places DEF Threads
<1>2. \A i \in 0..n : i # 0 => i - 1 \in 0..Len(s) /\ i - 1 \in 0..n /\ (i - 1) + 1 = i
  BY <1>1
<1>3. \A i \in 0..n : i # 0 => q.next[h[i - 1]] = At(s, i)
  BY <1>1, <1>2
<1>4. h = [i \in 0..n |-> IF i = 0 THEN FakeHead ELSE q.next[h[i - 1]]]
  <2>1. \A i \in 0..n : At(s, i) = IF i = 0 THEN FakeHead ELSE q.next[h[i - 1]]
    BY <1>1, <1>3
  <2> HIDE DEF h
  <2>2. h = [i \in 0..n |-> At(s, i)]
    BY DEF h
  <2> QED BY <2>1, <2>2
<1>5. g = CHOOSE f : Eq(f)
  BY Zenon DEF Reached
<1>6. Eq(h)
  BY <1>4
<1>7. Eq(g)
  <2> HIDE DEF Eq, g, h
  <2> QED BY <1>5, <1>6
<1>8. DOMAIN g = 0..n /\ g[0] = FakeHead /\ \A i \in 0..n : i # 0 => g[i] = q.next[g[i - 1]]
  <2> HIDE DEF g
  <2> QED BY <1>1, <1>7
<1> HIDE DEF g
<1> DEFINE T == {i \in 0..n : g[i] # At(s, i)}
<1>9. ASSUME T # {} PROVE FALSE
  <2>1. T \in SUBSET Nat
    OBVIOUS
  <2>2. PICK m \in T : \A k \in T : m <= k
    BY <1>9, <2>1, Least
  <2>3. m \in 0..n /\ m # 0 /\ m - 1 \in 0..n /\ ~ (m <= m - 1)
    BY <1>1, <1>8, <2>2
  <2>4. g[m - 1] = At(s, m - 1)
    BY <2>2, <2>3
  <2>5. g[m] = q.next[At(s, m - 1)] /\ q.next[At(s, m - 1)] = At(s, m)
    BY <1>3, <1>8, <2>3, <2>4
  <2> QED BY <2>2, <2>5
<1>10. \A i \in 0..n : g[i] = At(s, i)
  BY <1>9
<1>11. g = [i \in 0..n |-> g[i]]
  BY <1>7
<1> QED BY <1>10, <1>11 DEF g

\* A walk over the whole list finds its blocks.
LEMMA ListedIs ==
    ASSUME NEW q, NEW s \in Seq(Block), Threads(q, s)
    PROVE  Listed(q) = s
<1> DEFINE n == Len(s)
           w == [i \in 1..(n + 1) |-> At(s, i - 1)]
<1>1. /\ n \in Nat /\ DOMAIN s = 1..n /\ q.num = n /\ n \in 0..(n + 1)
      /\ \A i \in 1..n : At(s, i) = s[i]
      /\ \A i \in 0..(n + 1) : At(s, i) \in Node
  BY Places DEF Threads
<1>2. Reached(q, q.num) = [i \in 0..n |-> At(s, i)]
  BY <1>1, Walk
<1>3. Listed(q) = Tail(w)
  <2>1. \A i \in 1..(n + 1) : i - 1 \in 0..n
    BY <1>1
  <2>2. \A i \in 1..(n + 1) : Reached(q, q.num)[i - 1] = At(s, i - 1)
    BY <1>2, <2>1
  <2>3. [i \in 1..(n + 1) |-> Reached(q, n)[i - 1]] = w
    BY <1>1, <2>2
  <2> QED BY <1>1, <2>3 DEF Listed
<1>4. w \in Seq(Node) /\ Len(w) = n + 1 /\ \A i \in 1..(n + 1) : w[i] = At(s, i - 1)
  <2>1. \A i \in 1..(n + 1) : At(s, i - 1) \in Node
    BY <1>1
  <2>2. w \in [1..(n + 1) -> Node]
    BY <2>1
  <2>3. n + 1 \in Nat
    BY <1>1
  <2>4. w \in Seq(Node)
    BY <2>2, <2>3, SeqDef
  <2>5. DOMAIN w = 1..Len(w) /\ Len(w) \in Nat
    BY <2>4, LenProperties
  <2>6. 1..Len(w) = 1..(n + 1)
    BY <2>5
  <2> HIDE DEF n
  <2>7. Len(w) = n + 1
    BY <2>3, <2>5, <2>6
  <2> QED BY <2>4, <2>7
<1> HIDE DEF w, n
<1>5. w # <<>>
  BY <1>1, <1>4, EmptySeq
<1>6. Tail(w) \in Seq(Node) /\ Len(Tail(w)) = n /\ \A i \in 1..n : Tail(w)[i] = w[i + 1]
  BY <1>1, <1>4, <1>5, HeadTailProperties
<1>7. \A i \in 1..n : Tail(w)[i] = s[i]
  <2>1. \A i \in 1..n : i + 1 \in 1..(n + 1) /\ (i + 1) - 1 = i
    BY <1>1
  <2> QED BY <1>1, <1>4, <1>6, <2>1
<1>8. Tail(w) = s
  <2>1. s \in Seq(Node)
    <3>1. Block \subseteq Node
      BY DEF Node
    <3> QED BY <3>1, SeqMonotonic, Zenon
  <2>2. Len(Tail(w)) = Len(s)
    BY <1>6 DEF n
  <2> QED BY <1>6, <1>7, <2>1, <2>2, SeqEqual DEF n
<1> QED BY <1>3, <1>8

-----------------------------------------------------------------------------
(* The operations.                                                         *)

\* The pointers of a list are nodes or Nil.
LEMMA ListTypes ==
    ASSUME NEW q \in Lists
    PROVE  /\ q.next \in [Node -> Node \cup {Nil}] /\ q.prev \in [Node -> Node \cup {Nil}]
           /\ q.num \in Int
           /\ FakeHead \in Node /\ FakeTail \in Node /\ Block \subseteq Node
           /\ Nil \notin Node
BY BlockListAssumption DEF Lists, Node

\* popleft_n: the blocks behind the n-th are left.
LEMMA TakesFirst ==
    ASSUME NEW q \in Lists, NEW s \in Seq(Block), Threads(q, s), NEW n \in 1..Len(s)
    PROVE  LET p == PoppedLeftN(q, n)
               t == Part(s, n + 1, Len(s))
           IN  p \in Lists /\ Threads(p, t)
<1> DEFINE p == PoppedLeftN(q, n)
           t == Part(s, n + 1, Len(s))
           taken == {At(s, i) : i \in 1..n}
<1>1. /\ Len(s) \in Nat /\ DOMAIN s = 1..Len(s)
      /\ At(s, 0) = FakeHead /\ At(s, Len(s) + 1) = FakeTail
      /\ \A i \in 1..Len(s) : At(s, i) = s[i] /\ s[i] \in Block
      /\ \A i \in 0..(Len(s) + 1) : At(s, i) \in Node
      /\ \A i, j \in 0..(Len(s) + 1) : At(s, i) = At(s, j) => i = j
  BY Places DEF Threads
<1>2. /\ IsInjective(s) /\ q.num = Len(s)
      /\ \A i \in 0..Len(s) : q.next[At(s, i)] = At(s, i + 1) /\ q.prev[At(s, i + 1)] = At(s, i)
      /\ q.prev[FakeHead] = Nil /\ q.next[FakeTail] = Nil
      /\ \A b \in Block \ ToSet(s) : q.next[b] = Nil /\ q.prev[b] = Nil
  BY DEF Threads
<1>3. n \in Nat /\ n <= Len(s) /\ n >= 1 /\ n + 1 \in 0..(Len(s) + 1)
  BY <1>1
<1>4. Reached(q, n + 1) = [i \in 0..(n + 1) |-> At(s, i)]
  BY <1>3, Walk
<1>5. /\ p.next = [v \in Node |-> CASE v = FakeHead -> At(s, n + 1)
                                    [] v \in taken -> Nil
                                    [] OTHER -> q.next[v]]
      /\ p.prev = [v \in Node |-> CASE v \in taken -> Nil
                                    [] v = At(s, n + 1) -> FakeHead
                                    [] OTHER -> q.prev[v]]
      /\ p.num = q.num - n
      /\ p = [next |-> p.next, prev |-> p.prev, num |-> p.num]
  <2> DEFINE node == Reached(q, n + 1)
  <2>1. node[n + 1] = At(s, n + 1) /\ \A i \in 1..n : node[i] = At(s, i)
    BY <1>3, <1>4
  <2>2. {node[i] : i \in 1..n} = taken
    BY <2>1
  <2>3. p = [next |-> [v \in Node |-> CASE v = FakeHead -> node[n + 1]
                                    [] v \in {node[i] : i \in 1..n} -> Nil
                                    [] OTHER -> q.next[v]],
             prev |-> [v \in Node |-> CASE v \in {node[i] : i \in 1..n} -> Nil
                                    [] v = node[n + 1] -> FakeHead
                                    [] OTHER -> q.prev[v]],
             num |-> q.num - n]
    BY Zenon DEF PoppedLeftN
  <2> HIDE DEF node, taken, p
  <2> QED BY <2>1, <2>2, <2>3
<1>6. /\ t \in Seq(Block) /\ Len(t) = Len(s) - n /\ IsInjective(t)
      /\ ToSet(t) = ToSet(s) \ FirstOf(s, n)
  BY <1>2, <1>3, DropFirst
<1>7. \A i \in 1..(Len(s) - n) : t[i] = s[n + i]
  BY <1>1, <1>3, SubSeqProperties, Z3 DEF Part
<1> HIDE DEF p, t
<1>8. /\ Len(t) \in Nat /\ DOMAIN t = 1..Len(t)
      /\ At(t, 0) = FakeHead /\ At(t, Len(t) + 1) = FakeTail
      /\ \A i \in 1..Len(t) : At(t, i) = t[i]
  BY <1>6, Places
<1>9. \A i \in 1..(Len(t) + 1) : At(t, i) = At(s, n + i)
  <2> TAKE i \in 1..(Len(t) + 1)
  <2>1. CASE i = Len(t) + 1
    BY <1>1, <1>3, <1>6, <1>8, <2>1
  <2>2. CASE i # Len(t) + 1
    <3>1. i \in 1..Len(t) /\ n + i \in 1..Len(s) /\ i \in 1..(Len(s) - n)
      <4>1. Len(s) \in Nat /\ Len(t) = Len(s) - n
        BY <1>1, <1>6
      <4>2. i <= Len(t) /\ i >= 1 /\ i \in Nat
        BY <1>3, <2>2, <4>1
      <4> QED BY <1>3, <4>1, <4>2
    <3> QED BY <1>1, <1>7, <1>8, <3>1
  <2> QED BY <2>1, <2>2
<1>10. taken = FirstOf(s, n) /\ taken \subseteq Block /\ FakeHead \notin taken
  <2>1. \A i \in 1..n : i \in 1..Len(s) /\ i \in 0..(Len(s) + 1) /\ i # 0
    BY <1>1, <1>3
  <2>2. taken = FirstOf(s, n) /\ taken \subseteq Block
    BY <1>1, <2>1 DEF FirstOf
  <2> QED BY <2>2, BlockListAssumption
<1>11. \A k \in 0..(Len(s) + 1) : k > n => At(s, k) \in Node /\ At(s, k) \notin taken /\ At(s, k) # FakeHead
  <2> TAKE k \in 0..(Len(s) + 1)
  <2> HAVE k > n
  <2>1. \A i \in 1..n : i \in 0..(Len(s) + 1) /\ i # k
    BY <1>1, <1>3
  <2>2. \A i \in 1..n : At(s, i) # At(s, k)
    BY <1>1, <2>1
  <2>3. 0 \in 0..(Len(s) + 1) /\ k # 0
    BY <1>1, <1>3
  <2>4. At(s, k) # At(s, 0)
    BY <1>1, <2>3
  <2> QED BY <1>1, <2>2, <2>4
<1> HIDE DEF taken
<1>12. /\ FakeHead \in Node /\ FakeTail \in Node /\ Block \subseteq Node /\ Nil \notin Node
       /\ q.next \in [Node -> Node \cup {Nil}] /\ q.prev \in [Node -> Node \cup {Nil}] /\ q.num \in Int
  BY ListTypes
<1>13. /\ p.next[FakeHead] = At(s, n + 1)
       /\ \A v \in taken : p.next[v] = Nil /\ p.prev[v] = Nil
       /\ p.prev[At(s, n + 1)] = FakeHead
       /\ \A v \in Node : v # FakeHead /\ v \notin taken => p.next[v] = q.next[v]
       /\ \A v \in Node : v # At(s, n + 1) /\ v \notin taken => p.prev[v] = q.prev[v]
  <2>1. At(s, n + 1) \in Node /\ At(s, n + 1) \notin taken
    BY <1>1, <1>3, <1>11
  <2>2. taken \subseteq Node
    BY <1>10, <1>12
  <2> DEFINE k == At(s, n + 1)
  <2> HIDE DEF k
  <2>3. p.next[FakeHead] = At(s, n + 1)
    BY <1>5, <1>10, <1>12
  <2>7. p.prev[k] = FakeHead
    BY <1>5, <1>12, <2>1 DEF k
  <2>4. \A v \in taken : p.next[v] = Nil
    BY <1>5, <1>10, <2>2
  <2>8. \A v \in taken : p.prev[v] = Nil
    BY <1>5, <2>1, <2>2
  <2>5. \A v \in Node : v # FakeHead /\ v \notin taken => p.next[v] = q.next[v]
    BY <1>5
  <2>6. \A v \in Node : v # At(s, n + 1) /\ v \notin taken => p.prev[v] = q.prev[v]
    BY <1>5
  <2> QED BY <2>3, <2>4, <2>5, <2>6, <2>7, <2>8 DEF k
<1>14. p \in Lists
  <2>1. \A v \in Node : p.next[v] \in Node \cup {Nil} /\ p.prev[v] \in Node \cup {Nil}
    BY <1>1, <1>3, <1>12, <1>13
  <2>2. p.next = [v \in Node |-> p.next[v]] /\ p.prev = [v \in Node |-> p.prev[v]]
    BY <1>5
  <2>3. p.next \in [Node -> Node \cup {Nil}] /\ p.prev \in [Node -> Node \cup {Nil}]
    BY <2>1, <2>2
  <2>4. p.num \in Int
    BY <1>3, <1>5, <1>12
  <2> QED BY <1>5, <2>3, <2>4 DEF Lists
<1>15. \A i \in 0..Len(t) : p.next[At(t, i)] = At(t, i + 1) /\ p.prev[At(t, i + 1)] = At(t, i)
  <2> TAKE i \in 0..Len(t)
  <2>1. CASE i = 0
    <3>1. At(t, 1) = At(s, n + 1)
      BY <1>8, <1>9
    <3> QED BY <1>8, <1>13, <2>1, <3>1
  <2>2. CASE i # 0
    <3>1. /\ i \in 1..(Len(t) + 1) /\ i + 1 \in 1..(Len(t) + 1)
          /\ n + i \in 0..Len(s) /\ n + i \in 0..(Len(s) + 1) /\ n + i > n
          /\ n + (i + 1) = (n + i) + 1
          /\ (n + i) + 1 \in 0..(Len(s) + 1) /\ (n + i) + 1 > n
          /\ (n + i) + 1 # n + 1 /\ n + 1 \in 0..(Len(s) + 1)
      BY <1>1, <1>3, <1>6, <1>8, <2>2
    <3>2. At(t, i) = At(s, n + i) /\ At(t, i + 1) = At(s, (n + i) + 1)
      BY <1>9, <3>1
    <3>3. /\ At(s, n + i) \in Node /\ At(s, n + i) \notin taken /\ At(s, n + i) # FakeHead
          /\ At(s, (n + i) + 1) \in Node /\ At(s, (n + i) + 1) \notin taken
          /\ At(s, (n + i) + 1) # At(s, n + 1)
      BY <1>1, <1>11, <3>1
    <3> QED BY <1>2, <1>13, <3>1, <3>2, <3>3
  <2> QED BY <2>1, <2>2
<1>16. p.prev[FakeHead] = Nil /\ p.next[FakeTail] = Nil
  <2>1. FakeTail # FakeHead /\ FakeTail \notin taken
    BY <1>10, BlockListAssumption
  <2>2. FakeHead # At(s, n + 1)
    BY <1>3, <1>11
  <2> QED BY <1>2, <1>10, <1>12, <1>13, <2>1, <2>2
<1>17. \A b \in Block \ ToSet(t) : p.next[b] = Nil /\ p.prev[b] = Nil
  <2> TAKE b \in Block \ ToSet(t)
  <2>1. CASE b \in taken
    BY <1>13, <2>1
  <2>2. CASE b \notin taken
    <3>1. b \notin ToSet(s)
      BY <1>6, <1>10, <2>2
    <3>2. b # FakeHead
      BY BlockListAssumption
    <3>3. b # At(s, n + 1)
      <4>1. CASE n = Len(s)
        BY <1>1, <4>1, BlockListAssumption
      <4>2. CASE n # Len(s)
        <5>1. n + 1 \in 1..Len(s) /\ n + 1 \in DOMAIN s
          <6>1. Len(s) \in Nat
            BY <1>1
          <6>2. n + 1 \in 1..Len(s)
            BY <1>3, <4>2, <6>1
          <6> QED BY <1>1, <6>2
        <5> QED BY <1>1, <3>1, <5>1 DEF ToSet
      <4> QED BY <4>1, <4>2
    <3> QED BY <1>2, <1>12, <1>13, <2>2, <3>1, <3>2, <3>3
  <2> QED BY <2>1, <2>2
<1>18. Threads(p, t)
  BY <1>2, <1>5, <1>6, <1>15, <1>16, <1>17 DEF Threads
<1> QED BY <1>14, <1>18 DEF p, t

\* popleft is popleft_n of one block.
LEMMA TakesOne ==
    ASSUME NEW q \in Lists, NEW s \in Seq(Block), Threads(q, s), Len(s) # 0
    PROVE  PoppedLeft(q) = PoppedLeftN(q, 1)
<1> DEFINE b == At(s, 1)
           after == At(s, 2)
<1>1. /\ Len(s) \in Nat /\ 1 \in 1..Len(s) /\ 2 \in 0..(Len(s) + 1) /\ 0 \in 0..Len(s) /\ 1 \in 0..Len(s)
      /\ 1 \in 0..(Len(s) + 1) /\ 0 \in 0..(Len(s) + 1)
      /\ At(s, 0) = FakeHead
      /\ \A i, j \in 0..(Len(s) + 1) : At(s, i) = At(s, j) => i = j
      /\ \A i \in 0..(Len(s) + 1) : At(s, i) \in Node
  BY Places DEF Threads
<1>2. FirstFree(q) = b /\ q.next[b] = after
  BY <1>1 DEF Threads, FirstFree
<1>3. b # FakeHead /\ after # FakeHead /\ b # after /\ b \in Node /\ after \in Node
  BY <1>1
<1>4. Reached(q, 1 + 1) = [i \in 0..(1 + 1) |-> At(s, i)]
  <2>1. 1 + 1 \in 0..(Len(s) + 1)
    BY <1>1
  <2> HIDE DEF b, after
  <2> QED BY <2>1, Walk
<1>5. Reached(q, 1 + 1)[1 + 1] = after /\ {Reached(q, 1 + 1)[i] : i \in 1..1} = {b}
  BY <1>4
<1> HIDE DEF b, after
<1>6. PoppedLeftN(q, 1) =
        [next |-> [v \in Node |-> CASE v = FakeHead -> after
                                    [] v \in {b} -> Nil
                                    [] OTHER -> q.next[v]],
         prev |-> [v \in Node |-> CASE v \in {b} -> Nil
                                    [] v = after -> FakeHead
                                    [] OTHER -> q.prev[v]],
         num |-> q.num - 1]
  <2> DEFINE node == Reached(q, 1 + 1)
  <2>1. PoppedLeftN(q, 1) =
        [next |-> [v \in Node |-> CASE v = FakeHead -> node[1 + 1]
                                    [] v \in {node[i] : i \in 1..1} -> Nil
                                    [] OTHER -> q.next[v]],
         prev |-> [v \in Node |-> CASE v \in {node[i] : i \in 1..1} -> Nil
                                    [] v = node[1 + 1] -> FakeHead
                                    [] OTHER -> q.prev[v]],
         num |-> q.num - 1]
    BY Zenon DEF PoppedLeftN
  <2>2. node[1 + 1] = after /\ {node[i] : i \in 1..1} = {b}
    BY <1>5
  <2> HIDE DEF node
  <2> QED BY <2>1, <2>2
<1>7. PoppedLeft(q) =
        [next |-> [q.next EXCEPT ![FakeHead] = after, ![b] = Nil],
         prev |-> [v \in Node |-> CASE v = b -> Nil
                                    [] v = after /\ v # b -> FakeHead
                                    [] OTHER -> q.prev[v]],
         num |-> q.num - 1]
  BY <1>2 DEF PoppedLeft
<1>8. q.next \in [Node -> Node \cup {Nil}] /\ FakeHead \in Node
  BY ListTypes
<1>9. [q.next EXCEPT ![FakeHead] = after, ![b] = Nil]
        = [v \in Node |-> CASE v = FakeHead -> after
                            [] v \in {b} -> Nil
                            [] OTHER -> q.next[v]]
  BY <1>3, <1>8
<1>10. [v \in Node |-> CASE v = b -> Nil
                         [] v = after /\ v # b -> FakeHead
                         [] OTHER -> q.prev[v]]
        = [v \in Node |-> CASE v \in {b} -> Nil
                            [] v = after -> FakeHead
                            [] OTHER -> q.prev[v]]
  BY <1>3
<1> QED BY <1>6, <1>7, <1>9, <1>10, Zenon

\* What is behind the k-th element moves up.
LEMMA MovedUp ==
    ASSUME NEW S, NEW q \in Seq(S), NEW k \in DOMAIN q
    PROVE  /\ RemoveAt(q, k) \in Seq(S) /\ Len(RemoveAt(q, k)) = Len(q) - 1
           /\ \A i \in 1..(k - 1) : RemoveAt(q, k)[i] = q[i]
           /\ \A i \in k..(Len(q) - 1) : RemoveAt(q, k)[i] = q[i + 1]
<1> DEFINE s == Part(q, 1, k - 1)
           t == Part(q, k + 1, Len(q))
<1>1. Len(q) \in Nat /\ k \in Nat /\ k >= 1 /\ k <= Len(q) /\ \A i \in 1..Len(q) : q[i] \in S
  BY LenProperties
<1>2. s \in Seq(S) /\ Len(s) = k - 1 /\ \A i \in 1..(k - 1) : s[i] = q[i]
  BY <1>1, SubSeqProperties, Z3 DEF Part
<1>3. t \in Seq(S) /\ Len(t) = Len(q) - k /\ \A i \in 1..(Len(q) - k) : t[i] = q[k + i]
  BY <1>1, SubSeqProperties, Z3 DEF Part
<1>4. RemoveAt(q, k) = s \o t
  BY DEF RemoveAt, Part
<1> HIDE DEF s, t
<1>5. /\ s \o t \in Seq(S) /\ Len(s \o t) = Len(s) + Len(t)
      /\ \A i \in 1..Len(s) + Len(t) : (s \o t)[i] = IF i <= Len(s) THEN s[i] ELSE t[i - Len(s)]
  BY <1>2, <1>3, ConcatProperties
<1>6. Len(s) + Len(t) = Len(q) - 1
  BY <1>1, <1>2, <1>3
<1>7. ASSUME NEW i \in 1..(k - 1) PROVE (s \o t)[i] = q[i]
  <2>1. i \in 1..Len(s) + Len(t) /\ i <= Len(s)
    BY <1>1, <1>2, <1>6
  <2> QED BY <1>2, <1>5, <2>1
<1>8. ASSUME NEW i \in k..(Len(q) - 1) PROVE (s \o t)[i] = q[i + 1]
  <2>1. /\ i \in 1..Len(s) + Len(t) /\ ~ (i <= Len(s))
        /\ i - Len(s) \in 1..(Len(q) - k) /\ k + (i - Len(s)) = i + 1
    BY <1>1, <1>2, <1>6, SMTT(20)
  <2> QED BY <1>3, <1>5, <2>1
<1> QED BY <1>4, <1>5, <1>6, <1>7, <1>8

\* remove: the neighbours of the block are linked to each other.
LEMMA Unlinks ==
    ASSUME NEW q \in Lists, NEW s \in Seq(Block), Threads(q, s), NEW k \in DOMAIN s
    PROVE  LET p == Removed(q, s[k])
               t == RemoveAt(s, k)
           IN  p \in Lists /\ Threads(p, t)
<1> DEFINE b == s[k]
           p == Removed(q, b)
           t == RemoveAt(s, k)
<1>1. /\ Len(s) \in Nat /\ DOMAIN s = 1..Len(s)
      /\ At(s, 0) = FakeHead /\ At(s, Len(s) + 1) = FakeTail
      /\ \A i \in 1..Len(s) : At(s, i) = s[i] /\ s[i] \in Block
      /\ \A i \in 0..(Len(s) + 1) : At(s, i) \in Node
      /\ \A i, j \in 0..(Len(s) + 1) : At(s, i) = At(s, j) => i = j
  BY Places DEF Threads
<1>2. /\ IsInjective(s) /\ q.num = Len(s)
      /\ \A i \in 0..Len(s) : q.next[At(s, i)] = At(s, i + 1) /\ q.prev[At(s, i + 1)] = At(s, i)
      /\ q.prev[FakeHead] = Nil /\ q.next[FakeTail] = Nil
      /\ \A c \in Block \ ToSet(s) : q.next[c] = Nil /\ q.prev[c] = Nil
  BY DEF Threads
<1>3. /\ k \in Nat /\ k <= Len(s) /\ k >= 1
      /\ k - 1 \in 0..Len(s) /\ k \in 0..Len(s) /\ (k - 1) + 1 = k
      /\ k - 1 \in 0..(Len(s) + 1) /\ k \in 0..(Len(s) + 1) /\ k + 1 \in 0..(Len(s) + 1)
  BY <1>1
<1>4. b \in Block /\ b = At(s, k)
  BY <1>1
<1>5. q.prev[b] = At(s, k - 1) /\ q.next[b] = At(s, k + 1)
  BY <1>2, <1>3, <1>4
<1>6. /\ FakeHead \in Node /\ FakeTail \in Node /\ Block \subseteq Node /\ Nil \notin Node
      /\ q.next \in [Node -> Node \cup {Nil}] /\ q.prev \in [Node -> Node \cup {Nil}] /\ q.num \in Int
  BY ListTypes
<1>7. /\ At(s, k - 1) # b /\ At(s, k + 1) # b /\ At(s, k - 1) \in Node /\ At(s, k + 1) \in Node
  <2>1. k - 1 # k /\ k + 1 # k
    BY <1>3
  <2> QED BY <1>1, <1>3, <1>4, <2>1
<1>8. p = [next |-> [[q.next EXCEPT ![At(s, k - 1)] = At(s, k + 1)] EXCEPT ![b] = Nil],
           prev |-> [q.prev EXCEPT ![At(s, k + 1)] = At(s, k - 1), ![b] = Nil],
           num |-> q.num - 1]
  <2> DEFINE unlinked == [q.next EXCEPT ![q.prev[b]] = q.next[b]]
  <2>1. p = [next |-> [unlinked EXCEPT ![b] = Nil],
             prev |-> [q.prev EXCEPT ![unlinked[b]] = q.prev[b], ![b] = Nil],
             num |-> q.num - 1]
    BY Zenon DEF Removed
  <2>2. unlinked = [q.next EXCEPT ![At(s, k - 1)] = At(s, k + 1)]
    BY <1>5
  <2>3. unlinked[b] = At(s, k + 1)
    BY <1>4, <1>5, <1>6, <1>7, <2>2
  <2> HIDE DEF unlinked, p, b
  <2> QED BY <1>5, <2>1, <2>2, <2>3
<1>9. /\ t \in Seq(Block) /\ Len(t) = Len(s) - 1 /\ IsInjective(t)
      /\ ToSet(t) = ToSet(s) \ {b}
  BY <1>2, RemovedAt
<1>10. /\ \A i \in 1..(k - 1) : t[i] = s[i]
       /\ \A i \in k..(Len(s) - 1) : t[i] = s[i + 1]
  BY MovedUp
<1> HIDE DEF p, t, b
<1>11. /\ p.next \in [Node -> Node \cup {Nil}] /\ p.prev \in [Node -> Node \cup {Nil}]
       /\ p.next[b] = Nil /\ p.prev[b] = Nil
       /\ p.next[At(s, k - 1)] = At(s, k + 1)
       /\ p.prev[At(s, k + 1)] = At(s, k - 1)
       /\ \A v \in Node : v # b /\ v # At(s, k - 1) => p.next[v] = q.next[v]
       /\ \A v \in Node : v # b /\ v # At(s, k + 1) => p.prev[v] = q.prev[v]
       /\ p.num = Len(s) - 1
  <2>1. b \in Node
    BY <1>4, <1>6
  <2> DEFINE l == At(s, k - 1)
             r == At(s, k + 1)
  <2>2. l \in Node /\ r \in Node /\ l # b /\ r # b
    BY <1>7
  <2>3. p = [next |-> [[q.next EXCEPT ![l] = r] EXCEPT ![b] = Nil],
             prev |-> [q.prev EXCEPT ![r] = l, ![b] = Nil],
             num |-> q.num - 1]
    BY <1>8
  <2> HIDE DEF l, r
  <2>4. /\ p.next \in [Node -> Node \cup {Nil}]
        /\ p.next[b] = Nil
        /\ p.next[l] = r
        /\ \A v \in Node : v # b /\ v # l => p.next[v] = q.next[v]
    BY <1>6, <2>1, <2>2, <2>3
  <2>5. /\ p.prev \in [Node -> Node \cup {Nil}]
        /\ p.prev[b] = Nil
        /\ p.prev[r] = l
        /\ \A v \in Node : v # b /\ v # r => p.prev[v] = q.prev[v]
    BY <1>6, <2>1, <2>2, <2>3
  <2>6. p.num = Len(s) - 1
    BY <1>2, <2>3
  <2> QED BY <2>4, <2>5, <2>6 DEF l, r
<1>12. p \in Lists
  <2>1. p = [next |-> p.next, prev |-> p.prev, num |-> p.num]
    BY <1>8
  <2>2. p.num \in Int
    BY <1>1, <1>11
  <2> QED BY <1>11, <2>1, <2>2 DEF Lists
<1>13. /\ Len(t) \in Nat /\ At(t, 0) = FakeHead /\ At(t, Len(t) + 1) = FakeTail
       /\ \A i \in 1..Len(t) : At(t, i) = t[i]
  BY <1>9, Places
<1>14. /\ \A i \in 0..(k - 1) : At(t, i) = At(s, i)
       /\ \A i \in k..Len(s) : At(t, i) = At(s, i + 1)
  <2>1. ASSUME NEW i \in 0..(k - 1) PROVE At(t, i) = At(s, i)
    <3>1. CASE i = 0
      BY <1>1, <1>13, <3>1
    <3>2. CASE i # 0
      <4>1. i \in 1..(k - 1) /\ i \in 1..Len(t) /\ i \in 1..Len(s)
        BY <1>1, <1>3, <1>9, <3>2
      <4> QED BY <1>1, <1>10, <1>13, <4>1
    <3> QED BY <3>1, <3>2
  <2>2. ASSUME NEW i \in k..Len(s) PROVE At(t, i) = At(s, i + 1)
    <3>1. CASE i = Len(s)
      BY <1>1, <1>9, <1>13, <3>1
    <3>2. CASE i # Len(s)
      <4>1. Len(s) \in Nat /\ Len(t) = Len(s) - 1
        BY <1>1, <1>9
      <4>2. i \in k..(Len(s) - 1) /\ i \in 1..Len(t) /\ i + 1 \in 1..Len(s)
        BY <1>3, <3>2, <4>1
      <4> QED BY <1>1, <1>10, <1>13, <4>2
    <3> QED BY <3>1, <3>2
  <2> QED BY <2>1, <2>2
<1>15. \A j \in 0..(Len(s) + 1) : /\ j # k => At(s, j) # b
                                  /\ j # k - 1 => At(s, j) # At(s, k - 1)
                                  /\ j # k + 1 => At(s, j) # At(s, k + 1)
  BY <1>1, <1>3, <1>4
<1>16. \A i \in 0..Len(t) : p.next[At(t, i)] = At(t, i + 1) /\ p.prev[At(t, i + 1)] = At(t, i)
  <2> TAKE i \in 0..Len(t)
  <2>0. Len(t) = Len(s) - 1 /\ Len(s) \in Nat
    BY <1>1, <1>9
  <2>1. CASE i < k - 1
    <3>1. /\ i \in 0..(k - 1) /\ i + 1 \in 0..(k - 1) /\ i \in 0..Len(s)
          /\ i \in 0..(Len(s) + 1) /\ i + 1 \in 0..(Len(s) + 1)
          /\ i # k /\ i # k - 1 /\ i + 1 # k /\ i + 1 # k + 1
      BY <1>3, <2>0, <2>1
    <3>2. At(t, i) = At(s, i) /\ At(t, i + 1) = At(s, i + 1)
      BY <1>14, <3>1
    <3>3. /\ At(s, i) \in Node /\ At(s, i) # b /\ At(s, i) # At(s, k - 1)
          /\ At(s, i + 1) \in Node /\ At(s, i + 1) # b /\ At(s, i + 1) # At(s, k + 1)
      BY <1>1, <1>15, <3>1
    <3> QED BY <1>2, <1>11, <3>1, <3>2, <3>3
  <2>2. CASE i = k - 1
    <3>1. i \in 0..(k - 1) /\ i + 1 \in k..Len(s) /\ i + 1 = k
      BY <1>3, <2>2
    <3>2. At(t, i) = At(s, k - 1) /\ At(t, i + 1) = At(s, k + 1)
      BY <1>14, <2>2, <3>1
    <3> QED BY <1>11, <3>2
  <2>3. CASE i > k - 1
    <3>1. /\ i \in k..Len(s) /\ i + 1 \in k..Len(s) /\ i + 1 \in 0..Len(s)
          /\ i + 1 \in 0..(Len(s) + 1) /\ (i + 1) + 1 \in 0..(Len(s) + 1)
          /\ i + 1 # k /\ i + 1 # k - 1 /\ (i + 1) + 1 # k /\ (i + 1) + 1 # k + 1
      BY <1>3, <2>0, <2>3
    <3>2. At(t, i) = At(s, i + 1) /\ At(t, i + 1) = At(s, (i + 1) + 1)
      BY <1>14, <3>1
    <3>3. /\ At(s, i + 1) \in Node /\ At(s, i + 1) # b /\ At(s, i + 1) # At(s, k - 1)
          /\ At(s, (i + 1) + 1) \in Node /\ At(s, (i + 1) + 1) # b
          /\ At(s, (i + 1) + 1) # At(s, k + 1)
      BY <1>1, <1>15, <3>1
    <3> QED BY <1>2, <1>11, <3>1, <3>2, <3>3
  <2> QED BY <1>3, <2>0, <2>1, <2>2, <2>3
<1>17. p.prev[FakeHead] = Nil /\ p.next[FakeTail] = Nil
  <2>1. 0 # k /\ 0 # k + 1 /\ Len(s) + 1 # k /\ Len(s) + 1 # k - 1
        /\ 0 \in 0..(Len(s) + 1) /\ Len(s) + 1 \in 0..(Len(s) + 1)
    BY <1>1, <1>3
  <2>2. FakeHead # b /\ FakeHead # At(s, k + 1) /\ FakeTail # b /\ FakeTail # At(s, k - 1)
    BY <1>1, <1>15, <2>1
  <2> QED BY <1>2, <1>6, <1>11, <2>2
<1>18. \A c \in Block \ ToSet(t) : p.next[c] = Nil /\ p.prev[c] = Nil
  <2> TAKE c \in Block \ ToSet(t)
  <2>1. CASE c = b
    BY <1>11, <2>1
  <2>2. CASE c # b
    <3>1. c \notin ToSet(s)
      BY <1>9, <2>2
    <3>2. \A j \in 0..(Len(s) + 1) : At(s, j) # c
      <4> TAKE j \in 0..(Len(s) + 1)
      <4>1. j = 0 \/ j = Len(s) + 1 \/ j \in 1..Len(s)
        BY <1>1
      <4> QED BY <1>1, <3>1, <4>1, BlockListAssumption DEF ToSet
    <3> QED BY <1>2, <1>3, <1>6, <1>11, <2>2, <3>1, <3>2
  <2> QED BY <2>1, <2>2
<1>19. Threads(p, t)
  <2>1. p.num = Len(t)
    BY <1>9, <1>11
  <2> QED BY <1>9, <1>16, <1>17, <1>18, <2>1 DEF Threads
<1> QED BY <1>12, <1>19 DEF p, t, b

\* append_n: the new blocks follow the last one.
LEMMA LinksBehind ==
    ASSUME NEW q \in Lists, NEW s \in Seq(Block), Threads(q, s),
           NEW t \in Seq(Block), IsInjective(t), ToSet(t) \cap ToSet(s) = {}, Len(t) # 0
    PROVE  LET p == AppendedN(q, t)
           IN  p \in Lists /\ Threads(p, s \o t)
<1> DEFINE p == AppendedN(q, t)
           u == s \o t
           n == Len(s)
           m == Len(t)
           last == At(s, n)
           Place(b) == CHOOSE i \in DOMAIN t : t[i] = b
           New(b) == b \in ToSet(t)
<1>1. /\ n \in Nat /\ DOMAIN s = 1..n
      /\ At(s, 0) = FakeHead /\ At(s, n + 1) = FakeTail
      /\ \A i \in 1..n : At(s, i) = s[i] /\ s[i] \in Block
      /\ \A i \in 0..(n + 1) : At(s, i) \in Node
      /\ \A i, j \in 0..(n + 1) : At(s, i) = At(s, j) => i = j
  BY Places DEF Threads
<1>2. /\ IsInjective(s) /\ q.num = n
      /\ \A i \in 0..n : q.next[At(s, i)] = At(s, i + 1) /\ q.prev[At(s, i + 1)] = At(s, i)
      /\ q.prev[FakeHead] = Nil /\ q.next[FakeTail] = Nil
      /\ \A c \in Block \ ToSet(s) : q.next[c] = Nil /\ q.prev[c] = Nil
  BY DEF Threads
<1>3. /\ m \in Nat \ {0} /\ DOMAIN t = 1..m /\ \A j \in 1..m : t[j] \in Block
      /\ \A i, j \in 1..m : t[i] = t[j] => i = j
      /\ \A v : New(v) <=> \E j \in 1..m : v = t[j]
  <2>1. m \in Nat \ {0} /\ DOMAIN t = 1..m /\ \A j \in 1..m : t[j] \in Block
    BY LenProperties
  <2>2. \A v : New(v) <=> \E j \in 1..m : v = t[j]
    BY <2>1 DEF ToSet
  <2> QED BY <2>1, <2>2 DEF IsInjective
<1>4. /\ u \in Seq(Block) /\ Len(u) = n + m /\ IsInjective(u) /\ ToSet(u) = ToSet(s) \cup ToSet(t)
  BY <1>2, Concatenation
<1>5. \A i \in 1..n + m : u[i] = IF i <= n THEN s[i] ELSE t[i - n]
  BY ConcatProperties
<1>6. \A j \in 1..m : Place(t[j]) = j
  <2> TAKE j \in 1..m
  <2>1. \A i \in DOMAIN t : t[i] = t[j] <=> i = j
    BY <1>3
  <2> QED BY <1>3, <2>1
<1>7. /\ FakeHead \in Node /\ FakeTail \in Node /\ Block \subseteq Node /\ Nil \notin Node
      /\ q.next \in [Node -> Node \cup {Nil}] /\ q.prev \in [Node -> Node \cup {Nil}] /\ q.num \in Int
  BY ListTypes
<1>8. q.prev[FakeTail] = last /\ last \in Node
  BY <1>1, <1>2
<1>9. p = [next |-> [v \in Node |->
                       CASE New(v) -> IF Place(v) = m THEN FakeTail ELSE t[Place(v) + 1]
                         [] v = last -> t[1]
                         [] OTHER -> q.next[v]],
           prev |-> [v \in Node |->
                       CASE New(v) -> IF Place(v) = 1 THEN last ELSE t[Place(v) - 1]
                         [] v = FakeTail -> t[m]
                         [] OTHER -> q.prev[v]],
           num |-> q.num + m]
  <2>1. t # <<>>
    BY EmptySeq
  <2>2. p = [next |-> [v \in Node |->
                       CASE v \in ToSet(t) -> IF Place(v) = Len(t) THEN FakeTail ELSE t[Place(v) + 1]
                         [] v = q.prev[FakeTail] -> t[1]
                         [] OTHER -> q.next[v]],
           prev |-> [v \in Node |->
                       CASE v \in ToSet(t) -> IF Place(v) = 1 THEN q.prev[FakeTail] ELSE t[Place(v) - 1]
                         [] v = FakeTail -> t[Len(t)]
                         [] OTHER -> q.prev[v]],
           num |-> Counted(q, t)]
    BY <2>1, Zenon DEF AppendedN
  <2>3. Counted(q, t) = q.num + m
    BY DEF Counted
  <2> HIDE DEF p, last, Place
  <2> QED BY <1>8, <2>2, <2>3
<1>10. \A i \in 0..(n + 1) : ~ New(At(s, i))
  <2> TAKE i \in 0..(n + 1)
  <2>1. i = 0 \/ i = n + 1 \/ i \in 1..n
    BY <1>1
  <2>2. CASE i \in 1..n
    <3>1. At(s, i) = s[i] /\ i \in DOMAIN s
      BY <1>1, <2>2, LenProperties DEF At
    <3>2. s[i] \in ToSet(s)
      BY <3>1, Zenon DEF ToSet
    <3>3. s[i] \notin ToSet(t)
      BY <1>2, <3>2
    <3> QED BY <3>1, <3>3
  <2> QED BY <1>1, <1>3, <2>1, <2>2, BlockListAssumption
<1>11. \A j \in 1..m : t[j] \in Node /\ New(t[j])
  BY <1>3, <1>7
<1>22. n \in Nat /\ m \in Nat /\ m # 0 /\ n \in 0..(n + 1)
  BY <1>1, <1>3
<1>12. \A i \in 0..n : i # n => At(s, i) # last
  <2>1. \A i \in 0..n : i \in 0..(n + 1)
    BY <1>22
  <2> QED BY <1>1, <1>22, <2>1
<1>20. FakeTail # last /\ ~ New(FakeTail) /\ ~ New(last) /\ ~ New(FakeHead)
  <2>1. n \in 0..(n + 1) /\ n + 1 \in 0..(n + 1) /\ n # n + 1 /\ 0 \in 0..(n + 1)
    BY <1>22
  <2> QED BY <1>1, <1>10, <2>1
<1> HIDE DEF p, u, Place, last, New
<1>13. /\ \A j \in 1..m : p.next[t[j]] = IF j = m THEN FakeTail ELSE t[j + 1]
       /\ \A j \in 1..m : p.prev[t[j]] = IF j = 1 THEN last ELSE t[j - 1]
       /\ p.next[last] = t[1] /\ p.prev[FakeTail] = t[m]
       /\ \A v \in Node : ~ New(v) /\ v # last => p.next[v] = q.next[v]
       /\ \A v \in Node : ~ New(v) /\ v # FakeTail => p.prev[v] = q.prev[v]
       /\ p.num = n + m
  <2>1. \A v \in Node : New(v) => p.next[v] = IF Place(v) = m THEN FakeTail ELSE t[Place(v) + 1]
    BY <1>9, <1>20
  <2>2. \A v \in Node : New(v) => p.prev[v] = IF Place(v) = 1 THEN last ELSE t[Place(v) - 1]
    BY <1>9, <1>20
  <2>3. p.next[last] = t[1]
    BY <1>8, <1>9, <1>20
  <2>4. p.prev[FakeTail] = t[m]
    BY <1>7, <1>9, <1>20
  <2>5. \A v \in Node : ~ New(v) /\ v # last => p.next[v] = q.next[v]
    BY <1>9
  <2>6. \A v \in Node : ~ New(v) /\ v # FakeTail => p.prev[v] = q.prev[v]
    BY <1>9
  <2>7. p.num = n + m
    BY <1>2, <1>9
  <2>8. \A j \in 1..m : p.next[t[j]] = IF j = m THEN FakeTail ELSE t[j + 1]
    BY <1>6, <1>11, <2>1
  <2>9. \A j \in 1..m : p.prev[t[j]] = IF j = 1 THEN last ELSE t[j - 1]
    BY <1>6, <1>11, <2>2
  <2> QED BY <2>3, <2>4, <2>5, <2>6, <2>7, <2>8, <2>9
<1>14. p \in Lists
  <2>0. 1 \in 1..m /\ m \in 1..m
    BY <1>3
  <2>1. ASSUME NEW v \in Node PROVE p.next[v] \in Node \cup {Nil}
    <3>1. CASE New(v)
      <4>1. PICK j \in 1..m : v = t[j]
        BY <1>3, <3>1 DEF New
      <4>2. j # m => j + 1 \in 1..m
        BY <1>22
      <4> QED BY <1>7, <1>11, <1>13, <4>1, <4>2
    <3>2. CASE ~ New(v)
      BY <1>7, <1>11, <1>13, <2>0, <3>2
    <3> QED BY <3>1, <3>2
  <2>2. ASSUME NEW v \in Node PROVE p.prev[v] \in Node \cup {Nil}
    <3>1. CASE New(v)
      <4>1. PICK j \in 1..m : v = t[j]
        BY <1>3, <3>1 DEF New
      <4>2. j # 1 => j - 1 \in 1..m
        BY <1>22
      <4> QED BY <1>8, <1>11, <1>13, <4>1, <4>2
    <3>2. CASE ~ New(v)
      BY <1>7, <1>11, <1>13, <2>0, <3>2
    <3> QED BY <3>1, <3>2
  <2>3. /\ p.next = [v \in Node |-> p.next[v]] /\ p.prev = [v \in Node |-> p.prev[v]]
        /\ p = [next |-> p.next, prev |-> p.prev, num |-> p.num]
    BY <1>9
  <2>4. p.next \in [Node -> Node \cup {Nil}] /\ p.prev \in [Node -> Node \cup {Nil}]
    BY <2>1, <2>2, <2>3
  <2>5. p.num \in Int
    <3>1. p.num = n + m
      BY <1>13
    <3> QED BY <1>22, <3>1
  <2> QED BY <2>3, <2>4, <2>5 DEF Lists
<1>15. /\ At(u, 0) = FakeHead /\ At(u, (n + m) + 1) = FakeTail
       /\ \A i \in 1..(n + m) : At(u, i) = u[i]
  <2>1. /\ At(u, 0) = FakeHead /\ At(u, Len(u) + 1) = FakeTail
        /\ \A i \in 1..Len(u) : At(u, i) = u[i]
    BY <1>4, Places
  <2> QED BY <1>4, <2>1
<1>16. /\ \A i \in 0..n : At(u, i) = At(s, i)
       /\ \A j \in 1..m : At(u, n + j) = t[j]
  <2>1. ASSUME NEW i \in 0..n PROVE At(u, i) = At(s, i)
    <3>1. CASE i = 0
      BY <1>1, <1>15, <3>1
    <3>2. CASE i # 0
      <4>1. i \in 1..n /\ i \in 1..(n + m) /\ i <= n
        BY <1>1, <1>3, <3>2
      <4> QED BY <1>1, <1>5, <1>15, <4>1 DEF u
    <3> QED BY <3>1, <3>2
  <2>2. ASSUME NEW j \in 1..m PROVE At(u, n + j) = t[j]
    <3>1. n + j \in 1..(n + m) /\ ~ (n + j <= n) /\ (n + j) - n = j
      BY <1>1, <1>3
    <3> QED BY <1>5, <1>15, <3>1 DEF u
  <2> QED BY <2>1, <2>2
<1> HIDE DEF n, m
<1>17. \A i \in 0..(n + m) : p.next[At(u, i)] = At(u, i + 1) /\ p.prev[At(u, i + 1)] = At(u, i)
  <2> TAKE i \in 0..(n + m)
  <2>0. n \in Nat /\ m \in Nat \ {0}
    BY <1>1, <1>3
  <2>1. CASE i < n
    <3>1. /\ i \in 0..n /\ i + 1 \in 0..n /\ i # n /\ i + 1 # n + 1
          /\ i \in 0..(n + 1) /\ i + 1 \in 0..(n + 1) /\ n + 1 \in 0..(n + 1)
      BY <2>0, <2>1
    <3>2. At(u, i) = At(s, i) /\ At(u, i + 1) = At(s, i + 1)
      BY <1>16, <3>1
    <3>3. /\ At(s, i) \in Node /\ At(s, i + 1) \in Node
          /\ At(s, i) # last /\ At(s, i + 1) # FakeTail
          /\ ~ New(At(s, i)) /\ ~ New(At(s, i + 1))
      BY <1>1, <1>10, <1>12, <3>1 DEF New, last
    <3> QED BY <1>2, <1>13, <3>1, <3>2, <3>3
  <2>2. CASE i = n
    <3>1. i \in 0..n /\ 1 \in 1..m /\ i + 1 = n + 1
      BY <2>0, <2>2
    <3>2. At(u, i) = last /\ At(u, i + 1) = t[1]
      BY <1>16, <2>2, <3>1 DEF last
    <3> QED BY <1>13, <3>1, <3>2
  <2>3. CASE i > n /\ i < n + m
    <3> DEFINE j == i - n
    <3>1. /\ j \in 1..m /\ j + 1 \in 1..m /\ n + j = i /\ n + (j + 1) = i + 1
          /\ j # m /\ j + 1 # 1 /\ (j + 1) - 1 = j
      BY <2>0, <2>3
    <3> HIDE DEF j
    <3>2. At(u, i) = t[j] /\ At(u, i + 1) = t[j + 1]
      BY <1>16, <3>1
    <3> QED BY <1>13, <3>1, <3>2
  <2>4. CASE i = n + m
    <3>1. m \in 1..m
      BY <2>0
    <3>2. At(u, i) = t[m] /\ At(u, i + 1) = FakeTail
      BY <1>15, <1>16, <2>4, <3>1
    <3> QED BY <1>13, <3>1, <3>2
  <2> QED BY <2>0, <2>1, <2>2, <2>3, <2>4
<1>18. p.prev[FakeHead] = Nil /\ p.next[FakeTail] = Nil
  BY <1>2, <1>7, <1>13, <1>20, BlockListAssumption
<1>19. \A c \in Block \ ToSet(u) : p.next[c] = Nil /\ p.prev[c] = Nil
  <2> TAKE c \in Block \ ToSet(u)
  <2>1. c \notin ToSet(s) /\ ~ New(c)
    BY <1>4 DEF New
  <2>2. c # FakeTail /\ c # last
    <3>1. n = 0 \/ n \in 1..n
      BY <1>1
    <3>2. CASE n = 0
      BY <1>1, <3>2, BlockListAssumption DEF last
    <3>3. CASE n \in 1..n
      <4>1. last = s[n] /\ n \in DOMAIN s
        BY <1>1, <3>3 DEF last
      <4> QED BY <2>1, <4>1, BlockListAssumption DEF ToSet
    <3> QED BY <3>1, <3>2, <3>3, BlockListAssumption
  <2> QED BY <1>2, <1>7, <1>13, <2>1, <2>2
<1>21. Threads(p, u)
  BY <1>4, <1>13, <1>17, <1>18, <1>19 DEF Threads
<1> QED BY <1>14, <1>21 DEF p, u

\* append is append_n of one block.
LEMMA LinksOne ==
    ASSUME NEW q \in Lists, NEW s \in Seq(Block), Threads(q, s), NEW b \in Block \ ToSet(s)
    PROVE  Appended1(q, b) = AppendedN(q, <<b>>)
<1> DEFINE last == q.prev[FakeTail]
           t == <<b>>
           Place(c) == CHOOSE i \in DOMAIN t : t[i] = c
<1>1. ToSet(t) = {b} /\ t # <<>> /\ Len(t) = 1 /\ t[1] = b /\ DOMAIN t = {1}
  BY DEF ToSet
<1>2. Place(b) = 1
  BY <1>1
<1>3. /\ FakeHead \in Node /\ FakeTail \in Node /\ b \in Node /\ last \in Node
      /\ last # b /\ FakeTail # b
      /\ q.next \in [Node -> Node \cup {Nil}] /\ q.prev \in [Node -> Node \cup {Nil}]
  <2>1. /\ Len(s) \in Nat /\ Len(s) \in 0..Len(s) /\ Len(s) \in 0..(Len(s) + 1)
        /\ At(s, Len(s) + 1) = FakeTail /\ At(s, 0) = FakeHead
        /\ \A i \in 1..Len(s) : At(s, i) = s[i] /\ s[i] \in Block
        /\ DOMAIN s = 1..Len(s) /\ \A i \in 0..(Len(s) + 1) : At(s, i) \in Node
    BY Places DEF Threads
  <2>2. last = At(s, Len(s)) /\ last \in Node
    BY <2>1 DEF Threads
  <2>3. last # b
    <3>1. CASE Len(s) = 0
      BY <2>1, <2>2, <3>1, BlockListAssumption
    <3>2. CASE Len(s) # 0
      <4>1. Len(s) \in 1..Len(s)
        BY <2>1, <3>2
      <4> QED BY <2>1, <2>2, <4>1 DEF ToSet
    <3> QED BY <3>1, <3>2
  <2> QED BY <2>2, <2>3, ListTypes, BlockListAssumption
<1>4. AppendedN(q, t) =
        [next |-> [v \in Node |->
                     CASE v \in ToSet(t) -> IF Place(v) = Len(t) THEN FakeTail ELSE t[Place(v) + 1]
                       [] v = last -> t[1]
                       [] OTHER -> q.next[v]],
         prev |-> [v \in Node |->
                     CASE v \in ToSet(t) -> IF Place(v) = 1 THEN last ELSE t[Place(v) - 1]
                       [] v = FakeTail -> t[Len(t)]
                       [] OTHER -> q.prev[v]],
         num |-> q.num + Len(t)]
  BY <1>1, Zenon DEF AppendedN, Counted
<1>5. Appended1(q, b) =
        [next |-> [q.next EXCEPT ![last] = b, ![b] = FakeTail],
         prev |-> [q.prev EXCEPT ![b] = last, ![FakeTail] = b],
         num |-> q.num + 1]
  BY Zenon DEF Appended1
<1> HIDE DEF last, t, Place
<1>6. [q.next EXCEPT ![last] = b, ![b] = FakeTail] =
        [v \in Node |->
           CASE v \in ToSet(t) -> IF Place(v) = Len(t) THEN FakeTail ELSE t[Place(v) + 1]
             [] v = last -> t[1]
             [] OTHER -> q.next[v]]
  BY <1>1, <1>2, <1>3
<1>7. [q.prev EXCEPT ![b] = last, ![FakeTail] = b] =
        [v \in Node |->
           CASE v \in ToSet(t) -> IF Place(v) = 1 THEN last ELSE t[Place(v) - 1]
             [] v = FakeTail -> t[Len(t)]
             [] OTHER -> q.prev[v]]
  BY <1>1, <1>2, <1>3
<1> QED BY <1>1, <1>4, <1>5, <1>6, <1>7 DEF t

\* __init__: all blocks, in the given order.
LEMMA Starts ==
    ASSUME NEW s \in SetToSeqs(Block)
    PROVE  /\ s \in Seq(Block)
           /\ ListOf(s) \in Lists /\ Threads(ListOf(s), s)
<1> DEFINE q == ListOf(s)
           n == Len(s)
           Place(b) == CHOOSE i \in DOMAIN s : s[i] = b
           Before(i) == IF i = 0 THEN FakeHead ELSE s[i]
           After(i) == IF i = Len(s) + 1 THEN FakeTail ELSE s[i]
<1>1. s \in Seq(Block) /\ IsInjective(s) /\ ToSet(s) = Block
  BY BlockListAssumption, Arrangement
<1>2. /\ n \in Nat /\ DOMAIN s = 1..n
      /\ At(s, 0) = FakeHead /\ At(s, n + 1) = FakeTail
      /\ \A i \in 1..n : At(s, i) = s[i] /\ s[i] \in Block
      /\ \A i \in 0..(n + 1) : At(s, i) \in Node
      /\ \A i, j \in 0..(n + 1) : At(s, i) = At(s, j) => i = j
  BY <1>1, Places
<1>3. q = [next |-> [v \in Node |-> CASE v = FakeHead -> After(1)
                                      [] v = FakeTail -> Nil
                                      [] OTHER -> After(Place(v) + 1)],
           prev |-> [v \in Node |-> CASE v = FakeHead -> Nil
                                      [] v = FakeTail -> Before(n)
                                      [] OTHER -> Before(Place(v) - 1)],
           num |-> n]
  BY Zenon DEF ListOf
<1>4. \A i \in 1..n : Place(s[i]) = i
  <2> TAKE i \in 1..n
  <2>1. \A j \in DOMAIN s : s[j] = s[i] <=> j = i
    BY <1>1, <1>2 DEF IsInjective
  <2> QED BY <1>2, <2>1
<1>5. /\ \A i \in 1..(n + 1) : After(i) = At(s, i)
      /\ \A i \in 0..n : Before(i) = At(s, i)
  <2>1. ASSUME NEW i \in 1..(n + 1) PROVE After(i) = At(s, i)
    <3>1. i # 0
      BY <1>2
    <3> QED BY <3>1 DEF At
  <2>2. ASSUME NEW i \in 0..n PROVE Before(i) = At(s, i)
    <3>1. i # n + 1
      BY <1>2
    <3> QED BY <3>1 DEF At
  <2> QED BY <2>1, <2>2
<1>6. /\ FakeHead \in Node /\ FakeTail \in Node /\ Block \subseteq Node /\ FakeHead # FakeTail
      /\ \A b \in Block : b # FakeHead /\ b # FakeTail
      /\ \A v \in Node : v = FakeHead \/ v = FakeTail \/ \E i \in 1..n : v = s[i]
  <2>1. \A b \in Block : \E i \in 1..n : b = s[i]
    BY <1>1, <1>2 DEF ToSet
  <2> QED BY <2>1, BlockListAssumption DEF Node
<1> HIDE DEF q, Place, Before, After
<1>7. /\ q.next[FakeHead] = After(1) /\ q.next[FakeTail] = Nil
      /\ q.prev[FakeHead] = Nil /\ q.prev[FakeTail] = Before(n)
      /\ q.num = n
  BY <1>3, <1>6
<1>8. \A i \in 1..n : q.next[s[i]] = After(i + 1) /\ q.prev[s[i]] = Before(i - 1)
  <2> TAKE i \in 1..n
  <2>1. s[i] \in Node /\ s[i] # FakeHead /\ s[i] # FakeTail /\ Place(s[i]) = i
    BY <1>2, <1>4, <1>6
  <2> QED BY <1>3, <2>1
<1> HIDE DEF n
<1>9. \A i \in 0..n : q.next[At(s, i)] = At(s, i + 1) /\ q.prev[At(s, i + 1)] = At(s, i)
  <2> TAKE i \in 0..n
  <2>1. q.next[At(s, i)] = At(s, i + 1)
    <3>1. CASE i = 0
      <4>1. 1 \in 1..(n + 1) /\ i + 1 = 1
        BY <1>2, <3>1
      <4> QED BY <1>2, <1>5, <1>7, <3>1, <4>1
    <3>2. CASE i # 0
      <4>1. i \in 1..n /\ i + 1 \in 1..(n + 1)
        BY <1>2, <3>2
      <4> QED BY <1>2, <1>5, <1>8, <4>1
    <3> QED BY <3>1, <3>2
  <2>2. q.prev[At(s, i + 1)] = At(s, i)
    <3>1. CASE i = n
      BY <1>2, <1>5, <1>7, <3>1
    <3>2. CASE i # n
      <4>1. i + 1 \in 1..n /\ (i + 1) - 1 = i
        BY <1>2, <3>2
      <4> QED BY <1>2, <1>5, <1>8, <4>1
    <3> QED BY <3>1, <3>2
  <2> QED BY <2>1, <2>2
<1>10. Threads(q, s)
  BY <1>1, <1>7, <1>9 DEF Threads, n
<1>11. q \in Lists
  <2>1. \A v \in Node : q.next[v] \in Node \cup {Nil} /\ q.prev[v] \in Node \cup {Nil}
    <3> TAKE v \in Node
    <3>1. CASE v = FakeHead
      <4>1. 1 \in 1..(n + 1) /\ 1 \in 0..(n + 1)
        BY <1>2
      <4> QED BY <1>2, <1>5, <1>7, <3>1, <4>1
    <3>2. CASE v = FakeTail
      <4>1. n \in 0..n /\ n \in 0..(n + 1)
        BY <1>2
      <4> QED BY <1>2, <1>5, <1>7, <3>2, <4>1
    <3>3. CASE \E i \in 1..n : v = s[i]
      <4>1. PICK i \in 1..n : v = s[i]
        BY <3>3
      <4>2. i + 1 \in 1..(n + 1) /\ i - 1 \in 0..n /\ i + 1 \in 0..(n + 1) /\ i - 1 \in 0..(n + 1)
        BY <1>2
      <4> QED BY <1>2, <1>5, <1>8, <4>1, <4>2
    <3> QED BY <1>6, <3>1, <3>2, <3>3
  <2>2. /\ q.next = [v \in Node |-> q.next[v]] /\ q.prev = [v \in Node |-> q.prev[v]]
        /\ q = [next |-> q.next, prev |-> q.prev, num |-> q.num]
    BY <1>3
  <2>3. q.num \in Int
    BY <1>2, <1>7
  <2>4. q.next \in [Node -> Node \cup {Nil}] /\ q.prev \in [Node -> Node \cup {Nil}]
    BY <2>1, <2>2
  <2> QED BY <2>2, <2>3, <2>4 DEF Lists
<1> QED BY <1>1, <1>10, <1>11 DEF q

-----------------------------------------------------------------------------
(* The specification.                                                      *)

\* Which blocks the pointers of a list tell to be in it.
LEMMA InList ==
    ASSUME NEW q \in Lists, NEW s \in Seq(Block), Threads(q, s), NEW b \in Block
    PROVE  /\ Linked(q, b) <=> b \in ToSet(s)
           /\ Removable(q, b) <=> b \in ToSet(s)
<1>1. /\ Len(s) \in Nat /\ DOMAIN s = 1..Len(s)
      /\ \A i \in 1..Len(s) : At(s, i) = s[i]
      /\ \A i \in 0..(Len(s) + 1) : At(s, i) \in Node
  BY Places DEF Threads
<1>2. Nil \notin Node
  BY BlockListAssumption DEF Node
<1>3. CASE b \in ToSet(s)
  <2>1. PICK i \in 1..Len(s) : b = At(s, i)
    BY <1>1, <1>3 DEF ToSet
  <2>2. i \in 0..Len(s) /\ i - 1 \in 0..Len(s) /\ (i - 1) + 1 = i /\ i + 1 \in 0..(Len(s) + 1)
        /\ i - 1 \in 0..(Len(s) + 1)
    BY <1>1
  <2>3. q.next[b] = At(s, i + 1) /\ q.prev[b] = At(s, i - 1)
    BY <2>1, <2>2 DEF Threads
  <2> QED BY <1>1, <1>2, <1>3, <2>2, <2>3 DEF Linked, Removable
<1>4. CASE b \notin ToSet(s)
  BY <1>4 DEF Threads, Linked, Removable
<1> QED BY <1>3, <1>4

\* The inductive invariant: the pointers are those of some sequence.
Holds(s) == s \in Seq(Block) /\ Threads(list, s)
QueueInv == list \in Lists /\ \E s : Holds(s)

LEMMA ListFacts ==
    ASSUME NEW s, Holds(s), list \in Lists
    PROVE  /\ Listed(list) = s /\ s \in Seq(Block) /\ IsInjective(s)
           /\ list.num = Len(s) /\ Len(s) \in Nat /\ Len(s) <= Cardinality(Block)
<1>1. s \in Seq(Block) /\ Threads(list, s)
  BY DEF Holds
<1>2. Listed(list) = s
  BY <1>1, ListedIs
<1>3. IsInjective(s) /\ list.num = Len(s)
  BY <1>1 DEF Threads
<1>4. Len(s) \in Nat /\ s \in [1..Len(s) -> Block]
  BY <1>1, LenProperties
<1>5. s \in Injection(1..Len(s), Block)
  BY <1>3, <1>4 DEF Injection, IsInjective
<1>6. IsFiniteSet(1..Len(s)) /\ Cardinality(1..Len(s)) = Len(s)
  BY <1>4, FS_Interval, SMTT(20)
<1>7. Len(s) <= Cardinality(Block)
  BY <1>4, <1>5, <1>6, BlockListAssumption, FS_Injection
<1> QED BY <1>1, <1>2, <1>3, <1>4, <1>7

\* The abstract queue means the same by the operators that both use.
LEMMA SameWords ==
    /\ \A S : FIFO!Cardinality(S) = Cardinality(S)
    /\ \A S : FIFO!SetToSeqs(S) = SetToSeqs(S)
    /\ \A s : FIFO!ToSet(s) = ToSet(s)
    /\ \A s, i : FIFO!RemoveAt(s, i) = RemoveAt(s, i)
<1>1. ASSUME NEW S PROVE FIFO!Cardinality(S) = Cardinality(S)
  BY Zenon DEF FIFO!Cardinality, Cardinality
<1>2. ASSUME NEW S PROVE FIFO!SetToSeqs(S) = SetToSeqs(S)
  BY <1>1, Zenon DEF FIFO!SetToSeqs, SetToSeqs
<1>3. ASSUME NEW s PROVE FIFO!ToSet(s) = ToSet(s)
  BY Zenon DEF FIFO!ToSet, ToSet
<1>4. ASSUME NEW s, NEW i PROVE FIFO!RemoveAt(s, i) = RemoveAt(s, i)
  BY Zenon DEF FIFO!RemoveAt, RemoveAt
<1> QED BY <1>1, <1>2, <1>3, <1>4, Zenon

LEMMA InitHolds ==
    ASSUME QueueInit
    PROVE  QueueInv /\ FIFO!Init
<1>1. PICK s \in SetToSeqs(Block) : list = ListOf(s)
  BY DEF QueueInit
<1>2. Holds(s) /\ list \in Lists
  BY <1>1, Starts DEF Holds
<1>3. Listed(list) = s
  BY <1>2, ListFacts
<1> QED BY <1>1, <1>2, <1>3, SameWords DEF QueueInv, FIFO!Init

\* Every operation turns a list of one sequence into a list of another one, and
\* the sequences are those of the abstract queue.
LEMMA NextHolds ==
    ASSUME QueueInv, QueueNext
    PROVE  QueueInv' /\ FIFO!Next
<1> PICK s : Holds(s)
  BY DEF QueueInv
<1>1. list \in Lists /\ s \in Seq(Block) /\ Threads(list, s)
  BY DEF QueueInv, Holds
<1>2. /\ Listed(list) = s /\ IsInjective(s) /\ list.num = Len(s)
      /\ Len(s) \in Nat /\ Len(s) <= Cardinality(Block)
      /\ DOMAIN s = 1..Len(s)
  BY <1>1, ListFacts, LenProperties DEF Holds
<1>3. ASSUME NEW t, Threads(list', t), list' \in Lists, t \in Seq(Block)
      PROVE  QueueInv' /\ Listed(list') = t
  <2>1. Listed(list') = t
    BY <1>3, ListedIs
  <2> QED BY <1>3, <2>1 DEF QueueInv, Holds
<1>4. ASSUME NEW n \in 1..Cardinality(Block), PopLeftN(n)
      PROVE  QueueInv' /\ FIFO!PopLeftN(n)
  <2>1. n \in 1..Len(s) /\ n \in Nat /\ n <= Len(s) /\ list' = PoppedLeftN(list, n)
    BY <1>2, <1>4 DEF PopLeftN
  <2>2. list' \in Lists /\ Threads(list', Part(s, n + 1, Len(s)))
    BY <1>1, <2>1, TakesFirst
  <2>3. Part(s, n + 1, Len(s)) \in Seq(Block)
    BY <1>1, <1>2, <2>1, DropFirst
  <2>4. QueueInv' /\ Listed(list') = Part(s, n + 1, Len(s))
    BY <1>3, <2>2, <2>3
  <2> QED BY <1>2, <2>1, <2>4 DEF FIFO!PopLeftN, Part
<1>5. ASSUME PopLeft
      PROVE  QueueInv' /\ FIFO!PopLeft
  <2>1. Len(s) # 0
    <3>1. ASSUME Len(s) = 0 PROVE FALSE
      <4>1. At(s, 0) = FakeHead /\ At(s, Len(s) + 1) = FakeTail /\ 0 \in 0..Len(s)
        BY <1>1, <1>2, Places
      <4>2. list.next[FakeHead] = FakeTail
        BY <1>1, <3>1, <4>1 DEF Threads
      <4> QED BY <1>5, <4>2 DEF PopLeft, FirstFree
    <3> QED BY <3>1
  <2>2. 1 \in 1..Len(s) /\ 1 \in Nat /\ 1 <= Len(s) /\ s # <<>>
    BY <1>1, <1>2, <2>1, EmptySeq
  <2>3. list' = PoppedLeftN(list, 1)
    BY <1>1, <1>5, <2>1, TakesOne DEF PopLeft
  <2>4. list' \in Lists /\ Threads(list', Part(s, 1 + 1, Len(s)))
    BY <1>1, <2>2, <2>3, TakesFirst
  <2>5. Part(s, 1 + 1, Len(s)) \in Seq(Block)
    BY <1>1, <1>2, <2>2, DropFirst
  <2>6. QueueInv' /\ Listed(list') = Part(s, 1 + 1, Len(s))
    BY <1>3, <2>4, <2>5
  <2>7. Part(s, 1 + 1, Len(s)) = Tail(s)
    BY <1>1, <2>2 DEF Part
  <2> QED BY <1>2, <2>2, <2>6, <2>7 DEF FIFO!PopLeft
<1>6. ASSUME NEW b \in Block, RemoveBlock(b)
      PROVE  QueueInv' /\ FIFO!RemoveBlock(b)
  <2>1. list' = Removed(list, b) /\ b \in ToSet(s)
    BY <1>1, <1>6, InList DEF RemoveBlock
  <2>2. PICK k \in DOMAIN s : s[k] = b
    BY <2>1 DEF ToSet
  <2>3. list' \in Lists /\ Threads(list', RemoveAt(s, k))
    BY <1>1, <2>1, <2>2, Unlinks
  <2>4. RemoveAt(s, k) \in Seq(Block)
    BY <1>1, MovedUp
  <2>5. QueueInv' /\ Listed(list') = RemoveAt(s, k)
    BY <1>3, <2>3, <2>4
  <2>6. RemoveAt(s, k) = FIFO!RemoveAt(s, k)
    BY SameWords
  <2> QED BY <1>2, <2>2, <2>5, <2>6 DEF FIFO!RemoveBlock
<1>7. ASSUME NEW t \in Seq(Block), IsInjective(t), ToSet(t) \cap ToSet(s) = {}, list' = AppendedN(list, t)
      PROVE  QueueInv' /\ Listed(list') = s \o t
  <2>1. CASE Len(t) = 0
    <3>1. t = <<>>
      BY <2>1, EmptySeq
    <3>2. list' = list
      BY <1>7, <3>1 DEF AppendedN
    <3>3. s \o t = s
      BY <1>1, <3>1, ConcatEmptySeq
    <3> QED BY <1>1, <1>3, <3>2, <3>3
  <2>2. CASE Len(t) # 0
    <3>1. list' \in Lists /\ Threads(list', s \o t)
      BY <1>1, <1>7, <2>2, LinksBehind
    <3>2. s \o t \in Seq(Block)
      BY <1>1, <1>7, ConcatProperties
    <3> QED BY <1>3, <3>1, <3>2
  <2> QED BY <2>1, <2>2
<1>8. ASSUME NEW b \in Block, Append1(b)
      PROVE  QueueInv' /\ FIFO!Append1(b)
  <2>1. b \notin ToSet(s) /\ list' = Appended1(list, b)
    BY <1>1, <1>8, InList DEF Append1
  <2>2. list' = AppendedN(list, <<b>>)
    BY <1>1, <2>1, LinksOne
  <2>3. <<b>> \in Seq(Block) /\ IsInjective(<<b>>) /\ ToSet(<<b>>) = {b}
    BY DEF IsInjective, ToSet
  <2>4. QueueInv' /\ Listed(list') = s \o <<b>>
    BY <1>7, <2>1, <2>2, <2>3
  <2>5. s \o <<b>> = Append(s, b)
    BY <1>1
  <2>6. b \notin FIFO!ToSet(s)
    BY <2>1, SameWords
  <2> QED BY <1>2, <2>4, <2>5, <2>6 DEF FIFO!Append1
<1>9. ASSUME NEW S \in SUBSET Block, NEW t \in SetToSeqs(S), AppendN(t)
      PROVE  QueueInv' /\ FIFO!AppendN(t)
  <2>1. t \in Seq(S) /\ IsInjective(t) /\ ToSet(t) = S
    BY BlockListAssumption, FS_Subset, Arrangement
  <2>2. t \in Seq(Block)
    BY <2>1, SeqMonotonic, Zenon
  <2>3. ToSet(t) \cap ToSet(s) = {} /\ list' = AppendedN(list, t)
    BY <1>1, <1>9, <2>1, InList DEF AppendN
  <2>4. QueueInv' /\ Listed(list') = s \o t
    BY <1>7, <2>1, <2>2, <2>3
  <2>5. FIFO!ToSet(t) \cap FIFO!ToSet(s) = {}
    BY <2>3, SameWords
  <2> QED BY <1>2, <2>4, <2>5 DEF FIFO!AppendN
<1>10. FIFO!Cardinality(Block) = Cardinality(Block) /\ \A S : FIFO!SetToSeqs(S) = SetToSeqs(S)
  BY SameWords
<1> QED BY <1>4, <1>5, <1>6, <1>8, <1>9, <1>10 DEF QueueNext, FIFO!Next

\* The inductive invariant of the free list.
THEOREM ListInvariant == QueueSpec => []QueueInv
<1>1. QueueInv /\ [QueueNext]_list => QueueInv'
  <2>1. QueueInv /\ UNCHANGED list => QueueInv'
    BY DEF QueueInv, Holds
  <2> QED BY <2>1, NextHolds
<1> QED BY <1>1, InitHolds, PTL DEF QueueSpec

\* Pointers lead to nodes or nowhere, and the count is within the pool.
THEOREM ListTypesOK == QueueSpec => []QueueTypeOK
<1>1. QueueInv => QueueTypeOK
  <2> SUFFICES ASSUME QueueInv PROVE QueueTypeOK
    OBVIOUS
  <2>1. PICK s : Holds(s)
    BY DEF QueueInv
  <2>2. list \in Lists /\ list.num \in Nat /\ list.num <= Cardinality(Block)
    BY <2>1, ListFacts DEF QueueInv
  <2>3. Cardinality(Block) \in Nat
    BY BlockListAssumption, FS_CardinalityType
  <2> QED BY <2>2, <2>3 DEF QueueTypeOK
<1> QED BY <1>1, ListInvariant, PTL

\* Whatever is popped, removed and appended in whatever order, the two
\* directions of the list agree and the count is its length.
THEOREM ListWellLinked == QueueSpec => []WellLinked
<1>1. QueueInv => WellLinked
  <2> SUFFICES ASSUME QueueInv PROVE WellLinked
    OBVIOUS
  <2>1. PICK s : Holds(s)
    BY DEF QueueInv
  <2>2. Listed(list) = s /\ Threads(list, s)
    BY <2>1, ListFacts DEF QueueInv, Holds
  <2> QED BY <2>2, RepresentsIs DEF WellLinked
<1> QED BY <1>1, ListInvariant, PTL

\* The list implements the queue that the pool works with.
THEOREM ListImplementsFIFO == QueueSpec => FIFOSpec
<1>1. QueueInv /\ [QueueNext]_list => [FIFO!Next]_(Listed(list))
  BY NextHolds
<1> QED BY <1>1, InitHolds, ListInvariant, PTL DEF QueueSpec, FIFOSpec, FIFO!Spec

-----------------------------------------------------------------------------
(* The free list as the set of blocks in it                                 *)

Holding(q, S) == q \in Lists /\ \E s \in Seq(Block) : Threads(q, s) /\ ToSet(s) = S

LEMMA HoldStart == \A s \in SetToSeqs(Block) : Holding(ListOf(s), Block)
<1> TAKE s \in SetToSeqs(Block)
<1>1. ToSet(s) = Block
  BY Arrangement, BlockListAssumption
<1> QED BY <1>1, Starts DEF Holding

\* The pointers of a block tell whether it is in the list.
LEMMA HoldTells ==
    ASSUME NEW q, NEW S, Holding(q, S), NEW b \in Block
    PROVE  /\ Linked(q, b) <=> b \in S
           /\ Removable(q, b) <=> b \in S
BY InList DEF Holding

LEMMA HoldRemove ==
    ASSUME NEW q, NEW S, Holding(q, S), NEW b \in S
    PROVE  Holding(Removed(q, b), S \ {b})
<1>1. PICK s \in Seq(Block) : Threads(q, s) /\ ToSet(s) = S
  BY DEF Holding
<1>2. PICK k \in DOMAIN s : s[k] = b
  BY <1>1 DEF ToSet
<1>3. q \in Lists
  BY DEF Holding
<1>4. Removed(q, s[k]) \in Lists /\ Threads(Removed(q, s[k]), RemoveAt(s, k))
  BY <1>1, <1>3, Unlinks
<1>5. RemoveAt(s, k) \in Seq(Block) /\ ToSet(RemoveAt(s, k)) = ToSet(s) \ {s[k]}
  BY <1>1, RemovedAt DEF Threads
<1> QED BY <1>1, <1>2, <1>4, <1>5 DEF Holding

LEMMA HoldAppend ==
    ASSUME NEW q, NEW S, Holding(q, S), NEW b \in Block \ S
    PROVE  Holding(Appended1(q, b), S \cup {b})
<1>1. PICK s \in Seq(Block) : Threads(q, s) /\ ToSet(s) = S
  BY DEF Holding
<1>2. q \in Lists /\ b \in Block \ ToSet(s)
  BY <1>1 DEF Holding
<1>3. Appended1(q, b) = AppendedN(q, <<b>>)
  BY <1>1, <1>2, LinksOne
<1> DEFINE t == <<b>>
<1>4. t \in Seq(Block) /\ IsInjective(t) /\ ToSet(t) = {b} /\ t # <<>>
  BY DEF IsInjective, ToSet
<1>5. ToSet(t) \cap ToSet(s) = {}
  BY <1>2, <1>4
<1>6. AppendedN(q, t) \in Lists /\ Threads(AppendedN(q, t), s \o t)
  <2> HIDE DEF t
  <2> QED BY <1>1, <1>2, <1>4, <1>5, LinksBehind
<1>7. s \o t \in Seq(Block) /\ ToSet(s \o t) = ToSet(s) \cup {b}
  <2>1. IsInjective(s)
    BY <1>1 DEF Threads
  <2> HIDE DEF t
  <2> QED BY <1>1, <1>4, <1>5, <2>1, Concatenation
<1> QED BY <1>1, <1>3, <1>6, <1>7 DEF Holding

LEMMA HoldPop ==
    ASSUME NEW q, NEW S, Holding(q, S), q.num # 0
    PROVE  FirstFree(q) \in S /\ Holding(PoppedLeft(q), S \ {FirstFree(q)})
<1>1. PICK s \in Seq(Block) : Threads(q, s) /\ ToSet(s) = S
  BY DEF Holding
<1>2. q \in Lists /\ Len(s) # 0 /\ IsInjective(s)
  BY <1>1 DEF Holding, Threads
<1>3. /\ Len(s) \in Nat /\ DOMAIN s = 1..Len(s) /\ 1 \in 1..Len(s)
      /\ FirstFree(q) = s[1]
  <2>1. Len(s) \in Nat /\ DOMAIN s = 1..Len(s) /\ At(s, 0) = FakeHead /\ \A i \in 1..Len(s) : At(s, i) = s[i]
    BY <1>2, Places
  <2>2. 1 \in 1..Len(s) /\ 0 \in 0..Len(s)
    BY <1>2, <2>1
  <2>3. q.next[At(s, 0)] = At(s, 0 + 1)
    BY <1>1, <2>2 DEF Threads
  <2> QED BY <2>1, <2>2, <2>3 DEF FirstFree
<1>4. PoppedLeft(q) \in Lists /\ Threads(PoppedLeft(q), Part(s, 2, Len(s)))
  <2>1. PoppedLeft(q) = PoppedLeftN(q, 1)
    BY <1>1, <1>2, TakesOne
  <2>2. PoppedLeftN(q, 1) \in Lists /\ Threads(PoppedLeftN(q, 1), Part(s, 1 + 1, Len(s)))
    BY <1>1, <1>2, <1>3, TakesFirst
  <2> QED BY <2>1, <2>2
<1>5. Part(s, 2, Len(s)) \in Seq(Block) /\ ToSet(Part(s, 2, Len(s))) = ToSet(s) \ {s[1]}
  <2>1. 1 \in Nat /\ 1 <= Len(s)
    BY <1>3
  <2>2. /\ Part(s, 1 + 1, Len(s)) \in Seq(Block)
        /\ ToSet(Part(s, 1 + 1, Len(s))) = ToSet(s) \ FirstOf(s, 1)
    BY <1>2, <2>1, DropFirst
  <2>3. FirstOf(s, 1) = {s[1]}
    BY DEF FirstOf
  <2> QED BY <2>2, <2>3
<1> QED BY <1>1, <1>3, <1>4, <1>5 DEF Holding, ToSet

-----------------------------------------------------------------------------
(* One block of a table: types                                              *)

Pools == [list : Lists, ref : [Block -> Int], allocated : SUBSET Block]
Ops == {"touch", "reference", "release", "free"}

LEMMA PoolParts ==
    \A p \in Pools : p.list \in Lists /\ p.ref \in [Block -> Int] /\ p.allocated \in SUBSET Block
BY DEF Pools

\* The pointer operations lead from lists to lists, also where the list is
\* not what it should be.
LEMMA ListsClosed ==
    ASSUME NEW q \in Lists, NEW b \in Block
    PROVE  /\ Appended1(q, b) \in Lists
           /\ Removable(q, b) => Removed(q, b) \in Lists
           /\ b = FirstFree(q) => PoppedLeft(q) \in Lists
<1>1. /\ q.next \in [Node -> Node \cup {Nil}] /\ q.prev \in [Node -> Node \cup {Nil}]
      /\ q.num \in Int /\ FakeHead \in Node /\ FakeTail \in Node /\ b \in Node
  BY ListTypes
<1>2. \A f \in [Node -> Node \cup {Nil}] : \A x, v : v \in Node \cup {Nil} => [f EXCEPT ![x] = v] \in [Node -> Node \cup {Nil}]
  OBVIOUS
<1>3. Appended1(q, b) \in Lists
  <2>1. [q.next EXCEPT ![q.prev[FakeTail]] = b, ![b] = FakeTail] \in [Node -> Node \cup {Nil}]
    BY <1>1
  <2>2. [q.prev EXCEPT ![b] = q.prev[FakeTail], ![FakeTail] = b] \in [Node -> Node \cup {Nil}]
    BY <1>1
  <2> QED BY <1>1, <2>1, <2>2 DEF Appended1, Lists
<1>4. ASSUME Removable(q, b) PROVE Removed(q, b) \in Lists
  <2> DEFINE u == [q.next EXCEPT ![q.prev[b]] = q.next[b]]
  <2>1. u \in [Node -> Node \cup {Nil}] /\ q.prev[b] \in Node \cup {Nil}
    BY <1>1
  <2> HIDE DEF u
  <2>2. [u EXCEPT ![b] = Nil] \in [Node -> Node \cup {Nil}]
    BY <2>1
  <2>3. [q.prev EXCEPT ![u[b]] = q.prev[b], ![b] = Nil] \in [Node -> Node \cup {Nil}]
    BY <1>1, <2>1
  <2> QED BY <1>1, <2>2, <2>3 DEF Removed, Lists, u
<1>5. ASSUME b = FirstFree(q) PROVE PoppedLeft(q) \in Lists
  <2> DEFINE after == q.next[b]
  <2>1. after \in Node \cup {Nil}
    BY <1>1
  <2> HIDE DEF after
  <2>2. [q.next EXCEPT ![FakeHead] = after, ![b] = Nil] \in [Node -> Node \cup {Nil}]
    BY <1>1, <2>1
  <2>3. [v \in Node |-> CASE v = b -> Nil
                          [] v = after /\ v # b -> FakeHead
                          [] OTHER -> q.prev[v]] \in [Node -> Node \cup {Nil}]
    BY <1>1, <2>1
  <2> QED BY <1>1, <1>5, <2>2, <2>3 DEF PoppedLeft, Lists, after
<1> QED BY <1>3, <1>4, <1>5

\* What Applied does, operation by operation.
LEMMA AppliedIs ==
    \A p, b : /\ Applied("touch", p, b) = Touched(p, b)
              /\ Applied("reference", p, b) = Referenced(p, b)
              /\ Applied("release", p, b) = Released(p, b)
              /\ Applied("free", p, b) = Freed(p, b)
BY DEF Applied

LEMMA AppliedTypes == \A op \in Ops : \A p \in Pools, b \in Block : Applied(op, p, b) \in Pools
<1> SUFFICES ASSUME NEW p \in Pools, NEW b \in Block
             PROVE  /\ Touched(p, b) \in Pools
                    /\ Referenced(p, b) \in Pools
                    /\ Released(p, b) \in Pools
                    /\ Freed(p, b) \in Pools
  BY AppliedIs DEF Ops
<1>1. p.list \in Lists /\ p.ref \in [Block -> Int] /\ p.allocated \in SUBSET Block
  BY PoolParts
<1>2. /\ p.ref[b] \in Int
      /\ [p.ref EXCEPT ![b] = @ + 1] \in [Block -> Int] /\ [p.ref EXCEPT ![b] = @ - 1] \in [Block -> Int]
      /\ p.allocated \cup {b} \in SUBSET Block /\ p.allocated \ {b} \in SUBSET Block
  BY <1>1
<1>3. Appended1(p.list, b) \in Lists /\ (Removable(p.list, b) => Removed(p.list, b) \in Lists)
  BY <1>1, ListsClosed
<1>4. Touched(p, b) \in Pools
  BY <1>1, <1>2, <1>3 DEF Touched, Pools
<1>5. Referenced(p, b) \in Pools
  BY <1>1, <1>2, <1>3 DEF Referenced, Pools
<1>6. Released(p, b) \in Pools
  BY <1>1, <1>2, <1>3 DEF Released, Pools
<1>7. Freed(p, b) \in Pools
  BY <1>1, <1>2, <1>3 DEF Freed, Pools
<1> QED BY <1>4, <1>5, <1>6, <1>7

-----------------------------------------------------------------------------
(* One operation for each block of a table                                  *)

\* A[n] is the pool after the first n blocks of ids.
Runs(A, op, p, ids) ==
    /\ A[0] = p
    /\ \A n \in 1..Len(ids) : A[n] = Applied(op, A[n - 1], ids[n])
    /\ \A n \in 0..Len(ids) : A[n] \in Pools
    /\ Each(op, p, ids) = A[Len(ids)]

LEMMA EachRuns ==
    ASSUME NEW op \in Ops, NEW p \in Pools, NEW ids \in Seq(Block)
    PROVE  \E A : Runs(A, op, p, ids)
<1> DEFINE n == Len(ids)
           R(F) == F = [k \in 0..Len(ids) |-> IF k = 0 THEN p ELSE Applied(op, F[k - 1], ids[k])]
           C == CHOOSE F : R(F)
           D == (1..n) \X Pools
           G == [x \in D |-> Applied(op, x[2], ids[x[1]])]
           J == [k \in 0..n |-> Pools]
<1>1. Each(op, p, ids) = C[Len(ids)]
  BY Zenon DEF Each
<1>2. n \in Nat /\ \A i \in 1..n : ids[i] \in Block
  BY ElementOfSeq
<1>3. \A i \in 1..n : \A w \in Pools : G[<<i, w>>] = Applied(op, w, ids[i])
  OBVIOUS
<1>4. \A i \in 1..n : \A w \in J[i - 1] : G[<<i, w>>] \in J[i]
  <2>1. \A i \in 1..n : i \in 0..n /\ i - 1 \in 0..n
    BY <1>2
  <2>2. \A i \in 1..n : J[i - 1] = Pools /\ J[i] = Pools
    BY <2>1
  <2>3. \A i \in 1..n : \A w \in Pools : Applied(op, w, ids[i]) \in Pools
    BY <1>2, AppliedTypes
  <2> HIDE DEF J, G, n
  <2> QED BY <1>3, <2>2, <2>3, ZenonT(30)
<1>5. J[0] = Pools /\ \A i \in 0..n : J[i] = Pools
  BY <1>2
<1> HIDE DEF J, G, D
<1>6. PICK F : Solves(F, p, G, n) /\ \A i \in 0..n : F[i] \in J[i]
  BY <1>2, <1>4, <1>5, Recursion
<1>7. \A i \in 0..n : i # 0 => i \in 1..n /\ i - 1 \in 0..n
  BY <1>2
<1>8. \A i \in 0..n : F[i] = IF i = 0 THEN p ELSE Applied(op, F[i - 1], ids[i])
  <2>1. \A i \in 0..n : F[i] = IF i = 0 THEN p ELSE G[<<i, F[i - 1]>>]
    BY <1>6 DEF Solves
  <2>2. \A i \in 0..n : F[i] \in Pools
    BY <1>5, <1>6
  <2> HIDE DEF n
  <2> QED BY <1>3, <1>7, <2>1, <2>2
<1>9. R(F)
  <2>1. F = [k \in 0..n |-> F[k]]
    BY <1>6 DEF Solves
  <2> QED BY <1>8, <2>1
<1>10. R(C)
  BY <1>9, Zenon
<1> HIDE DEF C
<1>11. C[0] = p /\ \A i \in 1..n : C[i] = Applied(op, C[i - 1], ids[i])
  BY <1>2, <1>10
<1>12. \A i \in 0..n : C[i] \in Pools
  <2> DEFINE K == {i \in 0..n : C[i] \in Pools}
  <2>1. 0 \in K
    BY <1>2, <1>11
  <2>2. ASSUME NEW i \in 1..n, i - 1 \in K PROVE i \in K
    <3>1. C[i - 1] \in Pools /\ i \in 0..n
      BY <2>2
    <3> QED BY <1>2, <1>11, <3>1, AppliedTypes
  <2> HIDE DEF K
  <2>3. \A i \in 0..n : i \in K
    BY <1>2, <2>1, <2>2, UpTo
  <2> QED BY <2>3 DEF K
<1> QED BY <1>1, <1>11, <1>12 DEF Runs

LEMMA EachTypes ==
    \A op \in Ops : \A p \in Pools, ids \in Seq(Block) : Each(op, p, ids) \in Pools
<1> TAKE op \in Ops
<1> TAKE p \in Pools, ids \in Seq(Block)
<1>1. PICK A : Runs(A, op, p, ids)
  BY EachRuns
<1>2. Len(ids) \in 0..Len(ids)
  BY LenProperties
<1> QED BY <1>1, <1>2 DEF Runs

-----------------------------------------------------------------------------
(* The pool as it should be                                                 *)

\* The list holds the blocks without a reference, no count is negative, and a
\* block with a reference is in allocated_blocks.
Exact(p) ==
    /\ p \in Pools
    /\ Holding(p.list, {b \in Block : p.ref[b] = 0})
    /\ \A b \in Block : p.ref[b] >= 0 /\ (p.ref[b] > 0 => b \in p.allocated)

\* The next reference, and the last one given up.
LEMMA FreeChanges ==
    ASSUME NEW p \in Pools, NEW b \in Block, NEW n \in Int
    PROVE  LET f == [p.ref EXCEPT ![b] = n]
               S == {c \in Block : p.ref[c] = 0}
           IN  /\ n # 0 => {c \in Block : f[c] = 0} = S \ {b}
               /\ n = 0 => {c \in Block : f[c] = 0} = S \cup {b}
               /\ f \in [Block -> Int] /\ f[b] = n /\ \A c \in Block : c # b => f[c] = p.ref[c]
<1>1. p.ref \in [Block -> Int]
  BY PoolParts
<1> QED BY <1>1

\* touch, and increment_ref of an allocated block, count one more.
LEMMA TakesReference ==
    ASSUME NEW op \in {"touch", "reference"}, NEW p, Exact(p), NEW b \in Block,
           op = "reference" => b \in p.allocated
    PROVE  LET q == Applied(op, p, b)
           IN  /\ Exact(q)
               /\ q.ref = [p.ref EXCEPT ![b] = p.ref[b] + 1]
               /\ op = "reference" => q.allocated = p.allocated
<1> DEFINE q == Applied(op, p, b)
           S == {c \in Block : p.ref[c] = 0}
           f == [p.ref EXCEPT ![b] = p.ref[b] + 1]
<1>1. p \in Pools /\ Holding(p.list, S) /\ p.ref \in [Block -> Int]
  BY PoolParts DEF Exact
<1>2. /\ p.ref[b] \in Int /\ p.ref[b] >= 0 /\ p.ref[b] + 1 # 0 /\ p.ref[b] + 1 \in Int
      /\ (p.ref[b] > 0 => b \in p.allocated) /\ (p.ref[b] = 0 \/ p.ref[b] > 0)
  BY <1>1 DEF Exact
<1>3. /\ {c \in Block : f[c] = 0} = S \ {b}
      /\ f \in [Block -> Int] /\ f[b] = p.ref[b] + 1 /\ \A c \in Block : c # b => f[c] = p.ref[c]
  BY <1>1, <1>2, FreeChanges
<1>4. Removable(p.list, b) <=> b \in S
  BY <1>1, HoldTells
<1>5. b \in S <=> p.ref[b] = 0
  OBVIOUS
<1> DEFINE L == IF p.ref[b] = 0 THEN Removed(p.list, b) ELSE p.list
           M == IF p.ref[b] = 0 THEN p.allocated \cup {b} ELSE p.allocated
<1>6. q = [list |-> L, ref |-> f, allocated |-> IF op = "touch" THEN M ELSE p.allocated]
  <2>1. CASE op = "touch"
    BY <1>4, <1>5, <2>1, AppliedIs DEF Touched
  <2>2. CASE op = "reference"
    <3>1. p = [list |-> p.list, ref |-> p.ref, allocated |-> p.allocated]
      BY <1>1 DEF Pools
    <3>2. q = Referenced(p, b) /\ b \in p.allocated
      BY <2>2, AppliedIs
    <3> QED BY <1>4, <1>5, <2>2, <3>1, <3>2 DEF Referenced
  <2> QED BY <2>1, <2>2
<1>7. Holding(L, S \ {b})
  <2>1. CASE p.ref[b] = 0
    BY <1>1, <1>5, <2>1, HoldRemove
  <2>2. CASE p.ref[b] # 0
    <3>1. S \ {b} = S
      BY <2>2
    <3> QED BY <1>1, <2>2, <3>1
  <2> QED BY <2>1, <2>2
<1> HIDE DEF L, S
<1>8. q.list = L /\ q.ref = f /\ q.allocated = IF op = "touch" THEN M ELSE p.allocated
  BY <1>6
<1>9. q \in Pools
  BY <1>1, AppliedTypes DEF Ops
<1>10. ASSUME NEW c \in Block
       PROVE  q.ref[c] >= 0 /\ (q.ref[c] > 0 => c \in q.allocated)
  <2>1. CASE c = b
    <3>1. b \in q.allocated
      BY <1>2, <1>8
    <3> QED BY <1>2, <1>3, <1>8, <2>1, <3>1
  <2>2. CASE c # b
    <3>1. q.ref[c] = p.ref[c] /\ (c \in p.allocated => c \in q.allocated)
      BY <1>3, <1>8, <2>2
    <3>2. p.ref[c] >= 0 /\ (p.ref[c] > 0 => c \in p.allocated)
      BY DEF Exact
    <3> QED BY <3>1, <3>2
  <2> QED BY <2>1, <2>2
<1>11. Exact(q)
  <2> HIDE DEF q, f
  <2> QED BY <1>3, <1>7, <1>8, <1>9, <1>10 DEF Exact
<1> QED BY <1>8, <1>11

Taken(op, p, q, b) ==
    /\ Exact(q)
    /\ q.ref = [p.ref EXCEPT ![b] = p.ref[b] + 1]
    /\ op = "reference" => q.allocated = p.allocated

\* The same as a formula.
LEMMA ReferenceTaken ==
    \A op \in {"touch", "reference"} : \A p : \A b \in Block :
        Exact(p) /\ (op = "reference" => b \in p.allocated) => Taken(op, p, Applied(op, p, b), b)
BY TakesReference DEF Taken

\* release_request_refs and free_block count one less.
LEMMA GivesReference ==
    ASSUME NEW op \in {"release", "free"}, NEW p, Exact(p), NEW b \in Block, p.ref[b] > 0
    PROVE  LET q == Applied(op, p, b)
           IN  /\ Exact(q)
               /\ q.ref = [p.ref EXCEPT ![b] = p.ref[b] - 1]
<1> DEFINE q == Applied(op, p, b)
           S == {c \in Block : p.ref[c] = 0}
           f == [p.ref EXCEPT ![b] = p.ref[b] - 1]
<1>1. p \in Pools /\ Holding(p.list, S) /\ p.ref \in [Block -> Int]
  BY PoolParts DEF Exact
<1>2. /\ p.ref[b] \in Int /\ p.ref[b] - 1 \in Int /\ b \in p.allocated
      /\ ~ p.ref[b] <= 0 /\ (p.ref[b] = 1 \/ p.ref[b] > 1) /\ b \notin S
  BY <1>1 DEF Exact
<1>3. /\ p.ref[b] # 1 => {c \in Block : f[c] = 0} = S
      /\ p.ref[b] = 1 => {c \in Block : f[c] = 0} = S \cup {b}
      /\ f \in [Block -> Int] /\ f[b] = p.ref[b] - 1 /\ \A c \in Block : c # b => f[c] = p.ref[c]
  <2>1. /\ p.ref[b] - 1 # 0 => {c \in Block : f[c] = 0} = S \ {b}
        /\ p.ref[b] - 1 = 0 => {c \in Block : f[c] = 0} = S \cup {b}
        /\ f \in [Block -> Int] /\ f[b] = p.ref[b] - 1 /\ \A c \in Block : c # b => f[c] = p.ref[c]
    BY <1>1, <1>2, FreeChanges
  <2>2. S \ {b} = S /\ (p.ref[b] # 1 <=> p.ref[b] - 1 # 0)
    BY <1>2
  <2> HIDE DEF S, f
  <2> QED BY <2>1, <2>2
<1>4. ~ Linked(p.list, b)
  BY <1>1, <1>2, HoldTells
<1>5. p = [list |-> p.list, ref |-> p.ref, allocated |-> p.allocated]
  BY <1>1 DEF Pools
<1> DEFINE L == IF p.ref[b] = 1 THEN Appended1(p.list, b) ELSE p.list
<1>6. /\ q.list = L /\ q.ref = f
      /\ \A c \in Block : c \in p.allocated /\ c # b => c \in q.allocated
      /\ p.ref[b] > 1 => q.allocated = p.allocated
  <2>1. CASE op = "release"
    <3>1. q = [p EXCEPT !.list = L, !.ref[b] = @ - 1]
      BY <1>2, <1>4, <2>1, AppliedIs DEF Released
    <3> QED BY <1>5, <3>1
  <2>2. CASE op = "free"
    <3>1. q = Freed(p, b)
      BY <2>2, AppliedIs
    <3>2. CASE p.ref[b] = 1
      <4>1. q = [list |-> Appended1(p.list, b), ref |-> [p.ref EXCEPT ![b] = @ - 1], allocated |-> p.allocated \ {b}]
        BY <1>2, <3>1, <3>2 DEF Freed
      <4> QED BY <3>2, <4>1
    <3>3. CASE p.ref[b] > 1
      <4>1. q = [p EXCEPT !.ref[b] = @ - 1]
        BY <1>2, <3>1, <3>3 DEF Freed
      <4>2. p.ref[b] # 1
        BY <3>3
      <4> QED BY <1>5, <4>1, <4>2
    <3> QED BY <1>2, <3>2, <3>3
  <2> QED BY <2>1, <2>2
<1>7. Holding(L, {c \in Block : f[c] = 0})
  <2>1. CASE p.ref[b] = 1
    <3>1. b \in Block \ S
      BY <1>2
    <3>2. Holding(Appended1(p.list, b), S \cup {b})
      BY <1>1, <3>1, HoldAppend
    <3> QED BY <1>3, <2>1, <3>2
  <2>2. CASE p.ref[b] # 1
    BY <1>1, <1>3, <2>2
  <2> QED BY <2>1, <2>2
<1>8. q \in Pools
  BY <1>1, AppliedTypes DEF Ops
<1> HIDE DEF L, q
<1>9. ASSUME NEW c \in Block
      PROVE  q.ref[c] >= 0 /\ (q.ref[c] > 0 => c \in q.allocated)
  <2>0. p.ref[c] >= 0 /\ (p.ref[c] > 0 => c \in p.allocated)
    BY DEF Exact
  <2>1. CASE c = b
    <3>1. q.ref[c] = p.ref[b] - 1
      BY <1>3, <1>6, <2>1
    <3>2. p.ref[b] > 1 => c \in q.allocated
      BY <1>2, <1>6, <2>1
    <3> QED BY <1>2, <3>1, <3>2
  <2>2. CASE c # b
    <3>1. q.ref[c] = p.ref[c] /\ (c \in p.allocated => c \in q.allocated)
      BY <1>3, <1>6, <2>2
    <3> QED BY <2>0, <3>1
  <2> QED BY <2>1, <2>2
<1>10. Exact(q)
  <2> HIDE DEF f
  <2> QED BY <1>6, <1>7, <1>8, <1>9 DEF Exact
<1> QED BY <1>6, <1>10 DEF q

\* A whole table: each block has as many references more as the table names it.
More(p, q, ids) == \A b \in Block : q.ref[b] = p.ref[b] + Occ(ids, b)

LEMMA EachTakes ==
    \A op \in {"touch", "reference"} : \A p, ids :
        Exact(p) /\ ids \in Seq(Block) /\ (op = "reference" => ToSet(ids) \subseteq p.allocated)
            => Exact(Each(op, p, ids)) /\ More(p, Each(op, p, ids), ids)
<1> SUFFICES ASSUME NEW op \in {"touch", "reference"}, NEW p, Exact(p), NEW ids \in Seq(Block),
                    op = "reference" => ToSet(ids) \subseteq p.allocated
             PROVE  Exact(Each(op, p, ids)) /\ More(p, Each(op, p, ids), ids)
  OBVIOUS
<1> DEFINE n == Len(ids)
<1>1. p \in Pools /\ p.ref \in [Block -> Int] /\ op \in Ops
  BY PoolParts DEF Exact, Ops
<1>2. PICK A : Runs(A, op, p, ids)
  BY <1>1, EachRuns
<1>3. n \in Nat /\ (\A i \in 1..n : ids[i] \in Block) /\ DOMAIN ids = 1..n
  BY ElementOfSeq, LenProperties
<1> DEFINE Ok(i) == /\ Exact(A[i])
                    /\ \A b \in Block : A[i].ref[b] = p.ref[b] + Occurs(ids, i, b)
                    /\ op = "reference" => A[i].allocated = p.allocated
           K == {i \in 0..n : Ok(i)}
<1>4. 0 \in K
  <2>1. A[0] = p
    BY <1>2 DEF Runs
  <2>2. \A b \in Block : p.ref[b] = p.ref[b] + Occurs(ids, 0, b)
    BY <1>1, OccursNone
  <2> HIDE DEF n
  <2> QED BY <1>3, <2>1, <2>2
<1>5. ASSUME NEW i \in 1..n, i - 1 \in K PROVE i \in K
  <2> DEFINE b == ids[i]
             P == A[i - 1]
             Q == A[i]
  <2>1. Exact(P) /\ (\A c \in Block : P.ref[c] = p.ref[c] + Occurs(ids, i - 1, c)) /\ (op = "reference" => P.allocated = p.allocated)
    BY <1>5
  <2>2. Q = Applied(op, P, b) /\ i \in Nat \ {0} /\ i - 1 \in Nat /\ i \in 0..n
    BY <1>2, <1>3 DEF Runs
  <2>3. b \in Block /\ (op = "reference" => b \in p.allocated)
    BY <1>3 DEF ToSet
  <2>4. P.ref \in [Block -> Int]
    BY <2>1, PoolParts DEF Exact
  <2> HIDE DEF P, Q, b
  <2>5. /\ Exact(Q) /\ Q.ref = [P.ref EXCEPT ![b] = P.ref[b] + 1]
        /\ op = "reference" => Q.allocated = P.allocated
    <3>1. Exact(P) /\ b \in Block /\ (op = "reference" => b \in P.allocated)
      BY <2>1, <2>3
    <3>2. Taken(op, P, Applied(op, P, b), b)
      BY <3>1, ReferenceTaken, Zenon
    <3> QED BY <2>2, <3>2 DEF Taken
  <2>6. ASSUME NEW c \in Block
        PROVE  Q.ref[c] = p.ref[c] + Occurs(ids, i, c)
    <3>1. Occurs(ids, i, c) = Occurs(ids, i - 1, c) + IF b = c THEN 1 ELSE 0
      BY <2>2, OccursNext DEF OneMore, b
    <3>2. Q.ref[c] = IF b = c THEN P.ref[c] + 1 ELSE P.ref[c]
      BY <2>3, <2>4, <2>5
    <3>3. P.ref[c] = p.ref[c] + Occurs(ids, i - 1, c)
      BY <2>1
    <3>4. p.ref[c] \in Int /\ Occurs(ids, i - 1, c) \in Nat
      BY <1>1, <2>2, OccursNat
    <3> QED BY <3>1, <3>2, <3>3, <3>4
  <2> QED BY <2>1, <2>2, <2>5, <2>6 DEF Q
<1> HIDE DEF K
<1>6. \A i \in 0..n : i \in K
  BY <1>3, <1>4, <1>5, UpTo
<1>7. Ok(n)
  BY <1>3, <1>6 DEF K
<1>8. Each(op, p, ids) = A[n]
  BY <1>2 DEF Runs
<1> QED BY <1>7, <1>8 DEF More, Occ

LEMMA EachGives ==
    \A op \in {"release", "free"} : \A p, ids :
        Exact(p) /\ ids \in Seq(Block) /\ (\A b \in Block : Occ(ids, b) <= p.ref[b])
            => Exact(Each(op, p, ids)) /\ More(Each(op, p, ids), p, ids)
<1> SUFFICES ASSUME NEW op \in {"release", "free"}, NEW p, Exact(p), NEW ids \in Seq(Block),
                    \A b \in Block : Occ(ids, b) <= p.ref[b]
             PROVE  Exact(Each(op, p, ids)) /\ More(Each(op, p, ids), p, ids)
  OBVIOUS
<1> DEFINE n == Len(ids)
<1>1. p \in Pools /\ p.ref \in [Block -> Int] /\ op \in Ops
  BY PoolParts DEF Exact, Ops
<1>2. PICK A : Runs(A, op, p, ids)
  BY <1>1, EachRuns
<1>3. n \in Nat /\ (\A i \in 1..n : ids[i] \in Block) /\ DOMAIN ids = 1..n
  BY ElementOfSeq, LenProperties
<1> DEFINE Ok(i) == /\ Exact(A[i])
                    /\ \A b \in Block : A[i].ref[b] = p.ref[b] - Occurs(ids, i, b)
           K == {i \in 0..n : Ok(i)}
<1>4. 0 \in K
  <2>1. A[0] = p
    BY <1>2 DEF Runs
  <2>2. \A b \in Block : p.ref[b] = p.ref[b] - Occurs(ids, 0, b)
    BY <1>1, OccursNone
  <2> HIDE DEF n
  <2> QED BY <1>3, <2>1, <2>2
<1>5. ASSUME NEW i \in 1..n, i - 1 \in K PROVE i \in K
  <2> DEFINE b == ids[i]
             P == A[i - 1]
             Q == A[i]
  <2>1. Exact(P) /\ (\A c \in Block : P.ref[c] = p.ref[c] - Occurs(ids, i - 1, c))
    BY <1>5
  <2>2. Q = Applied(op, P, b) /\ i \in Nat \ {0} /\ i - 1 \in Nat /\ i \in 0..n /\ i <= n
    BY <1>2, <1>3 DEF Runs
  <2>3. b \in Block
    BY <1>3
  <2>4. P.ref \in [Block -> Int]
    BY <2>1, PoolParts DEF Exact
  <2>5. \A c \in Block : Occurs(ids, i, c) = Occurs(ids, i - 1, c) + IF b = c THEN 1 ELSE 0
    BY <2>2, OccursNext DEF OneMore, b
  <2>6. \A c \in Block : p.ref[c] \in Int /\ Occurs(ids, i - 1, c) \in Nat
    BY <1>1, <2>2, OccursNat
  <2>7. P.ref[b] > 0
    <3>1. Occurs(ids, i, b) <= Occ(ids, b) /\ Occ(ids, b) <= p.ref[b] /\ Occ(ids, b) \in Nat
      BY <1>3, <2>2, <2>3, OccursGrows, OccNat DEF Occ
    <3> HIDE DEF b, P
    <3>2. Occurs(ids, i, b) = Occurs(ids, i - 1, b) + 1
      BY <2>3, <2>5
    <3> QED BY <2>1, <2>3, <2>6, <3>1, <3>2
  <2> HIDE DEF P, Q, b
  <2>8. Exact(Q) /\ Q.ref = [P.ref EXCEPT ![b] = P.ref[b] - 1]
    BY <2>1, <2>2, <2>3, <2>7, GivesReference
  <2>9. ASSUME NEW c \in Block
        PROVE  Q.ref[c] = p.ref[c] - Occurs(ids, i, c)
    <3>1. Q.ref[c] = IF b = c THEN P.ref[c] - 1 ELSE P.ref[c]
      BY <2>3, <2>4, <2>8
    <3>2. Occurs(ids, i, c) = Occurs(ids, i - 1, c) + IF b = c THEN 1 ELSE 0
      BY <2>5
    <3>3. P.ref[c] = p.ref[c] - Occurs(ids, i - 1, c)
      BY <2>1
    <3>4. p.ref[c] \in Int /\ Occurs(ids, i - 1, c) \in Nat
      BY <2>6
    <3> QED BY <3>1, <3>2, <3>3, <3>4
  <2> QED BY <2>2, <2>8, <2>9 DEF Q
<1> HIDE DEF K
<1>6. \A i \in 0..n : i \in K
  BY <1>3, <1>4, <1>5, UpTo
<1>7. Ok(n)
  BY <1>3, <1>6 DEF K
<1>8. Each(op, p, ids) = A[n]
  BY <1>2 DEF Runs
<1>9. \A b \in Block : p.ref[b] = Each(op, p, ids).ref[b] + Occ(ids, b)
  <2>1. \A b \in Block : p.ref[b] \in Int /\ Occ(ids, b) \in Nat /\ A[n].ref[b] = p.ref[b] - Occ(ids, b)
    BY <1>1, <1>7, OccNat DEF Occ
  <2> QED BY <1>8, <2>1
<1> QED BY <1>7, <1>8, <1>9 DEF More

-----------------------------------------------------------------------------
(* The pool after releases that give a reference back twice                 *)

\* What is left of Exact then: a block outside allocated_blocks has no
\* reference and both pointers, so that the next reference puts it in.
Sound(p) ==
    /\ p \in Pools
    /\ p.list.prev[FakeTail] # Nil
    /\ \A b \in Block : b \notin p.allocated => p.ref[b] <= 0 /\ Removable(p.list, b)

\* The pointers that an operation leaves.
LEMMA PointersKept ==
    ASSUME NEW q \in Lists, NEW b \in Block, q.prev[FakeTail] # Nil
    PROVE  /\ /\ Appended1(q, b).prev[FakeTail] # Nil
              /\ Removable(Appended1(q, b), b)
              /\ \A c \in Block : Removable(q, c) => Removable(Appended1(q, b), c)
           /\ Removable(q, b) =>
                  /\ Removed(q, b).prev[FakeTail] # Nil
                  /\ \A c \in Block \ {b} : Removable(q, c) => Removable(Removed(q, b), c)
           /\ b = FirstFree(q) =>
                  /\ PoppedLeft(q).prev[FakeTail] # Nil
                  /\ \A c \in Block \ {b} : Removable(q, c) => Removable(PoppedLeft(q), c)
<1>1. /\ q.next \in [Node -> Node \cup {Nil}] /\ q.prev \in [Node -> Node \cup {Nil}]
      /\ FakeHead \in Node /\ FakeTail \in Node /\ b \in Node /\ Block \subseteq Node
      /\ Nil \notin Node /\ b # Nil /\ FakeTail # Nil /\ FakeHead # Nil
      /\ FakeTail \notin Block /\ FakeHead \notin Block /\ FakeHead # FakeTail
  BY ListTypes, BlockListAssumption
<1>2. /\ Appended1(q, b).prev[FakeTail] # Nil
      /\ Removable(Appended1(q, b), b)
      /\ \A c \in Block : Removable(q, c) => Removable(Appended1(q, b), c)
  <2> DEFINE last == q.prev[FakeTail]
             N == [q.next EXCEPT ![last] = b, ![b] = FakeTail]
             P == [q.prev EXCEPT ![b] = last, ![FakeTail] = b]
  <2>1. last \in Node /\ last # Nil
    BY <1>1
  <2>2. P[FakeTail] = b /\ P[b] = last /\ N[b] = FakeTail
    BY <1>1, <2>1
  <2>3. \A c \in Block : q.next[c] # Nil => N[c] # Nil
    BY <1>1, <2>1
  <2>4. \A c \in Block : q.prev[c] # Nil => P[c] # Nil
    BY <1>1, <2>1
  <2>5. Appended1(q, b).next = N /\ Appended1(q, b).prev = P
    BY DEF Appended1
  <2> HIDE DEF N, P, last
  <2> QED BY <1>1, <2>1, <2>2, <2>3, <2>4, <2>5 DEF Removable
<1>3. ASSUME Removable(q, b)
      PROVE  /\ Removed(q, b).prev[FakeTail] # Nil
             /\ \A c \in Block \ {b} : Removable(q, c) => Removable(Removed(q, b), c)
  <2> DEFINE U == [q.next EXCEPT ![q.prev[b]] = q.next[b]]
             N == [U EXCEPT ![b] = Nil]
             P == [q.prev EXCEPT ![U[b]] = q.prev[b], ![b] = Nil]
  <2>1. q.prev[b] # Nil /\ q.next[b] # Nil /\ q.prev[b] \in Node /\ q.next[b] \in Node
    BY <1>1, <1>3 DEF Removable
  <2>2. U \in [Node -> Node \cup {Nil}] /\ \A c \in Node : q.next[c] # Nil => U[c] # Nil
    BY <1>1, <2>1
  <2>3. Removed(q, b).next = N /\ Removed(q, b).prev = P
    BY DEF Removed
  <2> HIDE DEF U
  <2>4. \A c \in Block \ {b} : q.next[c] # Nil => N[c] # Nil
    BY <1>1, <2>2
  <2>5. \A c \in Node \ {b} : q.prev[c] # Nil => P[c] # Nil
    BY <1>1, <2>1
  <2> HIDE DEF N, P
  <2>6. FakeTail \in Node \ {b} /\ Block \ {b} \subseteq Node \ {b}
    BY <1>1
  <2> QED BY <2>3, <2>4, <2>5, <2>6 DEF Removable
<1>4. ASSUME b = FirstFree(q)
      PROVE  /\ PoppedLeft(q).prev[FakeTail] # Nil
             /\ \A c \in Block \ {b} : Removable(q, c) => Removable(PoppedLeft(q), c)
  <2> DEFINE after == q.next[b]
             N == [q.next EXCEPT ![FakeHead] = after, ![b] = Nil]
             P == [v \in Node |-> CASE v = b -> Nil
                                    [] v = after /\ v # b -> FakeHead
                                    [] OTHER -> q.prev[v]]
  <2>1. PoppedLeft(q).next = N /\ PoppedLeft(q).prev = P
    BY <1>4 DEF PoppedLeft
  <2> HIDE DEF after
  <2>2. \A c \in Block \ {b} : q.next[c] # Nil => N[c] # Nil
    BY <1>1
  <2>3. \A c \in Node \ {b} : q.prev[c] # Nil => P[c] # Nil
    BY <1>1
  <2> HIDE DEF N, P
  <2>4. FakeTail \in Node \ {b} /\ Block \ {b} \subseteq Node \ {b}
    BY <1>1
  <2> QED BY <2>1, <2>2, <2>3, <2>4 DEF Removable
<1> QED BY <1>2, <1>3, <1>4

\* A reference more, at most; a reference less, or none.
AtMostOneMore(p, q, b) ==
    q.ref[b] <= p.ref[b] + 1 /\ \A c \in Block : c # b => q.ref[c] = p.ref[c]
OneLessOrNone(p, q, b) ==
    /\ q.ref[b] <= p.ref[b] /\ (q.ref[b] <= p.ref[b] - 1 \/ q.ref[b] <= 0)
    /\ \A c \in Block : c # b => q.ref[c] = p.ref[c]

LEMMA SoundParts ==
    ASSUME NEW p, Sound(p), NEW b \in Block
    PROVE  /\ p \in Pools /\ p.list \in Lists /\ p.ref \in [Block -> Int]
           /\ p = [list |-> p.list, ref |-> p.ref, allocated |-> p.allocated]
           /\ p.ref[b] \in Int
           /\ Appended1(p.list, b).prev[FakeTail] # Nil
           /\ Removable(Appended1(p.list, b), b)
           /\ \A c \in Block : Removable(p.list, c) => Removable(Appended1(p.list, b), c)
           /\ Removable(p.list, b) =>
                  /\ Removed(p.list, b).prev[FakeTail] # Nil
                  /\ \A c \in Block \ {b} : Removable(p.list, c) => Removable(Removed(p.list, b), c)
<1>1. p \in Pools /\ p.list \in Lists /\ p.ref \in [Block -> Int] /\ p.list.prev[FakeTail] # Nil
  BY PoolParts DEF Sound
<1>2. p = [list |-> p.list, ref |-> p.ref, allocated |-> p.allocated]
  BY <1>1 DEF Pools
<1> QED BY <1>1, <1>2, PointersKept

LEMMA SoundTouched ==
    ASSUME NEW p, Sound(p), NEW b \in Block
    PROVE  Sound(Touched(p, b)) /\ AtMostOneMore(p, Touched(p, b), b)
<1> DEFINE q == Touched(p, b)
<1>1. /\ p.ref \in [Block -> Int] /\ p.ref[b] \in Int /\ p \in Pools
      /\ Removable(p.list, b) =>
            /\ Removed(p.list, b).prev[FakeTail] # Nil
            /\ \A c \in Block \ {b} : Removable(p.list, c) => Removable(Removed(p.list, b), c)
  BY SoundParts
<1>2. /\ p.list.prev[FakeTail] # Nil
      /\ \A c \in Block : c \notin p.allocated => p.ref[c] <= 0 /\ Removable(p.list, c)
  BY DEF Sound
<1>3. q \in Pools
  BY <1>1, AppliedTypes, AppliedIs DEF Ops
<1>4. q.ref = [p.ref EXCEPT ![b] = p.ref[b] + 1]
  BY DEF Touched
<1>5. CASE p.ref[b] = 0 /\ Removable(p.list, b)
  <2>1. q.list = Removed(p.list, b) /\ q.allocated = p.allocated \cup {b}
    BY <1>5 DEF Touched
  <2> HIDE DEF q
  <2>2. Sound(q)
    BY <1>1, <1>2, <1>3, <1>4, <1>5, <2>1 DEF Sound
  <2> QED BY <1>1, <1>4, <2>2 DEF AtMostOneMore, q
<1>6. CASE ~ (p.ref[b] = 0 /\ Removable(p.list, b))
  <2>1. q.list = p.list /\ q.allocated = p.allocated
    BY <1>6 DEF Touched
  <2>2. b \notin p.allocated => p.ref[b] + 1 <= 0
    BY <1>1, <1>2, <1>6
  <2> HIDE DEF q
  <2>3. Sound(q)
    BY <1>1, <1>2, <1>3, <1>4, <2>1, <2>2 DEF Sound
  <2> QED BY <1>1, <1>4, <2>3 DEF AtMostOneMore, q
<1> QED BY <1>5, <1>6

LEMMA SoundReferenced ==
    ASSUME NEW p, Sound(p), NEW b \in Block
    PROVE  Sound(Referenced(p, b)) /\ AtMostOneMore(p, Referenced(p, b), b)
<1> DEFINE q == Referenced(p, b)
<1>1. /\ p.ref \in [Block -> Int] /\ p.ref[b] \in Int /\ p \in Pools
      /\ p = [list |-> p.list, ref |-> p.ref, allocated |-> p.allocated]
      /\ Removable(p.list, b) =>
            /\ Removed(p.list, b).prev[FakeTail] # Nil
            /\ \A c \in Block \ {b} : Removable(p.list, c) => Removable(Removed(p.list, b), c)
  BY SoundParts
<1>2. /\ p.list.prev[FakeTail] # Nil
      /\ \A c \in Block : c \notin p.allocated => p.ref[c] <= 0 /\ Removable(p.list, c)
  BY DEF Sound
<1>3. q \in Pools
  BY <1>1, AppliedTypes, AppliedIs DEF Ops
<1>4. CASE b \notin p.allocated
  <2>1. q = p
    BY <1>4 DEF Referenced
  <2> QED BY <1>1, <2>1 DEF AtMostOneMore
<1>5. CASE b \in p.allocated
  <2> DEFINE L == IF p.ref[b] = 0 /\ Removable(p.list, b) THEN Removed(p.list, b) ELSE p.list
  <2>1. q.list = L /\ q.ref = [p.ref EXCEPT ![b] = p.ref[b] + 1] /\ q.allocated = p.allocated
    BY <1>1, <1>5 DEF Referenced
  <2>2. L.prev[FakeTail] # Nil /\ \A c \in Block \ {b} : Removable(p.list, c) => Removable(L, c)
    BY <1>1, <1>2
  <2> HIDE DEF q, L
  <2>3. Sound(q)
    BY <1>1, <1>2, <1>3, <1>5, <2>1, <2>2 DEF Sound
  <2> QED BY <1>1, <2>1, <2>3 DEF AtMostOneMore, q
<1> QED BY <1>4, <1>5

LEMMA SoundReleased ==
    ASSUME NEW p, Sound(p), NEW b \in Block
    PROVE  Sound(Released(p, b)) /\ OneLessOrNone(p, Released(p, b), b)
<1> DEFINE q == Released(p, b)
<1>1. /\ p.ref \in [Block -> Int] /\ p.ref[b] \in Int /\ p \in Pools
      /\ p = [list |-> p.list, ref |-> p.ref, allocated |-> p.allocated]
      /\ Appended1(p.list, b).prev[FakeTail] # Nil
      /\ \A c \in Block : Removable(p.list, c) => Removable(Appended1(p.list, b), c)
  BY SoundParts
<1>2. /\ p.list.prev[FakeTail] # Nil
      /\ \A c \in Block : c \notin p.allocated => p.ref[c] <= 0 /\ Removable(p.list, c)
  BY DEF Sound
<1>3. q \in Pools
  BY <1>1, AppliedTypes, AppliedIs DEF Ops
<1>4. CASE b \notin p.allocated \/ p.ref[b] <= 0
  <2>1. q = p
    BY <1>4 DEF Released
  <2>2. p.ref[b] <= 0
    BY <1>2, <1>4
  <2> QED BY <1>1, <2>1, <2>2 DEF OneLessOrNone
<1>5. CASE ~ (b \notin p.allocated \/ p.ref[b] <= 0)
  <2> DEFINE L == IF p.ref[b] = 1 /\ ~ Linked(p.list, b) THEN Appended1(p.list, b) ELSE p.list
  <2>1. q.list = L /\ q.ref = [p.ref EXCEPT ![b] = p.ref[b] - 1] /\ q.allocated = p.allocated
    BY <1>1, <1>5 DEF Released
  <2>2. L.prev[FakeTail] # Nil /\ \A c \in Block : Removable(p.list, c) => Removable(L, c)
    BY <1>1, <1>2
  <2> HIDE DEF q, L
  <2>3. Sound(q)
    BY <1>1, <1>2, <1>3, <1>5, <2>1, <2>2 DEF Sound
  <2> QED BY <1>1, <2>1, <2>3 DEF OneLessOrNone, q
<1> QED BY <1>4, <1>5

LEMMA SoundFreed ==
    ASSUME NEW p, Sound(p), NEW b \in Block
    PROVE  Sound(Freed(p, b)) /\ OneLessOrNone(p, Freed(p, b), b)
<1> DEFINE q == Freed(p, b)
<1>1. /\ p.ref \in [Block -> Int] /\ p.ref[b] \in Int /\ p \in Pools
      /\ p = [list |-> p.list, ref |-> p.ref, allocated |-> p.allocated]
      /\ Appended1(p.list, b).prev[FakeTail] # Nil
      /\ Removable(Appended1(p.list, b), b)
      /\ \A c \in Block : Removable(p.list, c) => Removable(Appended1(p.list, b), c)
  BY SoundParts
<1>2. /\ p.list.prev[FakeTail] # Nil
      /\ \A c \in Block : c \notin p.allocated => p.ref[c] <= 0 /\ Removable(p.list, c)
  BY DEF Sound
<1>3. q \in Pools
  BY <1>1, AppliedTypes, AppliedIs DEF Ops
<1>4. CASE b \notin p.allocated
  <2>1. q = p
    BY <1>4 DEF Freed
  <2>2. p.ref[b] <= 0
    BY <1>2, <1>4
  <2> QED BY <1>1, <2>1, <2>2 DEF OneLessOrNone
<1>5. CASE b \in p.allocated /\ p.ref[b] > 1
  <2>1. q.list = p.list /\ q.ref = [p.ref EXCEPT ![b] = p.ref[b] - 1] /\ q.allocated = p.allocated
    BY <1>1, <1>5 DEF Freed
  <2> HIDE DEF q
  <2>2. Sound(q)
    BY <1>1, <1>2, <1>3, <1>5, <2>1 DEF Sound
  <2> QED BY <1>1, <2>1, <2>2 DEF OneLessOrNone, q
<1>6. CASE b \in p.allocated /\ ~ p.ref[b] > 1
  <2>1. /\ q.list = Appended1(p.list, b) /\ q.ref = [p.ref EXCEPT ![b] = p.ref[b] - 1]
        /\ q.allocated = p.allocated \ {b}
    BY <1>6 DEF Freed
  <2> HIDE DEF q
  <2>2. q.ref[b] <= 0 /\ \A c \in Block : c # b => q.ref[c] = p.ref[c]
    BY <1>1, <1>6, <2>1
  <2>3. Sound(q)
    BY <1>1, <1>2, <1>3, <2>1, <2>2 DEF Sound
  <2> QED BY <1>1, <2>1, <2>3 DEF OneLessOrNone, q
<1> QED BY <1>4, <1>5, <1>6

LEMMA SoundTakes ==
    \A op \in {"touch", "reference"} : \A p : \A b \in Block :
        Sound(p) => Sound(Applied(op, p, b)) /\ AtMostOneMore(p, Applied(op, p, b), b)
BY SoundTouched, SoundReferenced, AppliedIs

LEMMA SoundGives ==
    \A op \in {"release", "free"} : \A p : \A b \in Block :
        Sound(p) => Sound(Applied(op, p, b)) /\ OneLessOrNone(p, Applied(op, p, b), b)
BY SoundReleased, SoundFreed, AppliedIs

\* A whole table.
AtMostMore(p, q, ids) == \A b \in Block : q.ref[b] <= p.ref[b] + Occ(ids, b)
LessOrNone(p, q, ids) ==
    \A b \in Block : q.ref[b] <= p.ref[b] /\ (q.ref[b] <= p.ref[b] - Occ(ids, b) \/ q.ref[b] <= 0)

LEMMA EachSoundTakes ==
    \A op \in {"touch", "reference"} : \A p : \A ids \in Seq(Block) :
        Sound(p) => Sound(Each(op, p, ids)) /\ AtMostMore(p, Each(op, p, ids), ids)
<1> SUFFICES ASSUME NEW op \in {"touch", "reference"}, NEW p, Sound(p), NEW ids \in Seq(Block)
             PROVE  Sound(Each(op, p, ids)) /\ AtMostMore(p, Each(op, p, ids), ids)
  OBVIOUS
<1> DEFINE n == Len(ids)
<1>1. p \in Pools /\ p.ref \in [Block -> Int] /\ op \in Ops
  BY PoolParts DEF Sound, Ops
<1>2. PICK A : Runs(A, op, p, ids)
  BY <1>1, EachRuns
<1>3. n \in Nat /\ (\A i \in 1..n : ids[i] \in Block)
  BY ElementOfSeq, LenProperties
<1> DEFINE Ok(i) == Sound(A[i]) /\ \A b \in Block : A[i].ref[b] <= p.ref[b] + Occurs(ids, i, b)
           K == {i \in 0..n : Ok(i)}
<1>4. 0 \in K
  <2>1. A[0] = p
    BY <1>2 DEF Runs
  <2>2. \A b \in Block : p.ref[b] <= p.ref[b] + Occurs(ids, 0, b)
    BY <1>1, OccursNone
  <2> HIDE DEF n
  <2> QED BY <1>3, <2>1, <2>2
<1>5. ASSUME NEW i \in 1..n, i - 1 \in K PROVE i \in K
  <2> DEFINE b == ids[i]
             P == A[i - 1]
             Q == A[i]
  <2>1. Sound(P) /\ (\A c \in Block : P.ref[c] <= p.ref[c] + Occurs(ids, i - 1, c))
    BY <1>5
  <2>2. Q = Applied(op, P, b) /\ i \in Nat \ {0} /\ i - 1 \in Nat /\ i \in 0..n /\ b \in Block
    BY <1>2, <1>3 DEF Runs
  <2> HIDE DEF P, Q, b
  <2>3. Sound(Q) /\ AtMostOneMore(P, Q, b)
    BY <2>1, <2>2, SoundTakes
  <2>4. P.ref \in [Block -> Int] /\ Q.ref \in [Block -> Int]
    BY <2>1, <2>3, PoolParts DEF Sound
  <2>5. ASSUME NEW c \in Block
        PROVE  Q.ref[c] <= p.ref[c] + Occurs(ids, i, c)
    <3>1. Occurs(ids, i, c) = Occurs(ids, i - 1, c) + IF b = c THEN 1 ELSE 0
      BY <2>2, OccursNext DEF OneMore, b
    <3>2. IF b = c THEN Q.ref[c] <= P.ref[c] + 1 ELSE Q.ref[c] = P.ref[c]
      BY <2>3 DEF AtMostOneMore
    <3>3. P.ref[c] <= p.ref[c] + Occurs(ids, i - 1, c)
      BY <2>1
    <3>4. p.ref[c] \in Int /\ Occurs(ids, i - 1, c) \in Nat /\ P.ref[c] \in Int /\ Q.ref[c] \in Int
      BY <1>1, <2>2, <2>4, OccursNat
    <3> DEFINE u == p.ref[c]
               v == P.ref[c]
               w == Q.ref[c]
               m == Occurs(ids, i - 1, c)
               k == Occurs(ids, i, c)
               e == IF b = c THEN 1 ELSE 0
    <3>5. e \in Nat /\ k = m + e /\ w <= v + e
      BY <3>1, <3>2, <3>4
    <3>6. v <= u + m /\ u \in Int /\ v \in Int /\ w \in Int /\ m \in Nat
      BY <3>3, <3>4
    <3> HIDE DEF u, v, w, m, k, e
    <3>7. w <= u + k
      BY <3>5, <3>6
    <3> QED BY <3>7 DEF u, w, k
  <2> QED BY <2>2, <2>3, <2>5 DEF Q
<1> HIDE DEF K
<1>6. \A i \in 0..n : i \in K
  BY <1>3, <1>4, <1>5, UpTo
<1>7. Ok(n)
  BY <1>3, <1>6 DEF K
<1>8. Each(op, p, ids) = A[n]
  BY <1>2 DEF Runs
<1> QED BY <1>7, <1>8 DEF AtMostMore, Occ

LEMMA EachSoundGives ==
    \A op \in {"release", "free"} : \A p : \A ids \in Seq(Block) :
        Sound(p) => Sound(Each(op, p, ids)) /\ LessOrNone(p, Each(op, p, ids), ids)
<1> SUFFICES ASSUME NEW op \in {"release", "free"}, NEW p, Sound(p), NEW ids \in Seq(Block)
             PROVE  Sound(Each(op, p, ids)) /\ LessOrNone(p, Each(op, p, ids), ids)
  OBVIOUS
<1> DEFINE n == Len(ids)
<1>1. p \in Pools /\ p.ref \in [Block -> Int] /\ op \in Ops
  BY PoolParts DEF Sound, Ops
<1>2. PICK A : Runs(A, op, p, ids)
  BY <1>1, EachRuns
<1>3. n \in Nat /\ (\A i \in 1..n : ids[i] \in Block)
  BY ElementOfSeq, LenProperties
<1> DEFINE Ok(i) == /\ Sound(A[i])
                    /\ \A b \in Block : /\ A[i].ref[b] <= p.ref[b]
                                        /\ A[i].ref[b] <= p.ref[b] - Occurs(ids, i, b) \/ A[i].ref[b] <= 0
           K == {i \in 0..n : Ok(i)}
<1>4. 0 \in K
  <2>1. A[0] = p
    BY <1>2 DEF Runs
  <2>2. \A b \in Block : p.ref[b] <= p.ref[b] /\ p.ref[b] <= p.ref[b] - Occurs(ids, 0, b)
    BY <1>1, OccursNone
  <2> HIDE DEF n
  <2> QED BY <1>3, <2>1, <2>2
<1>5. ASSUME NEW i \in 1..n, i - 1 \in K PROVE i \in K
  <2> DEFINE b == ids[i]
             P == A[i - 1]
             Q == A[i]
  <2>1. /\ Sound(P)
        /\ \A c \in Block : /\ P.ref[c] <= p.ref[c]
                            /\ P.ref[c] <= p.ref[c] - Occurs(ids, i - 1, c) \/ P.ref[c] <= 0
    BY <1>5
  <2>2. Q = Applied(op, P, b) /\ i \in Nat \ {0} /\ i - 1 \in Nat /\ i \in 0..n /\ b \in Block
    BY <1>2, <1>3 DEF Runs
  <2> HIDE DEF P, Q, b
  <2>3. Sound(Q) /\ OneLessOrNone(P, Q, b)
    BY <2>1, <2>2, SoundGives
  <2>4. P.ref \in [Block -> Int] /\ Q.ref \in [Block -> Int]
    BY <2>1, <2>3, PoolParts DEF Sound
  <2>5. ASSUME NEW c \in Block
        PROVE  Q.ref[c] <= p.ref[c] /\ (Q.ref[c] <= p.ref[c] - Occurs(ids, i, c) \/ Q.ref[c] <= 0)
    <3>1. Occurs(ids, i, c) = Occurs(ids, i - 1, c) + IF b = c THEN 1 ELSE 0
      BY <2>2, OccursNext DEF OneMore, b
    <3>2. IF b = c THEN Q.ref[c] <= P.ref[c] /\ (Q.ref[c] <= P.ref[c] - 1 \/ Q.ref[c] <= 0) ELSE Q.ref[c] = P.ref[c]
      BY <2>3 DEF OneLessOrNone
    <3>3. P.ref[c] <= p.ref[c] /\ (P.ref[c] <= p.ref[c] - Occurs(ids, i - 1, c) \/ P.ref[c] <= 0)
      BY <2>1
    <3>4. p.ref[c] \in Int /\ Occurs(ids, i - 1, c) \in Nat /\ P.ref[c] \in Int /\ Q.ref[c] \in Int
      BY <1>1, <2>2, <2>4, OccursNat
    <3> DEFINE u == p.ref[c]
               v == P.ref[c]
               w == Q.ref[c]
               m == Occurs(ids, i - 1, c)
               k == Occurs(ids, i, c)
               e == IF b = c THEN 1 ELSE 0
    <3>5. e \in Nat /\ k = m + e /\ v - 1 <= v /\ (w <= v - e \/ w <= 0) /\ w <= v
      BY <3>1, <3>2, <3>4
    <3>6. v <= u /\ (v <= u - m \/ v <= 0) /\ u \in Int /\ v \in Int /\ w \in Int /\ m \in Nat
      BY <3>3, <3>4
    <3> HIDE DEF u, v, w, m, k, e
    <3>7. w <= u /\ (w <= u - k \/ w <= 0)
      BY <3>5, <3>6
    <3> QED BY <3>7 DEF u, w, k
  <2> QED BY <2>2, <2>3, <2>5 DEF Q
<1> HIDE DEF K
<1>6. \A i \in 0..n : i \in K
  BY <1>3, <1>4, <1>5, UpTo
<1>7. Ok(n)
  BY <1>3, <1>6 DEF K
<1>8. Each(op, p, ids) = A[n]
  BY <1>2 DEF Runs
<1> QED BY <1>7, <1>8 DEF LessOrNone, Occ

-----------------------------------------------------------------------------
(* The references that the tables account for                               *)

Tables == [ids : Seq(Block), tokens : Nat]
AllTables == [Request -> Tables \cup {NoTable}]

IdsOf(x) == IF x = NoTable THEN <<>> ELSE x.ids
Marks(r, s, b) == {<<r, i>> : i \in {j \in DOMAIN s : s[j] = b}}
Spots(T, R, b) == UNION {Marks(r, IdsOf(T[r]), b) : r \in R}
Count(T, b) == Cardinality(Spots(T, Request, b))

LEMMA UsesIs ==
    /\ \A b : Uses(b) = Count(tables, b)
    /\ \A b : Uses(b)' = Count(tables', b)
BY DEF Uses, Ids, Count, Spots, Marks, IdsOf

LEMMA IdsType == \A x \in Tables \cup {NoTable} : IdsOf(x) \in Seq(Block)
BY DEF IdsOf, Tables

LEMMA MarksCount ==
    ASSUME NEW r, NEW s \in Seq(Block), NEW b
    PROVE  IsFiniteSet(Marks(r, s, b)) /\ Cardinality(Marks(r, s, b)) = Occ(s, b)
<1> DEFINE S == {j \in 1..Len(s) : s[j] = b}
           f == [i \in S |-> <<r, i>>]
<1>1. DOMAIN s = 1..Len(s) /\ Len(s) \in Nat
  BY LenProperties
<1>2. IsFiniteSet(S)
  <2>1. IsFiniteSet(1..Len(s))
    BY <1>1, FS_Interval
  <2> QED BY <2>1, FS_Subset
<1>3. Marks(r, s, b) = {<<r, i>> : i \in S}
  BY <1>1 DEF Marks
<1> HIDE DEF S
<1>4. f \in Bijection(S, Marks(r, s, b))
  <2>1. f \in [S -> Marks(r, s, b)]
    BY <1>3
  <2>2. \A i, j \in S : f[i] = f[j] => i = j
    OBVIOUS
  <2>3. \A x \in Marks(r, s, b) : \E i \in S : f[i] = x
    BY <1>3
  <2> QED BY <2>1, <2>2, <2>3 DEF Bijection, Injection, Surjection, IsInjective
<1>5. ExistsBijection(S, Marks(r, s, b))
  BY <1>4 DEF ExistsBijection
<1>6. IsFiniteSet(Marks(r, s, b)) /\ Cardinality(Marks(r, s, b)) = Cardinality(S)
  BY <1>2, <1>5, FS_Bijection
<1> QED BY <1>6 DEF Occ, Occurs, S

LEMMA SpotsFinite ==
    ASSUME NEW T \in AllTables, NEW R \in SUBSET Request, NEW b
    PROVE  IsFiniteSet(Spots(T, R, b))
<1> DEFINE U == {Marks(r, IdsOf(T[r]), b) : r \in R}
           f == [r \in R |-> Marks(r, IdsOf(T[r]), b)]
<1>1. IsFiniteSet(R)
  BY PrefixCacheAssumption, FS_Subset
<1>2. f \in Surjection(R, U)
  BY DEF Surjection
<1>3. IsFiniteSet(U)
  <2> HIDE DEF f, U
  <2> QED BY <1>1, <1>2, FS_Surjection
<1>4. \A r \in R : IsFiniteSet(Marks(r, IdsOf(T[r]), b))
  <2> TAKE r \in R
  <2>1. IdsOf(T[r]) \in Seq(Block)
    BY IdsType DEF AllTables
  <2> QED BY <2>1, MarksCount
<1>5. \A V \in U : IsFiniteSet(V)
  BY <1>4
<1> HIDE DEF U
<1>6. IsFiniteSet(UNION U)
  BY <1>3, <1>5, FS_UNION
<1> QED BY <1>6 DEF Spots, U

LEMMA CountNat == \A T \in AllTables : \A b : Count(T, b) \in Nat
BY SpotsFinite, FS_CardinalityType DEF Count

\* The places of the other requests, and those of r.
LEMMA CountSplit ==
    ASSUME NEW T \in AllTables, NEW r \in Request, NEW b
    PROVE  /\ Cardinality(Spots(T, Request \ {r}, b)) \in Nat
           /\ Count(T, b) = Cardinality(Spots(T, Request \ {r}, b)) + Occ(IdsOf(T[r]), b)
<1> DEFINE V == Spots(T, Request \ {r}, b)
           M == Marks(r, IdsOf(T[r]), b)
<1>1. IdsOf(T[r]) \in Seq(Block)
  BY IdsType DEF AllTables
<1>2. IsFiniteSet(V) /\ Cardinality(V) \in Nat
  <2>1. Request \ {r} \in SUBSET Request
    OBVIOUS
  <2> QED BY <2>1, SpotsFinite, FS_CardinalityType
<1>3. IsFiniteSet(M) /\ Cardinality(M) = Occ(IdsOf(T[r]), b) /\ Cardinality(M) \in Nat
  BY <1>1, MarksCount, FS_CardinalityType
<1>4. Spots(T, Request, b) = V \cup M
  BY DEF Spots
<1>5. V \cap M = {}
  BY DEF Spots, Marks
<1> HIDE DEF V, M
<1>6. Cardinality(V \cup M) = Cardinality(V) + Cardinality(M) - Cardinality(V \cap M)
  BY <1>2, <1>3, FS_Union
<1>7. Cardinality(V \cap M) = 0
  BY <1>5, FS_EmptySet
<1>8. Count(T, b) = Cardinality(V) + Occ(IdsOf(T[r]), b)
  BY <1>2, <1>3, <1>4, <1>6, <1>7 DEF Count
<1> QED BY <1>2, <1>8 DEF V

\* Another table of r changes the count by what r's tables name.
Recounts(T, r, x, b) ==
    /\ Count(T, b) \in Nat /\ Occ(IdsOf(T[r]), b) \in Nat /\ Occ(IdsOf(x), b) \in Nat
    /\ Occ(IdsOf(T[r]), b) <= Count(T, b)
    /\ Count([T EXCEPT ![r] = x], b) = Count(T, b) - Occ(IdsOf(T[r]), b) + Occ(IdsOf(x), b)

LEMMA CountUpdate ==
    \A T \in AllTables, r \in Request, x \in Tables \cup {NoTable} : \A b : Recounts(T, r, x, b)
<1> TAKE T \in AllTables, r \in Request, x \in Tables \cup {NoTable}
<1> TAKE b
<1> DEFINE U == [T EXCEPT ![r] = x]
<1>1. U \in AllTables /\ U[r] = x /\ \A q \in Request \ {r} : U[q] = T[q]
  BY DEF AllTables
<1> HIDE DEF U
<1>2. Spots(U, Request \ {r}, b) = Spots(T, Request \ {r}, b)
  BY <1>1 DEF Spots
<1>3. /\ Cardinality(Spots(T, Request \ {r}, b)) \in Nat
      /\ Count(T, b) = Cardinality(Spots(T, Request \ {r}, b)) + Occ(IdsOf(T[r]), b)
      /\ Count(U, b) = Cardinality(Spots(U, Request \ {r}, b)) + Occ(IdsOf(U[r]), b)
  BY <1>1, CountSplit
<1>4. Occ(IdsOf(T[r]), b) \in Nat /\ Occ(IdsOf(x), b) \in Nat
  <2>1. IdsOf(T[r]) \in Seq(Block) /\ IdsOf(x) \in Seq(Block)
    BY IdsType DEF AllTables
  <2> QED BY <2>1, OccNat
<1>5. Count(T, b) \in Nat
  BY CountNat
<1>6. Count(U, b) = Count(T, b) - Occ(IdsOf(T[r]), b) + Occ(IdsOf(x), b) /\ Occ(IdsOf(T[r]), b) <= Count(T, b)
  BY <1>1, <1>2, <1>3, <1>4
<1> QED BY <1>4, <1>5, <1>6 DEF Recounts, U

\* No table, no reference.
LEMMA CountNone == \A b : Count([r \in Request |-> NoTable], b) = 0
<1> TAKE b
<1> DEFINE T == [r \in Request |-> NoTable]
<1>1. \A r \in Request : Marks(r, IdsOf(T[r]), b) = {}
  BY DEF IdsOf, Marks
<1> HIDE DEF T
<1>2. Spots(T, Request, b) = {}
  BY <1>1 DEF Spots
<1> QED BY <1>2, FS_EmptySet DEF Count, T

-----------------------------------------------------------------------------
(* Lookups                                                                  *)

Chains == Seq(Seq(Token))
Data == [upto : Seq(Token), size : Nat]
Contents == [hash : Chains \cup {NoHash}, count : Nat, data : Data]
MapOK(m) == DOMAIN m \subseteq Chains /\ \A h \in DOMAIN m : m[h] \in Seq(Block) /\ m[h] # <<>>
IndexOK(x) == DOMAIN x \subseteq Seq(Token) /\ \A s \in DOMAIN x : x[s] \in Seq(Block)

\* A part of a text.
LEMMA PartOfText ==
    \A t \in Seq(Token) : \A m, n \in Nat :
        m # 0 /\ n <= Len(t) => SubSeq(t, m, n) \in Seq(Token) /\ Len(SubSeq(t, m, n)) \in Nat
<1> TAKE t \in Seq(Token)
<1> TAKE m, n \in Nat
<1> HAVE m # 0 /\ n <= Len(t)
<1>1. Len(t) \in Nat /\ \A i \in 1..Len(t) : t[i] \in Token
  BY ElementOfSeq, LenProperties
<1>2. \A i \in m..n : i \in 1..Len(t)
  BY <1>1
<1>3. \A i \in m..n : t[i] \in Token
  BY <1>1, <1>2
<1>4. SubSeq(t, m, n) \in Seq(Token)
  BY <1>3, SubSeqProperties
<1> QED BY <1>4, LenProperties

LEMMA UnderType ==
    ASSUME MapOK(hashMap)
    PROVE  \A h : Under(h) \in Seq(Block) /\ (Under(h) # <<>> => Head(Under(h)) \in Block)
<1> TAKE h
<1>1. Under(h) \in Seq(Block)
  BY DEF Under, MapOK
<1>2. Under(h) # <<>> => Head(Under(h)) \in Block
  <2> DEFINE s == Under(h)
  <2>1. s \in Seq(Block) /\ (s # <<>> => Head(s) \in Block)
    <3> HIDE DEF s
    <3>1. s \in Seq(Block)
      BY <1>1 DEF s
    <3> QED BY <3>1
  <2> QED BY <2>1
<1> QED BY <1>1, <1>2

\* A lookup finds blocks.
LEMMA HitsType ==
    ASSUME MapOK(hashMap), partialSizes \in SUBSET Nat, NEW t \in Seq(Token)
    PROVE  Hits(t) \in Seq(Block)
<1> DEFINE full == Len(t) \div BlockSize
           E(k) == /\ \A j \in 1..k : Under(Chain(t, j)) # <<>>
                   /\ k = full \/ Under(Chain(t, k + 1)) = <<>>
           n == CHOOSE k \in 0..full : E(k)
           rest == SubSeq(t, n * BlockSize + 1, Len(t))
           part(k) == Append(Chain(t, n), SubSeq(rest, 1, k))
           found == {k \in partialSizes \cup {Len(rest)} : k <= Len(rest) /\ Under(part(k)) # <<>>}
           sizes == IF rest # <<>> /\ Len(rest) < BlockSize THEN found ELSE {}
           hits == [j \in 1..n |-> Head(Under(Chain(t, j)))]
           longest == CHOOSE k \in sizes : \A j \in sizes : j <= k
<1>1. Hits(t) = IF sizes = {} THEN hits ELSE Append(hits, Head(Under(part(longest))))
  BY DEF Hits
<1>2. Len(t) \in Nat /\ BlockSize \in Nat /\ BlockSize # 0 /\ full \in Nat
  BY PrefixCacheAssumption, LenProperties
<1>3. n \in 0..full /\ E(n)
  <2> DEFINE T == {k \in 0..full : k = full \/ Under(Chain(t, k + 1)) = <<>>}
  <2>1. T \in SUBSET Nat /\ full \in T
    BY <1>2
  <2>2. PICK m \in T : \A k \in T : m <= k
    BY <2>1, Least
  <2>3. m \in 0..full /\ (m = full \/ Under(Chain(t, m + 1)) = <<>>)
    OBVIOUS
  <2> HIDE DEF full
  <2>4. ASSUME NEW j \in 1..m PROVE Under(Chain(t, j)) # <<>>
    <3>1. j - 1 \in 0..full /\ ~ m <= j - 1 /\ j - 1 # full /\ (j - 1) + 1 = j
      BY <1>2, <2>3
    <3>2. j - 1 \notin T
      BY <2>2, <3>1
    <3> QED BY <3>1, <3>2
  <2>5. E(m)
    BY <2>3, <2>4
  <2> HIDE DEF E, T
  <2> QED BY <2>3, <2>5
<1> HIDE DEF n
<1>4. n \in Nat /\ \A j \in 1..n : Under(Chain(t, j)) # <<>>
  BY <1>2, <1>3
<1>5. hits \in Seq(Block)
  <2>1. \A j \in 1..n : Head(Under(Chain(t, j))) \in Block
    BY <1>4, UnderType
  <2>2. hits \in [1..n -> Block]
    BY <2>1
  <2> HIDE DEF hits
  <2> QED BY <1>4, <2>2, SeqDef
<1>6. ASSUME sizes # {} PROVE Under(part(longest)) # <<>>
  <2>1. Len(rest) \in Nat
    <3>1. n * BlockSize + 1 \in Nat /\ n * BlockSize + 1 # 0
      BY <1>2, <1>4
    <3> QED BY <1>2, <3>1, PartOfText
  <2> HIDE DEF rest, part
  <2>a. \A k \in found : k \in Nat /\ k <= Len(rest) /\ Under(part(k)) # <<>>
    BY <2>1
  <2> HIDE DEF found
  <2>b. sizes \subseteq found
    OBVIOUS
  <2>2. sizes \in SUBSET (0..Len(rest)) /\ \A k \in sizes : Under(part(k)) # <<>>
    BY <2>1, <2>a, <2>b
  <2> HIDE DEF sizes
  <2>3. \E k \in sizes : \A j \in sizes : j <= k
    BY <1>6, <2>1, <2>2, Greatest
  <2>4. longest \in sizes
    BY <2>3
  <2> HIDE DEF longest, part
  <2> QED BY <2>2, <2>4
<1> HIDE DEF hits, sizes, longest, part
<1>7. CASE sizes = {}
  BY <1>1, <1>5, <1>7
<1>8. CASE sizes # {}
  <2>1. Head(Under(part(longest))) \in Block
    BY <1>6, <1>8, UnderType
  <2> QED BY <1>1, <1>5, <1>8, <2>1, AppendProperties
<1> QED BY <1>7, <1>8

LEMMA TokensInType ==
    ASSUME block \in [Block -> Contents], NEW ids \in Seq(Block)
    PROVE  TokensIn(ids) \in Nat
<1> DEFINE n == Len(ids)
           R(F) == F = [i \in 0..Len(ids) |-> IF i = 0 THEN 0 ELSE F[i - 1] + block[ids[i]].count]
           C == CHOOSE F : R(F)
           G == [x \in (1..n) \X Nat |-> x[2] + block[ids[x[1]]].count]
           J == [i \in 0..n |-> Nat]
<1>1. TokensIn(ids) = C[Len(ids)]
  BY Zenon DEF TokensIn
<1>2. n \in Nat /\ \A i \in 1..n : block[ids[i]].count \in Nat
  BY ElementOfSeq, LenProperties DEF Contents
<1>3. \A i \in 1..n : \A w \in Nat : G[<<i, w>>] = w + block[ids[i]].count
  OBVIOUS
<1>4. J[0] = Nat /\ \A i \in 0..n : J[i] = Nat
  BY <1>2
<1>5. \A i \in 1..n : i \in 0..n /\ i - 1 \in 0..n
  BY <1>2
<1> HIDE DEF J, G
<1>6. \A i \in 1..n : \A w \in J[i - 1] : G[<<i, w>>] \in J[i]
  <2>1. \A i \in 1..n : J[i - 1] = Nat /\ J[i] = Nat
    BY <1>4, <1>5
  <2>2. \A i \in 1..n : \A w \in Nat : w + block[ids[i]].count \in Nat
    BY <1>2
  <2> HIDE DEF n
  <2>3. \A i \in 1..n : \A w \in Nat : G[<<i, w>>] \in Nat
    BY <1>3, <2>2, Zenon
  <2> QED BY <2>1, <2>3, Zenon
<1>7. PICK F : Solves(F, 0, G, n) /\ \A i \in 0..n : F[i] \in J[i]
  BY <1>2, <1>4, <1>6, Recursion
<1>8. \A i \in 0..n : F[i] = IF i = 0 THEN 0 ELSE F[i - 1] + block[ids[i]].count
  <2>1. \A i \in 0..n : F[i] = IF i = 0 THEN 0 ELSE G[<<i, F[i - 1]>>]
    BY <1>7 DEF Solves
  <2>2. \A i \in 0..n : F[i] \in Nat
    BY <1>4, <1>7
  <2>3. \A i \in 0..n : i # 0 => i \in 1..n /\ i - 1 \in 0..n
    BY <1>2
  <2> HIDE DEF n
  <2> QED BY <1>3, <2>1, <2>2, <2>3
<1>9. R(F)
  <2>1. F = [k \in 0..n |-> F[k]]
    BY <1>7 DEF Solves
  <2> QED BY <1>8, <2>1
<1>10. R(C)
  BY <1>9, Zenon
<1> HIDE DEF C
<1>11. C[0] = 0 /\ \A i \in 1..n : C[i] = C[i - 1] + block[ids[i]].count
  BY <1>2, <1>10
<1> DEFINE K == {i \in 0..n : C[i] \in Nat}
<1>12. 0 \in K
  BY <1>2, <1>11
<1>13. ASSUME NEW i \in 1..n, i - 1 \in K PROVE i \in K
  <2>1. C[i - 1] \in Nat /\ i \in 0..n
    BY <1>13
  <2> QED BY <1>2, <1>11, <2>1
<1> HIDE DEF K
<1>14. \A i \in 0..n : i \in K
  BY <1>2, <1>12, <1>13, UpTo
<1>15. C[n] \in Nat
  BY <1>2, <1>14 DEF K
<1> QED BY <1>1, <1>15

\* The best match is a text in the index.
LEMMA BestMatchType ==
    ASSUME IndexOK(index), NEW t \in Seq(Token)
    PROVE  /\ Len(BestMatch(t)) \in Nat
           /\ BestMatch(t) # <<>> => BestMatch(t) \in DOMAIN index /\ index[BestMatch(t)] \in Seq(Block)
<1> DEFINE M == {s \in DOMAIN index : s # <<>> /\ IsPrefix(s, t)}
           T == {Len(s) : s \in M}
           c == CHOOSE s \in M : \A u \in M : Len(u) <= Len(s)
<1>1. BestMatch(t) = IF M = {} THEN <<>> ELSE c
  BY DEF BestMatch
<1>2. CASE M = {}
  <2>1. Len(<<>>) = 0
    OBVIOUS
  <2> QED BY <1>1, <1>2, <2>1
<1>3. CASE M # {}
  <2>1. \A s \in M : s \in Seq(Token) /\ Len(s) \in Nat /\ Len(s) <= Len(t)
    BY LenProperties DEF IndexOK, IsPrefix
  <2>2. Len(t) \in Nat
    BY LenProperties
  <2> HIDE DEF M
  <2>3. T \in SUBSET (0..Len(t)) /\ T # {}
    BY <1>3, <2>1, <2>2
  <2>4. PICK m \in T : \A k \in T : k <= m
    BY <2>2, <2>3, Greatest
  <2>5. PICK s \in M : Len(s) = m
    OBVIOUS
  <2>6. \A u \in M : Len(u) <= Len(s)
    BY <2>4, <2>5
  <2>7. c \in M
    BY <2>6
  <2>8. BestMatch(t) = c
    BY <1>1, <1>3
  <2> HIDE DEF c
  <2>9. c \in DOMAIN index /\ index[c] \in Seq(Block)
    BY <2>7 DEF M, IndexOK
  <2> QED BY <2>1, <2>7, <2>8, <2>9
<1> QED BY <1>2, <1>3

-----------------------------------------------------------------------------
(* The loop of store_cache: types                                           *)

Maps == UNION {[D -> Seq(Block) \ {<<>>}] : D \in SUBSET Chains}
Ends == {"no", "full", "raised"}
LoopRecord == [pool : Pools, block : [Block -> Contents], map : Maps, partial : SUBSET (1..(BlockSize - 1)),
               parent : Chains, table : Tables, end : Ends, existing : Nat, begin : Nat]
Loop == {w \in LoopRecord : w.begin <= w.existing /\ w.existing <= w.table.tokens}

LEMMA MapsAre ==
    /\ \A m \in Maps : MapOK(m)
    /\ \A D \in SUBSET Chains : \A m \in [D -> Seq(Block) \ {<<>>}] : m \in Maps
BY DEF Maps, MapOK

\* pop takes a block out of the entries of one hash, and the hash with the
\* last of them; insert puts one behind them.
PoppedAs(m, h, b, p) ==
    /\ p \in Maps /\ DOMAIN p \subseteq DOMAIN m
    /\ \A g \in DOMAIN p : p[g] = IF g = h THEN Among(m[h], Block \ {b}) ELSE m[g]
InsertedAs(m, h, b, p) ==
    /\ p \in Maps /\ DOMAIN p = DOMAIN m \cup {h}
    /\ \A g \in DOMAIN p : p[g] = IF g # h THEN m[g]
                                   ELSE IF h \in DOMAIN m THEN Append(m[h], b) ELSE <<b>>

LEMMA PoppedIs == \A m \in Maps : \A h, b : PoppedAs(m, h, b, Popped(m, h, b))
<1> TAKE m \in Maps
<1> TAKE h, b
<1> DEFINE left == IF h \in DOMAIN m THEN Among(m[h], Block \ {b}) ELSE <<>>
           D == {f \in DOMAIN m : f # h \/ left # <<>>}
           p == [g \in D |-> IF g = h THEN left ELSE m[g]]
<1>1. Popped(m, h, b) = p
  BY DEF Popped
<1>2. MapOK(m)
  BY MapsAre
<1>3. h \in DOMAIN m => left \in Seq(Block)
  BY <1>2, AmongType DEF MapOK
<1>4. \A g \in D : p[g] \in Seq(Block) \ {<<>>}
  <2> HIDE DEF left
  <2> QED BY <1>2, <1>3 DEF MapOK
<1>5. D \in SUBSET Chains
  BY <1>2 DEF MapOK
<1>6. p \in [D -> Seq(Block) \ {<<>>}]
  <2>1. p = [g \in D |-> p[g]]
    OBVIOUS
  <2> HIDE DEF p, D
  <2> QED BY <1>4, <2>1
<1>7. p \in Maps
  BY <1>5, <1>6, MapsAre
<1>8. DOMAIN p \subseteq DOMAIN m /\ \A g \in DOMAIN p : p[g] = IF g = h THEN Among(m[h], Block \ {b}) ELSE m[g]
  OBVIOUS
<1> HIDE DEF p
<1>9. PoppedAs(m, h, b, p)
  BY <1>7, <1>8 DEF PoppedAs
<1> QED BY <1>1, <1>9

LEMMA InsertedIs == \A m \in Maps, h \in Chains, b \in Block : InsertedAs(m, h, b, Inserted(m, h, b))
<1> TAKE m \in Maps, h \in Chains, b \in Block
<1> DEFINE D == DOMAIN m \cup {h}
           p == [g \in D |-> IF g # h THEN m[g] ELSE IF h \in DOMAIN m THEN Append(m[h], b) ELSE <<b>>]
<1>1. Inserted(m, h, b) = p
  BY DEF Inserted
<1>2. MapOK(m)
  BY MapsAre
<1>3. h \in DOMAIN m => Append(m[h], b) \in Seq(Block) /\ Append(m[h], b) # <<>>
  <2>1. \A s \in Seq(Block) : Append(s, b) \in Seq(Block) /\ Append(s, b) # <<>>
    <3> TAKE s \in Seq(Block)
    <3>1. Append(s, b) \in Seq(Block) /\ Len(s) \in Nat /\ Len(Append(s, b)) = Len(s) + 1
      BY AppendFacts
    <3>2. Len(<<>>) = 0
      OBVIOUS
    <3> QED BY <3>1, <3>2
  <2> QED BY <1>2, <2>1 DEF MapOK
<1>4. <<b>> \in Seq(Block) /\ <<b>> # <<>>
  OBVIOUS
<1>5. \A g \in D : p[g] \in Seq(Block) \ {<<>>}
  BY <1>2, <1>3, <1>4 DEF MapOK
<1>6. D \in SUBSET Chains
  BY <1>2 DEF MapOK
<1>7. p \in [D -> Seq(Block) \ {<<>>}]
  <2>1. p = [g \in D |-> p[g]]
    OBVIOUS
  <2> HIDE DEF p, D
  <2> QED BY <1>5, <2>1
<1>8. p \in Maps
  BY <1>6, <1>7, MapsAre
<1>9. /\ DOMAIN p = DOMAIN m \cup {h}
      /\ \A g \in DOMAIN p : p[g] = IF g # h THEN m[g] ELSE IF h \in DOMAIN m THEN Append(m[h], b) ELSE <<b>>
  OBVIOUS
<1> HIDE DEF p
<1>10. InsertedAs(m, h, b, p)
  BY <1>8, <1>9 DEF InsertedAs
<1> QED BY <1>1, <1>10

\* The chain of a text, as far as its blocks go and beyond.
LEMMA ChainType ==
    ASSUME NEW t \in Seq(Token), NEW n \in Nat
    PROVE  Chain(t, n) \in Chains /\ Len(Chain(t, n)) = n /\ \A i \in 1..n : Chain(t, n)[i] = Chunk(t, i)
<1>1. Len(t) \in Nat /\ BlockSize \in Nat
  BY PrefixCacheAssumption, LenProperties
<1>2. ASSUME NEW i \in 1..n PROVE Chunk(t, i) \in Seq(Token)
  <2> DEFINE x == (i - 1) * BlockSize
             y == i * BlockSize
  <2>1. x \in Nat /\ y \in Nat
    BY <1>1
  <2> HIDE DEF x, y
  <2>2. x + 1 \in Nat /\ x + 1 # 0 /\ Cut(y, Len(t)) \in Nat /\ Cut(y, Len(t)) <= Len(t)
    BY <1>1, <2>1 DEF Cut
  <2>3. SubSeq(t, x + 1, Cut(y, Len(t))) \in Seq(Token)
    BY <2>2, PartOfText
  <2> QED BY <2>3 DEF Chunk, x, y
<1>3. Chain(t, n) = [i \in 1..n |-> Chunk(t, i)]
  BY DEF Chain
<1>4. [i \in 1..n |-> Chunk(t, i)] \in [1..n -> Seq(Token)]
  BY <1>2
<1>5. Chain(t, n) \in [1..n -> Seq(Token)] /\ \A i \in 1..n : Chain(t, n)[i] = Chunk(t, i)
  BY <1>3, <1>4
<1> HIDE DEF Chain
<1>6. Chain(t, n) \in Chains /\ Len(Chain(t, n)) = n
  BY <1>5, SeqDef DEF Chains
<1> QED BY <1>5, <1>6

\* What is stored next for t: up to where, the tokens, their hash and data.
Stop(w, t) == Cut(w.table.tokens + BlockSize, Len(t))
Own(w, t) == SubSeq(t, w.table.tokens + 1, Stop(w, t))
HashOf(w, t) == Append(w.parent, Own(w, t))
DataOf(w, t) == Sliced(t, w.begin, w.table.tokens - w.existing, Stop(w, t) - w.existing)
Stores(w) == w.end = "no" /\ w.pool.list.num # 0 /\ FirstFree(w.pool.list) \in Block

LEMMA OwnIs ==
    ASSUME NEW w \in Loop, NEW t \in Seq(Token), w.table.tokens < Len(t)
    PROVE  /\ w.table.tokens \in Nat /\ Stop(w, t) \in Nat /\ Stop(w, t) <= Len(t)
           /\ w.table.tokens < Stop(w, t)
           /\ Own(w, t) \in Seq(Token) /\ Len(Own(w, t)) \in Nat \ {0}
           /\ HashOf(w, t) \in Chains
<1> DEFINE k == w.table.tokens
           s == Stop(w, t)
<1>1. Len(t) \in Nat /\ BlockSize \in Nat /\ BlockSize # 0 /\ k \in Nat /\ w.parent \in Chains
  BY PrefixCacheAssumption, LenProperties DEF Loop, LoopRecord, Tables
<1>2. s \in Nat /\ s <= Len(t) /\ k < s
  BY <1>1 DEF Stop, Cut
<1> HIDE DEF k, s
<1>3. SubSeq(t, k + 1, s) \in Seq(Token)
  <2>1. k + 1 \in Nat /\ k + 1 # 0
    BY <1>1
  <2> QED BY <1>2, <2>1, PartOfText
<1>4. Len(SubSeq(t, k + 1, s)) \in Nat \ {0}
  <2>1. \A i \in (k + 1)..s : t[i] \in Token
    <3>1. \A i \in (k + 1)..s : i \in 1..Len(t)
      BY <1>1, <1>2
    <3> QED BY <3>1, ElementOfSeq
  <2>2. Len(SubSeq(t, k + 1, s)) = IF k + 1 <= s THEN s - (k + 1) + 1 ELSE 0
    BY <1>1, <1>2, <2>1, SubSeqProperties
  <2> QED BY <1>1, <1>2, <2>2
<1>5. Append(w.parent, SubSeq(t, k + 1, s)) \in Chains
  BY <1>1, <1>3, AppendProperties DEF Chains
<1> QED BY <1>1, <1>2, <1>3, <1>4, <1>5 DEF Own, HashOf, k, s

\* The slice that is stored lies in the text, and ends where the chain does
\* when cache_data begins with the first new token.
LEMMA DataIs ==
    ASSUME NEW w \in Loop, NEW t \in Seq(Token), w.table.tokens < Len(t)
    PROVE  /\ DataOf(w, t) \in Data
           /\ w.begin = w.existing => DataOf(w, t).upto = SubSeq(t, 1, Stop(w, t))
<1> DEFINE k == w.table.tokens
           s == Stop(w, t)
           e == w.existing
           a == w.begin
           n == a + (s - e)
<1>1. e \in Nat /\ a \in Nat /\ a <= e /\ e <= k
  BY DEF Loop, LoopRecord
<1>2. k \in Nat /\ s \in Nat /\ s <= Len(t) /\ k < s /\ Len(t) \in Nat
  BY OwnIs, LenProperties
<1>3. DataOf(w, t) = [upto |-> SubSeq(t, 1, n), size |-> (s - e) - (k - e)]
  BY DEF DataOf, Sliced
<1> HIDE DEF k, s, e, a
<1>4. n \in Nat /\ n <= Len(t) /\ (s - e) - (k - e) \in Nat /\ (a = e => n = s)
  BY <1>1, <1>2
<1> HIDE DEF n
<1>5. SubSeq(t, 1, n) \in Seq(Token)
  BY <1>4, PartOfText
<1> QED BY <1>3, <1>4, <1>5 DEF Data, a, e, s

\* A round that does not store changes at most how the loop ends.
LEMMA NoRound ==
    ASSUME NEW w \in Loop, NEW t, ~ Stores(w)
    PROVE  /\ StoreBlock(w, t) \in Loop /\ StoreBlock(w, t).end # "no"
           /\ StoreBlock(w, t).pool = w.pool /\ StoreBlock(w, t).block = w.block
           /\ StoreBlock(w, t).map = w.map /\ StoreBlock(w, t).partial = w.partial
           /\ StoreBlock(w, t).parent = w.parent /\ StoreBlock(w, t).table = w.table
           /\ StoreBlock(w, t).existing = w.existing /\ StoreBlock(w, t).begin = w.begin
<1>1. \A e \in Ends : [w EXCEPT !.end = e] \in Loop
  BY DEF Loop, LoopRecord
<1>2. CASE w.end # "no"
  <2>1. StoreBlock(w, t) = w
    BY <1>2 DEF StoreBlock
  <2> QED BY <1>2, <2>1
<1>3. CASE w.end = "no" /\ w.pool.list.num = 0
  <2>1. StoreBlock(w, t) = [w EXCEPT !.end = "full"]
    BY <1>3 DEF StoreBlock
  <2> QED BY <1>1, <2>1 DEF Loop, LoopRecord, Ends
<1>4. CASE w.end = "no" /\ w.pool.list.num # 0
  <2>1. FirstFree(w.pool.list) \notin Block
    BY <1>4 DEF Stores
  <2>2. StoreBlock(w, t) = [w EXCEPT !.end = "raised"]
    BY <1>4, <2>1 DEF StoreBlock
  <2> QED BY <1>1, <2>2 DEF Loop, LoopRecord, Ends
<1> QED BY <1>2, <1>3, <1>4

\* A round that stores takes the first block of the list.
RoundOf(w, v, t, b) ==
    /\ v.pool = [list |-> PoppedLeft(w.pool.list), ref |-> [w.pool.ref EXCEPT ![b] = 1],
                 allocated |-> w.pool.allocated \cup {b}]
    /\ v.block = [w.block EXCEPT ![b] = [hash |-> HashOf(w, t), count |-> Len(Own(w, t)),
                     data |-> DataOf(w, t)]]
    /\ v.map = Inserted(Popped(w.map, w.block[b].hash, b), HashOf(w, t), b)
    /\ v.partial = WithSize(w.partial, Len(Own(w, t)))
    /\ v.parent = HashOf(w, t)
    /\ v.table = [ids |-> Append(w.table.ids, b), tokens |-> Stop(w, t)]
    /\ v.existing = w.existing /\ v.begin = w.begin
    /\ v.end = "no"

LEMMA RoundIs ==
    ASSUME NEW w \in Loop, NEW t, Stores(w)
    PROVE  RoundOf(w, StoreBlock(w, t), t, FirstFree(w.pool.list))
<1> DEFINE b == FirstFree(w.pool.list)
           v == StoreBlock(w, t)
<1>1. w.end = "no" /\ w.pool.list.num # 0 /\ b \in Block /\ w.block \in [Block -> Contents]
  BY DEF Stores, Loop, LoopRecord
<1>2. v = [w EXCEPT
            !.pool = [list |-> PoppedLeft(@.list), ref |-> [@.ref EXCEPT ![b] = 1],
                      allocated |-> @.allocated \cup {b}],
            !.block[b] = [hash |-> HashOf(w, t), count |-> Len(Own(w, t)),
                          data |-> DataOf(w, t)],
            !.map = Inserted(Popped(@, w.block[b].hash, b), HashOf(w, t), b),
            !.partial = WithSize(@, Len(Own(w, t))),
            !.parent = HashOf(w, t),
            !.table = [ids |-> Append(@.ids, b), tokens |-> Stop(w, t)]]
  BY <1>1 DEF StoreBlock, HashOf, Own, Stop, DataOf
<1> HIDE DEF b, v
<1>3. DOMAIN w = {"pool", "block", "map", "partial", "parent", "table", "end", "existing", "begin"}
  BY DEF Loop, LoopRecord
<1>4. v.pool = [list |-> PoppedLeft(w.pool.list), ref |-> [w.pool.ref EXCEPT ![b] = 1],
                allocated |-> w.pool.allocated \cup {b}]
  BY <1>2, <1>3
<1>5. v.block = [w.block EXCEPT ![b] = [hash |-> HashOf(w, t), count |-> Len(Own(w, t)),
                    data |-> DataOf(w, t)]]
  BY <1>2, <1>3
<1>6. v.map = Inserted(Popped(w.map, w.block[b].hash, b), HashOf(w, t), b)
  BY <1>2, <1>3
<1>7. v.partial = WithSize(w.partial, Len(Own(w, t))) /\ v.parent = HashOf(w, t) /\ v.end = "no"
  BY <1>1, <1>2, <1>3
<1>8. v.table = [ids |-> Append(w.table.ids, b), tokens |-> Stop(w, t)]
  BY <1>2, <1>3
<1>9. v.existing = w.existing /\ v.begin = w.begin
  BY <1>2, <1>3
<1> QED BY <1>4, <1>5, <1>6, <1>7, <1>8, <1>9 DEF RoundOf, b, v
\* As many rounds as it takes: before each of them tokens are left.
LEMMA Rounds ==
    ASSUME NEW x \in Nat \ {0}
    PROVE  LET n == (x + BlockSize - 1) \div BlockSize
           IN  n \in Nat /\ \A i \in 1..n : /\ (i - 1) * BlockSize \in Nat /\ (i - 1) * BlockSize < x
                                            /\ i * BlockSize = (i - 1) * BlockSize + BlockSize
<1> DEFINE y == x + BlockSize - 1
           n == y \div BlockSize
<1>1. BlockSize \in Nat \ {0} /\ y \in Nat
  BY PrefixCacheAssumption
<1> HIDE DEF y
<1>2. n \in Nat /\ n * BlockSize <= y
  BY <1>1
<1> HIDE DEF n
<1>3. ASSUME NEW i \in 1..n
      PROVE  /\ (i - 1) * BlockSize \in Nat /\ (i - 1) * BlockSize < x
             /\ i * BlockSize = (i - 1) * BlockSize + BlockSize
  <2>1. i \in Nat /\ n - i \in Nat /\ i - 1 \in Nat
    BY <1>2
  <2>2. (n - i) * BlockSize \in Nat /\ (i - 1) * BlockSize \in Nat
    BY <1>1, <2>1
  <2>3. n * BlockSize = (n - i) * BlockSize + i * BlockSize
    BY <1>1, <1>2, <2>1
  <2>4. i * BlockSize = (i - 1) * BlockSize + BlockSize
    BY <1>1, <2>1
  <2> QED BY <1>1, <1>2, <2>2, <2>3, <2>4 DEF y
<1> QED BY <1>2, <1>3 DEF n, y

Start(t, table, begin) ==
    [pool |-> pool, block |-> block, map |-> hashMap, partial |-> partialSizes,
     parent |-> Chain(t, table.tokens \div BlockSize), table |-> table, end |-> "no",
     existing |-> table.tokens, begin |-> begin]

\* What a round establishes for w: how far the table goes then.
Further(w, t) == StoreBlock(w, t).end = "no" => StoreBlock(w, t).table.tokens = Stop(w, t)

LEMMA RoundGoesOn == \A w \in Loop : \A t : Further(w, t)
<1> TAKE w \in Loop
<1> TAKE t
<1>1. CASE Stores(w)
  <2> DEFINE v == StoreBlock(w, t)
  <2>1. RoundOf(w, v, t, FirstFree(w.pool.list))
    BY <1>1, RoundIs
  <2> HIDE DEF v
  <2>2. v.table = [ids |-> Append(w.table.ids, FirstFree(w.pool.list)), tokens |-> Stop(w, t)]
    BY <2>1 DEF RoundOf
  <2> QED BY <2>2 DEF Further, v
<1>2. CASE ~ Stores(w)
  BY <1>2, NoRound DEF Further
<1> QED BY <1>1, <1>2

\* What every round keeps, as long as there are tokens left, the loop keeps.
LEMMA LoopKeeps ==
    ASSUME NEW t \in Seq(Token), NEW table \in Tables, table.tokens < Len(t), NEW begin,
           NEW I \in SUBSET Loop, Start(t, table, begin) \in I,
           \A w \in I : w.table.tokens < Len(t) \/ w.end # "no" => StoreBlock(w, t) \in I
    PROVE  Stored(t, table, begin) \in I
<1> DEFINE k == table.tokens
           m == Len(t)
           n == (m - k + BlockSize - 1) \div BlockSize
           p == Start(t, table, begin)
           R(F) == F = [i \in 0..n |-> IF i = 0 THEN p ELSE StoreBlock(F[i - 1], t)]
           C == CHOOSE F : R(F)
           In(i) == {w \in I : w.end = "no" => w.table.tokens = Cut(k + i * BlockSize, m)}
           J == [i \in 0..n |-> In(i)]
           G == [x \in (1..n) \X I |-> StoreBlock(x[2], t)]
<1>1. Stored(t, table, begin) = C[n]
  BY Zenon DEF Stored, Start
<1>2. BlockSize \in Nat /\ k \in Nat /\ m \in Nat /\ k < m
  BY PrefixCacheAssumption, LenProperties DEF Tables
<1>3. n \in Nat /\ \A i \in 1..n : /\ (i - 1) * BlockSize \in Nat /\ (i - 1) * BlockSize < m - k
                                   /\ i * BlockSize = (i - 1) * BlockSize + BlockSize
  <2>1. m - k \in Nat \ {0}
    BY <1>2
  <2> HIDE DEF k, m
  <2> QED BY <2>1, Rounds
<1> HIDE DEF C
<1>4. \A i \in 1..n : \A w \in I : G[<<i, w>>] = StoreBlock(w, t)
  OBVIOUS
<1>5. \A i \in 0..n : J[i] = In(i)
  OBVIOUS
<1>6. p \in J[0]
  <2>1. 0 \in 0..n /\ 0 * BlockSize = 0
    BY <1>2, <1>3
  <2>2. p.end = "no" /\ p.table.tokens = k
    BY DEF Start
  <2>3. Cut(k + 0 * BlockSize, m) = k
    BY <1>2, <2>1 DEF Cut
  <2> HIDE DEF p, J, k, n
  <2>4. p \in In(0)
    BY <2>2, <2>3 DEF p
  <2> QED BY <1>5, <2>1, <2>4
<1>7. ASSUME NEW i \in 1..n, NEW w \in In(i - 1) PROVE StoreBlock(w, t) \in In(i)
  <2> DEFINE e == (i - 1) * BlockSize
             v == StoreBlock(w, t)
  <2>1. e \in Nat /\ e < m - k /\ i * BlockSize = e + BlockSize
    BY <1>3
  <2>2. w \in I /\ w \in Loop /\ (w.end = "no" => w.table.tokens = Cut(k + e, m))
    OBVIOUS
  <2> HIDE DEF e, k, m, n, In
  <2>3. Cut(k + e, m) = k + e /\ k + e < m
    BY <1>2, <2>1 DEF Cut
  <2>4. v \in I
    BY <2>2, <2>3 DEF m
  <2>5. Further(w, t)
    BY <2>2, RoundGoesOn
  <2>6. v.end = "no" => w.end = "no"
    BY <2>2, NoRound DEF Stores, StoreBlock
  <2>7. v.end = "no" => v.table.tokens = Cut(k + i * BlockSize, m)
    <3> HAVE v.end = "no"
    <3>1. v.table.tokens = Cut(k + e + BlockSize, m)
      BY <2>2, <2>3, <2>5, <2>6 DEF Further, Stop, m
    <3>2. k + e + BlockSize = k + i * BlockSize
      BY <1>2, <2>1
    <3> QED BY <3>1, <3>2
  <2> HIDE DEF v
  <2> QED BY <2>4, <2>7 DEF In, v
<1>8. \A i \in 1..n : i - 1 \in 0..n /\ i \in 0..n
  BY <1>3
<1> HIDE DEF n, J, G, p
<1>9. \A i \in 1..n : \A w \in J[i - 1] : G[<<i, w>>] \in J[i]
  <2> TAKE i \in 1..n
  <2>1. J[i - 1] = In(i - 1) /\ J[i] = In(i)
    BY <1>5, <1>8
  <2> HIDE DEF In
  <2>2. \A w \in In(i - 1) : w \in I
    BY DEF In
  <2>3. \A w \in In(i - 1) : StoreBlock(w, t) \in In(i)
    BY <1>7
  <2> QED BY <1>4, <2>1, <2>2, <2>3
<1>10. PICK F : Solves(F, p, G, n) /\ \A i \in 0..n : F[i] \in J[i]
  <2> HIDE DEF In
  <2> QED BY <1>3, <1>6, <1>9, Recursion
<1>11. \A i \in 0..n : F[i] \in I
  BY <1>5, <1>10
<1>12. R(F)
  <2>1. \A i \in 0..n : F[i] = IF i = 0 THEN p ELSE G[<<i, F[i - 1]>>]
    BY <1>10 DEF Solves
  <2>2. \A i \in 0..n : i # 0 => i \in 1..n /\ i - 1 \in 0..n
    BY <1>3
  <2>3. \A i \in 0..n : F[i] = IF i = 0 THEN p ELSE StoreBlock(F[i - 1], t)
    BY <1>4, <1>11, <2>1, <2>2
  <2>4. F = [i \in 0..n |-> F[i]]
    BY <1>10 DEF Solves
  <2> QED BY <2>3, <2>4
<1>13. R(C)
  BY <1>12, Zenon DEF C
<1>14. C[0] = p /\ \A i \in 1..n : C[i] = StoreBlock(C[i - 1], t)
  BY <1>3, <1>13
<1> DEFINE K == {i \in 0..n : C[i] \in J[i]}
<1>15. 0 \in K
  BY <1>3, <1>6, <1>14
<1>16. ASSUME NEW i \in 1..n, i - 1 \in K PROVE i \in K
  <2>1. C[i - 1] \in In(i - 1)
    BY <1>5, <1>8, <1>16
  <2>2. C[i] \in In(i)
    <3> HIDE DEF In
    <3> QED BY <1>7, <1>14, <2>1
  <2> HIDE DEF In
  <2> QED BY <1>5, <1>8, <2>2
<1> HIDE DEF K
<1>17. \A i \in 0..n : i \in K
  BY <1>3, <1>15, <1>16, UpTo
<1>18. C[n] \in In(n)
  BY <1>3, <1>5, <1>17 DEF K
<1> QED BY <1>1, <1>18
LEMMA RoundTypes ==
    \A w \in Loop : \A t \in Seq(Token) :
        w.table.tokens < Len(t) \/ w.end # "no" => StoreBlock(w, t) \in Loop
<1> TAKE w \in Loop
<1> TAKE t \in Seq(Token)
<1> HAVE w.table.tokens < Len(t) \/ w.end # "no"
<1>1. CASE ~ Stores(w)
  BY <1>1, NoRound
<1>2. CASE Stores(w)
  <2> DEFINE b == FirstFree(w.pool.list)
             v == StoreBlock(w, t)
             own == Own(w, t)
  <2>1. RoundOf(w, v, t, b) /\ b \in Block /\ w.end = "no"
    BY <1>2, RoundIs DEF Stores
  <2>2. /\ w.pool \in Pools /\ w.block \in [Block -> Contents] /\ w.map \in Maps
        /\ w.partial \in SUBSET (1..(BlockSize - 1)) /\ w.table \in Tables
    BY DEF Loop, LoopRecord
  <2>3. /\ Stop(w, t) \in Nat /\ own \in Seq(Token) /\ Len(own) \in Nat \ {0} /\ HashOf(w, t) \in Chains
        /\ DataOf(w, t) \in Data
    BY <1>1, <2>1, OwnIs, DataIs
  <2>4. v = [pool |-> v.pool, block |-> v.block, map |-> v.map, partial |-> v.partial,
             parent |-> v.parent, table |-> v.table, end |-> v.end,
             existing |-> v.existing, begin |-> v.begin]
    <3>1. w = [pool |-> w.pool, block |-> w.block, map |-> w.map, partial |-> w.partial,
               parent |-> w.parent, table |-> w.table, end |-> w.end,
               existing |-> w.existing, begin |-> w.begin]
      BY DEF Loop, LoopRecord
    <3>2. w.pool.list.num # 0
      BY <1>2 DEF Stores
    <3> HIDE DEF b
    <3> QED BY <2>1, <3>1, <3>2 DEF StoreBlock, b
  <2> HIDE DEF v, own, b
  <2>5. v.pool \in Pools
    <3>1. w.pool.list \in Lists /\ w.pool.ref \in [Block -> Int] /\ w.pool.allocated \in SUBSET Block
      BY <2>2, PoolParts
    <3>2. PoppedLeft(w.pool.list) \in Lists
      BY <2>1, <3>1, ListsClosed DEF b
    <3>3. [w.pool.ref EXCEPT ![b] = 1] \in [Block -> Int] /\ w.pool.allocated \cup {b} \in SUBSET Block
      BY <2>1, <3>1
    <3> QED BY <2>1, <3>2, <3>3 DEF RoundOf, Pools
  <2>6. v.block \in [Block -> Contents]
    <3> DEFINE c == [hash |-> HashOf(w, t), count |-> Len(own),
                     data |-> DataOf(w, t)]
    <3>1. c \in Contents
      BY <2>3 DEF Contents
    <3>2. v.block = [w.block EXCEPT ![b] = c]
      BY <2>1 DEF RoundOf, own
    <3> HIDE DEF c
    <3> QED BY <2>1, <2>2, <3>1, <3>2
  <2>7. v.map \in Maps
    <3>1. Popped(w.map, w.block[b].hash, b) \in Maps
      BY <2>2, PoppedIs DEF PoppedAs
    <3>2. Inserted(Popped(w.map, w.block[b].hash, b), HashOf(w, t), b) \in Maps
      BY <2>1, <2>3, <3>1, InsertedIs DEF InsertedAs
    <3> QED BY <2>1, <3>2 DEF RoundOf
  <2>8. v.partial \in SUBSET (1..(BlockSize - 1))
    <3>1. v.partial = WithSize(w.partial, Len(own))
      BY <2>1 DEF RoundOf, own
    <3>2. BlockSize \in Nat
      BY PrefixCacheAssumption
    <3> QED BY <2>2, <2>3, <3>1, <3>2 DEF WithSize
  <2>9. v.table \in Tables
    <3>1. Append(w.table.ids, b) \in Seq(Block)
      BY <2>1, <2>2, AppendProperties DEF Tables
    <3> QED BY <2>1, <2>3, <3>1 DEF RoundOf, Tables
  <2>10. v.parent \in Chains /\ v.end \in Ends
    BY <2>1, <2>3 DEF RoundOf, Ends
  <2>11. /\ v.existing \in Nat /\ v.begin \in Nat /\ v.begin <= v.existing
         /\ v.existing <= v.table.tokens
    <3>1. v.existing = w.existing /\ v.begin = w.begin
      BY <2>1 DEF RoundOf
    <3>2. v.table.tokens = Stop(w, t)
      <4>1. v.table = [ids |-> Append(w.table.ids, b), tokens |-> Stop(w, t)]
        BY <2>1 DEF RoundOf
      <4> QED BY <4>1
    <3>3. /\ w.existing \in Nat /\ w.begin \in Nat /\ w.begin <= w.existing
          /\ w.existing <= w.table.tokens
      BY DEF Loop, LoopRecord
    <3>4. w.table.tokens \in Nat /\ w.table.tokens < Stop(w, t) /\ Stop(w, t) \in Nat
      BY <1>1, <2>1, OwnIs
    <3> QED BY <3>1, <3>2, <3>3, <3>4
  <2>12. v \in LoopRecord
    BY <2>4, <2>5, <2>6, <2>7, <2>8, <2>9, <2>10, <2>11 DEF LoopRecord
  <2>13. v \in Loop
    BY <2>11, <2>12 DEF Loop
  <2> QED BY <2>13 DEF v
<1> QED BY <1>1, <1>2

-----------------------------------------------------------------------------
(* The types                                                                *)

Typed ==
    /\ pool \in Pools
    /\ block \in [Block -> Contents]
    /\ hashMap \in Maps
    /\ partialSizes \in SUBSET (1..(BlockSize - 1))
    /\ tables \in AllTables
    /\ entries \in SUBSET {r \in Request : tables[r] # NoTable}
    /\ buckets \in [Types -> Seq(Request)]
    /\ \A t \in Types : ToSet(buckets[t]) \subseteq entries
    /\ IndexOK(index)
    /\ text \in [Request -> Seq(Token)]
    /\ claimed \in [Request -> Nat]

\* Two chains are touched and one of them is given back.
HitIs(t, long, short, given, kept) ==
    /\ (given = long /\ kept = short) \/ (given = short /\ kept = long)
    /\ LookedUp(t).pool = Each("release", Each("touch", Each("touch", pool, long), short), given)
    /\ LookedUp(t).ids = kept

LEMMA LookedUpIs ==
    ASSUME Typed, NEW t \in Seq(Token)
    PROVE  \E long, short, given, kept \in Seq(Block) : HitIs(t, long, short, given, kept)
<1> DEFINE long == Hits(t)
           short == IF Len(t) > 1 THEN Hits(Front(t)) ELSE <<>>
<1>1. MapOK(hashMap) /\ partialSizes \in SUBSET Nat
  <2>1. \A i \in 1..(BlockSize - 1) : i \in Nat
    BY PrefixCacheAssumption
  <2> QED BY <2>1, MapsAre DEF Typed
<1>2. long \in Seq(Block)
  BY <1>1, HitsType
<1>3. Len(t) > 1 => Front(t) \in Seq(Token)
  <2>1. Len(t) \in Nat
    BY LenProperties
  <2>2. Len(t) > 1 => SubSeq(t, 1, Len(t) - 1) \in Seq(Token)
    BY <2>1, PartOfText
  <2> QED BY <2>2 DEF Front
<1>4. short \in Seq(Block)
  <2>1. Len(t) > 1 => Hits(Front(t)) \in Seq(Block)
    BY <1>1, <1>3, HitsType
  <2> QED BY <2>1
<1>5. CASE TokensIn(short) > TokensIn(long)
  <2>1. /\ LookedUp(t).pool = Each("release", Each("touch", Each("touch", pool, long), short), long)
        /\ LookedUp(t).ids = short
    BY <1>5 DEF LookedUp
  <2> HIDE DEF long, short
  <2>2. HitIs(t, long, short, long, short)
    BY <2>1 DEF HitIs
  <2> QED BY <1>2, <1>4, <2>2
<1>6. CASE ~ TokensIn(short) > TokensIn(long)
  <2>1. /\ LookedUp(t).pool = Each("release", Each("touch", Each("touch", pool, long), short), short)
        /\ LookedUp(t).ids = long
    BY <1>6 DEF LookedUp
  <2> HIDE DEF long, short
  <2>2. HitIs(t, long, short, short, long)
    BY <2>1 DEF HitIs
  <2> QED BY <1>2, <1>4, <2>2
<1> QED BY <1>5, <1>6
\* A hit, the blocks of the best match, or a miss.
FetchEnds(r, q, kept) ==
    \/ \E x \in Tables : x.ids = kept /\ pool' = q /\ tables' = [tables EXCEPT ![r] = x]
    \/ \E x \in Tables :
          /\ ToSet(x.ids) \subseteq Each("release", q, kept).allocated
          /\ pool' = Each("reference", Each("release", q, kept), x.ids)
          /\ tables' = [tables EXCEPT ![r] = x]
    \/ pool' = Each("release", q, kept) /\ tables' = tables

LEMMA FetchIs ==
    ASSUME Typed, NEW r \in Request, NEW t \in Seq(Token), FetchCache(r, t)
    PROVE  /\ tables[r] = NoTable /\ tables' \in AllTables
           /\ claimed' \in [Request -> Nat]
           /\ text' \in [Request -> Seq(Token)]
           /\ UNCHANGED <<caches, entries, buckets>>
           /\ \E long, short, given, kept \in Seq(Block) :
                 HitIs(t, long, short, given, kept) /\ FetchEnds(r, LookedUp(t).pool, kept)
<1> DEFINE hit == LookedUp(t)
           best == BestMatch(t)
           n == TokensIn(hit.ids)
           found == hit.ids # <<>> /\ Len(best) <= n
           back == Each("release", hit.pool, hit.ids)
           ids == Among(index[best], back.allocated)
<1>1. PICK long, short, given, kept \in Seq(Block) : HitIs(t, long, short, given, kept)
  BY LookedUpIs
<1>2. /\ hit.ids \in Seq(Block) /\ n \in Nat /\ hit.ids = kept
      /\ hit.pool = Each("release", Each("touch", Each("touch", pool, long), short), given)
  <2>1. hit.ids = kept /\ hit.pool = Each("release", Each("touch", Each("touch", pool, long), short), given)
    BY <1>1 DEF HitIs
  <2> HIDE DEF hit
  <2> QED BY <2>1, TokensInType DEF Typed
<1>3. Len(best) \in Nat /\ (best # <<>> => index[best] \in Seq(Block))
  BY BestMatchType DEF Typed
<1>4. /\ tables[r] = NoTable
      /\ \/ /\ found /\ pool' = hit.pool
            /\ tables' = [tables EXCEPT ![r] = [ids |-> hit.ids, tokens |-> n]]
            /\ claimed' = [claimed EXCEPT ![r] = n]
            /\ text' = [text EXCEPT ![r] = t]
         \/ /\ ~ found /\ best # <<>> /\ pool' = Each("reference", back, ids)
            /\ tables' = [tables EXCEPT ![r] = [ids |-> ids, tokens |-> TokensIn(ids)]]
            /\ claimed' = [claimed EXCEPT ![r] = IF ids = <<>> THEN 0 ELSE Len(best)]
            /\ text' = [text EXCEPT ![r] = t]
         \/ pool' = back /\ UNCHANGED <<tables, claimed, text>>
      /\ UNCHANGED <<caches, entries, buckets>>
  BY DEF FetchCache
<1> HIDE DEF hit, best, n
<1>5. tables \in AllTables /\ claimed \in [Request -> Nat] /\ text' \in [Request -> Seq(Token)]
  BY <1>4 DEF Typed
<1>6. \A x \in Tables : [tables EXCEPT ![r] = x] \in AllTables
  BY <1>5 DEF AllTables
<1>7. CASE /\ found /\ pool' = hit.pool
           /\ tables' = [tables EXCEPT ![r] = [ids |-> hit.ids, tokens |-> n]]
           /\ claimed' = [claimed EXCEPT ![r] = n]
  <2> DEFINE x == [ids |-> hit.ids, tokens |-> n]
  <2>1. x \in Tables /\ x.ids = kept
    BY <1>2 DEF Tables
  <2>2. tables' = [tables EXCEPT ![r] = x]
    BY <1>7
  <2> HIDE DEF x, found
  <2>3. FetchEnds(r, hit.pool, kept)
    BY <1>7, <2>1, <2>2 DEF FetchEnds
  <2>4. tables' \in AllTables /\ claimed' \in [Request -> Nat]
    BY <1>2, <1>5, <1>6, <1>7, <2>1, <2>2
  <2> QED BY <1>1, <1>4, <1>5, <2>3, <2>4 DEF hit
<1>8. CASE /\ ~ found /\ best # <<>> /\ pool' = Each("reference", back, ids)
           /\ tables' = [tables EXCEPT ![r] = [ids |-> ids, tokens |-> TokensIn(ids)]]
           /\ claimed' = [claimed EXCEPT ![r] = IF ids = <<>> THEN 0 ELSE Len(best)]
  <2> DEFINE x == [ids |-> ids, tokens |-> TokensIn(ids)]
  <2>1. ids \in Seq(Block) /\ ToSet(ids) \subseteq back.allocated
    <3>1. index[best] \in Seq(Block)
      BY <1>3, <1>8
    <3> HIDE DEF back
    <3> QED BY <3>1, AmongType, AmongSet
  <2>2. back = Each("release", hit.pool, kept)
    BY <1>2
  <2> HIDE DEF ids, back, found
  <2>3. TokensIn(ids) \in Nat
    BY <2>1, TokensInType DEF Typed
  <2>4. x \in Tables /\ x.ids = ids
    BY <2>1, <2>3 DEF Tables
  <2>5. tables' = [tables EXCEPT ![r] = x]
    BY <1>8
  <2> HIDE DEF x
  <2>6. FetchEnds(r, hit.pool, kept)
    BY <1>8, <2>1, <2>2, <2>4, <2>5 DEF FetchEnds
  <2>7. tables' \in AllTables /\ claimed' \in [Request -> Nat]
    BY <1>3, <1>5, <1>6, <1>8, <2>4, <2>5
  <2> QED BY <1>1, <1>4, <1>5, <2>6, <2>7 DEF hit
<1>9. CASE pool' = back /\ UNCHANGED <<tables, claimed>>
  <2>1. back = Each("release", hit.pool, kept)
    BY <1>2
  <2> HIDE DEF found, back
  <2>2. FetchEnds(r, hit.pool, kept)
    BY <1>9, <2>1 DEF FetchEnds
  <2> QED BY <1>1, <1>4, <1>5, <1>9, <2>2 DEF hit
<1> QED BY <1>4, <1>7, <1>8, <1>9

\* The table a store starts from.
TableOf(r) == IF tables[r] = NoTable THEN [ids |-> <<>>, tokens |-> 0] ELSE tables[r]

LEMMA TableOfIs ==
    ASSUME Typed, NEW r \in Request
    PROVE  TableOf(r) \in Tables /\ TableOf(r).ids = IdsOf(tables[r])
<1>1. tables[r] \in Tables \cup {NoTable}
  BY DEF Typed, AllTables
<1> QED BY <1>1 DEF TableOf, Tables, IdsOf

LEMMA StartTypes ==
    ASSUME Typed, NEW t \in Seq(Token), NEW table \in Tables, NEW begin \in 0..table.tokens
    PROVE  Start(t, table, begin) \in Loop
<1>1. table.tokens \div BlockSize \in Nat
  BY PrefixCacheAssumption DEF Tables
<1>2. Chain(t, table.tokens \div BlockSize) \in Chains
  BY <1>1, ChainType
<1>3. table.tokens \in Nat /\ begin \in Nat /\ begin <= table.tokens
  BY DEF Tables
<1>4. Start(t, table, begin) \in LoopRecord
  BY <1>2, <1>3 DEF Start, LoopRecord, Typed, Ends
<1> QED BY <1>3, <1>4 DEF Start, Loop

\* Where the cache_data of a store begins.
BeginOf(r) == IF "full" \in calls THEN 0 ELSE TableOf(r).tokens

\* What a store leaves when its loop ended with w.
StoreEnds(r, t, type, w) ==
    /\ pool' = w.pool /\ block' = w.block /\ hashMap' = w.map /\ partialSizes' = w.partial
    /\ tables' = [tables EXCEPT ![r] = w.table]
    /\ text' = [text EXCEPT ![r] = t]
    /\ claimed' = [claimed EXCEPT ![r] = w.table.tokens]
    /\ \/ UNCHANGED <<index, entries, buckets>>
       \/ /\ index' = IF w.table.ids = <<>> THEN index
                      ELSE [s \in DOMAIN index \cup {SubSeq(t, 1, w.table.tokens)} |->
                             IF s = SubSeq(t, 1, w.table.tokens) THEN w.table.ids ELSE index[s]]
          /\ entries' = entries \cup {r}
          /\ buckets' = [buckets EXCEPT ![type] =
                           IF r \in ToSet(buckets[type]) THEN buckets[type] ELSE Append(buckets[type], r)]

LEMMA StoreIs ==
    ASSUME Typed, NEW r \in Request, NEW t \in Seq(Token), NEW type \in Types, StoreCache(r, t, type)
    PROVE  /\ TableOf(r) \in Tables /\ TableOf(r).tokens < Len(t)
           /\ "grow" \in calls \/ TableOf(r).tokens % BlockSize = 0
           /\ BeginOf(r) \in 0..TableOf(r).tokens
           /\ Stored(t, TableOf(r), BeginOf(r)) \in Loop
           /\ Stored(t, TableOf(r), BeginOf(r)).table.tokens <= Len(t)
           /\ StoreEnds(r, t, type, Stored(t, TableOf(r), BeginOf(r)))
<1> DEFINE table == TableOf(r)
           begin == BeginOf(r)
           w == Stored(t, table, begin)
<1>1. table \in Tables
  BY TableOfIs
<1>2. Len(t) > table.tokens
  BY DEF StoreCache, TableOf, BeginOf
<1>3. table.tokens < Len(t)
  BY <1>1, <1>2, LenProperties DEF Tables
<1>7. begin \in 0..table.tokens
  BY <1>1 DEF BeginOf, Tables
<1>4. w \in Loop /\ w.table.tokens <= Len(t)
  <2> HIDE DEF table, begin
  <2> DEFINE I == {v \in Loop : v.table.tokens <= Len(t)}
  <2>1. Start(t, table, begin) \in I
    <3>1. Start(t, table, begin) \in Loop /\ Start(t, table, begin).table.tokens = table.tokens
      BY <1>1, <1>7, StartTypes DEF Start
    <3>2. table.tokens \in Nat /\ Len(t) \in Nat
      BY <1>1, LenProperties DEF Tables
    <3> QED BY <1>3, <3>1, <3>2
  <2>2. ASSUME NEW v \in I, v.table.tokens < Len(t) \/ v.end # "no"
        PROVE  StoreBlock(v, t) \in I
    <3>1. StoreBlock(v, t) \in Loop
      BY <2>2, RoundTypes
    <3>2. StoreBlock(v, t).table.tokens <= Len(t)
      <4>1. CASE ~ Stores(v)
        BY <4>1, NoRound
      <4>2. CASE Stores(v)
        <5>1. v.end = "no"
          BY <4>2 DEF Stores
        <5>2. Stop(v, t) <= Len(t)
          BY <2>2, <5>1, OwnIs
        <5>3. StoreBlock(v, t).end = "no"
          BY <4>2, RoundIs DEF RoundOf
        <5>4. StoreBlock(v, t).table.tokens = Stop(v, t)
          BY <5>3, RoundGoesOn DEF Further
        <5> QED BY <5>2, <5>4
      <4> QED BY <4>1, <4>2
    <3> QED BY <3>1, <3>2
  <2>3. I \in SUBSET Loop
    OBVIOUS
  <2> HIDE DEF I
  <2>4. Stored(t, table, begin) \in I
    BY <1>1, <1>3, <2>1, <2>2, <2>3, LoopKeeps
  <2> QED BY <2>4 DEF I
<1>5. /\ "grow" \in calls \/ table.tokens % BlockSize = 0
      /\ pool' = w.pool /\ block' = w.block /\ hashMap' = w.map /\ partialSizes' = w.partial
      /\ tables' = [tables EXCEPT ![r] = w.table]
      /\ text' = [text EXCEPT ![r] = t]
      /\ claimed' = [claimed EXCEPT ![r] = w.table.tokens]
  BY DEF StoreCache, TableOf, BeginOf
<1>6. \/ UNCHANGED <<index, entries, buckets>>
      \/ /\ index' = IF w.table.ids = <<>> THEN index
                     ELSE [s \in DOMAIN index \cup {SubSeq(t, 1, w.table.tokens)} |->
                            IF s = SubSeq(t, 1, w.table.tokens) THEN w.table.ids ELSE index[s]]
         /\ entries' = entries \cup {r}
         /\ buckets' = [buckets EXCEPT ![type] =
                          IF r \in ToSet(buckets[type]) THEN buckets[type] ELSE Append(buckets[type], r)]
  BY DEF StoreCache, TableOf, BeginOf, Typed
<1> QED BY <1>1, <1>3, <1>4, <1>5, <1>6, <1>7 DEF StoreEnds
LEMMA Moves ==
    ASSUME Typed, Next
    PROVE  \E r \in Request :
              \/ \E t \in Seq(Token) : FetchCache(r, t)
              \/ \E t \in Seq(Token), type \in Types : StoreCache(r, t, type)
              \/ ReleaseFetched(r)
              \/ \E n \in Nat : TrimBlockTable(r, n)
              \/ \E s \in Request : ForkCache(r, s)
              \/ "release" \in calls /\ ReleaseStored(r)
<1>1. CASE "release" \in calls /\ ReleaseLowPriority
  <2>1. PICK i \in DOMAIN CacheType : /\ buckets[CacheType[i]] # <<>>
                                      /\ ReleaseStored(Head(buckets[CacheType[i]]))
    BY <1>1 DEF ReleaseLowPriority
  <2>2. buckets[CacheType[i]] \in Seq(Request)
    BY <2>1 DEF Typed, Types, ToSet
  <2> DEFINE s == buckets[CacheType[i]]
  <2> HIDE DEF s
  <2>3. s \in Seq(Request) /\ s # <<>> /\ ReleaseStored(Head(s))
    BY <2>1, <2>2 DEF s
  <2>4. Head(s) \in Request
    BY <2>3
  <2> QED BY <1>1, <2>3, <2>4
<1>2. CASE \E r \in Request : Call(r)
  <2>1. PICK r \in Request : Call(r)
    BY <1>2
  <2>2. \A n \in 1..3 : n * BlockSize \in Nat
    BY PrefixCacheAssumption
  <2>3. \A t \in Text : t \in Seq(Token)
    BY PrefixCacheAssumption
  <2>4. \/ \E t \in Text : FetchCache(r, t)
        \/ \E t \in Text, type \in Types : StoreCache(r, t, type)
        \/ ReleaseFetched(r)
        \/ \E n \in 1..3 : TrimBlockTable(r, n * BlockSize)
        \/ \E s \in Request : ForkCache(r, s)
        \/ "release" \in calls /\ ReleaseStored(r)
    BY <2>1 DEF Call
  <2>5. (\E n \in 1..3 : TrimBlockTable(r, n * BlockSize)) => \E n \in Nat : TrimBlockTable(r, n)
    BY <2>2
  <2>6. (\E t \in Text : FetchCache(r, t)) => \E t \in Seq(Token) : FetchCache(r, t)
    BY <2>3
  <2>7. (\E t \in Text, type \in Types : StoreCache(r, t, type))
            => \E t \in Seq(Token), type \in Types : StoreCache(r, t, type)
    BY <2>3
  <2> QED BY <2>4, <2>5, <2>6, <2>7
<1> QED BY <1>1, <1>2 DEF Next

\* What the releases leave of a request.
LEMMA ForgetTypes ==
    ASSUME Typed, NEW r \in Request, Forget(r)
    PROVE  /\ tables' \in AllTables /\ tables'[r] = NoTable
           /\ \A s \in Request \ {r} : tables'[s] = tables[s]
           /\ text' \in [Request -> Seq(Token)] /\ claimed' \in [Request -> Nat]
           /\ UNCHANGED caches
<1>1. <<>> \in Seq(Token) /\ 0 \in Nat
  OBVIOUS
<1> QED BY <1>1 DEF Forget, Typed, AllTables

\* What is cut off a table, and what stays.
LEMMA TrimIs ==
    ASSUME Typed, NEW r \in Request, NEW target \in Nat, TrimBlockTable(r, target)
    PROVE  \E m \in Nat, x \in Tables :
              LET ids == tables[r].ids
              IN  /\ tables[r] \in Tables /\ m \in 0..Len(ids)
                  /\ SubSeq(ids, m + 1, Len(ids)) \in Seq(Block)
                  /\ pool' = Each("free", pool, SubSeq(ids, m + 1, Len(ids)))
                  /\ x.ids = SubSeq(ids, 1, m) /\ tables' = [tables EXCEPT ![r] = x]
                  /\ claimed' = [claimed EXCEPT ![r] = x.tokens]
                  /\ UNCHANGED <<caches, entries, buckets, text>>
<1> DEFINE ids == tables[r].ids
           m == Cut(target \div BlockSize, Len(ids))
           x == [ids |-> SubSeq(ids, 1, m), tokens |-> m * BlockSize]
<1>1. tables[r] \in Tables
  BY DEF Typed, AllTables, TrimBlockTable
<1>2. ids \in Seq(Block) /\ Len(ids) \in Nat
  BY <1>1, LenProperties DEF Tables
<1>3. target \div BlockSize \in Nat /\ BlockSize \in Nat
  BY PrefixCacheAssumption
<1> HIDE DEF ids
<1>4. m \in Nat /\ m \in 0..Len(ids)
  BY <1>2, <1>3 DEF Cut
<1>5. SubSeq(ids, 1, m) \in Seq(Block) /\ SubSeq(ids, m + 1, Len(ids)) \in Seq(Block)
  <2>1. \A i \in 1..Len(ids) : ids[i] \in Block
    BY <1>2, ElementOfSeq
  <2>2. \A i \in 1..m : i \in 1..Len(ids)
    BY <1>2, <1>4
  <2>3. \A i \in (m + 1)..Len(ids) : i \in 1..Len(ids)
    BY <1>2, <1>4
  <2> HIDE DEF m
  <2>4. m + 1 \in Int /\ \A i \in (m + 1)..Len(ids) : ids[i] \in Block
    BY <1>4, <2>1, <2>3
  <2>5. 1 \in Int /\ \A i \in 1..m : ids[i] \in Block
    BY <2>1, <2>2
  <2> QED BY <1>2, <1>4, <2>4, <2>5, SubSeqProperties
<1>6. m * BlockSize \in Nat
  BY <1>3, <1>4
<1>7. /\ pool' = Each("free", pool, SubSeq(ids, m + 1, Len(ids)))
      /\ tables' = [tables EXCEPT ![r] = x]
      /\ claimed' = [claimed EXCEPT ![r] = m * BlockSize]
      /\ UNCHANGED <<caches, entries, buckets, text>>
  BY DEF TrimBlockTable, ids
<1> HIDE DEF m
<1>8. x \in Tables /\ x.ids = SubSeq(ids, 1, m) /\ x.tokens = m * BlockSize
  BY <1>5, <1>6 DEF Tables
<1> HIDE DEF x
<1> QED BY <1>1, <1>4, <1>5, <1>7, <1>8 DEF ids

LEMMA ForkIs ==
    ASSUME Typed, NEW r \in Request, NEW s \in Request, ForkCache(r, s)
    PROVE  /\ tables[r] \in Tables /\ tables[r].ids \in Seq(Block)
           /\ tables[s] = NoTable
           /\ pool' = Each("reference", pool, tables[r].ids)
           /\ tables' = [tables EXCEPT ![s] = tables[r]]
           /\ UNCHANGED caches
<1>1. tables[r] \in Tables
  BY DEF Typed, AllTables, ForkCache
<1> QED BY <1>1 DEF ForkCache, Tables
LEMMA TypedInit == Init => Typed
<1> SUFFICES ASSUME Init PROVE Typed
  OBVIOUS
<1>1. pool \in Pools
  <2>1. PICK s \in SetToSeqs(Block) : pool = [list |-> ListOf(s), ref |-> [b \in Block |-> 0], allocated |-> {}]
    BY DEF Init
  <2>2. ListOf(s) \in Lists
    BY HoldStart DEF Holding
  <2> QED BY <2>1, <2>2 DEF Pools
<1>2. block \in [Block -> Contents]
  <2>1. Fresh \in Contents
    BY DEF Fresh, NoData, Contents, Data
  <2> QED BY <2>1 DEF Init
<1>3. hashMap \in Maps
  <2>1. {} \in SUBSET Chains /\ hashMap \in [{} -> Seq(Block) \ {<<>>}]
    BY DEF Init
  <2> QED BY <2>1, MapsAre
<1>4. tables \in AllTables
  BY DEF Init, AllTables
<1>5. buckets \in [Types -> Seq(Request)] /\ \A t \in Types : ToSet(buckets[t]) \subseteq entries
  BY SetEmpty DEF Init
<1>6. IndexOK(index)
  BY DEF Init, IndexOK
<1>7. partialSizes \in SUBSET (1..(BlockSize - 1)) /\ text \in [Request -> Seq(Token)] /\ claimed \in [Request -> Nat]
  BY DEF Init
<1>8. entries \in SUBSET {r \in Request : tables[r] # NoTable}
  BY DEF Init
<1> QED BY <1>1, <1>2, <1>3, <1>4, <1>5, <1>6, <1>7, <1>8 DEF Typed

\* A call that leaves the chain hashes, and the bookkeeping of every call.
LEMMA TypedCaches == Typed /\ UNCHANGED caches =>
    block' \in [Block -> Contents] /\ hashMap' \in Maps /\ partialSizes' \in SUBSET (1..(BlockSize - 1)) /\ IndexOK(index)'
BY DEF Typed, caches, IndexOK

LEMMA BucketsOfMore ==
    \A E : Typed /\ entries \subseteq E => \A t \in Types : ToSet(buckets[t]) \subseteq E
BY DEF Typed

LEMMA TypedFetch ==
    ASSUME Typed, NEW r \in Request, NEW t \in Seq(Token), FetchCache(r, t)
    PROVE  Typed'
<1>1. /\ tables[r] = NoTable /\ tables' \in AllTables /\ claimed' \in [Request -> Nat]
      /\ text' \in [Request -> Seq(Token)] /\ UNCHANGED caches /\ entries' = entries /\ buckets' = buckets
  BY FetchIs
<1>2. PICK long, short, given, kept \in Seq(Block) :
         HitIs(t, long, short, given, kept) /\ FetchEnds(r, LookedUp(t).pool, kept)
  BY FetchIs
<1> DEFINE q == LookedUp(t).pool
<1>3. pool \in Pools /\ tables \in AllTables /\ text \in [Request -> Seq(Token)]
  BY DEF Typed
<1>4. "touch" \in Ops /\ "release" \in Ops /\ "reference" \in Ops
  BY DEF Ops
<1>5. q \in Pools
  <2>1. q = Each("release", Each("touch", Each("touch", pool, long), short), given)
    BY <1>2 DEF HitIs
  <2>2. Each("touch", pool, long) \in Pools
    BY <1>3, <1>4, EachTypes
  <2>3. Each("touch", Each("touch", pool, long), short) \in Pools
    BY <1>4, <2>2, EachTypes
  <2> QED BY <1>4, <2>1, <2>3, EachTypes
<1> HIDE DEF q
<1>6. Each("release", q, kept) \in Pools
  BY <1>4, <1>5, EachTypes
<1>7. FetchEnds(r, q, kept)
  BY <1>2 DEF q
<1>8. pool' \in Pools
  <2>1. \A x \in Tables : Each("reference", Each("release", q, kept), x.ids) \in Pools
    BY <1>4, <1>6, EachTypes DEF Tables
  <2> QED BY <1>5, <1>6, <1>7, <2>1 DEF FetchEnds
<1>9. \A s \in Request : tables[s] # NoTable => tables'[s] # NoTable
  <2>1. r \notin entries /\ \A x : [tables EXCEPT ![r] = x] \in [Request -> Tables \cup {NoTable}] =>
            \A s \in Request \ {r} : [tables EXCEPT ![r] = x][s] = tables[s]
    BY <1>1, <1>3 DEF Typed, AllTables
  <2>2. \A s \in Request \ {r} : tables'[s] = tables[s]
    BY <1>3, <1>7 DEF FetchEnds, AllTables
  <2> QED BY <1>1, <2>2
<1>10. entries' \in SUBSET {s \in Request : tables'[s] # NoTable}
  BY <1>1, <1>9 DEF Typed
<1>11. buckets' \in [Types -> Seq(Request)] /\ \A c \in Types : ToSet(buckets'[c]) \subseteq entries'
  BY <1>1 DEF Typed
<1> QED BY <1>1, <1>8, <1>10, <1>11, TypedCaches DEF Typed

LEMMA TypedStore ==
    ASSUME Typed, NEW r \in Request, NEW t \in Seq(Token), NEW type \in Types, StoreCache(r, t, type)
    PROVE  Typed'
<1> DEFINE w == Stored(t, TableOf(r), BeginOf(r))
<1>0. w \in Loop /\ w.table.tokens <= Len(t) /\ StoreEnds(r, t, type, w)
  BY StoreIs
<1> HIDE DEF w
<1>1. /\ w \in Loop /\ w.table.tokens <= Len(t)
      /\ pool' = w.pool /\ block' = w.block /\ hashMap' = w.map /\ partialSizes' = w.partial
      /\ tables' = [tables EXCEPT ![r] = w.table]
      /\ text' = [text EXCEPT ![r] = t]
      /\ claimed' = [claimed EXCEPT ![r] = w.table.tokens]
      /\ \/ UNCHANGED <<index, entries, buckets>>
         \/ /\ index' = IF w.table.ids = <<>> THEN index
                        ELSE [s \in DOMAIN index \cup {SubSeq(t, 1, w.table.tokens)} |->
                               IF s = SubSeq(t, 1, w.table.tokens) THEN w.table.ids ELSE index[s]]
            /\ entries' = entries \cup {r}
            /\ buckets' = [buckets EXCEPT ![type] =
                             IF r \in ToSet(buckets[type]) THEN buckets[type] ELSE Append(buckets[type], r)]
  BY <1>0 DEF StoreEnds
<1> HIDE DEF w
<1>2. /\ w.pool \in Pools /\ w.block \in [Block -> Contents] /\ w.map \in Maps
      /\ w.partial \in SUBSET (1..(BlockSize - 1)) /\ w.table \in Tables
      /\ w.table.ids \in Seq(Block) /\ w.table.tokens \in Nat /\ w.table # NoTable
  BY <1>1, PrefixCacheAssumption DEF Loop, LoopRecord, Tables
<1>3. /\ tables \in [Request -> Tables \cup {NoTable}] /\ text \in [Request -> Seq(Token)] /\ claimed \in [Request -> Nat]
      /\ entries \in SUBSET {s \in Request : tables[s] # NoTable}
      /\ buckets \in [Types -> Seq(Request)] /\ (\A c \in Types : ToSet(buckets[c]) \subseteq entries)
      /\ IndexOK(index)
  BY DEF Typed, AllTables
<1>4. tables' \in AllTables /\ text' \in [Request -> Seq(Token)] /\ claimed' \in [Request -> Nat]
  BY <1>1, <1>2, <1>3 DEF AllTables
<1>5. tables'[r] # NoTable /\ \A s \in Request : tables[s] # NoTable => tables'[s] # NoTable
  BY <1>1, <1>2, <1>3
<1>6. entries' \in SUBSET {s \in Request : tables'[s] # NoTable}
  BY <1>1, <1>3, <1>5
<1>7. buckets' \in [Types -> Seq(Request)] /\ \A c \in Types : ToSet(buckets'[c]) \subseteq entries'
  <2>1. /\ buckets[type] \in Seq(Request)
        /\ Append(buckets[type], r) \in Seq(Request)
        /\ ToSet(Append(buckets[type], r)) = ToSet(buckets[type]) \cup {r}
    <3>1. buckets[type] \in Seq(Request)
      BY <1>3
    <3> DEFINE s == buckets[type]
    <3> HIDE DEF s
    <3>2. s \in Seq(Request) /\ Append(s, r) \in Seq(Request) /\ ToSet(Append(s, r)) = ToSet(s) \cup {r}
      BY <3>1, SetAppend, AppendProperties DEF s
    <3> QED BY <3>2 DEF s
  <2>2. CASE UNCHANGED <<index, entries, buckets>>
    BY <1>3, <2>2
  <2>3. CASE /\ entries' = entries \cup {r}
             /\ buckets' = [buckets EXCEPT ![type] =
                              IF r \in ToSet(buckets[type]) THEN buckets[type] ELSE Append(buckets[type], r)]
    <3> DEFINE s == IF r \in ToSet(buckets[type]) THEN buckets[type] ELSE Append(buckets[type], r)
    <3>1. s \in Seq(Request) /\ ToSet(s) \subseteq entries \cup {r}
      BY <1>3, <2>1
    <3>2. buckets' = [buckets EXCEPT ![type] = s]
      BY <2>3
    <3> HIDE DEF s
    <3> QED BY <1>3, <2>3, <3>1, <3>2
  <2> QED BY <1>1, <2>2, <2>3
<1>8. IndexOK(index')
  <2> DEFINE u == SubSeq(t, 1, w.table.tokens)
             y == [s \in DOMAIN index \cup {u} |-> IF s = u THEN w.table.ids ELSE index[s]]
  <2>1. u \in Seq(Token)
    BY <1>1, <1>2, PartOfText
  <2>2. IndexOK(y)
    <3> HIDE DEF u
    <3> QED BY <1>2, <1>3, <2>1 DEF IndexOK
  <2>3. index' = index \/ index' = y
    BY <1>1
  <2> HIDE DEF y
  <2> QED BY <1>3, <2>2, <2>3
<1> QED BY <1>1, <1>2, <1>4, <1>6, <1>7, <1>8 DEF Typed
\* The tables and what is released, for both releases.
LEMMA ReleaseIs ==
    ASSUME Typed, NEW r \in Request, ReleaseFetched(r) \/ ReleaseStored(r)
    PROVE  /\ IdsOf(tables[r]) \in Seq(Block)
           /\ Forget(r)
           /\ \/ r \notin entries /\ pool' = Each("free", pool, IdsOf(tables[r]))
                    /\ entries' = entries /\ buckets' = buckets
              \/ r \in entries /\ pool' = Each("free", Each("release", pool, IdsOf(tables[r])), IdsOf(tables[r]))
                    /\ entries' = entries \ {r} /\ buckets' = [t \in Types |-> Among(buckets[t], Request \ {r})]
<1>1. tables[r] # NoTable
  BY DEF Typed, ReleaseFetched, ReleaseStored
<1>2. tables[r] \in Tables \cup {NoTable} /\ IdsOf(tables[r]) = tables[r].ids
  BY <1>1 DEF Typed, AllTables, IdsOf
<1>3. IdsOf(tables[r]) \in Seq(Block)
  BY <1>2, IdsType
<1>4. CASE ReleaseFetched(r)
  BY <1>2, <1>3, <1>4 DEF ReleaseFetched
<1>5. CASE ReleaseStored(r)
  BY <1>2, <1>3, <1>5 DEF ReleaseStored
<1> QED BY <1>4, <1>5

LEMMA TypedRelease ==
    ASSUME Typed, NEW r \in Request, ReleaseFetched(r) \/ ReleaseStored(r)
    PROVE  Typed'
<1> DEFINE ids == IdsOf(tables[r])
<1>1. /\ ids \in Seq(Block) /\ Forget(r)
      /\ \/ r \notin entries /\ pool' = Each("free", pool, ids)
               /\ entries' = entries /\ buckets' = buckets
         \/ r \in entries /\ pool' = Each("free", Each("release", pool, ids), ids)
               /\ entries' = entries \ {r} /\ buckets' = [t \in Types |-> Among(buckets[t], Request \ {r})]
  BY ReleaseIs
<1> HIDE DEF ids
<1>2. /\ tables' \in AllTables /\ (\A s \in Request \ {r} : tables'[s] = tables[s])
      /\ text' \in [Request -> Seq(Token)] /\ claimed' \in [Request -> Nat] /\ UNCHANGED caches
  BY <1>1, ForgetTypes
<1>3. pool' \in Pools
  <2>1. pool \in Pools /\ "free" \in Ops /\ "release" \in Ops
    BY DEF Typed, Ops
  <2>2. Each("release", pool, ids) \in Pools /\ Each("free", pool, ids) \in Pools
    BY <1>1, <2>1, EachTypes
  <2>3. Each("free", Each("release", pool, ids), ids) \in Pools
    BY <1>1, <2>1, <2>2, EachTypes
  <2> QED BY <1>1, <2>2, <2>3
<1>4. /\ buckets \in [Types -> Seq(Request)] /\ (\A c \in Types : ToSet(buckets[c]) \subseteq entries)
      /\ entries \in SUBSET {s \in Request : tables[s] # NoTable}
  BY DEF Typed
<1>5. r \notin entries' /\ entries' \subseteq entries
  BY <1>1
<1>6. entries' \in SUBSET {s \in Request : tables'[s] # NoTable}
  BY <1>2, <1>4, <1>5
<1>7. buckets' \in [Types -> Seq(Request)] /\ \A c \in Types : ToSet(buckets'[c]) \subseteq entries'
  <2>1. CASE entries' = entries /\ buckets' = buckets
    BY <1>4, <2>1
  <2>2. CASE entries' = entries \ {r} /\ buckets' = [t \in Types |-> Among(buckets[t], Request \ {r})]
    <3>1. \A c \in Types : buckets[c] \in Seq(Request)
      BY <1>4
    <3>2. \A s \in Seq(Request) : Among(s, Request \ {r}) \in Seq(Request)
                                  /\ ToSet(Among(s, Request \ {r})) = ToSet(s) \cap (Request \ {r})
      BY AmongType, AmongSet
    <3>3. \A c \in Types : buckets'[c] \in Seq(Request) /\ ToSet(buckets'[c]) = ToSet(buckets[c]) \cap (Request \ {r})
      BY <2>2, <3>1, <3>2
    <3>4. buckets' \in [Types -> Seq(Request)]
      BY <2>2, <3>1, <3>2
    <3> QED BY <1>4, <2>2, <3>3, <3>4
  <2> QED BY <1>1, <2>1, <2>2
<1> QED BY <1>2, <1>3, <1>6, <1>7, TypedCaches DEF Typed

LEMMA TypedTrim ==
    ASSUME Typed, NEW r \in Request, NEW target \in Nat, TrimBlockTable(r, target)
    PROVE  Typed'
<1>1. PICK m \in Nat, x \in Tables :
              LET ids == tables[r].ids
              IN  /\ tables[r] \in Tables /\ m \in 0..Len(ids)
                  /\ SubSeq(ids, m + 1, Len(ids)) \in Seq(Block)
                  /\ pool' = Each("free", pool, SubSeq(ids, m + 1, Len(ids)))
                  /\ x.ids = SubSeq(ids, 1, m) /\ tables' = [tables EXCEPT ![r] = x]
                  /\ claimed' = [claimed EXCEPT ![r] = x.tokens]
                  /\ UNCHANGED <<caches, entries, buckets, text>>
  BY TrimIs
<1>2. pool' \in Pools
  <2>1. pool \in Pools /\ "free" \in Ops
    BY DEF Typed, Ops
  <2> QED BY <1>1, <2>1, EachTypes
<1>3. tables' \in AllTables /\ claimed' \in [Request -> Nat] /\ tables'[r] # NoTable
      /\ \A s \in Request \ {r} : tables'[s] = tables[s]
  <2>1. x.tokens \in Nat /\ x # NoTable /\ x \in Tables
    BY PrefixCacheAssumption DEF Tables
  <2>2. tables \in AllTables /\ claimed \in [Request -> Nat]
    BY DEF Typed
  <2>3. tables' = [tables EXCEPT ![r] = x] /\ claimed' = [claimed EXCEPT ![r] = x.tokens]
    BY <1>1
  <2> QED BY <2>1, <2>2, <2>3 DEF AllTables
<1>4. UNCHANGED <<caches, entries, buckets, text>>
  BY <1>1
<1>5. entries' \in SUBSET {s \in Request : tables'[s] # NoTable}
  BY <1>3, <1>4 DEF Typed
<1>6. /\ buckets' \in [Types -> Seq(Request)] /\ (\A c \in Types : ToSet(buckets'[c]) \subseteq entries')
      /\ text' \in [Request -> Seq(Token)]
  BY <1>4 DEF Typed
<1> QED BY <1>2, <1>3, <1>4, <1>5, <1>6, TypedCaches DEF Typed

LEMMA TypedFork ==
    ASSUME Typed, NEW r \in Request, NEW s \in Request, ForkCache(r, s)
    PROVE  Typed'
<1>1. /\ tables[r] \in Tables /\ tables[r].ids \in Seq(Block) /\ tables[s] = NoTable
      /\ pool' = Each("reference", pool, tables[r].ids)
      /\ tables' = [tables EXCEPT ![s] = tables[r]]
      /\ UNCHANGED caches
  BY ForkIs
<1>2. /\ entries' = entries \cup {s} /\ text' = [text EXCEPT ![s] = text[r]]
      /\ claimed' = [claimed EXCEPT ![s] = claimed[r]] /\ buckets' = buckets
  BY DEF ForkCache
<1>3. pool' \in Pools
  <2>1. pool \in Pools /\ "reference" \in Ops
    BY DEF Typed, Ops
  <2> QED BY <1>1, <2>1, EachTypes
<1>4. tables \in AllTables /\ text \in [Request -> Seq(Token)] /\ claimed \in [Request -> Nat]
  BY DEF Typed
<1>5. tables[r] # NoTable
  BY <1>1, PrefixCacheAssumption DEF Tables
<1>6. tables' \in AllTables /\ tables'[s] # NoTable /\ \A u \in Request \ {s} : tables'[u] = tables[u]
  BY <1>1, <1>4, <1>5 DEF AllTables
<1>7. text' \in [Request -> Seq(Token)] /\ claimed' \in [Request -> Nat]
  BY <1>2, <1>4
<1>8. entries' \in SUBSET {u \in Request : tables'[u] # NoTable}
  BY <1>2, <1>6 DEF Typed
<1>9. buckets' \in [Types -> Seq(Request)] /\ \A c \in Types : ToSet(buckets'[c]) \subseteq entries'
  BY <1>2 DEF Typed
<1> QED BY <1>1, <1>3, <1>6, <1>7, <1>8, <1>9, TypedCaches DEF Typed

LEMMA TypedNext == Typed /\ [Next]_vars => Typed'
<1> SUFFICES ASSUME Typed, [Next]_vars PROVE Typed'
  OBVIOUS
<1>1. CASE Next
  <2>1. PICK r \in Request :
              \/ \E t \in Seq(Token) : FetchCache(r, t)
              \/ \E t \in Seq(Token), type \in Types : StoreCache(r, t, type)
              \/ ReleaseFetched(r)
              \/ \E n \in Nat : TrimBlockTable(r, n)
              \/ \E s \in Request : ForkCache(r, s)
              \/ "release" \in calls /\ ReleaseStored(r)
    BY <1>1, Moves
  <2> QED BY <2>1, TypedFetch, TypedStore, TypedRelease, TypedTrim, TypedFork
<1>2. CASE UNCHANGED vars
  BY <1>2 DEF vars, Typed, IndexOK
<1> QED BY <1>1, <1>2

LEMMA TypedAlways == Spec => []Typed
BY TypedInit, TypedNext, PTL DEF Spec

LEMMA TypedGives == Typed => TypeOK
<1> SUFFICES ASSUME Typed PROVE TypeOK
  OBVIOUS
<1>1. pool.list \in Lists /\ pool.ref \in [Block -> Int] /\ pool.allocated \in SUBSET Block
  BY PoolParts DEF Typed
<1>2. \A r \in Request : tables[r] # NoTable => tables[r].ids \in Seq(Block) /\ tables[r].tokens \in Nat
  BY DEF Typed, AllTables, Tables
<1> QED BY <1>1, <1>2 DEF Typed, TypeOK

\* Whatever the callers do, the pool, the tables, the entries and the chain
\* hashes of BlockAwarePrefixCache (prefix_cache.py) keep their types, also
\* when release_cache has freed blocks that other tables still name.
THEOREM PrefixTypesOK == Spec => []TypeOK
BY TypedAlways, TypedGives, PTL
-----------------------------------------------------------------------------
(* References and tables, while no entry is released                        *)

Fits(p, T) == Exact(p) /\ T \in AllTables /\ \A b \in Block : p.ref[b] = Count(T, b)

LEMMA OccIn ==
    ASSUME NEW S, NEW s \in Seq(S), NEW b \in ToSet(s)
    PROVE  Occ(s, b) >= 1
<1>1. PICK i \in 1..Len(s) : s[i] = b
  BY DEF ToSet
<1>2. Len(s) \in Nat /\ i \in Nat \ {0} /\ i <= Len(s)
  BY LenProperties
<1>3. OneMore(s, i, b)
  BY <1>2, OccursNext
<1>4. Occurs(s, i - 1, b) \in Nat /\ Occurs(s, i, b) \in Nat /\ Occurs(s, Len(s), b) \in Nat
  BY <1>2, OccursNat
<1>5. Occurs(s, i, b) <= Occurs(s, Len(s), b)
  BY <1>2, OccursGrows
<1> QED BY <1>1, <1>3, <1>4, <1>5 DEF OneMore, Occ

\* The blocks of a request without a table, and of one with a table.
LEMMA NoTableCounts == IdsOf(NoTable) = <<>> /\ \A x \in Tables : IdsOf(x) = x.ids
BY PrefixCacheAssumption DEF IdsOf, Tables

LEMMA FitsInit == Init => Fits(pool, tables)
<1> SUFFICES ASSUME Init PROVE Fits(pool, tables)
  OBVIOUS
<1>1. PICK s \in SetToSeqs(Block) : pool = [list |-> ListOf(s), ref |-> [b \in Block |-> 0], allocated |-> {}]
  BY DEF Init
<1>2. Typed
  BY TypedInit
<1>3. {b \in Block : pool.ref[b] = 0} = Block
  BY <1>1
<1>4. Holding(pool.list, Block)
  BY <1>1, HoldStart
<1>5. \A b \in Block : pool.ref[b] = 0
  BY <1>1
<1>6. tables = [r \in Request |-> NoTable]
  BY DEF Init
<1>7. \A b \in Block : Count(tables, b) = 0
  BY <1>6, CountNone
<1>8. pool \in Pools /\ tables \in AllTables
  BY <1>2 DEF Typed
<1>9. Exact(pool)
  BY <1>3, <1>4, <1>5, <1>8 DEF Exact
<1> QED BY <1>5, <1>7, <1>8, <1>9 DEF Fits

\* A lookup keeps what is kept of it, and the rest of the pool as it was.
LEMMA FitsLookup ==
    ASSUME NEW p, Exact(p), NEW long \in Seq(Block), NEW short \in Seq(Block), NEW given, NEW kept,
           (given = long /\ kept = short) \/ (given = short /\ kept = long)
    PROVE  LET q == Each("release", Each("touch", Each("touch", p, long), short), given)
               w == Each("release", q, kept)
           IN  /\ Exact(q) /\ \A b \in Block : q.ref[b] = p.ref[b] + Occ(kept, b)
               /\ Exact(w) /\ \A b \in Block : w.ref[b] = p.ref[b]
<1> DEFINE p1 == Each("touch", p, long)
           p2 == Each("touch", p1, short)
           q == Each("release", p2, given)
           w == Each("release", q, kept)
<1>1. \A b \in Block : Occ(long, b) \in Nat /\ Occ(short, b) \in Nat
  BY OccNat
<1>2. given \in Seq(Block) /\ kept \in Seq(Block)
  OBVIOUS
<1>3. Exact(p1) /\ More(p, p1, long)
  BY EachTakes
<1> HIDE DEF p1
<1>4. Exact(p2) /\ More(p1, p2, short)
  BY <1>3, EachTakes
<1> HIDE DEF p2
<1>5. ASSUME NEW b \in Block
      PROVE  /\ p.ref[b] \in Int /\ p.ref[b] >= 0
             /\ p2.ref[b] = p.ref[b] + Occ(given, b) + Occ(kept, b)
             /\ Occ(given, b) \in Nat /\ Occ(kept, b) \in Nat
  <2>1. p.ref[b] \in Int /\ p.ref[b] >= 0
    BY PoolParts DEF Exact
  <2>2. p1.ref[b] = p.ref[b] + Occ(long, b) /\ p2.ref[b] = p1.ref[b] + Occ(short, b)
    BY <1>3, <1>4 DEF More
  <2> QED BY <1>1, <2>1, <2>2
<1>6. Exact(q) /\ More(q, p2, given)
  <2>1. ASSUME NEW b \in Block PROVE Occ(given, b) <= p2.ref[b]
    <3> DEFINE m == Occ(given, b)
               n == Occ(kept, b)
               i == p.ref[b]
               k == p2.ref[b]
    <3>1. i \in Int /\ i >= 0 /\ m \in Nat /\ n \in Nat /\ k = i + m + n
      BY <1>5
    <3> HIDE DEF m, n, i, k
    <3>2. m <= k
      BY <3>1
    <3> QED BY <3>2 DEF m, k
  <2> QED BY <1>2, <1>4, <2>1, EachGives
<1> HIDE DEF q
<1>7. \A b \in Block : q.ref[b] \in Int
  BY <1>6, PoolParts DEF Exact
<1>8. \A b \in Block : q.ref[b] = p.ref[b] + Occ(kept, b)
  <2> TAKE b \in Block
  <2>1. p2.ref[b] = q.ref[b] + Occ(given, b) /\ q.ref[b] \in Int
    BY <1>6, <1>7 DEF More
  <2>2. /\ p.ref[b] \in Int /\ Occ(given, b) \in Nat /\ Occ(kept, b) \in Nat
        /\ p2.ref[b] = p.ref[b] + Occ(given, b) + Occ(kept, b)
    BY <1>5
  <2> DEFINE m == Occ(given, b)
             n == Occ(kept, b)
             i == p.ref[b]
             j == q.ref[b]
             k == p2.ref[b]
  <2> HIDE DEF m, n, i, j, k
  <2>3. k = j + m /\ k = i + m + n /\ i \in Int /\ j \in Int /\ m \in Int /\ n \in Int
    BY <2>1, <2>2 DEF i, j, k, m, n
  <2>4. j = i + n
    BY <2>3
  <2> QED BY <2>4 DEF i, j, n
<1>9. Exact(w) /\ More(w, q, kept)
  <2>1. ASSUME NEW b \in Block PROVE Occ(kept, b) <= q.ref[b]
    <3> DEFINE n == Occ(kept, b)
               i == p.ref[b]
               j == q.ref[b]
    <3>1. j = i + n /\ i \in Int /\ i >= 0 /\ n \in Nat
      BY <1>5, <1>8
    <3> HIDE DEF n, i, j
    <3>2. n <= j
      BY <3>1
    <3> QED BY <3>2 DEF n, j
  <2> QED BY <1>2, <1>6, <2>1, EachGives
<1> HIDE DEF w
<1>10. \A b \in Block : w.ref[b] = p.ref[b]
  <2> TAKE b \in Block
  <2> DEFINE n == Occ(kept, b)
             i == p.ref[b]
             j == w.ref[b]
  <2>1. q.ref[b] = j + n
    BY <1>9 DEF More
  <2>2. j \in Int
    BY <1>9, PoolParts DEF Exact
  <2>3. q.ref[b] = i + n /\ i \in Int /\ n \in Int
    BY <1>5, <1>8
  <2> HIDE DEF n, i, j
  <2>4. i = j
    BY <2>1, <2>2, <2>3
  <2> QED BY <2>4 DEF i, j
<1> QED BY <1>6, <1>8, <1>9, <1>10 DEF w, q, p2, p1

\* A pool whose counts follow a table of r that changes.
LEMMA FitsUpdate ==
    ASSUME NEW p, NEW T, Fits(p, T), NEW r \in Request, NEW x \in Tables \cup {NoTable}, NEW q, Exact(q),
           \A b \in Block : q.ref[b] = p.ref[b] - Occ(IdsOf(T[r]), b) + Occ(IdsOf(x), b)
    PROVE  Fits(q, [T EXCEPT ![r] = x])
<1>1. T \in AllTables /\ \A b \in Block : p.ref[b] = Count(T, b)
  BY DEF Fits
<1>2. [T EXCEPT ![r] = x] \in AllTables
  BY <1>1 DEF AllTables
<1>3. \A b \in Block : q.ref[b] = Count([T EXCEPT ![r] = x], b)
  <2> TAKE b \in Block
  <2>1. Recounts(T, r, x, b)
    BY <1>1, CountUpdate
  <2> QED BY <1>1, <2>1 DEF Recounts
<1> QED BY <1>2, <1>3 DEF Fits

LEMMA FitsFetch ==
    ASSUME Typed, Fits(pool, tables), NEW r \in Request, NEW t \in Seq(Token), FetchCache(r, t)
    PROVE  Fits(pool', tables')
<1>1. tables[r] = NoTable /\ IdsOf(tables[r]) = <<>>
  BY FetchIs, NoTableCounts
<1>2. PICK long, short, given, kept \in Seq(Block) :
         HitIs(t, long, short, given, kept) /\ FetchEnds(r, LookedUp(t).pool, kept)
  BY FetchIs
<1> DEFINE q == LookedUp(t).pool
           w == Each("release", q, kept)
<1>3. Exact(pool)
  BY DEF Fits
<1>4. /\ Exact(q) /\ (\A b \in Block : q.ref[b] = pool.ref[b] + Occ(kept, b))
      /\ Exact(w) /\ (\A b \in Block : w.ref[b] = pool.ref[b])
  <2>1. /\ (given = long /\ kept = short) \/ (given = short /\ kept = long)
        /\ q = Each("release", Each("touch", Each("touch", pool, long), short), given)
    BY <1>2 DEF HitIs
  <2> HIDE DEF q
  <2> QED BY <1>3, <2>1, FitsLookup
<1> HIDE DEF q
<1>5. FetchEnds(r, q, kept)
  BY <1>2 DEF q
<1> HIDE DEF w
<1>6. \A b \in Block : pool.ref[b] \in Int /\ Occ(IdsOf(tables[r]), b) = 0
  BY <1>1, <1>3, OccEmpty, PoolParts DEF Exact
<1>7. CASE \E x \in Tables : x.ids = kept /\ pool' = q /\ tables' = [tables EXCEPT ![r] = x]
  <2>1. PICK x \in Tables : x.ids = kept /\ pool' = q /\ tables' = [tables EXCEPT ![r] = x]
    BY <1>7
  <2>2. IdsOf(x) = kept
    BY <2>1, NoTableCounts
  <2>3. \A b \in Block : Occ(kept, b) \in Nat
    BY OccNat
  <2>4. \A b \in Block : q.ref[b] = pool.ref[b] - Occ(IdsOf(tables[r]), b) + Occ(IdsOf(x), b)
    BY <1>4, <1>6, <2>2, <2>3
  <2>5. Fits(q, [tables EXCEPT ![r] = x])
    BY <1>4, <2>4, FitsUpdate
  <2> QED BY <2>1, <2>5
<1>8. CASE \E x \in Tables : /\ ToSet(x.ids) \subseteq w.allocated
                             /\ pool' = Each("reference", w, x.ids)
                             /\ tables' = [tables EXCEPT ![r] = x]
  <2>1. PICK x \in Tables : /\ ToSet(x.ids) \subseteq w.allocated
                            /\ pool' = Each("reference", w, x.ids)
                            /\ tables' = [tables EXCEPT ![r] = x]
    BY <1>8
  <2> DEFINE v == Each("reference", w, x.ids)
  <2>2. IdsOf(x) = x.ids /\ x.ids \in Seq(Block)
    BY NoTableCounts DEF Tables
  <2>3. \A b \in Block : Occ(x.ids, b) \in Nat
    BY <2>2, OccNat
  <2>4. Exact(v) /\ More(w, v, x.ids)
    BY <1>4, <2>1, <2>2, EachTakes
  <2> HIDE DEF v
  <2>5. \A b \in Block : v.ref[b] = pool.ref[b] - Occ(IdsOf(tables[r]), b) + Occ(IdsOf(x), b)
    BY <1>4, <1>6, <2>2, <2>3, <2>4 DEF More
  <2>6. Fits(v, [tables EXCEPT ![r] = x])
    BY <2>4, <2>5, FitsUpdate
  <2> QED BY <2>1, <2>6 DEF v
<1>9. CASE pool' = w /\ tables' = tables
  BY <1>4, <1>9 DEF Fits
<1> QED BY <1>5, <1>7, <1>8, <1>9 DEF FetchEnds, w
\* Each round of a store takes a free block and names it in the table.
LEMMA FitsRound ==
    ASSUME NEW w \in Loop, Exact(w.pool), NEW t, Stores(w)
    PROVE  /\ Exact(StoreBlock(w, t).pool)
           /\ \A c \in Block : StoreBlock(w, t).pool.ref[c] - Occ(StoreBlock(w, t).table.ids, c)
                                 = w.pool.ref[c] - Occ(w.table.ids, c)
<1> DEFINE b == FirstFree(w.pool.list)
           p == w.pool
           v == StoreBlock(w, t)
           S == {c \in Block : p.ref[c] = 0}
           f == [p.ref EXCEPT ![b] = 1]
<1>1. RoundOf(w, v, t, b) /\ b \in Block /\ p.list.num # 0
  BY RoundIs DEF Stores
<1>2. /\ p \in Pools /\ Holding(p.list, S) /\ (\A c \in Block : p.ref[c] >= 0 /\ (p.ref[c] > 0 => c \in p.allocated))
      /\ p.list \in Lists /\ p.ref \in [Block -> Int] /\ p.allocated \in SUBSET Block /\ w.table.ids \in Seq(Block)
  BY PoolParts DEF Exact, Loop, LoopRecord, Tables
<1>3. b \in S /\ Holding(PoppedLeft(p.list), S \ {b})
  <2> HIDE DEF S
  <2> QED BY <1>1, <1>2, HoldPop DEF b
<1> HIDE DEF b, v
<1>4. /\ v.pool = [list |-> PoppedLeft(p.list), ref |-> f, allocated |-> p.allocated \cup {b}]
      /\ v.table.ids = Append(w.table.ids, b)
  <2>1. v.table = [ids |-> Append(w.table.ids, b), tokens |-> Stop(w, t)]
    BY <1>1 DEF RoundOf
  <2> QED BY <1>1, <2>1 DEF RoundOf
<1> HIDE DEF p
<1>5. f \in [Block -> Int] /\ f[b] = 1 /\ (\A c \in Block : c # b => f[c] = p.ref[c])
      /\ {c \in Block : f[c] = 0} = S \ {b}
  BY <1>1, <1>2
<1> HIDE DEF f
<1>6. Exact(v.pool)
  <2>1. PoppedLeft(p.list) \in Lists
    BY <1>3 DEF Holding
  <2>2. v.pool \in Pools
    BY <1>1, <1>2, <1>4, <1>5, <2>1 DEF Pools
  <2>3. Holding(v.pool.list, {c \in Block : v.pool.ref[c] = 0})
    <3>1. v.pool.ref = f /\ v.pool.list = PoppedLeft(p.list)
      BY <1>4
    <3>2. {c \in Block : v.pool.ref[c] = 0} = S \ {b}
      BY <1>5, <3>1
    <3> HIDE DEF S
    <3> QED BY <1>3, <3>1, <3>2
  <2>4. \A c \in Block : v.pool.ref[c] >= 0 /\ (v.pool.ref[c] > 0 => c \in v.pool.allocated)
    BY <1>2, <1>4, <1>5
  <2> QED BY <2>2, <2>3, <2>4 DEF Exact
<1>7. ASSUME NEW c \in Block PROVE f[c] - Occ(v.table.ids, c) = p.ref[c] - Occ(w.table.ids, c)
  <2>1. Occ(Append(w.table.ids, b), c) = Occ(w.table.ids, c) + IF b = c THEN 1 ELSE 0
    BY <1>1, <1>2, OccAppend
  <2>2. Occ(w.table.ids, c) \in Nat
    BY <1>2, OccNat
  <2>3. p.ref[c] \in Int /\ f[c] = p.ref[c] + IF b = c THEN 1 ELSE 0
    BY <1>2, <1>3, <1>5
  <2> DEFINE m == Occ(w.table.ids, c)
             i == p.ref[c]
             j == f[c]
  <2> HIDE DEF m, i, j
  <2>4. Occ(v.table.ids, c) = m + IF b = c THEN 1 ELSE 0
    BY <1>4, <2>1 DEF m
  <2>5. m \in Int /\ i \in Int /\ j = i + IF b = c THEN 1 ELSE 0
    BY <2>2, <2>3 DEF m, i, j
  <2>6. j - (m + IF b = c THEN 1 ELSE 0) = i - m
    BY <2>5
  <2> QED BY <2>4, <2>6 DEF i, j, m
<1> QED BY <1>4, <1>6, <1>7 DEF v, p

LEMMA FitsStore ==
    ASSUME Typed, Fits(pool, tables), NEW r \in Request, NEW t \in Seq(Token), NEW type \in Types,
           StoreCache(r, t, type)
    PROVE  Fits(pool', tables')
<1> DEFINE table == TableOf(r)
           begin == BeginOf(r)
           w == Stored(t, table, begin)
           Same(v) == \A c \in Block : v.pool.ref[c] - Occ(v.table.ids, c) = pool.ref[c] - Occ(table.ids, c)
           I == {v \in Loop : Exact(v.pool) /\ Same(v)}
<1>1. /\ table \in Tables /\ table.ids = IdsOf(tables[r]) /\ table.tokens < Len(t)
      /\ begin \in 0..table.tokens /\ w \in Loop /\ StoreEnds(r, t, type, w)
  BY StoreIs, TableOfIs
<1> HIDE DEF table, begin
<1>2. Start(t, table, begin) \in I
  <2>1. Start(t, table, begin) \in Loop
    BY <1>1, StartTypes
  <2>2. Start(t, table, begin).pool = pool /\ Start(t, table, begin).table = table
    BY DEF Start
  <2>3. Exact(pool)
    BY DEF Fits
  <2> QED BY <2>1, <2>2, <2>3
<1>3. ASSUME NEW v \in I, v.table.tokens < Len(t) \/ v.end # "no"
      PROVE  StoreBlock(v, t) \in I
  <2>1. StoreBlock(v, t) \in Loop
    BY <1>3, RoundTypes
  <2>2. v \in Loop /\ Exact(v.pool) /\ Same(v)
    OBVIOUS
  <2>3. CASE ~ Stores(v)
    <3>1. StoreBlock(v, t).pool = v.pool /\ StoreBlock(v, t).table = v.table
      BY <2>2, <2>3, NoRound
    <3> QED BY <2>1, <2>2, <3>1
  <2>4. CASE Stores(v)
    <3>1. /\ Exact(StoreBlock(v, t).pool)
          /\ \A c \in Block : StoreBlock(v, t).pool.ref[c] - Occ(StoreBlock(v, t).table.ids, c)
                                = v.pool.ref[c] - Occ(v.table.ids, c)
      BY <2>2, <2>4, FitsRound
    <3> QED BY <2>1, <2>2, <3>1
  <2> QED BY <2>3, <2>4
<1>4. w \in I
  <2>1. I \in SUBSET Loop
    OBVIOUS
  <2> HIDE DEF I
  <2> QED BY <1>1, <1>2, <1>3, <2>1, LoopKeeps
<1>5. Exact(w.pool) /\ Same(w) /\ w.table \in Tables
  BY <1>4 DEF Loop, LoopRecord
<1>6. pool' = w.pool /\ tables' = [tables EXCEPT ![r] = w.table]
  BY <1>1 DEF StoreEnds
<1> HIDE DEF w, I
<1>7. IdsOf(w.table) = w.table.ids /\ w.table.ids \in Seq(Block) /\ table.ids \in Seq(Block)
  BY <1>1, <1>5, NoTableCounts DEF Tables
<1>8. ASSUME NEW b \in Block
      PROVE  w.pool.ref[b] = pool.ref[b] - Occ(IdsOf(tables[r]), b) + Occ(IdsOf(w.table), b)
  <2> DEFINE m == Occ(w.table.ids, b)
             n == Occ(table.ids, b)
             i == pool.ref[b]
             j == w.pool.ref[b]
  <2>1. m \in Int /\ n \in Int
    BY <1>7, OccNat
  <2>2. i \in Int /\ j \in Int
    BY <1>5, PoolParts DEF Fits, Exact
  <2>3. j - m = i - n
    BY <1>5
  <2> HIDE DEF m, n, i, j
  <2>4. j = i - n + m
    BY <2>1, <2>2, <2>3
  <2> QED BY <1>1, <1>7, <2>4 DEF m, n, i, j
<1>9. Fits(w.pool, [tables EXCEPT ![r] = w.table])
  BY <1>5, <1>8, FitsUpdate
<1> QED BY <1>6, <1>9

\* Blocks of a table are freed once for every place in it.
LEMMA FitsFree ==
    ASSUME NEW p, NEW T, Fits(p, T), NEW r \in Request, NEW x \in Tables \cup {NoTable}, NEW ids \in Seq(Block),
           \A b \in Block : Occ(IdsOf(T[r]), b) = Occ(IdsOf(x), b) + Occ(ids, b)
    PROVE  Fits(Each("free", p, ids), [T EXCEPT ![r] = x])
<1> DEFINE q == Each("free", p, ids)
<1>1. Exact(p) /\ T \in AllTables
  BY DEF Fits
<1>2. ASSUME NEW b \in Block
      PROVE  /\ Occ(ids, b) \in Nat /\ Occ(IdsOf(T[r]), b) \in Nat /\ Occ(IdsOf(x), b) \in Nat
             /\ Occ(IdsOf(T[r]), b) <= p.ref[b]
  <2>1. Recounts(T, r, x, b) /\ p.ref[b] = Count(T, b)
    BY <1>1, CountUpdate DEF Fits
  <2> QED BY <2>1, OccNat DEF Recounts
<1>3. ASSUME NEW b \in Block PROVE Occ(ids, b) <= p.ref[b]
  <2>1. p.ref[b] \in Int
    BY <1>1, PoolParts DEF Exact
  <2> QED BY <1>2, <2>1
<1>4. Exact(q) /\ More(q, p, ids)
  BY <1>1, <1>3, EachGives
<1> HIDE DEF q
<1>5. ASSUME NEW b \in Block PROVE q.ref[b] = p.ref[b] - Occ(IdsOf(T[r]), b) + Occ(IdsOf(x), b)
  <2>1. p.ref[b] = q.ref[b] + Occ(ids, b) /\ p.ref[b] \in Int /\ q.ref[b] \in Int
    BY <1>1, <1>4, PoolParts DEF More, Exact
  <2> QED BY <1>2, <2>1
<1> QED BY <1>4, <1>5, FitsUpdate DEF q

LEMMA FitsRelease ==
    ASSUME Typed, Fits(pool, tables), NEW r \in Request, ReleaseFetched(r)
    PROVE  Fits(pool', tables')
<1>1. /\ IdsOf(tables[r]) \in Seq(Block) /\ Forget(r) /\ r \notin entries
      /\ pool' = Each("free", pool, IdsOf(tables[r]))
  BY ReleaseIs DEF ReleaseFetched
<1>2. \A b \in Block : Occ(IdsOf(tables[r]), b) = Occ(IdsOf(NoTable), b) + Occ(IdsOf(tables[r]), b)
  <2>1. \A b \in Block : Occ(IdsOf(tables[r]), b) \in Nat /\ Occ(IdsOf(NoTable), b) = 0
    BY <1>1, OccNat, OccEmpty, NoTableCounts
  <2> QED BY <2>1
<1>3. Fits(Each("free", pool, IdsOf(tables[r])), [tables EXCEPT ![r] = NoTable])
  BY <1>1, <1>2, FitsFree
<1> QED BY <1>1, <1>3 DEF Forget

LEMMA FitsTrim ==
    ASSUME Typed, Fits(pool, tables), NEW r \in Request, NEW target \in Nat, TrimBlockTable(r, target)
    PROVE  Fits(pool', tables')
<1>1. PICK m \in Nat, x \in Tables :
              LET ids == tables[r].ids
              IN  /\ tables[r] \in Tables /\ m \in 0..Len(ids)
                  /\ SubSeq(ids, m + 1, Len(ids)) \in Seq(Block)
                  /\ pool' = Each("free", pool, SubSeq(ids, m + 1, Len(ids)))
                  /\ x.ids = SubSeq(ids, 1, m) /\ tables' = [tables EXCEPT ![r] = x]
                  /\ claimed' = [claimed EXCEPT ![r] = x.tokens]
                  /\ UNCHANGED <<caches, entries, buckets, text>>
  BY TrimIs
<1> DEFINE ids == tables[r].ids
           cut == SubSeq(ids, m + 1, Len(ids))
<1>2. /\ ids \in Seq(Block) /\ IdsOf(tables[r]) = ids /\ IdsOf(x) = SubSeq(ids, 1, m) /\ m \in 0..Len(ids)
      /\ cut \in Seq(Block) /\ pool' = Each("free", pool, cut) /\ tables' = [tables EXCEPT ![r] = x]
  BY <1>1, NoTableCounts DEF Tables
<1> HIDE DEF ids
<1>3. \A b \in Block : Occ(ids, b) = Occ(SubSeq(ids, 1, m), b) + Occ(cut, b)
  BY <1>2, OccCut
<1> HIDE DEF cut
<1>4. Fits(Each("free", pool, cut), [tables EXCEPT ![r] = x])
  BY <1>2, <1>3, FitsFree
<1> QED BY <1>2, <1>4

LEMMA FitsFork ==
    ASSUME Typed, Fits(pool, tables), NEW r \in Request, NEW s \in Request, ForkCache(r, s)
    PROVE  Fits(pool', tables')
<1> DEFINE ids == tables[r].ids
           q == Each("reference", pool, ids)
<1>1. /\ tables[r] \in Tables /\ ids \in Seq(Block) /\ tables[s] = NoTable
      /\ pool' = q /\ tables' = [tables EXCEPT ![s] = tables[r]]
  BY ForkIs
<1>2. IdsOf(tables[r]) = ids /\ IdsOf(tables[s]) = <<>>
  BY <1>1, NoTableCounts
<1> HIDE DEF ids
<1>3. Exact(pool) /\ tables \in AllTables /\ \A b \in Block : pool.ref[b] \in Int
  BY PoolParts DEF Fits, Exact
<1>4. ToSet(ids) \subseteq pool.allocated
  <2> SUFFICES ASSUME NEW b \in ToSet(ids) PROVE b \in pool.allocated
    OBVIOUS
  <2>1. b \in Block
    BY <1>1, SetOf
  <2>2. Occ(ids, b) >= 1 /\ Occ(ids, b) \in Nat
    BY <1>1, OccIn, OccNat
  <2>3. Recounts(tables, r, NoTable, b)
    BY <1>3, CountUpdate
  <2>4. pool.ref[b] > 0
    BY <1>2, <1>3, <2>1, <2>2, <2>3 DEF Fits, Recounts
  <2> QED BY <1>3, <2>1, <2>4 DEF Exact
<1>5. Exact(q) /\ More(pool, q, ids)
  BY <1>1, <1>3, <1>4, EachTakes
<1> HIDE DEF q
<1>6. ASSUME NEW b \in Block PROVE q.ref[b] = pool.ref[b] - Occ(IdsOf(tables[s]), b) + Occ(IdsOf(tables[r]), b)
  <2>1. q.ref[b] = pool.ref[b] + Occ(ids, b) /\ pool.ref[b] \in Int
    BY <1>3, <1>5 DEF More
  <2>2. Occ(ids, b) \in Nat /\ Occ(IdsOf(tables[s]), b) = 0
    BY <1>1, <1>2, OccNat, OccEmpty
  <2> QED BY <1>2, <2>1, <2>2
<1>7. Fits(q, [tables EXCEPT ![s] = tables[r]])
  BY <1>1, <1>5, <1>6, FitsUpdate
<1> QED BY <1>1, <1>7

\* The callers keep to their options.
LEMMA CallsStay == [Next]_vars => calls' = calls
BY DEF Next, vars

\* The references fit the tables as long as no caller releases entries.
FitsUnreleased == "release" \in calls \/ Fits(pool, tables)

LEMMA FitsNext == Typed /\ FitsUnreleased /\ [Next]_vars => FitsUnreleased'
<1> SUFFICES ASSUME Typed, FitsUnreleased, [Next]_vars, "release" \notin calls PROVE Fits(pool', tables')
  BY CallsStay DEF FitsUnreleased
<1>0. Fits(pool, tables)
  BY DEF FitsUnreleased
<1>1. CASE Next
  <2>1. PICK r \in Request :
              \/ \E t \in Seq(Token) : FetchCache(r, t)
              \/ \E t \in Seq(Token), type \in Types : StoreCache(r, t, type)
              \/ ReleaseFetched(r)
              \/ \E n \in Nat : TrimBlockTable(r, n)
              \/ \E s \in Request : ForkCache(r, s)
              \/ "release" \in calls /\ ReleaseStored(r)
    BY <1>1, Moves
  <2> QED BY <1>0, <2>1, FitsFetch, FitsStore, FitsRelease, FitsTrim, FitsFork
<1>2. CASE UNCHANGED vars
  BY <1>0, <1>2 DEF vars
<1> QED BY <1>1, <1>2

LEMMA FitsGives == FitsUnreleased => UnreleasedRefsMatch /\ AllocationAnswers
<1> SUFFICES ASSUME Fits(pool, tables) PROVE RefsMatchTables /\ AllocationAnswers
  BY DEF FitsUnreleased, UnreleasedRefsMatch, AllocationAnswers
<1>1. Holding(pool.list, {b \in Block : pool.ref[b] = 0}) /\ pool.list \in Lists
  BY PoolParts DEF Fits, Exact
<1>2. \A b \in Block : pool.ref[b] = Uses(b)
  BY UsesIs DEF Fits
<1>3. \A b \in Block : Linked(pool.list, b) <=> pool.ref[b] = 0
  <2> TAKE b \in Block
  <2>1. Linked(pool.list, b) <=> b \in {c \in Block : pool.ref[c] = 0}
    BY <1>1, HoldTells
  <2> QED BY <2>1
<1>4. AllocationAnswers
  <2> SUFFICES ASSUME pool.list.num > 0 PROVE FirstFree(pool.list) \in Block
    BY DEF AllocationAnswers
  <2>1. pool.list.num # 0
    BY <1>1 DEF Lists
  <2> DEFINE S == {b \in Block : pool.ref[b] = 0}
  <2>2. S \subseteq Block
    OBVIOUS
  <2> HIDE DEF S
  <2>3. Holding(pool.list, S)
    BY <1>1 DEF S
  <2>4. FirstFree(pool.list) \in S
    BY <2>1, <2>3, HoldPop
  <2> QED BY <2>2, <2>4
<1> QED BY <1>2, <1>3, <1>4 DEF RefsMatchTables

\* As long as no entry is released, every block has one reference for each
\* place in a table and is in the free queue exactly when there is none,
\* across lookups, stores that stop half-way, forks, trims and the release of
\* what was only fetched (prefix_cache.py, paged_cache.py).
THEOREM PrefixRefsMatch == Spec => []UnreleasedRefsMatch
<1>1. Init => FitsUnreleased
  BY FitsInit DEF FitsUnreleased
<1>2. FitsUnreleased => UnreleasedRefsMatch
  BY FitsGives
<1> QED BY <1>1, <1>2, FitsNext, TypedAlways, PTL DEF Spec

\* As long as no entry is released, popleft finds a block whenever
\* num_free_blocks promises one (allocate_block, paged_cache.py).
THEOREM PrefixAllocationAnswers == Spec => []AllocationAnswers
<1>1. Init => FitsUnreleased
  BY FitsInit DEF FitsUnreleased
<1>2. FitsUnreleased => AllocationAnswers
  BY FitsGives
<1> QED BY <1>1, <1>2, FitsNext, TypedAlways, PTL DEF Spec
-----------------------------------------------------------------------------
(* References and tables, whatever is called                                *)

Bounded(p, T) == Sound(p) /\ T \in AllTables /\ \A b \in Block : p.ref[b] <= Count(T, b)

LEMMA SoundInts == \A p : Sound(p) => \A b \in Block : p.ref[b] \in Int
BY PoolParts DEF Sound

LEMMA BoundedInit == Init => Bounded(pool, tables)
<1> SUFFICES ASSUME Init PROVE Bounded(pool, tables)
  OBVIOUS
<1>1. Fits(pool, tables)
  BY FitsInit
<1>2. PICK s \in SetToSeqs(Block) : pool = [list |-> ListOf(s), ref |-> [b \in Block |-> 0], allocated |-> {}]
  BY DEF Init
<1>3. Holding(pool.list, Block) /\ \A b \in Block : pool.ref[b] = 0
  BY <1>2, HoldStart
<1>4. \A b \in Block : Removable(pool.list, b)
  BY <1>3, HoldTells
<1>5. pool.list.prev[FakeTail] # Nil
  <2>1. PICK u \in Seq(Block) : Threads(pool.list, u)
    BY <1>3 DEF Holding
  <2>2. /\ Len(u) \in 0..Len(u) /\ Len(u) \in 0..(Len(u) + 1)
        /\ At(u, Len(u) + 1) = FakeTail /\ \A i \in 0..(Len(u) + 1) : At(u, i) \in Node
    BY <2>1, Places DEF Threads
  <2>3. pool.list.prev[FakeTail] = At(u, Len(u)) /\ At(u, Len(u)) \in Node
    BY <2>1, <2>2 DEF Threads
  <2>4. Nil \notin Node
    BY BlockListAssumption DEF Node
  <2> QED BY <2>3, <2>4
<1>6. Sound(pool)
  BY <1>1, <1>3, <1>4, <1>5 DEF Sound, Fits, Exact
<1>7. \A b \in Block : pool.ref[b] <= Count(tables, b)
  <2> TAKE b \in Block
  <2>1. pool.ref[b] = 0 /\ pool.ref[b] = Count(tables, b)
    BY <1>1, <1>3 DEF Fits
  <2> QED BY <2>1
<1> QED BY <1>1, <1>6, <1>7 DEF Bounded, Fits

\* No count gets above what it was, plus the places that took a reference.
LEMMA BoundedLookup ==
    ASSUME NEW p, Sound(p), NEW T \in AllTables, \A b \in Block : p.ref[b] <= Count(T, b),
           NEW long \in Seq(Block), NEW short \in Seq(Block), NEW given, NEW kept,
           (given = long /\ kept = short) \/ (given = short /\ kept = long)
    PROVE  LET q == Each("release", Each("touch", Each("touch", p, long), short), given)
               w == Each("release", q, kept)
           IN  /\ Sound(q) /\ \A b \in Block : q.ref[b] <= Count(T, b) + Occ(kept, b)
               /\ Sound(w) /\ \A b \in Block : w.ref[b] <= Count(T, b)
<1> DEFINE p1 == Each("touch", p, long)
           p2 == Each("touch", p1, short)
           q == Each("release", p2, given)
           w == Each("release", q, kept)
<1>1. given \in Seq(Block) /\ kept \in Seq(Block)
  OBVIOUS
<1>2. Sound(p1) /\ AtMostMore(p, p1, long)
  BY EachSoundTakes
<1> HIDE DEF p1
<1>3. Sound(p2) /\ AtMostMore(p1, p2, short)
  BY <1>2, EachSoundTakes
<1> HIDE DEF p2
<1>4. Sound(q) /\ LessOrNone(p2, q, given)
  BY <1>1, <1>3, EachSoundGives
<1> HIDE DEF q
<1>5. Sound(w) /\ LessOrNone(q, w, kept)
  BY <1>1, <1>4, EachSoundGives
<1> HIDE DEF w
<1>6. ASSUME NEW b \in Block
      PROVE  q.ref[b] <= Count(T, b) + Occ(kept, b) /\ w.ref[b] <= Count(T, b)
  <2> DEFINE n == Count(T, b)
             a == Occ(long, b)
             c == Occ(short, b)
             g == Occ(given, b)
             k == Occ(kept, b)
             i == p.ref[b]
             i1 == p1.ref[b]
             i2 == p2.ref[b]
             j == q.ref[b]
             m == w.ref[b]
  <2>1. n \in Nat /\ a \in Nat /\ c \in Nat /\ g \in Nat /\ k \in Nat
    BY <1>1, CountNat, OccNat
  <2>2. i \in Int /\ i1 \in Int /\ i2 \in Int /\ j \in Int /\ m \in Int
    BY <1>2, <1>3, <1>4, <1>5, SoundInts
  <2>3. i <= n /\ i1 <= i + a /\ i2 <= i1 + c /\ a + c = g + k
    BY <1>2, <1>3, <2>1 DEF AtMostMore
  <2>4. j <= i2 - g \/ j <= 0
    BY <1>4 DEF LessOrNone
  <2>5. m <= j - k \/ m <= 0
    BY <1>5 DEF LessOrNone
  <2> HIDE DEF n, a, c, g, k, i, i1, i2, j, m
  <2>6. j <= n + k /\ m <= n
    BY <2>1, <2>2, <2>3, <2>4, <2>5
  <2> QED BY <2>6 DEF n, k, j, m
<1> QED BY <1>4, <1>5, <1>6 DEF w, q, p2, p1

\* A table of r that changes.
LEMMA BoundedUpdate ==
    ASSUME NEW T \in AllTables, NEW r \in Request, NEW x \in Tables \cup {NoTable}, NEW q, Sound(q),
           \A b \in Block : q.ref[b] <= Count(T, b) - Occ(IdsOf(T[r]), b) + Occ(IdsOf(x), b)
    PROVE  Bounded(q, [T EXCEPT ![r] = x])
<1>1. [T EXCEPT ![r] = x] \in AllTables
  BY DEF AllTables
<1>2. \A b \in Block : q.ref[b] <= Count([T EXCEPT ![r] = x], b)
  <2> TAKE b \in Block
  <2>1. Recounts(T, r, x, b)
    BY CountUpdate
  <2>2. q.ref[b] <= Count(T, b) - Occ(IdsOf(T[r]), b) + Occ(IdsOf(x), b)
    OBVIOUS
  <2> QED BY <2>1, <2>2 DEF Recounts
<1> QED BY <1>1, <1>2 DEF Bounded

LEMMA BoundedFetch ==
    ASSUME Typed, Bounded(pool, tables), NEW r \in Request, NEW t \in Seq(Token), FetchCache(r, t)
    PROVE  Bounded(pool', tables')
<1>1. tables[r] = NoTable /\ IdsOf(tables[r]) = <<>>
  BY FetchIs, NoTableCounts
<1>2. PICK long, short, given, kept \in Seq(Block) :
         HitIs(t, long, short, given, kept) /\ FetchEnds(r, LookedUp(t).pool, kept)
  BY FetchIs
<1> DEFINE q == LookedUp(t).pool
           w == Each("release", q, kept)
<1>3. Sound(pool) /\ tables \in AllTables /\ \A b \in Block : pool.ref[b] <= Count(tables, b)
  BY DEF Bounded
<1>4. /\ Sound(q) /\ (\A b \in Block : q.ref[b] <= Count(tables, b) + Occ(kept, b))
      /\ Sound(w) /\ (\A b \in Block : w.ref[b] <= Count(tables, b))
  <2>1. /\ (given = long /\ kept = short) \/ (given = short /\ kept = long)
        /\ q = Each("release", Each("touch", Each("touch", pool, long), short), given)
    BY <1>2 DEF HitIs
  <2> HIDE DEF q
  <2> QED BY <1>3, <2>1, BoundedLookup
<1> HIDE DEF q
<1>5. FetchEnds(r, q, kept)
  BY <1>2 DEF q
<1> HIDE DEF w
<1>6. \A b \in Block : Count(tables, b) \in Nat /\ Occ(IdsOf(tables[r]), b) = 0
  BY <1>1, <1>3, OccEmpty, CountNat
<1>7. CASE \E x \in Tables : x.ids = kept /\ pool' = q /\ tables' = [tables EXCEPT ![r] = x]
  <2>1. PICK x \in Tables : x.ids = kept /\ pool' = q /\ tables' = [tables EXCEPT ![r] = x]
    BY <1>7
  <2>2. IdsOf(x) = kept
    BY <2>1, NoTableCounts
  <2>3. \A b \in Block : q.ref[b] <= Count(tables, b) - Occ(IdsOf(tables[r]), b) + Occ(IdsOf(x), b)
    BY <1>4, <1>6, <2>2
  <2>4. Bounded(q, [tables EXCEPT ![r] = x])
    BY <1>3, <1>4, <2>3, BoundedUpdate
  <2> QED BY <2>1, <2>4
<1>8. CASE \E x \in Tables : /\ ToSet(x.ids) \subseteq w.allocated
                             /\ pool' = Each("reference", w, x.ids)
                             /\ tables' = [tables EXCEPT ![r] = x]
  <2>1. PICK x \in Tables : /\ pool' = Each("reference", w, x.ids)
                            /\ tables' = [tables EXCEPT ![r] = x]
    BY <1>8
  <2> DEFINE v == Each("reference", w, x.ids)
  <2>2. IdsOf(x) = x.ids /\ x.ids \in Seq(Block)
    BY NoTableCounts DEF Tables
  <2>3. \A b \in Block : Occ(x.ids, b) \in Nat
    BY <2>2, OccNat
  <2>4. Sound(v) /\ AtMostMore(w, v, x.ids)
    BY <1>4, <2>2, EachSoundTakes
  <2> HIDE DEF v
  <2>5. ASSUME NEW b \in Block
        PROVE  v.ref[b] <= Count(tables, b) - Occ(IdsOf(tables[r]), b) + Occ(IdsOf(x), b)
    <3>1. v.ref[b] <= w.ref[b] + Occ(x.ids, b) /\ w.ref[b] <= Count(tables, b)
      BY <1>4, <2>4 DEF AtMostMore
    <3>2. v.ref[b] \in Int /\ w.ref[b] \in Int
      BY <1>4, <2>4, SoundInts
    <3> QED BY <1>6, <2>2, <2>3, <3>1, <3>2
  <2>6. Bounded(v, [tables EXCEPT ![r] = x])
    BY <1>3, <2>4, <2>5, BoundedUpdate
  <2> QED BY <2>1, <2>6 DEF v
<1>9. CASE pool' = w /\ tables' = tables
  BY <1>3, <1>4, <1>9 DEF Bounded
<1> QED BY <1>5, <1>7, <1>8, <1>9 DEF FetchEnds, w
LEMMA BoundedRound ==
    ASSUME NEW w \in Loop, Sound(w.pool), NEW t, Stores(w), NEW base \in [Block -> Nat],
           \A c \in Block : w.pool.ref[c] <= base[c] + Occ(w.table.ids, c)
    PROVE  /\ Sound(StoreBlock(w, t).pool)
           /\ \A c \in Block : StoreBlock(w, t).pool.ref[c] <= base[c] + Occ(StoreBlock(w, t).table.ids, c)
<1> DEFINE b == FirstFree(w.pool.list)
           p == w.pool
           v == StoreBlock(w, t)
           f == [p.ref EXCEPT ![b] = 1]
<1>1. RoundOf(w, v, t, b) /\ b \in Block
  BY RoundIs DEF Stores
<1>2. /\ p \in Pools /\ p.list.prev[FakeTail] # Nil
      /\ (\A c \in Block : c \notin p.allocated => p.ref[c] <= 0 /\ Removable(p.list, c))
      /\ p.list \in Lists /\ p.ref \in [Block -> Int] /\ p.allocated \in SUBSET Block /\ w.table.ids \in Seq(Block)
  BY PoolParts DEF Sound, Loop, LoopRecord, Tables
<1>3. /\ PoppedLeft(p.list) \in Lists /\ PoppedLeft(p.list).prev[FakeTail] # Nil
      /\ \A c \in Block \ {b} : Removable(p.list, c) => Removable(PoppedLeft(p.list), c)
  BY <1>1, <1>2, ListsClosed, PointersKept
<1> HIDE DEF b, v
<1>4. /\ v.pool = [list |-> PoppedLeft(p.list), ref |-> f, allocated |-> p.allocated \cup {b}]
      /\ v.table.ids = Append(w.table.ids, b)
  <2>1. v.table = [ids |-> Append(w.table.ids, b), tokens |-> Stop(w, t)]
    BY <1>1 DEF RoundOf
  <2> QED BY <1>1, <2>1 DEF RoundOf
<1> HIDE DEF p
<1>5. f \in [Block -> Int] /\ f[b] = 1 /\ (\A c \in Block : c # b => f[c] = p.ref[c])
  BY <1>1, <1>2
<1> HIDE DEF f
<1>6. v.pool.list = PoppedLeft(p.list) /\ v.pool.ref = f /\ v.pool.allocated = p.allocated \cup {b}
  BY <1>4
<1>7. Sound(v.pool)
  <2>1. v.pool \in Pools
    BY <1>1, <1>2, <1>3, <1>4, <1>5 DEF Pools
  <2>2. \A c \in Block : c \notin v.pool.allocated => v.pool.ref[c] <= 0 /\ Removable(v.pool.list, c)
    BY <1>2, <1>3, <1>5, <1>6
  <2> QED BY <1>3, <1>6, <2>1, <2>2 DEF Sound
<1>8. ASSUME NEW c \in Block PROVE f[c] <= base[c] + Occ(v.table.ids, c)
  <2>1. Occ(Append(w.table.ids, b), c) = Occ(w.table.ids, c) + IF b = c THEN 1 ELSE 0
    BY <1>1, <1>2, OccAppend
  <2>2. Occ(w.table.ids, c) \in Nat /\ base[c] \in Nat
    BY <1>2, OccNat
  <2>3. p.ref[c] \in Int /\ p.ref[c] <= base[c] + Occ(w.table.ids, c)
    BY <1>2 DEF p
  <2>4. f[c] = IF b = c THEN 1 ELSE p.ref[c]
    BY <1>5
  <2> DEFINE m == Occ(w.table.ids, c)
             i == p.ref[c]
             j == base[c]
  <2> HIDE DEF m, i, j
  <2>5. m \in Nat /\ j \in Nat /\ i \in Int /\ i <= j + m
    BY <2>2, <2>3 DEF m, i, j
  <2>6. (IF b = c THEN 1 ELSE i) <= j + (m + IF b = c THEN 1 ELSE 0)
    BY <2>5
  <2> QED BY <1>4, <2>1, <2>4, <2>6 DEF m, i, j
<1> QED BY <1>6, <1>7, <1>8 DEF v

LEMMA BoundedStore ==
    ASSUME Typed, Bounded(pool, tables), NEW r \in Request, NEW t \in Seq(Token), NEW type \in Types,
           StoreCache(r, t, type)
    PROVE  Bounded(pool', tables')
<1> DEFINE table == TableOf(r)
           begin == BeginOf(r)
           w == Stored(t, table, begin)
           base == [c \in Block |-> Count(tables, c) - Occ(IdsOf(tables[r]), c)]
           Below(v) == \A c \in Block : v.pool.ref[c] <= base[c] + Occ(v.table.ids, c)
           I == {v \in Loop : Sound(v.pool) /\ Below(v)}
<1>1. /\ table \in Tables /\ table.ids = IdsOf(tables[r]) /\ table.tokens < Len(t)
      /\ begin \in 0..table.tokens /\ w \in Loop /\ StoreEnds(r, t, type, w)
  BY StoreIs, TableOfIs
<1>2. Sound(pool) /\ tables \in AllTables /\ \A b \in Block : pool.ref[b] <= Count(tables, b)
  BY DEF Bounded
<1> HIDE DEF table, begin
<1>3. ASSUME NEW c \in Block
      PROVE  /\ Count(tables, c) \in Nat /\ Occ(table.ids, c) \in Nat
             /\ base[c] = Count(tables, c) - Occ(table.ids, c) /\ base[c] \in Nat
  <2>1. Recounts(tables, r, NoTable, c)
    BY <1>2, CountUpdate
  <2> QED BY <1>1, <2>1 DEF Recounts
<1>4. base \in [Block -> Nat]
  <2>1. base = [c \in Block |-> base[c]]
    OBVIOUS
  <2> HIDE DEF base
  <2> QED BY <1>3, <2>1
<1> HIDE DEF base
<1>5. Start(t, table, begin) \in I
  <2>1. Start(t, table, begin) \in Loop
    BY <1>1, StartTypes
  <2>2. Start(t, table, begin).pool = pool /\ Start(t, table, begin).table = table
    BY DEF Start
  <2>3. ASSUME NEW c \in Block PROVE pool.ref[c] <= base[c] + Occ(table.ids, c)
    <3>1. pool.ref[c] \in Int /\ pool.ref[c] <= Count(tables, c)
      BY <1>2, SoundInts
    <3> QED BY <1>3, <3>1
  <2> QED BY <1>2, <2>1, <2>2, <2>3
<1>6. ASSUME NEW v \in I, v.table.tokens < Len(t) \/ v.end # "no"
      PROVE  StoreBlock(v, t) \in I
  <2>1. StoreBlock(v, t) \in Loop
    BY <1>6, RoundTypes
  <2>2. v \in Loop /\ Sound(v.pool) /\ Below(v)
    OBVIOUS
  <2>3. CASE ~ Stores(v)
    <3>1. StoreBlock(v, t).pool = v.pool /\ StoreBlock(v, t).table = v.table
      BY <2>2, <2>3, NoRound
    <3> QED BY <2>1, <2>2, <3>1
  <2>4. CASE Stores(v)
    <3>1. /\ Sound(StoreBlock(v, t).pool)
          /\ \A c \in Block : StoreBlock(v, t).pool.ref[c] <= base[c] + Occ(StoreBlock(v, t).table.ids, c)
      BY <1>4, <2>2, <2>4, BoundedRound
    <3> QED BY <2>1, <3>1
  <2> QED BY <2>3, <2>4
<1>7. w \in I
  <2>1. I \in SUBSET Loop
    OBVIOUS
  <2> HIDE DEF I
  <2> QED BY <1>1, <1>5, <1>6, <2>1, LoopKeeps
<1>8. Sound(w.pool) /\ Below(w) /\ w.table \in Tables
  BY <1>7 DEF Loop, LoopRecord
<1>9. pool' = w.pool /\ tables' = [tables EXCEPT ![r] = w.table]
  BY <1>1 DEF StoreEnds
<1> HIDE DEF w, I
<1>10. IdsOf(w.table) = w.table.ids
  BY <1>8, NoTableCounts
<1>11. \A b \in Block : w.pool.ref[b] <= Count(tables, b) - Occ(IdsOf(tables[r]), b) + Occ(IdsOf(w.table), b)
  <2> TAKE b \in Block
  <2>1. w.pool.ref[b] <= base[b] + Occ(w.table.ids, b)
    BY <1>8
  <2> QED BY <1>1, <1>3, <1>10, <2>1
<1>12. Bounded(w.pool, [tables EXCEPT ![r] = w.table])
  BY <1>2, <1>8, <1>11, BoundedUpdate
<1> QED BY <1>9, <1>12

\* Blocks of a table are freed: the counts that stay above 0 go down with it.
LEMMA BoundedFree ==
    ASSUME NEW T \in AllTables, NEW r \in Request, NEW x \in Tables \cup {NoTable}, NEW ids \in Seq(Block),
           \A b \in Block : Occ(IdsOf(T[r]), b) = Occ(IdsOf(x), b) + Occ(ids, b),
           NEW p, NEW q, Sound(q), LessOrNone(p, q, ids), \A b \in Block : p.ref[b] \in Int /\ p.ref[b] <= Count(T, b)
    PROVE  Bounded(q, [T EXCEPT ![r] = x])
<1>1. ASSUME NEW b \in Block PROVE q.ref[b] <= Count(T, b) - Occ(IdsOf(T[r]), b) + Occ(IdsOf(x), b)
  <2> DEFINE m == Occ(IdsOf(T[r]), b)
             n == Occ(IdsOf(x), b)
             k == Occ(ids, b)
             c == Count(T, b)
             i == p.ref[b]
             j == q.ref[b]
  <2>1. m \in Nat /\ n \in Nat /\ k \in Nat /\ c \in Nat /\ m <= c /\ m = n + k
    <3>1. Recounts(T, r, x, b)
      BY CountUpdate
    <3> QED BY <3>1, OccNat DEF Recounts
  <2>2. i \in Int /\ j \in Int /\ i <= c
    BY SoundInts
  <2>3. j <= i - k \/ j <= 0
    BY DEF LessOrNone
  <2> HIDE DEF m, n, k, c, i, j
  <2>4. j <= c - m + n
    BY <2>1, <2>2, <2>3
  <2> QED BY <2>4 DEF m, n, c, j
<1> QED BY <1>1, BoundedUpdate

LEMMA BoundedRelease ==
    ASSUME Typed, Bounded(pool, tables), NEW r \in Request, ReleaseFetched(r) \/ ReleaseStored(r)
    PROVE  Bounded(pool', tables')
<1> DEFINE ids == IdsOf(tables[r])
           p == Each("release", pool, ids)
<1>1. /\ ids \in Seq(Block) /\ Forget(r)
      /\ pool' = Each("free", pool, ids) \/ pool' = Each("free", p, ids)
  BY ReleaseIs
<1>2. Sound(pool) /\ tables \in AllTables /\ \A b \in Block : pool.ref[b] \in Int /\ pool.ref[b] <= Count(tables, b)
  BY SoundInts DEF Bounded
<1>3. \A b \in Block : Occ(ids, b) = Occ(IdsOf(NoTable), b) + Occ(ids, b)
  <2>1. \A b \in Block : Occ(ids, b) \in Nat /\ Occ(IdsOf(NoTable), b) = 0
    BY <1>1, OccNat, OccEmpty, NoTableCounts
  <2> QED BY <2>1
<1>4. tables' = [tables EXCEPT ![r] = NoTable]
  BY <1>1 DEF Forget
<1>5. CASE pool' = Each("free", pool, ids)
  <2> DEFINE q == Each("free", pool, ids)
  <2>1. Sound(q) /\ LessOrNone(pool, q, ids)
    BY <1>1, <1>2, EachSoundGives
  <2> HIDE DEF q, p
  <2>2. Bounded(q, [tables EXCEPT ![r] = NoTable])
    BY <1>1, <1>2, <1>3, <2>1, BoundedFree
  <2> QED BY <1>4, <1>5, <2>2 DEF q
<1>6. CASE pool' = Each("free", p, ids)
  <2>1. Sound(p) /\ LessOrNone(pool, p, ids)
    BY <1>1, <1>2, EachSoundGives
  <2> HIDE DEF p
  <2> DEFINE q == Each("free", p, ids)
  <2>2. Sound(q) /\ LessOrNone(p, q, ids)
    BY <1>1, <2>1, EachSoundGives
  <2> HIDE DEF q
  <2>3. ASSUME NEW b \in Block PROVE p.ref[b] \in Int /\ p.ref[b] <= Count(tables, b)
    <3>1. p.ref[b] \in Int /\ p.ref[b] <= pool.ref[b]
      BY <2>1, SoundInts DEF LessOrNone
    <3>2. Count(tables, b) \in Nat /\ pool.ref[b] \in Int /\ pool.ref[b] <= Count(tables, b)
      BY <1>2, CountNat
    <3> QED BY <3>1, <3>2
  <2>4. Bounded(q, [tables EXCEPT ![r] = NoTable])
    BY <1>1, <1>2, <1>3, <2>2, <2>3, BoundedFree
  <2> QED BY <1>4, <1>6, <2>4 DEF q
<1> QED BY <1>1, <1>5, <1>6

LEMMA BoundedTrim ==
    ASSUME Typed, Bounded(pool, tables), NEW r \in Request, NEW target \in Nat, TrimBlockTable(r, target)
    PROVE  Bounded(pool', tables')
<1>1. PICK m \in Nat, x \in Tables :
              LET ids == tables[r].ids
              IN  /\ tables[r] \in Tables /\ m \in 0..Len(ids)
                  /\ SubSeq(ids, m + 1, Len(ids)) \in Seq(Block)
                  /\ pool' = Each("free", pool, SubSeq(ids, m + 1, Len(ids)))
                  /\ x.ids = SubSeq(ids, 1, m) /\ tables' = [tables EXCEPT ![r] = x]
                  /\ claimed' = [claimed EXCEPT ![r] = x.tokens]
                  /\ UNCHANGED <<caches, entries, buckets, text>>
  BY TrimIs
<1> DEFINE ids == tables[r].ids
           cut == SubSeq(ids, m + 1, Len(ids))
           q == Each("free", pool, cut)
<1>2. /\ ids \in Seq(Block) /\ IdsOf(tables[r]) = ids /\ IdsOf(x) = SubSeq(ids, 1, m) /\ m \in 0..Len(ids)
      /\ cut \in Seq(Block) /\ pool' = q /\ tables' = [tables EXCEPT ![r] = x]
  BY <1>1, NoTableCounts DEF Tables
<1>3. Sound(pool) /\ tables \in AllTables /\ \A b \in Block : pool.ref[b] \in Int /\ pool.ref[b] <= Count(tables, b)
  BY SoundInts DEF Bounded
<1> HIDE DEF ids
<1>4. \A b \in Block : Occ(ids, b) = Occ(SubSeq(ids, 1, m), b) + Occ(cut, b)
  BY <1>2, OccCut
<1> HIDE DEF cut
<1>5. Sound(q) /\ LessOrNone(pool, q, cut)
  BY <1>2, <1>3, EachSoundGives
<1> HIDE DEF q
<1>6. Bounded(q, [tables EXCEPT ![r] = x])
  BY <1>2, <1>3, <1>4, <1>5, BoundedFree
<1> QED BY <1>2, <1>6

LEMMA BoundedFork ==
    ASSUME Typed, Bounded(pool, tables), NEW r \in Request, NEW s \in Request, ForkCache(r, s)
    PROVE  Bounded(pool', tables')
<1> DEFINE ids == tables[r].ids
           q == Each("reference", pool, ids)
<1>1. /\ tables[r] \in Tables /\ ids \in Seq(Block) /\ tables[s] = NoTable
      /\ pool' = q /\ tables' = [tables EXCEPT ![s] = tables[r]]
  BY ForkIs
<1>2. IdsOf(tables[r]) = ids /\ IdsOf(tables[s]) = <<>>
  BY <1>1, NoTableCounts
<1> HIDE DEF ids
<1>3. Sound(pool) /\ tables \in AllTables /\ \A b \in Block : pool.ref[b] \in Int /\ pool.ref[b] <= Count(tables, b)
  BY SoundInts DEF Bounded
<1>4. Sound(q) /\ AtMostMore(pool, q, ids)
  BY <1>1, <1>3, EachSoundTakes
<1> HIDE DEF q
<1>5. ASSUME NEW b \in Block PROVE q.ref[b] <= Count(tables, b) - Occ(IdsOf(tables[s]), b) + Occ(IdsOf(tables[r]), b)
  <2>1. q.ref[b] <= pool.ref[b] + Occ(ids, b) /\ q.ref[b] \in Int
    BY <1>4, SoundInts DEF AtMostMore
  <2>2. Occ(ids, b) \in Nat /\ Occ(IdsOf(tables[s]), b) = 0 /\ Count(tables, b) \in Nat
    BY <1>1, <1>2, <1>3, OccNat, OccEmpty, CountNat
  <2>3. pool.ref[b] \in Int /\ pool.ref[b] <= Count(tables, b)
    BY <1>3
  <2> QED BY <1>2, <2>1, <2>2, <2>3
<1>6. Bounded(q, [tables EXCEPT ![s] = tables[r]])
  BY <1>1, <1>3, <1>4, <1>5, BoundedUpdate
<1> QED BY <1>1, <1>6

LEMMA BoundedNext == Typed /\ Bounded(pool, tables) /\ [Next]_vars => Bounded(pool, tables)'
<1> SUFFICES ASSUME Typed, Bounded(pool, tables), [Next]_vars PROVE Bounded(pool', tables')
  OBVIOUS
<1>1. CASE Next
  <2>1. PICK r \in Request :
              \/ \E t \in Seq(Token) : FetchCache(r, t)
              \/ \E t \in Seq(Token), type \in Types : StoreCache(r, t, type)
              \/ ReleaseFetched(r)
              \/ \E n \in Nat : TrimBlockTable(r, n)
              \/ \E s \in Request : ForkCache(r, s)
              \/ "release" \in calls /\ ReleaseStored(r)
    BY <1>1, Moves
  <2> QED BY <2>1, BoundedFetch, BoundedStore, BoundedRelease, BoundedTrim, BoundedFork
<1>2. CASE UNCHANGED vars
  BY <1>2 DEF vars
<1> QED BY <1>1, <1>2

\* Whatever is called, also the releases that give references back twice, no
\* block counts more references than the tables name it (prefix_cache.py).
THEOREM PrefixNoLeak == Spec => []NoLeak
<1>1. Bounded(pool, tables) => NoLeak
  BY UsesIs DEF Bounded, NoLeak
<1> QED BY <1>1, BoundedInit, BoundedNext, TypedAlways, PTL DEF Spec
-----------------------------------------------------------------------------
(* What is found under a chain hash                                         *)

\* A text up to m and on to n.
LEMMA CutJoin ==
    ASSUME NEW t \in Seq(Token), NEW m \in Nat, NEW n \in Nat, m <= n, n <= Len(t)
    PROVE  SubSeq(t, 1, m) \o SubSeq(t, m + 1, n) = SubSeq(t, 1, n)
<1>1. Len(t) \in Nat
  BY LenProperties
<1>2. 1 \in 1..(Len(t) + 1) /\ m \in (1 - 1)..Len(t) /\ n \in m..Len(t)
  BY <1>1
<1> QED BY <1>2, ConcatAdjacentSubSeq

\* The chain of the full blocks of a text is the text, as far as they go.
LEMMA ChainFlat ==
    ASSUME NEW t \in Seq(Token), NEW n \in Nat, n * BlockSize <= Len(t)
    PROVE  FlattenSeq(Chain(t, n)) = SubSeq(t, 1, n * BlockSize)
<1> DEFINE K == {i \in 0..n : FlattenSeq(Chain(t, i)) = SubSeq(t, 1, i * BlockSize)}
<1>1. BlockSize \in Nat /\ Len(t) \in Nat
  BY PrefixCacheAssumption, LenProperties
<1>2. 0 \in K
  <2>1. Chain(t, 0) = <<>>
    <3>1. Chain(t, 0) \in Chains /\ Len(Chain(t, 0)) = 0
      BY ChainType
    <3> QED BY <3>1 DEF Chains
  <2>2. SubSeq(t, 1, 0) = <<>>
    OBVIOUS
  <2>3. 0 * BlockSize = 0 /\ 0 \in 0..n
    BY <1>1
  <2> QED BY <2>1, <2>2, <2>3, FlattenEmpty
<1>3. ASSUME NEW i \in 1..n, i - 1 \in K PROVE i \in K
  <2> DEFINE x == (i - 1) * BlockSize
             y == i * BlockSize
             a == Chain(t, i - 1)
             c == Chunk(t, i)
  <2>1. x \in Nat /\ y \in Nat /\ x <= y /\ y <= Len(t) /\ i \in 0..n /\ i - 1 \in Nat /\ i \in Nat
    <3>1. n - i \in Nat /\ i - 1 \in Nat /\ i \in Nat
      OBVIOUS
    <3>2. (n - i) * BlockSize \in Nat /\ x \in Nat /\ y \in Nat
      BY <1>1, <3>1
    <3>3. y = x + BlockSize /\ n * BlockSize = (n - i) * BlockSize + y
      BY <1>1, <3>1
    <3>4. y <= n * BlockSize
      BY <1>1, <3>2, <3>3
    <3> QED BY <1>1, <3>1, <3>2, <3>3, <3>4
  <2>2. FlattenSeq(a) = SubSeq(t, 1, x)
    BY <1>3
  <2> HIDE DEF x, y
  <2>3. c = SubSeq(t, x + 1, y) /\ c \in Seq(Token)
    <3>1. c = SubSeq(t, x + 1, Cut(y, Len(t)))
      BY DEF Chunk, x, y
    <3>2. Cut(y, Len(t)) = y
      BY <2>1 DEF Cut
    <3>3. SubSeq(t, x + 1, y) \in Seq(Token)
      BY <2>1, PartOfText
    <3> QED BY <3>1, <3>2, <3>3
  <2>4. /\ a \in Chains /\ Len(a) = i - 1 /\ (\A j \in 1..(i - 1) : a[j] = Chunk(t, j))
        /\ Chain(t, i) \in Chains /\ Len(Chain(t, i)) = i /\ (\A j \in 1..i : Chain(t, i)[j] = Chunk(t, j))
    BY <2>1, ChainType
  <2> HIDE DEF a, c
  <2>5. Chain(t, i) = Append(a, c)
    <3> DEFINE z == Chain(t, i)
    <3>1. z \in Chains /\ Len(z) = i /\ \A j \in 1..i : z[j] = Chunk(t, j)
      BY <2>4
    <3> HIDE DEF z
    <3>2. Append(a, c) \in Chains /\ Len(Append(a, c)) = i
          /\ Append(a, c)[i] = c /\ \A j \in 1..(i - 1) : Append(a, c)[j] = a[j]
      BY <2>1, <2>3, <2>4, AppendFacts DEF Chains
    <3>3. \A j \in 1..i : Append(a, c)[j] = z[j]
      <4> TAKE j \in 1..i
      <4>1. CASE j = i
        BY <2>1, <3>1, <3>2, <4>1 DEF c
      <4>2. CASE j # i
        <5>1. j \in 1..(i - 1)
          BY <2>1, <4>2
        <5> QED BY <2>4, <3>1, <3>2, <5>1
      <4> QED BY <4>1, <4>2
    <3>4. z = Append(a, c)
      BY <3>1, <3>2, <3>3, SeqEqual DEF Chains
    <3> QED BY <3>4 DEF z
  <2>6. FlattenSeq(Append(a, c)) = FlattenSeq(a) \o c
    BY <2>3, <2>4, FlattenAppend DEF Chains
  <2>7. SubSeq(t, 1, x) \o SubSeq(t, x + 1, y) = SubSeq(t, 1, y)
    BY <2>1, CutJoin
  <2>8. FlattenSeq(Append(a, c)) = SubSeq(t, 1, y)
    BY <2>2, <2>3, <2>6, <2>7
  <2> QED BY <2>1, <2>5, <2>8 DEF y
<1> HIDE DEF K
<1>4. \A i \in 0..n : i \in K
  BY <1>2, <1>3, UpTo
<1>5. n \in K
  BY <1>4
<1> QED BY <1>5 DEF K

\* A chain spells a text but for at most g tokens behind some full blocks.
SpellsBut(h, u, g) ==
    \E m \in 0..Len(u), n \in 0..g : m % BlockSize = 0 /\ Without(u, m, n) = FlattenSeq(h)

\* The entries under every hash are blocks with this hash and its content.
Telling(m, bl, g) ==
    \A h \in DOMAIN m : \A b \in ToSet(m[h]) : bl[b].hash = h /\ SpellsBut(h, bl[b].data.upto, g)

\* The widest gap that the stores of these callers leave.
Gap == IF "grow" \in calls THEN BlockSize - 1 ELSE 0

Tells == "full" \in calls \/ Telling(hashMap, block, Gap)

LEMMA ChainsTelling == Tells <=> ChainsSoundButForGap
BY DEF Tells, Telling, SpellsBut, Gap, ChainsSoundButForGap

\* The chain spells the text up to m and from e on, as far as the table goes.
Spelling(w, t, m, e) ==
    /\ FlattenSeq(w.parent) = SubSeq(t, 1, m) \o SubSeq(t, e + 1, w.table.tokens)
    /\ w.begin = w.existing
    /\ e <= w.table.tokens

\* A part of a text and what follows it.
LEMMA PartsJoin ==
    ASSUME NEW t \in Seq(Token), NEW e \in Nat, NEW m \in Nat, NEW n \in Nat, e <= m, m <= n, n <= Len(t)
    PROVE  SubSeq(t, e + 1, m) \o SubSeq(t, m + 1, n) = SubSeq(t, e + 1, n)
<1>1. Len(t) \in Nat
  BY LenProperties
<1>2. e + 1 \in 1..(Len(t) + 1) /\ m \in ((e + 1) - 1)..Len(t) /\ n \in m..Len(t)
  BY <1>1
<1> QED BY <1>2, ConcatAdjacentSubSeq

\* The text up to s without what lies between m and e.
GapIs(t, m, e, s) ==
    /\ Len(SubSeq(t, 1, s)) = s
    /\ Without(SubSeq(t, 1, s), m, e - m) = SubSeq(t, 1, m) \o SubSeq(t, e + 1, s)

LEMMA WithoutGap ==
    \A t \in Seq(Token), m, e, s \in Nat : m <= e /\ e <= s /\ s <= Len(t) => GapIs(t, m, e, s)
<1> SUFFICES ASSUME NEW t \in Seq(Token), NEW m \in Nat, NEW e \in Nat, NEW s \in Nat,
                    m <= e, e <= s, s <= Len(t)
             PROVE  GapIs(t, m, e, s)
  OBVIOUS
<1> DEFINE u == SubSeq(t, 1, s)
<1>1. Len(t) \in Nat
  BY LenProperties
<1>2. Len(u) = s
  <2>1. \A i \in 1..s : t[i] \in Token
    <3>1. \A i \in 1..s : i \in 1..Len(t)
      BY <1>1
    <3> QED BY <3>1, ElementOfSeq
  <2>2. Len(u) = IF 1 <= s THEN s - 1 + 1 ELSE 0
    BY <2>1, SubSeqProperties
  <2> QED BY <2>2
<1>3. SubSeq(u, 1, m) = SubSeq(t, 1, m)
  OBVIOUS
<1>4. SubSeq(u, e + 1, s) = SubSeq(t, e + 1, s)
  OBVIOUS
<1> HIDE DEF u
<1>5. m + (e - m) + 1 = e + 1
  OBVIOUS
<1>6. Without(u, m, e - m) = SubSeq(u, 1, m) \o SubSeq(u, e + 1, s)
  BY <1>2, <1>5 DEF Without
<1> QED BY <1>2, <1>3, <1>4, <1>6 DEF u, GapIs

\* A round stores the content of its hash, and takes the block out of the
\* entries of its former hash.
LEMMA TellingRound ==
    ASSUME NEW w \in Loop, NEW t \in Seq(Token), w.table.tokens < Len(t), Stores(w),
           NEW m \in Nat, NEW e \in Nat, NEW g \in Nat, m <= e, e - m <= g, m % BlockSize = 0,
           Spelling(w, t, m, e), Telling(w.map, w.block, g)
    PROVE  LET v == StoreBlock(w, t)
           IN  Spelling(v, t, m, e) /\ Telling(v.map, v.block, g)
<1> DEFINE b == FirstFree(w.pool.list)
           v == StoreBlock(w, t)
           h == HashOf(w, t)
           n == Popped(w.map, w.block[b].hash, b)
           c == [hash |-> h, count |-> Len(Own(w, t)),
                 data |-> DataOf(w, t)]
<1>1. RoundOf(w, v, t, b) /\ b \in Block
  BY RoundIs DEF Stores
<1>2. w.block \in [Block -> Contents] /\ w.map \in Maps /\ w.parent \in Chains
  BY DEF Loop, LoopRecord
<1>3. /\ w.table.tokens \in Nat /\ Stop(w, t) \in Nat /\ Stop(w, t) <= Len(t) /\ w.table.tokens < Stop(w, t)
      /\ Own(w, t) \in Seq(Token) /\ h \in Chains
  BY OwnIs
<1> HIDE DEF b, v
<1>4. v.block = [w.block EXCEPT ![b] = c] /\ v.map = Inserted(n, h, b) /\ v.parent = h
  BY <1>1 DEF RoundOf
<1>5. v.table.tokens = Stop(w, t)
  <2>1. v.table = [ids |-> Append(w.table.ids, b), tokens |-> Stop(w, t)]
    BY <1>1 DEF RoundOf
  <2> QED BY <2>1
<1>6. FlattenSeq(h) = SubSeq(t, 1, m) \o SubSeq(t, e + 1, Stop(w, t))
  <2> DEFINE k == w.table.tokens
             s == Stop(w, t)
             x == SubSeq(t, 1, m)
             y == SubSeq(t, e + 1, k)
             z == SubSeq(t, k + 1, s)
  <2>1. k \in Nat /\ s \in Nat /\ k <= s /\ s <= Len(t) /\ e <= k /\ z = Own(w, t)
    BY <1>3 DEF Spelling, Own
  <2>2. FlattenSeq(Append(w.parent, Own(w, t))) = FlattenSeq(w.parent) \o Own(w, t)
    BY <1>2, <1>3, FlattenAppend DEF Chains
  <2>3. FlattenSeq(h) = (x \o y) \o z
    BY <2>1, <2>2 DEF HashOf, Spelling
  <2> HIDE DEF k, s, h
  <2>4. y \o z = SubSeq(t, e + 1, s)
    BY <2>1, PartsJoin
  <2>5. x \in Seq(Token) /\ y \in Seq(Token) /\ z \in Seq(Token)
    <3>1. 1 \in Nat /\ 1 # 0 /\ e + 1 \in Nat /\ e + 1 # 0 /\ k + 1 \in Nat /\ k + 1 # 0
      BY <2>1
    <3>2. Len(t) \in Nat /\ m <= Len(t) /\ k <= Len(t)
      BY <2>1, LenProperties
    <3> QED BY <2>1, <3>1, <3>2, PartOfText
  <2> HIDE DEF x, y, z
  <2>6. (x \o y) \o z = x \o (y \o z)
    <3>1. Assoc(x, y, z)
      BY <2>5, Associative
    <3> QED BY <3>1 DEF Assoc
  <2> QED BY <2>3, <2>4, <2>6 DEF s, x
<1>15. SpellsBut(h, c.data.upto, g)
  <2> DEFINE s == Stop(w, t)
             u == SubSeq(t, 1, s)
  <2>1. c.data.upto = u
    BY DataIs DEF Spelling
  <2>2. s \in Nat /\ s <= Len(t) /\ e <= s
    BY <1>3 DEF Spelling
  <2>3. FlattenSeq(h) = SubSeq(t, 1, m) \o SubSeq(t, e + 1, s)
    BY <1>6
  <2> HIDE DEF s, h, c
  <2>4. Len(u) = s /\ Without(u, m, e - m) = SubSeq(t, 1, m) \o SubSeq(t, e + 1, s)
    <3>1. GapIs(t, m, e, s)
      BY <2>2, WithoutGap
    <3> QED BY <3>1 DEF GapIs, u
  <2> HIDE DEF u
  <2>5. m \in 0..Len(u) /\ e - m \in 0..g
    BY <2>2, <2>4
  <2> QED BY <2>1, <2>3, <2>4, <2>5 DEF SpellsBut
<1> DEFINE old == w.block[b].hash
<1>7. /\ n \in Maps /\ DOMAIN n \subseteq DOMAIN w.map
      /\ \A f \in DOMAIN n : n[f] = IF f = old THEN Among(w.map[old], Block \ {b}) ELSE w.map[f]
  <2> DEFINE x == w.map
  <2>1. x \in Maps /\ n = Popped(x, old, b)
    BY <1>2
  <2> HIDE DEF x, old, n
  <2>2. PoppedAs(x, old, b, n)
    BY <2>1, PoppedIs
  <2> QED BY <2>2 DEF PoppedAs, x
<1>8. MapOK(w.map)
  BY <1>2, MapsAre
<1>9. ASSUME NEW f \in DOMAIN n, NEW d \in ToSet(n[f]) PROVE d # b /\ d \in Block /\ d \in ToSet(w.map[f])
  <2>0. f \in DOMAIN w.map /\ w.map[f] \in Seq(Block)
    BY <1>7, <1>8 DEF MapOK
  <2>1. CASE f = old
    <3>1. ToSet(n[f]) = ToSet(w.map[f]) \cap (Block \ {b})
      BY <1>7, <2>0, <2>1, AmongSet
    <3> QED BY <3>1
  <2>2. CASE f # old
    <3>1. d \in ToSet(w.map[f])
      BY <1>7, <2>2
    <3>2. w.block[d].hash = f
      BY <2>0, <3>1 DEF Telling
    <3>3. d \in Block
      BY <2>0, <3>1, SetOf
    <3> QED BY <2>2, <3>1, <3>2, <3>3
  <2> QED BY <2>1, <2>2
<1> HIDE DEF n, h, c
<1>10. /\ DOMAIN v.map = DOMAIN n \cup {h}
       /\ \A f \in DOMAIN v.map : v.map[f] = IF f # h THEN n[f]
                                             ELSE IF h \in DOMAIN n THEN Append(n[h], b) ELSE <<b>>
  <2> DEFINE x == v.map
  <2>1. n \in Maps /\ h \in Chains /\ b \in Block /\ x = Inserted(n, h, b)
    BY <1>1, <1>3, <1>4, <1>7
  <2> HIDE DEF x
  <2>2. InsertedAs(n, h, b, x)
    BY <2>1, InsertedIs
  <2> QED BY <2>2 DEF InsertedAs, x
<1>11. ASSUME NEW f \in DOMAIN v.map, NEW d \in ToSet(v.map[f])
       PROVE  (d = b /\ f = h) \/ (f \in DOMAIN n /\ d \in ToSet(n[f]))
  <2>1. CASE f # h
    BY <1>10, <2>1
  <2>2. CASE f = h /\ h \in DOMAIN n
    <3>1. n[h] \in Seq(Block)
      BY <1>7, <2>2, MapsAre DEF MapOK
    <3>2. v.map[f] = Append(n[h], b)
      BY <1>10, <2>2
    <3>3. ToSet(Append(n[h], b)) = ToSet(n[h]) \cup {b}
      BY <1>1, <3>1, SetAppend
    <3> QED BY <2>2, <3>2, <3>3
  <2>3. CASE f = h /\ h \notin DOMAIN n
    <3>1. v.map[f] = <<b>>
      BY <1>10, <2>3
    <3>2. ToSet(<<b>>) = {b}
      BY DEF ToSet
    <3> QED BY <2>3, <3>1, <3>2
  <2> QED BY <2>1, <2>2, <2>3
<1>12. v.block[b] = c /\ \A d \in Block : d # b => v.block[d] = w.block[d]
  BY <1>1, <1>2, <1>4
<1>13. ASSUME NEW f \in DOMAIN v.map, NEW d \in ToSet(v.map[f])
       PROVE  v.block[d].hash = f /\ SpellsBut(f, v.block[d].data.upto, g)
  <2>1. CASE d = b /\ f = h
    <3>1. c.hash = h
      BY DEF c
    <3> QED BY <1>12, <1>15, <2>1, <3>1
  <2>2. CASE f \in DOMAIN n /\ d \in ToSet(n[f])
    <3>1. d # b /\ d \in Block /\ d \in ToSet(w.map[f]) /\ f \in DOMAIN w.map
      BY <1>7, <1>9, <2>2
    <3> QED BY <1>12, <3>1 DEF Telling
  <2> QED BY <1>11, <2>1, <2>2
<1>14. Telling(v.map, v.block, g)
  BY <1>13 DEF Telling
<1>16. Spelling(v, t, m, e)
  <2>1. w.begin = w.existing /\ e <= w.table.tokens /\ v.begin = w.begin /\ v.existing = w.existing
    BY <1>1 DEF RoundOf, Spelling
  <2>2. e <= Stop(w, t)
    BY <1>3, <2>1
  <2> QED BY <1>4, <1>5, <1>6, <2>1, <2>2 DEF Spelling
<1> QED BY <1>14, <1>16 DEF v

\* A whole number of blocks ends at a block boundary.
LEMMA MultipleMod == \A n \in Nat : (n * BlockSize) % BlockSize = 0
BY PrefixCacheAssumption

\* The whole blocks of k tokens and what is left of them.
LEMMA WholeBlocks ==
    \A k \in Nat : /\ k \div BlockSize \in Nat
                   /\ k = (BlockSize * (k \div BlockSize)) + (k % BlockSize)
                   /\ k % BlockSize \in 0..(BlockSize - 1)
BY PrefixCacheAssumption

LEMMA TellingStore ==
    ASSUME "full" \notin calls, Typed, Telling(hashMap, block, Gap),
           NEW r \in Request, NEW t \in Seq(Token), NEW type \in Types, StoreCache(r, t, type)
    PROVE  Telling(hashMap', block', Gap)
<1> DEFINE table == TableOf(r)
           begin == BeginOf(r)
           e == table.tokens
           n == e \div BlockSize
           m == n * BlockSize
           w == Stored(t, table, begin)
<1>1. /\ table \in Tables /\ table.tokens < Len(t) /\ ("grow" \in calls \/ table.tokens % BlockSize = 0)
      /\ begin \in 0..table.tokens /\ begin = table.tokens
      /\ w \in Loop /\ StoreEnds(r, t, type, w)
  BY StoreIs DEF BeginOf
<1> HIDE DEF table, begin, w
<1>2. e \in Nat /\ BlockSize \in Nat \ {0} /\ Len(t) \in Nat /\ e < Len(t)
  BY <1>1, PrefixCacheAssumption, LenProperties DEF Tables
<1>3. /\ n \in Nat /\ m \in Nat /\ m <= e /\ m % BlockSize = 0
      /\ e - m = e % BlockSize /\ e % BlockSize \in 0..(BlockSize - 1)
  <2> HIDE DEF e
  <2> DEFINE q == e % BlockSize
  <2>1. n \in Nat /\ e = (BlockSize * n) + q /\ q \in 0..(BlockSize - 1)
    BY <1>2, WholeBlocks
  <2> HIDE DEF n, q
  <2>2. BlockSize * n = n * BlockSize /\ m \in Nat
    BY <1>2, <2>1
  <2>3. m % BlockSize = 0
    BY <2>1, MultipleMod
  <2>4. e = m + q
    BY <2>1, <2>2
  <2> HIDE DEF m
  <2>5. m <= e /\ e - m = q
    BY <1>2, <2>1, <2>2, <2>4
  <2> QED BY <2>1, <2>2, <2>3, <2>5 DEF q
<1>4. Gap \in Nat /\ e - m <= Gap
  <2>1. "grow" \in calls \/ e % BlockSize = 0
    BY <1>1
  <2> HIDE DEF e, m, n
  <2> QED BY <1>2, <1>3, <2>1 DEF Gap
<1> DEFINE Ok(v) == Spelling(v, t, m, e) /\ Telling(v.map, v.block, Gap)
           I == {v \in Loop : Ok(v)}
<1>5. Start(t, table, begin) \in I
  <2>1. Start(t, table, begin) \in Loop
    BY <1>1, StartTypes
  <2>2. FlattenSeq(Chain(t, n)) = SubSeq(t, 1, m)
    <3>1. n * BlockSize <= Len(t)
      <4> HIDE DEF e, n
      <4> DEFINE l == Len(t)
      <4>1. l \in Nat /\ e < l /\ m <= e /\ m \in Nat
        BY <1>2, <1>3
      <4> HIDE DEF l, m
      <4>2. m <= l
        BY <1>2, <4>1
      <4> QED BY <4>2 DEF l, m
    <3> HIDE DEF n
    <3> QED BY <1>3, <3>1, ChainFlat
  <2>3. /\ Start(t, table, begin).parent = Chain(t, n) /\ Start(t, table, begin).table = table
        /\ Start(t, table, begin).map = hashMap /\ Start(t, table, begin).block = block
        /\ Start(t, table, begin).begin = begin /\ Start(t, table, begin).existing = e
    <3> DEFINE c == Chain(t, n)
    <3>1. Start(t, table, begin) = [pool |-> pool, block |-> block, map |-> hashMap, partial |-> partialSizes,
                                    parent |-> c, table |-> table, end |-> "no",
                                    existing |-> e, begin |-> begin]
      BY Zenon DEF Start
    <3> HIDE DEF c, e
    <3> QED BY <3>1 DEF c
  <2>4. SubSeq(t, 1, m) \in Seq(Token)
    <3>1. m \in Nat /\ m <= Len(t)
      <4> HIDE DEF e, m
      <4> QED BY <1>2, <1>3
    <3> HIDE DEF e, m
    <3> QED BY <3>1, PartOfText
  <2>5. SubSeq(t, e + 1, e) = <<>>
    BY <1>2
  <2>6. SubSeq(t, 1, m) \o SubSeq(t, e + 1, e) = SubSeq(t, 1, m)
    BY <2>4, <2>5, ConcatEmptySeq
  <2>7. begin = e /\ e = table.tokens
    BY <1>1
  <2> DEFINE v == Start(t, table, begin)
  <2> HIDE DEF m, n, e, v
  <2>8. v.table.tokens = e /\ v.begin = e /\ v.existing = e
    BY <2>3, <2>7 DEF v
  <2>9. FlattenSeq(v.parent) = SubSeq(t, 1, m) \o SubSeq(t, e + 1, e)
    BY <2>2, <2>3, <2>6 DEF v
  <2>10. Spelling(v, t, m, e)
    BY <1>2, <2>8, <2>9 DEF Spelling
  <2>11. Telling(v.map, v.block, Gap)
    BY <2>3 DEF v
  <2> QED BY <2>1, <2>10, <2>11 DEF v
<1> HIDE DEF m, n, e
<1>6. ASSUME NEW v \in I, v.table.tokens < Len(t) \/ v.end # "no"
      PROVE  StoreBlock(v, t) \in I
  <2>1. StoreBlock(v, t) \in Loop
    BY <1>6, RoundTypes
  <2>2. v \in Loop /\ Spelling(v, t, m, e) /\ Telling(v.map, v.block, Gap)
    OBVIOUS
  <2>3. CASE ~ Stores(v)
    <3>1. /\ StoreBlock(v, t).parent = v.parent /\ StoreBlock(v, t).table = v.table
          /\ StoreBlock(v, t).map = v.map /\ StoreBlock(v, t).block = v.block
          /\ StoreBlock(v, t).existing = v.existing /\ StoreBlock(v, t).begin = v.begin
      BY <2>2, <2>3, NoRound
    <3>2. Ok(StoreBlock(v, t))
      BY <2>2, <3>1 DEF Spelling
    <3> QED BY <2>1, <3>2
  <2>4. CASE Stores(v)
    <3>1. v.table.tokens < Len(t)
      BY <1>6, <2>4 DEF Stores
    <3>2. Ok(StoreBlock(v, t))
      BY <1>2, <1>3, <1>4, <2>2, <2>4, <3>1, TellingRound
    <3> QED BY <2>1, <3>2
  <2> QED BY <2>3, <2>4
<1>7. w \in I
  <2>1. I \in SUBSET Loop
    OBVIOUS
  <2> HIDE DEF I
  <2> QED BY <1>1, <1>5, <1>6, <2>1, LoopKeeps DEF w
<1>8. Telling(w.map, w.block, Gap)
  BY <1>7
<1> QED BY <1>1, <1>8 DEF StoreEnds

LEMMA TellingNext == Typed /\ Tells /\ [Next]_vars => Tells'
<1> SUFFICES ASSUME Typed, Tells, [Next]_vars, "full" \notin calls PROVE Telling(hashMap', block', Gap')
  BY CallsStay DEF Tells
<1>0. Telling(hashMap, block, Gap) /\ Gap' = Gap
  BY CallsStay DEF Tells, Gap
<1>1. CASE UNCHANGED <<hashMap, block>>
  BY <1>0, <1>1
<1>2. CASE Next
  <2>1. PICK r \in Request :
              \/ \E t \in Seq(Token) : FetchCache(r, t)
              \/ \E t \in Seq(Token), type \in Types : StoreCache(r, t, type)
              \/ ReleaseFetched(r)
              \/ \E n \in Nat : TrimBlockTable(r, n)
              \/ \E s \in Request : ForkCache(r, s)
              \/ "release" \in calls /\ ReleaseStored(r)
    BY <1>2, Moves
  <2>2. CASE \E t \in Seq(Token), type \in Types : StoreCache(r, t, type)
    BY <1>0, <2>2, TellingStore
  <2>3. CASE \/ \E t \in Seq(Token) : FetchCache(r, t)
             \/ ReleaseFetched(r)
             \/ \E n \in Nat : TrimBlockTable(r, n)
             \/ \E s \in Request : ForkCache(r, s)
             \/ ReleaseStored(r)
    BY <1>1, <2>3 DEF FetchCache, ReleaseFetched, TrimBlockTable, ForkCache, ReleaseStored, Forget, caches
  <2> QED BY <2>1, <2>2, <2>3
<1>3. CASE UNCHANGED vars
  BY <1>1, <1>3 DEF vars
<1> QED BY <1>2, <1>3

\* Unless cache_data holds more than the new tokens, the KV data that a lookup
\* finds under a chain hash is that of the chain's tokens, but for less than a
\* block of them where a table grew from a partial block, and for none if no
\* table does: however blocks are given up, reused, grown and trimmed, also
\* after releases that leave a block in two tables (compute_block_hash,
\* paged_cache.py; store_cache and its slices, prefix_cache.py).
THEOREM PrefixChainsSound == Spec => []ChainsSoundButForGap
<1>1. Init => Tells
  BY DEF Init, Tells, Telling
<1>2. Tells => ChainsSoundButForGap
  BY ChainsTelling
<1> QED BY <1>1, <1>2, TellingNext, TypedAlways, PTL DEF Spec
=============================================================================
