----------------------- MODULE CompletionServerProofs -----------------------
(***************************************************************************)
(* Proofs about CompletionServer, for every finite set of calls, every     *)
(* number of permits and every max_tokens: the variables have their types, *)
(* no permit is lost or made up, and a stream carries its tokens in order. *)
(***************************************************************************)
EXTENDS CompletionServer, PoolLemmas, WellFoundedInduction

-----------------------------------------------------------------------------
(* The waiters                                                              *)

\* FirstAsleep is the place of a waiter without a permit, or 0 if all have one.
LEMMA FirstAsleepFacts ==
    ASSUME NEW ws \in Seq(Request), NEW others
    PROVE  \/ FirstAsleep(ws, others) = 0 /\ ToSet(ws) \subseteq others
           \/ /\ FirstAsleep(ws, others) \in DOMAIN ws
              /\ FirstAsleep(ws, others) # 0
              /\ ws[FirstAsleep(ws, others)] \notin others
<1> DEFINE I == {i \in 1..Len(ws) : ws[i] \notin others}
<1>1. DOMAIN ws = 1..Len(ws) /\ Len(ws) \in Nat
  BY LenProperties
<1>2. FirstAsleep(ws, others) = IF I # {} THEN Min(I) ELSE 0
  BY DEF FirstAsleep, SelectInSeq
<1>3. CASE I = {}
  <2>1. ToSet(ws) \subseteq others
    BY <1>1, <1>3 DEF ToSet
  <2> QED BY <1>2, <1>3, <2>1
<1>4. CASE I # {}
  <2>1. I \subseteq Nat
    BY <1>1
  <2>2. PICK m \in I : \A y \in I : ~(<<y, m>> \in OpToRel(<, Nat))
    BY <1>4, <2>1, NatLessThanWellFounded, WFMin, Zenon
  <2>3. \A y \in I : m <= y
    <3>1. \A x, y \in Nat : x < y => <<x, y>> \in OpToRel(<, Nat)
      BY DEF OpToRel
    <3>2. \A y \in I : y \in Nat /\ m \in Nat /\ ~(y < m)
      BY <2>1, <2>2, <3>1
    <3> QED BY <3>2
  <2>4. Min(I) \in I
    <3> HIDE DEF I
    <3> QED BY <2>2, <2>3 DEF Min
  <2>5. Min(I) \in 1..Len(ws) /\ ws[Min(I)] \notin others
    BY <2>4
  <2>6. Min(I) # 0
    BY <1>1, <2>5
  <2> HIDE DEF I
  <2> QED BY <1>1, <1>2, <1>4, <2>5, <2>6
<1> QED BY <1>3, <1>4

LEMMA NobodyWaits == \A others : FirstAsleep(<<>>, others) = 0
<1> SUFFICES ASSUME NEW others PROVE FirstAsleep(<<>>, others) = 0
  OBVIOUS
<1>1. DOMAIN <<>> = {} /\ <<>> \in Seq(Request)
  BY EmptySeq
<1> HIDE DEF FirstAsleep
<1> QED BY <1>1, FirstAsleepFacts, Zenon

\* A waiter that leaves is taken out of the queue, which keeps its order.
LEMMA WithoutFacts ==
    ASSUME waiters \in Seq(Request), IsInjective(waiters), NEW r \in ToSet(waiters)
    PROVE  /\ Without(r) \in Seq(Request)
           /\ IsInjective(Without(r))
           /\ ToSet(Without(r)) = ToSet(waiters) \ {r}
<1> DEFINE I == {i \in 1..Len(waiters) : waiters[i] = r}
<1>1. DOMAIN waiters = 1..Len(waiters)
  BY LenProperties
<1>2. PICK k \in DOMAIN waiters : waiters[k] = r
  BY DEF ToSet
<1>3. I = {k}
  BY <1>1, <1>2 DEF IsInjective
<1>4. Min(I) = k
  <2>1. k <= k
    BY <1>1, <1>2
  <2> QED BY <1>3, <2>1 DEF Min
<1>5. Without(r) = RemoveAt(waiters, k)
  <2>1. SelectInSeq(waiters, LAMBDA v : v = r) = IF I # {} THEN Min(I) ELSE 0
    BY DEF SelectInSeq
  <2>2. SelectInSeq(waiters, LAMBDA v : v = r) = k
    BY <1>3, <1>4, <2>1
  <2>3. \E i \in 1..Len(waiters) : waiters[i] = r
    BY <1>1, <1>2
  <2> QED BY <2>2, <2>3, Zenon DEF Without, RemoveFirst
<1> HIDE DEF I
<1> QED BY <1>2, <1>5, RemovedAt

\* A permit that is passed on is with a waiter or free again.
LEMMA WakeNextFacts ==
    ASSUME NEW free \in Nat \ {0}, NEW ws \in Seq(Request), NEW others \in SUBSET ToSet(ws),
           IsFiniteSet(others), WakeNext(free, ws, others)
    PROVE  /\ permits' \in Nat
           /\ permits' + Cardinality(granted') = free + Cardinality(others)
           /\ granted' \subseteq ToSet(ws)
           /\ permits' > 0 => FirstAsleep(ws, granted') = 0 \/ granted' # {}
<1> DEFINE i == FirstAsleep(ws, others)
<1>1. Cardinality(others) \in Nat
  BY FS_CardinalityType
<1>2. CASE i = 0
  <2>1. permits' = free /\ granted' = others
    BY <1>2 DEF WakeNext
  <2> QED BY <1>2, <2>1
<1>3. CASE i # 0
  <2>1. permits' = free - 1 /\ granted' = others \cup {ws[i]}
    BY <1>3 DEF WakeNext
  <2>2. i \in DOMAIN ws /\ ws[i] \notin others
    BY <1>3, FirstAsleepFacts
  <2>3. Cardinality(granted') = Cardinality(others) + 1
    BY <2>1, <2>2, FS_AddElement
  <2>4. ws[i] \in ToSet(ws)
    BY <2>2 DEF ToSet
  <2> HIDE DEF i
  <2> QED BY <1>1, <2>1, <2>3, <2>4
<1> QED BY <1>2, <1>3

-----------------------------------------------------------------------------
(* Where the calls are                                                      *)

InsidePhases == {"collecting", "streaming", "closing", "abandoned"}
Waiting == {r \in Request : phase[r] = "waiting"}

\* What a call's move to another phase does to the calls with a permit, to their
\* number, and to the calls that wait for one.
LEMMA Moves ==
    ASSUME phase \in [Request -> Phases], NEW r \in Request, NEW p \in Phases, Become(r, p)
    PROVE  /\ phase' \in [Request -> Phases]
           /\ Cardinality(Inside) \in Nat
           /\ (p \in InsidePhases <=> phase[r] \in InsidePhases) =>
                Cardinality(Inside') = Cardinality(Inside)
           /\ p \in InsidePhases /\ phase[r] \notin InsidePhases =>
                Cardinality(Inside') = Cardinality(Inside) + 1
           /\ p \notin InsidePhases /\ phase[r] \in InsidePhases =>
                /\ Cardinality(Inside') = Cardinality(Inside) - 1
                /\ Cardinality(Inside) > 0
           /\ p = "waiting" => Waiting' = Waiting \cup {r}
           /\ p # "waiting" => Waiting' = Waiting \ {r}
<1>1. /\ phase' \in [Request -> Phases]
      /\ phase'[r] = p
      /\ \A q \in Request \ {r} : phase'[q] = phase[q]
  BY DEF Become
<1>2. IsFiniteSet(Inside) /\ Inside \in SUBSET Request
  BY FS_Subset, CompletionServerAssumption DEF Inside
<1>3. Cardinality(Inside) \in Nat
  BY <1>2, FS_CardinalityType
<1>4. r \in Inside <=> phase[r] \in InsidePhases
  BY DEF Inside, InsidePhases
<1>5. Inside' = IF p \in InsidePhases THEN Inside \cup {r} ELSE Inside \ {r}
  BY <1>1 DEF Inside, InsidePhases
<1>6. /\ Cardinality(Inside \cup {r}) = IF r \in Inside THEN Cardinality(Inside) ELSE Cardinality(Inside) + 1
      /\ Cardinality(Inside \ {r}) = IF r \in Inside THEN Cardinality(Inside) - 1 ELSE Cardinality(Inside)
  BY <1>2, FS_AddElement, FS_RemoveElement
<1>7. r \in Inside => Cardinality(Inside) # 0
  BY <1>2, FS_EmptySet
<1>8. /\ p = "waiting" => Waiting' = Waiting \cup {r}
      /\ p # "waiting" => Waiting' = Waiting \ {r}
  BY <1>1 DEF Waiting
<1> HIDE DEF Inside, Waiting, InsidePhases
<1> QED BY <1>1, <1>3, <1>4, <1>5, <1>6, <1>7, <1>8

-----------------------------------------------------------------------------
(* The inductive invariant                                                  *)

Types ==
    /\ phase \in [Request -> Phases]
    /\ worker \in [Request -> {"none", "collecting", "streaming", "finished"}]
    /\ generated \in [Request -> 0..MaxTokens]
    /\ stopped \in [Request -> BOOLEAN]
    /\ queue \in [Request -> Seq(Items)]
    /\ sent \in [Request -> Seq(Items)]

GateShape ==
    /\ permits \in Nat
    /\ waiters \in Seq(Request)
    /\ granted \in SUBSET Request
    /\ PermitsExact

\* One item after another is the token of its number.
TokensUpTo(s, k) == \A i \in 1..k : s[i] = Token(i)

\* What a thread that ends puts behind its last token.
Endings(n) == {<<Final(n), End>>, <<Raised, Final(n), End>>}

\* While the thread runs it made the tokens 1 to tokens_generated.
Running(m, n) == Len(m) = n /\ TokensUpTo(m, n)

\* When it ended an ending stands behind them; the text of the last one may have
\* been nothing but the stop sequence.
Finished(m, n) ==
    \E k \in {n - 1, n}, e \in Endings(n) :
        /\ k >= 0
        /\ Len(m) = k + Len(e)
        /\ TokensUpTo(m, k)
        /\ \A j \in 1..Len(e) : m[k + j] = e[j]

\* A thread at w that made n tokens, of which s was sent and q waits to be.
Open(w, n, s, q) ==
    /\ \A i \in DOMAIN s : s[i].type \in {"token", "final"}
    /\ \/ w = "streaming" /\ Running(s \o q, n)
       \/ w = "finished" /\ Finished(s \o q, n)

\* A stream is empty before it is opened and after it is closed; once the
\* coroutine has left its loop, nothing more is sent.
Shape(p, w, n, s, q) ==
    /\ p \notin {"streaming", "closing", "abandoned"} => s = <<>> /\ q = <<>>
    /\ p \in {"new", "admitted", "waiting"} => w = "none" /\ n = 0
    /\ p = "streaming" => Open(w, n, s, q)
    /\ p \in {"closing", "abandoned"} => InOrder(s)

StreamShapes ==
    \A r \in Request : Shape(phase[r], worker[r], generated[r], sent[r], queue[r])

IInv == Types /\ GateShape /\ StreamShapes

\* The permits in their places add up to Slots, so there are never more free.
LEMMA PermitsBounded ==
    ASSUME IInv
    PROVE  /\ permits \in 0..Slots
           /\ IsFiniteSet(granted)
           /\ Cardinality(granted) \in Nat /\ Cardinality(Inside) \in Nat
<1>1. IsFiniteSet(granted) /\ IsFiniteSet(Inside)
  BY FS_Subset, CompletionServerAssumption DEF Inside, IInv, GateShape
<1>2. Cardinality(granted) \in Nat /\ Cardinality(Inside) \in Nat
  BY <1>1, FS_CardinalityType
<1>3. permits + Cardinality(Inside) + Cardinality(granted) = Slots /\ permits \in Nat
  BY DEF IInv, GateShape, PermitsExact
<1> HIDE DEF Inside
<1> QED BY <1>1, <1>2, <1>3, CompletionServerAssumption

LEMMA InvInit == Init => IInv
<1> SUFFICES ASSUME Init PROVE IInv
  OBVIOUS
<1>1. Types
  <2>1. <<>> \in Seq(Items)
    BY EmptySeq
  <2> HIDE DEF Items
  <2> QED BY <2>1, CompletionServerAssumption DEF Init, Types, Phases
<1>2. waiters \in Seq(Request) /\ IsInjective(waiters) /\ ToSet(waiters) = {}
  BY EmptySeq DEF Init, IsInjective, ToSet
<1>3. Inside = {} /\ {r \in Request : phase[r] = "waiting"} = {}
  BY DEF Init, Inside
<1>4. Cardinality(Inside) = 0 /\ Cardinality(granted) = 0
  BY <1>3, FS_EmptySet DEF Init
<1>5. FirstAsleep(waiters, granted) = 0
  BY NobodyWaits, Zenon DEF Init
<1>6. permits = Slots /\ Slots \in Nat /\ granted = {}
  BY CompletionServerAssumption DEF Init
<1> HIDE DEF Inside
<1>7. PermitsExact
  BY <1>2, <1>3, <1>4, <1>5, <1>6 DEF PermitsExact
<1>8. StreamShapes
  BY DEF Init, StreamShapes, Shape
<1> QED BY <1>1, <1>2, <1>6, <1>7, <1>8 DEF IInv, GateShape

-----------------------------------------------------------------------------
(* The gate                                                                 *)

\* A step of a call that neither takes nor gives back a permit.
LEMMA GateUntouched ==
    ASSUME IInv, UNCHANGED gate,
           UNCHANGED phase \/ \E r \in Request, p \in Phases :
                /\ Become(r, p)
                /\ p \in InsidePhases <=> phase[r] \in InsidePhases
                /\ p # "waiting" /\ phase[r] # "waiting"
    PROVE  GateShape'
<1>1. Cardinality(Inside') = Cardinality(Inside) /\ Waiting' = Waiting
  <2>1. CASE UNCHANGED phase
    BY <2>1 DEF Inside, Waiting
  <2>2. ASSUME NEW r \in Request, NEW p \in Phases, Become(r, p),
               p \in InsidePhases <=> phase[r] \in InsidePhases,
               p # "waiting", phase[r] # "waiting"
        PROVE  Cardinality(Inside') = Cardinality(Inside) /\ Waiting' = Waiting
    <3>1. phase \in [Request -> Phases]
      BY DEF IInv, Types
    <3>2. r \notin Waiting
      BY <2>2 DEF Waiting
    <3>3. Cardinality(Inside') = Cardinality(Inside) /\ Waiting' = Waiting \ {r}
      BY <2>2, <3>1, Moves
    <3> QED BY <3>2, <3>3
  <2> QED BY <2>1, <2>2
<1> HIDE DEF Inside
<1> QED BY <1>1 DEF IInv, GateShape, PermitsExact, Waiting, gate, FirstAsleep, SelectInSeq

\* A call takes a free permit.
LEMMA PermitTaken ==
    ASSUME IInv, NEW r \in Request, NEW p \in InsidePhases, Become(r, p),
           phase[r] \in {"new", "admitted"}, ~locked,
           permits' = permits - 1, UNCHANGED <<waiters, granted>>
    PROVE  GateShape'
<1>1. permits > 0 /\ permits \in Nat /\ waiters = <<>> /\ ToSet(waiters) = {}
  BY EmptySeq DEF locked, IInv, GateShape, ToSet
<1>2. granted = {}
  BY <1>1 DEF IInv, GateShape, PermitsExact
<1>3. /\ phase \in [Request -> Phases] /\ p \in Phases
      /\ p # "waiting" /\ phase[r] \notin InsidePhases
  BY DEF IInv, Types, InsidePhases, Phases
<1>4. /\ Cardinality(Inside') = Cardinality(Inside) + 1 /\ Cardinality(Inside) \in Nat
      /\ Waiting' = Waiting \ {r}
  BY <1>3, Moves
<1>5. Waiting = {} /\ FirstAsleep(waiters, granted)' = 0
  <2>1. Waiting = {}
    BY <1>1 DEF IInv, GateShape, PermitsExact, Waiting
  <2>2. FirstAsleep(waiters, granted) = 0
    BY <1>1, NobodyWaits, Zenon
  <2> QED BY <2>1, <2>2 DEF FirstAsleep, SelectInSeq
<1>6. Cardinality(granted) = 0
  BY <1>2, FS_EmptySet
<1>7. permits + Cardinality(Inside) + Cardinality(granted) = Slots
  BY DEF IInv, GateShape, PermitsExact
<1>8. /\ permits' \in Nat
      /\ permits' + Cardinality(Inside') + Cardinality(granted') = Slots
  <2> HIDE DEF Inside
  <2> QED BY <1>1, <1>2, <1>4, <1>6, <1>7, CompletionServerAssumption
<1>9. IsInjective(waiters') /\ waiters' \in Seq(Request) /\ granted' = {}
  BY <1>2 DEF IInv, GateShape, PermitsExact
<1> HIDE DEF Inside
<1> QED BY <1>1, <1>2, <1>4, <1>5, <1>8, <1>9 DEF GateShape, PermitsExact, Waiting

\* A call gives its permit back.
LEMMA PermitReleased ==
    ASSUME IInv, NEW r \in Request, NEW p \in Phases, Become(r, p),
           phase[r] \in InsidePhases, p \notin InsidePhases, p # "waiting", release
    PROVE  GateShape'
<1>1. /\ waiters \in Seq(Request) /\ IsInjective(waiters)
      /\ granted \in SUBSET ToSet(waiters)
      /\ ToSet(waiters) = Waiting
      /\ permits + Cardinality(Inside) + Cardinality(granted) = Slots
      /\ permits \in Nat
  BY DEF IInv, GateShape, PermitsExact, Waiting
<1>2. phase \in [Request -> Phases] /\ phase[r] # "waiting"
  BY DEF IInv, Types, InsidePhases
<1>3. /\ Cardinality(Inside') = Cardinality(Inside) - 1 /\ Cardinality(Inside) \in Nat
      /\ Waiting' = Waiting \ {r}
  BY <1>2, Moves
<1>4. Waiting' = Waiting
  BY <1>2, <1>3 DEF Waiting
<1>5. UNCHANGED waiters /\ WakeNext(permits + 1, waiters, granted)
  BY DEF release
<1>6. IsFiniteSet(granted) /\ Cardinality(granted) \in Nat
  BY PermitsBounded
<1>7. permits + 1 \in Nat \ {0}
  BY <1>1
<1>8. /\ permits' \in Nat
      /\ permits' + Cardinality(granted') = permits + 1 + Cardinality(granted)
      /\ granted' \subseteq ToSet(waiters)
      /\ permits' > 0 => FirstAsleep(waiters, granted') = 0 \/ granted' # {}
  BY <1>1, <1>5, <1>6, <1>7, WakeNextFacts
<1>9. Cardinality(granted') \in Nat
  <2>1. IsFiniteSet(granted')
    BY <1>1, <1>8, FS_Subset, CompletionServerAssumption DEF Waiting
  <2> QED BY <2>1, FS_CardinalityType
<1>10. permits' + Cardinality(Inside') + Cardinality(granted') = Slots
  <2> HIDE DEF Inside
  <2> QED BY <1>1, <1>3, <1>6, <1>8, <1>9, CompletionServerAssumption, SMTT(30)
<1>11. permits' > 0 => FirstAsleep(waiters, granted)' = 0 \/ granted' # {}
  BY <1>5, <1>8 DEF FirstAsleep, SelectInSeq
<1>12. granted' \in SUBSET Request
  BY <1>1, <1>8 DEF Waiting
<1> HIDE DEF Inside
<1> QED BY <1>1, <1>4, <1>5, <1>8, <1>10, <1>11, <1>12 DEF GateShape, PermitsExact, Waiting

\* A call queues for a permit: one that finds a permit free has a waiter before it
\* that was handed one.
LEMMA Queued ==
    ASSUME IInv, NEW r \in Request, Become(r, "waiting"), phase[r] = "admitted", locked,
           waiters' = Append(waiters, r), UNCHANGED <<permits, granted>>
    PROVE  GateShape'
<1>1. /\ waiters \in Seq(Request) /\ IsInjective(waiters)
      /\ granted \in SUBSET ToSet(waiters) /\ granted \in SUBSET Request
      /\ ToSet(waiters) = Waiting
      /\ permits + Cardinality(Inside) + Cardinality(granted) = Slots
      /\ permits \in Nat
      /\ permits > 0 => FirstAsleep(waiters, granted) = 0 \/ granted # {}
  BY DEF IInv, GateShape, PermitsExact, Waiting
<1>2. phase \in [Request -> Phases] /\ "waiting" \in Phases
  BY DEF IInv, Types, Phases
<1>3. "waiting" \notin InsidePhases /\ phase[r] \notin InsidePhases /\ r \notin Waiting
  BY DEF InsidePhases, Waiting
<1>4. Cardinality(Inside') = Cardinality(Inside) /\ Waiting' = Waiting \cup {r}
  BY <1>2, <1>3, Moves
<1>5. /\ waiters' \in Seq(Request)
      /\ IsInjective(waiters')
      /\ ToSet(waiters') = Waiting'
  BY <1>1, <1>3, <1>4, AppendKeeps
<1>6. permits > 0 => granted # {}
  <2> SUFFICES ASSUME permits > 0, granted = {} PROVE FALSE
    OBVIOUS
  <2>1. waiters # <<>>
    BY <1>1 DEF locked
  <2>2. ToSet(waiters) # {}
    <3>1. Len(waiters) \in Nat /\ DOMAIN waiters = 1..Len(waiters) /\ Len(waiters) # 0
      BY <1>1, <2>1, LenProperties, EmptySeq
    <3>2. 1 \in DOMAIN waiters
      BY <3>1
    <3> QED BY <3>2 DEF ToSet
  <2>3. FirstAsleep(waiters, granted) = 0
    BY <1>1
  <2>4. ToSet(waiters) \subseteq granted
    <3> HIDE DEF FirstAsleep
    <3> QED BY <1>1, <2>3, FirstAsleepFacts
  <2> QED BY <2>2, <2>4
<1> HIDE DEF Inside
<1> QED BY <1>1, <1>4, <1>5, <1>6 DEF GateShape, PermitsExact, Waiting

\* A call leaves the queue: with its permit, which it keeps or hands on, or without.
LEMMA LeftQueue ==
    ASSUME IInv, NEW r \in Request, NEW p \in Phases, Become(r, p),
           phase[r] = "waiting", p # "waiting", waiters' = Without(r),
           \/ /\ r \in granted /\ p \in InsidePhases
              /\ IF permits > 0
                 THEN WakeNext(permits, Without(r), granted \ {r})
                 ELSE granted' = granted \ {r} /\ UNCHANGED permits
           \/ /\ r \in granted /\ p \notin InsidePhases
              /\ WakeNext(permits + 1, Without(r), granted \ {r})
           \/ /\ r \notin granted /\ p \notin InsidePhases
              /\ UNCHANGED <<permits, granted>>
    PROVE  GateShape'
<1>1. /\ waiters \in Seq(Request) /\ IsInjective(waiters)
      /\ granted \in SUBSET ToSet(waiters) /\ granted \in SUBSET Request
      /\ ToSet(waiters) = Waiting
      /\ permits + Cardinality(Inside) + Cardinality(granted) = Slots
      /\ permits \in Nat
      /\ permits > 0 => FirstAsleep(waiters, granted) = 0 \/ granted # {}
  BY DEF IInv, GateShape, PermitsExact, Waiting
<1>2. phase \in [Request -> Phases] /\ phase[r] \notin InsidePhases /\ r \in Waiting
  BY DEF IInv, Types, InsidePhases, Waiting
<1>3. /\ Cardinality(Inside') = Cardinality(Inside) + (IF p \in InsidePhases THEN 1 ELSE 0)
      /\ Cardinality(Inside) \in Nat
      /\ Waiting' = Waiting \ {r}
  <2>1. Cardinality(Inside) \in Nat /\ Waiting' = Waiting \ {r}
    BY <1>2, Moves
  <2>2. p \in InsidePhases => Cardinality(Inside') = Cardinality(Inside) + 1
    BY <1>2, Moves
  <2>3. p \notin InsidePhases => Cardinality(Inside') = Cardinality(Inside)
    BY <1>2, Moves
  <2> HIDE DEF Inside, InsidePhases
  <2> QED BY <2>1, <2>2, <2>3
<1>4. /\ Without(r) \in Seq(Request)
      /\ IsInjective(Without(r))
      /\ ToSet(Without(r)) = ToSet(waiters) \ {r}
  BY <1>1, <1>2, WithoutFacts
<1>5. IsFiniteSet(granted) /\ Cardinality(granted) \in Nat
  BY PermitsBounded
<1>6. /\ IsFiniteSet(granted \ {r})
      /\ Cardinality(granted \ {r}) \in Nat
      /\ r \in granted => Cardinality(granted \ {r}) = Cardinality(granted) - 1
  BY <1>5, FS_RemoveElement, FS_CardinalityType
<1>7. granted \ {r} \in SUBSET ToSet(Without(r))
  BY <1>1, <1>4
<1>8. ASSUME NEW free \in Nat \ {0}, WakeNext(free, Without(r), granted \ {r})
      PROVE  /\ permits' \in Nat
             /\ permits' + Cardinality(granted') = free + Cardinality(granted \ {r})
             /\ granted' \subseteq ToSet(Without(r))
             /\ permits' > 0 => FirstAsleep(Without(r), granted') = 0 \/ granted' # {}
  BY <1>4, <1>6, <1>7, <1>8, WakeNextFacts
<1>9. /\ permits' \in Nat
      /\ granted' \subseteq ToSet(Without(r))
      /\ permits' > 0 => FirstAsleep(Without(r), granted') = 0 \/ granted' # {}
      /\ permits' + Cardinality(granted')
           = permits + Cardinality(granted) - (IF p \in InsidePhases THEN 1 ELSE 0)
  <2>1. CASE r \in granted /\ p \in InsidePhases /\ permits > 0
    <3>1. permits \in Nat \ {0} /\ WakeNext(permits, Without(r), granted \ {r})
      BY <1>1, <2>1
    <3>2. /\ permits' \in Nat
          /\ permits' + Cardinality(granted') = permits + Cardinality(granted \ {r})
          /\ granted' \subseteq ToSet(Without(r))
          /\ permits' > 0 => FirstAsleep(Without(r), granted') = 0 \/ granted' # {}
      BY <3>1, <1>8
    <3> HIDE DEF FirstAsleep, WakeNext, InsidePhases
    <3> QED BY <2>1, <3>2, <1>1, <1>5, <1>6
  <2>2. CASE r \in granted /\ p \in InsidePhases /\ ~(permits > 0)
    <3>1. granted' = granted \ {r} /\ permits' = permits
      BY <2>2
    <3> HIDE DEF FirstAsleep, WakeNext, InsidePhases
    <3> QED BY <2>2, <3>1, <1>1, <1>5, <1>6, <1>7
  <2>3. CASE r \in granted /\ p \notin InsidePhases
    <3>1. permits + 1 \in Nat \ {0} /\ WakeNext(permits + 1, Without(r), granted \ {r})
      BY <1>1, <2>3
    <3>2. /\ permits' \in Nat
          /\ permits' + Cardinality(granted') = permits + 1 + Cardinality(granted \ {r})
          /\ granted' \subseteq ToSet(Without(r))
          /\ permits' > 0 => FirstAsleep(Without(r), granted') = 0 \/ granted' # {}
      BY <3>1, <1>8
    <3> HIDE DEF FirstAsleep, WakeNext, InsidePhases
    <3> QED BY <2>3, <3>2, <1>1, <1>5, <1>6
  <2>4. CASE r \notin granted
    <3>1. permits' = permits /\ granted' = granted /\ p \notin InsidePhases /\ granted \ {r} = granted
      BY <2>4
    <3>2. permits > 0 => granted # {}
      <4> SUFFICES ASSUME FirstAsleep(waiters, granted) = 0 PROVE FALSE
        BY <1>1
      <4>1. ToSet(waiters) \subseteq granted
        <5> HIDE DEF FirstAsleep
        <5> QED BY <1>1, FirstAsleepFacts
      <4> QED BY <4>1, <2>4, <1>1, <1>2
    <3> HIDE DEF FirstAsleep, WakeNext, InsidePhases
    <3> QED BY <3>1, <3>2, <1>1, <1>5, <1>7
  <2> QED BY <2>1, <2>2, <2>3, <2>4
<1>10. Cardinality(granted') \in Nat
  <2>1. IsFiniteSet(granted')
    BY <1>1, <1>4, <1>9, FS_Subset, CompletionServerAssumption DEF Waiting
  <2> QED BY <2>1, FS_CardinalityType
<1>11. permits' + Cardinality(Inside') + Cardinality(granted') = Slots
  <2>1. \A took \in {0, 1} :
          /\ Cardinality(Inside') = Cardinality(Inside) + took
          /\ permits' + Cardinality(granted') = permits + Cardinality(granted) - took
          => permits' + Cardinality(Inside') + Cardinality(granted') = Slots
    <3>1. permits + Cardinality(Inside) + Cardinality(granted) = Slots
      BY <1>1
    <3>2. /\ permits' \in Nat /\ permits \in Nat /\ Cardinality(Inside) \in Nat
          /\ Cardinality(granted) \in Nat /\ Cardinality(granted') \in Nat
      BY <1>1, <1>3, <1>5, <1>9, <1>10
    <3> HIDE DEF Inside
    <3> QED BY <3>1, <3>2
  <2> DEFINE took == IF p \in InsidePhases THEN 1 ELSE 0
  <2>2. took \in {0, 1}
    OBVIOUS
  <2>3. /\ Cardinality(Inside') = Cardinality(Inside) + took
        /\ permits' + Cardinality(granted') = permits + Cardinality(granted) - took
    BY <1>3, <1>9, Zenon
  <2> HIDE DEF Inside, took
  <2> QED BY <2>1, <2>2, <2>3
<1>12. permits' > 0 => FirstAsleep(waiters, granted)' = 0 \/ granted' # {}
  BY <1>9 DEF FirstAsleep, SelectInSeq
<1>13. /\ granted' \in SUBSET Request
       /\ waiters' \in Seq(Request) /\ IsInjective(waiters')
       /\ ToSet(waiters') = Waiting'
       /\ granted' \subseteq ToSet(waiters')
  BY <1>1, <1>3, <1>4, <1>9 DEF Waiting
<1> HIDE DEF Inside
<1> QED BY <1>9, <1>11, <1>12, <1>13 DEF GateShape, PermitsExact, Waiting

-----------------------------------------------------------------------------
(* The types                                                                *)

\* What the thread and the coroutine put on the queue and send is an item.
LEMMA ItemFacts ==
    /\ Raised \in Items /\ End \in Items /\ Error \in Items /\ Done \in Items
    /\ \A n \in 0..MaxTokens : Token(n) \in Items /\ Final(n) \in Items
BY DEF Items, Token, Final, Raised, End, Error, Done

\* Sequences of items are kept by what the actions do to them.
LEMMA ItemSeqs ==
    ASSUME NEW q \in Seq(Items)
    PROVE  /\ q # <<>> => Head(q) \in Items /\ Tail(q) \in Seq(Items)
           /\ \A s \in Seq(Items) : q \o s \in Seq(Items)
           /\ \A item \in Items : <<item>> \in Seq(Items) /\ Append(q, item) \in Seq(Items)
           /\ \A item, next \in Items : <<item, next>> \in Seq(Items)
           /\ \A item, next, last \in Items : <<item, next, last>> \in Seq(Items)
<1> HIDE DEF Items
<1> QED BY HeadTailProperties, ConcatProperties, AppendProperties

LEMMA TypesNext == IInv /\ [Next]_vars => Types'
<1> SUFFICES ASSUME IInv, [Next]_vars PROVE Types'
  OBVIOUS
<1>1. Types
  BY DEF IInv
<1>2. CASE UNCHANGED vars
  BY <1>1, <1>2 DEF Types, vars, gate, thread
<1>3. ASSUME NEW r \in Request, Admission(r) \/ Handler(r) \/ Leave(r) \/ Thread(r)
      PROVE  Types'
  <2>1. phase' \in [Request -> Phases]
    BY <1>1, <1>3, ZenonT(40) DEF Types, Admission, Busy, Reject, Stream, Collect, Handler, Answer,
      CollectTimesOut, Acquire, Resume, StartThread, Yield, Complete, TimesOut, Break,
      Close, Collected, Finally, Leave, LeaveAdmitted, LeaveWaiting, LeaveStreaming,
      LeaveSending, Thread, CollectEnds, Emit, StopSequence, GeneratorEnds,
      GeneratorRaises, Become, Phases
  <2>2. /\ worker' \in [Request -> {"none", "collecting", "streaming", "finished"}]
        /\ stopped' \in [Request -> BOOLEAN]
    BY <1>1, <1>3 DEF Types, Admission, Busy, Reject, Stream, Collect, Handler, Answer,
      CollectTimesOut, Acquire, Resume, StartThread, Yield, Complete, TimesOut, Break,
      Close, Collected, Finally, Finish, Leave, LeaveAdmitted, LeaveWaiting, LeaveStreaming,
      LeaveSending, Thread, CollectEnds, Emit, StopSequence, GeneratorEnds,
      GeneratorRaises, thread
  <2>3. generated' \in [Request -> 0..MaxTokens]
    <3>1. \/ UNCHANGED generated
          \/ /\ generated' = [generated EXCEPT ![r] = generated[r] + 1]
             /\ generated[r] < MaxTokens \/ generated[r] + 1 <= MaxTokens
      <4>1. Admission(r) \/ Handler(r) \/ Leave(r) => UNCHANGED generated
        BY DEF Admission, Busy, Reject, Stream, Collect, Handler, Answer,
          CollectTimesOut, Acquire, Resume, Yield, Complete, TimesOut, Break,
          Close, Collected, Finally, Leave, LeaveAdmitted, LeaveWaiting, LeaveStreaming,
          LeaveSending, thread
      <4>2. CollectEnds(r) \/ GeneratorEnds(r) \/ GeneratorRaises(r) => UNCHANGED generated
        BY DEF CollectEnds, GeneratorEnds, GeneratorRaises
      <4>3. Emit(r) => /\ generated' = [generated EXCEPT ![r] = generated[r] + 1]
                       /\ generated[r] < MaxTokens
        BY DEF Emit
      <4>4. StopSequence(r) => /\ generated' = [generated EXCEPT ![r] = generated[r] + 1]
                               /\ generated[r] + 1 <= MaxTokens
        BY DEF StopSequence
      <4> QED BY <1>3, <4>1, <4>2, <4>3, <4>4, Zenon DEF Thread
    <3>2. /\ generated \in [Request -> 0..MaxTokens]
          /\ generated[r] < MaxTokens \/ generated[r] + 1 <= MaxTokens
            => generated[r] + 1 \in 0..MaxTokens
      BY <1>1, CompletionServerAssumption DEF Types
    <3> QED BY <3>1, <3>2
  <2>4. queue[r] \in Seq(Items) /\ sent[r] \in Seq(Items) /\ generated[r] \in 0..MaxTokens
    BY <1>1 DEF Types
  <2>5. sent' \in [Request -> Seq(Items)]
    <3>1. \/ UNCHANGED sent
          \/ queue[r] # <<>> /\ sent' = [sent EXCEPT ![r] = Append(@, Head(queue[r]))]
          \/ sent' = [sent EXCEPT ![r] = Append(@, Done)]
          \/ sent' = [sent EXCEPT ![r] = <<>>]
          \/ sent' = [sent EXCEPT ![r] = @ \o <<Error, Done>>]
      BY <1>3 DEF Admission, Busy, Reject, Stream, Collect, Handler, Answer,
        CollectTimesOut, Acquire, Resume, Yield, Complete, TimesOut, Break,
        Close, Collected, Finally, Leave, LeaveAdmitted, LeaveWaiting, LeaveStreaming,
        LeaveSending, Thread, CollectEnds, Emit, StopSequence, GeneratorEnds, GeneratorRaises
    <3>2. /\ queue[r] # <<>> => Append(sent[r], Head(queue[r])) \in Seq(Items)
          /\ Append(sent[r], Done) \in Seq(Items)
          /\ sent[r] \o <<Error, Done>> \in Seq(Items)
          /\ <<>> \in Seq(Items)
      <4> HIDE DEF Items, Done, Error
      <4> QED BY <2>4, ItemSeqs, ItemFacts, EmptySeq
    <3> HIDE DEF Items, Done, Error
    <3> QED BY <1>1, <3>1, <3>2 DEF Types
  <2>6. queue' \in [Request -> Seq(Items)]
    <3>1. \/ UNCHANGED queue
          \/ queue[r] # <<>> /\ queue' = [queue EXCEPT ![r] = Tail(@)]
          \/ queue' = [queue EXCEPT ![r] = <<>>]
          \/ \E n \in 0..MaxTokens : Put(r, <<Token(n)>>)
          \/ \E n \in 0..MaxTokens : \E kept \in {<<>>, <<Token(n)>>} : Put(r, kept \o Ending(n))
          \/ Put(r, Ending(generated[r]))
          \/ Put(r, <<Raised>> \o Ending(generated[r]))
      <4>1. Admission(r) \/ Handler(r) \/ Leave(r) =>
              \/ UNCHANGED queue
              \/ queue[r] # <<>> /\ queue' = [queue EXCEPT ![r] = Tail(@)]
              \/ queue' = [queue EXCEPT ![r] = <<>>]
        BY DEF Admission, Busy, Reject, Stream, Collect, Handler, Answer,
          CollectTimesOut, Acquire, Resume, Yield, Complete, TimesOut, Break,
          Close, Collected, Finally, Leave, LeaveAdmitted, LeaveWaiting, LeaveStreaming,
          LeaveSending
      <4>2. CollectEnds(r) => UNCHANGED queue
        BY DEF CollectEnds
      <4>3. Emit(r) => \E n \in 0..MaxTokens : Put(r, <<Token(n)>>)
        <5> SUFFICES ASSUME Emit(r) PROVE \E n \in 0..MaxTokens : Put(r, <<Token(n)>>)
          OBVIOUS
        <5>1. generated[r] + 1 \in 0..MaxTokens
          BY <2>4, CompletionServerAssumption DEF Emit
        <5> QED BY <5>1, Zenon DEF Emit
      <4>4. StopSequence(r) =>
              \E n \in 0..MaxTokens : \E kept \in {<<>>, <<Token(n)>>} : Put(r, kept \o Ending(n))
        <5> SUFFICES ASSUME StopSequence(r)
                     PROVE  \E n \in 0..MaxTokens : \E kept \in {<<>>, <<Token(n)>>} : Put(r, kept \o Ending(n))
          OBVIOUS
        <5>1. generated[r] + 1 \in 0..MaxTokens
          BY <2>4, CompletionServerAssumption DEF StopSequence
        <5> QED BY <5>1, Zenon DEF StopSequence
      <4>5. GeneratorEnds(r) => Put(r, Ending(generated[r]))
        BY DEF GeneratorEnds
      <4>6. GeneratorRaises(r) => Put(r, <<Raised>> \o Ending(generated[r]))
        BY DEF GeneratorRaises
      <4> QED BY <1>3, <4>1, <4>2, <4>3, <4>4, <4>5, <4>6, Zenon DEF Thread
    <3>2. queue[r] # <<>> => Tail(queue[r]) \in Seq(Items)
      BY <2>4, ItemSeqs
    <3>3. \A n \in 0..MaxTokens : Ending(n) \in Seq(Items) /\ <<Token(n)>> \in Seq(Items)
      <4> HIDE DEF Items, Token, Final, End
      <4> QED BY <2>4, ItemFacts, ItemSeqs DEF Ending
    <3>4. <<Raised>> \in Seq(Items) /\ <<>> \in Seq(Items)
      <4> HIDE DEF Items, Raised
      <4> QED BY <2>4, ItemFacts, ItemSeqs, EmptySeq
    <3>5. \A s \in Seq(Items) : Put(r, s) => queue' \in [Request -> Seq(Items)]
      <4> SUFFICES ASSUME NEW s \in Seq(Items), Put(r, s) PROVE queue' \in [Request -> Seq(Items)]
        OBVIOUS
      <4>1. queue[r] \o s \in Seq(Items)
        BY <2>4, ItemSeqs
      <4> HIDE DEF Items
      <4> QED BY <1>1, <4>1 DEF Types, Put
    <3>6. \A s, t \in Seq(Items) : s \o t \in Seq(Items)
      BY ItemSeqs
    <3> HIDE DEF Items, Put, Ending, Raised, Token
    <3>7. CASE UNCHANGED queue
      BY <1>1, <3>7 DEF Types
    <3>8. CASE queue[r] # <<>> /\ queue' = [queue EXCEPT ![r] = Tail(@)]
      BY <1>1, <3>8, <3>2 DEF Types
    <3>9. ASSUME NEW n \in 0..MaxTokens, Put(r, <<Token(n)>>)
          PROVE  queue' \in [Request -> Seq(Items)]
      BY <3>9, <3>3, <3>5, Zenon
    <3>10. ASSUME NEW n \in 0..MaxTokens, NEW kept \in {<<>>, <<Token(n)>>}, Put(r, kept \o Ending(n))
           PROVE  queue' \in [Request -> Seq(Items)]
      <4>1. kept \in Seq(Items) /\ Ending(n) \in Seq(Items)
        BY <3>3, <3>4
      <4> QED BY <3>10, <4>1, <3>5, <3>6, Zenon
    <3>11. ASSUME Put(r, Ending(generated[r])) PROVE queue' \in [Request -> Seq(Items)]
      BY <3>11, <2>4, <3>3, <3>5, Zenon
    <3>12. ASSUME Put(r, <<Raised>> \o Ending(generated[r])) PROVE queue' \in [Request -> Seq(Items)]
      BY <3>12, <2>4, <3>3, <3>4, <3>5, <3>6, Zenon
    <3>13. CASE queue' = [queue EXCEPT ![r] = <<>>]
      BY <1>1, <3>13, <3>4 DEF Types
    <3> QED BY <3>1, <3>7, <3>8, <3>9, <3>10, <3>11, <3>12, <3>13, Zenon
  <2> HIDE DEF Items
  <2> QED BY <2>1, <2>2, <2>3, <2>5, <2>6 DEF Types
<1> QED BY <1>2, <1>3 DEF Next

-----------------------------------------------------------------------------
(* The streams                                                              *)

LEMMA ItemTypes ==
    /\ \A n : Token(n).type = "token" /\ Token(n).n = n
    /\ \A n : Final(n).type = "final" /\ Final(n).n = n
    /\ Raised.type = "exception" /\ End.type = "end" /\ Error.type = "error" /\ Done.type = "done"
BY DEF Token, Final, Raised, End, Error, Done

\* One sequence behind another, and where the first one ends.
LEMMA Joined ==
    ASSUME NEW S, NEW s \in Seq(S), NEW q \in Seq(S)
    PROVE  /\ s \o q \in Seq(S)
           /\ Len(s) \in Nat /\ DOMAIN s = 1..Len(s) /\ Len(q) \in Nat
           /\ Len(s \o q) = Len(s) + Len(q)
           /\ \A i \in DOMAIN s : s[i] = (s \o q)[i] /\ i \in 1..Len(s \o q)
           /\ q # <<>> => (s \o q)[Len(s) + 1] = Head(q) /\ Len(q) > 0
<1> DEFINE t == s \o q
           a == Len(s)
           b == Len(q)
<1>1. a \in Nat /\ DOMAIN s = 1..a /\ b \in Nat
  BY LenProperties
<1>2. t \in Seq(S) /\ Len(t) = a + b
      /\ \A i \in 1..(a + b) : t[i] = IF i <= a THEN s[i] ELSE q[i - a]
  BY ConcatProperties
<1>3. q # <<>> => b > 0 /\ Head(q) = q[1]
  BY EmptySeq
<1> HIDE DEF t, a, b
<1>4. \A i \in 1..a : s[i] = t[i] /\ i \in 1..(a + b)
  BY <1>1, <1>2
<1>6. \A i \in 1..(a + b) : ~ (i <= a) => t[i] = q[i - a]
  BY <1>2
<1>5. ASSUME q # <<>> PROVE t[a + 1] = Head(q) /\ b > 0
  <2>1. a + 1 \in 1..(a + b) /\ ~ (a + 1 <= a) /\ a + 1 - a = 1
    BY <1>1, <1>3, <1>5
  <2>2. \A c \in 1..(a + b) : c = a + 1 => t[c] = q[1]
    BY <1>1, <1>6
  <2> QED BY <1>3, <1>5, <2>1, <2>2
<1> QED BY <1>1, <1>2, <1>4, <1>5, Zenon DEF t, a, b

\* What is sent are tokens, and the final chunk behind them if it was sent.
Profile(s, n, k) ==
    \A i \in DOMAIN s :
        \/ i <= k /\ s[i] = Token(i)
        \/ i = k + 1 /\ s[i] = Final(n) /\ n \in {k, k + 1}

\* What was sent of an open stream.
LEMMA OpenProfile ==
    ASSUME NEW s \in Seq(Items), NEW q \in Seq(Items), NEW n \in 0..MaxTokens, NEW w,
           Open(w, n, s, q)
    PROVE  \E k \in Nat : /\ Profile(s, n, k)
                          /\ (q # <<>> /\ Head(q) = End) => Len(s) = k + 1
<1> DEFINE m == s \o q
           a == Len(s)
<1>1. n \in Nat
  BY CompletionServerAssumption
<1>2. /\ a \in Nat /\ DOMAIN s = 1..a
      /\ Len(m) \in Nat /\ a <= Len(m)
      /\ \A i \in DOMAIN s : s[i] = m[i]
      /\ q # <<>> => m[a + 1] = Head(q) /\ a + 1 <= Len(m)
  <2>1. /\ Len(s) \in Nat /\ DOMAIN s = 1..Len(s) /\ Len(q) \in Nat
        /\ Len(s \o q) = Len(s) + Len(q)
        /\ \A i \in DOMAIN s : s[i] = (s \o q)[i]
        /\ q # <<>> => (s \o q)[Len(s) + 1] = Head(q) /\ Len(q) > 0
    <3> HIDE DEF Items
    <3> QED BY Joined
  <2> QED BY <2>1
<1>3. \A i \in DOMAIN s : s[i].type \in {"token", "final"}
  BY DEF Open
<1>4. \/ w = "streaming" /\ Running(m, n)
      \/ w = "finished" /\ Finished(m, n)
  BY DEF Open
<1> HIDE DEF m, a, Items
<1>5. CASE Running(m, n)
  <2>1. Len(m) = n /\ \A i \in 1..n : m[i] = Token(i)
    BY <1>5 DEF Running, TokensUpTo
  <2>2. \A i \in DOMAIN s : i <= n /\ s[i] = Token(i)
    <3> HIDE DEF Token
    <3> QED BY <1>1, <1>2, <2>1
  <2>3. ~ (q # <<>> /\ Head(q) = End)
    <3> SUFFICES ASSUME q # <<>>, Head(q) = End PROVE FALSE
      OBVIOUS
    <3>1. a + 1 \in 1..n /\ m[a + 1] = End
      BY <1>1, <1>2, <2>1
    <3>2. End = Token(a + 1)
      BY <2>1, <3>1, Zenon
    <3> QED BY <3>2, ItemTypes
  <2> QED BY <1>1, <2>2, <2>3, Zenon DEF Profile
<1>6. CASE Finished(m, n)
  <2>1. PICK k \in {n - 1, n}, e \in Endings(n) :
            /\ k >= 0
            /\ Len(m) = k + Len(e)
            /\ TokensUpTo(m, k)
            /\ \A j \in 1..Len(e) : m[k + j] = e[j]
    BY <1>6 DEF Finished
  <2>2. k \in Nat /\ n \in {k, k + 1}
    BY <1>1, <2>1
  <2>3. \A i \in 1..k : m[i] = Token(i)
    BY <2>1 DEF TokensUpTo
  <2>4. \A i \in DOMAIN s : i <= k => s[i] = Token(i)
    <3> HIDE DEF Token
    <3> QED BY <1>2, <2>2, <2>3
  <2>5. CASE e = <<Final(n), End>>
    <3>1. Len(m) = k + 2 /\ m[k + 1] = Final(n) /\ m[k + 2] = End
      BY <2>1, <2>5
    <3>2. \A i \in DOMAIN s : i <= k \/ i = k + 1
      <4> SUFFICES ASSUME NEW i \in DOMAIN s, ~ (i <= k), i # k + 1 PROVE FALSE
        OBVIOUS
      <4>1. i = k + 2
        BY <1>2, <2>2, <3>1
      <4> QED BY <1>2, <1>3, <3>1, <4>1, ItemTypes
    <3>3. \A i \in DOMAIN s : i = k + 1 => s[i] = Final(n)
      <4> HIDE DEF Final
      <4> QED BY <1>2, <3>1
    <3>4. ASSUME q # <<>>, Head(q) = End PROVE a = k + 1
      <4>1. m[a + 1] = End /\ a + 1 <= k + 2
        BY <1>2, <3>1, <3>4
      <4>2. a + 1 # k + 1
        BY <3>1, <4>1, ItemTypes
      <4>3. ~ (a + 1 \in 1..k)
        <5> SUFFICES ASSUME a + 1 \in 1..k PROVE FALSE
          OBVIOUS
        <5>1. End = Token(a + 1)
          BY <2>3, <4>1, Zenon
        <5> QED BY <5>1, ItemTypes
      <4> QED BY <1>2, <2>2, <4>1, <4>2, <4>3
    <3>5. Profile(s, n, k)
      BY <2>2, <2>4, <3>2, <3>3, Zenon DEF Profile
    <3> QED BY <2>2, <3>4, <3>5, Zenon DEF a
  <2>6. CASE e = <<Raised, Final(n), End>>
    <3>1. Len(m) = k + 3 /\ m[k + 1] = Raised /\ m[k + 2] = Final(n)
      BY <2>1, <2>6
    <3>2. k + 1 \notin DOMAIN s
      BY <1>2, <1>3, <3>1, ItemTypes
    <3>3. a <= k
      BY <1>2, <2>2, <3>2
    <3>4. \A i \in DOMAIN s : i <= k
      BY <1>2, <2>2, <3>3
    <3>5. ~ (q # <<>> /\ Head(q) = End)
      <4> SUFFICES ASSUME q # <<>>, Head(q) = End PROVE FALSE
        OBVIOUS
      <4>1. m[a + 1] = End
        BY <1>2
      <4>2. a + 1 # k + 1
        BY <3>1, <4>1, ItemTypes
      <4>3. a + 1 \in 1..k
        BY <1>2, <2>2, <3>3, <4>2
      <4>4. End = Token(a + 1)
        BY <2>3, <4>1, <4>3, Zenon
      <4> QED BY <4>4, ItemTypes
    <3>6. Profile(s, n, k)
      BY <2>4, <3>4, Zenon DEF Profile
    <3> QED BY <2>2, <3>5, <3>6, Zenon
  <2> QED BY <2>1, <2>5, <2>6 DEF Endings
<1> QED BY <1>4, <1>5, <1>6

\* Nothing a handler sends behind it breaks the order.
LEMMA Ordered ==
    ASSUME NEW s \in Seq(Items), NEW n, NEW k \in Nat, Profile(s, n, k)
    PROVE  /\ InOrder(s)
           /\ Len(s) = k + 1 => InOrder(Append(s, Done))
           /\ InOrder(s \o <<Error, Done>>)
<1> DEFINE a == Len(s)
<1>1. a \in Nat /\ DOMAIN s = 1..a
  BY LenProperties
<1> HIDE DEF Items
<1>2. \A i \in 1..a :
        \/ s[i].type = "token" /\ s[i].n = i
        \/ s[i].type = "final" /\ s[i].n \in {i - 1, i} /\ i = k + 1
  BY <1>1, ItemTypes DEF Profile
<1>3. \A i \in 1..a : \A j \in 1..(i - 1) : s[j].type = "token"
  <2> SUFFICES ASSUME NEW i \in 1..a, NEW j \in 1..(i - 1) PROVE s[j].type = "token"
    OBVIOUS
  <2>1. j \in 1..a /\ i \in Nat /\ j < i
    BY <1>1
  <2>2. CASE i <= k
    <3>1. j # k + 1
      BY <2>1, <2>2
    <3> QED BY <1>2, <2>1, <3>1
  <2>3. CASE ~ (i <= k)
    <3>1. i = k + 1
      BY <1>1, <2>3 DEF Profile
    <3>2. j # k + 1
      BY <2>1, <3>1
    <3> QED BY <1>2, <2>1, <3>2
  <2> QED BY <2>2, <2>3
<1>4. ASSUME NEW t, DOMAIN t = 1..Len(t), Len(t) \in Nat, a <= Len(t),
             \A i \in 1..a : t[i] = s[i],
             \A i \in (a + 1)..Len(t) :
                \/ i < Len(t) /\ t[i].type = "error"
                \/ /\ i = Len(t) /\ i > 1 /\ t[i].type = "done"
                   /\ t[i - 1].type \in {"final", "error"}
      PROVE  InOrder(t)
  <2> HIDE DEF a
  <2>1. \A i \in 1..a : \A j \in 1..(i - 1) : t[j].type = "token"
    <3>1. \A i \in 1..a : \A j \in 1..(i - 1) : j \in 1..a
      BY <1>1
    <3> QED BY <1>3, <1>4, <3>1, ZenonT(30)
  <2>2. \A i \in 1..a :
          \/ t[i].type = "token" /\ t[i].n = i
          \/ t[i].type = "final" /\ t[i].n \in {i - 1, i}
    BY <1>2, <1>4
  <2>7. /\ \A i \in DOMAIN t : i \in 1..a \/ i \in (a + 1)..Len(t)
        /\ \A i \in (a + 1)..Len(t) : \A j \in 1..(i - 1) :
              j \in 1..a \/ (j \in (a + 1)..Len(t) /\ j # Len(t))
    <3> DEFINE b == Len(t)
    <3>1. DOMAIN t = 1..b /\ b \in Nat /\ a <= b
      BY <1>4
    <3> HIDE DEF b
    <3>2. /\ \A i \in 1..b : i \in 1..a \/ i \in (a + 1)..b
          /\ \A i \in (a + 1)..b : \A j \in 1..(i - 1) :
                j \in 1..a \/ (j \in (a + 1)..b /\ j # b)
      BY <1>1, <3>1
    <3> QED BY <3>1, <3>2 DEF b
  <2>4. \A i \in (a + 1)..Len(t) : \A j \in 1..(i - 1) : t[j].type # "done"
    <3> SUFFICES ASSUME NEW i \in (a + 1)..Len(t), NEW j \in 1..(i - 1) PROVE t[j].type # "done"
      OBVIOUS
    <3>1. j \in 1..a \/ (j \in (a + 1)..Len(t) /\ j # Len(t))
      BY <2>7
    <3> QED BY <1>4, <2>2, <3>1
  <2> SUFFICES ASSUME NEW i \in DOMAIN t
               PROVE  LET item == t[i]
                          before == {t[j].type : j \in 1..(i - 1)}
                      IN  /\ item.type = "token" => item.n = i /\ before \subseteq {"token"}
                          /\ item.type = "final" => item.n \in {i - 1, i} /\ before \subseteq {"token"}
                          /\ item.type = "done" =>
                               i = Len(t) /\ i > 1 /\ t[i - 1].type \in {"final", "error"}
                          /\ item.type \in {"error", "exception", "end"} => "done" \notin before
    BY DEF InOrder
  <2>5. CASE i \in 1..a
    <3>1. {t[j].type : j \in 1..(i - 1)} \subseteq {"token"}
      BY <2>1, <2>5
    <3> QED BY <2>2, <2>5, <3>1
  <2>6. CASE i \in (a + 1)..Len(t)
    <3>1. "done" \notin {t[j].type : j \in 1..(i - 1)}
      BY <2>4, <2>6
    <3> QED BY <1>4, <2>6, <3>1
  <2> QED BY <2>7, <2>5, <2>6
<1>5. InOrder(s)
  BY <1>1, <1>4
<1>6. ASSUME a = k + 1 PROVE InOrder(Append(s, Done))
  <2> DEFINE t == Append(s, Done)
  <2>1. /\ Len(t) = a + 1 /\ DOMAIN t = 1..Len(t)
        /\ \A i \in 1..a : t[i] = s[i]
        /\ t[a + 1] = Done
    BY <1>1, AppendProperties
  <2> HIDE DEF t, a
  <2>2. a \in 1..a /\ s[a].type = "final"
    <3>1. a \in 1..a /\ a \in DOMAIN s /\ ~ (a <= k)
      BY <1>1, <1>6
    <3> QED BY <3>1, ItemTypes DEF Profile
  <2>3. t[a] = s[a]
    BY <2>1, <2>2
  <2>4. \A i \in (a + 1)..Len(t) : i = Len(t) /\ i > 1 /\ i - 1 = a /\ t[i] = Done
    BY <1>1, <1>6, <2>1
  <2>5. InOrder(t)
    BY <1>1, <1>4, <2>1, <2>2, <2>3, <2>4, ItemTypes
  <2> QED BY <2>5 DEF t
<1>7. InOrder(s \o <<Error, Done>>)
  <2> DEFINE t == s \o <<Error, Done>>
  <2>1. <<Error, Done>> \in Seq({Error, Done})
    OBVIOUS
  <2>2. s \in Seq(Items \cup {Error, Done}) /\ <<Error, Done>> \in Seq(Items \cup {Error, Done})
    BY <2>1, SeqMonotonic
  <2>3. /\ Len(t) = a + 2 /\ DOMAIN t = 1..Len(t)
        /\ \A i \in 1..(a + 2) : t[i] = IF i <= a THEN s[i] ELSE <<Error, Done>>[i - a]
    BY <1>1, <2>2, ConcatProperties
  <2> HIDE DEF t, a
  <2>4. (\A i \in 1..a : t[i] = s[i]) /\ t[a + 1] = Error /\ t[a + 2] = Done
    <3>1. \A i \in 1..a : t[i] = s[i]
      BY <1>1, <2>3
    <3>2. \A i \in 1..(a + 2) : i = a + 1 => t[i] = <<Error, Done>>[1]
      BY <1>1, <2>3
    <3>3. \A i \in 1..(a + 2) : i = a + 2 => t[i] = <<Error, Done>>[2]
      BY <1>1, <2>3
    <3>4. a + 1 \in 1..(a + 2) /\ a + 2 \in 1..(a + 2)
      BY <1>1
    <3> QED BY <3>1, <3>2, <3>3, <3>4
  <2>5. \A i \in (a + 1)..Len(t) :
          \/ i < Len(t) /\ t[i] = Error
          \/ i = Len(t) /\ i > 1 /\ t[i] = Done /\ t[i - 1] = Error
    <3>1. \A i \in (a + 1)..Len(t) : i = a + 1 \/ (i = a + 2 /\ i - 1 = a + 1 /\ i > 1)
      BY <1>1, <2>3
    <3>2. a + 1 < a + 2
      BY <1>1
    <3> QED BY <2>3, <2>4, <3>1, <3>2
  <2>6. InOrder(t)
    <3>1. Len(t) \in Nat /\ a <= Len(t)
      BY <1>1, <2>3
    <3>2. \A i \in (a + 1)..Len(t) :
                \/ i < Len(t) /\ t[i].type = "error"
                \/ /\ i = Len(t) /\ i > 1 /\ t[i].type = "done"
                   /\ t[i - 1].type \in {"final", "error"}
      BY <2>5, ItemTypes
    <3> QED BY <1>4, <2>3, <2>4, <3>1, <3>2
  <2> QED BY <2>6 DEF t
<1> QED BY <1>5, <1>6, <1>7

\* A sequence and what is put behind it.
LEMMA Behind ==
    ASSUME NEW m \in Seq(Items), NEW e \in Seq(Items), NEW n \in Nat, Len(m) = n
    PROVE  /\ Len(m \o e) = n + Len(e)
           /\ TokensUpTo(m, n) => TokensUpTo(m \o e, n)
           /\ \A j \in 1..Len(e) : (m \o e)[n + j] = e[j]
<1> DEFINE t == m \o e
           b == Len(e)
<1>1. b \in Nat
  BY LenProperties
<1>2. Len(t) = n + b /\ \A i \in 1..(n + b) : t[i] = IF i <= n THEN m[i] ELSE e[i - n]
  BY ConcatProperties
<1> HIDE DEF t, b, Items
<1>3. \A i \in 1..n : t[i] = m[i]
  BY <1>1, <1>2
<1>4. \A j \in 1..b : t[n + j] = e[j]
  <2> SUFFICES ASSUME NEW j \in 1..b PROVE t[n + j] = e[j]
    OBVIOUS
  <2>1. \A i \in 1..(n + b) : i = n + j => t[i] = e[j]
    BY <1>1, <1>2
  <2>2. n + j \in 1..(n + b)
    BY <1>1
  <2> QED BY <2>1, <2>2
<1>5. TokensUpTo(m, n) => TokensUpTo(t, n)
  BY <1>3 DEF TokensUpTo
<1> QED BY <1>2, <1>4, <1>5, Zenon DEF t, b

LEMMA OneBeforeTwo == ASSUME NEW x, NEW y, NEW z PROVE <<x>> \o <<y, z>> = <<x, y, z>>
<1> DEFINE S == {x, y, z}
           t == <<x>> \o <<y, z>>
<1>1. <<x>> \in Seq(S) /\ <<y, z>> \in Seq(S) /\ <<x, y, z>> \in Seq(S)
  OBVIOUS
<1>2. t \in Seq(S) /\ Len(t) = 3 /\ t[1] = x /\ t[2] = y /\ t[3] = z
  BY <1>1, ConcatProperties
<1> HIDE DEF t
<1>3. t = <<x, y, z>>
  BY <1>2
<1> QED BY <1>3 DEF t

\* What a running thread puts keeps its stream in shape.
LEMMA Extended ==
    ASSUME NEW n \in Nat, n <= MaxTokens, NEW m \in Seq(Items), Running(m, n)
    PROVE  /\ n < MaxTokens => Running(m \o <<Token(n + 1)>>, n + 1)
           /\ Finished(m \o Ending(n), n)
           /\ Finished(m \o (<<Raised>> \o Ending(n)), n)
           /\ n < MaxTokens => Finished(m \o Ending(n + 1), n + 1)
<1>1. Len(m) = n /\ TokensUpTo(m, n)
  BY DEF Running
<1>2. MaxTokens \in Nat
  BY CompletionServerAssumption
<1>3. \A k \in 0..MaxTokens : Ending(k) \in Seq(Items) /\ <<Token(k)>> \in Seq(Items)
  <2> HIDE DEF Items, Token, Final, End
  <2> QED BY <1>2, ItemFacts, ItemSeqs DEF Ending
<1>4. \A k : Ending(k) \in Endings(k) /\ Len(Ending(k)) = 2
  BY DEF Ending, Endings
<1>5. \A k : <<Raised>> \o Ending(k) = <<Raised, Final(k), End>>
  BY OneBeforeTwo DEF Ending
<1>6. \A k : <<Raised>> \o Ending(k) \in Endings(k)
  BY <1>5 DEF Endings
<1>7. <<Raised>> \o Ending(n) \in Seq(Items)
  <2>1. <<Raised>> \in Seq(Items)
    <3> HIDE DEF Items, Raised
    <3> QED BY <1>2, ItemFacts, ItemSeqs
  <2> HIDE DEF Items, Ending
  <2> QED BY <1>2, <1>3, <2>1, ConcatProperties
<1> HIDE DEF Items, Ending, Endings, Raised, Token
<1>11. \A e \in Seq(Items) :
         /\ Len(m \o e) = n + Len(e) /\ TokensUpTo(m \o e, n)
         /\ \A j \in 1..Len(e) : (m \o e)[n + j] = e[j]
  BY <1>1, Behind
<1>8. \A k \in {n, n + 1} : \A e \in Endings(k) : e \in Seq(Items) => Finished(m \o e, k)
  <2> SUFFICES ASSUME NEW k \in {n, n + 1}, NEW e \in Endings(k), e \in Seq(Items)
               PROVE  Finished(m \o e, k)
    OBVIOUS
  <2>1. /\ Len(m \o e) = n + Len(e) /\ TokensUpTo(m \o e, n)
        /\ \A j \in 1..Len(e) : (m \o e)[n + j] = e[j]
    BY <1>11, Zenon
  <2>2. n \in {k - 1, k} /\ n >= 0
    OBVIOUS
  <2> QED BY <2>1, <2>2 DEF Finished
<1>9. ASSUME n < MaxTokens PROVE Running(m \o <<Token(n + 1)>>, n + 1)
  <2> DEFINE e == <<Token(n + 1)>>
  <2>1. e \in Seq(Items) /\ Len(e) = 1 /\ e[1] = Token(n + 1)
    BY <1>2, <1>3, <1>9
  <2> HIDE DEF e
  <2>4. /\ Len(m \o e) = n + Len(e) /\ TokensUpTo(m \o e, n)
        /\ \A j \in 1..Len(e) : (m \o e)[n + j] = e[j]
    BY <2>1, <1>11, Zenon
  <2>2. /\ Len(m \o e) = n + 1 /\ TokensUpTo(m \o e, n)
        /\ (m \o e)[n + 1] = e[1]
    <3>1. 1 \in 1..Len(e)
      BY <2>1
    <3>2. (m \o e)[n + 1] = e[1]
      BY <2>4, <3>1, Zenon
    <3> QED BY <2>1, <2>4, <3>2
  <2>3. TokensUpTo(m \o e, n + 1)
    BY <2>1, <2>2 DEF TokensUpTo
  <2> QED BY <2>2, <2>3 DEF Running, e
<1>10. n \in 0..MaxTokens /\ (n < MaxTokens => n + 1 \in 0..MaxTokens)
  BY <1>2
<1> QED BY <1>3, <1>4, <1>6, <1>7, <1>8, <1>9, <1>10

-----------------------------------------------------------------------------
\* What a stream that goes on carries.
LEMMA StreamOpens == ASSUME NEW n, n = 0 PROVE Open("streaming", n, <<>>, <<>>)
<1>1. <<>> \o <<>> = <<>> /\ Len(<<>>) = 0 /\ DOMAIN <<>> = {}
  OBVIOUS
<1> QED BY <1>1 DEF Open, Running, TokensUpTo

LEMMA ChunkSent ==
    ASSUME NEW s \in Seq(Items), NEW q \in Seq(Items), NEW n, NEW w, Open(w, n, s, q),
           q # <<>>, Head(q).type \in {"token", "final"}
    PROVE  Open(w, n, Append(s, Head(q)), Tail(q))
<1> HIDE DEF Items
<1>1. Head(q) \in Items /\ Tail(q) \in Seq(Items) /\ q = <<Head(q)>> \o Tail(q)
  BY HeadTailProperties, ConcatSimplifications
<1>2. Append(s, Head(q)) \o Tail(q) = s \o q
  <2>1. Append(s, Head(q)) = s \o <<Head(q)>> /\ <<Head(q)>> \in Seq(Items)
    BY <1>1, AppendIsConcat
  <2> QED BY <1>1, <2>1, ConcatAssociative
<1>3. \A i \in DOMAIN Append(s, Head(q)) : Append(s, Head(q))[i].type \in {"token", "final"}
  <2>1. /\ DOMAIN Append(s, Head(q)) = 1..(Len(s) + 1) /\ DOMAIN s = 1..Len(s) /\ Len(s) \in Nat
        /\ \A i \in 1..Len(s) : Append(s, Head(q))[i] = s[i]
        /\ Append(s, Head(q))[Len(s) + 1] = Head(q)
    BY <1>1, AppendProperties, LenProperties
  <2>2. \A i \in 1..(Len(s) + 1) : i \in DOMAIN s \/ i = Len(s) + 1
    BY <2>1
  <2> QED BY <2>1, <2>2 DEF Open
<1> QED BY <1>2, <1>3 DEF Open

LEMMA ThreadPut ==
    ASSUME NEW s \in Seq(Items), NEW q \in Seq(Items), NEW n \in 0..MaxTokens,
           Open("streaming", n, s, q)
    PROVE  /\ n < MaxTokens => Open("streaming", n + 1, s, q \o <<Token(n + 1)>>)
           /\ Open("finished", n, s, q \o Ending(n))
           /\ Open("finished", n, s, q \o (<<Raised>> \o Ending(n)))
           /\ n < MaxTokens => \A kept \in {<<>>, <<Token(n + 1)>>} :
                Open("finished", n + 1, s, q \o (kept \o Ending(n + 1)))
<1> DEFINE m == s \o q
<1>1. n \in Nat /\ n <= MaxTokens /\ MaxTokens \in Nat
  BY CompletionServerAssumption
<1>2. (\A i \in DOMAIN s : s[i].type \in {"token", "final"}) /\ Running(m, n)
  BY DEF Open
<1>3. m \in Seq(Items)
  <2> HIDE DEF Items
  <2> QED BY ConcatProperties
<1>4. \A k \in 0..MaxTokens : Ending(k) \in Seq(Items) /\ <<Token(k)>> \in Seq(Items)
  <2> HIDE DEF Items, Token, Final, End
  <2> QED BY <1>1, ItemFacts, ItemSeqs DEF Ending
<1>5. <<Raised>> \in Seq(Items)
  <2> HIDE DEF Items, Raised
  <2> QED BY <1>1, ItemFacts, ItemSeqs
<1>6. n \in 0..MaxTokens /\ (n < MaxTokens => n + 1 \in 0..MaxTokens /\ n + 1 <= MaxTokens /\ n + 1 \in Nat)
  BY <1>1
<1> HIDE DEF Items, Ending, Raised, Token
<1>7. <<Raised>> \o Ending(n) \in Seq(Items)
  BY <1>4, <1>5, <1>6, ConcatProperties
<1>8. \A e \in Seq(Items) : s \o (q \o e) = m \o e
  BY ConcatAssociative
<1> HIDE DEF m
<1>9. \A w, k : \A e \in Seq(Items) :
        (w = "streaming" /\ Running(m \o e, k)) \/ (w = "finished" /\ Finished(m \o e, k))
          => Open(w, k, s, q \o e)
  BY <1>2, <1>8 DEF Open
<1>10. /\ n < MaxTokens => Running(m \o <<Token(n + 1)>>, n + 1)
       /\ Finished(m \o Ending(n), n)
       /\ Finished(m \o (<<Raised>> \o Ending(n)), n)
       /\ n < MaxTokens => Finished(m \o Ending(n + 1), n + 1)
  BY <1>1, <1>2, <1>3, Extended
<1>11. ASSUME n < MaxTokens, NEW kept \in {<<>>, <<Token(n + 1)>>}
       PROVE  Open("finished", n + 1, s, q \o (kept \o Ending(n + 1)))
  <2>1. Ending(n + 1) \in Seq(Items)
    BY <1>4, <1>6, <1>11
  <2>2. CASE kept = <<>>
    <3>1. kept \o Ending(n + 1) = Ending(n + 1)
      BY <2>1, <2>2, ConcatEmptySeq
    <3> QED BY <1>9, <1>10, <1>11, <2>1, <3>1
  <2>3. CASE kept = <<Token(n + 1)>>
    <3> DEFINE p == m \o <<Token(n + 1)>>
    <3>1. <<Token(n + 1)>> \in Seq(Items) /\ p \in Seq(Items)
      <4>1. <<Token(n + 1)>> \in Seq(Items)
        BY <1>4, <1>6, <1>11
      <4> QED BY <1>3, <4>1, ConcatProperties
    <3>2. m \o (kept \o Ending(n + 1)) = p \o Ending(n + 1) /\ kept \o Ending(n + 1) \in Seq(Items)
      <4> DEFINE e == Ending(n + 1)
                 t == <<Token(n + 1)>>
      <4>1. e \in Seq(Items) /\ t \in Seq(Items)
        BY <2>1, <3>1
      <4> HIDE DEF e, t
      <4>2. m \o (t \o e) = (m \o t) \o e
        <5>1. \A x, y, z \in Seq(Items) : (x \o y) \o z = x \o (y \o z)
          BY ConcatAssociative, SMTT(20)
        <5> QED BY <1>3, <4>1, <5>1, Zenon
      <4>3. t \o e \in Seq(Items)
        BY <4>1, ConcatProperties
      <4> QED BY <2>3, <4>2, <4>3 DEF e, t
    <3>3. Running(p, n + 1)
      BY <1>10, <1>11
    <3> HIDE DEF p
    <3>4. Finished(p \o Ending(n + 1), n + 1)
      BY <1>6, <1>11, <3>1, <3>3, Extended
    <3> QED BY <1>9, <3>2, <3>4
  <2> QED BY <2>2, <2>3
<1>12. ASSUME n < MaxTokens PROVE Open("streaming", n + 1, s, q \o <<Token(n + 1)>>)
  BY <1>4, <1>6, <1>9, <1>10, <1>12
<1>13. /\ Open("finished", n, s, q \o Ending(n))
       /\ Open("finished", n, s, q \o (<<Raised>> \o Ending(n)))
  BY <1>4, <1>6, <1>7, <1>9, <1>10
<1> QED BY <1>11, <1>12, <1>13

\* What the coroutine sends in the end.
LEMMA LastChunks ==
    ASSUME NEW s \in Seq(Items), NEW q \in Seq(Items), NEW n \in 0..MaxTokens, NEW w,
           Open(w, n, s, q)
    PROVE  /\ InOrder(s)
           /\ InOrder(s \o <<Error, Done>>)
           /\ (q # <<>> /\ Head(q) = End) => InOrder(Append(s, Done))
<1> HIDE DEF Items
<1>2. PICK k \in Nat : /\ Profile(s, n, k)
                       /\ (q # <<>> /\ Head(q) = End) => Len(s) = k + 1
  BY OpenProfile
<1>3. InOrder(s) /\ InOrder(s \o <<Error, Done>>)
  BY <1>2, Ordered, Zenon
<1>4. Len(s) = k + 1 => InOrder(Append(s, Done))
  BY <1>2, Ordered, Zenon
<1> QED BY <1>2, <1>3, <1>4

-----------------------------------------------------------------------------
(* Every step keeps the shapes                                              *)

\* What a step of one call leaves alone of another.
LEMMA OthersKeep ==
    ASSUME Types, NEW r \in Request, Admission(r) \/ Handler(r) \/ Leave(r) \/ Thread(r),
           NEW p \in Request \ {r}
    PROVE  /\ phase'[p] = phase[p] /\ worker'[p] = worker[p] /\ generated'[p] = generated[p]
           /\ sent'[p] = sent[p] /\ queue'[p] = queue[p]
<1> HIDE DEF Items, Ending, Token, Raised, End, Error, Done
<1>1. CASE Admission(r)
  BY <1>1 DEF Types, Admission, Busy, Reject, Stream, Collect, Become, gate, thread
<1>2. CASE Handler(r)
  BY <1>2 DEF Types, Handler, Answer, CollectTimesOut, Acquire, Resume, Yield, Complete,
    TimesOut, Break, Close, Collected, Finally, StartThread, Become, gate, thread
<1>3. CASE Leave(r)
  BY <1>3 DEF Types, Leave, LeaveAdmitted, LeaveWaiting, LeaveStreaming, LeaveSending,
    Finally, Become, gate, thread
<1>4. CASE Thread(r)
  <2>1. CASE CollectEnds(r)
    BY <2>1 DEF Types, CollectEnds, gate, thread
  <2>2. CASE Emit(r) \/ StopSequence(r)
    BY <2>2 DEF Types, Emit, StopSequence, Put, Finish, gate, thread
  <2>3. CASE GeneratorEnds(r) \/ GeneratorRaises(r)
    BY <2>3 DEF Types, GeneratorEnds, GeneratorRaises, Put, Finish, gate, thread
  <2> QED BY <1>4, <2>1, <2>2, <2>3 DEF Thread
<1> QED BY <1>1, <1>2, <1>3, <1>4

\* A step of a call and the shape of its own stream.
LEMMA OwnStream ==
    ASSUME Types, NEW r \in Request,
           Admission(r) \/ Handler(r) \/ Leave(r) \/ Thread(r),
           Shape(phase[r], worker[r], generated[r], sent[r], queue[r])
    PROVE  Shape(phase'[r], worker'[r], generated'[r], sent'[r], queue'[r])
<1> DEFINE w == worker[r]
           n == generated[r]
           s == sent[r]
           q == queue[r]
<1>1. /\ phase[r] \in Phases /\ n \in 0..MaxTokens /\ n \in Nat /\ MaxTokens \in Nat
      /\ s \in Seq(Items) /\ q \in Seq(Items)
  BY CompletionServerAssumption DEF Types
<1>2. /\ DOMAIN phase = Request /\ DOMAIN worker = Request /\ DOMAIN generated = Request
      /\ DOMAIN sent = Request /\ DOMAIN queue = Request
  BY DEF Types
<1>3. phase[r] \notin {"streaming", "closing", "abandoned"} => s = <<>> /\ q = <<>>
  BY DEF Shape
<1>4. ASSUME phase[r] = "streaming" PROVE Open(w, n, s, q)
  BY <1>4 DEF Shape
<1>5. CASE Admission(r)
  <2>1. /\ phase[r] = "new"
        /\ UNCHANGED <<generated, sent, queue>>
        /\ \/ Become(r, "refused")
           \/ Become(r, "admitted") /\ UNCHANGED worker
           \/ Become(r, "collecting")
    BY <1>5 DEF Admission, Busy, Reject, Stream, Collect, thread
  <2> QED BY <1>2, <2>1 DEF Shape, Become
<1>6. CASE Answer(r) \/ CollectTimesOut(r) \/ LeaveAdmitted(r) \/ LeaveWaiting(r)
  <2>1. /\ phase[r] \in {"collecting", "admitted", "waiting"}
        /\ UNCHANGED <<worker, generated, sent, queue>>
        /\ Become(r, "ended") \/ Become(r, "gone")
    BY <1>6 DEF Answer, CollectTimesOut, LeaveAdmitted, LeaveWaiting, thread
  <2> QED BY <1>2, <2>1 DEF Shape, Become
<1>7. CASE Acquire(r) \/ Resume(r)
  <2>1. /\ phase[r] \in {"admitted", "waiting"}
        /\ UNCHANGED <<generated, sent, queue>>
        /\ (Become(r, "waiting") /\ UNCHANGED worker) \/ StartThread(r)
    BY <1>7 DEF Acquire, Resume
  <2>2. s = <<>> /\ q = <<>> /\ n = 0
    BY <2>1 DEF Shape
  <2>3. Open("streaming", n, <<>>, <<>>)
    BY <2>2, StreamOpens
  <2>4. CASE Become(r, "waiting") /\ UNCHANGED worker
    BY <1>2, <2>1, <2>4 DEF Shape, Become
  <2>5. CASE StartThread(r)
    BY <1>2, <2>1, <2>2, <2>3, <2>5 DEF Shape, Become, StartThread
  <2> QED BY <2>1, <2>4, <2>5
<1>8. CASE \/ Break(r) \/ Close(r) \/ Collected(r) \/ LeaveStreaming(r)
  <2>1. Finally(r, "ended") \/ Finally(r, "gone")
    BY <1>8 DEF Break, Close, Collected, LeaveStreaming
  <2> QED BY <1>2, <2>1 DEF Finally, Become, Shape
<1>9. CASE Yield(r)
  <2>1. Open(w, n, Append(s, Head(q)), Tail(q))
    BY <1>1, <1>4, <1>9, ChunkSent DEF Yield
  <2> QED BY <1>2, <1>9, <2>1 DEF Yield, Shape, thread
<1>10. CASE Complete(r) \/ TimesOut(r) \/ LeaveSending(r)
  <2>1. ASSUME phase[r] = "streaming"
        PROVE  /\ InOrder(s)
               /\ InOrder(s \o <<Error, Done>>)
               /\ (q # <<>> /\ Head(q) = End) => InOrder(Append(s, Done))
    BY <1>1, <1>4, <2>1, LastChunks
  <2>2. CASE Complete(r)
    BY <1>2, <2>1, <2>2 DEF Complete, Become, Shape
  <2>3. CASE TimesOut(r)
    BY <1>2, <2>1, <2>3 DEF TimesOut, Become, Shape
  <2>4. CASE LeaveSending(r)
    BY <1>2, <2>1, <2>4 DEF LeaveSending, Become, Shape
  <2> QED BY <1>10, <2>2, <2>3, <2>4
<1>11. CASE CollectEnds(r)
  <2>1. w = "collecting" /\ UNCHANGED <<phase, generated, sent, queue>>
    BY <1>11 DEF CollectEnds
  <2>2. phase[r] \notin {"new", "admitted", "waiting", "streaming"}
    BY <2>1 DEF Shape, Open
  <2> QED BY <2>1, <2>2 DEF Shape
<1>12. CASE Emit(r) \/ StopSequence(r) \/ GeneratorEnds(r) \/ GeneratorRaises(r)
  <2>1. /\ w = "streaming" /\ UNCHANGED <<phase, sent>>
        /\ phase[r] # "streaming" => UNCHANGED queue
    BY <1>12 DEF Emit, StopSequence, GeneratorEnds, GeneratorRaises, Put
  <2>2. CASE phase[r] # "streaming"
    BY <2>1, <2>2 DEF Shape
  <2>3. CASE phase[r] = "streaming"
    <3>1. Open(worker'[r], generated'[r], s, queue'[r])
      <4>1. Open("streaming", n, s, q)
        BY <1>4, <2>1, <2>3
      <4>2. /\ n < MaxTokens => Open("streaming", n + 1, s, q \o <<Token(n + 1)>>)
            /\ Open("finished", n, s, q \o Ending(n))
            /\ Open("finished", n, s, q \o (<<Raised>> \o Ending(n)))
            /\ n < MaxTokens => \A kept \in {<<>>, <<Token(n + 1)>>} :
                 Open("finished", n + 1, s, q \o (kept \o Ending(n + 1)))
        BY <1>1, <4>1, ThreadPut
      <4>3. CASE Emit(r)
        BY <1>2, <2>1, <2>3, <4>2, <4>3 DEF Emit, Put
      <4>4. CASE StopSequence(r)
        <5>1. /\ n + 1 <= MaxTokens /\ generated' = [generated EXCEPT ![r] = n + 1]
              /\ \E kept \in {<<>>, <<Token(n + 1)>>} : Put(r, kept \o Ending(n + 1))
              /\ worker' = [worker EXCEPT ![r] = "finished"]
          BY <4>4 DEF StopSequence, Finish
        <5>2. PICK kept \in {<<>>, <<Token(n + 1)>>} : Put(r, kept \o Ending(n + 1))
          BY <5>1
        <5>3. queue'[r] = q \o (kept \o Ending(n + 1))
          BY <1>2, <2>3, <5>2 DEF Put
        <5>4. worker'[r] = "finished" /\ generated'[r] = n + 1
          BY <1>2, <5>1
        <5>5. n < MaxTokens
          BY <1>1, <5>1
        <5> QED BY <4>2, <5>2, <5>3, <5>4, <5>5
      <4>5. CASE GeneratorEnds(r) \/ GeneratorRaises(r)
        BY <1>2, <2>3, <4>2, <4>5 DEF GeneratorEnds, GeneratorRaises, Put, Finish
      <4> QED BY <1>12, <4>3, <4>4, <4>5
    <3> QED BY <2>1, <2>3, <3>1 DEF Shape
  <2> QED BY <2>2, <2>3
<1> QED BY <1>5, <1>6, <1>7, <1>8, <1>9, <1>10, <1>11, <1>12 DEF Handler, Leave, Thread

LEMMA StreamsNext == Types /\ StreamShapes /\ [Next]_vars => StreamShapes'
<1> SUFFICES ASSUME Types, StreamShapes, [Next]_vars,
                    NEW p \in Request
             PROVE  Shape(phase'[p], worker'[p], generated'[p], sent'[p], queue'[p])
  BY DEF StreamShapes, Shape, Open, Running, Finished, TokensUpTo, Endings, Token, Final,
    Raised, End, InOrder
<1>1. Shape(phase[p], worker[p], generated[p], sent[p], queue[p])
  BY DEF StreamShapes
<1>2. CASE UNCHANGED vars
  BY <1>1, <1>2 DEF vars
<1>3. ASSUME NEW r \in Request, Admission(r) \/ Handler(r) \/ Leave(r) \/ Thread(r)
      PROVE  Shape(phase'[p], worker'[p], generated'[p], sent'[p], queue'[p])
  <2>1. CASE p = r
    BY <1>1, <1>3, <2>1, OwnStream, Zenon
  <2>2. CASE p # r
    BY <1>1, <1>3, <2>2, OthersKeep
  <2> QED BY <2>1, <2>2
<1> QED BY <1>2, <1>3 DEF Next

LEMMA StreamsInOrder == Types /\ StreamShapes => StreamInOrder
<1> SUFFICES ASSUME Types, StreamShapes, NEW r \in Request PROVE InOrder(sent[r])
  BY DEF StreamInOrder
<1>1. Shape(phase[r], worker[r], generated[r], sent[r], queue[r])
  BY DEF StreamShapes
<1>2. CASE phase[r] \notin {"streaming", "closing", "abandoned"}
  BY <1>1, <1>2 DEF Shape, InOrder
<1>3. CASE phase[r] \in {"closing", "abandoned"}
  BY <1>1, <1>3 DEF Shape
<1>4. CASE phase[r] = "streaming"
  <2>1. /\ sent[r] \in Seq(Items) /\ queue[r] \in Seq(Items) /\ generated[r] \in 0..MaxTokens
        /\ Open(worker[r], generated[r], sent[r], queue[r])
    BY <1>1, <1>4 DEF Types, Shape
  <2> QED BY <2>1, LastChunks
<1> QED BY <1>2, <1>3, <1>4

-----------------------------------------------------------------------------
(* Every step keeps the invariant                                           *)

LEMMA GateNext == IInv /\ [Next]_vars => GateShape'
<1> SUFFICES ASSUME IInv, [Next]_vars PROVE GateShape'
  OBVIOUS
<1> HIDE DEF IInv, GateShape, InsidePhases
<1>1. CASE UNCHANGED vars
  BY <1>1, GateUntouched DEF vars, gate
<1>2. ASSUME NEW r \in Request, Admission(r)
      PROVE  GateShape'
  <2>1. CASE Busy(r) \/ Reject(r) \/ Stream(r)
    <3>1. /\ UNCHANGED gate /\ phase[r] = "new"
          /\ Become(r, "refused") \/ Become(r, "admitted")
      BY <2>1 DEF Busy, Reject, Stream
    <3>2. \E p \in Phases : /\ Become(r, p)
                            /\ p \in InsidePhases <=> phase[r] \in InsidePhases
                            /\ p # "waiting" /\ phase[r] # "waiting"
      <4> HIDE DEF Become
      <4> QED BY <3>1 DEF Phases, InsidePhases
    <3> HIDE DEF Become
    <3> QED BY <3>1, <3>2, GateUntouched
  <2>2. CASE Collect(r)
    <3>1. "collecting" \in InsidePhases
      BY DEF InsidePhases
    <3>2. /\ Become(r, "collecting") /\ phase[r] = "new" /\ ~locked
          /\ permits' = permits - 1 /\ UNCHANGED <<waiters, granted>>
      BY <2>2 DEF Collect
    <3> HIDE DEF Become, locked
    <3> QED BY <3>1, <3>2, PermitTaken
  <2> QED BY <1>2, <2>1, <2>2 DEF Admission
<1>3. ASSUME NEW r \in Request, Handler(r) \/ Leave(r)
      PROVE  GateShape'
  <2>1. CASE Acquire(r)
    <3>1. CASE locked
      <4>1. /\ Become(r, "waiting") /\ phase[r] = "admitted"
            /\ waiters' = Append(waiters, r) /\ UNCHANGED <<permits, granted>>
        BY <2>1, <3>1 DEF Acquire
      <4> HIDE DEF Become, locked
      <4> QED BY <3>1, <4>1, Queued
    <3>2. CASE ~locked
      <4>1. "streaming" \in InsidePhases
        BY DEF InsidePhases
      <4>2. /\ Become(r, "streaming") /\ phase[r] = "admitted"
            /\ permits' = permits - 1 /\ UNCHANGED <<waiters, granted>>
        BY <2>1, <3>2 DEF Acquire, StartThread
      <4> HIDE DEF Become, locked
      <4> QED BY <3>2, <4>1, <4>2, PermitTaken
    <3> QED BY <3>1, <3>2
  <2>2. CASE Resume(r)
    <3>1. "streaming" \in Phases /\ "streaming" \in InsidePhases
      BY DEF Phases, InsidePhases
    <3>2. /\ Become(r, "streaming") /\ phase[r] = "waiting" /\ r \in granted
          /\ waiters' = Without(r)
          /\ IF permits > 0
             THEN WakeNext(permits, Without(r), granted \ {r})
             ELSE granted' = granted \ {r} /\ UNCHANGED permits
      BY <2>2 DEF Resume, StartThread
    <3> HIDE DEF Become, WakeNext, Without
    <3> QED BY <3>1, <3>2, LeftQueue
  <2>3. CASE LeaveWaiting(r)
    <3>1. "gone" \in Phases /\ "gone" \notin InsidePhases
      BY DEF Phases, InsidePhases
    <3>2. /\ Become(r, "gone") /\ phase[r] = "waiting"
          /\ waiters' = Without(r)
          /\ IF r \in granted
             THEN WakeNext(permits + 1, Without(r), granted \ {r})
             ELSE UNCHANGED <<permits, granted>>
      BY <2>3 DEF LeaveWaiting
    <3> HIDE DEF Become, WakeNext, Without
    <3> QED BY <3>1, <3>2, LeftQueue
  <2>4. CASE \/ Answer(r) \/ CollectTimesOut(r) \/ Break(r) \/ Close(r)
             \/ Collected(r) \/ LeaveStreaming(r)
    <3>1. /\ phase[r] \in InsidePhases
          /\ release
          /\ Become(r, "ended") \/ Become(r, "gone")
      BY <2>4 DEF Answer, CollectTimesOut, Break, Close, Collected, LeaveStreaming,
        Finally, InsidePhases
    <3>2. \A p \in {"ended", "gone"} : p \in Phases /\ p \notin InsidePhases /\ p # "waiting"
      BY DEF Phases, InsidePhases
    <3> HIDE DEF Become, release
    <3> QED BY <3>1, <3>2, PermitReleased
  <2>5. CASE Yield(r)
    BY <2>5, GateUntouched DEF Yield
  <2>6. CASE Complete(r) \/ TimesOut(r) \/ LeaveAdmitted(r) \/ LeaveSending(r)
    <3>1. /\ UNCHANGED gate
          /\ \/ phase[r] = "streaming" /\ Become(r, "closing")
             \/ phase[r] = "admitted" /\ Become(r, "gone")
             \/ phase[r] \in {"streaming", "closing"} /\ Become(r, "abandoned")
      BY <2>6 DEF Complete, TimesOut, LeaveAdmitted, LeaveSending
    <3>2. \E p \in Phases : /\ Become(r, p)
                            /\ p \in InsidePhases <=> phase[r] \in InsidePhases
                            /\ p # "waiting" /\ phase[r] # "waiting"
      <4> HIDE DEF Become
      <4> QED BY <3>1 DEF Phases, InsidePhases
    <3> HIDE DEF Become
    <3> QED BY <3>1, <3>2, GateUntouched
  <2> QED BY <1>3, <2>1, <2>2, <2>3, <2>4, <2>5, <2>6 DEF Handler, Leave
<1>4. ASSUME NEW r \in Request, Thread(r)
      PROVE  GateShape'
  <2>1. UNCHANGED gate /\ UNCHANGED phase
    BY <1>4 DEF Thread, CollectEnds, Emit, StopSequence, GeneratorEnds, GeneratorRaises
  <2> QED BY <2>1, GateUntouched
<1> QED BY <1>1, <1>2, <1>3, <1>4 DEF Next

-----------------------------------------------------------------------------
(* What every execution keeps                                               *)

\* The inductive invariant: the types, the permits in their places, and the shape
\* of every stream.
THEOREM ServerInvariant == Spec => []IInv
<1>1. IInv /\ [Next]_vars => IInv'
  BY TypesNext, GateNext, StreamsNext DEF IInv
<1> QED BY InvInit, <1>1, PTL DEF Spec

\* Every variable of the server keeps its type: in particular the semaphore of
\* app.py never counts more than max_concurrent_requests free permits.
THEOREM ServerTypes == Spec => []TypeOK
<1>1. IInv => TypeOK
  BY PermitsBounded DEF IInv, Types, GateShape, TypeOK
<1> QED BY <1>1, ServerInvariant, PTL

\* No permit is lost or made up by the gate, the streams and their clients, for
\* any number of calls and permits (app.py:581, 725-737).
THEOREM PermitsConserved == Spec => []PermitsExact
<1>1. IInv => PermitsExact
  BY DEF IInv, GateShape
<1> QED BY <1>1, ServerInvariant, PTL

\* The client of a stream is sent every token once and in order, none after the
\* final chunk, and [DONE] only after a final chunk that covers all tokens, or an
\* error (app.py:725-860), for any number of streams and any max_tokens.
THEOREM StreamsKeepOrder == Spec => []StreamInOrder
<1>1. IInv => StreamInOrder
  BY StreamsInOrder DEF IInv
<1> QED BY <1>1, ServerInvariant, PTL
=============================================================================
