-------------------------- MODULE PagedCacheProofs --------------------------
(***************************************************************************)
(* TLAPS proofs about PagedCache, for every set of requests, blocks and    *)
(* prompts.  The argument: the reference counts are exact (RefCountExact), *)
(* so a block leaves or enters the free queue exactly when its last holder *)
(* does (FreeQueueExact); hence only unheld blocks are overwritten, a held *)
(* block keeps its content (HeldPrefix), and what the hash map promises of *)
(* a block stays true (HashMapSound).                                      *)
(***************************************************************************)
EXTENDS PagedCache, PoolLemmas

\* What r holds of its prompt is the KV data of its prompt.
HeldPrefix ==
    \A r \in Request : \A i \in DOMAIN held[r] :
        i <= Len(prompt[r]) => data[held[r][i]] = prompt[r][i]

\* Where a request is in its lookup bounds what it holds.
PhaseOK == \A r \in Request :
    /\ phase[r] = "idle" => held[r] = <<>>
    /\ phase[r] = "probe" => Len(held[r]) <= Len(prompt[r])
    /\ phase[r] \in {"disk", "promote"} => Len(held[r]) < Len(prompt[r])

IInv ==
    /\ TypeOK
    /\ RefCountExact
    /\ FreeQueueExact
    /\ StatsExact
    /\ HashMapSound
    /\ HeldPrefix
    /\ PhaseOK

-----------------------------------------------------------------------------
(* Counting holders.                                                       *)

\* The holders of a block are as many as its count says; a block with count
\* zero has none, one with count one has a single one.
LEMMA CountMeansHolders ==
    ASSUME TypeOK, RefCountExact, NEW b \in Block
    PROVE  /\ IsFiniteSet(Holders(b))
           /\ refCount[b] = 0 <=> Holders(b) = {}
           /\ \A r \in Holders(b) : refCount[b] = 1 => Holders(b) = {r}
<1>1. IsFiniteSet(Request)
  BY PagedCacheAssumption
<1>2. Holders(b) \in SUBSET Request
  BY DEF Holders
<1>3. IsFiniteSet(Holders(b))
  BY <1>1, <1>2, FS_Subset
<1>4. refCount[b] = Cardinality(Holders(b))
  BY DEF RefCountExact
<1> QED BY <1>3, <1>4, FS_EmptySet, FS_Singleton

\* When only r's blocks change, from held[r] to t, the holders of a block
\* change by r at most.
LEMMA HolderChange ==
    ASSUME TypeOK, RefCountExact, NEW r \in Request, NEW t, NEW b \in Block
    PROVE  Cardinality({q \in Request : b \in ToSet([held EXCEPT ![r] = t][q])}) =
             IF b \in ToSet(t) /\ b \notin Held(r) THEN refCount[b] + 1
             ELSE IF b \in Held(r) /\ b \notin ToSet(t) THEN refCount[b] - 1
             ELSE refCount[b]
<1> DEFINE H == {q \in Request : b \in ToSet([held EXCEPT ![r] = t][q])}
<1>1. IsFiniteSet(Holders(b)) /\ refCount[b] = Cardinality(Holders(b))
  BY CountMeansHolders DEF RefCountExact
<1>2. \A q \in Request : [held EXCEPT ![r] = t][q] = IF q = r THEN t ELSE held[q]
  BY DEF TypeOK
<1>3. r \in Holders(b) <=> b \in Held(r)
  BY DEF Holders
<1>4. CASE b \in ToSet(t)
  <2>1. H = Holders(b) \cup {r}
    BY <1>2, <1>4 DEF Holders, Held
  <2> QED BY <1>1, <1>3, <1>4, <2>1, FS_AddElement
<1>5. CASE b \notin ToSet(t)
  <2>1. H = Holders(b) \ {r}
    BY <1>2, <1>5 DEF Holders, Held
  <2> QED BY <1>1, <1>3, <1>5, <2>1, FS_RemoveElement
<1> QED BY <1>4, <1>5

\* The counts stay exact when r's blocks become t and each count follows.
LEMMA CountsFollow ==
    ASSUME TypeOK, RefCountExact, NEW r \in Request, NEW t,
           held' = [held EXCEPT ![r] = t], IsInjective(t),
           \A b \in Block : refCount'[b] =
             IF b \in ToSet(t) /\ b \notin Held(r) THEN refCount[b] + 1
             ELSE IF b \in Held(r) /\ b \notin ToSet(t) THEN refCount[b] - 1
             ELSE refCount[b]
    PROVE  RefCountExact'
<1>1. ASSUME NEW b \in Block PROVE refCount'[b] = Cardinality(Holders(b)')
  <2>1. Holders(b)' = {q \in Request : b \in ToSet([held EXCEPT ![r] = t][q])}
    BY DEF Holders, Held
  <2> QED BY <2>1, HolderChange
<1>2. ASSUME NEW q \in Request PROVE IsInjective(held'[q])
  BY DEF TypeOK, RefCountExact
<1> QED BY <1>1, <1>2 DEF RefCountExact

\* A block some request holds is not in the free queue, and is counted.
LEMMA HeldIsNotFree ==
    ASSUME TypeOK, RefCountExact, FreeQueueExact, NEW r \in Request, NEW b \in Held(r)
    PROVE  b \in Block /\ refCount[b] \in Nat \ {0} /\ b \notin ToSet(freeQueue) /\ b \in allocated
<1>1. b \in Block
  BY LenProperties DEF TypeOK, Held, ToSet
<1>2. r \in Holders(b)
  BY DEF Holders
<1>3. refCount[b] \in Nat /\ refCount[b] # 0
  BY <1>1, <1>2, CountMeansHolders DEF TypeOK
<1> QED BY <1>1, <1>3 DEF FreeQueueExact

-----------------------------------------------------------------------------
(* The free queue and its first blocks.                                    *)

LEMMA QueueFacts ==
    ASSUME TypeOK, RefCountExact, FreeQueueExact, NEW n \in Nat, n <= Len(freeQueue)
    PROVE  /\ Behind(n) \in Seq(Block)
           /\ Len(Behind(n)) = Len(freeQueue) - n
           /\ IsInjective(Behind(n))
           /\ ToSet(Behind(n)) = ToSet(freeQueue) \ Foremost(n)
           /\ Foremost(n) \subseteq Block
           /\ Foremost(n) \subseteq ToSet(freeQueue)
           /\ \A b \in Foremost(n) : refCount[b] = 0 /\ \A r \in Request : b \notin Held(r)
<1>1. freeQueue \in Seq(Block) /\ IsInjective(freeQueue)
  BY DEF TypeOK, FreeQueueExact
<1>2. Behind(n) = Part(freeQueue, n + 1, Len(freeQueue)) /\ Foremost(n) = FirstOf(freeQueue, n)
  BY DEF Behind, Foremost, Part, FirstOf
<1>3. /\ Behind(n) \in Seq(Block)
      /\ Len(Behind(n)) = Len(freeQueue) - n
      /\ IsInjective(Behind(n))
      /\ ToSet(Behind(n)) = ToSet(freeQueue) \ Foremost(n)
  BY <1>1, <1>2, DropFirst
<1>4. \A i \in 1..n : i \in DOMAIN freeQueue /\ freeQueue[i] \in Block
  BY <1>1, LenProperties
<1>5. Foremost(n) \subseteq Block /\ Foremost(n) \subseteq ToSet(freeQueue)
  BY <1>4 DEF Foremost, ToSet
<1>6. ASSUME NEW b \in Foremost(n)
      PROVE  refCount[b] = 0 /\ \A r \in Request : b \notin Held(r)
  BY <1>5, <1>6, CountMeansHolders DEF FreeQueueExact, Holders
<1> QED BY <1>3, <1>5, <1>6

-----------------------------------------------------------------------------
(* Each action preserves the invariant.                                    *)

LEMMA InitIInv == Init => IInv
<1> SUFFICES ASSUME Init PROVE IInv
  OBVIOUS
<1>1. /\ freeQueue \in Seq(Block) /\ Len(freeQueue) = Cardinality(Block)
      /\ IsInjective(freeQueue) /\ ToSet(freeQueue) = Block
  BY PagedCacheAssumption, Arrangement DEF Init
<1>2. Cardinality(Block) \in Nat
  BY PagedCacheAssumption, FS_CardinalityType
<1>3. TypeOK
  BY <1>1, <1>2, PagedCacheAssumption DEF Init, TypeOK, Content, Phase
<1>4. RefCountExact
  <2>1. \A b \in Block : refCount[b] = 0 /\ Holders(b) = {}
    BY DEF Init, Holders, Held, ToSet
  <2>2. \A b \in Block : refCount[b] = Cardinality(Holders(b))
    BY <2>1, FS_EmptySet
  <2>3. IsInjective(<<>>)
    BY DEF IsInjective
  <2>4. \A r \in Request : IsInjective(held[r])
    BY <2>3 DEF Init
  <2> QED BY <2>2, <2>4 DEF RefCountExact
<1>5. FreeQueueExact
  BY <1>1 DEF Init, FreeQueueExact
<1>6. StatsExact
  BY <1>1, <1>2 DEF Init, StatsExact
<1>7. HashMapSound /\ HeldPrefix /\ PhaseOK
  BY DEF Init, HashMapSound, HeldPrefix, PhaseOK
<1> QED BY <1>3, <1>4, <1>5, <1>6, <1>7 DEF IInv

\* Steps that only move a request through its lookup, or write to disk.
LEMMA QuietSteps ==
    ASSUME IInv, UNCHANGED <<pool, held>>, TypeOK', PhaseOK',
           \A r \in Request : prompt'[r] = prompt[r] \/ held[r] = <<>>
    PROVE  IInv'
<1>1. RefCountExact' /\ FreeQueueExact' /\ StatsExact' /\ HashMapSound'
  BY DEF IInv, RefCountExact, FreeQueueExact, StatsExact, HashMapSound, pool, Holders, Held
<1>2. HeldPrefix'
  BY DEF IInv, HeldPrefix, pool
<1> QED BY <1>1, <1>2 DEF IInv

LEMMA StartLookupKeeps ==
    ASSUME IInv, NEW r \in Request, NEW p \in Prompt, StartLookup(r, p)
    PROVE  IInv'
<1>1. p \in Seq(Hash)
  BY PagedCacheAssumption
<1>2. TypeOK'
  BY DEF IInv, StartLookup, TypeOK, Phase, pool
<1>3. PhaseOK'
  BY <1>1 DEF IInv, StartLookup, TypeOK, PhaseOK
<1>4. \A q \in Request : prompt'[q] = prompt[q] \/ held[q] = <<>>
  BY DEF IInv, StartLookup, TypeOK, PhaseOK
<1> QED BY <1>2, <1>3, <1>4, QuietSteps DEF StartLookup

LEMMA LookupMoves ==
    ASSUME IInv, NEW r \in Request,
           ProbeMiss(r) \/ LookupDone(r) \/ DiskRead(r) \/ PromoteFails(r)
    PROVE  IInv'
<1>1. TypeOK'
  BY DEF IInv, ProbeMiss, LookupDone, DiskRead, PromoteFails, TypeOK, Phase, pool
<1>2. PhaseOK'
  BY DEF IInv, ProbeMiss, LookupDone, DiskRead, PromoteFails, TypeOK, PhaseOK
<1>3. UNCHANGED <<pool, held, prompt>>
  BY DEF ProbeMiss, LookupDone, DiskRead, PromoteFails
<1> QED BY <1>1, <1>2, <1>3, QuietSteps

LEMMA DiskWrittenKeeps ==
    ASSUME IInv, NEW h \in Hash, DiskWritten(h)
    PROVE  IInv'
<1>1. TypeOK' /\ PhaseOK'
  BY DEF IInv, DiskWritten, TypeOK, PhaseOK, pool
<1> QED BY <1>1, QuietSteps DEF DiskWritten

\* A request's prompt names each prefix once.
LEMMA PromptFacts ==
    ASSUME TypeOK, NEW r \in Request
    PROVE  /\ prompt[r] \in Seq(Hash)
           /\ \A i, j \in DOMAIN prompt[r] : prompt[r][i] = prompt[r][j] => i = j
           /\ DOMAIN prompt[r] = 1..Len(prompt[r]) /\ Len(prompt[r]) \in Nat
           /\ DOMAIN held[r] = 1..Len(held[r]) /\ Len(held[r]) \in Nat
           /\ held[r] \in Seq(Block)
<1>1. prompt[r] \in Prompt \/ prompt[r] = <<>>
  BY DEF TypeOK
<1>2. CASE prompt[r] \in Prompt
  BY <1>2, PagedCacheAssumption, LenProperties DEF TypeOK
<1>3. CASE prompt[r] = <<>>
  BY <1>3, EmptySeq, LenProperties DEF TypeOK
<1> QED BY <1>1, <1>2, <1>3

\* A hit: the block found under r's next hash is none that r already holds,
\* since those hold the earlier prefixes of the same prompt.
LEMMA HitIsNew ==
    ASSUME IInv, NEW r \in Request, Len(held[r]) < Len(prompt[r]),
           NEW b \in hashMap[NextHash(r)]
    PROVE  /\ b \in Block
           /\ data[b] = NextHash(r)
           /\ b \notin Held(r)
           /\ NextHash(r) \in Hash
           /\ DOMAIN held[r] = 1..Len(held[r]) /\ Len(held[r]) \in Nat
<1>1. /\ prompt[r] \in Seq(Hash)
      /\ \A i, j \in DOMAIN prompt[r] : prompt[r][i] = prompt[r][j] => i = j
  BY PromptFacts DEF IInv
<1>2. /\ DOMAIN held[r] = 1..Len(held[r]) /\ Len(held[r]) \in Nat
      /\ DOMAIN prompt[r] = 1..Len(prompt[r]) /\ Len(prompt[r]) \in Nat
  BY PromptFacts DEF IInv
<1>3. Len(held[r]) + 1 \in DOMAIN prompt[r]
  BY <1>2
<1>4. NextHash(r) \in Hash
  BY <1>1, <1>3, LenProperties DEF NextHash
<1>5. b \in Block /\ data[b] = NextHash(r)
  BY <1>4 DEF IInv, TypeOK, HashMapSound
<1>6. ASSUME NEW i \in DOMAIN held[r], held[r][i] = b PROVE FALSE
  <2>1. i \in DOMAIN prompt[r] /\ i # Len(held[r]) + 1 /\ i <= Len(prompt[r])
    BY <1>2
  <2>2. data[b] = prompt[r][i]
    BY <1>6, <2>1 DEF IInv, HeldPrefix
  <2> QED BY <1>1, <1>3, <1>5, <2>1, <2>2 DEF NextHash
<1>7. b \notin Held(r)
  BY <1>6 DEF Held, ToSet
<1> QED BY <1>2, <1>4, <1>5, <1>7

LEMMA HitKeeps ==
    ASSUME IInv, NEW r \in Request, ProbeHit(r) \/ RecheckHit(r)
    PROVE  IInv'
<1>1. Len(held[r]) < Len(prompt[r])
  BY DEF IInv, PhaseOK, ProbeHit, RecheckHit
<1>2. PICK b \in hashMap[NextHash(r)] : Touch(r, b)
  BY DEF ProbeHit, RecheckHit
<1>3. /\ b \in Block /\ data[b] = NextHash(r) /\ b \notin Held(r) /\ NextHash(r) \in Hash
      /\ DOMAIN held[r] = 1..Len(held[r]) /\ Len(held[r]) \in Nat
  BY <1>1, <1>2, HitIsNew
<1>4. UNCHANGED <<blockHash, data, hashMap, disk, writing, prompt>>
  BY DEF ProbeHit, RecheckHit
<1>5. held' = [held EXCEPT ![r] = Append(held[r], b)] /\ refCount' = [refCount EXCEPT ![b] = refCount[b] + 1]
  BY <1>2 DEF Touch
<1>6. TypeOK /\ RefCountExact /\ FreeQueueExact /\ StatsExact
  BY DEF IInv
<1>7. /\ Append(held[r], b) \in Seq(Block)
      /\ Len(Append(held[r], b)) = Len(held[r]) + 1
      /\ \A i \in 1..Len(held[r]) : Append(held[r], b)[i] = held[r][i]
      /\ Append(held[r], b)[Len(held[r]) + 1] = b
      /\ IsInjective(Append(held[r], b))
      /\ ToSet(Append(held[r], b)) = Held(r) \cup {b}
  BY <1>3, <1>6, AppendProperties, AppendKeeps DEF TypeOK, RefCountExact, Held
<1>8. RefCountExact'
  BY <1>3, <1>5, <1>6, <1>7, CountsFollow DEF TypeOK
<1>9. /\ freeQueue' \in Seq(Block) /\ IsInjective(freeQueue')
      /\ ToSet(freeQueue') = ToSet(freeQueue) \ {b}
      /\ stats' \in [allocated : Int, free : Int]
      /\ stats'.free = Len(freeQueue') /\ stats'.allocated + stats'.free = Cardinality(Block) + 1
      /\ allocated \subseteq allocated' /\ allocated' \subseteq Block /\ b \in allocated'
  <2>1. CASE refCount[b] = 0
    <3>1. PICK i \in DOMAIN freeQueue : freeQueue[i] = b /\ freeQueue' = RemoveAt(freeQueue, i)
      BY <1>2, <2>1 DEF Touch
    <3>2. allocated' = allocated \cup {b} /\ stats' = [allocated |-> stats.allocated + 1, free |-> stats.free - 1]
      BY <1>2, <1>6, <2>1 DEF Touch, Count, TypeOK
    <3>3. /\ freeQueue' \in Seq(Block) /\ Len(freeQueue') = Len(freeQueue) - 1
          /\ IsInjective(freeQueue') /\ ToSet(freeQueue') = ToSet(freeQueue) \ {b}
      BY <1>6, <3>1, RemovedAt DEF TypeOK, FreeQueueExact
    <3>4. Len(freeQueue) \in Nat /\ Cardinality(Block) \in Nat
      BY <1>6, LenProperties, PagedCacheAssumption, FS_CardinalityType DEF TypeOK
    <3>5. stats.allocated \in Int /\ stats.free \in Int
      BY <1>6 DEF TypeOK
    <3>6. stats.free = Len(freeQueue) /\ stats.allocated + stats.free = Cardinality(Block) + 1
      BY <1>6 DEF StatsExact
    <3>8. /\ stats' \in [allocated : Int, free : Int]
          /\ stats'.free = stats.free - 1 /\ stats'.allocated = stats.allocated + 1
      BY <3>2, <3>5
    <3>9. stats'.free = Len(freeQueue') /\ stats'.allocated + stats'.free = Cardinality(Block) + 1
      BY <3>3, <3>4, <3>5, <3>6, <3>8
    <3>7. allocated \subseteq allocated' /\ allocated' \subseteq Block /\ b \in allocated'
      BY <1>3, <1>6, <3>2 DEF TypeOK
    <3> QED BY <3>3, <3>7, <3>8, <3>9
  <2>2. CASE refCount[b] # 0
    <3>1. UNCHANGED <<freeQueue, allocated, stats>>
      BY <1>2, <2>2 DEF Touch
    <3>2. b \notin ToSet(freeQueue) /\ b \in allocated
      BY <1>3, <1>6, <2>2 DEF FreeQueueExact, TypeOK
    <3> QED BY <1>6, <3>1, <3>2 DEF TypeOK, FreeQueueExact, StatsExact
  <2> QED BY <2>1, <2>2
<1>10. TypeOK'
  <2>1. refCount' \in [Block -> Nat] /\ held' \in [Request -> Seq(Block)]
    BY <1>3, <1>5, <1>6, <1>7 DEF TypeOK
  <2>2. phase' \in [Request -> Phase]
    BY <1>6 DEF TypeOK, ProbeHit, RecheckHit, Phase
  <2> QED BY <1>4, <1>6, <1>9, <2>1, <2>2 DEF TypeOK
<1>11. FreeQueueExact'
  BY <1>3, <1>5, <1>6, <1>9 DEF FreeQueueExact, TypeOK
<1>12. StatsExact'
  BY <1>9 DEF StatsExact
<1>13. HashMapSound'
  BY <1>4 DEF IInv, HashMapSound
<1>14. HeldPrefix'
  <2> SUFFICES ASSUME NEW q \in Request, NEW i \in DOMAIN held'[q], i <= Len(prompt[q])
               PROVE  data[held'[q][i]] = prompt[q][i]
    BY <1>4 DEF HeldPrefix
  <2>1. CASE q # r
    BY <1>5, <1>6, <2>1 DEF IInv, HeldPrefix, TypeOK
  <2>2. CASE q = r
    <3>1. held'[r] = Append(held[r], b) /\ DOMAIN held'[r] = 1..(Len(held[r]) + 1)
      BY <1>5, <1>6, <1>7, LenProperties DEF TypeOK
    <3>2. CASE i = Len(held[r]) + 1
      BY <1>3, <1>7, <2>2, <3>1, <3>2 DEF NextHash
    <3>3. CASE i # Len(held[r]) + 1
      BY <1>3, <1>7, <2>2, <3>1, <3>3 DEF IInv, HeldPrefix
    <3> QED BY <3>2, <3>3
  <2> QED BY <2>1, <2>2
<1>15. PhaseOK'
  <2>1. \A q \in Request : q # r => held'[q] = held[q] /\ phase'[q] = phase[q]
    BY <1>5, <1>6 DEF TypeOK, ProbeHit, RecheckHit
  <2>2. held'[r] = Append(held[r], b) /\ phase'[r] = "probe"
    BY <1>5, <1>6 DEF TypeOK, ProbeHit, RecheckHit
  <2>3. Len(held'[r]) <= Len(prompt[r])
    <3>1. Len(prompt[r]) \in Nat
      BY <1>6, PromptFacts
    <3> QED BY <1>1, <1>3, <1>7, <2>2, <3>1
  <2> QED BY <1>4, <2>1, <2>2, <2>3 DEF IInv, PhaseOK
<1> QED BY <1>8, <1>10, <1>11, <1>12, <1>13, <1>14, <1>15 DEF IInv

-----------------------------------------------------------------------------
(* Blocks that leave the front of the queue lose what they cached.         *)

\* The eviction of S leaves in the hash map only blocks outside S.
LEMMA MapAvoids ==
    ASSUME TypeOK, HashMapSound, NEW S \in SUBSET Block, NEW h \in Hash,
           NEW b \in MapWithout(Evicted(S))[h]
    PROVE  b \in Block /\ b \in hashMap[h] /\ b \notin S /\ blockHash[b] = h /\ data[b] = h
<1>1. b \in hashMap[h] /\ ~ (b \in Evicted(S) /\ blockHash[b] = h)
  BY DEF MapWithout
<1>2. b \in Block /\ blockHash[b] = h /\ data[b] = h
  BY <1>1 DEF TypeOK, HashMapSound
<1>3. b \notin S
  BY <1>1, <1>2, PagedCacheAssumption DEF Evicted
<1> QED BY <1>1, <1>2, <1>3

LEMMA EvictionTypes ==
    ASSUME TypeOK, NEW S \in SUBSET Block
    PROVE  /\ MapWithout(Evicted(S)) \in [Hash -> SUBSET Block]
           /\ Persist(Evicted(S)) => writing' \in SUBSET Hash
           /\ \A b \in Evicted(S) : b \in S /\ blockHash[b] \in Hash
<1>1. \A b \in Evicted(S) : b \in S /\ blockHash[b] \in Hash
  BY DEF TypeOK, Evicted
<1>2. MapWithout(Evicted(S)) \in [Hash -> SUBSET Block]
  BY DEF TypeOK, MapWithout
<1>3. Persist(Evicted(S)) => writing' \in SUBSET Hash
  BY <1>1 DEF TypeOK, Persist
<1> QED BY <1>1, <1>2, <1>3

\* n blocks leave the front of the queue with a reference each.
LEMMA FrontTaken ==
    ASSUME IInv, NEW n \in Nat, n <= Len(freeQueue),
           freeQueue' = Behind(n), allocated' = allocated \cup Foremost(n), Count(n, -n),
           refCount' \in [Block -> Nat],
           \A b \in Block : IF b \in Foremost(n) THEN refCount'[b] > 0
                            ELSE refCount'[b] = 0 <=> refCount[b] = 0
    PROVE  /\ FreeQueueExact' /\ StatsExact'
           /\ freeQueue' \in Seq(Block) /\ allocated' \in SUBSET Block
           /\ stats' \in [allocated : Int, free : Int]
<1>1. TypeOK /\ RefCountExact /\ FreeQueueExact /\ StatsExact
  BY DEF IInv
<1>2. /\ Behind(n) \in Seq(Block)
      /\ Len(Behind(n)) = Len(freeQueue) - n
      /\ IsInjective(Behind(n))
      /\ ToSet(Behind(n)) = ToSet(freeQueue) \ Foremost(n)
      /\ Foremost(n) \subseteq Block
      /\ Foremost(n) \subseteq ToSet(freeQueue)
  BY <1>1, QueueFacts
<1>3. FreeQueueExact'
  <2>1. ASSUME NEW b \in Block
        PROVE  /\ b \in ToSet(freeQueue') <=> refCount'[b] = 0
               /\ refCount'[b] > 0 => b \in allocated'
    <3>1. CASE b \in Foremost(n)
      BY <1>2, <3>1
    <3>2. CASE b \notin Foremost(n)
      BY <1>1, <1>2, <3>2 DEF FreeQueueExact, TypeOK
    <3> QED BY <3>1, <3>2
  <2> QED BY <1>2, <2>1 DEF FreeQueueExact
<1>4. stats' = [allocated |-> stats.allocated + n, free |-> stats.free - n]
  BY <1>1 DEF Count, TypeOK
<1>5. Len(freeQueue) \in Nat /\ Cardinality(Block) \in Nat
  BY <1>1, LenProperties, PagedCacheAssumption, FS_CardinalityType DEF TypeOK
<1>6. StatsExact' /\ stats' \in [allocated : Int, free : Int]
  BY <1>1, <1>2, <1>4, <1>5 DEF StatsExact, TypeOK
<1> QED BY <1>1, <1>2, <1>3, <1>6 DEF TypeOK

\* What no action does: change the content of a block while it is held.
LEMMA HeldContentStays ==
    ASSUME IInv, NEW n \in Nat, n <= Len(freeQueue),
           NEW q \in Request, NEW i \in DOMAIN held[q],
           \A b \in Block \ Foremost(n) : data'[b] = data[b]
    PROVE  data'[held[q][i]] = data[held[q][i]]
<1>1. held[q][i] \in Held(q) /\ held[q][i] \in Block
  BY LenProperties DEF IInv, TypeOK, Held, ToSet
<1>2. held[q][i] \notin Foremost(n)
  BY <1>1, QueueFacts DEF IInv
<1> QED BY <1>1, <1>2

-----------------------------------------------------------------------------
LEMMA PromoteKeeps ==
    ASSUME IInv, NEW r \in Request, Promote(r)
    PROVE  IInv'
<1> DEFINE h == NextHash(r)
           b == Head(freeQueue)
<1>1. TypeOK /\ RefCountExact /\ FreeQueueExact /\ StatsExact /\ HashMapSound
  BY DEF IInv
<1>2. /\ DOMAIN held[r] = 1..Len(held[r]) /\ Len(held[r]) \in Nat
      /\ DOMAIN prompt[r] = 1..Len(prompt[r]) /\ Len(prompt[r]) \in Nat
      /\ prompt[r] \in Seq(Hash) /\ held[r] \in Seq(Block)
  BY <1>1, PromptFacts
<1>3. Len(held[r]) < Len(prompt[r])
  BY DEF IInv, PhaseOK, Promote
<1>4. h \in Hash
  BY <1>2, <1>3, LenProperties DEF NextHash
<1>5. freeQueue # <<>> /\ freeQueue \in Seq(Block) /\ 1 <= Len(freeQueue) /\ b = freeQueue[1]
  BY <1>1, LenProperties, EmptySeq DEF Promote, TypeOK
<1>6. Foremost(1) = {b} /\ b \in Block /\ refCount[b] = 0 /\ b \notin Held(r)
  <2>1. Foremost(1) = {b}
    BY <1>5 DEF Foremost
  <2> QED BY <1>1, <1>5, <2>1, QueueFacts
<1>7. /\ TakeFront(1) /\ Persist(Evicted({b}))
      /\ hashMap' = [MapWithout(Evicted({b})) EXCEPT ![h] = MapWithout(Evicted({b}))[h] \cup {b}]
      /\ blockHash' = [blockHash EXCEPT ![b] = h]
      /\ data' = [data EXCEPT ![b] = h]
      /\ held' = [held EXCEPT ![r] = Append(held[r], b)]
      /\ phase' = [phase EXCEPT ![r] = "probe"]
      /\ UNCHANGED <<disk, prompt>>
  BY DEF Promote
<1> HIDE DEF h, b
<1>8. /\ Append(held[r], b) \in Seq(Block)
      /\ Len(Append(held[r], b)) = Len(held[r]) + 1
      /\ \A i \in 1..Len(held[r]) : Append(held[r], b)[i] = held[r][i]
      /\ Append(held[r], b)[Len(held[r]) + 1] = b
      /\ IsInjective(Append(held[r], b))
      /\ ToSet(Append(held[r], b)) = Held(r) \cup {b}
  BY <1>1, <1>2, <1>6, AppendProperties, AppendKeeps DEF RefCountExact, Held
<1>9. /\ freeQueue' = Behind(1) /\ allocated' = allocated \cup Foremost(1) /\ Count(1, -1)
      /\ refCount' = [c \in Block |-> IF c = b THEN 1 ELSE refCount[c]]
  BY <1>6, <1>7 DEF TakeFront
<1>10. RefCountExact'
  <2>1. ASSUME NEW c \in Block
        PROVE  refCount'[c] =
                 IF c \in ToSet(Append(held[r], b)) /\ c \notin Held(r) THEN refCount[c] + 1
                 ELSE IF c \in Held(r) /\ c \notin ToSet(Append(held[r], b)) THEN refCount[c] - 1
                 ELSE refCount[c]
    BY <1>6, <1>8, <1>9
  <2> QED BY <1>1, <1>7, <1>8, <2>1, CountsFollow
<1>11. /\ FreeQueueExact' /\ StatsExact'
       /\ freeQueue' \in Seq(Block) /\ allocated' \in SUBSET Block
       /\ stats' \in [allocated : Int, free : Int]
  <2>1. /\ refCount' \in [Block -> Nat]
        /\ \A c \in Block : IF c \in Foremost(1) THEN refCount'[c] > 0
                             ELSE refCount'[c] = 0 <=> refCount[c] = 0
    BY <1>1, <1>6, <1>9 DEF TypeOK
  <2> QED BY <1>5, <1>9, <2>1, FrontTaken
<1>12. TypeOK'
  <2>1. /\ MapWithout(Evicted({b})) \in [Hash -> SUBSET Block] /\ writing' \in SUBSET Hash
    BY <1>1, <1>6, <1>7, EvictionTypes
  <2>2. hashMap' \in [Hash -> SUBSET Block]
    BY <1>4, <1>6, <1>7, <2>1
  <2>3. /\ refCount' \in [Block -> Nat] /\ blockHash' \in [Block -> Hash \cup {NoHash}]
        /\ data' \in [Block -> Content] /\ held' \in [Request -> Seq(Block)]
    BY <1>1, <1>4, <1>6, <1>7, <1>8, <1>9 DEF TypeOK, Content
  <2>4. phase' \in [Request -> Phase]
    BY <1>1, <1>7 DEF TypeOK, Phase
  <2> QED BY <1>1, <1>7, <1>11, <2>1, <2>2, <2>3, <2>4 DEF TypeOK
<1>13. HashMapSound'
  <2> SUFFICES ASSUME NEW g \in Hash, NEW c \in hashMap'[g]
               PROVE  blockHash'[c] = g /\ data'[c] = g
    BY DEF HashMapSound
  <2>1. MapWithout(Evicted({b})) \in [Hash -> SUBSET Block]
    BY <1>1, <1>6, EvictionTypes
  <2>2. CASE c = b /\ g = h
    BY <1>1, <1>6, <1>7, <2>2 DEF TypeOK
  <2>3. CASE ~ (c = b /\ g = h)
    <3>1. c \in MapWithout(Evicted({b}))[g]
      BY <1>4, <1>7, <2>1, <2>3
    <3>2. c \in Block /\ c # b /\ blockHash[c] = g /\ data[c] = g
      BY <1>1, <1>6, <3>1, MapAvoids
    <3> QED BY <1>1, <1>7, <3>2 DEF TypeOK
  <2> QED BY <2>2, <2>3
<1>14. HeldPrefix'
  <2> SUFFICES ASSUME NEW q \in Request, NEW i \in DOMAIN held'[q], i <= Len(prompt[q])
               PROVE  data'[held'[q][i]] = prompt[q][i]
    BY <1>7 DEF HeldPrefix
  <2>1. \A c \in Block \ Foremost(1) : data'[c] = data[c]
    BY <1>1, <1>6, <1>7 DEF TypeOK
  <2>2. ASSUME NEW p \in Request, NEW j \in DOMAIN held[p]
        PROVE  data'[held[p][j]] = data[held[p][j]]
    BY <1>5, <2>1, HeldContentStays
  <2>3. CASE q # r
    BY <1>1, <1>7, <2>2, <2>3 DEF IInv, HeldPrefix, TypeOK
  <2>4. CASE q = r
    <3>1. held'[r] = Append(held[r], b) /\ DOMAIN held'[r] = 1..(Len(held[r]) + 1)
      BY <1>1, <1>7, <1>8, LenProperties DEF TypeOK
    <3>2. CASE i = Len(held[r]) + 1
      BY <1>1, <1>6, <1>7, <1>8, <2>4, <3>1, <3>2 DEF NextHash, h, TypeOK
    <3>3. CASE i # Len(held[r]) + 1
      BY <1>2, <1>8, <2>2, <2>4, <3>1, <3>3 DEF IInv, HeldPrefix
    <3> QED BY <3>2, <3>3
  <2> QED BY <2>3, <2>4
<1>15. PhaseOK'
  <2>1. \A q \in Request : q # r => held'[q] = held[q] /\ phase'[q] = phase[q]
    BY <1>1, <1>7 DEF TypeOK
  <2>2. held'[r] = Append(held[r], b) /\ phase'[r] = "probe"
    BY <1>1, <1>7 DEF TypeOK
  <2>3. Len(held'[r]) <= Len(prompt[r])
    BY <1>2, <1>3, <1>8, <2>2
  <2> QED BY <1>7, <2>1, <2>2, <2>3 DEF IInv, PhaseOK
<1> QED BY <1>10, <1>11, <1>12, <1>13, <1>14, <1>15 DEF IInv

LEMMA GetNewBlocksKeeps ==
    ASSUME IInv, NEW r \in Request, NEW n \in 1..MaxTable, GetNewBlocks(r, n)
    PROVE  IInv'
<1> DEFINE E == Evicted(Foremost(n))
           old == Len(held[r])
           new == Part(freeQueue, 1, n)
           Fill(b) == Computed(r, old + CHOOSE i \in 1..n : freeQueue[i] = b)
<1>1. TypeOK /\ RefCountExact /\ FreeQueueExact /\ StatsExact /\ HashMapSound
  BY DEF IInv
<1>2. /\ DOMAIN held[r] = 1..Len(held[r]) /\ Len(held[r]) \in Nat
      /\ prompt[r] \in Seq(Hash) /\ held[r] \in Seq(Block)
      /\ DOMAIN prompt[r] = 1..Len(prompt[r]) /\ Len(prompt[r]) \in Nat
  BY <1>1, PromptFacts
<1>3. n \in Nat /\ n <= Len(freeQueue) /\ freeQueue \in Seq(Block) /\ IsInjective(freeQueue)
  BY <1>1, PagedCacheAssumption DEF GetNewBlocks, TypeOK, FreeQueueExact
<1>4. /\ Foremost(n) \subseteq Block /\ Foremost(n) \subseteq ToSet(freeQueue)
      /\ \A b \in Foremost(n) : refCount[b] = 0 /\ \A q \in Request : b \notin Held(q)
  BY <1>1, <1>3, QueueFacts
<1>5. /\ phase[r] = "active"
      /\ TakeFront(n) /\ Persist(E)
      /\ hashMap' = MapWithout(E)
      /\ blockHash' = [b \in Block |-> IF b \in E THEN NoHash ELSE blockHash[b]]
      /\ data' = [b \in Block |-> IF b \in Foremost(n) THEN Fill(b) ELSE data[b]]
      /\ held' = [held EXCEPT ![r] = held[r] \o new]
      /\ UNCHANGED <<disk, phase, prompt>>
  BY DEF GetNewBlocks, Part
<1>6. /\ new \in Seq(Block) /\ Len(new) = n
      /\ \A i \in 1..n : new[i] = freeQueue[i]
      /\ IsInjective(new) /\ ToSet(new) = Foremost(n)
  BY <1>3, KeepFirst DEF Foremost, FirstOf
<1> HIDE DEF new, E, Fill, old
<1>7. /\ held[r] \o new \in Seq(Block)
      /\ Len(held[r] \o new) = old + n
      /\ IsInjective(held[r] \o new)
      /\ ToSet(held[r] \o new) = Held(r) \cup Foremost(n)
      /\ \A i \in 1..(old + n) : (held[r] \o new)[i] = IF i <= old THEN held[r][i] ELSE new[i - old]
  <2>1. IsInjective(held[r]) /\ ToSet(held[r]) = Held(r) /\ Held(r) \cap Foremost(n) = {}
    BY <1>1, <1>4 DEF RefCountExact, Held
  <2>2. /\ held[r] \o new \in Seq(Block)
        /\ Len(held[r] \o new) = old + n
        /\ IsInjective(held[r] \o new)
        /\ ToSet(held[r] \o new) = Held(r) \cup Foremost(n)
    BY <1>2, <1>6, <2>1, Concatenation DEF old
  <2>3. \A i \in 1..(old + n) : (held[r] \o new)[i] = IF i <= old THEN held[r][i] ELSE new[i - old]
    BY <1>2, <1>6, ConcatProperties DEF old
  <2> QED BY <2>2, <2>3
<1>8. \A i \in 1..n : new[i] \in Foremost(n) /\ new[i] \in Block /\ Fill(new[i]) = Computed(r, old + i)
  <2> TAKE i \in 1..n
  <2>1. new[i] \in Foremost(n) /\ new[i] \in Block
    BY <1>4, <1>6 DEF Foremost
  <2>2. \A j \in 1..n : freeQueue[j] = new[i] <=> j = i
    BY <1>3, <1>6, LenProperties DEF IsInjective
  <2>3. (CHOOSE j \in 1..n : freeQueue[j] = new[i]) = i
    BY <2>2
  <2> QED BY <2>1, <2>3 DEF Fill
<1>9. \A i \in Nat \ {0} : Computed(r, i) \in Content
  BY <1>2 DEF Computed, Content
<1>10. ASSUME NEW b \in Foremost(n) PROVE Fill(b) \in Content
  <2>1. PICK i \in 1..n : b = new[i]
    BY <1>6 DEF Foremost
  <2>2. old + i \in Nat \ {0}
    BY <1>2, <1>3 DEF old
  <2> QED BY <1>8, <1>9, <2>1, <2>2
<1>11. \A b \in Foremost(n) : \A i \in 1..n : b = new[i] => data'[b] = Computed(r, old + i)
  BY <1>4, <1>5, <1>8
<1>12. data' \in [Block -> Content] /\ \A b \in Block \ Foremost(n) : data'[b] = data[b]
  BY <1>1, <1>5, <1>10 DEF TypeOK
<1>13. /\ freeQueue' = Behind(n) /\ allocated' = allocated \cup Foremost(n) /\ Count(n, -n)
       /\ refCount' = [b \in Block |-> IF b \in Foremost(n) THEN 1 ELSE refCount[b]]
  BY <1>5 DEF TakeFront
<1>14. RefCountExact'
  <2>1. ASSUME NEW c \in Block
        PROVE  refCount'[c] =
                 IF c \in ToSet(held[r] \o new) /\ c \notin Held(r) THEN refCount[c] + 1
                 ELSE IF c \in Held(r) /\ c \notin ToSet(held[r] \o new) THEN refCount[c] - 1
                 ELSE refCount[c]
    BY <1>4, <1>7, <1>13
  <2> QED BY <1>1, <1>5, <1>7, <2>1, CountsFollow
<1>15. /\ FreeQueueExact' /\ StatsExact'
       /\ freeQueue' \in Seq(Block) /\ allocated' \in SUBSET Block
       /\ stats' \in [allocated : Int, free : Int] /\ refCount' \in [Block -> Nat]
  <2>1. /\ refCount' \in [Block -> Nat]
        /\ \A c \in Block : IF c \in Foremost(n) THEN refCount'[c] > 0
                             ELSE refCount'[c] = 0 <=> refCount[c] = 0
    BY <1>1, <1>13 DEF TypeOK
  <2> QED BY <1>3, <1>13, <2>1, FrontTaken
<1>16. TypeOK'
  <2>1. hashMap' \in [Hash -> SUBSET Block] /\ writing' \in SUBSET Hash
    BY <1>1, <1>4, <1>5, EvictionTypes DEF E
  <2>2. blockHash' \in [Block -> Hash \cup {NoHash}]
    BY <1>1, <1>5 DEF TypeOK
  <2>3. held' \in [Request -> Seq(Block)]
    BY <1>1, <1>5, <1>7 DEF TypeOK
  <2> QED BY <1>1, <1>5, <1>12, <1>15, <2>1, <2>2, <2>3 DEF TypeOK
<1>17. HashMapSound'
  <2> SUFFICES ASSUME NEW g \in Hash, NEW c \in hashMap'[g]
               PROVE  blockHash'[c] = g /\ data'[c] = g
    BY DEF HashMapSound
  <2>1. c \in Block /\ c \notin Foremost(n) /\ blockHash[c] = g /\ data[c] = g
    BY <1>1, <1>4, <1>5, MapAvoids DEF E
  <2>2. c \notin E
    BY <1>1, <1>4, <2>1, EvictionTypes DEF E
  <2> QED BY <1>5, <1>12, <2>1, <2>2
<1>18. HeldPrefix'
  <2>0. prompt' = prompt
    BY <1>5
  <2> SUFFICES ASSUME NEW q \in Request, NEW i \in DOMAIN held'[q], i <= Len(prompt[q])
               PROVE  data'[held'[q][i]] = prompt[q][i]
    BY <2>0 DEF HeldPrefix
  <2>1. ASSUME NEW p \in Request, NEW j \in DOMAIN held[p]
        PROVE  data'[held[p][j]] = data[held[p][j]]
    BY <1>3, <1>12, HeldContentStays
  <2>2. CASE q # r
    BY <1>1, <1>5, <2>1, <2>2 DEF IInv, HeldPrefix, TypeOK
  <2>3. CASE q = r
    <3>1. held'[r] = held[r] \o new /\ DOMAIN held'[r] = 1..(old + n)
      BY <1>1, <1>5, <1>7, LenProperties DEF TypeOK
    <3>2. CASE i <= old
      BY <1>2, <1>7, <2>1, <2>3, <3>1, <3>2 DEF IInv, HeldPrefix, old
    <3>3. CASE i > old
      <4>1. i - old \in 1..n /\ old + (i - old) = i
        BY <1>2, <1>3, <2>3, <3>1, <3>3 DEF old
      <4>2. held'[r][i] = new[i - old]
        BY <1>2, <1>3, <1>7, <2>3, <3>1, <3>3 DEF old
      <4>3. data'[held'[r][i]] = Computed(r, i)
        BY <1>8, <1>11, <4>1, <4>2
      <4> QED BY <2>3, <4>3 DEF Computed
    <3> QED BY <1>2, <1>3, <2>3, <3>1, <3>2, <3>3 DEF old
  <2> QED BY <2>2, <2>3
<1>19. PhaseOK'
  <2>1. \A q \in Request : q # r => held'[q] = held[q]
    BY <1>1, <1>5 DEF TypeOK
  <2> QED BY <1>5, <2>1 DEF IInv, PhaseOK
<1> QED BY <1>14, <1>15, <1>16, <1>17, <1>18, <1>19 DEF IInv

\* Registering a hash: the block is full of what the hash stands for.
LEMMA CacheFullBlocksKeeps ==
    ASSUME IInv, NEW r \in Request, CacheFullBlocks(r)
    PROVE  IInv'
<1> DEFINE new == {i \in DOMAIN held[r] : i <= Len(prompt[r]) /\ blockHash[held[r][i]] = NoHash}
<1>1. TypeOK /\ RefCountExact /\ FreeQueueExact /\ StatsExact /\ HashMapSound
  BY DEF IInv
<1>2. /\ DOMAIN held[r] = 1..Len(held[r]) /\ Len(held[r]) \in Nat
      /\ prompt[r] \in Seq(Hash) /\ held[r] \in Seq(Block) /\ IsInjective(held[r])
      /\ DOMAIN prompt[r] = 1..Len(prompt[r]) /\ Len(prompt[r]) \in Nat
  BY <1>1, PromptFacts DEF RefCountExact
<1>3. /\ blockHash' = [b \in Block |->
             IF \E i \in new : held[r][i] = b
             THEN prompt[r][CHOOSE i \in new : held[r][i] = b] ELSE blockHash[b]]
      /\ hashMap' = [h \in Hash |->
             hashMap[h] \cup {held[r][i] : i \in {j \in new : prompt[r][j] = h}}]
      /\ UNCHANGED <<refCount, allocated, freeQueue, data, stats,
                     disk, writing, phase, prompt, held>>
  BY DEF CacheFullBlocks
<1>4. \A i \in new : /\ i \in DOMAIN held[r] /\ i \in DOMAIN prompt[r] /\ i <= Len(prompt[r])
                     /\ held[r][i] \in Block /\ prompt[r][i] \in Hash
                     /\ blockHash[held[r][i]] = NoHash
  BY <1>2
<1>5. \A i \in new : (CHOOSE j \in new : held[r][j] = held[r][i]) = i
  <2> TAKE i \in new
  <2>1. \A j \in new : held[r][j] = held[r][i] <=> j = i
    BY <1>2, <1>4 DEF IsInjective
  <2> QED BY <2>1
<1> HIDE DEF new
<1>6. \A i \in new : blockHash'[held[r][i]] = prompt[r][i]
  BY <1>3, <1>4, <1>5
<1>7. \A b \in Block : (\A i \in new : held[r][i] # b) => blockHash'[b] = blockHash[b]
  BY <1>3
<1>8. TypeOK'
  <2>1. ASSUME NEW b \in Block PROVE blockHash'[b] \in Hash \cup {NoHash}
    BY <1>1, <1>4, <1>6, <1>7, ZenonT(40) DEF TypeOK
  <2>2. blockHash' \in [Block -> Hash \cup {NoHash}]
    BY <1>3, <2>1
  <2>3. hashMap' \in [Hash -> SUBSET Block]
    BY <1>1, <1>3, <1>4 DEF TypeOK
  <2> QED BY <1>1, <1>3, <2>2, <2>3 DEF TypeOK
<1>9. HashMapSound'
  <2> SUFFICES ASSUME NEW h \in Hash, NEW b \in hashMap'[h]
               PROVE  blockHash'[b] = h /\ data[b] = h
    BY <1>3 DEF HashMapSound
  <2>1. CASE b \in hashMap[h]
    <3>1. b \in Block /\ blockHash[b] = h /\ data[b] = h
      BY <1>1, <2>1 DEF TypeOK, HashMapSound
    <3> QED BY <1>4, <1>7, <3>1, PagedCacheAssumption
  <2>2. CASE b \notin hashMap[h]
    <3>1. PICK i \in new : b = held[r][i] /\ prompt[r][i] = h
      BY <1>3, <2>2
    <3>2. data[b] = h
      BY <1>4, <3>1 DEF IInv, HeldPrefix
    <3> QED BY <1>6, <3>1, <3>2
  <2> QED BY <2>1, <2>2
<1>10. RefCountExact' /\ FreeQueueExact' /\ StatsExact' /\ HeldPrefix' /\ PhaseOK'
  BY <1>3 DEF IInv, RefCountExact, FreeQueueExact, StatsExact, HeldPrefix, PhaseOK, Holders, Held
<1> QED BY <1>8, <1>9, <1>10 DEF IInv

\* Decoding writes a block that the request alone holds and no hash names.
LEMMA DecodeKeeps ==
    ASSUME IInv, NEW r \in Request, Decode(r)
    PROVE  IInv'
<1> DEFINE b == Last(held[r])
           k == Len(held[r])
<1>1. TypeOK /\ RefCountExact /\ FreeQueueExact /\ StatsExact /\ HashMapSound
  BY DEF IInv
<1>2. /\ DOMAIN held[r] = 1..k /\ k \in Nat /\ held[r] \in Seq(Block)
      /\ IsInjective(held[r]) /\ Len(prompt[r]) \in Nat
  BY <1>1, PromptFacts DEF RefCountExact
<1>3. /\ k > Len(prompt[r]) /\ refCount[b] = 1 /\ blockHash[b] = NoHash
      /\ data' = [data EXCEPT ![b] = r]
      /\ UNCHANGED <<refCount, allocated, freeQueue, blockHash, hashMap, stats,
                     disk, writing, phase, prompt, held>>
  BY DEF Decode
<1>4. k \in DOMAIN held[r] /\ b = held[r][k] /\ b \in Block /\ b \in Held(r)
  BY <1>2, <1>3, LenProperties DEF Last, Held, ToSet
<1> HIDE DEF b, k
<1>5. Holders(b) = {r}
  BY <1>1, <1>3, <1>4, CountMeansHolders DEF Holders
<1>6. TypeOK'
  BY <1>1, <1>3, <1>4 DEF TypeOK, Content
<1>7. HashMapSound'
  <2> SUFFICES ASSUME NEW h \in Hash, NEW c \in hashMap[h]
               PROVE  blockHash[c] = h /\ data'[c] = h
    BY <1>3 DEF HashMapSound
  <2>1. c \in Block /\ blockHash[c] = h /\ data[c] = h
    BY <1>1 DEF TypeOK, HashMapSound
  <2>2. c # b
    BY <1>3, <2>1, PagedCacheAssumption
  <2> QED BY <1>1, <1>3, <2>1, <2>2 DEF TypeOK
<1>8. HeldPrefix'
  <2> SUFFICES ASSUME NEW q \in Request, NEW i \in DOMAIN held[q], i <= Len(prompt[q])
               PROVE  data'[held[q][i]] = prompt[q][i]
    BY <1>3 DEF HeldPrefix
  <2>1. held[q][i] \in Held(q) /\ held[q][i] \in Block
    BY <1>1, LenProperties DEF TypeOK, Held, ToSet
  <2>2. held[q][i] # b
    <3>1. CASE q # r
      BY <1>5, <2>1, <3>1 DEF Holders
    <3>2. CASE q = r
      BY <1>2, <1>3, <1>4, <3>2 DEF IsInjective
    <3> QED BY <3>1, <3>2
  <2> QED BY <1>1, <1>3, <2>1, <2>2 DEF TypeOK, IInv, HeldPrefix
<1>9. RefCountExact' /\ FreeQueueExact' /\ StatsExact' /\ PhaseOK'
  BY <1>3 DEF IInv, RefCountExact, FreeQueueExact, StatsExact, PhaseOK, Holders, Held
<1> QED BY <1>6, <1>7, <1>8, <1>9 DEF IInv

\* A fork adds one reference to every block of the forked table.
LEMMA ForkKeeps ==
    ASSUME IInv, NEW r \in Request, NEW s \in Request, ForkBlockTable(r, s)
    PROVE  IInv'
<1>1. TypeOK /\ RefCountExact /\ FreeQueueExact /\ StatsExact /\ HashMapSound
  BY DEF IInv
<1>2. /\ phase[r] = "active" /\ phase[s] = "idle"
      /\ refCount' = [b \in Block |->
             IF b \in Held(r) /\ b \in allocated THEN refCount[b] + 1 ELSE refCount[b]]
      /\ phase' = [phase EXCEPT ![s] = "active"]
      /\ prompt' = [prompt EXCEPT ![s] = prompt[r]]
      /\ held' = [held EXCEPT ![s] = held[r]]
      /\ UNCHANGED <<allocated, freeQueue, blockHash, data, hashMap, stats, disk, writing>>
  BY DEF ForkBlockTable
<1>3. held[s] = <<>> /\ Held(s) = {}
  <2>1. held[s] = <<>>
    BY <1>2 DEF IInv, PhaseOK
  <2> QED BY <2>1 DEF Held, ToSet
<1>4. ToSet(held[r]) = Held(r) /\ IsInjective(held[r])
  BY <1>1 DEF Held, RefCountExact
<1>5. \A b \in Held(r) : refCount[b] \in Nat \ {0} /\ b \in allocated
  BY <1>1, HeldIsNotFree
<1>6. RefCountExact'
  <2>1. ASSUME NEW b \in Block
        PROVE  refCount'[b] =
                 IF b \in ToSet(held[r]) /\ b \notin Held(s) THEN refCount[b] + 1
                 ELSE IF b \in Held(s) /\ b \notin ToSet(held[r]) THEN refCount[b] - 1
                 ELSE refCount[b]
    BY <1>2, <1>3, <1>4, <1>5
  <2> QED BY <1>1, <1>2, <1>4, <2>1, CountsFollow
<1>7. FreeQueueExact' /\ StatsExact' /\ HashMapSound'
  <2>1. \A b \in Block : refCount'[b] = 0 <=> refCount[b] = 0
    BY <1>1, <1>2, <1>5 DEF TypeOK
  <2>2. \A b \in Block : refCount'[b] > 0 => b \in allocated
    BY <1>1, <1>2 DEF FreeQueueExact
  <2> QED BY <1>1, <1>2, <2>1, <2>2 DEF FreeQueueExact, StatsExact, HashMapSound
<1>8. TypeOK'
  <2>1. refCount' \in [Block -> Nat]
    BY <1>1, <1>2 DEF TypeOK
  <2>2. phase' \in [Request -> Phase] /\ held' \in [Request -> Seq(Block)]
        /\ prompt' \in [Request -> Prompt \cup {<<>>}]
    BY <1>1, <1>2 DEF TypeOK, Phase
  <2> QED BY <1>1, <1>2, <2>1, <2>2 DEF TypeOK
<1>9. HeldPrefix' /\ PhaseOK'
  <2>1. \A q \in Request : q # s => held'[q] = held[q] /\ phase'[q] = phase[q] /\ prompt'[q] = prompt[q]
    BY <1>1, <1>2 DEF TypeOK
  <2>2. held'[s] = held[r] /\ phase'[s] = "active" /\ prompt'[s] = prompt[r] /\ data' = data
    BY <1>1, <1>2 DEF TypeOK
  <2>3. HeldPrefix'
    BY <2>1, <2>2 DEF IInv, HeldPrefix
  <2>4. PhaseOK'
    BY <2>1, <2>2 DEF IInv, PhaseOK
  <2> QED BY <2>3, <2>4
<1> QED BY <1>6, <1>7, <1>8, <1>9 DEF IInv

-----------------------------------------------------------------------------
(* Giving back.                                                            *)

LEMMA UnreferenceKeeps ==
    ASSUME IInv, NEW r \in Request, NEW s \in SetToSeqs(LastRefs(r)), Unreference(r, s),
           allocated' = allocated \/ allocated' = allocated \ LastRefs(r)
    PROVE  IInv'
<1>1. TypeOK /\ RefCountExact /\ FreeQueueExact /\ StatsExact /\ HashMapSound
  BY DEF IInv
<1>2. /\ freeQueue' = freeQueue \o s
      /\ refCount' = [b \in Block |-> IF b \in Held(r) THEN refCount[b] - 1 ELSE refCount[b]]
      /\ Count(- Len(s), Len(s))
      /\ phase' = [phase EXCEPT ![r] = "idle"]
      /\ prompt' = [prompt EXCEPT ![r] = <<>>]
      /\ held' = [held EXCEPT ![r] = <<>>]
      /\ UNCHANGED <<blockHash, data, hashMap, disk, writing>>
  BY DEF Unreference
<1>3. \A b \in Held(r) : b \in Block /\ refCount[b] \in Nat \ {0} /\ b \notin ToSet(freeQueue)
  BY <1>1, HeldIsNotFree
<1>4. LastRefs(r) \subseteq Block /\ \A b \in Block : b \in LastRefs(r) <=> b \in Held(r) /\ refCount[b] = 1
  BY <1>3 DEF LastRefs
<1>5. IsFiniteSet(LastRefs(r))
  BY <1>4, PagedCacheAssumption, FS_Subset
<1>6. s \in Seq(LastRefs(r)) /\ IsInjective(s) /\ ToSet(s) = LastRefs(r)
  BY <1>5, Arrangement
<1>7. s \in Seq(Block) /\ Len(s) \in Nat
  BY <1>4, <1>6, LenProperties
<1>8. /\ freeQueue' \in Seq(Block) /\ Len(freeQueue') = Len(freeQueue) + Len(s)
      /\ IsInjective(freeQueue') /\ ToSet(freeQueue') = ToSet(freeQueue) \cup LastRefs(r)
  <2>1. freeQueue \in Seq(Block) /\ IsInjective(freeQueue) /\ ToSet(freeQueue) \cap ToSet(s) = {}
    BY <1>1, <1>3, <1>4, <1>6 DEF TypeOK, FreeQueueExact
  <2> QED BY <1>2, <1>6, <1>7, <2>1, Concatenation
<1>9. ToSet(<<>>) = {} /\ IsInjective(<<>>)
  BY DEF ToSet, IsInjective
<1>10. RefCountExact'
  <2>1. ASSUME NEW b \in Block
        PROVE  refCount'[b] =
                 IF b \in ToSet(<<>>) /\ b \notin Held(r) THEN refCount[b] + 1
                 ELSE IF b \in Held(r) /\ b \notin ToSet(<<>>) THEN refCount[b] - 1
                 ELSE refCount[b]
    BY <1>2, <1>9
  <2> QED BY <1>1, <1>2, <1>9, <2>1, CountsFollow
<1>11. refCount' \in [Block -> Nat]
  BY <1>1, <1>2, <1>3 DEF TypeOK
<1>12. FreeQueueExact'
  <2>1. ASSUME NEW b \in Block
        PROVE  /\ refCount'[b] = 0 <=> refCount[b] = 0 \/ b \in LastRefs(r)
               /\ refCount'[b] > 0 => b \in allocated'
    <3>1. CASE b \in Held(r)
      BY <1>1, <1>2, <1>3, <1>4, <3>1 DEF FreeQueueExact
    <3>2. CASE b \notin Held(r)
      BY <1>1, <1>2, <1>4, <3>2 DEF FreeQueueExact
    <3> QED BY <3>1, <3>2
  <2> QED BY <1>1, <1>8, <2>1 DEF FreeQueueExact
<1>13. StatsExact' /\ stats' \in [allocated : Int, free : Int]
  <2>1. stats' = [allocated |-> stats.allocated - Len(s), free |-> stats.free + Len(s)]
    BY <1>1, <1>2, <1>7 DEF Count, TypeOK
  <2>2. Len(freeQueue) \in Nat /\ Cardinality(Block) \in Nat
    BY <1>1, LenProperties, PagedCacheAssumption, FS_CardinalityType DEF TypeOK
  <2> QED BY <1>1, <1>7, <1>8, <2>1, <2>2 DEF StatsExact, TypeOK
<1>14. TypeOK'
  <2>1. <<>> \in Seq(Block)
    BY EmptySeq
  <2>2. phase' \in [Request -> Phase] /\ held' \in [Request -> Seq(Block)]
        /\ prompt' \in [Request -> Prompt \cup {<<>>}] /\ allocated' \in SUBSET Block
    BY <1>1, <1>2, <2>1 DEF TypeOK, Phase
  <2> QED BY <1>1, <1>2, <1>8, <1>11, <1>13, <2>2 DEF TypeOK
<1>15. HashMapSound'
  BY <1>1, <1>2 DEF HashMapSound
<1>16. HeldPrefix' /\ PhaseOK'
  <2>1. \A q \in Request : q # r => held'[q] = held[q] /\ phase'[q] = phase[q] /\ prompt'[q] = prompt[q]
    BY <1>1, <1>2 DEF TypeOK
  <2>2. held'[r] = <<>> /\ phase'[r] = "idle" /\ data' = data /\ DOMAIN held'[r] = {}
    BY <1>1, <1>2 DEF TypeOK
  <2>3. HeldPrefix'
    BY <2>1, <2>2 DEF IInv, HeldPrefix
  <2>4. PhaseOK'
    BY <2>1, <2>2 DEF IInv, PhaseOK
  <2> QED BY <2>3, <2>4
<1> QED BY <1>10, <1>12, <1>13, <1>14, <1>15, <1>16 DEF IInv

LEMMA FreeBlockKeeps ==
    ASSUME IInv, NEW r \in Request, FreeBlock(r)
    PROVE  IInv'
<1> DEFINE b == Last(held[r])
           k == Len(held[r])
           t == Part(held[r], 1, k - 1)
<1>1. TypeOK /\ RefCountExact /\ FreeQueueExact /\ StatsExact /\ HashMapSound
  BY DEF IInv
<1>2. /\ DOMAIN held[r] = 1..k /\ k \in Nat /\ held[r] \in Seq(Block)
      /\ IsInjective(held[r]) /\ held[r] # <<>>
  BY <1>1, PromptFacts DEF RefCountExact, FreeBlock
<1>3. k \in Nat \ {0} /\ k - 1 \in Nat /\ k \in DOMAIN held[r] /\ b = held[r][k]
  <2>1. k # 0
    BY <1>2, EmptySeq
  <2>2. b = held[r][k]
    BY DEF Last
  <2> HIDE DEF b, k
  <2>3. k - 1 \in Nat /\ k \in 1..k
    BY <1>2, <2>1
  <2> QED BY <1>2, <2>1, <2>2, <2>3
<1>4. b \in Held(r) /\ b \in Block /\ refCount[b] \in Nat \ {0} /\ b \notin ToSet(freeQueue) /\ b \in allocated
  <2>1. b \in Held(r)
    BY <1>3 DEF Held, ToSet
  <2> QED BY <1>1, <2>1, HeldIsNotFree
<1>5. /\ phase[r] = "active"
      /\ refCount' = [refCount EXCEPT ![b] = refCount[b] - 1]
      /\ held' = [held EXCEPT ![r] = t]
      /\ UNCHANGED <<blockHash, data, hashMap, disk, writing, phase, prompt>>
  BY DEF FreeBlock, Part
<1>6. IF refCount[b] = 1
      THEN /\ allocated' = allocated \ {b}
           /\ freeQueue' = Append(freeQueue, b)
           /\ Count(-1, 1)
      ELSE UNCHANGED <<allocated, freeQueue, stats>>
  BY DEF FreeBlock
<1>7. /\ t \in Seq(Block) /\ Len(t) = k - 1 /\ IsInjective(t)
      /\ \A i \in 1..(k - 1) : t[i] = held[r][i]
      /\ ToSet(t) = FirstOf(held[r], k - 1)
  <2>1. k - 1 <= Len(held[r])
    BY <1>2
  <2> HIDE DEF k
  <2> QED BY <1>2, <1>3, <2>1, KeepFirst
<1> HIDE DEF b, k, t
<1>8. ToSet(t) = Held(r) \ {b}
  <2>1. \A i \in 1..(k - 1) : i \in DOMAIN held[r] /\ i # k
    BY <1>2, <1>3
  <2>2. \A i \in DOMAIN held[r] : i = k \/ i \in 1..(k - 1)
    BY <1>2, <1>3
  <2> QED BY <1>2, <1>3, <1>7, <2>1, <2>2 DEF FirstOf, Held, ToSet, IsInjective
<1>9. RefCountExact'
  <2>1. ASSUME NEW c \in Block
        PROVE  refCount'[c] =
                 IF c \in ToSet(t) /\ c \notin Held(r) THEN refCount[c] + 1
                 ELSE IF c \in Held(r) /\ c \notin ToSet(t) THEN refCount[c] - 1
                 ELSE refCount[c]
    BY <1>1, <1>4, <1>5, <1>8 DEF TypeOK
  <2> QED BY <1>1, <1>5, <1>7, <2>1, CountsFollow
<1>10. refCount' \in [Block -> Nat]
  BY <1>1, <1>4, <1>5 DEF TypeOK
<1>11. /\ FreeQueueExact' /\ StatsExact' /\ stats' \in [allocated : Int, free : Int]
       /\ freeQueue' \in Seq(Block) /\ allocated' \in SUBSET Block
  <2>1. CASE refCount[b] = 1
    <3>1. /\ allocated' = allocated \ {b} /\ freeQueue' = Append(freeQueue, b)
          /\ stats' = [allocated |-> stats.allocated - 1, free |-> stats.free + 1]
      BY <1>1, <1>6, <2>1 DEF Count, TypeOK
    <3>2. /\ freeQueue' \in Seq(Block) /\ Len(freeQueue') = Len(freeQueue) + 1
          /\ IsInjective(freeQueue') /\ ToSet(freeQueue') = ToSet(freeQueue) \cup {b}
      BY <1>1, <1>4, <3>1, AppendKeeps DEF TypeOK, FreeQueueExact
    <3>3. \A c \in Block : refCount'[c] = IF c = b THEN 0 ELSE refCount[c]
      BY <1>1, <1>4, <1>5, <2>1 DEF TypeOK
    <3>4. FreeQueueExact'
      BY <1>1, <3>1, <3>2, <3>3 DEF FreeQueueExact
    <3>5. Len(freeQueue) \in Nat /\ Cardinality(Block) \in Nat
      BY <1>1, LenProperties, PagedCacheAssumption, FS_CardinalityType DEF TypeOK
    <3>6. StatsExact' /\ stats' \in [allocated : Int, free : Int]
      BY <1>1, <3>1, <3>2, <3>5 DEF StatsExact, TypeOK
    <3> QED BY <1>1, <3>1, <3>2, <3>4, <3>6 DEF TypeOK
  <2>2. CASE refCount[b] # 1
    <3>1. UNCHANGED <<allocated, freeQueue, stats>>
      BY <1>6, <2>2
    <3>2. \A c \in Block : /\ refCount'[c] = 0 <=> refCount[c] = 0
                           /\ refCount'[c] > 0 => refCount[c] > 0
      BY <1>1, <1>4, <1>5, <2>2 DEF TypeOK
    <3> QED BY <1>1, <3>1, <3>2 DEF FreeQueueExact, StatsExact, TypeOK
  <2> QED BY <2>1, <2>2
<1>12. TypeOK'
  <2>1. held' \in [Request -> Seq(Block)]
    BY <1>1, <1>5, <1>7 DEF TypeOK
  <2> QED BY <1>1, <1>5, <1>10, <1>11, <2>1 DEF TypeOK
<1>13. HashMapSound'
  BY <1>1, <1>5 DEF HashMapSound
<1>14. HeldPrefix' /\ PhaseOK'
  <2>1. \A q \in Request : q # r => held'[q] = held[q]
    BY <1>1, <1>5 DEF TypeOK
  <2>2. held'[r] = t /\ DOMAIN t = 1..(k - 1)
    BY <1>1, <1>5, <1>7, LenProperties DEF TypeOK
  <2>3. \A i \in 1..(k - 1) : i \in DOMAIN held[r]
    BY <1>2, <1>3
  <2>4. HeldPrefix'
    BY <1>5, <1>7, <2>1, <2>2, <2>3 DEF IInv, HeldPrefix
  <2>5. PhaseOK'
    BY <1>5, <2>1 DEF IInv, PhaseOK
  <2> QED BY <2>4, <2>5
<1> QED BY <1>9, <1>11, <1>12, <1>13, <1>14 DEF IInv

-----------------------------------------------------------------------------
(* Eviction and reset.                                                     *)

LEMMA EvictKeeps ==
    ASSUME IInv, NEW n \in Nat, EvictLRUBlocks(n)
    PROVE  IInv'
<1> DEFINE E == Evicted(Foremost(n))
           s == Part(freeQueue, 1, n)
<1>1. TypeOK /\ RefCountExact /\ FreeQueueExact /\ StatsExact /\ HashMapSound
  BY DEF IInv
<1>2. n \in Nat /\ n <= Len(freeQueue) /\ freeQueue \in Seq(Block) /\ IsInjective(freeQueue)
  BY <1>1 DEF EvictLRUBlocks, TypeOK, FreeQueueExact
<1>3. /\ freeQueue' = Behind(n) \o s
      /\ Persist(E)
      /\ hashMap' = MapWithout(E)
      /\ blockHash' = [b \in Block |-> IF b \in E THEN NoHash ELSE blockHash[b]]
      /\ data' = [b \in Block |-> IF b \in E THEN NoHash ELSE data[b]]
      /\ UNCHANGED <<refCount, allocated, stats, disk, phase, prompt, held>>
  BY DEF EvictLRUBlocks, Part
<1>4. /\ Behind(n) \in Seq(Block) /\ Len(Behind(n)) = Len(freeQueue) - n
      /\ IsInjective(Behind(n)) /\ ToSet(Behind(n)) = ToSet(freeQueue) \ Foremost(n)
      /\ Foremost(n) \subseteq Block /\ Foremost(n) \subseteq ToSet(freeQueue)
  BY <1>1, <1>2, QueueFacts
<1>5. s \in Seq(Block) /\ Len(s) = n /\ IsInjective(s) /\ ToSet(s) = Foremost(n)
  BY <1>2, KeepFirst DEF Foremost, FirstOf
<1>6. \A b \in E : b \in Foremost(n)
  BY <1>1, <1>4, EvictionTypes
<1>7. hashMap' \in [Hash -> SUBSET Block] /\ writing' \in SUBSET Hash
  BY <1>1, <1>3, <1>4, EvictionTypes
<1> HIDE DEF s, E
<1>8. /\ freeQueue' \in Seq(Block) /\ Len(freeQueue') = Len(freeQueue)
      /\ IsInjective(freeQueue') /\ ToSet(freeQueue') = ToSet(freeQueue)
  <2>1. ToSet(Behind(n)) \cap ToSet(s) = {}
    BY <1>4, <1>5
  <2>2. /\ freeQueue' \in Seq(Block) /\ Len(freeQueue') = Len(Behind(n)) + Len(s)
        /\ IsInjective(freeQueue') /\ ToSet(freeQueue') = ToSet(Behind(n)) \cup ToSet(s)
    BY <1>3, <1>4, <1>5, <2>1, Concatenation
  <2>3. Len(freeQueue) \in Nat
    BY <1>2, LenProperties
  <2> QED BY <1>2, <1>4, <1>5, <2>2, <2>3
<1>9. RefCountExact' /\ FreeQueueExact' /\ StatsExact' /\ PhaseOK'
  BY <1>1, <1>3, <1>8 DEF RefCountExact, FreeQueueExact, StatsExact, IInv, PhaseOK, Holders, Held
<1>10. data' \in [Block -> Content] /\ \A b \in Block \ Foremost(n) : data'[b] = data[b]
  BY <1>1, <1>3, <1>6 DEF TypeOK, Content
<1>11. TypeOK'
  <2>1. blockHash' \in [Block -> Hash \cup {NoHash}]
    BY <1>1, <1>3 DEF TypeOK
  <2> QED BY <1>1, <1>3, <1>7, <1>8, <1>10, <2>1 DEF TypeOK
<1>12. HashMapSound'
  <2> SUFFICES ASSUME NEW g \in Hash, NEW c \in hashMap'[g]
               PROVE  blockHash'[c] = g /\ data'[c] = g
    BY DEF HashMapSound
  <2>1. c \in Block /\ c \notin Foremost(n) /\ blockHash[c] = g /\ data[c] = g
    BY <1>1, <1>3, <1>4, MapAvoids DEF E
  <2> QED BY <1>3, <1>6, <1>10, <2>1
<1>13. HeldPrefix'
  <2>1. prompt' = prompt /\ held' = held
    BY <1>3
  <2>2. ASSUME NEW p \in Request, NEW j \in DOMAIN held[p]
        PROVE  data'[held[p][j]] = data[held[p][j]]
    BY <1>2, <1>10, HeldContentStays
  <2> QED BY <2>1, <2>2 DEF IInv, HeldPrefix
<1> QED BY <1>9, <1>11, <1>12, <1>13 DEF IInv

\* When the queue is as long as the pool is large, nobody holds a block.
LEMMA NobodyHolds ==
    ASSUME TypeOK, RefCountExact, FreeQueueExact, Len(freeQueue) = Cardinality(Block),
           NEW r \in Request, NEW i \in DOMAIN held[r]
    PROVE  FALSE
<1>1. freeQueue \in [1..Len(freeQueue) -> Block] /\ Len(freeQueue) \in Nat
  BY LenProperties DEF TypeOK
<1>2. freeQueue \in Injection(1..Len(freeQueue), Block)
  BY <1>1 DEF FreeQueueExact, Injection, IsInjective
<1>3. Cardinality(1..Len(freeQueue)) = Cardinality(Block) /\ IsFiniteSet(1..Len(freeQueue))
  BY <1>1, FS_Interval
<1>4. freeQueue \in Surjection(1..Len(freeQueue), Block)
  BY <1>2, <1>3, PagedCacheAssumption, FS_Injection
<1>5. ToSet(freeQueue) = Block
  BY <1>1, <1>4 DEF Surjection, ToSet
<1>6. held[r][i] \in Held(r) /\ held[r][i] \in Block
  BY LenProperties DEF TypeOK, Held, ToSet
<1> QED BY <1>5, <1>6, HeldIsNotFree

\* A reset finds every block free: nobody holds what it clears.
LEMMA ResetKeeps ==
    ASSUME IInv, ResetPrefixCache
    PROVE  IInv'
<1>1. TypeOK /\ RefCountExact /\ FreeQueueExact /\ StatsExact
  BY DEF IInv
<1>2. /\ Len(freeQueue) = Cardinality(Block)
      /\ hashMap' = [h \in Hash |-> {}]
      /\ blockHash' = [b \in Block |-> NoHash]
      /\ data' = [b \in Block |-> NoHash]
      /\ UNCHANGED <<refCount, allocated, freeQueue, stats, disk, writing, phase, prompt, held>>
  BY DEF ResetPrefixCache
<1>4. \A r \in Request : \A i \in DOMAIN held[r] : FALSE
  BY <1>1, <1>2, NobodyHolds
<1>5. TypeOK'
  BY <1>1, <1>2 DEF TypeOK, Content
<1>6. HashMapSound' /\ HeldPrefix'
  BY <1>2, <1>4 DEF HashMapSound, HeldPrefix
<1>7. RefCountExact' /\ FreeQueueExact' /\ StatsExact' /\ PhaseOK'
  BY <1>1, <1>2 DEF RefCountExact, FreeQueueExact, StatsExact, IInv, PhaseOK, Holders, Held
<1> QED BY <1>5, <1>6, <1>7 DEF IInv

-----------------------------------------------------------------------------
(* Copy-on-write.                                                          *)

\* Of a duplicate-free table t, the blocks at the places s[1] .. s[n] give
\* way to the blocks f[1] .. f[n], none of which is in the table.
Replaced(t, s, n, f) ==
    [i \in DOMAIN t |-> IF \E k \in 1..n : s[k] = i
                       THEN f[CHOOSE k \in 1..n : s[k] = i] ELSE t[i]]
Places(t, s, n) == {t[s[k]] : k \in 1..n}

LEMMA Replacement ==
    ASSUME NEW S, NEW t \in Seq(S), IsInjective(t), NEW f \in Seq(S), IsInjective(f),
           NEW s \in Seq(DOMAIN t), IsInjective(s),
           NEW n \in Nat, n <= Len(s), n <= Len(f), ToSet(t) \cap FirstOf(f, n) = {}
    PROVE  /\ Replaced(t, s, n, f) \in Seq(S)
           /\ DOMAIN Replaced(t, s, n, f) = DOMAIN t
           /\ Len(Replaced(t, s, n, f)) = Len(t)
           /\ IsInjective(Replaced(t, s, n, f))
           /\ ToSet(Replaced(t, s, n, f)) = (ToSet(t) \ Places(t, s, n)) \cup FirstOf(f, n)
           /\ \A k \in 1..n : Replaced(t, s, n, f)[s[k]] = f[k]
           /\ \A i \in DOMAIN t : (\A k \in 1..n : s[k] # i) => Replaced(t, s, n, f)[i] = t[i]
<1> DEFINE u == Replaced(t, s, n, f)
<1>1. /\ \A k \in 1..n : k \in DOMAIN s /\ s[k] \in DOMAIN t /\ k \in DOMAIN f /\ f[k] \in S
      /\ DOMAIN t = 1..Len(t) /\ Len(t) \in Nat /\ \A i \in DOMAIN t : t[i] \in S
  BY LenProperties
<1>2. \A k \in 1..n : (CHOOSE j \in 1..n : s[j] = s[k]) = k
  <2> TAKE k \in 1..n
  <2>1. \A j \in 1..n : s[j] = s[k] <=> j = k
    BY <1>1 DEF IsInjective
  <2> QED BY <2>1
<1>3. \A k \in 1..n : u[s[k]] = f[k]
  BY <1>1, <1>2 DEF Replaced
<1>4. \A i \in DOMAIN t : (\A k \in 1..n : s[k] # i) => u[i] = t[i]
  BY DEF Replaced
<1>5. DOMAIN u = DOMAIN t
  BY DEF Replaced
<1>6. u = [i \in 1..Len(t) |-> u[i]]
  BY <1>1, <1>5 DEF Replaced
<1> HIDE DEF u
<1>7. \A i \in DOMAIN t : u[i] \in S
  BY <1>1, <1>3, <1>4
<1>8. u \in Seq(S) /\ Len(u) = Len(t)
  <2>1. u \in [1..Len(t) -> S]
    BY <1>1, <1>6, <1>7
  <2> QED BY <1>1, <2>1
<1>9. \A i \in DOMAIN t : \/ \E k \in 1..n : i = s[k] /\ u[i] = f[k] /\ f[k] \in FirstOf(f, n)
                          \/ (\A k \in 1..n : s[k] # i) /\ u[i] = t[i] /\ t[i] \in ToSet(t)
  BY <1>3, <1>4 DEF FirstOf, ToSet
<1>10. IsInjective(u)
  <2> SUFFICES ASSUME NEW i \in DOMAIN t, NEW j \in DOMAIN t, u[i] = u[j] PROVE i = j
    BY <1>5 DEF IsInjective
  <2>1. CASE (\E k \in 1..n : i = s[k]) /\ (\E k \in 1..n : j = s[k])
    BY <1>1, <1>3, <2>1, SMTT(30) DEF IsInjective
  <2>2. CASE (\A k \in 1..n : s[k] # i) /\ (\A k \in 1..n : s[k] # j)
    BY <1>4, <2>2 DEF IsInjective
  <2>3. CASE ~ ((\E k \in 1..n : i = s[k]) <=> (\E k \in 1..n : j = s[k]))
    <3>1. \A m \in DOMAIN t : IF \E k \in 1..n : m = s[k] THEN u[m] \in FirstOf(f, n)
                             ELSE u[m] \in ToSet(t)
      BY <1>9
    <3> QED BY <2>3, <3>1
  <2> QED BY <2>1, <2>2, <2>3
<1>11. ToSet(u) = (ToSet(t) \ Places(t, s, n)) \cup FirstOf(f, n)
  <2>1. \A i \in DOMAIN t : (\A k \in 1..n : s[k] # i) => t[i] \notin Places(t, s, n)
    <3> SUFFICES ASSUME NEW i \in DOMAIN t, NEW k \in 1..n, t[i] = t[s[k]] PROVE s[k] = i
      BY DEF Places
    <3> QED BY <1>1 DEF IsInjective
  <2>2. \A i \in DOMAIN t : u[i] \in (ToSet(t) \ Places(t, s, n)) \cup FirstOf(f, n)
    BY <1>9, <2>1
  <2>3. \A i \in DOMAIN t : t[i] \notin Places(t, s, n) => u[i] = t[i]
    BY <1>9 DEF Places
  <2>4. \A k \in 1..n : s[k] \in DOMAIN u /\ u[s[k]] = f[k]
    BY <1>1, <1>3, <1>5
  <2>5. ToSet(u) \subseteq (ToSet(t) \ Places(t, s, n)) \cup FirstOf(f, n)
    BY <1>5, <2>2 DEF ToSet
  <2>6. FirstOf(f, n) \subseteq ToSet(u)
    BY <2>4 DEF FirstOf, ToSet
  <2>7. ToSet(t) \ Places(t, s, n) \subseteq ToSet(u)
    BY <1>5, <2>3 DEF ToSet
  <2> QED BY <2>5, <2>6, <2>7
<1> QED BY <1>3, <1>4, <1>5, <1>8, <1>10, <1>11 DEF u

\* get_blocks_for_generation: the blocks of r at the places s[1] .. s[n], all
\* of them shared, give way to the first n free ones.
CopyStep(r, s, n) ==
    /\ s \in Seq(DOMAIN held[r]) /\ IsInjective(s)
    /\ n \in Nat /\ n <= Len(s) /\ n <= Len(freeQueue)
    /\ \A k \in 1..n : refCount[held[r][s[k]]] > 1
    /\ freeQueue' = Behind(n) /\ allocated' = allocated \cup Foremost(n) /\ Count(n, -n)
    /\ refCount' = [b \in Block |->
           CASE b \in Foremost(n) -> 1
             [] \E k \in 1..n : b = held[r][s[k]] -> refCount[b] - 1
             [] OTHER -> refCount[b]]
    /\ Persist(Evicted(Foremost(n)))
    /\ hashMap' = MapWithout(Evicted(Foremost(n)))
    /\ blockHash' = [b \in Block |->
           IF b \in Evicted(Foremost(n)) THEN NoHash ELSE blockHash[b]]
    /\ data' = [b \in Block |-> data'[b]]
    /\ held' = [held EXCEPT ![r] = Replaced(held[r], s, n, freeQueue)]
    /\ phase[r] = "active" /\ disk' = disk /\ phase' = phase /\ prompt' = prompt

\* Each of the n blocks is a copy of the one it replaces, and no other block
\* is written.
Copies(r, s, n) ==
    /\ \A k \in 1..n : data'[freeQueue[k]] = data[held[r][s[k]]]
    /\ \A b \in Block \ Foremost(n) : data'[b] = data[b]

LEMMA CopyOnWrite ==
    ASSUME IInv, NEW r \in Request, GetBlocksForGeneration(r)
    PROVE  \E s, n : CopyStep(r, s, n) /\ Copies(r, s, n)
<1>1. TypeOK /\ RefCountExact /\ FreeQueueExact
  BY DEF IInv
<1>0. PICK s \in SetToSeqs(Shared(r)) :
         LET n == IF Len(s) <= Len(freeQueue) THEN Len(s) ELSE Len(freeQueue)
             E == Evicted(Foremost(n))
             Source(b) == held[r][s[CHOOSE k \in 1..n : freeQueue[k] = b]]
         IN  /\ n > 0
             /\ freeQueue' = Behind(n)
             /\ allocated' = allocated \cup Foremost(n)
             /\ refCount' = [b \in Block |->
                   CASE b \in Foremost(n) -> 1
                     [] \E k \in 1..n : b = held[r][s[k]] -> refCount[b] - 1
                     [] OTHER -> refCount[b]]
             /\ Count(n, -n)
             /\ Persist(E)
             /\ hashMap' = MapWithout(E)
             /\ blockHash' = [b \in Block |-> IF b \in E THEN NoHash ELSE blockHash[b]]
             /\ data' = [b \in Block |-> IF b \in Foremost(n) THEN data[Source(b)] ELSE data[b]]
             /\ held' = [held EXCEPT ![r] = Replaced(held[r], s, n, freeQueue)]
  BY DEF GetBlocksForGeneration, Replaced
<1> DEFINE n == IF Len(s) <= Len(freeQueue) THEN Len(s) ELSE Len(freeQueue)
           E == Evicted(Foremost(n))
           Source(b) == held[r][s[CHOOSE k \in 1..n : freeQueue[k] = b]]
<1>2. /\ freeQueue' = Behind(n) /\ allocated' = allocated \cup Foremost(n) /\ Count(n, -n)
      /\ refCount' = [b \in Block |->
             CASE b \in Foremost(n) -> 1
               [] \E k \in 1..n : b = held[r][s[k]] -> refCount[b] - 1
               [] OTHER -> refCount[b]]
      /\ Persist(E)
      /\ hashMap' = MapWithout(E)
      /\ blockHash' = [b \in Block |-> IF b \in E THEN NoHash ELSE blockHash[b]]
      /\ data' = [b \in Block |-> IF b \in Foremost(n) THEN data[Source(b)] ELSE data[b]]
      /\ held' = [held EXCEPT ![r] = Replaced(held[r], s, n, freeQueue)]
  BY <1>0
<1>3. phase[r] = "active" /\ disk' = disk /\ phase' = phase /\ prompt' = prompt
  BY DEF GetBlocksForGeneration
<1>4. /\ DOMAIN held[r] = 1..Len(held[r]) /\ Len(held[r]) \in Nat /\ held[r] \in Seq(Block)
      /\ IsInjective(held[r]) /\ Held(r) = ToSet(held[r])
      /\ freeQueue \in Seq(Block) /\ IsInjective(freeQueue) /\ Len(freeQueue) \in Nat
  BY <1>1, PromptFacts, LenProperties DEF RefCountExact, FreeQueueExact, TypeOK, Held
<1>5. /\ s \in Seq(Shared(r)) /\ IsInjective(s) /\ s \in Seq(DOMAIN held[r]) /\ Len(s) \in Nat
      /\ \A i \in DOMAIN s : s[i] \in Shared(r)
  <2>1. Shared(r) \subseteq DOMAIN held[r]
    BY DEF Shared
  <2>2. IsFiniteSet(Shared(r))
    <3>1. IsFiniteSet(1..Len(held[r]))
      BY <1>4, FS_Interval
    <3> QED BY <1>4, <2>1, <3>1, FS_Subset
  <2>3. s \in Seq(Shared(r)) /\ IsInjective(s)
    BY <2>2, Arrangement
  <2> QED BY <2>1, <2>3, LenProperties
<1>6. n \in Nat /\ n <= Len(s) /\ n <= Len(freeQueue)
  BY <1>4, <1>5
<1> HIDE DEF n, E, Source
<1>7. \A k \in 1..n : k \in DOMAIN s /\ refCount[held[r][s[k]]] > 1
  <2> TAKE k \in 1..n
  <2>1. k \in DOMAIN s
    BY <1>5, <1>6, LenProperties
  <2> QED BY <1>5, <2>1 DEF Shared
<1>9. \A k \in 1..n : /\ k \in DOMAIN freeQueue
                      /\ freeQueue[k] \in Foremost(n) /\ freeQueue[k] \in Block
  BY <1>4, <1>6, LenProperties DEF Foremost
<1>14. \A k \in 1..n : Source(freeQueue[k]) = held[r][s[k]]
  <2> TAKE k \in 1..n
  <2>1. \A j \in 1..n : freeQueue[j] = freeQueue[k] <=> j = k
    BY <1>4, <1>9 DEF IsInjective
  <2>2. (CHOOSE j \in 1..n : freeQueue[j] = freeQueue[k]) = k
    BY <2>1
  <2> QED BY <2>2 DEF Source
<1>15. Copies(r, s, n)
  BY <1>2, <1>9, <1>14 DEF Copies
<1>16. data' = [b \in Block |-> data'[b]]
  BY <1>2
<1> QED BY <1>2, <1>3, <1>5, <1>6, <1>7, <1>15, <1>16 DEF E, CopyStep

LEMMA CopyFacts ==
    ASSUME IInv, NEW r \in Request, NEW s, NEW n, CopyStep(r, s, n)
    PROVE  LET new == Replaced(held[r], s, n, freeQueue)
               left == Places(held[r], s, n)
           IN  /\ Foremost(n) \subseteq Block /\ Foremost(n) \subseteq ToSet(freeQueue)
               /\ \A b \in Foremost(n) : refCount[b] = 0 /\ \A q \in Request : b \notin Held(q)
               /\ new \in Seq(Block) /\ DOMAIN new = DOMAIN held[r] /\ Len(new) = Len(held[r])
               /\ IsInjective(new)
               /\ ToSet(new) = (Held(r) \ left) \cup Foremost(n)
               /\ \A k \in 1..n : new[s[k]] = freeQueue[k]
               /\ \A i \in DOMAIN held[r] : (\A k \in 1..n : s[k] # i) => new[i] = held[r][i]
               /\ \A k \in 1..n : /\ k \in DOMAIN s /\ s[k] \in DOMAIN held[r]
                                  /\ held[r][s[k]] \in Held(r) /\ held[r][s[k]] \in Block
                                  /\ k \in DOMAIN freeQueue
                                  /\ freeQueue[k] \in Foremost(n) /\ freeQueue[k] \in Block
<1> DEFINE new == Replaced(held[r], s, n, freeQueue)
           left == Places(held[r], s, n)
<1>1. TypeOK /\ RefCountExact /\ FreeQueueExact
  BY DEF IInv
<1>4. /\ DOMAIN held[r] = 1..Len(held[r]) /\ Len(held[r]) \in Nat /\ held[r] \in Seq(Block)
      /\ IsInjective(held[r]) /\ Held(r) = ToSet(held[r])
      /\ freeQueue \in Seq(Block) /\ IsInjective(freeQueue) /\ Len(freeQueue) \in Nat
  BY <1>1, PromptFacts, LenProperties DEF RefCountExact, FreeQueueExact, TypeOK, Held
<1>5. s \in Seq(DOMAIN held[r]) /\ IsInjective(s) /\ Len(s) \in Nat
  BY LenProperties DEF CopyStep
<1>6. n \in Nat /\ n <= Len(s) /\ n <= Len(freeQueue)
  BY DEF CopyStep
<1> HIDE DEF new, left
<1>7. /\ Foremost(n) \subseteq Block /\ Foremost(n) \subseteq ToSet(freeQueue)
      /\ Foremost(n) = FirstOf(freeQueue, n)
      /\ \A b \in Foremost(n) : refCount[b] = 0 /\ \A q \in Request : b \notin Held(q)
  <2>1. Foremost(n) = FirstOf(freeQueue, n)
    BY DEF Foremost, FirstOf
  <2> QED BY <1>1, <1>6, <2>1, QueueFacts
<1>8. /\ new \in Seq(Block) /\ DOMAIN new = DOMAIN held[r] /\ Len(new) = Len(held[r])
      /\ IsInjective(new)
      /\ ToSet(new) = (Held(r) \ left) \cup Foremost(n)
      /\ \A k \in 1..n : new[s[k]] = freeQueue[k]
      /\ \A i \in DOMAIN held[r] : (\A k \in 1..n : s[k] # i) => new[i] = held[r][i]
  <2>1. ToSet(held[r]) \cap FirstOf(freeQueue, n) = {}
    BY <1>4, <1>7
  <2> QED BY <1>4, <1>5, <1>6, <1>7, <2>1, Replacement DEF new, left
<1>9. \A k \in 1..n : /\ k \in DOMAIN s /\ s[k] \in DOMAIN held[r]
                      /\ held[r][s[k]] \in Held(r) /\ held[r][s[k]] \in Block
                      /\ k \in DOMAIN freeQueue
                      /\ freeQueue[k] \in Foremost(n) /\ freeQueue[k] \in Block
  <2> TAKE k \in 1..n
  <2>1. k \in DOMAIN s /\ k \in DOMAIN freeQueue
    BY <1>4, <1>5, <1>6, LenProperties
  <2>2. s[k] \in DOMAIN held[r]
    BY <1>5, <2>1, LenProperties
  <2>3. held[r][s[k]] \in Held(r) /\ held[r][s[k]] \in Block
    BY <1>4, <2>2 DEF Held, ToSet
  <2>4. freeQueue[k] \in Foremost(n) /\ freeQueue[k] \in Block
    BY <1>7 DEF Foremost
  <2> QED BY <2>1, <2>2, <2>3, <2>4
<1> QED BY <1>7, <1>8, <1>9 DEF new, left

LEMMA GenerationKeeps ==
    ASSUME IInv, NEW r \in Request, GetBlocksForGeneration(r)
    PROVE  IInv'
<1>1. TypeOK /\ RefCountExact /\ FreeQueueExact /\ StatsExact /\ HashMapSound
  BY DEF IInv
<1>0. PICK s, n : CopyStep(r, s, n) /\ Copies(r, s, n)
  BY CopyOnWrite
<1> DEFINE E == Evicted(Foremost(n))
           new == Replaced(held[r], s, n, freeQueue)
           left == Places(held[r], s, n)
<1>2. /\ freeQueue' = Behind(n) /\ allocated' = allocated \cup Foremost(n) /\ Count(n, -n)
      /\ refCount' = [b \in Block |->
             CASE b \in Foremost(n) -> 1
               [] \E k \in 1..n : b = held[r][s[k]] -> refCount[b] - 1
               [] OTHER -> refCount[b]]
      /\ Persist(E)
      /\ hashMap' = MapWithout(E)
      /\ blockHash' = [b \in Block |-> IF b \in E THEN NoHash ELSE blockHash[b]]
      /\ data' = [b \in Block |-> data'[b]]
      /\ held' = [held EXCEPT ![r] = new]
  BY <1>0 DEF CopyStep
<1>3. /\ phase[r] = "active" /\ disk' = disk /\ phase' = phase /\ prompt' = prompt
      /\ n \in Nat /\ n <= Len(freeQueue) /\ \A k \in 1..n : refCount[held[r][s[k]]] > 1
  BY <1>0 DEF CopyStep
<1>7. /\ Foremost(n) \subseteq Block /\ Foremost(n) \subseteq ToSet(freeQueue)
      /\ \A b \in Foremost(n) : refCount[b] = 0 /\ \A q \in Request : b \notin Held(q)
      /\ \A k \in 1..n : /\ s[k] \in DOMAIN held[r]
                         /\ held[r][s[k]] \in Held(r) /\ held[r][s[k]] \in Block
                         /\ freeQueue[k] \in Foremost(n) /\ freeQueue[k] \in Block
  BY <1>0, CopyFacts
<1>8. /\ new \in Seq(Block) /\ DOMAIN new = DOMAIN held[r] /\ Len(new) = Len(held[r])
      /\ IsInjective(new)
      /\ ToSet(new) = (Held(r) \ left) \cup Foremost(n)
      /\ \A k \in 1..n : new[s[k]] = freeQueue[k]
      /\ \A i \in DOMAIN held[r] : (\A k \in 1..n : s[k] # i) => new[i] = held[r][i]
  BY <1>0, CopyFacts
<1>15. /\ \A k \in 1..n : data'[freeQueue[k]] = data[held[r][s[k]]]
       /\ \A b \in Block \ Foremost(n) : data'[b] = data[b]
  BY <1>0 DEF Copies
<1> HIDE DEF E, new, left
<1>10. left \subseteq Held(r) /\ \A b \in left : b \in Block /\ refCount[b] > 1 /\ b \notin Foremost(n)
  BY <1>3, <1>7 DEF left, Places
<1>11. \A b \in Block : refCount'[b] = IF b \in Foremost(n) THEN 1
                                       ELSE IF b \in left THEN refCount[b] - 1 ELSE refCount[b]
  <2> TAKE b \in Block
  <2>1. b \in left <=> \E k \in 1..n : b = held[r][s[k]]
    BY DEF left, Places
  <2>2. CASE b \in Foremost(n)
    BY <1>2, <1>10, <2>1, <2>2
  <2>3. CASE b \in left
    BY <1>2, <1>10, <2>1, <2>3
  <2>4. CASE b \notin Foremost(n) /\ b \notin left
    BY <1>2, <2>1, <2>4
  <2> QED BY <1>10, <2>2, <2>3, <2>4
<1>12. RefCountExact'
  <2>1. ASSUME NEW c \in Block
        PROVE  refCount'[c] =
                 IF c \in ToSet(new) /\ c \notin Held(r) THEN refCount[c] + 1
                 ELSE IF c \in Held(r) /\ c \notin ToSet(new) THEN refCount[c] - 1
                 ELSE refCount[c]
    <3>1. CASE c \in Foremost(n)
      BY <1>7, <1>8, <1>11, <3>1
    <3>2. CASE c \in left
      BY <1>8, <1>10, <1>11, <3>2
    <3>3. CASE c \notin Foremost(n) /\ c \notin left
      BY <1>8, <1>11, <3>3
    <3> QED BY <3>1, <3>2, <3>3
  <2> QED BY <1>1, <1>2, <1>8, <2>1, CountsFollow
<1>13. /\ FreeQueueExact' /\ StatsExact' /\ refCount' \in [Block -> Nat]
       /\ freeQueue' \in Seq(Block) /\ allocated' \in SUBSET Block
       /\ stats' \in [allocated : Int, free : Int]
  <2>1. \A b \in Block : refCount'[b] \in Nat
    <3>1. \A b \in Block : refCount[b] \in Nat
      BY <1>1 DEF TypeOK
    <3> QED BY <1>10, <1>11, <3>1
  <2>2. refCount' \in [Block -> Nat]
    BY <1>2, <2>1
  <2>3. \A b \in Block : IF b \in Foremost(n) THEN refCount'[b] > 0
                         ELSE refCount'[b] = 0 <=> refCount[b] = 0
    BY <1>1, <1>10, <1>11 DEF TypeOK
  <2> QED BY <1>2, <1>3, <2>2, <2>3, FrontTaken
<1>16. data' \in [Block -> Content]
  <2>1. \A b \in Block : data'[b] \in Content
    <3> TAKE b \in Block
    <3>1. CASE b \in Foremost(n)
      <4>1. PICK k \in 1..n : b = freeQueue[k]
        BY <3>1 DEF Foremost
      <4>2. data'[b] = data[held[r][s[k]]] /\ held[r][s[k]] \in Block
        BY <1>7, <1>15, <4>1
      <4>3. \A c \in Block : data[c] \in Content
        BY <1>1 DEF TypeOK
      <4> QED BY <4>2, <4>3
    <3>2. CASE b \notin Foremost(n)
      BY <1>1, <1>15, <3>2 DEF TypeOK
    <3> QED BY <3>1, <3>2
  <2> QED BY <1>2, <2>1
<1>17. TypeOK'
  <2>1. hashMap' \in [Hash -> SUBSET Block] /\ writing' \in SUBSET Hash
    BY <1>1, <1>2, <1>7, EvictionTypes DEF E
  <2>2. blockHash' \in [Block -> Hash \cup {NoHash}]
    BY <1>1, <1>2 DEF TypeOK
  <2>3. held' \in [Request -> Seq(Block)]
    BY <1>1, <1>2, <1>8 DEF TypeOK
  <2> QED BY <1>1, <1>3, <1>13, <1>16, <2>1, <2>2, <2>3 DEF TypeOK
<1>18. HashMapSound'
  <2> SUFFICES ASSUME NEW g \in Hash, NEW c \in hashMap'[g]
               PROVE  blockHash'[c] = g /\ data'[c] = g
    BY DEF HashMapSound
  <2>1. c \in Block /\ c \notin Foremost(n) /\ blockHash[c] = g /\ data[c] = g
    BY <1>1, <1>2, <1>7, MapAvoids DEF E
  <2>2. c \notin E
    BY <1>1, <1>7, <2>1, EvictionTypes DEF E
  <2> QED BY <1>2, <1>15, <2>1, <2>2
<1>19. HeldPrefix'
  <2> SUFFICES ASSUME NEW q \in Request, NEW i \in DOMAIN held'[q], i <= Len(prompt[q])
               PROVE  data'[held'[q][i]] = prompt[q][i]
    BY <1>3 DEF HeldPrefix
  <2>1. ASSUME NEW p \in Request, NEW j \in DOMAIN held[p]
        PROVE  data'[held[p][j]] = data[held[p][j]]
    BY <1>3, <1>15, HeldContentStays
  <2>2. CASE q # r
    <3>1. held'[q] = held[q]
      BY <1>1, <1>2, <2>2 DEF TypeOK
    <3> QED BY <2>1, <3>1 DEF IInv, HeldPrefix
  <2>3. CASE q = r
    <3>1. held'[r] = new
      BY <1>1, <1>2 DEF TypeOK
    <3>2. i \in DOMAIN held[r] /\ data[held[r][i]] = prompt[r][i]
      BY <1>8, <2>3, <3>1 DEF IInv, HeldPrefix
    <3>3. CASE \E k \in 1..n : s[k] = i
      BY <1>8, <1>15, <2>3, <3>1, <3>2, <3>3
    <3>4. CASE \A k \in 1..n : s[k] # i
      BY <1>8, <2>1, <2>3, <3>1, <3>2, <3>4, SMTT(25)
    <3> QED BY <3>3, <3>4
  <2> QED BY <2>2, <2>3
<1>20. PhaseOK'
  <2>1. \A q \in Request : q # r => held'[q] = held[q]
    BY <1>1, <1>2 DEF TypeOK
  <2> QED BY <1>3, <2>1 DEF IInv, PhaseOK
<1> QED BY <1>12, <1>13, <1>17, <1>18, <1>19, <1>20 DEF IInv

-----------------------------------------------------------------------------
LEMMA NextKeepsIInv == IInv /\ [Next]_vars => IInv'
<1> SUFFICES ASSUME IInv, [Next]_vars PROVE IInv'
  OBVIOUS
<1>1. ASSUME NEW r \in Request, Lookup(r) PROVE IInv'
  BY <1>1, StartLookupKeeps, LookupMoves, HitKeeps, PromoteKeeps DEF Lookup
<1>2. ASSUME NEW r \in Request, Work(r) PROVE IInv'
  BY <1>2, GetNewBlocksKeeps, CacheFullBlocksKeeps, ForkKeeps, GenerationKeeps, DecodeKeeps DEF Work
<1>3. ASSUME NEW r \in Request, GiveBack(r) PROVE IInv'
  BY <1>3, UnreferenceKeeps, FreeBlockKeeps
     DEF GiveBack, ReleaseRequestRefs, DeleteBlockTable, FreeBlocks
<1>4. CASE Pressure
  <2>1. Len(freeQueue) \in Nat /\ Cardinality(Block) \in Nat
    BY LenProperties, PagedCacheAssumption, FS_CardinalityType DEF IInv, TypeOK
  <2>2. ASSUME NEW n \in 1..Cardinality(Block), EvictLRUBlocks(n) PROVE IInv'
    BY <2>1, <2>2, EvictKeeps
  <2>3. ASSUME NEW n \in 1..Cardinality(Block), HandleMemoryPressure(n) PROVE IInv'
    <3> DEFINE m == IF n - Len(freeQueue) <= Len(freeQueue) THEN n - Len(freeQueue) ELSE Len(freeQueue)
    <3>1. m \in Nat /\ EvictLRUBlocks(m)
      BY <2>1, <2>3 DEF HandleMemoryPressure
    <3> HIDE DEF m
    <3> QED BY <3>1, EvictKeeps
  <2> QED BY <1>4, <2>2, <2>3, ResetKeeps, DiskWrittenKeeps DEF Pressure
<1>5. CASE UNCHANGED vars
  <2>1. UNCHANGED <<pool, held>> /\ UNCHANGED prompt
    BY <1>5 DEF vars, pool
  <2>2. TypeOK' /\ PhaseOK'
    BY <1>5 DEF vars, IInv, TypeOK, PhaseOK
  <2> QED BY <2>1, <2>2, QuietSteps
<1> QED BY <1>1, <1>2, <1>3, <1>4, <1>5 DEF Next

\* The invariant of the pool, on which the theorems below rest.
THEOREM PoolInvariant == Spec => []IInv
BY InitIInv, NextKeepsIInv, PTL DEF Spec

\* Type correctness.
THEOREM PoolTypes == Spec => []TypeOK
BY PoolInvariant, PTL DEF IInv

\* No reference is leaked and none is given back twice, whatever the number
\* of requests and blocks and however their calls interleave.
THEOREM PoolCountsReferences == Spec => []RefCountExact
BY PoolInvariant, PTL DEF IInv

\* The free queue and the referenced blocks partition the pool.
THEOREM PoolFreesExactly == Spec => []FreeQueueExact
BY PoolInvariant, PTL DEF IInv

\* The statistics follow the queue.
THEOREM PoolStatsExact == Spec => []StatsExact
BY PoolInvariant, PTL DEF IInv

\* A prefix-cache hit is never stale.
THEOREM PoolHitsAreSound == Spec => []HashMapSound
BY PoolInvariant, PTL DEF IInv

-----------------------------------------------------------------------------
(* What the pool's steps may do to cached content: it leaves in the order  *)
(* of the free queue, and a hit keeps it.                                  *)

\* A block with a hash is found under it.
Indexed == \A b \in Block : blockHash[b] # NoHash => b \in hashMap[blockHash[b]]

LEMMA InitIndexed == Init => Indexed
BY DEF Init, Indexed

\* What a step that evicts S leaves under the hashes.
LEMMA EvictedIndexed ==
    ASSUME TypeOK, Indexed, NEW S \in SUBSET Block
    PROVE  /\ Evicted(S) = {b \in S : blockHash[b] # NoHash}
           /\ \A b \in Block \ Evicted(S) :
                 blockHash[b] # NoHash => b \in MapWithout(Evicted(S))[blockHash[b]]
<1>1. Evicted(S) = {b \in S : blockHash[b] # NoHash}
  BY DEF Indexed, Evicted
<1>2. ASSUME NEW b \in Block \ Evicted(S), blockHash[b] # NoHash
      PROVE  b \in MapWithout(Evicted(S))[blockHash[b]]
  <2>1. blockHash[b] \in Hash /\ b \in hashMap[blockHash[b]]
    BY <1>2 DEF TypeOK, Indexed
  <2> QED BY <1>2, <2>1 DEF MapWithout
<1> QED BY <1>1, <1>2

\* A step that drops the evicted blocks from the map and takes their hashes.
LEMMA EvictionKeepsIndexed ==
    ASSUME TypeOK, Indexed, NEW S \in SUBSET Block,
           hashMap' = MapWithout(Evicted(S)),
           blockHash' = [b \in Block |-> IF b \in Evicted(S) THEN NoHash ELSE blockHash[b]]
    PROVE  Indexed'
BY EvictedIndexed DEF Indexed

LEMMA PromoteIndexed ==
    ASSUME IInv, Indexed, NEW r \in Request, Promote(r)
    PROVE  Indexed'
<1> DEFINE h == NextHash(r)
           b == Head(freeQueue)
           map == MapWithout(Evicted({b}))
<1>1. TypeOK /\ freeQueue # <<>> /\ b \in Block
  BY HeadTailProperties DEF IInv, TypeOK, Promote
<1>2. h \in Hash
  <2>1. /\ prompt[r] \in Seq(Hash) /\ DOMAIN prompt[r] = 1..Len(prompt[r])
        /\ Len(prompt[r]) \in Nat /\ Len(held[r]) \in Nat
    BY <1>1, PromptFacts
  <2>2. Len(held[r]) < Len(prompt[r])
    BY DEF IInv, PhaseOK, Promote
  <2> QED BY <2>1, <2>2, LenProperties DEF NextHash
<1>3. hashMap' = [map EXCEPT ![h] = map[h] \cup {b}] /\ blockHash' = [blockHash EXCEPT ![b] = h]
  BY DEF Promote
<1>4. map \in [Hash -> SUBSET Block] /\ blockHash \in [Block -> Hash \cup {NoHash}]
  <2>1. {b} \in SUBSET Block
    BY <1>1
  <2> HIDE DEF b
  <2> QED BY <1>1, <2>1, EvictionTypes DEF TypeOK
<1>5. \A c \in Block : c # b => c \notin Evicted({b})
  BY DEF Evicted
<1>6. \A c \in Block : c # b /\ blockHash[c] # NoHash => c \in map[blockHash[c]]
  BY <1>1, <1>5, EvictedIndexed
<1> HIDE DEF h, b, map
<1>7. ASSUME NEW c \in Block, blockHash'[c] # NoHash PROVE c \in hashMap'[blockHash'[c]]
  <2>1. CASE c = b
    BY <1>1, <1>2, <1>3, <1>4, <2>1
  <2>2. CASE c # b
    <3>1. blockHash'[c] = blockHash[c] /\ c \in map[blockHash[c]] /\ blockHash[c] \in Hash
      BY <1>3, <1>4, <1>6, <1>7, <2>2
    <3> QED BY <1>2, <1>3, <1>4, <3>1
  <2> QED BY <2>1, <2>2
<1> QED BY <1>7 DEF Indexed

LEMMA CacheFullIndexed ==
    ASSUME IInv, Indexed, NEW r \in Request, CacheFullBlocks(r)
    PROVE  Indexed'
<1> DEFINE new == {i \in DOMAIN held[r] : i <= Len(prompt[r]) /\ blockHash[held[r][i]] = NoHash}
           Found(b) == CHOOSE i \in new : held[r][i] = b
<1>1. /\ blockHash' = [b \in Block |->
             IF \E i \in new : held[r][i] = b THEN prompt[r][Found(b)] ELSE blockHash[b]]
      /\ hashMap' = [h \in Hash |->
             hashMap[h] \cup {held[r][i] : i \in {j \in new : prompt[r][j] = h}}]
  BY DEF CacheFullBlocks
<1>2. \A i \in new : prompt[r][i] \in Hash
  <2>1. /\ prompt[r] \in Seq(Hash) /\ DOMAIN prompt[r] = 1..Len(prompt[r])
        /\ Len(prompt[r]) \in Nat /\ DOMAIN held[r] = 1..Len(held[r]) /\ Len(held[r]) \in Nat
    BY PromptFacts DEF IInv
  <2>2. \A i \in new : i \in 1..Len(prompt[r])
    BY <2>1
  <2> QED BY <2>1, <2>2, LenProperties
<1>3. TypeOK
  BY DEF IInv
<1> HIDE DEF new
<1>4. ASSUME NEW b \in Block, blockHash'[b] # NoHash PROVE b \in hashMap'[blockHash'[b]]
  <2>1. CASE \E i \in new : held[r][i] = b
    <3>1. Found(b) \in new /\ held[r][Found(b)] = b
      BY <2>1
    <3>2. blockHash'[b] = prompt[r][Found(b)] /\ prompt[r][Found(b)] \in Hash
      BY <1>1, <1>2, <2>1, <3>1
    <3> HIDE DEF Found
    <3> QED BY <1>1, <3>1, <3>2
  <2>2. CASE ~ \E i \in new : held[r][i] = b
    <3>1. blockHash'[b] = blockHash[b]
      BY <1>1, <2>2
    <3>2. blockHash[b] \in Hash /\ b \in hashMap[blockHash[b]]
      BY <1>3, <1>4, <3>1 DEF TypeOK, Indexed
    <3> QED BY <1>1, <3>1, <3>2
  <2> QED BY <2>1, <2>2
<1> QED BY <1>4 DEF Indexed

\* The n coldest blocks lose what they have cached.
Evicts(n) ==
    /\ n <= Len(freeQueue)
    /\ hashMap' = MapWithout(Evicted(Foremost(n)))
    /\ blockHash' = [b \in Block |-> IF b \in Evicted(Foremost(n)) THEN NoHash ELSE blockHash[b]]

\* What a step does to the cached blocks.
LEMMA HashSteps ==
    ASSUME IInv, [Next]_vars
    PROVE  \/ UNCHANGED <<blockHash, hashMap>>
           \/ \E n \in Nat : Evicts(n)
           \/ \E r \in Request : Promote(r) \/ CacheFullBlocks(r)
           \/ ResetPrefixCache
<1>1. Len(freeQueue) \in Nat /\ Cardinality(Block) \in Nat /\ MaxTable \in Nat
  BY LenProperties, PagedCacheAssumption, FS_CardinalityType DEF IInv, TypeOK
<1>2. ASSUME NEW r \in Request, Lookup(r), ~ Promote(r)
      PROVE  UNCHANGED <<blockHash, hashMap>>
  BY <1>2 DEF Lookup, StartLookup, ProbeHit, ProbeMiss, LookupDone, DiskRead, RecheckHit,
              PromoteFails, pool
<1>3. ASSUME NEW r \in Request, Work(r), ~ CacheFullBlocks(r)
      PROVE  UNCHANGED <<blockHash, hashMap>> \/ \E n \in Nat : Evicts(n)
  <2>1. ASSUME NEW n \in 1..MaxTable, GetNewBlocks(r, n)
        PROVE  \E m \in Nat : Evicts(m)
    <3>1. n \in Nat /\ Evicts(n)
      BY <1>1, <2>1 DEF GetNewBlocks, Evicts
    <3> QED BY <3>1
  <2>2. ASSUME GetBlocksForGeneration(r)
        PROVE  \E m \in Nat : Evicts(m)
    <3>1. PICK s, n : CopyStep(r, s, n)
      BY <2>2, CopyOnWrite
    <3>2. n \in Nat /\ Evicts(n)
      BY <3>1 DEF CopyStep, Evicts
    <3> QED BY <3>2
  <2>3. ASSUME NEW s \in Request, ForkBlockTable(r, s)
        PROVE  UNCHANGED <<blockHash, hashMap>>
    BY <2>3 DEF ForkBlockTable
  <2>4. ASSUME Decode(r)
        PROVE  UNCHANGED <<blockHash, hashMap>>
    BY <2>4 DEF Decode
  <2> QED BY <1>3, <2>1, <2>2, <2>3, <2>4 DEF Work
<1>4. ASSUME NEW r \in Request, GiveBack(r)
      PROVE  UNCHANGED <<blockHash, hashMap>>
  BY <1>4 DEF GiveBack, ReleaseRequestRefs, DeleteBlockTable, FreeBlocks, Unreference, FreeBlock
<1>5. ASSUME NEW n \in Nat, EvictLRUBlocks(n)
      PROVE  \E m \in Nat : Evicts(m)
  <2>1. Evicts(n)
    BY <1>5 DEF EvictLRUBlocks, Evicts
  <2> QED BY <2>1
<1>6. ASSUME Pressure, ~ ResetPrefixCache
      PROVE  UNCHANGED <<blockHash, hashMap>> \/ \E n \in Nat : Evicts(n)
  <2>1. ASSUME NEW n \in 1..Cardinality(Block), HandleMemoryPressure(n)
        PROVE  \E m \in Nat : EvictLRUBlocks(m)
    <3> DEFINE m == IF n - Len(freeQueue) <= Len(freeQueue) THEN n - Len(freeQueue) ELSE Len(freeQueue)
    <3>1. m \in Nat /\ EvictLRUBlocks(m)
      BY <1>1, <2>1 DEF HandleMemoryPressure
    <3> HIDE DEF m
    <3> QED BY <3>1
  <2>2. \A n \in 1..Cardinality(Block) : n \in Nat
    BY <1>1
  <2>3. ASSUME NEW h \in Hash, DiskWritten(h)
        PROVE  UNCHANGED <<blockHash, hashMap>>
    BY <2>3 DEF DiskWritten, pool
  <2> QED BY <1>5, <1>6, <2>1, <2>2, <2>3 DEF Pressure
<1>7. ASSUME UNCHANGED vars PROVE UNCHANGED <<blockHash, hashMap>>
  BY <1>7 DEF vars
<1> QED BY <1>2, <1>3, <1>4, <1>6, <1>7 DEF Next

LEMMA NextIndexed ==
    ASSUME IInv, Indexed, [Next]_vars
    PROVE  Indexed'
<1>1. TypeOK /\ RefCountExact /\ FreeQueueExact
  BY DEF IInv
<1>2. ASSUME NEW n \in Nat, Evicts(n) PROVE Indexed'
  <2>1. Foremost(n) \in SUBSET Block
    BY <1>1, <1>2, QueueFacts DEF Evicts
  <2> QED BY <1>1, <1>2, <2>1, EvictionKeepsIndexed DEF Evicts
<1>3. CASE UNCHANGED <<blockHash, hashMap>>
  BY <1>3 DEF Indexed
<1>4. CASE ResetPrefixCache
  BY <1>4 DEF ResetPrefixCache, Indexed
<1> QED BY <1>2, <1>3, <1>4, HashSteps, PromoteIndexed, CacheFullIndexed

\* The step in EvictsColdestFirst.
ColdestGone ==
    \A i, j \in DOMAIN freeQueue :
        LET Lost(b) == blockHash[b] # NoHash /\ blockHash'[b] # blockHash[b]
            Kept(b) == blockHash[b] # NoHash /\ blockHash'[b] = blockHash[b]
        IN  i < j /\ Lost(freeQueue[j]) => ~ Kept(freeQueue[i])

LEMMA StepsEvictColdest ==
    ASSUME IInv, Indexed, [Next]_vars
    PROVE  ColdestGone
<1>1. TypeOK /\ RefCountExact /\ FreeQueueExact
  BY DEF IInv
<1> SUFFICES ASSUME NEW i \in DOMAIN freeQueue, NEW j \in DOMAIN freeQueue, i < j,
                    blockHash[freeQueue[j]] # NoHash,
                    blockHash'[freeQueue[j]] # blockHash[freeQueue[j]],
                    blockHash[freeQueue[i]] # NoHash,
                    blockHash'[freeQueue[i]] = blockHash[freeQueue[i]]
             PROVE  FALSE
  BY DEF ColdestGone
<1>2. /\ freeQueue \in Seq(Block) /\ IsInjective(freeQueue)
      /\ DOMAIN freeQueue = 1..Len(freeQueue) /\ Len(freeQueue) \in Nat
      /\ freeQueue[i] \in Block /\ freeQueue[j] \in Block
  BY <1>1, LenProperties DEF TypeOK, FreeQueueExact
<1>3. ASSUME NEW n \in Nat, Evicts(n) PROVE FALSE
  <2>1. Foremost(n) \in SUBSET Block
    BY <1>1, <1>3, QueueFacts DEF Evicts
  <2>2. Evicted(Foremost(n)) = {b \in Foremost(n) : blockHash[b] # NoHash}
    BY <1>1, <2>1, EvictedIndexed
  <2>3. freeQueue[j] \in Foremost(n) /\ freeQueue[i] \notin Foremost(n)
    BY <1>2, <1>3, <2>2 DEF Evicts
  <2>4. PICK k \in 1..n : freeQueue[k] = freeQueue[j]
    BY <2>3 DEF Foremost
  <2>5. k = j /\ i \in 1..n
    BY <1>2, <1>3, <2>4 DEF Evicts, IsInjective
  <2> QED BY <2>3, <2>5 DEF Foremost
<1>4. ASSUME NEW r \in Request, Promote(r) PROVE FALSE
  <2>1. freeQueue[j] # freeQueue[1] /\ Head(freeQueue) = freeQueue[1]
    BY <1>2 DEF IsInjective
  <2> QED BY <1>1, <1>2, <1>4, <2>1 DEF Promote, TypeOK
<1>5. ASSUME NEW r \in Request, CacheFullBlocks(r) PROVE FALSE
  <2> DEFINE new == {k \in DOMAIN held[r] : k <= Len(prompt[r]) /\ blockHash[held[r][k]] = NoHash}
  <2>1. \A k \in new : held[r][k] # freeQueue[j]
    OBVIOUS
  <2> QED BY <1>2, <1>5, <2>1 DEF CacheFullBlocks
<1>6. CASE ResetPrefixCache
  BY <1>2, <1>6 DEF ResetPrefixCache
<1> QED BY <1>3, <1>4, <1>5, <1>6, HashSteps

\* The step in HitSavesBlock.
HitKeepsContent ==
    \A i \in DOMAIN freeQueue :
        LET b == freeQueue[i]
        IN  /\ b \notin ToSet(freeQueue')
            /\ \E j \in 1..(i - 1) : freeQueue[j] \in ToSet(freeQueue')
            => data'[b] = data[b] /\ blockHash'[b] = blockHash[b] /\ refCount'[b] = 1

\* What a step does to the free queue.
LEMMA QueueSteps ==
    ASSUME IInv, [Next]_vars
    PROVE  \/ ToSet(freeQueue) \subseteq ToSet(freeQueue')
           \/ \E n \in Nat : n <= Len(freeQueue) /\ freeQueue' = Behind(n)
           \/ \E r \in Request : ProbeHit(r) \/ RecheckHit(r)
<1>1. TypeOK /\ RefCountExact /\ FreeQueueExact
  BY DEF IInv
<1>2. /\ freeQueue \in Seq(Block) /\ IsInjective(freeQueue)
      /\ Len(freeQueue) \in Nat /\ Cardinality(Block) \in Nat /\ MaxTable \in Nat
  BY <1>1, LenProperties, PagedCacheAssumption, FS_CardinalityType DEF TypeOK, FreeQueueExact
<1>3. ASSUME NEW r \in Request, Lookup(r), ~ ProbeHit(r), ~ RecheckHit(r)
      PROVE  \/ ToSet(freeQueue) \subseteq ToSet(freeQueue')
             \/ \E n \in Nat : n <= Len(freeQueue) /\ freeQueue' = Behind(n)
  <2>1. CASE Promote(r)
    <3>1. 1 <= Len(freeQueue) /\ freeQueue' = Behind(1)
      BY <1>2, <2>1, EmptySeq DEF Promote, TakeFront
    <3> QED BY <3>1
  <2>2. CASE ~ Promote(r)
    <3>1. freeQueue' = freeQueue
      BY <1>3, <2>2 DEF Lookup, StartLookup, ProbeMiss, LookupDone, DiskRead, PromoteFails, pool
    <3> QED BY <3>1
  <2> QED BY <2>1, <2>2
<1>4. ASSUME NEW r \in Request, Work(r)
      PROVE  \/ ToSet(freeQueue) \subseteq ToSet(freeQueue')
             \/ \E n \in Nat : n <= Len(freeQueue) /\ freeQueue' = Behind(n)
  <2>1. ASSUME NEW n \in 1..MaxTable, GetNewBlocks(r, n)
        PROVE  n \in Nat /\ n <= Len(freeQueue) /\ freeQueue' = Behind(n)
    BY <1>2, <2>1 DEF GetNewBlocks, TakeFront
  <2>2. ASSUME GetBlocksForGeneration(r)
        PROVE  \E n \in Nat : n <= Len(freeQueue) /\ freeQueue' = Behind(n)
    BY <2>2, CopyOnWrite DEF CopyStep
  <2>3. ASSUME CacheFullBlocks(r) \/ Decode(r) \/ \E s \in Request : ForkBlockTable(r, s)
        PROVE  freeQueue' = freeQueue
    BY <2>3 DEF CacheFullBlocks, Decode, ForkBlockTable
  <2> QED BY <1>4, <2>1, <2>2, <2>3 DEF Work
<1>5. ASSUME NEW r \in Request, GiveBack(r)
      PROVE  ToSet(freeQueue) \subseteq ToSet(freeQueue')
  <2>1. \A b \in Held(r) : b \in Block /\ b \notin ToSet(freeQueue)
    BY <1>1, HeldIsNotFree
  <2>2. ASSUME NEW s \in SetToSeqs(LastRefs(r)), Unreference(r, s)
        PROVE  ToSet(freeQueue) \subseteq ToSet(freeQueue')
    <3>1. LastRefs(r) \subseteq Block /\ IsFiniteSet(LastRefs(r)) /\ LastRefs(r) \cap ToSet(freeQueue) = {}
      BY <2>1, PagedCacheAssumption, FS_Subset DEF LastRefs
    <3>2. s \in Seq(LastRefs(r)) /\ IsInjective(s) /\ ToSet(s) = LastRefs(r)
      BY <3>1, Arrangement
    <3>3. s \in Seq(Block)
      BY <3>1, <3>2, SeqMonotonic, Zenon
    <3>4. ToSet(freeQueue \o s) = ToSet(freeQueue) \cup ToSet(s)
      BY <1>2, <3>1, <3>2, <3>3, Concatenation
    <3> QED BY <2>2, <3>4 DEF Unreference
  <2>3. ASSUME FreeBlock(r)
        PROVE  ToSet(freeQueue) \subseteq ToSet(freeQueue')
    <3> DEFINE b == Last(held[r])
    <3>1. b \in Held(r)
      <4>1. held[r] \in Seq(Block) /\ held[r] # <<>>
        BY <1>1, <2>3 DEF TypeOK, FreeBlock
      <4> QED BY <4>1, LenProperties, EmptySeq DEF Last, Held, ToSet
    <3>2. freeQueue' = freeQueue \/ freeQueue' = Append(freeQueue, b)
      BY <2>3 DEF FreeBlock
    <3> HIDE DEF b
    <3>3. ToSet(Append(freeQueue, b)) = ToSet(freeQueue) \cup {b}
      BY <1>2, <2>1, <3>1, AppendKeeps
    <3> QED BY <3>2, <3>3
  <2> QED BY <1>5, <2>2, <2>3 DEF GiveBack, ReleaseRequestRefs, DeleteBlockTable, FreeBlocks
<1>6. ASSUME NEW n \in Nat, EvictLRUBlocks(n)
      PROVE  ToSet(freeQueue) \subseteq ToSet(freeQueue')
  <2> DEFINE s == Part(freeQueue, 1, n)
  <2>1. n <= Len(freeQueue) /\ freeQueue' = Behind(n) \o s
    BY <1>6 DEF EvictLRUBlocks, Part
  <2>2. /\ Behind(n) \in Seq(Block) /\ IsInjective(Behind(n))
        /\ ToSet(Behind(n)) = ToSet(freeQueue) \ Foremost(n)
    BY <1>1, <2>1, QueueFacts
  <2>3. s \in Seq(Block) /\ IsInjective(s) /\ ToSet(s) = Foremost(n)
    BY <1>2, <2>1, KeepFirst DEF Foremost, FirstOf
  <2>4. ToSet(Behind(n) \o s) = ToSet(Behind(n)) \cup ToSet(s)
    BY <2>2, <2>3, Concatenation
  <2> QED BY <2>1, <2>2, <2>3, <2>4
<1>7. ASSUME Pressure PROVE ToSet(freeQueue) \subseteq ToSet(freeQueue')
  <2>1. ASSUME NEW n \in 1..Cardinality(Block), HandleMemoryPressure(n)
        PROVE  \E m \in Nat : EvictLRUBlocks(m)
    <3> DEFINE m == IF n - Len(freeQueue) <= Len(freeQueue) THEN n - Len(freeQueue) ELSE Len(freeQueue)
    <3>1. m \in Nat /\ EvictLRUBlocks(m)
      BY <1>2, <2>1 DEF HandleMemoryPressure
    <3> HIDE DEF m
    <3> QED BY <3>1
  <2>2. \A n \in 1..Cardinality(Block) : n \in Nat
    BY <1>2
  <2>3. ASSUME ResetPrefixCache \/ \E h \in Hash : DiskWritten(h)
        PROVE  freeQueue' = freeQueue
    BY <2>3 DEF ResetPrefixCache, DiskWritten, pool
  <2> QED BY <1>6, <1>7, <2>1, <2>2, <2>3 DEF Pressure
<1>8. ASSUME UNCHANGED vars PROVE ToSet(freeQueue) \subseteq ToSet(freeQueue')
  BY <1>8 DEF vars
<1> QED BY <1>3, <1>4, <1>5, <1>7, <1>8 DEF Next

LEMMA StepsKeepHits ==
    ASSUME IInv, [Next]_vars
    PROVE  HitKeepsContent
<1>1. TypeOK /\ RefCountExact /\ FreeQueueExact
  BY DEF IInv
<1> SUFFICES ASSUME NEW i \in DOMAIN freeQueue, NEW j \in 1..(i - 1),
                    freeQueue[i] \notin ToSet(freeQueue'), freeQueue[j] \in ToSet(freeQueue')
             PROVE  /\ data'[freeQueue[i]] = data[freeQueue[i]]
                    /\ blockHash'[freeQueue[i]] = blockHash[freeQueue[i]]
                    /\ refCount'[freeQueue[i]] = 1
  BY DEF HitKeepsContent
<1>2. /\ freeQueue \in Seq(Block) /\ IsInjective(freeQueue)
      /\ DOMAIN freeQueue = 1..Len(freeQueue) /\ Len(freeQueue) \in Nat
      /\ freeQueue[i] \in ToSet(freeQueue) /\ freeQueue[i] \in Block
  BY <1>1, LenProperties DEF TypeOK, FreeQueueExact, ToSet
<1>3. ASSUME NEW n \in Nat, n <= Len(freeQueue), freeQueue' = Behind(n)
      PROVE  FALSE
  <2>1. ToSet(freeQueue') = ToSet(freeQueue) \ Foremost(n)
    BY <1>1, <1>3, QueueFacts
  <2>2. freeQueue[i] \in Foremost(n)
    BY <1>2, <2>1
  <2>3. PICK k \in 1..n : freeQueue[k] = freeQueue[i]
    BY <2>2 DEF Foremost
  <2>4. k = i /\ j \in 1..n
    BY <1>2, <1>3, <2>3 DEF IsInjective
  <2> QED BY <2>1, <2>4 DEF Foremost
<1>4. ASSUME NEW r \in Request, ProbeHit(r) \/ RecheckHit(r)
      PROVE  /\ data'[freeQueue[i]] = data[freeQueue[i]]
             /\ blockHash'[freeQueue[i]] = blockHash[freeQueue[i]]
             /\ refCount'[freeQueue[i]] = 1
  <2>1. PICK b \in hashMap[NextHash(r)] : Touch(r, b)
    BY <1>4 DEF ProbeHit, RecheckHit
  <2>2. refCount[b] = 0
    BY <1>2, <2>1 DEF Touch
  <2>3. PICK k \in DOMAIN freeQueue : freeQueue[k] = b /\ freeQueue' = RemoveAt(freeQueue, k)
    BY <2>1, <2>2 DEF Touch
  <2>4. ToSet(freeQueue') = ToSet(freeQueue) \ {b}
    BY <1>2, <2>3, RemovedAt
  <2>5. freeQueue[i] = b
    BY <1>2, <2>4
  <2>6. refCount' = [refCount EXCEPT ![b] = refCount[b] + 1]
    BY <2>1 DEF Touch
  <2>7. refCount'[b] = 1
    BY <1>1, <1>2, <2>2, <2>5, <2>6 DEF TypeOK
  <2>8. UNCHANGED <<data, blockHash>>
    BY <1>4 DEF ProbeHit, RecheckHit
  <2> QED BY <2>5, <2>7, <2>8
<1> QED BY <1>2, <1>3, <1>4, QueueSteps

LEMMA AlwaysIndexed == Spec => []Indexed
BY PoolInvariant, InitIndexed, NextIndexed, PTL DEF Spec

\* Content leaves the cache in the order in which the blocks were freed, for
\* any number of blocks and whatever allocates, promotes, copies or evicts.
THEOREM PoolEvictsColdest == Spec => EvictsColdestFirst
<1>1. IInv /\ Indexed /\ [Next]_vars => [ColdestGone]_vars
  BY StepsEvictColdest
<1>2. Spec => [][ColdestGone]_vars
  BY <1>1, PoolInvariant, AlwaysIndexed, PTL DEF Spec
<1> QED BY <1>2, Zenon DEF EvictsColdestFirst, ColdestGone

\* A free block that a lookup finds comes back with what it was cached for.
THEOREM PoolHitsSave == Spec => HitSavesBlock
<1>1. IInv /\ [Next]_vars => [HitKeepsContent]_vars
  BY StepsKeepHits
<1>2. Spec => [][HitKeepsContent]_vars
  BY <1>1, PoolInvariant, PTL DEF Spec
<1> QED BY <1>2, Zenon DEF HitSavesBlock, HitKeepsContent

-----------------------------------------------------------------------------
(* The pool implements RequestMemory.  A step that moves blocks about      *)
(* leaves the content of every held block alone (HeldContentStays); what   *)
(* it does to the table of one request is a call of that request on its    *)
(* memory, and all other requests see nothing (OthersSeeNothing).          *)

LEMMA ViewIs ==
    ASSUME TypeOK, NEW r \in Request
    PROVE  /\ View[r] \in Seq(Content)
           /\ Len(View[r]) = Len(held[r]) /\ Len(held[r]) \in Nat
           /\ DOMAIN View[r] = 1..Len(held[r]) /\ DOMAIN held[r] = 1..Len(held[r])
           /\ \A i \in 1..Len(held[r]) : View[r][i] = data[held[r][i]]
<1>1. held[r] \in Seq(Block) /\ DOMAIN held[r] = 1..Len(held[r]) /\ Len(held[r]) \in Nat
  BY LenProperties DEF TypeOK
<1>2. \A i \in 1..Len(held[r]) : held[r][i] \in Block
  BY <1>1, LenProperties
<1>3. View[r] = [i \in 1..Len(held[r]) |-> data[held[r][i]]]
  BY <1>1 DEF View
<1>4. View[r] \in [1..Len(held[r]) -> Content]
  BY <1>2, <1>3 DEF TypeOK
<1>5. View[r] \in Seq(Content) /\ Len(View[r]) = Len(held[r])
  BY <1>1, <1>4
<1> QED BY <1>1, <1>3, <1>5

\* A request that holds nothing sees nothing.
LEMMA EmptyView ==
    ASSUME TypeOK, NEW r \in Request
    PROVE  View[r] = <<>> <=> held[r] = <<>>
<1>1. View[r] \in Seq(Content) /\ Len(View[r]) = Len(held[r]) /\ held[r] \in Seq(Block)
  BY ViewIs DEF TypeOK
<1> QED BY <1>1, EmptySeq

\* When nothing a table names changes but r's own table, r alone sees it.
LEMMA OthersSeeNothing ==
    ASSUME NEW r \in Request, NEW v, View'[r] = v,
           \A q \in Request \ {r} :
              held'[q] = held[q] /\ \A i \in DOMAIN held[q] : data'[held[q][i]] = data[held[q][i]]
    PROVE  View' = [View EXCEPT ![r] = v]
<1>1. \A q \in Request \ {r} : View'[q] = View[q]
  BY DEF View
<1>2. DOMAIN View' = Request /\ DOMAIN View = Request
  BY DEF View
<1>3. View' = [q \in Request |-> View'[q]]
  BY DEF View
<1>4. \A q \in Request : View'[q] = [View EXCEPT ![r] = v][q]
  BY <1>1, <1>2
<1>5. [View EXCEPT ![r] = v] = [q \in Request |-> [View EXCEPT ![r] = v][q]]
  BY <1>2
<1> QED BY <1>3, <1>4, <1>5

\* When every table shows what it showed, the memory stutters.
LEMMA NobodySees ==
    ASSUME \A q \in Request : View'[q] = View[q], prompt' = prompt
    PROVE  UNCHANGED <<View, prompt>>
<1>1. View' = [q \in Request |-> View'[q]] /\ View = [q \in Request |-> View[q]]
  BY DEF View
<1> QED BY <1>1

LEMMA InitImplements == Init => Memory!Init
<1> SUFFICES ASSUME Init PROVE Memory!Init
  OBVIOUS
<1>1. TypeOK
  BY InitIInv DEF IInv
<1>2. \A r \in Request : held[r] = <<>>
  BY DEF Init
<1>3. \A r \in Request : View[r] = <<>>
  BY <1>1, <1>2, EmptyView
<1>4. View = [r \in Request |-> View[r]]
  BY DEF View
<1>5. View = [r \in Request |-> <<>>] /\ prompt = [r \in Request |-> <<>>]
  BY <1>3, <1>4 DEF Init
<1> QED BY <1>5 DEF Memory!Init
-----------------------------------------------------------------------------
(* Lookups and allocation: the memory is extended.                         *)

\* r's table becomes t, which continues it with n blocks of what r expects.
LEMMA ExtendImplements ==
    ASSUME TypeOK, TypeOK', NEW r \in Request, NEW n \in 1..MaxTable, NEW t,
           held' = [held EXCEPT ![r] = t], Len(t) = Len(held[r]) + n,
           \A i \in 1..Len(held[r]) : t[i] = held[r][i],
           \A i \in 1..n : data'[t[Len(held[r]) + i]] = Computed(r, Len(held[r]) + i),
           \A q \in Request : \A i \in DOMAIN held[q] : data'[held[q][i]] = data[held[q][i]],
           prompt' = prompt
    PROVE  Memory!Extend(r, n)
<1> DEFINE old == Len(held[r])
           v == [i \in 1..(old + n) |-> IF i <= old THEN View[r][i] ELSE Computed(r, i)]
<1>1. /\ Len(View[r]) = old /\ old \in Nat /\ n \in Nat
      /\ DOMAIN held[r] = 1..old
      /\ \A i \in 1..old : View[r][i] = data[held[r][i]]
  BY ViewIs, PagedCacheAssumption
<1>2. held'[r] = t
  BY DEF TypeOK
<1>3. /\ DOMAIN View'[r] = 1..(old + n)
      /\ \A i \in 1..(old + n) : View'[r][i] = data'[t[i]]
  <2>1. /\ DOMAIN held'[r] = 1..Len(held'[r])
        /\ View'[r] = [i \in DOMAIN held'[r] |-> data'[held'[r][i]]]
    BY LenProperties DEF TypeOK, View
  <2> QED BY <1>2, <2>1
<1>4. \A i \in 1..(old + n) : View'[r][i] = v[i]
  <2> TAKE i \in 1..(old + n)
  <2>1. CASE i <= old
    <3>1. i \in 1..old
      BY <1>1, <2>1
    <3> QED BY <1>1, <1>3, <2>1, <3>1
  <2>2. CASE ~ i <= old
    <3>1. i - old \in 1..n /\ old + (i - old) = i
      BY <1>1, <2>2
    <3>2. data'[t[i]] = Computed(r, i)
      BY <3>1
    <3> QED BY <1>3, <2>2, <3>2
  <2> QED BY <2>1, <2>2
<1>5. View'[r] = v
  <2>1. View'[r] = [i \in 1..(old + n) |-> View'[r][i]]
    BY <1>2, <1>3 DEF View
  <2> QED BY <1>4, <2>1
<1>6. \A q \in Request \ {r} : held'[q] = held[q]
  BY DEF TypeOK
<1> HIDE DEF v
<1>7. View' = [View EXCEPT ![r] = v]
  BY <1>5, <1>6, OthersSeeNothing
<1> QED BY <1>1, <1>7 DEF v, Memory!Extend, Memory!Expected, Computed

LEMMA HitImplements ==
    ASSUME IInv, IInv', NEW r \in Request, ProbeHit(r) \/ RecheckHit(r)
    PROVE  Memory!Extend(r, 1)
<1>1. Len(held[r]) < Len(prompt[r])
  BY DEF IInv, PhaseOK, ProbeHit, RecheckHit
<1>2. PICK b \in hashMap[NextHash(r)] : Touch(r, b)
  BY DEF ProbeHit, RecheckHit
<1>3. /\ b \in Block /\ data[b] = NextHash(r)
      /\ Len(held[r]) \in Nat /\ held[r] \in Seq(Block)
      /\ Len(prompt[r]) \in Nat
  BY <1>1, <1>2, HitIsNew, PromptFacts DEF IInv
<1>4. held' = [held EXCEPT ![r] = Append(held[r], b)] /\ data' = data /\ prompt' = prompt
  BY <1>2 DEF Touch, ProbeHit, RecheckHit
<1>5. /\ Len(Append(held[r], b)) = Len(held[r]) + 1
      /\ \A i \in 1..Len(held[r]) : Append(held[r], b)[i] = held[r][i]
      /\ Append(held[r], b)[Len(held[r]) + 1] = b
  BY <1>3, AppendProperties
<1>6. data[b] = Computed(r, Len(held[r]) + 1)
  BY <1>1, <1>3 DEF Computed, NextHash
<1>7. 1 \in 1..MaxTable /\ \A i \in 1..1 : i = 1
  BY PagedCacheAssumption
<1> QED BY <1>4, <1>5, <1>6, <1>7, ExtendImplements DEF IInv

LEMMA PromoteImplements ==
    ASSUME IInv, IInv', NEW r \in Request, Promote(r)
    PROVE  Memory!Extend(r, 1)
<1> DEFINE b == Head(freeQueue)
<1>1. /\ Len(held[r]) \in Nat /\ held[r] \in Seq(Block)
      /\ Len(prompt[r]) \in Nat /\ Len(held[r]) < Len(prompt[r])
  BY PromptFacts DEF IInv, PhaseOK, Promote
<1>2. 1 <= Len(freeQueue) /\ b = freeQueue[1] /\ Len(freeQueue) \in Nat
  BY LenProperties, EmptySeq DEF IInv, TypeOK, Promote
<1>3. Foremost(1) = {b} /\ b \in Block
  <2>1. Foremost(1) = {b}
    BY <1>2 DEF Foremost
  <2> QED BY <1>2, <2>1, QueueFacts DEF IInv
<1>4. /\ held' = [held EXCEPT ![r] = Append(held[r], b)] /\ prompt' = prompt
      /\ data' = [data EXCEPT ![b] = NextHash(r)]
  BY DEF Promote
<1> HIDE DEF b
<1>5. data'[b] = NextHash(r) /\ \A c \in Block \ Foremost(1) : data'[c] = data[c]
  BY <1>3, <1>4 DEF IInv, TypeOK
<1>6. \A q \in Request : \A i \in DOMAIN held[q] : data'[held[q][i]] = data[held[q][i]]
  BY <1>2, <1>5, HeldContentStays
<1>7. /\ Len(Append(held[r], b)) = Len(held[r]) + 1
      /\ \A i \in 1..Len(held[r]) : Append(held[r], b)[i] = held[r][i]
      /\ Append(held[r], b)[Len(held[r]) + 1] = b
  BY <1>1, <1>3, AppendProperties
<1>8. data'[b] = Computed(r, Len(held[r]) + 1)
  BY <1>1, <1>5 DEF Computed, NextHash
<1>9. 1 \in 1..MaxTable /\ \A i \in 1..1 : i = 1
  BY PagedCacheAssumption
<1> QED BY <1>4, <1>6, <1>7, <1>8, <1>9, ExtendImplements, ZenonT(40) DEF IInv

LEMMA GetNewBlocksImplements ==
    ASSUME IInv, IInv', NEW r \in Request, NEW n \in 1..MaxTable, GetNewBlocks(r, n)
    PROVE  Memory!Extend(r, n)
<1> DEFINE old == Len(held[r])
           new == Part(freeQueue, 1, n)
           Fill(b) == Computed(r, old + CHOOSE i \in 1..n : freeQueue[i] = b)
<1>1. /\ old \in Nat /\ held[r] \in Seq(Block)
      /\ n \in Nat /\ n <= Len(freeQueue) /\ Len(freeQueue) \in Nat
      /\ freeQueue \in Seq(Block) /\ IsInjective(freeQueue)
  BY PromptFacts, PagedCacheAssumption, LenProperties
     DEF IInv, TypeOK, FreeQueueExact, GetNewBlocks
<1>2. /\ data' = [b \in Block |-> IF b \in Foremost(n) THEN Fill(b) ELSE data[b]]
      /\ held' = [held EXCEPT ![r] = held[r] \o new] /\ prompt' = prompt
  BY DEF GetNewBlocks, Part
<1>3. new \in Seq(Block) /\ Len(new) = n /\ \A i \in 1..n : new[i] = freeQueue[i]
  BY <1>1, KeepFirst
<1> HIDE DEF new, Fill
<1>4. \A i \in 1..n : data'[new[i]] = Computed(r, old + i)
  <2> TAKE i \in 1..n
  <2>1. i \in DOMAIN freeQueue /\ new[i] \in Foremost(n) /\ new[i] \in Block
    BY <1>1, <1>3, LenProperties DEF Foremost
  <2>2. \A j \in 1..n : freeQueue[j] = new[i] <=> j = i
    BY <1>1, <1>3, LenProperties DEF IsInjective
  <2>3. (CHOOSE j \in 1..n : freeQueue[j] = new[i]) = i
    BY <2>2
  <2>4. Fill(new[i]) = Computed(r, old + i)
    BY <2>3 DEF Fill
  <2> QED BY <1>2, <2>1, <2>4
<1>5. \A q \in Request : \A i \in DOMAIN held[q] : data'[held[q][i]] = data[held[q][i]]
  <2>1. \A b \in Block \ Foremost(n) : data'[b] = data[b]
    BY <1>2
  <2> QED BY <1>1, <2>1, HeldContentStays
<1>6. /\ Len(held[r] \o new) = old + n
      /\ \A i \in 1..old : (held[r] \o new)[i] = held[r][i]
      /\ \A i \in 1..n : (held[r] \o new)[old + i] = new[i]
  <2>1. /\ Len(held[r] \o new) = old + n
        /\ \A i \in 1..(old + n) : (held[r] \o new)[i] = IF i <= old THEN held[r][i] ELSE new[i - old]
    BY <1>1, <1>3, ConcatProperties, ZenonT(40)
  <2>2. \A i \in 1..n : old + i \in 1..(old + n) /\ ~ old + i <= old /\ (old + i) - old = i
    BY <1>1
  <2>3. \A i \in 1..old : i \in 1..(old + n) /\ i <= old
    BY <1>1
  <2> QED BY <2>1, <2>2, <2>3
<1>7. \A i \in 1..n : data'[(held[r] \o new)[old + i]] = Computed(r, old + i)
  BY <1>4, <1>6
<1>8. TypeOK /\ TypeOK'
  BY DEF IInv
<1> DEFINE t == held[r] \o new
<1>9. /\ held' = [held EXCEPT ![r] = t] /\ Len(t) = Len(held[r]) + n
      /\ \A i \in 1..Len(held[r]) : t[i] = held[r][i]
      /\ \A i \in 1..n : data'[t[Len(held[r]) + i]] = Computed(r, Len(held[r]) + i)
      /\ prompt' = prompt
  BY <1>2, <1>6, <1>7
<1> HIDE DEF t, old
<1> QED BY <1>5, <1>8, <1>9, ExtendImplements
-----------------------------------------------------------------------------
(* Steps the memory does not see.                                          *)

LEMMA Unseen ==
    ASSUME prompt' = prompt,
           \A q \in Request : /\ DOMAIN held'[q] = DOMAIN held[q]
                             /\ \A i \in DOMAIN held[q] : data'[held'[q][i]] = data[held[q][i]]
    PROVE  UNCHANGED <<View, prompt>>
<1>1. \A q \in Request : View'[q] = View[q]
  BY DEF View
<1> QED BY <1>1, NobodySees

\* The contents of unreferenced blocks may change, nobody's table.
LEMMA EvictUnseen ==
    ASSUME IInv, NEW n \in Nat, EvictLRUBlocks(n)
    PROVE  UNCHANGED <<View, prompt>>
<1>1. n <= Len(freeQueue) /\ held' = held /\ prompt' = prompt
  BY DEF EvictLRUBlocks
<1>2. \A b \in Block \ Foremost(n) : data'[b] = data[b]
  BY DEF EvictLRUBlocks, Evicted
<1>3. \A q \in Request : \A i \in DOMAIN held[q] : data'[held[q][i]] = data[held[q][i]]
  BY <1>1, <1>2, HeldContentStays
<1> QED BY <1>1, <1>3, Unseen

LEMMA ResetUnseen ==
    ASSUME IInv, ResetPrefixCache
    PROVE  UNCHANGED <<View, prompt>>
<1>1. held' = held /\ prompt' = prompt
  BY DEF ResetPrefixCache
<1>2. \A q \in Request : \A i \in DOMAIN held[q] : FALSE
  BY NobodyHolds DEF IInv, ResetPrefixCache
<1> QED BY <1>1, <1>2, Unseen

\* Copy-on-write: each shared block gives way to a block with its content.
LEMMA GenerationUnseen ==
    ASSUME IInv, NEW r \in Request, GetBlocksForGeneration(r)
    PROVE  UNCHANGED <<View, prompt>>
<1>1. PICK s, n : CopyStep(r, s, n) /\ Copies(r, s, n)
  BY CopyOnWrite
<1> DEFINE new == Replaced(held[r], s, n, freeQueue)
<1>2. /\ DOMAIN new = DOMAIN held[r]
      /\ \A k \in 1..n : new[s[k]] = freeQueue[k]
      /\ \A i \in DOMAIN held[r] : (\A k \in 1..n : s[k] # i) => new[i] = held[r][i]
  BY <1>1, CopyFacts
<1>3. n \in Nat /\ n <= Len(freeQueue) /\ prompt' = prompt /\ held' = [held EXCEPT ![r] = new]
  BY <1>1 DEF CopyStep
<1>4. /\ \A k \in 1..n : data'[freeQueue[k]] = data[held[r][s[k]]]
      /\ \A b \in Block \ Foremost(n) : data'[b] = data[b]
  BY <1>1 DEF Copies
<1> HIDE DEF new
<1>5. \A q \in Request : \A i \in DOMAIN held[q] : data'[held[q][i]] = data[held[q][i]]
  BY <1>3, <1>4, HeldContentStays
<1>6. \A q \in Request : held'[q] = IF q = r THEN new ELSE held[q]
  BY <1>3 DEF IInv, TypeOK
<1>7. \A i \in DOMAIN held[r] : data'[new[i]] = data[held[r][i]]
  BY <1>2, <1>4, <1>5
<1> QED BY <1>2, <1>3, <1>5, <1>6, <1>7, Unseen

\* Caching a block, a lookup's misses and the disk writer touch no table.
LEMMA QuietUnseen ==
    ASSUME UNCHANGED <<data, held, prompt>>
    PROVE  UNCHANGED <<View, prompt>>
BY Unseen
-----------------------------------------------------------------------------
(* The other calls of a request.                                           *)

LEMMA StartLookupImplements ==
    ASSUME IInv, NEW r \in Request, NEW p \in Prompt, StartLookup(r, p)
    PROVE  Memory!Begin(r, p)
<1>1. held[r] = <<>> /\ data' = data /\ held' = held /\ prompt' = [prompt EXCEPT ![r] = p]
  BY DEF IInv, PhaseOK, StartLookup, pool
<1>2. View[r] = <<>>
  BY <1>1, EmptyView DEF IInv
<1>3. View' = View
  BY <1>1 DEF View
<1> QED BY <1>1, <1>2, <1>3 DEF Memory!Begin

LEMMA ForkImplements ==
    ASSUME IInv, IInv', NEW r \in Request, NEW s \in Request, ForkBlockTable(r, s)
    PROVE  Memory!Fork(r, s)
<1>1. /\ held' = [held EXCEPT ![s] = held[r]] /\ data' = data
      /\ prompt' = [prompt EXCEPT ![s] = prompt[r]] /\ held[s] = <<>>
  BY DEF IInv, PhaseOK, ForkBlockTable
<1>2. View[s] = <<>>
  BY <1>1, EmptyView DEF IInv
<1>3. held'[s] = held[r] /\ \A q \in Request \ {s} : held'[q] = held[q]
  BY <1>1 DEF IInv, TypeOK
<1>4. View'[s] = View[r]
  BY <1>1, <1>3 DEF View
<1>5. View' = [View EXCEPT ![s] = View[r]]
  BY <1>1, <1>3, <1>4, OthersSeeNothing
<1> QED BY <1>1, <1>2, <1>5 DEF Memory!Fork

LEMMA UnreferenceImplements ==
    ASSUME IInv, IInv', NEW r \in Request, NEW s, Unreference(r, s)
    PROVE  Memory!Drop(r)
<1>1. /\ held' = [held EXCEPT ![r] = <<>>] /\ data' = data
      /\ prompt' = [prompt EXCEPT ![r] = <<>>]
  BY DEF Unreference
<1>2. held'[r] = <<>> /\ \A q \in Request \ {r} : held'[q] = held[q]
  BY <1>1 DEF IInv, TypeOK
<1>3. View'[r] = <<>>
  BY <1>2 DEF View
<1>4. View' = [View EXCEPT ![r] = <<>>]
  BY <1>1, <1>2, <1>3, OthersSeeNothing
<1> QED BY <1>1, <1>4 DEF Memory!Drop

\* A decode writes a block that nobody else holds.
LEMMA DecodeImplements ==
    ASSUME IInv, NEW r \in Request, Decode(r)
    PROVE  Memory!Overwrite(r)
<1> DEFINE b == Last(held[r])
           k == Len(held[r])
           v == [View[r] EXCEPT ![k] = r]
<1>1. /\ k > Len(prompt[r]) /\ refCount[b] = 1 /\ data' = [data EXCEPT ![b] = r]
      /\ held' = held /\ prompt' = prompt
  BY DEF Decode
<1>2. /\ DOMAIN held[r] = 1..k /\ k \in Nat /\ held[r] \in Seq(Block)
      /\ IsInjective(held[r]) /\ Len(prompt[r]) \in Nat
      /\ Len(View[r]) = k /\ DOMAIN View[r] = 1..k
      /\ \A i \in 1..k : View[r][i] = data[held[r][i]]
  BY PromptFacts, ViewIs DEF IInv, RefCountExact
<1>3. k \in DOMAIN held[r] /\ b = held[r][k] /\ b \in Block /\ b \in Held(r)
  BY <1>1, <1>2, LenProperties DEF Last, Held, ToSet
<1> HIDE DEF b, k
<1>4. Holders(b) = {r}
  BY <1>1, <1>3, CountMeansHolders DEF IInv, Holders
<1>5. \A c \in Block : data'[c] = IF c = b THEN r ELSE data[c]
  BY <1>1 DEF IInv, TypeOK
<1>6. \A q \in Request : \A i \in DOMAIN held[q] : held[q][i] \in Block /\ held[q][i] \in Held(q)
  BY LenProperties DEF IInv, TypeOK, Held, ToSet
<1>7. \A q \in Request \ {r} : \A i \in DOMAIN held[q] : data'[held[q][i]] = data[held[q][i]]
  BY <1>4, <1>5, <1>6 DEF Holders
<1>8. \A i \in 1..k : data'[held[r][i]] = IF i = k THEN r ELSE data[held[r][i]]
  BY <1>2, <1>3, <1>5, <1>6 DEF IsInjective
<1>9. View'[r] = v
  <2>1. View'[r] = [i \in 1..k |-> data'[held[r][i]]]
    BY <1>1, <1>2 DEF View
  <2>2. View[r] = [i \in 1..k |-> data[held[r][i]]]
    BY <1>2 DEF View
  <2>3. v = [i \in 1..k |-> IF i = k THEN r ELSE data[held[r][i]]]
    BY <2>2
  <2> QED BY <1>8, <2>1, <2>3
<1> HIDE DEF v
<1>10. View' = [View EXCEPT ![r] = v]
  BY <1>1, <1>7, <1>9, OthersSeeNothing
<1>11. View' = [View EXCEPT ![r] = [@ EXCEPT ![Len(@)] = r]]
  <2>1. r \in DOMAIN View
    BY DEF View
  <2> QED BY <1>2, <1>10, <2>1 DEF v
<1> QED BY <1>1, <1>2, <1>11 DEF Memory!Overwrite

LEMMA FreeBlockImplements ==
    ASSUME IInv, IInv', NEW r \in Request, FreeBlock(r)
    PROVE  Memory!CutBack(r)
<1> DEFINE k == Len(held[r])
           t == Part(held[r], 1, k - 1)
           v == Part(View[r], 1, k - 1)
<1>1. held' = [held EXCEPT ![r] = t] /\ data' = data /\ prompt' = prompt /\ held[r] # <<>>
  BY DEF FreeBlock, Part
<1>2. /\ held[r] \in Seq(Block) /\ IsInjective(held[r]) /\ k \in Nat \ {0}
      /\ View[r] \in Seq(Content) /\ Len(View[r]) = k /\ View[r] # <<>>
      /\ \A i \in 1..k : View[r][i] = data[held[r][i]]
  BY <1>1, PromptFacts, ViewIs, EmptyView, EmptySeq DEF IInv, RefCountExact
<1>3. k - 1 \in Nat /\ k - 1 <= k /\ \A i \in 1..(k - 1) : i \in 1..k
  BY <1>2
<1>4. t \in Seq(Block) /\ Len(t) = k - 1 /\ \A i \in 1..(k - 1) : t[i] = held[r][i]
  <2>1. k - 1 <= Len(held[r])
    BY <1>3
  <2> HIDE DEF k
  <2> QED BY <1>2, <1>3, <2>1, KeepFirst
<1>5. v \in Seq(Content) /\ Len(v) = k - 1 /\ \A i \in 1..(k - 1) : v[i] = View[r][i]
  <2> HIDE DEF k
  <2>1. \A i \in 1..(k - 1) : View[r][i] \in Content
    BY <1>2, <1>3, LenProperties
  <2> QED BY <1>2, <1>3, <2>1, SubSeqProperties, Z3 DEF Part
<1> HIDE DEF k, t, v
<1>6. held'[r] = t /\ \A q \in Request \ {r} : held'[q] = held[q]
  BY <1>1 DEF IInv, TypeOK
<1>7. View'[r] = v
  <2>1. DOMAIN t = 1..(k - 1) /\ DOMAIN v = 1..(k - 1)
    BY <1>3, <1>4, <1>5, LenProperties
  <2>2. View'[r] = [i \in 1..(k - 1) |-> data[t[i]]]
    <3>1. View'[r] = [i \in DOMAIN held'[r] |-> data'[held'[r][i]]]
      BY DEF View
    <3> QED BY <1>1, <1>6, <2>1, <3>1
  <2>3. v = [i \in 1..(k - 1) |-> v[i]]
    BY <1>5, <2>1
  <2>4. \A i \in 1..(k - 1) : v[i] = data[t[i]]
    BY <1>2, <1>3, <1>4, <1>5
  <2> QED BY <2>2, <2>3, <2>4
<1>8. View' = [View EXCEPT ![r] = v]
  BY <1>1, <1>6, <1>7, OthersSeeNothing
<1>9. View' = [View EXCEPT ![r] = SubSeq(@, 1, Len(@) - 1)]
  <2>1. r \in DOMAIN View
    BY DEF View
  <2> QED BY <1>2, <1>8, <2>1 DEF v, Part
<1> QED BY <1>1, <1>2, <1>9 DEF Memory!CutBack
-----------------------------------------------------------------------------
LEMMA LookupImplements ==
    ASSUME IInv, IInv', NEW r \in Request, Lookup(r)
    PROVE  [Memory!Next]_<<View, prompt>>
<1>1. ASSUME NEW p \in Prompt, StartLookup(r, p) PROVE Memory!Next
  BY <1>1, StartLookupImplements DEF Memory!Next
<1>2. CASE ProbeHit(r) \/ RecheckHit(r) \/ Promote(r)
  <2>1. Memory!Extend(r, 1) /\ 1 \in 1..MaxTable
    BY <1>2, HitImplements, PromoteImplements, PagedCacheAssumption
  <2> QED BY <2>1 DEF Memory!Next
<1>3. CASE ProbeMiss(r) \/ LookupDone(r) \/ DiskRead(r) \/ PromoteFails(r)
  <2>1. UNCHANGED <<data, held, prompt>>
    BY <1>3 DEF ProbeMiss, LookupDone, DiskRead, PromoteFails, pool
  <2> QED BY <2>1, QuietUnseen
<1> QED BY <1>1, <1>2, <1>3 DEF Lookup

LEMMA WorkImplements ==
    ASSUME IInv, IInv', NEW r \in Request, Work(r)
    PROVE  [Memory!Next]_<<View, prompt>>
<1>1. ASSUME NEW n \in 1..MaxTable, GetNewBlocks(r, n) PROVE Memory!Next
  BY <1>1, GetNewBlocksImplements DEF Memory!Next
<1>2. CASE CacheFullBlocks(r)
  BY <1>2, QuietUnseen DEF CacheFullBlocks
<1>3. ASSUME NEW s \in Request, ForkBlockTable(r, s) PROVE Memory!Next
  BY <1>3, ForkImplements DEF Memory!Next
<1>4. CASE GetBlocksForGeneration(r)
  BY <1>4, GenerationUnseen
<1>5. CASE Decode(r)
  BY <1>5, DecodeImplements DEF Memory!Next
<1> QED BY <1>1, <1>2, <1>3, <1>4, <1>5 DEF Work

LEMMA GiveBackImplements ==
    ASSUME IInv, IInv', NEW r \in Request, GiveBack(r)
    PROVE  Memory!Next
<1>1. ASSUME NEW s, Unreference(r, s) PROVE Memory!Next
  BY <1>1, UnreferenceImplements DEF Memory!Next
<1>2. CASE FreeBlock(r)
  BY <1>2, FreeBlockImplements DEF Memory!Next
<1> QED BY <1>1, <1>2 DEF GiveBack, ReleaseRequestRefs, DeleteBlockTable, FreeBlocks

LEMMA PressureUnseen ==
    ASSUME IInv, Pressure
    PROVE  UNCHANGED <<View, prompt>>
<1>1. Len(freeQueue) \in Nat /\ Cardinality(Block) \in Nat
  BY LenProperties, PagedCacheAssumption, FS_CardinalityType DEF IInv, TypeOK
<1>2. ASSUME NEW n \in 1..Cardinality(Block), EvictLRUBlocks(n)
      PROVE  UNCHANGED <<View, prompt>>
  BY <1>1, <1>2, EvictUnseen
<1>3. ASSUME NEW n \in 1..Cardinality(Block), HandleMemoryPressure(n)
      PROVE  UNCHANGED <<View, prompt>>
  <2> DEFINE m == IF n - Len(freeQueue) <= Len(freeQueue) THEN n - Len(freeQueue) ELSE Len(freeQueue)
  <2>1. m \in Nat /\ EvictLRUBlocks(m)
    BY <1>1, <1>3 DEF HandleMemoryPressure
  <2> HIDE DEF m
  <2> QED BY <2>1, EvictUnseen
<1>4. ASSUME NEW h \in Hash, DiskWritten(h)
      PROVE  UNCHANGED <<View, prompt>>
  BY <1>4, QuietUnseen DEF DiskWritten, pool
<1> QED BY <1>2, <1>3, <1>4, ResetUnseen DEF Pressure

LEMMA StepImplements == IInv /\ IInv' /\ [Next]_vars => [Memory!Next]_<<View, prompt>>
<1> SUFFICES ASSUME IInv, IInv', [Next]_vars PROVE [Memory!Next]_<<View, prompt>>
  OBVIOUS
<1>1. ASSUME NEW r \in Request, Lookup(r) \/ Work(r) \/ GiveBack(r)
      PROVE  [Memory!Next]_<<View, prompt>>
  BY <1>1, LookupImplements, WorkImplements, GiveBackImplements
<1>2. CASE Pressure
  BY <1>2, PressureUnseen
<1>3. CASE UNCHANGED vars
  BY <1>3, QuietUnseen DEF vars
<1> QED BY <1>1, <1>2, <1>3 DEF Next

\* The pool implements the promise it makes to a request, for every number of
\* requests and blocks: sharing, copy-on-write, eviction, promotion from disk
\* and the reuse of freed blocks change nothing a request can read.
THEOREM MemoryImplemented == Spec => MemorySpec
BY PoolInvariant, InitImplements, StepImplements, PTL DEF Spec, MemorySpec, Memory!Spec
=============================================================================
