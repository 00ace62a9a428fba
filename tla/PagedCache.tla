----------------------------- MODULE PagedCache -----------------------------
(***************************************************************************)
(* PagedCacheManager, rfsn_v11/cache/paged_cache.py: the pool of physical  *)
(* KV-cache blocks that the requests of a server share.                    *)
(*                                                                         *)
(* A block is identified by its id; the null block 0, which __init__ pops  *)
(* and nothing ever frees, is left out of Block.  A request is a           *)
(* well-behaved caller: it owns the block ids of its BlockTable, gives     *)
(* every reference back exactly once, and writes only blocks it holds      *)
(* alone.  Every public method runs under the manager's RLock, so each is  *)
(* one action; the exception is get_computed_blocks, which releases the    *)
(* lock around every disk read and is a small state machine here (phase).  *)
(*                                                                         *)
(* A chain hash stands for the token prefix it is computed from: SHA-256   *)
(* is taken to be collision-free, so the hash and the KV data computed for *)
(* that prefix are one member of Hash.  enable_caching has its default,    *)
(* TRUE.  The free queue is a sequence here; FreeBlockQueue shows that the *)
(* linked list implements it.                                              *)
(***************************************************************************)
EXTENDS Integers, FiniteSets, SequencesExt

CONSTANTS
    Request,      \* identifiers of the callers
    Block,        \* block ids 1 .. max_blocks - 1
    Hash,         \* chain hashes: one per token prefix
    Prompt,       \* prompts, each the sequence of its blocks' chain hashes
    NoHash,       \* block_hash is None, or the block's content is no prefix
    DiskStore,    \* is an L2 disk store configured?
    MaxTable      \* bound: blocks a request holds

ASSUME PagedCacheAssumption ==
    /\ IsFiniteSet(Request)
    /\ IsFiniteSet(Block)
    /\ Prompt \subseteq Seq(Hash)
    /\ \A p \in Prompt : \A i, j \in DOMAIN p : p[i] = p[j] => i = j
    /\ NoHash \notin Hash
    /\ DiskStore \in BOOLEAN
    /\ MaxTable \in Nat \ {0}

Content == Hash \cup Request \cup {NoHash}
Phase == {"idle", "probe", "disk", "promote", "active"}

VARIABLES
    refCount,     \* CacheBlock.ref_count
    allocated,    \* keys of allocated_blocks
    freeQueue,    \* free_block_queue, front (least recently used) first
    blockHash,    \* CacheBlock.block_hash
    data,         \* CacheBlock.cache_data: the prefix, or the last writer
    hashMap,      \* cached_block_hash_to_block: the blocks under each hash
    stats,        \* CacheStats.allocated_blocks and free_blocks
    disk,         \* hashes the disk store can read back
    writing,      \* hashes handed to write_block_async, not yet readable
    phase,        \* where the request is in get_computed_blocks
    prompt,       \* the prompt the request works on
    held          \* the hits so far, then block_ids of the request's table

pool == <<refCount, allocated, freeQueue, blockHash, data, hashMap, stats>>
vars == <<refCount, allocated, freeQueue, blockHash, data, hashMap, stats,
          disk, writing, phase, prompt, held>>

\* Every piece of the pool's and the requests' state has its type.
TypeOK ==
    /\ refCount \in [Block -> Nat]
    /\ allocated \in SUBSET Block
    /\ freeQueue \in Seq(Block)
    /\ blockHash \in [Block -> Hash \cup {NoHash}]
    /\ data \in [Block -> Content]
    /\ hashMap \in [Hash -> SUBSET Block]
    /\ stats \in [allocated : Int, free : Int]
    /\ disk \in SUBSET Hash
    /\ writing \in SUBSET Hash
    /\ phase \in [Request -> Phase]
    /\ prompt \in [Request -> Prompt \cup {<<>>}]
    /\ held \in [Request -> Seq(Block)]

Init ==
    /\ refCount = [b \in Block |-> 0]
    /\ allocated = {}
    /\ freeQueue \in SetToSeqs(Block)
    /\ blockHash = [b \in Block |-> NoHash]
    /\ data = [b \in Block |-> NoHash]
    /\ hashMap = [h \in Hash |-> {}]
    /\ stats = [allocated |-> 1, free |-> Cardinality(Block)]
    /\ disk = {}
    /\ writing = {}
    /\ phase = [r \in Request |-> "idle"]
    /\ prompt = [r \in Request |-> <<>>]
    /\ held = [r \in Request |-> <<>>]

-----------------------------------------------------------------------------
(* The parts the methods share.                                            *)

Held(r) == ToSet(held[r])

\* The next chain hash a lookup or a prefill of r is about.
NextHash(r) == prompt[r][Len(held[r]) + 1]

Count(a, f) == stats' = [allocated |-> stats.allocated + a, free |-> stats.free + f]

\* The first n blocks of the queue, and the queue without them (popleft).
Foremost(n) == {freeQueue[i] : i \in 1..n}
PopBack(n) == SubSeq(freeQueue, 1, Len(freeQueue) - n)    \* mutant of Behind
Behind(n) == SubSeq(freeQueue, n + 1, Len(freeQueue))

\* s lists its blocks in the order of the table t.
InOrderOf(t, s) ==
    \A i, j \in DOMAIN s : i < j => \E k, l \in DOMAIN t : k < l /\ t[k] = s[i] /\ t[l] = s[j]

\* The blocks of S that _maybe_evict_cached_block finds in the hash map.
Evicted(S) == {b \in S : blockHash[b] # NoHash /\ b \in hashMap[blockHash[b]]}

\* _maybe_evict_cached_block drops them from the map and has them persisted.
MapWithout(E) == [h \in Hash |-> {b \in hashMap[h] : ~ (b \in E /\ blockHash[b] = h)}]
Persist(E) ==
    writing' = IF DiskStore
               THEN writing \cup {blockHash[b] : b \in {e \in E : data[e] # NoHash}}
               ELSE writing

\* blocks leave the front of the queue for r, one reference each.
TakeFront(n) ==
    /\ freeQueue' = Behind(n)
    /\ refCount' = [b \in Block |-> IF b \in Foremost(n) THEN 1 ELSE refCount[b]]
    /\ allocated' = allocated \cup Foremost(n)
    /\ Count(n, -n)

\* Mutants of Touch: the hit block stays in the free queue; is not counted.
TouchInQueue(r, b) ==
    /\ allocated' = allocated \cup {b}
    /\ UNCHANGED <<freeQueue, stats>>
    /\ refCount' = [refCount EXCEPT ![b] = @ + 1]
    /\ held' = [held EXCEPT ![r] = Append(@, b)]

TouchUncounted(r, b) ==
    /\ IF refCount[b] = 0
       THEN /\ \E i \in DOMAIN freeQueue :
                  freeQueue[i] = b /\ freeQueue' = RemoveAt(freeQueue, i)
            /\ allocated' = allocated \cup {b}
       ELSE UNCHANGED <<freeQueue, allocated>>
    /\ UNCHANGED stats
    /\ refCount' = [refCount EXCEPT ![b] = @ + 1]
    /\ held' = [held EXCEPT ![r] = Append(@, b)]

\* touch: a hit on block b for request r.
Touch(r, b) ==
    /\ IF refCount[b] = 0
       THEN /\ \E i \in DOMAIN freeQueue :
                  freeQueue[i] = b /\ freeQueue' = RemoveAt(freeQueue, i)
            /\ allocated' = allocated \cup {b}
            /\ Count(1, -1)
       ELSE UNCHANGED <<freeQueue, allocated, stats>>
    /\ refCount' = [refCount EXCEPT ![b] = @ + 1]
    /\ held' = [held EXCEPT ![r] = Append(@, b)]

-----------------------------------------------------------------------------
(* get_computed_blocks: a chain of probes, each under the lock; the disk   *)
(* read between a missed probe and the second look is not.  The caller     *)
(* then puts the hits in a new block table.                                *)

StartLookup(r, p) ==
    /\ phase[r] = "idle"
    /\ phase' = [phase EXCEPT ![r] = "probe"]
    /\ prompt' = [prompt EXCEPT ![r] = p]
    /\ UNCHANGED <<pool, disk, writing, held>>

\* get_block may return any of the blocks under the hash.
ProbeHit(r) ==
    /\ phase[r] = "probe"
    /\ Len(held[r]) < Len(prompt[r])
    /\ \E b \in hashMap[NextHash(r)] : Touch(r, b)
    /\ UNCHANGED <<blockHash, data, hashMap, disk, writing, phase, prompt>>

ProbeMiss(r) ==
    /\ phase[r] = "probe"
    /\ Len(held[r]) < Len(prompt[r])
    /\ hashMap[NextHash(r)] = {}
    /\ phase' = [phase EXCEPT ![r] = IF DiskStore THEN "disk" ELSE "active"]
    /\ UNCHANGED <<pool, disk, writing, prompt, held>>

LookupDone(r) ==
    /\ phase[r] = "probe"
    /\ Len(held[r]) = Len(prompt[r])
    /\ phase' = [phase EXCEPT ![r] = "active"]
    /\ UNCHANGED <<pool, disk, writing, prompt, held>>

DiskRead(r) ==
    /\ phase[r] = "disk"
    /\ phase' = [phase EXCEPT ![r] = IF NextHash(r) \in disk THEN "promote" ELSE "active"]
    /\ UNCHANGED <<pool, disk, writing, prompt, held>>

\* Mutant of RecheckHit: the block found on the second look is not touched.
RecheckUntouched(r) ==
    /\ phase[r] = "promote"
    /\ \E b \in hashMap[NextHash(r)] : held' = [held EXCEPT ![r] = Append(@, b)]
    /\ phase' = [phase EXCEPT ![r] = "probe"]
    /\ UNCHANGED <<pool, disk, writing, prompt>>

\* Another request brought the block back while this one was reading.
RecheckHit(r) ==
    /\ phase[r] = "promote"
    /\ \E b \in hashMap[NextHash(r)] : Touch(r, b)
    /\ phase' = [phase EXCEPT ![r] = "probe"]
    /\ UNCHANGED <<blockHash, data, hashMap, disk, writing, prompt>>

\* Mutant of Promote: the block is not evicted from its old hash first.
PromoteUnevicted(r) ==
    LET b == Head(freeQueue)
    IN  /\ phase[r] = "promote"
        /\ hashMap[NextHash(r)] = {}
        /\ freeQueue # <<>>
        /\ TakeFront(1)
        /\ hashMap' = [hashMap EXCEPT ![NextHash(r)] = @ \cup {b}]
        /\ blockHash' = [blockHash EXCEPT ![b] = NextHash(r)]
        /\ data' = [data EXCEPT ![b] = NextHash(r)]
        /\ held' = [held EXCEPT ![r] = Append(@, b)]
        /\ phase' = [phase EXCEPT ![r] = "probe"]
        /\ UNCHANGED <<disk, writing, prompt>>

\* _promote_from_disk
Promote(r) ==
    LET h == NextHash(r)
        b == Head(freeQueue)
        E == Evicted({b})
    IN  /\ phase[r] = "promote"
        /\ hashMap[h] = {}
        /\ freeQueue # <<>>
        /\ TakeFront(1)
        /\ Persist(E)
        /\ hashMap' = [MapWithout(E) EXCEPT ![h] = @ \cup {b}]
        /\ blockHash' = [blockHash EXCEPT ![b] = h]
        /\ data' = [data EXCEPT ![b] = h]
        /\ held' = [held EXCEPT ![r] = Append(@, b)]
        /\ phase' = [phase EXCEPT ![r] = "probe"]
        /\ UNCHANGED <<disk, prompt>>

\* _promote_from_disk found no free block: the lookup ends with its hits.
PromoteFails(r) ==
    /\ phase[r] = "promote"
    /\ hashMap[NextHash(r)] = {}
    /\ freeQueue = <<>>
    /\ phase' = [phase EXCEPT ![r] = "active"]
    /\ UNCHANGED <<pool, disk, writing, prompt, held>>

-----------------------------------------------------------------------------
(* A request with a table: prefill, decode, sharing.                       *)

\* What r computes into its i-th block: the prompt's KV, then its own tokens.
Computed(r, i) == IF i <= Len(prompt[r]) THEN prompt[r][i] ELSE r

\* allocate_block for n = 1, get_new_blocks for more; the caller fills the
\* blocks with what it computed and adds them to its table.
GetNewBlocks(r, n) ==
    LET E == Evicted(Foremost(n))
        old == Len(held[r])
        Fill(b) == Computed(r, old + CHOOSE i \in 1..n : freeQueue[i] = b)
    IN  /\ phase[r] = "active"
        /\ n <= Len(freeQueue)
        /\ old + n <= MaxTable
        /\ TakeFront(n)
        /\ Persist(E)
        /\ hashMap' = MapWithout(E)
        /\ blockHash' = [b \in Block |-> IF b \in E THEN NoHash ELSE blockHash[b]]
        /\ data' = [b \in Block |-> IF b \in Foremost(n) THEN Fill(b) ELSE data[b]]
        /\ held' = [held EXCEPT ![r] = @ \o SubSeq(freeQueue, 1, n)]
        /\ UNCHANGED <<disk, phase, prompt>>

\* cache_full_blocks over the table, num_cached_blocks being the number of
\* leading blocks that carry a hash: every prompt block without one gets it.
CacheFullBlocks(r) ==
    LET new == {i \in DOMAIN held[r] : i <= Len(prompt[r]) /\ blockHash[held[r][i]] = NoHash}
    IN  /\ phase[r] = "active"
        /\ new # {}
        /\ blockHash' = [b \in Block |->
              IF \E i \in new : held[r][i] = b
              THEN prompt[r][CHOOSE i \in new : held[r][i] = b] ELSE blockHash[b]]
        /\ hashMap' = [h \in Hash |->
              hashMap[h] \cup {held[r][i] : i \in {j \in new : prompt[r][j] = h}}]
        /\ UNCHANGED <<refCount, allocated, freeQueue, data, stats,
                       disk, writing, phase, prompt, held>>

\* fork_block_table
ForkBlockTable(r, s) ==
    /\ phase[r] = "active"
    /\ phase[s] = "idle"
    /\ refCount' = [b \in Block |->
          IF b \in Held(r) /\ b \in allocated THEN refCount[b] + 1 ELSE refCount[b]]
    /\ phase' = [phase EXCEPT ![s] = "active"]
    /\ prompt' = [prompt EXCEPT ![s] = prompt[r]]
    /\ held' = [held EXCEPT ![s] = held[r]]
    /\ UNCHANGED <<allocated, freeQueue, blockHash, data, hashMap, stats, disk, writing>>

\* get_blocks_for_generation copies the shared blocks of the table, in table
\* order, into free blocks; when these run out the rest stays shared.
Shared(r) == {i \in DOMAIN held[r] : refCount[held[r][i]] > 1}

GetBlocksForGeneration(r) ==
    /\ phase[r] = "active"
    /\ \E s \in SetToSeqs(Shared(r)) :
         LET n == IF Len(s) <= Len(freeQueue) THEN Len(s) ELSE Len(freeQueue)
             E == Evicted(Foremost(n))
             Source(b) == held[r][s[CHOOSE k \in 1..n : freeQueue[k] = b]]
         IN  /\ \A i, j \in DOMAIN s : i < j => s[i] < s[j]
             /\ n > 0
             /\ freeQueue' = Behind(n)
             /\ allocated' = allocated \cup Foremost(n)
             /\ refCount' = [b \in Block |->
                   CASE b \in Foremost(n) -> 1
                     [] \E k \in 1..n : b = held[r][s[k]] -> refCount[b] - 1
                     [] OTHER -> refCount[b]]
             /\ Count(n, -n)
             /\ Persist(E)
             /\ hashMap' = MapWithout(E)
             /\ blockHash' = [b \in Block |-> IF b \in E THEN NoHash ELSE blockHash[b]]
             /\ data' = [b \in Block |-> IF b \in Foremost(n) THEN data[Source(b)] ELSE data[b]]
             /\ held' = [held EXCEPT ![r] = [i \in DOMAIN @ |->
                   IF \E k \in 1..n : s[k] = i
                   THEN freeQueue[CHOOSE k \in 1..n : s[k] = i] ELSE @[i]]]
    /\ UNCHANGED <<disk, phase, prompt>>

\* Mutant of Decode: the caller writes without the copy.
DecodeShared(r) ==
    /\ phase[r] = "active"
    /\ Len(held[r]) > Len(prompt[r])
    /\ blockHash[Last(held[r])] = NoHash
    /\ data' = [data EXCEPT ![Last(held[r])] = r]
    /\ UNCHANGED <<refCount, allocated, freeQueue, blockHash, hashMap, stats,
                   disk, writing, phase, prompt, held>>

\* The caller decodes into its last block, which no hash names and which it
\* holds alone.
Decode(r) ==
    LET b == Last(held[r])
    IN  /\ phase[r] = "active"
        /\ Len(held[r]) > Len(prompt[r])
        /\ refCount[b] = 1
        /\ blockHash[b] = NoHash
        /\ data' = [data EXCEPT ![b] = r]
        /\ UNCHANGED <<refCount, allocated, freeQueue, blockHash, hashMap, stats,
                       disk, writing, phase, prompt, held>>

-----------------------------------------------------------------------------
(* Giving references back.                                                 *)

\* The blocks of r that nobody else references.
LastRefs(r) == {b \in Held(r) : refCount[b] = 1}

Unreference(r, s) ==
    /\ freeQueue' = freeQueue \o s
    /\ refCount' = [b \in Block |-> IF b \in Held(r) THEN refCount[b] - 1 ELSE refCount[b]]
    /\ Count(- Len(s), Len(s))
    /\ phase' = [phase EXCEPT ![r] = "idle"]
    /\ prompt' = [prompt EXCEPT ![r] = <<>>]
    /\ held' = [held EXCEPT ![r] = <<>>]
    /\ UNCHANGED <<blockHash, data, hashMap, disk, writing>>

\* release_request_refs and detach_request: "cached but free", the blocks
\* stay in allocated_blocks.
ReleaseRequestRefs(r) ==
    /\ phase[r] = "active"
    /\ \E s \in SetToSeqs(LastRefs(r)) : InOrderOf(held[r], s) /\ Unreference(r, s)
    /\ UNCHANGED allocated

\* delete_block_table: free_block for every entry of the table.
DeleteBlockTable(r) ==
    /\ phase[r] = "active"
    /\ \E s \in SetToSeqs(LastRefs(r)) : InOrderOf(held[r], s) /\ Unreference(r, s)
    /\ allocated' = allocated \ LastRefs(r)

\* free_blocks, in the eviction order the caller chooses, and detach_request.
FreeBlocks(r) ==
    /\ phase[r] = "active"
    /\ \E s \in SetToSeqs(LastRefs(r)) : Unreference(r, s)
    /\ allocated' = allocated \ LastRefs(r)

\* Mutant of FreeBlock: the table keeps the block it gave back.
FreeKept(r) ==
    LET b == Last(held[r])
    IN  /\ phase[r] = "active"
        /\ held[r] # <<>>
        /\ refCount' = [refCount EXCEPT ![b] = @ - 1]
        /\ UNCHANGED <<allocated, freeQueue, blockHash, data, hashMap, stats,
                       disk, writing, phase, prompt, held>>

\* free_block (decrement_ref) of the last block of a table that is cut back.
FreeBlock(r) ==
    LET b == Last(held[r])
    IN  /\ phase[r] = "active"
        /\ held[r] # <<>>
        /\ refCount' = [refCount EXCEPT ![b] = @ - 1]
        /\ IF refCount[b] = 1
           THEN /\ allocated' = allocated \ {b}
                /\ freeQueue' = Append(freeQueue, b)
                /\ Count(-1, 1)
           ELSE UNCHANGED <<allocated, freeQueue, stats>>
        /\ held' = [held EXCEPT ![r] = SubSeq(@, 1, Len(@) - 1)]
        /\ UNCHANGED <<blockHash, data, hashMap, disk, writing, phase, prompt>>

-----------------------------------------------------------------------------
(* Eviction, reset, and the background writer of the disk store.           *)

\* Mutant of EvictLRUBlocks: the most recently freed blocks go.
EvictMRUBlocks(n) ==
    LET E == Evicted(ToSet(freeQueue) \ Foremost(Len(freeQueue) - n))
    IN  /\ n <= Len(freeQueue)
        /\ Persist(E)
        /\ hashMap' = MapWithout(E)
        /\ blockHash' = [b \in Block |-> IF b \in E THEN NoHash ELSE blockHash[b]]
        /\ data' = [b \in Block |-> IF b \in E THEN NoHash ELSE data[b]]
        /\ UNCHANGED <<refCount, allocated, freeQueue, stats, disk, phase, prompt, held>>

\* evict_lru_blocks: the first n free blocks lose their content and go to
\* the back of the queue.
EvictLRUBlocks(n) ==
    LET E == Evicted(Foremost(n))
    IN  /\ n <= Len(freeQueue)
        /\ freeQueue' = Behind(n) \o SubSeq(freeQueue, 1, n)
        /\ Persist(E)
        /\ hashMap' = MapWithout(E)
        /\ blockHash' = [b \in Block |-> IF b \in E THEN NoHash ELSE blockHash[b]]
        /\ data' = [b \in Block |-> IF b \in E THEN NoHash ELSE data[b]]
        /\ UNCHANGED <<refCount, allocated, stats, disk, phase, prompt, held>>

\* handle_memory_pressure: too few free blocks, so it evicts as many as are
\* missing, or all there are.
HandleMemoryPressure(requested) ==
    LET needed == requested - Len(freeQueue)
    IN  /\ needed > 0
        /\ EvictLRUBlocks(IF needed <= Len(freeQueue) THEN needed ELSE Len(freeQueue))

\* reset_prefix_cache succeeds only when every block is free.
ResetPrefixCache ==
    /\ Len(freeQueue) = Cardinality(Block)
    /\ hashMap' = [h \in Hash |-> {}]
    /\ blockHash' = [b \in Block |-> NoHash]
    /\ data' = [b \in Block |-> NoHash]
    /\ UNCHANGED <<refCount, allocated, freeQueue, stats, disk, writing, phase, prompt, held>>

DiskWritten(h) ==
    /\ h \in writing
    /\ writing' = writing \ {h}
    /\ disk' = disk \cup {h}
    /\ UNCHANGED <<pool, phase, prompt, held>>

-----------------------------------------------------------------------------
Lookup(r) ==
    \/ \E p \in Prompt : StartLookup(r, p)
    \/ ProbeHit(r)
    \/ ProbeMiss(r)
    \/ LookupDone(r)
    \/ DiskRead(r)
    \/ RecheckHit(r)
    \/ Promote(r)
    \/ PromoteFails(r)

Work(r) ==
    \/ \E n \in 1..MaxTable : GetNewBlocks(r, n)
    \/ CacheFullBlocks(r)
    \/ \E s \in Request : ForkBlockTable(r, s)
    \/ GetBlocksForGeneration(r)
    \/ Decode(r)

GiveBack(r) ==
    \/ ReleaseRequestRefs(r)
    \/ DeleteBlockTable(r)
    \/ FreeBlocks(r)
    \/ FreeBlock(r)

Pressure ==
    \/ \E n \in 1..Cardinality(Block) : EvictLRUBlocks(n)
    \/ \E n \in 1..Cardinality(Block) : HandleMemoryPressure(n)
    \/ ResetPrefixCache
    \/ \E h \in Hash : DiskWritten(h)

Next ==
    \/ \E r \in Request : Lookup(r) \/ Work(r) \/ GiveBack(r)
    \/ Pressure

Spec == Init /\ [][Next]_vars

-----------------------------------------------------------------------------
(* Properties.                                                             *)

Holders(b) == {r \in Request : b \in Held(r)}

\* The count a block carries is the number of requests whose table (or list
\* of hits) names it: no reference is leaked, none is given back twice.
RefCountExact ==
    /\ \A b \in Block : refCount[b] = Cardinality(Holders(b))
    /\ \A r \in Request : IsInjective(held[r])

\* The free queue lists each unreferenced block once and no other block, so
\* allocate_block never hands out a block a request reads, and no block is
\* lost to the pool.
FreeQueueExact ==
    /\ IsInjective(freeQueue)
    /\ \A b \in Block : b \in ToSet(freeQueue) <=> refCount[b] = 0
    /\ \A b \in Block : refCount[b] > 0 => b \in allocated

\* What the hash map finds under a hash is a block that still has this hash
\* and holds the KV data of this prefix: a hit is never stale.
HashMapSound ==
    \A h \in Hash : \A b \in hashMap[h] : blockHash[b] = h /\ data[b] = h

\* The two counters of CacheStats follow the queue through every path that
\* frees, touches, promotes or copies blocks.
StatsExact ==
    /\ stats.free = Len(freeQueue)
    /\ stats.allocated + stats.free = Cardinality(Block) + 1

\* No block loses its cached content while one that was freed earlier, and
\* that nobody touched since, keeps its own.
EvictsColdestFirst ==
    [][\A i, j \in DOMAIN freeQueue :
          LET Lost(b) == blockHash[b] # NoHash /\ blockHash'[b] # blockHash[b]
              Kept(b) == blockHash[b] # NoHash /\ blockHash'[b] = blockHash[b]
          IN  i < j /\ Lost(freeQueue[j]) => ~ Kept(freeQueue[i])]_vars

\* A block leaves the free queue from its front, or because a lookup hit it:
\* then it still holds what it was cached for.
HitSavesBlock ==
    [][\A i \in DOMAIN freeQueue :
          LET b == freeQueue[i]
          IN  /\ b \notin ToSet(freeQueue')
              /\ \E j \in 1..(i - 1) : freeQueue[j] \in ToSet(freeQueue')
              => data'[b] = data[b] /\ blockHash'[b] = blockHash[b] /\ refCount'[b] = 1]_vars

\* What a request reads through its table.
View == [r \in Request |-> [i \in DOMAIN held[r] |-> data[held[r][i]]]]

Memory == INSTANCE RequestMemory WITH view <- View

\* Sharing, copy-on-write, eviction and reuse of blocks are invisible to a
\* request: what its table shows changes by its own calls only.
MemorySpec == Memory!Spec
=============================================================================
