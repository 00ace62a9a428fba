----------------------------- MODULE PrefixCache -----------------------------
(***************************************************************************)
(* BlockAwarePrefixCache, rfsn_v11/cache/prefix_cache.py, on top of the    *)
(* parts of PagedCacheManager it calls: the KV blocks of token sequences   *)
(* are stored under chain hashes and found again by other requests.        *)
(*                                                                         *)
(* The class has no lock and is used by one thread, so each public method  *)
(* is one action.  Tokens, block boundaries and chain hashes are modelled  *)
(* as such; the KV data of a block is the token sequence that it was       *)
(* computed for, whatever hash it is stored under.  cache_data holds       *)
(* tensors of the text that is stored: those of what store_cache takes as  *)
(* its new tokens, or of all.  No disk store is configured, and a request  *)
(* identifier is reused only after a release.  calls says which of these   *)
(* ways to use the cache the callers have.                                 *)
(***************************************************************************)
EXTENDS BlockList, Selection

CONSTANTS
    Request,
    Token,
    Text,         \* the token sequences requests work on
    BlockSize,    \* tokens per block
    CacheType,    \* _CACHE_TYPE_PRIORITY, lowest priority first
    NoHash,       \* block_hash is None
    NoTable,      \* no BlockTable is registered
    MaxCount,     \* bound: no call when num_free_blocks is further from 0
    Usage         \* ways to use the cache, each a set of Options

\* What callers may do besides fetching, storing and giving up what they have
\* fetched: "grow" stores more tokens for a table that ends in a partial
\* block, "full" passes the KV state of all tokens as cache_data instead of
\* that of the new ones, "reject": the model has DSV4 or ZAYA layers.
Options == {"trim", "fork", "release", "grow", "full", "reject"}

ASSUME PrefixCacheAssumption ==
    /\ IsFiniteSet(Request)
    /\ Text \subseteq Seq(Token)
    /\ BlockSize \in Nat \ {0}
    /\ NoTable \notin [ids : Seq(Block), tokens : Nat]
    /\ Usage \subseteq SUBSET Options

VARIABLES
    pool,         \* [list: free_block_queue, ref: ref_count, allocated: keys of allocated_blocks]
    block,        \* block_hash, token_count and cache_data of each block
    hashMap,      \* cached_block_hash_to_block: the blocks under a hash, oldest first
    partialSizes, \* _partial_block_sizes
    tables,       \* request_tables: block_ids and num_tokens
    entries,      \* keys of _request_tables; an entry's table is tables[r]
    buckets,      \* _entries_by_type
    index,        \* _prefix_index: token sequence to block ids
    text,         \* the tokens of the fetch or store that r's table comes from
    claimed,      \* how many of them the caller takes as cached in its table
    calls         \* the options that the callers use

caches == <<block, hashMap, partialSizes, index>>
vars == <<pool, block, hashMap, partialSizes, tables, entries, buckets, index, text, claimed, calls>>

Cut(n, m) == IF n <= m THEN n ELSE m
NoData == [upto |-> <<>>, size |-> 0]
Fresh == [hash |-> NoHash, count |-> 0, data |-> NoData]
Types == ToSet(CacheType)

Init ==
    /\ \E s \in SetToSeqs(Block) :
          pool = [list |-> ListOf(s), ref |-> [b \in Block |-> 0], allocated |-> {}]
    /\ block = [b \in Block |-> Fresh]
    /\ hashMap = <<>>
    /\ partialSizes = {}
    /\ tables = [r \in Request |-> NoTable]
    /\ entries = {}
    /\ buckets = [t \in Types |-> <<>>]
    /\ index = <<>>
    /\ text = [r \in Request |-> <<>>]
    /\ claimed = [r \in Request |-> 0]
    /\ calls \in Usage

-----------------------------------------------------------------------------
(* PagedCacheManager: references.                                          *)

\* Mutant: touch counts the reference and leaves the block in the queue.
TouchedInQueue(p, b) == [p EXCEPT !.ref[b] = @ + 1, !.allocated = @ \cup {b}]

\* touch: a block that is in use, or whose pointers say that it is in no
\* list (remove raises), is not taken out of the free queue.
Touched(p, b) ==
    LET free == p.ref[b] = 0 /\ Removable(p.list, b)
    IN  [list |-> IF free THEN Removed(p.list, b) ELSE p.list,
         ref |-> [p.ref EXCEPT ![b] = @ + 1],
         allocated |-> IF free THEN p.allocated \cup {b} ELSE p.allocated]

\* increment_ref of a block in allocated_blocks
Referenced(p, b) ==
    IF b \notin p.allocated THEN p
    ELSE [p EXCEPT !.list = IF p.ref[b] = 0 /\ Removable(@, b) THEN Removed(@, b) ELSE @,
                   !.ref[b] = @ + 1]

\* release_request_refs, one entry: the block stays allocated and cached.
Released(p, b) ==
    IF b \notin p.allocated \/ p.ref[b] <= 0 THEN p
    ELSE [p EXCEPT !.list = IF p.ref[b] = 1 /\ ~ Linked(@, b) THEN Appended1(@, b) ELSE @,
                   !.ref[b] = @ - 1]

\* free_block
Freed(p, b) ==
    IF b \notin p.allocated THEN p
    ELSE IF p.ref[b] > 1 THEN [p EXCEPT !.ref[b] = @ - 1]
    ELSE [list |-> Appended1(p.list, b),
          ref |-> [p.ref EXCEPT ![b] = @ - 1],
          allocated |-> p.allocated \ {b}]

Applied(op, p, b) ==
    CASE op = "touch" -> Touched(p, b)
      [] op = "reference" -> Referenced(p, b)
      [] op = "release" -> Released(p, b)
      [] op = "free" -> Freed(p, b)

\* One of these for each block of a table, in order.
Each(op, p, ids) ==
    LET after[n \in 0..Len(ids)] == IF n = 0 THEN p ELSE Applied(op, after[n - 1], ids[n])
    IN  after[Len(ids)]

-----------------------------------------------------------------------------
(* Chain hashes and lookups.                                               *)

Chunk(t, i) == SubSeq(t, (i - 1) * BlockSize + 1, Cut(i * BlockSize, Len(t)))

\* compute_block_hash along the first n blocks of t: SHA-256 of a chain is
\* the chain.
Chain(t, n) == [i \in 1..n |-> Chunk(t, i)]

Under(h) == IF h \in DOMAIN hashMap THEN hashMap[h] ELSE <<>>

\* BlockHashToBlockMap
Inserted(m, h, b) ==
    [g \in DOMAIN m \cup {h} |->
        IF g # h THEN m[g] ELSE IF h \in DOMAIN m THEN Append(m[h], b) ELSE <<b>>]

\* Mutant: a reused block stays under its former hash.
NotPopped(m, h, b) == m

Popped(m, h, b) ==
    LET left == IF h \in DOMAIN m THEN Among(m[h], Block \ {b}) ELSE <<>>
    IN  [g \in {f \in DOMAIN m : f # h \/ left # <<>>} |-> IF g = h THEN left ELSE m[g]]

\* get_computed_blocks: the blocks of the longest cached chain of t and, when
\* only a trailing partial block is missing, the longest cached part of it.
Hits(t) ==
    LET full == Len(t) \div BlockSize
        n == CHOOSE k \in 0..full :
                /\ \A j \in 1..k : Under(Chain(t, j)) # <<>>
                /\ k = full \/ Under(Chain(t, k + 1)) = <<>>
        rest == SubSeq(t, n * BlockSize + 1, Len(t))
        Part(k) == Append(Chain(t, n), SubSeq(rest, 1, k))
        sizes == IF rest # <<>> /\ Len(rest) < BlockSize
                 THEN {k \in partialSizes \cup {Len(rest)} : k <= Len(rest) /\ Under(Part(k)) # <<>>}
                 ELSE {}
        hits == [j \in 1..n |-> Head(Under(Chain(t, j)))]
    IN  IF sizes = {} THEN hits
        ELSE Append(hits, Head(Under(Part(CHOOSE k \in sizes : \A j \in sizes : j <= k))))

\* num_cached_tokens, and num_tokens of a table of these blocks
TokensIn(ids) ==
    LET sum[n \in 0..Len(ids)] == IF n = 0 THEN 0 ELSE sum[n - 1] + block[ids[n]].count
    IN  sum[Len(ids)]

\* _find_best_prefix_match; <<>> stands for None.
BestMatch(t) ==
    LET matches == {s \in DOMAIN index : s # <<>> /\ IsPrefix(s, t)}
    IN  IF matches = {} THEN <<>> ELSE CHOOSE s \in matches : \A u \in matches : Len(u) <= Len(s)

-----------------------------------------------------------------------------
(* fetch_cache.                                                            *)

\* Mutant: the chain that is not used keeps its references.
LookedUpTwice(t) ==
    LET long == Hits(t)
        short == IF Len(t) > 1 THEN Hits(Front(t)) ELSE <<>>
    IN  [pool |-> Each("touch", Each("touch", pool, long), short),
         ids |-> IF TokensIn(short) > TokensIn(long) THEN short ELSE long]

\* Both lookups, of t and of t without its last token, touch what they find;
\* the chain with fewer tokens is given back.
LookedUp(t) ==
    LET long == Hits(t)
        short == IF Len(t) > 1 THEN Hits(Front(t)) ELSE <<>>
        touched == Each("touch", Each("touch", pool, long), short)
    IN  IF TokensIn(short) > TokensIn(long)
        THEN [pool |-> Each("release", touched, long), ids |-> short]
        ELSE [pool |-> Each("release", touched, short), ids |-> long]

\* A chain hit, else the blocks of the best match that are still allocated,
\* else a miss.  A chain is given back when the best match is longer.  A hit
\* whose blocks lack the terminal state of a layer is rejected: a miss, too.
FetchCache(r, t) ==
    LET hit == LookedUp(t)
        best == BestMatch(t)
        found == hit.ids # <<>> /\ Len(best) <= TokensIn(hit.ids)
        back == Each("release", hit.pool, hit.ids)
        ids == Among(index[best], back.allocated)
    IN  /\ tables[r] = NoTable
        /\ \/ /\ found
              /\ pool' = hit.pool
              /\ tables' = [tables EXCEPT ![r] = [ids |-> hit.ids, tokens |-> TokensIn(hit.ids)]]
              /\ claimed' = [claimed EXCEPT ![r] = TokensIn(hit.ids)]
              /\ text' = [text EXCEPT ![r] = t]
           \/ /\ ~ found
              /\ best # <<>>
              /\ pool' = Each("reference", back, ids)
              /\ tables' = [tables EXCEPT ![r] = [ids |-> ids, tokens |-> TokensIn(ids)]]
              /\ claimed' = [claimed EXCEPT ![r] = IF ids = <<>> THEN 0 ELSE Len(best)]
              /\ text' = [text EXCEPT ![r] = t]
           \/ /\ "reject" \in calls \/ (~ found /\ best = <<>>)
              /\ pool' = back
              /\ UNCHANGED <<tables, claimed, text>>
        /\ UNCHANGED <<caches, entries, buckets>>

-----------------------------------------------------------------------------
(* store_cache.                                                            *)

\* Mutant: full blocks are noted as partial ones.
WithAnySize(sizes, n) == sizes \cup {n}

WithSize(sizes, n) == IF n < BlockSize THEN sizes \cup {n} ELSE sizes

\* _numpy_block_slice of a cache_data that begins after n tokens of t: from
\* start to end, counted from there.  It is not told where cache_data begins.
\* cache_data reaches to the end of t, so that no slice is cut or skipped.
Sliced(t, n, start, end) == [upto |-> SubSeq(t, 1, n + end), size |-> end - start]

\* One block of the new tokens: allocate_block, its content, its chain hash.
\* The loop ends when the pool is empty; popleft raises ValueError when the
\* list is empty although the count is not.
StoreBlock(w, t) ==
    IF w.end # "no" THEN w
    ELSE IF w.pool.list.num = 0 THEN [w EXCEPT !.end = "full"]
    ELSE IF FirstFree(w.pool.list) \notin Block THEN [w EXCEPT !.end = "raised"]
    ELSE LET b == FirstFree(w.pool.list)
             stop == Cut(w.table.tokens + BlockSize, Len(t))
             own == SubSeq(t, w.table.tokens + 1, stop)
             hash == Append(w.parent, own)
         IN  [w EXCEPT
                !.pool = [list |-> PoppedLeft(@.list),
                          ref |-> [@.ref EXCEPT ![b] = 1],
                          allocated |-> @.allocated \cup {b}],
                !.block[b] = [hash |-> hash, count |-> Len(own),
                              data |-> Sliced(t, w.begin, w.table.tokens - w.existing, stop - w.existing)],
                !.map = Inserted(Popped(@, w.block[b].hash, b), hash, b),
                !.partial = WithSize(@, Len(own)),
                !.parent = hash,
                !.table = [ids |-> Append(@.ids, b), tokens |-> stop]]

\* The loop over the blocks of the new tokens; begin: where cache_data begins.
Stored(t, table, begin) ==
    LET blocks == (Len(t) - table.tokens + BlockSize - 1) \div BlockSize
        after[k \in 0..blocks] ==
          IF k = 0
          THEN [pool |-> pool, block |-> block, map |-> hashMap, partial |-> partialSizes,
                parent |-> Chain(t, table.tokens \div BlockSize), table |-> table, end |-> "no",
                existing |-> table.tokens, begin |-> begin]
          ELSE StoreBlock(after[k - 1], t)
    IN  after[blocks]

StoreCache(r, t, type) ==
    LET table == IF tables[r] = NoTable THEN [ids |-> <<>>, tokens |-> 0] ELSE tables[r]
        w == Stored(t, table, IF "full" \in calls THEN 0 ELSE table.tokens)
    IN  /\ IsPrefix(SubSeq(text[r], 1, claimed[r]), t)
        /\ "grow" \in calls \/ table.tokens % BlockSize = 0
        /\ Len(t) > table.tokens
        /\ pool' = w.pool
        /\ block' = w.block
        /\ hashMap' = w.map
        /\ partialSizes' = w.partial
        /\ tables' = [tables EXCEPT ![r] = w.table]
        /\ text' = [text EXCEPT ![r] = t]
        /\ claimed' = [claimed EXCEPT ![r] = w.table.tokens]
        /\ IF w.end = "raised"
           THEN UNCHANGED <<index, entries, buckets>>
           ELSE /\ index' = IF w.table.ids = <<>> THEN index
                            ELSE [s \in DOMAIN index \cup {SubSeq(t, 1, w.table.tokens)} |->
                                    IF s = SubSeq(t, 1, w.table.tokens) THEN w.table.ids ELSE index[s]]
                /\ entries' = entries \cup {r}
                /\ buckets' = [buckets EXCEPT ![type] = IF r \in ToSet(@) THEN @ ELSE Append(@, r)]

-----------------------------------------------------------------------------
(* Releasing, trimming and forking.                                        *)

Forget(r) ==
    /\ tables' = [tables EXCEPT ![r] = NoTable]
    /\ text' = [text EXCEPT ![r] = <<>>]
    /\ claimed' = [claimed EXCEPT ![r] = 0]
    /\ UNCHANGED caches

\* release_cache of a request that fetched and did not store: there is no
\* entry, and delete_block_table frees the blocks of the table.
ReleaseFetched(r) ==
    /\ r \notin entries
    /\ tables[r] # NoTable
    /\ pool' = Each("free", pool, tables[r].ids)
    /\ Forget(r)
    /\ UNCHANGED <<entries, buckets>>

\* release_cache of an entry: release_request_refs, then delete_block_table
\* frees the blocks of the same table.
ReleaseStored(r) ==
    /\ r \in entries
    /\ pool' = Each("free", Each("release", pool, tables[r].ids), tables[r].ids)
    /\ entries' = entries \ {r}
    /\ buckets' = [t \in Types |-> Among(buckets[t], Request \ {r})]
    /\ Forget(r)

\* release_low_priority(1): the oldest entry of the lowest bucket.
ReleaseLowPriority ==
    \E i \in DOMAIN CacheType :
        /\ \A j \in 1..(i - 1) : buckets[CacheType[j]] = <<>>
        /\ buckets[CacheType[i]] # <<>>
        /\ ReleaseStored(Head(buckets[CacheType[i]]))

TrimBlockTable(r, target) ==
    LET kept == Cut(target \div BlockSize, Len(tables[r].ids))
    IN  /\ tables[r] # NoTable
        /\ kept > 0
        /\ kept < Len(tables[r].ids)
        /\ pool' = Each("free", pool, SubSeq(tables[r].ids, kept + 1, Len(tables[r].ids)))
        /\ tables' = [tables EXCEPT ![r] = [ids |-> SubSeq(@.ids, 1, kept), tokens |-> kept * BlockSize]]
        /\ claimed' = [claimed EXCEPT ![r] = kept * BlockSize]
        /\ UNCHANGED <<caches, entries, buckets, text>>

ForkCache(r, s) ==
    /\ r \in entries
    /\ tables[s] = NoTable
    /\ pool' = Each("reference", pool, tables[r].ids)
    /\ tables' = [tables EXCEPT ![s] = tables[r]]
    /\ entries' = entries \cup {s}
    /\ text' = [text EXCEPT ![s] = text[r]]
    /\ claimed' = [claimed EXCEPT ![s] = claimed[r]]
    /\ UNCHANGED <<caches, buckets>>

-----------------------------------------------------------------------------
Call(r) ==
    \/ \E t \in Text : FetchCache(r, t)
    \/ \E t \in Text, type \in Types : StoreCache(r, t, type)
    \/ ReleaseFetched(r)
    \/ "trim" \in calls /\ \E n \in 1..3 : TrimBlockTable(r, n * BlockSize)
    \/ "fork" \in calls /\ \E s \in Request : ForkCache(r, s)
    \/ "release" \in calls /\ ReleaseStored(r)

Next ==
    /\ pool.list.num \in -MaxCount..MaxCount
    /\ \/ \E r \in Request : Call(r)
       \/ "release" \in calls /\ ReleaseLowPriority
    /\ UNCHANGED calls

Spec == Init /\ [][Next]_vars

-----------------------------------------------------------------------------
(* Properties.                                                             *)

\* Counts, sets and tables have their types; only trailing blocks that are not
\* full are noted as partial; only requests with an entry are in a bucket.
TypeOK ==
    /\ pool.list \in Lists
    /\ pool.ref \in [Block -> Int]
    /\ pool.allocated \in SUBSET Block
    /\ partialSizes \in SUBSET (1..(BlockSize - 1))
    /\ \A r \in Request : tables[r] # NoTable => tables[r].ids \in Seq(Block) /\ tables[r].tokens \in Nat
    /\ entries \in SUBSET {r \in Request : tables[r] # NoTable}
    /\ \A t \in Types : ToSet(buckets[t]) \subseteq entries

Ids(r) == IF tables[r] = NoTable THEN <<>> ELSE tables[r].ids

\* How often the tables name b.
Uses(b) == Cardinality(UNION {{<<r, i>> : i \in {j \in DOMAIN Ids(r) : Ids(r)[j] = b}} : r \in Request})

\* Each place in a table is one reference, and the blocks without one are
\* those of the free queue.  release_cache, which "release[s] all block
\* references for a request" (prefix_cache.py:940), should keep this true.
RefsMatchTables ==
    \A b \in Block :
        /\ pool.ref[b] = Uses(b)
        /\ Linked(pool.list, b) <=> pool.ref[b] = 0

\* Lookups that touch two chains and give one back, a fallback that gives the
\* chain back again, rejected hits, stores that stop half-way, forks and trims
\* keep it true.
UnreleasedRefsMatch == "release" \in calls \/ RefsMatchTables

\* No block is kept from reuse by a table that is gone: whatever the releases
\* of prefix_cache.py do wrong, they do not leak references.
NoLeak == \A b \in Block : pool.ref[b] <= Uses(b)

\* allocate_block returns a "CacheBlock if available, None if out of memory"
\* (paged_cache.py:604): as long as no entry is released, the count never
\* promises a block the list has not.
AllocationAnswers == "release" \in calls \/ (pool.list.num > 0 => FirstFree(pool.list) \in Block)

\* What a lookup finds under a chain hash is the KV data of exactly that
\* chain: "each block's hash depends on all previous blocks"
\* (compute_block_hash, paged_cache.py:45), and store_cache cuts the blocks
\* "from full KV state" (prefix_cache.py:967).
ChainsSound ==
    \A h \in DOMAIN hashMap : \A b \in ToSet(hashMap[h]) :
        block[b].hash = h /\ block[b].data.upto = FlattenSeq(h)

\* s without the n tokens that follow its first m
Without(s, m, n) == SubSeq(s, 1, m) \o SubSeq(s, m + n + 1, Len(s))

\* What remains of it when cache_data holds the new tokens only: however often
\* the blocks were given up, reused and grown, the KV data under a chain is
\* that of its tokens, but for one gap of less than a block, after whole
\* blocks, where a table grew from a partial block: the tokens of that block
\* are missing in every hash after it.
ChainsSoundButForGap ==
    \/ "full" \in calls
    \/ \A h \in DOMAIN hashMap : \A b \in ToSet(hashMap[h]) :
          LET upto == block[b].data.upto
          IN  /\ block[b].hash = h
              /\ \E m \in 0..Len(upto), n \in 0..(IF "grow" \in calls THEN BlockSize - 1 ELSE 0) :
                    m % BlockSize = 0 /\ Without(upto, m, n) = FlattenSeq(h)

\* fetch_cache finds "cached prefix blocks for the given tokens"
\* (prefix_cache.py:523): the blocks of a table hold, in order and without a
\* gap, the KV data of the tokens that the caller takes as cached.
TableCarriesText ==
    \A r \in Request :
        LET ids == Ids(r)
            Upto(i) == IF i = 0 THEN <<>> ELSE block[ids[i]].data.upto
        IN  /\ \A i \in DOMAIN ids :
                  /\ IsPrefix(Upto(i), text[r])
                  /\ Len(Upto(i)) = Len(Upto(i - 1)) + block[ids[i]].data.size
            /\ claimed[r] = Len(Upto(Len(ids)))
=============================================================================
