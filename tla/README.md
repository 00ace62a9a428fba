# MLX-RFSN Fusion: specifications

TLA+ models of the parts of MLX-RFSN that keep shared or lasting state: the
pool of KV blocks and the prefix cache on top of it, the server that runs
generations, the telemetry writer and its client, the cache of an attention
layer over its page arena, the decode step with its gates, and the disk cache
with its write-ahead log. Each module names the file it models;
`PROJECT.json` maps each definition to the lines it stands for.

    tlc -workers 2 -config MCPagedCache.cfg MCPagedCache     # check a model
    tlapm PagedCacheProofs.tla                               # check its proofs

Proofs are in `PagedCacheProofs`, `PrefixCacheProofs` (with the free list),
`CompletionServerProofs`, `AsyncWriterProofs`, `LayerCacheProofs`,
`DecodeRuntimeProofs` and `DiskPersistenceProofs`; what several of them need about
sequences is in `PoolLemmas`.

## 1. Inventory

The repository is a Python runtime for language models with compressed KV
caches. Most of it is tensor code: quantisers, codecs, Metal kernels,
benchmark and promotion scripts. The following parts have control state.

| Component | State | Operations | Talks to | Hard behaviour | What makes it correct |
|---|---|---|---|---|---|
| `PagedCacheManager` (rfsn_v11/cache/paged_cache.py) | blocks with reference count and chain hash, free queue, hash-to-block map, block tables, statistics, disk store | lookup, allocate, cache, fork, copy-on-write, release, free, evict, reset | prefix cache calls it; it calls the disk store outside its lock | lookups that give the lock up around disk reads; cached blocks that are free and in use again; four release paths | counts equal holders; the free queue holds exactly the unreferenced blocks; a hit is never stale; a request's memory is its own |
| `FreeKVCacheBlockQueue` (same file) | doubly linked list through the blocks, two sentinels, a count | pop, pop n, remove, append, append n | the manager | pointers left behind | behaves as a sequence |
| `BlockAwarePrefixCache` (rfsn_v11/cache/prefix_cache.py) | entries, buckets by priority, prefix index | fetch, store, release, release by priority, trim, fork | the manager | two lookups per fetch of which one is given back; entries that outlive their blocks; tables that end in a partial block | one reference per table slot; chain hash determines content; a table carries the text it is for |
| Completion server (rfsn_v10/server/app.py) | semaphore, one thread and one queue per stream, stop events | admit, collect, stream, time out, client leaves | threads hand tokens to the event loop | check before await; cancellation at each await; deadlines; threads that cannot be stopped | permits are conserved; tokens in order, once; every call ends |
| `AsyncWriter` (rfsn_v10/async_writer.py) | current batch, bounded queue, worker thread, timer, stop event, counters | write, timed flush, worker, retry, stop | ClickHouse client | back-pressure, shutdown racing the worker's poll | order is kept; no event is counted twice or vanishes without a cause in the code; `stop` ends |
| `ClickHouseClient` (rfsn_v10/clickhouse_client.py) | pending queue, flush file | write, drain, flush at a signal or exit, replay, close | HTTP server, disk | a drain that fails for one table, a handler between two steps of the worker, close before exit | an event that the server did not take waits somewhere |
| `IncrementalLayerCache` (rfsn_v10/cache/incremental_layer_cache.py) | dense window, staging, encoded blocks | append, flush, view, reset, destroy | the arena | boundaries between window, staging and blocks; a flush refused half-way | every token once, at its position |
| Paged arena (rfsn_v10/cache/paged_arena.py) | backing arrays, page table, metadata, format | append, grow, view, iterate, reset | the layer cache; kernels hold views | views of arrays that were replaced or are written further | a sealed page never changes |
| `KVManager` (rfsn_v10/kv_manager.py) | entries by key, order of use, byte totals, pins | store, retrieve, pin, evict | decode runtime, its owner | replacement under a pin, eviction past pinned entries | totals are exact, budgets hold, the entry used longest ago goes |
| Memory guard (rfsn_v10/memory_guard.py) | pressure flag, emergency flags | check, enforce, leave emergency | decode runtime, `KVManager.evict_lru` | the flag keeps steps away from the one place that evicts | pressure ends with its cause |
| Sparsity controller (rfsn_v10/adaptive_sparsity.py) | ratio, clean count and two switches per profile | decide, update | decode runtime | a fallback turns off what later steps would have to prove | what is off stays off until it is proven good |
| Decode runtime (rfsn_v10/runtime/engine.py, rfsn_v10/attention.py) | one step at a time | gates, hit or miss, enforce, store, attend, audit, update | the three above | gates are read before the guard evicts and changes its mind | sparse attention runs only when guard and controller allow it |
| Disk cache (rfsn_v10/disk_persistence.py) | data files, metadata files, log | persist, load, recover, evict, quota | file system | a crash between any two operations on files | what is loaded is what the checksum stands for; the log names what a crash cut off |
| Page allocator (rfsn_v11/cache/paged_allocator.py) | pages with counts | allocate, free | no other file | - | not modelled |
| Memory manager (rfsn_v10/memory_manager.py) | allocations, quotas | allocate, release, evict | multi_model.py only, which calls a `set_tenant_quota` it does not have | `evict` calls `release`, which takes the lock `evict` holds | not modelled |
| Adaptive precision controller (rfsn_v10/runtime/adaptive_controller.py) | window of margins, bit widths | observe, lower, raise | engine | hysteresis | not modelled |
| Agent workflow (agent_core/) | tasks, patches with backups | create, run, cancel, save, load; apply, roll back | git, file system | a save that is not atomic | not modelled |
| Disk block store (rfsn_v11/cache/tq_disk_store.py) | none of its own | tensors to file metadata and back | the block pool, through an interface | - | pure conversion |
| Server of v11, generation engines, kernels, candidates, benchmarks, `external/` | see section 6 | | | | not modelled |

`PROJECT.json` lists under `hazards` what is hard to test here, each at its
line, with the properties that cover it.

## 2. Modules

    RequestMemory  <--implemented by--  PagedCache  <--  MCPagedCache
                                            ^  PagedCacheProofs
    BlockFIFO  <--implemented by--  FreeBlockQueue  <--  MCFreeBlockQueue, PrefixCacheProofs
                                            |
                                        BlockList
                                            |
                                       PrefixCache  <--  MCPrefixCache, PrefixCacheProofs
    CompletionServer  <--  MCCompletionServer, CompletionServerProofs

    LossyChannel  <--implemented by--  AsyncWriter  <--  MCAsyncWriter, AsyncWriterProofs
                                            |
                                     ClickHouseClient
    PagedArena  <--  LayerCache  <--  MCLayerCache, LayerCacheProofs

    KVSessions, MemoryGuard, AdaptiveSparsity  <--  DecodeRuntime
                             DecodeRuntime  <--  MCDecodeRuntime, DecodeRuntimeProofs
    DiskPersistence  <--  MCDiskPersistence, DiskPersistenceProofs

    Selection  <--  PrefixCache, KVSessions
    PoolLemmas  <--  all of the proof modules but one (layer cache)

**PagedCache.** The manager. Every public method holds the manager's lock and
is one action. `get_computed_blocks` is the exception: it gives the lock up
around each disk read, and is a small state machine (`phase`: probe, disk,
promote) that other requests run between. The actions:

| Code | Action |
|---|---|
| `get_computed_blocks`, hit, miss, end | `StartLookup`, `ProbeHit`, `ProbeMiss`, `LookupDone` |
| the read without the lock, the second look | `DiskRead`, `RecheckHit` |
| `_promote_from_disk` | `Promote`, `PromoteFails` |
| `get_new_blocks`, `allocate_block` | `GetNewBlocks` |
| `cache_full_blocks` | `CacheFullBlocks` |
| `fork_block_table` | `ForkBlockTable` |
| `get_blocks_for_generation`, `_cow_copy_block` | `GetBlocksForGeneration` |
| a request writes its last block | `Decode` |
| `release_request_refs` + `detach_request` | `ReleaseRequestRefs` |
| `delete_block_table`, `free_blocks`, `free_block` | `DeleteBlockTable`, `FreeBlocks`, `FreeBlock` |
| `evict_lru_blocks`, `handle_memory_pressure`, `reset_prefix_cache` | same names |
| the disk store's background write | `DiskWritten` (external) |

The callers are well behaved: they give each reference back once and write
blocks they hold alone. `PrefixCache` is what the repository's one real caller
does instead.

**RequestMemory** is what the manager promises a request: a sequence of block
contents that changes by its own calls only. `PagedCache` implements it under
`view[r][i] = data[held[r][i]]`.

**BlockList** has the linked list's operations as functions on a record of
pointers, as the code performs them, including what they do to a list whose
count is wrong. **FreeBlockQueue** runs them under the callers' discipline
(append only what is outside) and implements **BlockFIFO**, a plain sequence.

**PrefixCache** is `BlockAwarePrefixCache` over a pool that uses `BlockList`
directly. Tokens, block boundaries and chains are modelled as such; SHA-256 of
a chain is the chain. The data of a block is the part of the text that its slice
of `cache_data` was computed for, wherever the slice lies (`Sliced`): `store_cache` counts
slices from the end of the table, and is not told where `cache_data` begins. The
callers hand over the tensors of the text they store, either from there on (what its code calls
the new tokens) or, with `"full"`, from the first token on. The variable `calls` is chosen
in `Init` among the sets of `Usage`: releases of stored requests, trims, forks, stores that
grow a table from a partial block, and models whose layers reject a hit that lacks their
terminal state (DSV4, ZAYA) are there or not, because some properties fail once a certain one is used
(section 5). A request that fetched stores a text that begins with what it
took as cached. After a fallback that found fewer blocks than the index promises, the table
is shorter than that, and a store goes on from the table.

**CompletionServer** is `chat_completions` and `_sse_stream`. The code between
two awaits is one action of the event loop; a thread's steps interleave. A
client may leave at any await: before the stream starts, while it waits for
the permit, while it waits for a token, while a chunk is sent. The semaphore is
`asyncio.Semaphore` of CPython 3.11, the version the repository's CI runs: it
counts as locked while anyone waits, `release` hands the permit to the first
waiter that has none (`WakeNext`), and a waiter that runs while a permit is
still free wakes one more (`Resume`). A waiter that was handed a permit and did
not run yet is in `granted`. A stream's queue, and what it sent, are kept only while
the stream is open: nobody looks at either afterwards.

**AsyncWriter** is the writer with everything that runs beside it: callers,
timer and `stop` exclude each other by the lock (`holder`); the worker does not
take it, and steps between any two of theirs. Putting a batch into the queue is
not one action: `put_nowait` fails, the policy takes the oldest entry out, its
events are counted (a read and a write, between which the worker may count too),
and the batch is put again, by when the sentinel of `stop` may be in its place.
`stop` is its five parts, with a deadline that may pass at any moment.
**ClickHouseClient** has the part of the client that keeps events: the INSERT
and its attempts, the pending queue, its drain table by table, the file that a
signal, the exit or an earlier process wrote. A failed request may have done
its work. **LossyChannel** is what batches and queue promise together: events
may be lost, never reordered, repeated or invented.

**LayerCache** is one layer's cache. `append` up to its flush is one action,
each block of the flush is one, because the arena may refuse a block after it
took others. A token is its number, so that a token that is lost, repeated or
moved shows. The cache works with an arena or with a list of blocks, with a
window or without; the arguments are chosen in `Init`. **PagedArena** keeps every
backing store that growth left behind, since views go on reading it, and writes
into the current one in place, which shows in the views that share it.

**DecodeRuntime** is `execute_decode_step` with the part of `attention.py` that
decides how attention runs. A step is at `enforce`, `store`, `attend` or
`update`; at each the memory in use may have moved, and between steps the owner of
the manager stores, pins, evicts and ends the emergency. **KVSessions** keeps the
entries in the order of `last_used`; **MemoryGuard** and **AdaptiveSparsity** are the
guard's flags and the controller's profiles. The combination of constructor
arguments is a state variable that never changes.

**DiskPersistence** goes file operation by file operation: the log line, opening
a file (which empties it), writing it, unlinking it, truncating the log. The
process may end, or the operation fail, before each of them; the files stay as
they are. A version number stands for content, checksum and timestamp.

Definitions that a comment calls a mutant are variants of the one below them, as
a plausible bug would make it. `PROJECT.json` says which property each of them
violates.

## 3. Runs

| Run | Question | Bounds | Result |
|---|---|---|---|
| `pool` | counts, queue, map, statistics, eviction order, hits, private memory, with the lock given up around disk reads | 2 callers, 3 blocks, 1 prompt of 2 blocks, tables to 3, a disk store | holds, 323 thousand states |
| `free_queue` | the list is a sequence | 5 blocks, every order of operations | holds, 326 states |
| `prefix` | references match tables; releases leak nothing; the count never promises a block the list lacks; the data under a chain is that of its tokens, but for the gap of a table that grew | 2 requests, 3 blocks of 2 tokens, 2 texts, 2 priorities; trim, fork, grow and reject, or release | holds, 152 thousand states |
| `prefix_full_state` | chains are sound, with full states | 2 requests, 2 blocks | violated |
| `prefix_double_release` | references match tables, with release | 2 requests, 2 blocks | violated |
| `prefix_stale` | tables carry their text, with trim | 3 requests, 2 blocks | violated |
| `server` | permits are conserved; streams are in order; every call ends | 3 calls, 1 permit, 2 tokens | holds, 199 thousand states |
| `server_finish` | one finish reason per stream | 2 calls, 1 permit, 1 token | violated |
| `telemetry` | order is kept, nothing is counted twice or vanishes, `stop` ends | 3 events of 2 tasks, batches of 2, queue of 1, 1 retry, 2 attempts, 3 faults, 1 signal, drop oldest | holds, 478 thousand states |
| `layer_cache` | every token once and at its place; sealed pages and views never change; refusals have a cause | 10 tokens, up to 4 at a time, windows 0 and 1, pages of 2, 3 pages in slabs of 2, 2 resets, 2 geometries | holds, 27 thousand states |
| `decode` | totals and budgets, eviction by use, sparse attention only when allowed and never back, pressure ends | 3 keys, budget 3, limits 3 and 4, memory 0, 2 or 3, 4 configurations | holds, 219 thousand states |
| `disk` | what is loaded is sound, the log names what was cut off, the quota takes the oldest | 3 entries, 4 versions, 3 faults, log of 2 lines, quota over 2 down to 1 | holds, 2.5 million states |

Why the bounds are enough.

* `pool`: the callers ask the same prompt and continue it alone, so that blocks
  are shared, private, cached and displaced; with three blocks for two tables of
  up to three the pool runs empty, and eviction, failed copies and reuse
  happen. One caller reads from disk while the other promotes, evicts or frees.
* `free_queue`: in a list of five a removal can hit both ends and the middle, next
  to a sentinel and away from one.
* `prefix*`: one text of `prefix` continues the other from the middle of a block, so that both
  lookups find full and partial blocks, and a table that grows leaves its gap; two tables
  of two blocks need more than the three there are, so that blocks are reused and stores stop
  half-way. Releases get the count away from the list by three at most. The texts of the
  violation runs fill their blocks: no gap is needed to violate their properties.
* `server`: with three calls for one permit two queue: one is handed the permit, may
  leave before it runs, and hands it on to the other. That permits are free while a
  waiter that was granted one has not run takes four calls for two permits, which was
  checked apart (8.3 million states: `TypeOK`, `PermitsExact` and
  `StreamInOrder` hold) and is proved for any number.
* `telemetry`: a batch of two and a task change give both kinds of flush; a queue
  of one is full after one batch; the second event of three cannot be sent, so that
  retries and drops happen; two faults make both attempts fail and leave events in
  the pending queue, and the third fails their drain; one signal saves them while the
  worker goes on.
* `layer_cache`: pages of two tokens, up to four at a time: none, one or two blocks per
  flush, with and without a remainder; three pages in slabs of two: the store grows
  once, to less than a slab more, and is exhausted; two geometries for
  the refusal after a reset.
* `decode`: two bytes and two bytes do not fit in three; four bytes never do.
  Memory of 0, 2 or 3 with an estimate of 1 or 2 is below the soft limit (3),
  between the limits, and above the hard one (4). The four configurations have
  the guard with and without its callback, the controller with and without the
  guard, and both ways of reading back.
* `disk`: three entries and a quota that goes from over two to one: one entry stays, two go.
  Three faults tear a line, cut the next operation off, and cut off its repetition. A log of
  two lines rotates.

The bounds that the code does not have are in the guards: `MaxTable` (blocks per
request), `MaxCount` (in `PrefixCache` the free count drifts by one with each
double release; no call is made beyond it), `Load`, `MaxFaults`,
`MaxSignals`, `MaxAppend`, `MaxTokens` and `MaxResets` of `LayerCache`,
`MaxVersion`. `MaxTokens` of the server, `MaxPages` and the limits of guard and
manager are parameters of the code. Symmetry is used for callers and blocks,
which are interchangeable, and never in a run with liveness.

`CHECK_DEADLOCK FALSE` is set for the server (every call is answered and
nothing is left to do), for the telemetry (the process ended), for the layer
cache (its tokens and resets are used up), and for the
runs of `PrefixCache` (with releases, the drift bound stops them). In all other runs
a deadlock is an error.

### Fairness

* Server, `EveryCallEnds`: the event loop runs every coroutine that is ready
  (`Acquire`, `Resume`, `Close`), timers fire (`TimesOut`, `CollectTimesOut`),
  and an abandoned asynchronous generator is finalised (`Collected`). Nothing is
  assumed of threads: they may hang, which is the interesting case, and nothing
  of clients except that one which does not read leaves in the end; no
  timeout in the code covers a stalled send.
* Telemetry, `StopEnds`: who holds the lock goes on (`Flush`), the worker's thread is
  scheduled, `stop` goes on and its deadline passes, and a signal handler that began
  ends. Nobody has to write, to call `stop` or to let the timer fire.
* Decode runtime, `PressureEnds`: a step that began goes on. That steps are
  begun again and again, and that memory stays low, are the premise of the
  property, not fairness.

## 4. Proofs

For every value of the constants that the named assumptions allow:

| Module | Theorem | States |
|---|---|---|
| `PagedCacheProofs` | `PoolInvariant` | the inductive invariant `IInv` |
| | `PoolTypes` | `TypeOK` |
| | `PoolCountsReferences` | `RefCountExact` |
| | `PoolFreesExactly` | `FreeQueueExact` |
| | `PoolStatsExact` | `StatsExact` |
| | `PoolHitsAreSound` | `HashMapSound` |
| | `PoolEvictsColdest` | `EvictsColdestFirst` |
| | `PoolHitsSave` | `HitSavesBlock` |
| | `MemoryImplemented` | `MemorySpec`: the pool implements `RequestMemory` |
| `PrefixCacheProofs` | `ListInvariant` | the inductive invariant |
| | `ListTypesOK` | `QueueTypeOK` |
| | `ListWellLinked` | `WellLinked` |
| | `ListImplementsFIFO` | `FIFOSpec`: the linked list implements `BlockFIFO` |
| | `PrefixTypesOK` | `TypeOK` |
| | `PrefixRefsMatch` | `UnreleasedRefsMatch` |
| | `PrefixAllocationAnswers` | `AllocationAnswers` |
| | `PrefixNoLeak` | `NoLeak` |
| | `PrefixChainsSound` | `ChainsSoundButForGap` |
| `CompletionServerProofs` | `ServerInvariant` | the inductive invariant |
| | `ServerTypes` | `TypeOK` |
| | `PermitsConserved` | `PermitsExact` |
| | `StreamsKeepOrder` | `StreamInOrder` |
| `AsyncWriterProofs` | `WriterInvariant` | the inductive invariant |
| | `WriterTypes` | `TypeOK` |
| | `WriterStatsSound` | `StatsNeverOvercount` |
| | `WriterKeepsEvents` | `NothingVanishes` |
| | `WriterImplementsChannel` | `ChannelSpec`: writer and queue implement `LossyChannel` |
| `LayerCacheProofs` | `LayerInvariant` | the inductive invariant |
| | `LayerTypes` | `TypeOK` |
| | `LayerPartition` | `Partition` |
| | `LayerBounded` | staging and window within their parameters |
| | `LayerRefusedForCause` | `RefusedForCause` |
| | `LayerViewsStable` | `ViewsStable` |
| | `LayerHistoryImmutable` | `HistoryImmutable` |
| `DecodeRuntimeProofs` | `DecodeInvariant` | the inductive invariant of the gates |
| | `DecodeSparseAllowed` | `SparseOnlyWhenAllowed` |
| | `DecodeStaysOff` | `SparseStaysOff` |
| | `DecodeSessions` | the inductive invariant of the sessions |
| | `DecodeTypes` | `TypeOK` |
| | `DecodeBytesExact` | `BytesExact` |
| | `DecodeColdestGo` | `ColdestGo` |
| `DiskPersistenceProofs` | `DiskInvariant` | the inductive invariant |
| | `DiskTypes` | `TypeOK` |
| | `DiskLoadsSound` | `LoadsSound` |
| | `DiskRecoverNames` | `RecoverNamesWrites` |
| | `DiskQuotaSound` | `QuotaSound` |

**The pool** (assumption `PagedCacheAssumption`: finite sets, prompts without
repeated hashes). None of the properties is inductive alone. That the free queue
is exact needs exact counts: a release returns a block when the count becomes
zero, and only an exact count says that no one else holds it. Exact counts need the
queue: allocation sets the count of a block to one, which is right only if the
block had no holder. That the map is sound needs both, since content is
overwritten when a block is allocated or written by its only holder, and
also `HeldPrefix` (what a request holds of its prompt is the data of its
prompt), because `CacheFullBlocks` enters held blocks under the prompt's hashes.
`PhaseOK` ties a lookup's position to the number of hits: a request that resumes
after a disk read still misses the block it read. `IInv` is the conjunction;
`NextKeepsIInv` has one lemma per action. The lemmas that do the work are
`HolderChange` (when one request's blocks change, the number of holders of a
block changes by that request at most), `CountsFollow` (which lifts it to
`RefCountExact`), `QueueFacts` (the first n blocks of the queue are unheld)
and `HitIsNew` (a lookup never hits a block it already holds). `PoolLemmas` has
the facts about sequences without repetition.

`MemoryImplemented` has one lemma per action as well: what the step does to the
table of one request is that request's call on its memory, and the others see
nothing (`OthersSeeNothing`), because a step writes only blocks that left the
front of the free queue, which nobody holds (`HeldContentStays`), or a block
whose one reference is the writer's own. Copy-on-write is a stutter: each
replaced block gives way to one with its content (`CopyOnWrite`, `CopyFacts`).

`PoolEvictsColdest` and `PoolHitsSave` are about single steps: blocks lose their hash
from the front of the free queue only, and a block that leaves from further back
leaves with its content, its hash and one reference. Both follow from `IInv`
and from what the removal of a place does to a sequence (`PoolLemmas`).

**The free list** (`BlockListAssumption`: finitely many blocks, and sentinels and
`Nil` that are none of them).
The invariant says that the pointers are those of *some* sequence of blocks:
`next` and `prev` lead from each place to the following one, and a block outside
has neither. There is one lemma per kind of operation: `TakesFirst` (pop), `Unlinks`
(removal anywhere), `LinksBehind` (append), each of which names the sequence that the
new pointers are those of. The model finds that sequence with a recursive function
that walks from the head. `Walk` and `ListedIs` show, by induction on the number
of steps, that the walk returns the sequence of the invariant, so the refinement
mapping of `ListImplementsFIFO` maps each operation to the one of `BlockFIFO`.

**The prefix cache** (`BlockListAssumption`; `PrefixCacheAssumption`: a positive block
size, finitely many requests, texts over some set of tokens, and a mark for no table
that is no table; `Usage` has sets of options). No theorem has a hypothesis: what a property
excludes is part of it and refers to `calls`, which no step changes (`CallsStay`). Each exclusion is
needed: with `"release"`, `prefix_double_release` shows a behaviour that breaks
`RefsMatchTables`, and with `"full"`, `prefix_full_state` shows one that breaks `ChainsSound`.

The two properties without releases rest on `Fits`: the list is that of some sequence, a
block is in it exactly if it has no reference, and its references are the places of
tables that name it. The queue has to be exact for the counts to be, because
`allocate_block` sets the count of the block in front to one, whatever it was. The counts
have to be exact for the queue to be, because a release appends a block when its count
becomes zero. There is one lemma per call. A lookup takes a reference for each block it
finds (`EachTakes`), the second lookup of a fetch does so again, and what is not kept is
given back place by place (`EachGives`).

After a double release the list may hold a block twice or lack a free one, so that little
of this is left. What stays, and what `PrefixNoLeak` rests on, is `Bounded`: references
never exceed places, and a block outside `allocated_blocks` has no reference and keeps
its pointers, so that `touch` puts it among the allocated ones again.

`PrefixChainsSound` rests on `Telling`: a block under a hash has this hash, and its KV data
without one gap is that of the tokens that the hash is the chain of. It does not need exact
counts, because a block gets new content in `allocate_block` and `store_cache` only, where it
leaves the map under its former hash first. The loop of a store starts with the chain of the
table's whole blocks, and slices from the end of the table; what lies between the two is the gap, which
is empty for a table of whole blocks and shorter than a block for any other. Each round keeps the
parent's chain in step with the text (`Spelling`: its chunks, joined, are the text up to the gap
and from the gap to the end of the table) and its slice with the chain, as long as `cache_data`
begins where the slices are counted from (`DataIs`, `TellingRound`): the
one premise that full states break.
What one round of that loop keeps, the loop keeps (`LoopKeeps`).

**The server** (`CompletionServerAssumption`). The invariant is the types, the
shape of the gate and the shape of the streams. `PermitsExact` is inductive with
the first two. `Moves` says what a change of phase of one call does to
the number of calls inside; `PermitTaken`, `PermitReleased`, `Queued` and
`LeftQueue` are the four things that happen to the gate, from facts about
`FirstAsleep`, `WakeNext` and `Without`. The last conjunct of `PermitsExact`, a
waiter sleeps beside a free permit only if another one will run and wake it, is what
`Queued` needs: a call that finds the gate locked either finds no permit
or finds somebody granted. Without it the property would allow a call to queue
behind nobody.

`StreamInOrder` needs where each part of a stream is: what was sent, what waits in the
queue and what the thread has still to generate are consecutive parts of one running sequence
(`StreamShapes`). The thread appends at one end and the coroutine takes at the
other, so a step of either keeps it whatever the other does.

**The telemetry writer** (`WriterAssumption`: the load is a sequence, and the marks for
no batch and for the end are no batches; `ClientAssumption`). The events on their
way, from the worker's hands over the queue, a flush in progress and the open batch to the
one that waits for that flush, are one line. Every step has one of five
effects on it (`Effect`): it leaves the line, appends an accepted event, takes out a run
of events and counts them as dropped or as about to be, hands the front to the
client, or forgets all with the process. The invariant is that what was handed over
followed by the line is in the order of the calls and free of dropped events (`Order`),
that a count in progress is of events that are dropped already (`Counts`), and that a drain
has the whole pending queue in hand (`Drained`). `WriterImplementsChannel` maps
the five effects to the actions of `LossyChannel`. The queue holds batches and the line
events: what joining batches gives is again a recursive function
(`FlattenSeq`), described by induction in `FlattenAppend` and `FlattenTail`.

**Layer cache and arena** (`ArenaAssumption`, `LayerAssumption`). The invariant
says that metadata, page table and pages agree below `numPages` in every store
whose views are in use, that the sealed tokens, the staged ones from the next block
on and the window are the appended ones in order, and where a flush in progress
is. `ViewsStable` needs that the part of a store which a view can see is written
once; `HistoryImmutable` follows from the same facts for the current store.

**Decode runtime** (`RuntimeAssumption` and those of the parts). What was decided
at the beginning of a step is kept as an invariant of its later points: a step that
asks for less than all blocks is one that the controller allows, and one whose
guard did not object when it was last asked. The order of the checks in `Enforce`
and `Attend` is what carries it.

`BytesExact` and `ColdestGo` rest on `Sessions`: one entry a key, totals
that are the sums of the entries' bytes, both budgets, and a history of uses that lists the keys
in the order of the entries. The last one makes eviction by place eviction by use.
`StoreStep`, `RetrieveStep`, `PinStep` and `EvictStep` show that each operation keeps it;
they need that the sizes of entries are positive, as each has a block. That a store ends
within the budget even when nothing unpinned is left (`StoreRounds`) is why "All caches
pinned" is never raised: the pinned entries are some of those that fitted before.
`Bytes` adds up, and `Among` (module `Selection`) selects, by recursion over the entries. What they compute is
proved by induction on the length (`SeqInd`): `BytesSplit` (disjoint selections add up),
`AmongOrder` (a selection keeps the order) and `FirstTaken` (n rounds of
eviction take the first n unpinned entries) are what the operations are composed of.

**Disk cache** (`DiskAssumption`). The invariant relates the place where an
operation is to what is on disk: which file was opened, written or removed so far
(`Progress`), that an entry no write was cut off for is whole (`Whole`), and that only
the last line of the log may be torn (`LogShape`), which is why a line that was
appended is there or has spoilt the torn one before it. `DiskQuotaSound` is about single steps.
It follows from what `Progress` says of the quota: an entry that is on disk and whose age can be told is
still to come or was passed over, and whatever is still to come has an age. The code sorts
the entries by time and goes through the list; the model keeps the set of those to come and
takes the oldest (`Oldest`), which is the same, since nothing else changes their metadata
meanwhile, and spares the proof the theory of a sort.

**Induction over data.** The library's induction theorems have an operator as a
parameter and cannot be used here. Where a model computes by a recursive function
over a sequence or a list, the proofs use the least counterexample instead: a nonempty
set of numbers has a least element (`Least`, in `PoolLemmas`), and the definition is
unfolded at it.

**Only model-checked.** The liveness properties `EveryCallEnds`, `StopEnds` and
`PressureEnds`, since liveness under fairness is out of the prover's reach. Every other
property of a passing run is stated by a theorem above.

## 5. Where code and documentation disagree

Shown by a run:

* **Releasing a stored request gives each reference back twice**
  (prefix_cache.py:948, `prefix_double_release`). `release_request_refs` first, then
  `delete_block_table`, whose `free_block` does it again. A block shared with
  another request loses that request's reference, an unshared one enters the
  free queue twice. A consequence: the count of free blocks exceeds the list,
  and `allocate_block` raises `ValueError` where it should return `None`
  (paged_cache.py:604). Without releases `AllocationAnswers` holds, for any pool and requests (`PrefixAllocationAnswers`).
* **The prefix index serves reused blocks** (prefix_cache.py:640, `prefix_stale`).
  It only asks whether the block ids are allocated, not what they hold now.
* **The slices of a full state are cut from the wrong tokens** (prefix_cache.py:858,
  `prefix_full_state`). The helper that cuts a block's tensors speaks of "per-block cache slices from full
  KV state" (:967), of "Full layer-state dicts" (:970), and of `existing_tokens` "for offset
  calc" (:975); it never uses `existing_tokens`, and `store_cache` counts from the end of
  the table. A request with a cached block of two tokens that stores four and hands over the state of all
  four stores the data of the first two under the chain of the last two, for
  others to find. Callers that hand over the new tokens' tensors only, as line 971 suggests
  ("Start token index within new tokens"), get what the hash says, but for the gap below.
* **A stream can have two finish reasons** (app.py:847, `server_finish`), when the
  deadline passes between the final chunk and the end marker.

Seen while modelling, and in the models, without a run of its own:

* *Prefix cache.* A table that grows from a partial block continues a wrong
  chain: it restarts after the full blocks, and the next hash omits
  the partial block's tokens (prefix_cache.py:739), so that a text without these tokens finds data
  computed with them. `ChainsSoundButForGap` says how far this goes: one gap, at a block
  boundary, of less than a block.
* *Pool.* `get_blocks_for_generation` hands out the shared block when there is
  none to copy to (paged_cache.py:1259); the model's caller does not write into it
  (`Decode` asks for a block held alone), so `MemorySpec` does not show what would follow. What `evict_lru_blocks` evicts was free
  before, so `handle_memory_pressure` cannot make room (paged_cache.py:1330).
* *Server.* The handler looks at the semaphore (app.py:580), the stream
  acquires it later (app.py:732): calls that passed the gate together queue, where a 429 is
  promised. A generation that timed out keeps its thread (app.py:663), so
  more threads than permits may generate.
* *Telemetry.* `stop` promises to flush the remaining events (async_writer.py:235),
  but it sets the stop event before it flushes: a worker whose poll ends in
  between leaves, and the last batch stays in the queue. `DROP_OLDEST_BATCH` may
  drop the sentinel. "Ordered flushing per task_id" (async_writer.py:6) holds up
  to the client; there a batch that failed is sent after later ones
  (clickhouse_client.py:519). The signal handler saves the pending queue and
  then clears it, also of what the worker added meanwhile, and a second save
  replaces the file of the first (clickhouse_client.py:183). `close` takes the client out of
  the exit handler's hands while events still wait (:565). A drain
  that fails for one table sends those of the others again (:544).
* *Layer cache.* After the arena refused a block in the middle of a flush, the
  blocks it took are sealed and still staged; incremental_layer_cache.py:420 calls
  the two "mutually exclusive". After a reset the cache takes tokens of another
  geometry, which the arena then refuses (:622).
* *Manager.* `pin_cache` (kv_manager.py:1624) says that a pinned cache is kept from
  eviction; a store under its key replaces it unpinned, and may evict it at
  once.
* *Decode runtime.* With a guard, the guard's answer about the quantised cache
  replaces the controller's instead of being added to it (engine.py:249). A
  profile whose sparse attention is off stays dense: the branch that re-enables it
  (adaptive_sparsity.py:195) needs clean audits of steps that count as fallbacks,
  because they are dense. With the default initial ratio of 1.0 the first audit turns it
  off. The dense attention that replaces a refused one runs without
  a check (engine.py:390). The controller does not relate its initial ratio to its
lowest one (adaptive_sparsity.py:31): started below, a profile stays below until it is
raised or lowered past it. The second look at the hard limit in `enforce_safety` never
  fires. Above the soft limit, other entries are evicted and the new one is not
  stored anyway. An entry larger than the whole budget raises `MemoryError` out of the
  step. The cache key does not depend on the keys and values: a
  caller that reuses a batch id hits the older entry (engine.py:257).
* *Disk cache.* "WAL entry remains for recovery" (disk_persistence.py:135), until the
  next operation completes and truncates the whole log (:132). After a crash between data and
  metadata, the old checksum loads the new data. Data without metadata loads unverified and is
  never evicted by the quota. A torn line swallows the next one. Torn
  metadata makes `load` raise. `self.lock` (:88) is never taken.

## 6. Not modelled

Left out of the modelled components: `clear()` of both block caches (it replaces
the state by the initial one) and read-only getters; the extraction and
reconstruction of tensors in the prefix cache; the server's read-only routes
and its one-time loading of the model; hash collisions; the client's schema,
queries and other tables' entry points, which write as the modelled one does; encoding,
packing and byte counts of layer cache and arena; what `KVManager` packs into an entry, of
which its bytes remain; the arithmetic and telemetry of a decode step;
`reset()` of the controller, which nothing calls.

Smaller steps inside mapped code that are left out, none of which decides a property:
* *Pool.* At the end of a lookup the code tries each noted partial size of the trailing tokens
  with a disk read of its own (paged_cache.py:953-994). In `PagedCache` a prompt is a sequence of blocks, and
  a trailing partial block is one more hash, which is looked up as the others are; the choice
  among several sizes is in `Hits` of `PrefixCache`, without a disk. `handle_memory_pressure` also assigns
  `stats.free_blocks` (:1331), to the number that it has already by `StatsExact`.
  `_check_memory_guard` (:589-594, called at :623 and :658) may call back for an eviction before blocks are taken.
* *Prefix cache.* What may be in `cache_data` besides tensors (KVCache objects, quantised or composite
  states), layers that are skipped, the disk store and the mode without a copy in memory.
* *Telemetry.* The process ends (`Exit`) only while nobody holds the writer's lock.
* *Decode runtime.* The modes `dense_prefill` (several query tokens) and `dense_ragged_batch` (several sequences), and
  the `ValueError`s that attention.py:88-100 raises for malformed arguments before it asks the guard: the
  model has one query token, one sequence and arguments of the right shape.
* *Disk cache.* The rotation of the log and the line appended after it are one step
  (disk_persistence.py:46-50), so that no crash falls between them.

| Part | Why |
|---|---|
| Page allocator | no other file uses it; its questions are those `PagedCache` answers for the pool that serves |
| Memory manager | its one caller fails on a method that does not exist, and `evict` stops at its first candidate on its own lock: neither needs an interleaving |
| Adaptive precision controller | decisions depend on floating-point margins that a model would have to invent |
| Agent workflow | a tool beside the runtime, whose state is git's working tree |
| Disk block store | pure conversion; the store the pool talks to is an external part of `PagedCache` |
| Server of v11 | the same gate and stream around other routes; a variant of `CompletionServer` would model it |
| Generation engines | a sequential loop over model calls; the server sees the thread of `CompletionServer` |
| Quantisers, codecs, kernels, attention wrappers | floating-point arithmetic without control state, most of the repository's lines |
| Candidates, benchmarks, promotion policy, release scripts | offline evaluation of measured numbers and files |
| `external/` | vendored |
