----------------------------- MODULE KVSessions -----------------------------
(* The compressed KV caches of rfsn_v10/kv_manager.py: one entry per cache  *)
(* key, a budget in bytes, eviction of the entry that was used longest ago, *)
(* and pinned entries that stay.  The bytes of an entry are a number; what  *)
(* is packed into them is left out.  Entries are kept in the order of       *)
(* last_used, so that the one used longest ago comes first.                 *)
EXTENDS Selection, SequencesExt, FiniteSetsExt

CONSTANTS
    MaxBytes,     \* max_memory_gb
    MaxPinned     \* max_pinned_memory_gb

ASSUME BudgetAssumption ==
    /\ MaxBytes \in Nat
    /\ MaxPinned \in Nat

VARIABLES
    caches,       \* active_caches, by last_used
    total,        \* _total_estimated_bytes
    pinnedBytes   \* _pinned_bytes

sessionVars == <<caches, total, pinnedBytes>>

SessionInit ==
    /\ caches = <<>>
    /\ total = 0
    /\ pinnedBytes = 0

-----------------------------------------------------------------------------
(* Lookup and order of use                                                  *)

\* The bytes of some entries, added up.
Bytes(entries) ==
    LET sum[n \in 0..Len(entries)] == IF n = 0 THEN 0 ELSE sum[n - 1] + entries[n].bytes
    IN  sum[Len(entries)]

Unpinned(entries) == Among(entries, {e \in ToSet(entries) : ~e.pinned})
Pinned(entries) == Among(entries, {e \in ToSet(entries) : e.pinned})

Cached(entries, k) == \E e \in ToSet(entries) : e.key = k
Of(entries, k) == Among(entries, {e \in ToSet(entries) : e.key = k})
Others(entries, k) == Among(entries, {e \in ToSet(entries) : e.key # k})

\* A mutant of Touched: a hit leaves last_used as it was.
TouchedNever(entries, k) == entries

\* retrieve and retrieve_blocks set last_used.
Touched(entries, k) == Others(entries, k) \o Of(entries, k)

-----------------------------------------------------------------------------
(* Eviction                                                                 *)

\* What n evictions free, and what they leave: each takes the unpinned entry
\* that was used longest ago.
Freed(entries, n) == Bytes(SubSeq(Unpinned(entries), 1, n))
Left(entries, n) ==
    Among(entries, ToSet(entries) \ ToSet(SubSeq(Unpinned(entries), 1, n)))

\* A loop that evicts until what it did is enough or nothing unpinned is left.
Rounds(entries, enough) == Min(enough \cup {Len(Unpinned(entries))})

\* evict_lru: one entry without a target, else until the target is freed.
EvictRounds(entries, target) ==
    Rounds(entries, {n \in 0..Len(Unpinned(entries)) :
                        IF target = 0 THEN n = 1 ELSE Freed(entries, n) >= target})

\* _enforce_memory_budget, for entries that hold `bytes`.
BudgetRounds(entries, bytes) ==
    Rounds(entries, {n \in 0..Len(Unpinned(entries)) : bytes - Freed(entries, n) <= MaxBytes})

Evict(target) ==
    \E n \in {EvictRounds(caches, target)} :
        /\ caches' = Left(caches, n)
        /\ total' = total - Freed(caches, n)
        /\ UNCHANGED pinnedBytes

-----------------------------------------------------------------------------
(* store, retrieve and pin                                                  *)

TooLarge(bytes) == bytes > MaxBytes

\* The entries with a new one under the key, the last one used.
Stored(k, bytes) ==
    Append(Others(caches, k), [key |-> k, bytes |-> bytes, pinned |-> FALSE])

\* A mutant of Store: the replaced entry's share of the pinned bytes stays.
StoreKeepsPinned(k, bytes) ==
    LET old == Of(caches, k)
        held == total - Bytes(old) + bytes
    IN  /\ ~TooLarge(bytes)
        /\ \E entries \in {Stored(k, bytes)} : \E n \in {BudgetRounds(entries, held)} :
            /\ caches' = Left(entries, n)
            /\ total' = held - Freed(entries, n)
        /\ UNCHANGED pinnedBytes

\* store: the entry replaces one under the same key, with its pin, and is the
\* last one used; then the budget is enforced, which may take the new entry
\* when the others are pinned.
Store(k, bytes) ==
    LET old == Of(caches, k)
        held == total - Bytes(old) + bytes
    IN  /\ ~TooLarge(bytes)
        /\ \E entries \in {Stored(k, bytes)} : \E n \in {BudgetRounds(entries, held)} :
            /\ caches' = Left(entries, n)
            /\ total' = held - Freed(entries, n)
        /\ pinnedBytes' = pinnedBytes - Bytes(Pinned(old))

Retrieve(k) ==
    /\ caches' = Touched(caches, k)
    /\ UNCHANGED <<total, pinnedBytes>>

\* pin_cache of an entry that is not pinned yet, within the pinned budget.
Pin(k) ==
    /\ Cached(Unpinned(caches), k)
    /\ LET bytes == Bytes(Of(caches, k))
       IN  /\ pinnedBytes + bytes <= MaxPinned
           /\ pinnedBytes' = pinnedBytes + bytes
    /\ caches' = [i \in DOMAIN caches |->
                    IF caches[i].key = k THEN [caches[i] EXCEPT !.pinned = TRUE] ELSE caches[i]]
    /\ UNCHANGED total
=============================================================================
