---------------------------- MODULE DecodeRuntime ----------------------------
(* The decode step of rfsn_v10/runtime/engine.py, execute_decode_step, over *)
(* the compressed caches, the memory guard and the sparsity controller, with *)
(* the part of rfsn_v10/attention.py that decides how attention runs.        *)
(*                                                                          *)
(* One thread runs the steps, one at a time.  Between the points at which a  *)
(* step reads the memory in use the rest of the program moves it; between    *)
(* steps the owner of the manager stores, pins and evicts.  A key stands for *)
(* the composite cache key: its length gives its blocks, its profile and     *)
(* what its cache and its attention are estimated to need.                   *)
EXTENDS KVSessions, MemoryGuard, AdaptiveSparsity

CONSTANTS
    Key,
    Configs,      \* the combinations of constructor arguments
    ProfileOf,    \* Key -> Profile
    Blocks,       \* Key -> blocks of its context
    Estimate,     \* Key -> estimate_compressed_bytes_for_shape
    Footprint,    \* Key -> what its attention is estimated to need
    Sizes,        \* bytes an entry may turn out to have: it has a block at least
    Overrides,    \* values of the argument top_k_ratio, when a caller gives one
    NoStep

ASSUME RuntimeAssumption ==
    /\ Configs \subseteq [guarded : BOOLEAN, evicts : BOOLEAN, adaptive : BOOLEAN,
                          audit : BOOLEAN, sparse : BOOLEAN, readBack : BOOLEAN,
                          upcast : BOOLEAN]
    /\ ProfileOf \in [Key -> Profile]
    /\ Blocks \in [Key -> Nat \ {0}]
    /\ Estimate \in [Key -> Nat]
    /\ Footprint \in [Key -> Nat]
    /\ Sizes \subseteq Nat \ {0}
    /\ Overrides \subseteq 1..Full
    /\ NoStep \notin [at : STRING, key : Key, share : Nat, quantised : BOOLEAN, mode : STRING]

VARIABLES
    config,       \* the arguments of RFSNRuntime, and whether the model's dtype is
                  \* one that retrieve returns as float32 (upcast)
    step,         \* the decode step in progress
    recency       \* history: the cached keys, in the order in which they were used

vars == <<sessionVars, guardVars, profiles, config, step, recency>>

Running == step # NoStep

Init ==
    /\ SessionInit
    /\ GuardInit
    /\ SparsityInit
    /\ config \in Configs
    /\ step = NoStep
    /\ recency = <<>>

\* The history of uses: a key is stored or read, or nothing is used and some
\* entries may go.
Uses(k) ==
    recency' = Among(Append(Among(recency, Key \ {k}), k), {j \in Key : Cached(caches', j)})
UsesNothing == recency' = Among(recency, {j \in Key : Cached(caches', j)})

-----------------------------------------------------------------------------
(* The gates                                                                *)

\* The guard's answer about the quantised cache replaces the controller's; its
\* answer about sparse attention is added to the controller's.
QuantGate(k) ==
    IF config.guarded THEN ~Disabled
    ELSE config.adaptive => ~profiles[ProfileOf[k]].quantOff
SparseGate(k) ==
    /\ config.sparse
    /\ config.adaptive => ~profiles[ProfileOf[k]].sparseOff
    /\ config.guarded => ~Disabled

\* The shares of blocks that attention may be asked for: all of them when sparse
\* attention is gated, else what the caller says, or the profile, or the runtime.
Shares(k, sparse) ==
    CASE ~sparse -> {Full}
      [] sparse /\ config.adaptive -> Overrides \cup {profiles[ProfileOf[k]].ratio}
      [] sparse /\ ~config.adaptive -> Overrides \cup {InitialRatio}

Begins(k, at, quantised) ==
    \E share \in Shares(k, SparseGate(k)) :
        step' = [at |-> at, key |-> k, share |-> share, quantised |-> quantised, mode |-> "none"]

\* A hit: attention reads the entry.
BeginHit(k) ==
    /\ ~Running
    /\ QuantGate(k)
    /\ Cached(caches, k)
    /\ Retrieve(k)
    /\ Uses(k)
    /\ Begins(k, "attend", TRUE)
    /\ UNCHANGED <<guardVars, profiles, config>>

BeginMiss(k) ==
    /\ ~Running
    /\ QuantGate(k)
    /\ ~Cached(caches, k)
    /\ Begins(k, IF config.guarded THEN "enforce" ELSE "store", FALSE)
    /\ UNCHANGED <<sessionVars, guardVars, profiles, config, recency>>

BeginUnquantised(k) ==
    /\ ~Running
    /\ ~QuantGate(k)
    /\ Begins(k, "attend", FALSE)
    /\ UNCHANGED <<sessionVars, guardVars, profiles, config, recency>>

-----------------------------------------------------------------------------
(* A miss                                                                   *)

\* A mutant of Enforce: the gates of the step are not looked at again.
EnforceOnly ==
    /\ Running
    /\ step.at = "enforce"
    /\ EnforceSafety(Estimate[step.key])
    /\ IF config.evicts /\ Asks(Estimate[step.key])
       THEN Evict(Target(Estimate[step.key]))
       ELSE UNCHANGED sessionVars
    /\ UsesNothing
    /\ step' = [step EXCEPT !.at = "store"]
    /\ UNCHANGED <<profiles, config>>

\* enforce_safety, with evict_lru as its callback, and the second look at the
\* gates: under pressure the entry is not stored and attention is dense.
Enforce ==
    /\ Running
    /\ step.at = "enforce"
    /\ EnforceSafety(Estimate[step.key])
    /\ IF config.evicts /\ Asks(Estimate[step.key])
       THEN Evict(Target(Estimate[step.key]))
       ELSE UNCHANGED sessionVars
    /\ UsesNothing
    /\ step' = IF Disabled'
               THEN [step EXCEPT !.at = "attend", !.share = Full]
               ELSE [step EXCEPT !.at = "store"]
    /\ UNCHANGED <<profiles, config>>

\* The entry is stored, and read back if the runtime is told to, unless the
\* store evicted it again.
StoreEntry ==
    /\ Running
    /\ step.at = "store"
    /\ \E bytes \in Sizes : Store(step.key, bytes)
    /\ Uses(step.key)
    /\ step' = [step EXCEPT !.at = "attend",
                            !.quantised = config.readBack /\ Cached(caches', step.key)]
    /\ UNCHANGED <<guardVars, profiles, config>>

\* An entry above the whole budget: the MemoryError ends the step.
StoreRaises ==
    /\ Running
    /\ step.at = "store"
    /\ \E bytes \in Sizes : TooLarge(bytes)
    /\ step' = NoStep
    /\ UNCHANGED <<sessionVars, guardVars, profiles, config, recency>>

-----------------------------------------------------------------------------
(* Attention                                                                *)

\* Queries and cached keys of different dtypes are refused before the guard is
\* asked.
Mixed == step.quantised /\ config.upcast

Refused ==
    \/ Mixed
    \/ config.guarded /\ (active + Footprint[step.key] > SoftLimit)

\* How many blocks of a context a share keeps: at least one, rounded up.
KeptBlocks(k, share) ==
    LET n == (Blocks[k] * share + Full - 1) \div Full IN IF n = 0 THEN 1 ELSE n

\* execute's answer for one query; a refusal is caught, and the dense fallback
\* runs without asking the guard.
Mode(k, share) ==
    CASE Refused -> "dense_fallback"
      [] ~Refused /\ share >= Full -> "dense_requested"
      [] ~Refused /\ share < Full /\ KeptBlocks(k, share) >= Blocks[k] -> "dense_short_context"
      [] ~Refused /\ share < Full /\ KeptBlocks(k, share) < Blocks[k] -> "sparse_compacted"

Attend ==
    /\ Running
    /\ step.at = "attend"
    /\ IF config.guarded /\ ~Mixed
       THEN CheckPressure(Footprint[step.key])
       ELSE UNCHANGED guardVars
    /\ step' = [step EXCEPT !.at = "update", !.mode = Mode(step.key, step.share)]
    /\ UNCHANGED <<sessionVars, profiles, config, recency>>

\* What the step reports of its attention.
SparseSuccess == step.mode = "sparse_compacted"
FallbackUsed ==
    \/ step.mode \in {"dense_fallback", "dense_short_context"}
    \/ config.audit /\ ~SparseSuccess

\* The audit compares and the controller is updated; data that was never
\* quantised compares equal.
Finish ==
    /\ Running
    /\ step.at = "update"
    /\ IF config.adaptive /\ config.audit
       THEN \E sparse \in Quality, quant \in IF step.quantised THEN Quality ELSE {"good"} :
                Update(ProfileOf[step.key], SparseSuccess, FallbackUsed, sparse, quant)
       ELSE UNCHANGED profiles
    /\ step' = NoStep
    /\ UNCHANGED <<sessionVars, guardVars, config, recency>>

-----------------------------------------------------------------------------
(* The owner of the manager and of the guard, between steps                 *)

OwnerStores ==
    /\ ~Running
    /\ \E k \in Key, bytes \in Sizes : Store(k, bytes) /\ Uses(k)
    /\ UNCHANGED <<guardVars, profiles, config, step>>

OwnerPins ==
    /\ ~Running
    /\ \E k \in Key : Pin(k)
    /\ UNCHANGED <<guardVars, profiles, config, step, recency>>

OwnerEvicts ==
    /\ ~Running
    /\ \E target \in Sizes \cup {0} : Evict(target)
    /\ UsesNothing
    /\ UNCHANGED <<guardVars, profiles, config, step>>

OwnerExitsEmergency ==
    /\ ~Running
    /\ ExitEmergency
    /\ UNCHANGED <<sessionVars, profiles, config, step, recency>>

Owner == OwnerStores \/ OwnerPins \/ OwnerEvicts \/ OwnerExitsEmergency

Environment == MemoryMoves /\ UNCHANGED <<sessionVars, profiles, config, step, recency>>

Begin == \E k \in Key : BeginHit(k) \/ BeginMiss(k) \/ BeginUnquantised(k)
Continue == Enforce \/ StoreEntry \/ StoreRaises \/ Attend \/ Finish

Next == Begin \/ Continue \/ Owner \/ Environment

Spec == Init /\ [][Next]_vars

\* A step that began runs to its end; nobody has to begin one.
FairSpec == Spec /\ WF_vars(Continue)

-----------------------------------------------------------------------------
(* Properties                                                               *)

\* The ratios a profile may have.  Nothing relates the one it starts with and the
\* one it is lowered to at most.
Ratios == {r \in 1..Full : r >= InitialRatio \/ r >= MinRatio}

\* The variables have the types the code gives them; keys have one entry.
TypeOK ==
    /\ \A e \in ToSet(caches) : e.key \in Key /\ e.bytes \in Sizes /\ e.pinned \in BOOLEAN
    /\ \A i, j \in DOMAIN caches : i # j => caches[i].key # caches[j].key
    /\ active \in Memory /\ pressure \in BOOLEAN /\ emergency \in BOOLEAN
    /\ \A p \in Profile : /\ profiles[p].ratio \in Ratios
                          /\ profiles[p].clean \in 0..(Stabilization - 1)
    /\ config \in Configs
    /\ Running => /\ step.at \in {"enforce", "store", "attend", "update"}
                  /\ step.key \in Key
                  /\ step.share \in 1..Full

\* The running totals are those of the entries, and both budgets hold, across
\* replacement, pinning, eviction by callback and eviction by the store itself:
\* "All caches pinned" (kv_manager.py:1013) is never raised.
BytesExact ==
    /\ total = Bytes(caches)
    /\ pinnedBytes = Bytes(Pinned(caches))
    /\ total <= MaxBytes
    /\ pinnedBytes <= MaxPinned

\* Evictions, by the store, the guard or the owner, go by use: an entry that
\* leaves was used before each unpinned entry that stays.  A pinned entry leaves
\* only with its pin: a store under its key replaced it, and then took the new
\* entry for want of another one.
Evicted(k) == Cached(caches, k) /\ ~Cached(caches', k)
IsPinned(k) == Cached(Pinned(caches), k)
ColdestGo ==
    [][\A i \in DOMAIN recency :
        Evicted(recency[i]) =>
            /\ IsPinned(recency[i]) => pinnedBytes' < pinnedBytes
            /\ \A j \in 1..(i - 1) :
                \/ IsPinned(recency[j])
                \/ Evicted(recency[j])
                \/ recency[j] = Last(recency')]_vars

\* Sparse attention never runs in emergency mode or under pressure, nor against
\* the controller, although memory moves while the step is on its way and the
\* guard clears its flag at each check that passes.
SparseOnlyWhenAllowed ==
    Running /\ step.mode = "sparse_compacted" =>
        /\ config.sparse
        /\ config.guarded => ~Disabled
        /\ config.adaptive => ~profiles[ProfileOf[step.key]].sparseOff

\* A profile for which sparse attention was turned off keeps it off: the steps
\* that would show that it works again are dense.
SparseStaysOff ==
    [][\A p \in Profile : profiles[p].sparseOff => profiles'[p].sparseOff]_vars

Calm == \A k \in Key : active + Footprint[k] <= SoftLimit

\* Pressure does not outlive its cause: when memory stays low and steps go on,
\* the flag is cleared, although it keeps every step away from enforce_safety.
PressureEnds == <>[]Calm /\ []<>Running => []<>~pressure
=============================================================================
