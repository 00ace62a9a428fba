----------------------------- MODULE LayerCache -----------------------------
(* The cache of one attention layer, rfsn_v10/cache/                        *)
(* incremental_layer_cache.py: new tokens enter a dense window (or, without *)
(* one, staging), what falls out of the window is staged, and full blocks   *)
(* of staged tokens are encoded, once, into the arena or a list of blocks.  *)
(*                                                                          *)
(* One thread owns the cache.  append is one call: while it flushes nothing *)
(* else happens; its loop is one step per block because a block may be      *)
(* refused after others were taken.  A token is its number since the cache  *)
(* was created.                                                             *)
EXTENDS PagedArena

CONSTANTS
    Geometry,     \* the (B, Hkv, D) of the tokens
    Windows,      \* the values of dense_residual_window
    MaxAppend,    \* bound: tokens of one append
    MaxTokens,    \* bound: tokens ever appended
    MaxResets,    \* bound: resets
    NoFlush

ASSUME LayerAssumption ==
    /\ NoGeometry \notin Geometry
    /\ Windows \subseteq Nat
    /\ MaxTokens \in Nat
    /\ MaxAppend \in Nat
    /\ MaxResets \in Nat
    /\ NoFlush \notin Nat

VARIABLES
    paged, window,  \* the arguments use_paged_arena and dense_residual_window
    geometry,       \* _geometry
    dense,          \* _dense_keys, _dense_values
    stage,          \* _stage_keys, _stage_values
    encoded,        \* _encoded_tokens
    blocks,         \* _key_blocks, _value_blocks: used without an arena
    flushing,       \* the next block of the _flush_staging in progress
    destroyed,      \* _destroyed
    fresh,          \* history: tokens ever appended
    appended,       \* history: the tokens appended since the last reset
    epoch,          \* history: how often the cache was reset
    failed,         \* history: an append has raised in its flush since then
    views           \* history: the views taken, with what they showed

config == <<paged, window>>
cacheVars == <<geometry, dense, stage, encoded, blocks, flushing, destroyed,
               fresh, appended, epoch, failed, views>>
vars == <<arenaVars, config, cacheVars>>

Init ==
    /\ ArenaInit
    /\ paged \in BOOLEAN
    /\ window \in Windows
    /\ geometry = NoGeometry
    /\ dense = <<>>
    /\ stage = <<>>
    /\ encoded = 0
    /\ blocks = <<>>
    /\ flushing = NoFlush
    /\ destroyed = FALSE
    /\ fresh = 0
    /\ appended = <<>>
    /\ epoch = 0
    /\ failed = FALSE
    /\ views = {}

-----------------------------------------------------------------------------
(* append                                                                   *)

Usable == ~destroyed /\ flushing = NoFlush

\* _update_dense_residual: the window keeps the newest tokens, the others are
\* evicted.  Without a window every token is.
Evicted(new) ==
    LET all == dense \o new
    IN  IF Len(all) > window THEN SubSeq(all, 1, Len(all) - window) ELSE <<>>
Windowed(new) ==
    LET all == dense \o new
    IN  IF Len(all) > window THEN SubSeq(all, Len(all) - window + 1, Len(all)) ELSE all

NewTokens(n) == [i \in 1..n |-> fresh + i]

\* A mutant of AppendTokens: the evicted tokens stay in the window too.
AppendTwice(g, n) ==
    /\ Usable
    /\ fresh + n <= MaxTokens
    /\ geometry \in {NoGeometry, g}
    /\ geometry' = g
    /\ fresh' = fresh + n
    /\ appended' = appended \o NewTokens(n)
    /\ dense' = IF window > 0 THEN dense \o NewTokens(n) ELSE <<>>
    /\ stage' = stage \o Evicted(NewTokens(n))
    /\ flushing' = IF Evicted(NewTokens(n)) # <<>> /\ Len(stage') >= PageTokens
                   THEN 0 ELSE NoFlush
    /\ UNCHANGED <<arenaVars, config, encoded, blocks, destroyed, epoch, failed, views>>

\* append, up to the flush.  Tokens of another geometry are refused before
\* anything is changed.
AppendTokens(g, n) ==
    /\ Usable
    /\ fresh + n <= MaxTokens
    /\ geometry \in {NoGeometry, g}
    /\ geometry' = g
    /\ fresh' = fresh + n
    /\ appended' = appended \o NewTokens(n)
    /\ dense' = Windowed(NewTokens(n))
    /\ stage' = stage \o Evicted(NewTokens(n))
    /\ flushing' = IF Evicted(NewTokens(n)) # <<>> /\ Len(stage') >= PageTokens
                   THEN 0 ELSE NoFlush
    /\ UNCHANGED <<arenaVars, config, encoded, blocks, destroyed, epoch, failed, views>>

-----------------------------------------------------------------------------
(* _flush_staging                                                           *)

\* The next block: where its slice of the staged tokens begins and ends.
From == flushing * PageTokens
To == (flushing + 1) * PageTokens
More == flushing # NoFlush /\ To <= Len(stage)
BlockTokens == SubSeq(stage, From + 1, To)
BlockStart == encoded + From

FlushToArena ==
    /\ paged
    /\ More
    /\ Accepts(BlockStart, geometry)
    /\ ArenaAppend(BlockStart, BlockTokens, geometry)
    /\ flushing' = flushing + 1
    /\ UNCHANGED <<config, geometry, dense, stage, encoded, blocks, destroyed,
                   fresh, appended, epoch, failed, views>>

FlushToList ==
    /\ ~paged
    /\ More
    /\ blocks' = Append(blocks, [start |-> BlockStart, tokens |-> BlockTokens])
    /\ flushing' = flushing + 1
    /\ UNCHANGED <<arenaVars, config, geometry, dense, stage, encoded, destroyed,
                   fresh, appended, epoch, failed, views>>

\* The arena raises, and with it append: the blocks it took stay where they
\* are, and staging and the count of encoded tokens are as before.
FlushRaises ==
    /\ paged
    /\ More
    /\ ~Accepts(BlockStart, geometry)
    /\ failed' = TRUE
    /\ flushing' = NoFlush
    /\ UNCHANGED <<arenaVars, config, geometry, dense, stage, encoded, blocks, destroyed,
                   fresh, appended, epoch, views>>

\* A mutant of FlushEnds: the count misses the staged tokens.
FlushUncounted ==
    /\ flushing # NoFlush
    /\ ~More
    /\ stage' = SubSeq(stage, From + 1, Len(stage))
    /\ flushing' = NoFlush
    /\ UNCHANGED <<arenaVars, config, geometry, dense, encoded, blocks, destroyed,
                   fresh, appended, epoch, failed, views>>

\* Every full block was taken; the remainder stays staged.
FlushEnds ==
    /\ flushing # NoFlush
    /\ ~More
    /\ encoded' = encoded + From
    /\ stage' = SubSeq(stage, From + 1, Len(stage))
    /\ flushing' = NoFlush
    /\ UNCHANGED <<arenaVars, config, geometry, dense, blocks, destroyed,
                   fresh, appended, epoch, failed, views>>

-----------------------------------------------------------------------------
(* Views and lifecycle                                                      *)

\* get_paged_kv_view
TakeView ==
    /\ Usable
    /\ paged
    /\ numPages > 0
    /\ views' = views \cup {[view |-> View, epoch |-> epoch, showed |-> Shows(View)]}
    /\ UNCHANGED <<arenaVars, config, geometry, dense, stage, encoded, blocks, flushing,
                   destroyed, fresh, appended, epoch, failed>>

\* Reset, up to the reset of the arena, and destroy.
Cleared ==
    /\ flushing = NoFlush
    /\ epoch < MaxResets
    /\ ArenaReset
    /\ geometry' = NoGeometry
    /\ dense' = <<>>
    /\ stage' = <<>>
    /\ encoded' = 0
    /\ blocks' = <<>>
    /\ appended' = <<>>
    /\ epoch' = epoch + 1
    /\ failed' = FALSE
    /\ UNCHANGED <<config, flushing, fresh, views>>

\* reset asks nothing, not even whether the cache was destroyed.
Reset == Cleared /\ UNCHANGED destroyed
Destroy == Cleared /\ destroyed' = TRUE

Next ==
    \/ \E g \in Geometry, n \in 1..MaxAppend : AppendTokens(g, n)
    \/ FlushToArena
    \/ FlushToList
    \/ FlushRaises
    \/ FlushEnds
    \/ TakeView
    \/ Reset
    \/ Destroy

Spec == Init /\ [][Next]_vars

-----------------------------------------------------------------------------
(* Properties                                                               *)

\* The sealed blocks, in the order in which attention reads them.
Sealed == IF paged THEN ArenaBlocks ELSE blocks

Token == 1..fresh

\* The variables have the types the code gives them.
TypeOK ==
    /\ paged \in BOOLEAN
    /\ window \in Windows
    /\ geometry \in Geometry \cup {NoGeometry}
    /\ format \in Geometry \cup {NoGeometry}
    /\ fresh \in Nat
    /\ dense \in Seq(Token) /\ stage \in Seq(Token) /\ appended \in Seq(Token)
    /\ encoded \in Nat
    /\ numPages \in 0..MaxPages /\ nextPhysical \in 0..MaxPages
    /\ Len(meta) = numPages
    /\ flushing \in Nat \cup {NoFlush}
    /\ destroyed \in BOOLEAN /\ failed \in BOOLEAN
    /\ epoch \in Nat

Quiet == flushing = NoFlush /\ ~failed

\* incremental_layer_cache.py:415 ("encoded + staged + dense residual", which
\* are "mutually exclusive"): between calls the sealed blocks, the staged and
\* the dense tokens are the tokens appended since the reset, each in one place
\* and at its position, as long as no flush was refused.
Partition ==
    Quiet =>
        /\ encoded = Len(Sealed) * PageTokens
        /\ Len(appended) = encoded + Len(stage) + Len(dense)
        /\ \A p \in 1..Len(Sealed) :
            /\ Sealed[p].start = (p - 1) * PageTokens
            /\ Len(Sealed[p].tokens) = PageTokens
            /\ \A i \in 1..PageTokens : Sealed[p].tokens[i] = appended[Sealed[p].start + i]
        /\ \A i \in 1..Len(stage) : stage[i] = appended[encoded + i]
        /\ \A i \in 1..Len(dense) : dense[i] = appended[encoded + Len(stage) + i]

\* Staging and window are bounded by their parameters between calls.
Bounded == Quiet => Len(stage) < PageTokens /\ Len(dense) <= window

\* paged_arena.py:9 ("historical pages are never moved, copied, or
\* reconstructed"): until a reset no step changes a block that was sealed,
\* also when a flush is refused or the store grows.
HistoryImmutable ==
    [][epoch' = epoch =>
        /\ Len(Sealed) <= Len(Sealed')
        /\ \A p \in 1..Len(Sealed) : Sealed'[p] = Sealed[p]]_vars

\* A view goes on showing what it showed, whatever is appended and however
\* the store grows, until the cache is reset.
ViewsStable ==
    \A v \in views : v.epoch = epoch => Shows(v.view) = v.showed

\* A flush is refused only for want of pages or, after a reset, for a geometry
\* other than the one the arena was created with: the positions never
\* disagree by themselves.
RefusedForCause ==
    failed => paged /\ (numPages = MaxPages \/ format # geometry)
=============================================================================
