----------------------------- MODULE PagedArena -----------------------------
(* The arena of packed pages of rfsn_v10/cache/paged_arena.py: pages are   *)
(* written once into a backing store, a table and the host's metadata lead *)
(* from logical to physical pages, and the store grows by slabs into a new *)
(* one.  A view holds the arrays of the store it was taken from, so that    *)
(* a later write into the same store shows in it.                           *)
(*                                                                          *)
(* A page holds the tokens of a block, by their ids; keys and values travel *)
(* together and are one.  The arena of a layer is created at its first      *)
(* block and is modelled from the start: an empty one shows nothing.        *)
EXTENDS Naturals, Sequences

CONSTANTS
    PageTokens,   \* page_tokens, the staging_capacity of the layer
    MaxPages,     \* max_pages
    Slab,         \* _slab_size
    NoGeometry

ASSUME ArenaAssumption ==
    /\ PageTokens \in Nat \ {0}
    /\ MaxPages \in Nat \ {0}
    /\ Slab \in 1..MaxPages

VARIABLES
    stores,       \* the backing stores, the current one last
    numPages,     \* _num_pages
    nextPhysical, \* _next_physical_page
    meta,         \* _logical_metadata: where each logical page is, and its start
    format        \* _format: the geometry of the first block, kept for ever

arenaVars == <<stores, numPages, nextPhysical, meta, format>>

\* _allocate_arrays.  A page that was never written holds nothing.
Fresh(capacity) ==
    [capacity |-> capacity,
     pages |-> [i \in 0..(capacity - 1) |-> <<>>],
     table |-> [i \in 0..(capacity - 1) |-> 0]]

ArenaInit ==
    /\ stores = <<Fresh(Slab)>>
    /\ numPages = 0
    /\ nextPhysical = 0
    /\ meta = <<>>
    /\ format = NoGeometry

Store == stores[Len(stores)]

\* _grow_if_needed: one slab more, what is there is copied.
Wider(c) == IF c + Slab < MaxPages THEN c + Slab ELSE MaxPages

\* A mutant of Grown: the last page is not copied.
GrownShort(s) ==
    [capacity |-> Wider(s.capacity),
     pages |-> [i \in 0..(Wider(s.capacity) - 1) |->
                    IF i + 1 < s.capacity THEN s.pages[i] ELSE <<>>],
     table |-> [i \in 0..(Wider(s.capacity) - 1) |->
                    IF i < s.capacity THEN s.table[i] ELSE 0]]

Grown(s) ==
    [capacity |-> Wider(s.capacity),
     pages |-> [i \in 0..(Wider(s.capacity) - 1) |->
                    IF i < s.capacity THEN s.pages[i] ELSE <<>>],
     table |-> [i \in 0..(Wider(s.capacity) - 1) |->
                    IF i < s.capacity THEN s.table[i] ELSE 0]]

\* A mutant of Written: off by one after the first page.
WrittenOver(s, tokens) ==
    [capacity |-> s.capacity,
     pages |-> [s.pages EXCEPT ![IF nextPhysical = 0 THEN 0 ELSE nextPhysical - 1] = tokens],
     table |-> [s.table EXCEPT ![numPages] = nextPhysical]]

\* What append writes into the arrays of a store.
Written(s, tokens) ==
    [capacity |-> s.capacity,
     pages |-> [s.pages EXCEPT ![nextPhysical] = tokens],
     table |-> [s.table EXCEPT ![numPages] = nextPhysical]]

\* A mutant of Accepts: the limit is not looked at.
AcceptsAlways(start, geometry) ==
    /\ start = numPages * PageTokens
    /\ format \in {NoGeometry, geometry}

\* What append checks before it touches an array: the block continues the
\* pages, has the format of the first one, and there is a page left.
Accepts(start, geometry) ==
    /\ start = numPages * PageTokens
    /\ format \in {NoGeometry, geometry}
    /\ numPages < MaxPages

\* append, once the block was accepted.
ArenaAppend(start, tokens, geometry) ==
    /\ stores' = IF nextPhysical < Store.capacity
                 THEN [stores EXCEPT ![Len(stores)] = Written(Store, tokens)]
                 ELSE Append(stores, Written(Grown(Store), tokens))
    /\ numPages' = numPages + 1
    /\ nextPhysical' = nextPhysical + 1
    /\ meta' = Append(meta, [start |-> start, physical |-> nextPhysical])
    /\ format' = geometry

\* reset hides the pages; the arrays and the format stay.
ArenaReset ==
    /\ numPages' = 0
    /\ nextPhysical' = 0
    /\ meta' = <<>>
    /\ UNCHANGED <<stores, format>>

\* iter_key_blocks and iter_value_blocks go by the metadata of the host.
ArenaBlocks ==
    [p \in 1..Len(meta) |->
        [start |-> meta[p].start, tokens |-> Store.pages[meta[p].physical]]]

\* A kernel goes by the page table of the store its view was taken from.
View == [store |-> Len(stores), num |-> numPages]
Shows(v) ==
    [p \in 1..v.num |-> stores[v.store].pages[stores[v.store].table[p - 1]]]
=============================================================================
