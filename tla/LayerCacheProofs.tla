-------------------------- MODULE LayerCacheProofs --------------------------
(* Proofs about LayerCache, for every page size, number of pages, slab,    *)
(* window and history of appends: the tokens stay partitioned, sealed       *)
(* blocks and the views of them never change, and a flush is refused only   *)
(* for a cause the caller can see.                                          *)
EXTENDS LayerCache, SequenceTheorems, TLAPS

-----------------------------------------------------------------------------
(* The inductive invariant                                                  *)

StoreOf(c) ==
    [capacity : {c}, pages : [0..(c - 1) -> Seq(Nat)], table : [0..(c - 1) -> Nat]]
AStore == UNION {StoreOf(c) : c \in 1..MaxPages}

\* Logical and physical pages are numbered alike, and fit.
ArenaShape ==
    /\ stores \in Seq(AStore)
    /\ Len(stores) > 0
    /\ numPages \in Nat
    /\ nextPhysical = numPages
    /\ numPages <= Store.capacity
    /\ meta \in Seq([start : Nat, physical : Nat])
    /\ Len(meta) = numPages
    /\ \A p \in 1..numPages : meta[p] = [start |-> (p - 1) * PageTokens, physical |-> p - 1]
    /\ \A p \in 0..(numPages - 1) : Store.table[p] = p
    /\ format \in Geometry \cup {NoGeometry}

Types ==
    /\ paged \in BOOLEAN
    /\ window \in Windows
    /\ geometry \in Geometry \cup {NoGeometry}
    /\ fresh \in Nat
    /\ dense \in Seq(Token)
    /\ stage \in Seq(Token)
    /\ appended \in Seq(Token)
    /\ encoded \in Nat
    /\ blocks \in Seq([start : Nat, tokens : Seq(Nat)])
    /\ flushing \in Nat \cup {NoFlush}
    /\ destroyed \in BOOLEAN
    /\ failed \in BOOLEAN
    /\ epoch \in Nat

\* What a flush in progress and a flush that was refused imply.
FlushShape ==
    /\ flushing # NoFlush => geometry \in Geometry
    /\ paged => blocks = <<>>
    /\ ~paged => numPages = 0 /\ ~failed
    /\ failed => /\ geometry \in Geometry
                 /\ numPages = MaxPages \/ format \notin {NoGeometry, geometry}

\* The staged tokens that are already sealed.
Done == IF flushing = NoFlush THEN 0 ELSE flushing * PageTokens

\* The number of sealed blocks, and the tokens of each.
SealedCount == IF paged THEN numPages ELSE Len(blocks)
SealedTokens(p) == IF paged THEN Store.pages[p - 1] ELSE blocks[p].tokens

\* Where each token is, also in the middle of a flush.
Placed ==
    ~failed =>
        /\ SealedCount * PageTokens = encoded + Done
        /\ Done <= Len(stage)
        /\ flushing = NoFlush => Len(stage) < PageTokens
        /\ Len(dense) <= window
        /\ Len(appended) = encoded + Len(stage) + Len(dense)
        /\ \A p \in 1..SealedCount :
            /\ Len(SealedTokens(p)) = PageTokens
            /\ \A i \in 1..PageTokens : SealedTokens(p)[i] = appended[(p - 1) * PageTokens + i]
        /\ \A p \in 1..Len(blocks) : blocks[p].start = (p - 1) * PageTokens
        /\ \A i \in 1..Len(stage) : stage[i] = appended[encoded + i]
        /\ \A i \in 1..Len(dense) : dense[i] = appended[encoded + Len(stage) + i]

\* A view of this epoch is of pages that are written.
ViewShape ==
    \A v \in views :
        /\ v.epoch \in Nat
        /\ v.epoch <= epoch
        /\ v.view.store \in 1..Len(stores)
        /\ v.view.num \in Nat
        /\ v.view.num <= stores[v.view.store].capacity
        /\ v.epoch = epoch =>
            /\ v.view.num <= numPages
            /\ \A p \in 0..(v.view.num - 1) : stores[v.view.store].table[p] = p
            /\ v.showed = [p \in 1..v.view.num |-> stores[v.view.store].pages[p - 1]]

IInv == ArenaShape /\ Types /\ FlushShape /\ Placed /\ ViewShape

-----------------------------------------------------------------------------
(* Lemmas about the arena                                                   *)

\* The numbers of the model are numbers.
LEMMA Constants ==
    /\ PageTokens \in Nat /\ PageTokens > 0
    /\ MaxPages \in Nat /\ MaxPages > 0
    /\ Slab \in Nat /\ Slab > 0 /\ Slab <= MaxPages
    /\ NoFlush \notin Nat /\ NoGeometry \notin Geometry /\ Windows \subseteq Nat
BY ArenaAssumption, LayerAssumption DEF ArenaAssumption, LayerAssumption

\* The end of a block is the beginning of the next.
LEMMA NextBlock ==
    ASSUME NEW n \in Nat
    PROVE  /\ n * PageTokens \in Nat
           /\ (n + 1) * PageTokens = n * PageTokens + PageTokens
BY Constants

\* The fields of a store.
LEMMA StoreFields ==
    ASSUME NEW s \in AStore
    PROVE  /\ s.capacity \in 1..MaxPages
           /\ s.pages \in [0..(s.capacity - 1) -> Seq(Nat)]
           /\ s.table \in [0..(s.capacity - 1) -> Nat]
           /\ s = [capacity |-> s.capacity, pages |-> s.pages, table |-> s.table]
<1>1. PICK c \in 1..MaxPages : s \in StoreOf(c)
    BY DEF AStore
<1>. QED BY <1>1 DEF StoreOf

\* A record with the fields of a store is one.
LEMMA StoreMade ==
    ASSUME NEW c \in 1..MaxPages,
           NEW f \in [0..(c - 1) -> Seq(Nat)],
           NEW t \in [0..(c - 1) -> Nat]
    PROVE  [capacity |-> c, pages |-> f, table |-> t] \in AStore
<1>1. [capacity |-> c, pages |-> f, table |-> t] \in StoreOf(c)
    BY DEF StoreOf
<1>. QED BY <1>1 DEF AStore

\* A written page is the only thing append changes in a store (append of
\* paged_arena.py).
LEMMA WrittenStore ==
    ASSUME NEW s \in AStore, NEW tokens \in Seq(Nat),
           numPages \in Nat, nextPhysical = numPages, numPages < s.capacity
    PROVE  /\ Written(s, tokens) \in AStore
           /\ Written(s, tokens).capacity = s.capacity
           /\ Written(s, tokens).pages[numPages] = tokens
           /\ Written(s, tokens).table[numPages] = numPages
           /\ \A p \in 0..(s.capacity - 1) : p # numPages =>
                /\ Written(s, tokens).pages[p] = s.pages[p]
                /\ Written(s, tokens).table[p] = s.table[p]
<1>. DEFINE c == s.capacity
            f == [s.pages EXCEPT ![numPages] = tokens]
            t == [s.table EXCEPT ![numPages] = numPages]
<1>1. /\ c \in 1..MaxPages
      /\ s.pages \in [0..(c - 1) -> Seq(Nat)]
      /\ s.table \in [0..(c - 1) -> Nat]
      /\ s = [capacity |-> c, pages |-> s.pages, table |-> s.table]
    BY StoreFields
<1>2. numPages \in 0..(c - 1)
    BY <1>1, Constants
<1>3. f \in [0..(c - 1) -> Seq(Nat)] /\ t \in [0..(c - 1) -> Nat]
    BY <1>1, <1>2
<1>4. Written(s, tokens) = [capacity |-> c, pages |-> f, table |-> t]
    BY <1>1 DEF Written
<1>5. Written(s, tokens) \in AStore
    BY <1>1, <1>3, <1>4, StoreMade, ZenonT(100)
<1>6. Written(s, tokens).capacity = c /\ Written(s, tokens).pages = f
      /\ Written(s, tokens).table = t
    BY <1>4
<1>. QED BY <1>1, <1>2, <1>5, <1>6

\* A wider store holds what the narrower one held (_grow_if_needed).
LEMMA GrownStore ==
    ASSUME NEW s \in AStore, s.capacity < MaxPages
    PROVE  /\ Grown(s) \in AStore
           /\ s.capacity < Grown(s).capacity
           /\ \A p \in 0..(s.capacity - 1) :
                /\ Grown(s).pages[p] = s.pages[p]
                /\ Grown(s).table[p] = s.table[p]
<1>. DEFINE c == s.capacity
            w == Wider(c)
            f == [i \in 0..(w - 1) |-> IF i < c THEN s.pages[i] ELSE <<>>]
            t == [i \in 0..(w - 1) |-> IF i < c THEN s.table[i] ELSE 0]
<1>1. /\ c \in 1..MaxPages
      /\ s.pages \in [0..(c - 1) -> Seq(Nat)]
      /\ s.table \in [0..(c - 1) -> Nat]
    BY StoreFields
<1>2. w \in 1..MaxPages /\ c < w
    BY <1>1, Constants DEF Wider
<1>. HIDE DEF w
<1>3. f \in [0..(w - 1) -> Seq(Nat)]
  <2>1. ASSUME NEW i \in 0..(w - 1) PROVE (IF i < c THEN s.pages[i] ELSE <<>>) \in Seq(Nat)
    <3>1. CASE i < c
        BY <3>1, <1>1, <1>2
    <3>2. CASE ~(i < c)
        BY <3>2
    <3>. QED BY <3>1, <3>2
  <2>. QED BY <2>1
<1>4. t \in [0..(w - 1) -> Nat]
    BY <1>1, <1>2
<1>5. Grown(s) = [capacity |-> w, pages |-> f, table |-> t]
    BY DEF Grown, w
<1>6. Grown(s) \in AStore
    BY <1>2, <1>3, <1>4, <1>5, StoreMade
<1>7. Grown(s).capacity = w /\ Grown(s).pages = f /\ Grown(s).table = t
    BY <1>5
<1>8. \A p \in 0..(c - 1) : p \in 0..(w - 1) /\ p < c
    BY <1>1, <1>2
<1>. QED BY <1>2, <1>6, <1>7, <1>8

\* A range that grows by one.
LEMMA OneMore ==
    ASSUME NEW n \in Nat, NEW p \in 1..(n + 1)
    PROVE  p \in 1..n \/ p = n + 1
OBVIOUS

\* What a page appended to the arena changes, and what it does not: no page
\* that is written, in any store, and so no view.
LEMMA ArenaStep ==
    ASSUME ArenaShape, NEW start \in Nat, NEW tokens \in Seq(Nat), NEW g \in Geometry,
           start = numPages * PageTokens, numPages < MaxPages,
           ArenaAppend(start, tokens, g)
    PROVE  /\ ArenaShape'
           /\ numPages' = numPages + 1
           /\ Len(stores) <= Len(stores')
           /\ Store'.pages[numPages] = tokens
           /\ \A p \in 0..(numPages - 1) : Store'.pages[p] = Store.pages[p]
           /\ \A k \in 1..Len(stores) :
                /\ stores'[k].capacity = stores[k].capacity
                /\ \A p \in 0..(stores[k].capacity - 1) : p < numPages =>
                    /\ stores'[k].pages[p] = stores[k].pages[p]
                    /\ stores'[k].table[p] = stores[k].table[p]
<1>. DEFINE L == Len(stores)
<1>1. /\ L \in Nat /\ L > 0 /\ Store \in AStore /\ numPages \in Nat
      /\ nextPhysical = numPages /\ numPages <= Store.capacity
      /\ \A k \in 1..L : stores[k] \in AStore
    BY DEF ArenaShape, Store
<1>2. Store.capacity \in 1..MaxPages
    BY <1>1, StoreFields
<1>3. PICK s \in AStore, w \in AStore :
        /\ w = Written(s, tokens)
        /\ numPages < s.capacity
        /\ \A p \in 0..(Store.capacity - 1) :
            p \in 0..(s.capacity - 1) /\ s.pages[p] = Store.pages[p] /\ s.table[p] = Store.table[p]
        /\ \/ stores' = [stores EXCEPT ![L] = w] /\ s = Store
           \/ stores' = Append(stores, w)
  <2>1. CASE nextPhysical < Store.capacity
    <3>1. stores' = [stores EXCEPT ![L] = Written(Store, tokens)]
        BY <2>1 DEF ArenaAppend
    <3>2. Written(Store, tokens) \in AStore
        BY <1>1, <2>1, WrittenStore
    <3>. QED BY <3>1, <3>2, <2>1, <1>1
  <2>2. CASE ~(nextPhysical < Store.capacity)
    <3>1. stores' = Append(stores, Written(Grown(Store), tokens))
        BY <2>2 DEF ArenaAppend
    <3>2. numPages = Store.capacity
        BY <2>2, <1>1, <1>2
    <3>3. /\ Grown(Store) \in AStore
          /\ Store.capacity < Grown(Store).capacity
          /\ \A p \in 0..(Store.capacity - 1) :
                /\ Grown(Store).pages[p] = Store.pages[p]
                /\ Grown(Store).table[p] = Store.table[p]
        BY <1>1, <3>2, GrownStore
    <3>4. Grown(Store).capacity \in 1..MaxPages
        BY <3>3, StoreFields
    <3>5. Written(Grown(Store), tokens) \in AStore
        BY <1>1, <3>2, <3>3, WrittenStore
    <3>6. \A p \in 0..(Store.capacity - 1) : p \in 0..(Grown(Store).capacity - 1)
        BY <1>2, <3>3, <3>4
    <3>. QED BY <3>1, <3>2, <3>3, <3>5, <3>6
  <2>. QED BY <2>1, <2>2
<1>4. /\ w.capacity = s.capacity
      /\ w.pages[numPages] = tokens
      /\ w.table[numPages] = numPages
      /\ \A p \in 0..(s.capacity - 1) : p # numPages =>
            w.pages[p] = s.pages[p] /\ w.table[p] = s.table[p]
    BY <1>1, <1>3, WrittenStore
<1>5. \A p \in 0..(numPages - 1) : p \in 0..(Store.capacity - 1) /\ p # numPages
    BY <1>1, <1>2
<1>6. \A p \in 0..(numPages - 1) : w.pages[p] = Store.pages[p] /\ w.table[p] = Store.table[p]
    BY <1>3, <1>4, <1>5
<1>7. /\ stores' \in Seq(AStore) /\ Store' = w /\ Len(stores') > 0 /\ L <= Len(stores')
      /\ \A k \in 1..L :
            (stores'[k] # stores[k]) => (k = L /\ stores'[k] = w /\ w.capacity = Store.capacity)
  <2>0. stores \in Seq(AStore)
      BY DEF ArenaShape
  <2>1. CASE stores' = [stores EXCEPT ![L] = w] /\ s = Store
    <3>1. /\ stores' \in Seq(AStore) /\ Len(stores') = L /\ stores'[L] = w
          /\ \A k \in 1..L : k # L => stores'[k] = stores[k]
        BY <1>1, <2>0, <2>1
    <3>2. w.capacity = Store.capacity
        BY <1>4, <2>1
    <3>3. Store' = w
        BY <3>1 DEF Store
    <3>. QED BY <1>1, <3>1, <3>2, <3>3
  <2>2. CASE stores' = Append(stores, w)
      BY <1>1, <2>0, <2>2 DEF Store
  <2>. QED BY <1>3, <2>1, <2>2
<1>8. \A k \in 1..L :
        /\ stores'[k].capacity = stores[k].capacity
        /\ \A p \in 0..(stores[k].capacity - 1) : p < numPages =>
            /\ stores'[k].pages[p] = stores[k].pages[p]
            /\ stores'[k].table[p] = stores[k].table[p]
  <2>. SUFFICES ASSUME NEW k \in 1..L
                PROVE  /\ stores'[k].capacity = stores[k].capacity
                       /\ \A p \in 0..(stores[k].capacity - 1) : p < numPages =>
                            /\ stores'[k].pages[p] = stores[k].pages[p]
                            /\ stores'[k].table[p] = stores[k].table[p]
      OBVIOUS
  <2>1. CASE stores'[k] = stores[k]
      BY <2>1
  <2>2. CASE k = L /\ stores'[k] = w /\ w.capacity = Store.capacity
    <3>1. stores[k] = Store
        BY <2>2 DEF Store
    <3>2. \A p \in 0..(Store.capacity - 1) : p < numPages => p \in 0..(numPages - 1)
        BY <1>1
    <3>. QED BY <3>1, <3>2, <2>2, <1>6
  <2>. QED BY <1>7, <2>1, <2>2
<1>9. /\ numPages' = numPages + 1 /\ nextPhysical' = nextPhysical + 1 /\ format' = g
      /\ meta' = Append(meta, [start |-> start, physical |-> nextPhysical])
    BY DEF ArenaAppend
<1>10. /\ meta' \in Seq([start : Nat, physical : Nat])
       /\ Len(meta') = numPages'
       /\ \A p \in 1..numPages : meta'[p] = meta[p]
       /\ meta'[numPages + 1] = [start |-> start, physical |-> nextPhysical]
    BY <1>1, <1>9 DEF ArenaShape
<1>11. \A p \in 1..numPages' : meta'[p] = [start |-> (p - 1) * PageTokens, physical |-> p - 1]
  <2>. SUFFICES ASSUME NEW p \in 1..numPages'
                PROVE  meta'[p] = [start |-> (p - 1) * PageTokens, physical |-> p - 1]
      OBVIOUS
  <2>1. CASE p \in 1..numPages
      BY <2>1, <1>10 DEF ArenaShape
  <2>2. CASE p = numPages + 1
    <3>1. p - 1 = numPages
        BY <1>1, <2>2
    <3>2. meta'[p] = [start |-> numPages * PageTokens, physical |-> numPages]
        BY <2>2, <1>1, <1>10, Zenon
    <3>. QED BY <3>1, <3>2, Zenon
  <2>3. p \in 1..numPages \/ p = numPages + 1
    <3>1. numPages \in Nat /\ p \in 1..(numPages + 1)
        BY <1>1, <1>9, Zenon
    <3>. QED BY <3>1, OneMore
  <2>. QED BY <2>1, <2>2, <2>3, Zenon
<1>12. \A p \in 0..(numPages' - 1) : Store'.table[p] = p
  <2>1. \A p \in 0..(numPages - 1) : w.table[p] = p
      BY <1>6, Zenon DEF ArenaShape
  <2>2. \A p \in 0..(numPages' - 1) : p \in 0..(numPages - 1) \/ p = numPages
      BY <1>1, <1>9
  <2>. QED BY <2>1, <2>2, <1>4, <1>7, Zenon
<1>13. numPages' <= Store'.capacity
  <2>1. s.capacity \in 1..MaxPages
      BY <1>3, StoreFields
  <2>. QED BY <2>1, <1>1, <1>3, <1>4, <1>7, <1>9
<1>14. ArenaShape'
  <2>1. numPages' \in Nat /\ nextPhysical' = numPages'
    <3>1. numPages \in Nat /\ nextPhysical = numPages
        BY DEF ArenaShape
    <3>. QED BY <3>1, <1>9
  <2>2. format' \in Geometry \cup {NoGeometry}
      BY <1>9
  <2>3. Len(meta') = numPages'
      BY <1>10, Zenon
  <2>. QED BY <2>1, <2>2, <2>3, <1>7, <1>10, <1>11, <1>12, <1>13, Zenon DEF ArenaShape
<1>. QED BY <1>4, <1>6, <1>7, <1>8, <1>9, <1>14

-----------------------------------------------------------------------------
(* Lemmas about sequences                                                   *)

\* What a concatenation holds.
LEMMA Joined ==
    ASSUME NEW S, NEW s \in Seq(S), NEW t \in Seq(S)
    PROVE  /\ s \o t \in Seq(S)
           /\ Len(s \o t) = Len(s) + Len(t)
           /\ \A i \in 1..Len(s) : (s \o t)[i] = s[i]
           /\ \A i \in 1..Len(t) : (s \o t)[Len(s) + i] = t[i]
<1>1. /\ s \o t \in Seq(S)
      /\ Len(s \o t) = Len(s) + Len(t)
      /\ \A i \in 1..(Len(s) + Len(t)) :
            (s \o t)[i] = IF i <= Len(s) THEN s[i] ELSE t[i - Len(s)]
    BY ConcatProperties
<1>2. Len(s) \in Nat /\ Len(t) \in Nat
    OBVIOUS
<1>3. \A i \in 1..Len(t) :
        Len(s) + i \in 1..(Len(s) + Len(t)) /\ ~(Len(s) + i <= Len(s)) /\ Len(s) + i - Len(s) = i
    BY <1>2
<1>. QED BY <1>1, <1>2, <1>3

\* What is before and after a cut.
LEMMA Cut ==
    ASSUME NEW S, NEW s \in Seq(S), NEW m \in Nat, m <= Len(s)
    PROVE  /\ SubSeq(s, 1, m) \in Seq(S)
           /\ Len(SubSeq(s, 1, m)) = m
           /\ \A i \in 1..m : SubSeq(s, 1, m)[i] = s[i]
           /\ SubSeq(s, m + 1, Len(s)) \in Seq(S)
           /\ Len(SubSeq(s, m + 1, Len(s))) = Len(s) - m
           /\ \A i \in 1..(Len(s) - m) : SubSeq(s, m + 1, Len(s))[i] = s[m + i]
OBVIOUS

-----------------------------------------------------------------------------
(* The invariant is inductive                                               *)

\* The count of sealed blocks.
LEMMA SealedLength ==
    ASSUME ArenaShape, Types
    PROVE  /\ SealedCount \in Nat
           /\ Len(Sealed) = SealedCount
           /\ paged => \A p \in 1..SealedCount :
                /\ Sealed[p] = [start |-> (p - 1) * PageTokens, tokens |-> SealedTokens(p)]
                /\ p - 1 \in 0..(numPages - 1)
                /\ SealedTokens(p) \in Seq(Nat)
<1>1. CASE paged
  <2>1. Sealed = [p \in 1..Len(meta) |->
                    [start |-> meta[p].start, tokens |-> Store.pages[meta[p].physical]]]
      BY <1>1 DEF Sealed, ArenaBlocks
  <2>2. Len(meta) = numPages /\ numPages \in Nat /\ SealedCount = numPages
      BY <1>1 DEF ArenaShape, SealedCount
  <2>3. Len(Sealed) = numPages
      BY <2>1, <2>2
  <2>4. ASSUME NEW p \in 1..SealedCount
        PROVE  /\ Sealed[p] = [start |-> (p - 1) * PageTokens, tokens |-> SealedTokens(p)]
               /\ p - 1 \in 0..(numPages - 1)
               /\ SealedTokens(p) \in Seq(Nat)
    <3>1. meta[p] = [start |-> (p - 1) * PageTokens, physical |-> p - 1]
        BY <2>2, <2>4, Zenon DEF ArenaShape
    <3>2. meta[p].start = (p - 1) * PageTokens /\ meta[p].physical = p - 1
        BY <3>1
    <3>3. Sealed[p] = [start |-> (p - 1) * PageTokens, tokens |-> Store.pages[p - 1]]
        BY <2>1, <2>2, <2>4, <3>2, Zenon
    <3>4. SealedTokens(p) = Store.pages[p - 1]
        BY <1>1 DEF SealedTokens
    <3>5. p - 1 \in 0..(numPages - 1)
        BY <2>2, <2>4
    <3>6. Store \in AStore /\ numPages <= Store.capacity
        BY DEF ArenaShape, Store
    <3>7. Store.capacity \in 1..MaxPages /\ Store.pages \in [0..(Store.capacity - 1) -> Seq(Nat)]
        BY <3>6, StoreFields
    <3>8. p - 1 \in 0..(Store.capacity - 1)
        BY <3>5, <3>6, <3>7, <2>2, Constants
    <3>. QED BY <3>3, <3>4, <3>5, <3>7, <3>8
  <2>. QED BY <2>2, <2>3, <2>4
<1>2. CASE ~paged
  <2>1. Sealed = blocks /\ SealedCount = Len(blocks)
      BY <1>2 DEF Sealed, SealedCount
  <2>2. Len(blocks) \in Nat
      BY DEF Types
  <2>. QED BY <1>2, <2>1, <2>2, Zenon
<1>. QED BY <1>1, <1>2, Zenon

\* A cache that was just created.
LEMMA LayerInit == Init => IInv
<1>. SUFFICES ASSUME Init PROVE IInv
    OBVIOUS
<1>. USE DEF Init, ArenaInit
<1>1. Fresh(Slab) \in AStore /\ Fresh(Slab).capacity = Slab
  <2>1. Slab \in 1..MaxPages
      BY Constants
  <2>2. /\ [i \in 0..(Slab - 1) |-> <<>>] \in [0..(Slab - 1) -> Seq(Nat)]
        /\ [i \in 0..(Slab - 1) |-> 0] \in [0..(Slab - 1) -> Nat]
      OBVIOUS
  <2>. QED BY <2>1, <2>2, StoreMade DEF Fresh
<1>2. ArenaShape
  <2>1. stores \in Seq(AStore) /\ Len(stores) = 1 /\ stores[1] = Fresh(Slab)
      BY <1>1
  <2>. QED BY <1>1, <2>1, Constants DEF ArenaShape, Store
<1>3. Types
  <2>1. \A S : <<>> \in Seq(S)
      OBVIOUS
  <2>. QED BY <2>1, Constants DEF Types
<1>4. FlushShape
    BY Constants DEF FlushShape
<1>5. Placed
  <2>1. SealedCount = 0 /\ Done = 0 /\ Len(blocks) = 0
      BY DEF SealedCount, Done
  <2>2. window \in Nat
      BY Constants
  <2>. QED BY <2>1, <2>2, Constants DEF Placed
<1>6. ViewShape
    BY DEF ViewShape
<1>. QED BY <1>2, <1>3, <1>4, <1>5, <1>6 DEF IInv

\* The parts of the invariant that only the arena and the views can disturb.
LEMMA ArenaFrame ==
    ASSUME IInv, UNCHANGED <<arenaVars, epoch, views>>
    PROVE  ArenaShape' /\ ViewShape'
BY DEF IInv, arenaVars, ArenaShape, ViewShape, Store

\* append, up to the flush.
LEMMA LayerAppend ==
    ASSUME IInv, NEW g \in Geometry, NEW n \in 1..MaxAppend, AppendTokens(g, n)
    PROVE  IInv'
<1>. USE DEF IInv
<1>. DEFINE new == NewTokens(n)
            all == dense \o new
            out == Evicted(new)
            win == Windowed(new)
<1>0. n \in Nat /\ n > 0 /\ window \in Nat
    BY LayerAssumption, Constants DEF LayerAssumption, Types
<1>1. /\ flushing = NoFlush /\ geometry' = g /\ geometry \in {NoGeometry, g}
      /\ fresh' = fresh + n /\ appended' = appended \o new
      /\ dense' = win /\ stage' = stage \o out
      /\ flushing' = IF out # <<>> /\ Len(stage') >= PageTokens THEN 0 ELSE NoFlush
      /\ UNCHANGED <<arenaVars, config, encoded, blocks, destroyed, epoch, failed, views>>
    BY DEF AppendTokens, Usable
<1>2. /\ new \in Seq(Token') /\ Len(new) = n
      /\ dense \in Seq(Token') /\ stage \in Seq(Token') /\ appended \in Seq(Token')
  <2>1. new \in Seq(Token') /\ Len(new) = n
      BY <1>0, <1>1 DEF NewTokens, Types, Token
  <2>2. Token \subseteq Token'
      BY <1>0, <1>1 DEF Token, Types
  <2>3. dense \in Seq(Token) /\ stage \in Seq(Token) /\ appended \in Seq(Token)
      BY DEF Types
  <2>. QED BY <2>1, <2>2, <2>3
<1>. HIDE DEF new
<1>3. /\ all \in Seq(Token') /\ Len(all) = Len(dense) + n
      /\ \A i \in 1..Len(dense) : all[i] = dense[i]
      /\ \A i \in 1..n : all[Len(dense) + i] = new[i]
  <2>1. dense \in Seq(Token') /\ new \in Seq(Token')
      BY <1>2
  <2>2. /\ dense \o new \in Seq(Token') /\ Len(dense \o new) = Len(dense) + Len(new)
        /\ \A i \in 1..Len(dense) : (dense \o new)[i] = dense[i]
        /\ \A i \in 1..Len(new) : (dense \o new)[Len(dense) + i] = new[i]
      BY <2>1, Joined
  <2>3. Len(new) = n
      BY <1>2
  <2>. QED BY <2>2, <2>3
<1>4. /\ out \in Seq(Token') /\ win \in Seq(Token')
      /\ Len(out) = IF Len(all) > window THEN Len(all) - window ELSE 0
      /\ Len(win) = IF Len(all) > window THEN window ELSE Len(all)
      /\ Len(out) + Len(win) = Len(all)
      /\ \A i \in 1..Len(out) : out[i] = all[i]
      /\ \A i \in 1..Len(win) : win[i] = all[Len(out) + i]
  <2>. HIDE DEF all
  <2>1. CASE Len(all) > window
    <3>1. out = SubSeq(all, 1, Len(all) - window) /\ win = SubSeq(all, Len(all) - window + 1, Len(all))
        BY <2>1 DEF Evicted, Windowed, all
    <3>2. Len(all) - window \in Nat /\ Len(all) - window <= Len(all)
          /\ Len(all) - (Len(all) - window) = window
        BY <1>0, <1>3, <2>1
    <3>3. /\ out \in Seq(Token') /\ Len(out) = Len(all) - window
          /\ \A i \in 1..(Len(all) - window) : out[i] = all[i]
          /\ win \in Seq(Token') /\ Len(win) = window
          /\ \A i \in 1..window : win[i] = all[Len(all) - window + i]
      <4>. DEFINE m == Len(all) - window
      <4>1. all \in Seq(Token') /\ m \in Nat /\ m <= Len(all) /\ Len(all) - m = window
          BY <1>3, <3>2
      <4>. HIDE DEF m
      <4>2. /\ SubSeq(all, 1, m) \in Seq(Token')
            /\ Len(SubSeq(all, 1, m)) = m
            /\ \A i \in 1..m : SubSeq(all, 1, m)[i] = all[i]
            /\ SubSeq(all, m + 1, Len(all)) \in Seq(Token')
            /\ Len(SubSeq(all, m + 1, Len(all))) = Len(all) - m
            /\ \A i \in 1..(Len(all) - m) : SubSeq(all, m + 1, Len(all))[i] = all[m + i]
          BY <4>1, Cut
      <4>3. out = SubSeq(all, 1, m) /\ win = SubSeq(all, m + 1, Len(all))
          BY <3>1 DEF m
      <4>4. /\ out \in Seq(Token') /\ Len(out) = m
            /\ \A i \in 1..m : out[i] = all[i]
            /\ win \in Seq(Token') /\ Len(win) = window
            /\ \A i \in 1..window : win[i] = all[m + i]
          BY <4>1, <4>2, <4>3
      <4>. QED BY <4>4 DEF m
    <3>4. /\ Len(out) = IF Len(all) > window THEN Len(all) - window ELSE 0
          /\ Len(win) = IF Len(all) > window THEN window ELSE Len(all)
        BY <2>1, <3>3, Zenon
    <3>5. Len(out) + Len(win) = Len(all)
      <4>1. Len(all) \in Nat /\ window \in Nat
          BY <1>0, <1>3
      <4>. QED BY <4>1, <3>3
    <3>. QED BY <3>3, <3>4, <3>5, Zenon
  <2>2. CASE ~(Len(all) > window)
    <3>1. out = <<>> /\ win = all
        BY <2>2 DEF Evicted, Windowed, all
    <3>. QED BY <1>0, <1>3, <2>2, <3>1
  <2>. QED BY <2>1, <2>2
<1>. HIDE DEF all, out, win
<1>5. /\ stage' \in Seq(Token') /\ Len(stage') = Len(stage) + Len(out)
      /\ \A i \in 1..Len(stage) : stage'[i] = stage[i]
      /\ \A i \in 1..Len(out) : stage'[Len(stage) + i] = out[i]
  <2>1. stage \in Seq(Token') /\ out \in Seq(Token')
      BY <1>2, <1>4
  <2>2. /\ stage \o out \in Seq(Token') /\ Len(stage \o out) = Len(stage) + Len(out)
        /\ \A i \in 1..Len(stage) : (stage \o out)[i] = stage[i]
        /\ \A i \in 1..Len(out) : (stage \o out)[Len(stage) + i] = out[i]
      BY <2>1, Joined
  <2>3. stage' = stage \o out
      BY <1>1
  <2>. QED BY <2>2, <2>3
<1>6. /\ appended' \in Seq(Token') /\ Len(appended') = Len(appended) + n
      /\ \A i \in 1..Len(appended) : appended'[i] = appended[i]
      /\ \A i \in 1..n : appended'[Len(appended) + i] = new[i]
  <2>0. Len(new) = n
      BY <1>2
  <2>1. appended \in Seq(Token') /\ new \in Seq(Token')
      BY <1>2
  <2>2. /\ appended \o new \in Seq(Token') /\ Len(appended \o new) = Len(appended) + Len(new)
        /\ \A i \in 1..Len(appended) : (appended \o new)[i] = appended[i]
        /\ \A i \in 1..Len(new) : (appended \o new)[Len(appended) + i] = new[i]
      BY <2>1, Joined
  <2>3. appended' = appended \o new
      BY <1>1
  <2>. QED BY <2>0, <2>2, <2>3
<1>7. Types'
  <2>1. fresh' \in Nat
      BY <1>0, <1>1 DEF Types
  <2>2. flushing' \in Nat \cup {NoFlush} /\ dense' \in Seq(Token')
      BY <1>1, <1>4
  <2>. QED BY <1>1, <1>5, <1>6, <2>1, <2>2 DEF Types, config
<1>8. ArenaShape' /\ ViewShape'
    BY <1>1, ArenaFrame
<1>9. FlushShape'
    BY <1>1, Constants DEF FlushShape, config, arenaVars
<1>10. Placed'
  <2>. SUFFICES ASSUME ~failed' PROVE Placed'
      BY DEF Placed
  <2>1. ~failed
      BY <1>1
  <2>2. /\ SealedCount * PageTokens = encoded /\ Len(stage) < PageTokens /\ Len(dense) <= window
        /\ Len(appended) = encoded + Len(stage) + Len(dense)
        /\ encoded \in Nat /\ Len(stage) \in Nat /\ Len(dense) \in Nat
    <3>1. Done = 0
        BY <1>1 DEF Done
    <3>2. SealedCount * PageTokens = encoded + Done /\ encoded \in Nat
        BY <2>1 DEF Placed, Types
    <3>. QED BY <1>1, <1>2, <2>1, <3>1, <3>2 DEF Placed
  <2>3. Done' = 0
    <3>1. 0 * PageTokens = 0
        BY Constants
    <3>. QED BY <1>1, <3>1, Constants DEF Done
  <2>4. /\ SealedCount' = SealedCount /\ \A p : SealedTokens(p)' = SealedTokens(p)
        /\ encoded' = encoded /\ blocks' = blocks /\ window' = window
      BY <1>1 DEF SealedCount, SealedTokens, arenaVars, config, Store
  <2>5. \A i \in 1..Len(all) : all[i] = appended'[encoded + Len(stage) + i]
    <3>. SUFFICES ASSUME NEW i \in 1..Len(all) PROVE all[i] = appended'[encoded + Len(stage) + i]
        OBVIOUS
    <3>1. CASE i <= Len(dense)
      <4>1. i \in 1..Len(dense) /\ encoded + Len(stage) + i \in 1..Len(appended)
          BY <3>1, <2>2
      <4>2. dense[i] = appended[encoded + Len(stage) + i]
          BY <4>1, <2>1 DEF Placed
      <4>. QED BY <4>1, <4>2, <1>3, <1>6
    <3>2. CASE i > Len(dense)
      <4>1. i - Len(dense) \in 1..n /\ i = Len(dense) + (i - Len(dense))
            /\ encoded + Len(stage) + i = Len(appended) + (i - Len(dense))
          BY <3>2, <2>2, <1>3, <1>0
      <4>. QED BY <4>1, <1>3, <1>6, ZenonT(30)
    <3>. QED BY <3>1, <3>2, <2>2, <1>3, <1>0
  <2>6. \A i \in 1..Len(stage') : stage'[i] = appended'[encoded + i]
    <3>. SUFFICES ASSUME NEW i \in 1..Len(stage') PROVE stage'[i] = appended'[encoded + i]
        OBVIOUS
    <3>1. CASE i <= Len(stage)
      <4>1. i \in 1..Len(stage) /\ encoded + i \in 1..Len(appended)
          BY <3>1, <2>2
      <4>2. stage[i] = appended[encoded + i]
          BY <4>1, <2>1 DEF Placed
      <4>. QED BY <4>1, <4>2, <1>5, <1>6
    <3>2. CASE i > Len(stage)
      <4>0. Len(out) \in Nat /\ Len(out) <= Len(all) /\ Len(all) \in Nat
            /\ i \in Nat /\ i <= Len(stage) + Len(out)
          BY <1>0, <1>3, <1>4, <1>5
      <4>1. i - Len(stage) \in 1..Len(out) /\ i = Len(stage) + (i - Len(stage))
            /\ i - Len(stage) \in 1..Len(all)
            /\ encoded + Len(stage) + (i - Len(stage)) = encoded + i
          BY <3>2, <2>2, <4>0
      <4>. QED BY <4>1, <1>4, <1>5, <2>5, ZenonT(100)
    <3>. QED BY <3>1, <3>2, <2>2
  <2>7. \A i \in 1..Len(dense') : dense'[i] = appended'[encoded + Len(stage') + i]
    <3>. SUFFICES ASSUME NEW i \in 1..Len(dense') PROVE dense'[i] = appended'[encoded + Len(stage') + i]
        OBVIOUS
    <3>1. Len(out) + i \in 1..Len(all)
          /\ encoded + Len(stage) + (Len(out) + i) = encoded + Len(stage') + i
      <4>1. Len(out) \in Nat /\ Len(win) \in Nat /\ Len(out) + Len(win) = Len(all)
            /\ Len(stage') = Len(stage) + Len(out) /\ i \in 1..Len(win)
          BY <1>1, <1>4, <1>5
      <4>. QED BY <4>1, <2>2
    <3>. QED BY <3>1, <1>1, <1>4, <2>5
  <2>8. \A p \in 1..SealedCount :
            /\ Len(SealedTokens(p)) = PageTokens
            /\ \A i \in 1..PageTokens : SealedTokens(p)[i] = appended'[(p - 1) * PageTokens + i]
    <3>. SUFFICES ASSUME NEW p \in 1..SealedCount
                  PROVE  /\ Len(SealedTokens(p)) = PageTokens
                         /\ \A i \in 1..PageTokens :
                                SealedTokens(p)[i] = appended'[(p - 1) * PageTokens + i]
        OBVIOUS
    <3>1. \A i \in 1..PageTokens : (p - 1) * PageTokens + i \in 1..Len(appended)
      <4>1. SealedCount \in Nat
          BY SealedLength
      <4>2. p - 1 \in Nat /\ p \in Nat /\ p <= SealedCount /\ (p - 1) + 1 = p
          BY <4>1
      <4>3. (p - 1) * PageTokens \in Nat /\ p * PageTokens = (p - 1) * PageTokens + PageTokens
          BY <4>2, NextBlock
      <4>4. p * PageTokens <= SealedCount * PageTokens
          BY <4>1, <4>2, Constants
      <4>. QED BY <2>2, <4>3, <4>4, Constants
    <3>2. /\ Len(SealedTokens(p)) = PageTokens
          /\ \A i \in 1..PageTokens : SealedTokens(p)[i] = appended[(p - 1) * PageTokens + i]
        BY <2>1 DEF Placed
    <3>. QED BY <3>1, <3>2, <1>6
  <2>9. flushing' = NoFlush => Len(stage') < PageTokens
    <3>1. out = <<>> => Len(out) = 0
        OBVIOUS
    <3>2. flushing' = NoFlush => out = <<>> \/ ~(Len(stage') >= PageTokens)
        BY <1>1, Constants
    <3>3. Len(stage') \in Nat /\ (Len(out) = 0 => Len(stage') = Len(stage))
      <4>1. Len(stage) \in Nat /\ Len(out) \in Nat
          BY <2>2, <1>4
      <4>. QED BY <4>1, <1>5
    <3>. QED BY <3>1, <3>2, <3>3, <2>2, Constants
  <2>10. /\ SealedCount' * PageTokens = encoded' + Done'
         /\ Done' <= Len(stage')
      BY <2>2, <2>3, <2>4, <1>5
  <2>11. Len(dense') <= window' /\ Len(appended') = encoded' + Len(stage') + Len(dense')
      BY <1>0, <1>1, <1>3, <1>4, <1>5, <1>6, <2>2, <2>4
  <2>12. \A p \in 1..Len(blocks') : blocks'[p].start = (p - 1) * PageTokens
      BY <2>1, <2>4, Zenon DEF Placed
  <2>. QED BY <2>4, <2>6, <2>7, <2>8, <2>9, <2>10, <2>11, <2>12, Zenon DEF Placed
<1>. QED BY <1>7, <1>8, <1>9, <1>10

\* What More says in numbers: the next block is staged in full.
LEMMA NextBlockStaged ==
    ASSUME IInv, More
    PROVE  /\ flushing \in Nat /\ geometry \in Geometry
           /\ From \in Nat /\ To = From + PageTokens /\ To <= Len(stage)
           /\ Done = From
           /\ BlockStart \in Nat
           /\ BlockTokens \in Seq(Nat) /\ Len(BlockTokens) = PageTokens
           /\ \A i \in 1..PageTokens : BlockTokens[i] = stage[From + i]
<1>. USE DEF IInv
<1>1. flushing \in Nat /\ geometry \in Geometry /\ flushing # NoFlush
    BY DEF More, Types, FlushShape
<1>2. From \in Nat /\ To = From + PageTokens /\ Done = From
    BY <1>1, NextBlock DEF From, To, Done
<1>3. To <= Len(stage) /\ stage \in Seq(Token) /\ Token \subseteq Nat
    BY DEF More, Types, Token
<1>. HIDE DEF From, To, Done
<1>4. /\ SubSeq(stage, From + 1, To) \in Seq(Nat)
      /\ Len(SubSeq(stage, From + 1, To)) = PageTokens
      /\ \A i \in 1..PageTokens : SubSeq(stage, From + 1, To)[i] = stage[From + i]
  <2>1. stage \in Seq(Nat)
    <3>1. stage \in Seq(Token) /\ Token \subseteq Nat
        BY DEF Types, Token
    <3>2. Len(stage) \in Nat /\ stage = [i \in 1..Len(stage) |-> stage[i]]
          /\ \A i \in 1..Len(stage) : stage[i] \in Nat
        BY <3>1
    <3>. QED BY <3>2
  <2>2. From + 1 \in Nat /\ To \in Nat /\ To - From = PageTokens
      BY <1>2, Constants
  <2>. QED BY <1>2, <1>3, <2>1, <2>2, Constants
<1>5. BlockStart \in Nat
    BY <1>2 DEF BlockStart, Types
<1>. QED BY <1>1, <1>2, <1>3, <1>4, <1>5 DEF BlockTokens

\* Where the next block would begin is where the sealed ones end, unless a
\* flush was refused before.
LEMMA BlockContinues ==
    ASSUME IInv, More, ~failed
    PROVE  /\ SealedCount * PageTokens = BlockStart
           /\ paged => numPages * PageTokens = BlockStart
           /\ \A i \in 1..PageTokens : BlockTokens[i] = appended[BlockStart + i]
<1>1. SealedCount * PageTokens = BlockStart
    BY NextBlockStaged DEF IInv, Placed, BlockStart
<1>2. paged => numPages * PageTokens = BlockStart
    BY <1>1 DEF SealedCount
<1>3. ASSUME NEW i \in 1..PageTokens
      PROVE  BlockTokens[i] = appended[BlockStart + i]
  <2>1. BlockTokens[i] = stage[From + i]
      BY <1>3, NextBlockStaged
  <2>2. From + i \in 1..Len(stage)
      BY <1>3, NextBlockStaged, Constants
  <2>3. stage[From + i] = appended[encoded + (From + i)]
      BY <2>2 DEF IInv, Placed
  <2>4. encoded + (From + i) = BlockStart + i
      BY <1>3, NextBlockStaged DEF BlockStart, IInv, Types
  <2>. QED BY <2>1, <2>3, <2>4
<1>. QED BY <1>1, <1>2, <1>3

\* What a sealed block adds to the places of the tokens, in either store.
LEMMA SealsNext ==
    ASSUME IInv, More, ~failed, ~failed',
           flushing' = flushing + 1,
           UNCHANGED <<config, geometry, dense, stage, encoded, appended>>,
           SealedCount' = SealedCount + 1,
           \A p \in 1..SealedCount : SealedTokens(p)' = SealedTokens(p),
           \A p : p = SealedCount + 1 => SealedTokens(p)' = BlockTokens,
           \A p \in 1..Len(blocks') : blocks'[p].start = (p - 1) * PageTokens
    PROVE  Placed'
<1>. USE DEF IInv
<1>1. SealedCount \in Nat /\ SealedCount * PageTokens = encoded + From /\ encoded \in Nat
    BY SealedLength, BlockContinues DEF BlockStart, Types
<1>2. Done' = From + PageTokens
  <2>1. flushing' # NoFlush /\ flushing \in Nat
      BY NextBlockStaged, Constants
  <2>2. Done' = (flushing + 1) * PageTokens
      BY <2>1 DEF Done
  <2>. QED BY <2>2, NextBlockStaged DEF To
<1>3. SealedCount' * PageTokens = encoded' + Done'
  <2>1. (SealedCount + 1) * PageTokens = SealedCount * PageTokens + PageTokens
      BY <1>1, NextBlock
  <2>2. SealedCount' * PageTokens = SealedCount * PageTokens + PageTokens
      BY <2>1, Zenon
  <2>3. encoded' + Done' = encoded + (From + PageTokens)
      BY <1>2
  <2>4. From \in Nat
      BY NextBlockStaged
  <2>. QED BY <1>1, <2>2, <2>3, <2>4, Constants
<1>4. Done' <= Len(stage')
    BY <1>2, NextBlockStaged
<1>5. flushing' # NoFlush
    BY NextBlockStaged, Constants
<1>6. ASSUME NEW p \in 1..SealedCount'
      PROVE  /\ Len(SealedTokens(p)') = PageTokens
             /\ \A i \in 1..PageTokens :
                    SealedTokens(p)'[i] = appended'[(p - 1) * PageTokens + i]
  <2>1. CASE p \in 1..SealedCount
    <3>1. /\ Len(SealedTokens(p)) = PageTokens
          /\ \A i \in 1..PageTokens : SealedTokens(p)[i] = appended[(p - 1) * PageTokens + i]
        BY <2>1 DEF Placed
    <3>2. SealedTokens(p)' = SealedTokens(p) /\ appended' = appended
        BY <2>1
    <3>. QED BY <3>1, <3>2, Zenon
  <2>2. CASE p = SealedCount + 1
    <3>1. p - 1 = SealedCount
        BY <2>2, <1>1
    <3>2. SealedTokens(p)' = BlockTokens
        BY <2>2
    <3>3. (p - 1) * PageTokens = BlockStart
        BY <3>1, BlockContinues, Zenon
    <3>4. Len(BlockTokens) = PageTokens
          /\ \A i \in 1..PageTokens : BlockTokens[i] = appended[BlockStart + i]
        BY NextBlockStaged, BlockContinues, Zenon
    <3>5. appended' = appended
        OBVIOUS
    <3>. QED BY <3>2, <3>3, <3>4, <3>5, Zenon
  <2>3. p \in 1..SealedCount \/ p = SealedCount + 1
      BY <1>1, <1>6
  <2>. QED BY <2>1, <2>2, <2>3, Zenon
<1>7. /\ Len(dense') <= window'
      /\ Len(appended') = encoded' + Len(stage') + Len(dense')
      /\ \A i \in 1..Len(stage') : stage'[i] = appended'[encoded' + i]
      /\ \A i \in 1..Len(dense') : dense'[i] = appended'[encoded' + Len(stage') + i]
    BY DEF Placed, config
<1>. QED BY <1>3, <1>4, <1>5, <1>6, <1>7, Zenon DEF Placed

\* The sealing of a block in the arena keeps the invariant.
LEMMA LayerFlushToArena ==
    ASSUME IInv, FlushToArena
    PROVE  /\ IInv'
           /\ SealedCount' = SealedCount + 1
           /\ \A p \in 1..SealedCount : SealedTokens(p)' = SealedTokens(p)
<1>. USE DEF IInv
<1>1. /\ paged /\ More /\ Accepts(BlockStart, geometry)
      /\ ArenaAppend(BlockStart, BlockTokens, geometry)
      /\ flushing' = flushing + 1
      /\ UNCHANGED <<config, geometry, dense, stage, encoded, blocks, destroyed,
                     fresh, appended, epoch, failed, views>>
    BY DEF FlushToArena
<1>2. BlockStart = numPages * PageTokens /\ numPages < MaxPages
      /\ format \in {NoGeometry, geometry} /\ geometry \in Geometry /\ BlockStart \in Nat
      /\ BlockTokens \in Seq(Nat) /\ flushing \in Nat
    BY <1>1, NextBlockStaged DEF Accepts
<1>3. ~failed
  <2>1. numPages # MaxPages
      BY <1>2, Constants DEF ArenaShape
  <2>. QED BY <1>2, <2>1 DEF FlushShape
<1>4. /\ ArenaShape'
      /\ numPages' = numPages + 1
      /\ Len(stores) <= Len(stores')
      /\ Store'.pages[numPages] = BlockTokens
      /\ \A p \in 0..(numPages - 1) : Store'.pages[p] = Store.pages[p]
      /\ \A k \in 1..Len(stores) :
            /\ stores'[k].capacity = stores[k].capacity
            /\ \A p \in 0..(stores[k].capacity - 1) : p < numPages =>
                /\ stores'[k].pages[p] = stores[k].pages[p]
                /\ stores'[k].table[p] = stores[k].table[p]
    BY <1>1, <1>2, ArenaStep
<1>5. numPages \in Nat /\ SealedCount = numPages /\ SealedCount' = numPages + 1
    BY <1>1, <1>4 DEF ArenaShape, SealedCount, config
<1>6. \A p \in 1..SealedCount : SealedTokens(p)' = SealedTokens(p)
  <2>1. \A p \in 1..SealedCount : p - 1 \in 0..(numPages - 1)
      BY <1>5
  <2>2. \A p : SealedTokens(p) = Store.pages[p - 1] /\ SealedTokens(p)' = Store'.pages[p - 1]
      BY <1>1 DEF SealedTokens, config
  <2>. QED BY <1>4, <2>1, <2>2
<1>7. \A p : p = SealedCount + 1 => SealedTokens(p)' = BlockTokens
  <2>1. \A p : SealedTokens(p)' = Store'.pages[p - 1]
      BY <1>1 DEF SealedTokens, config
  <2>2. \A p : p = SealedCount + 1 => p - 1 = numPages
      BY <1>5
  <2>. QED BY <1>4, <2>1, <2>2, Zenon
<1>8. Types'
    BY <1>1, <1>2 DEF Types, config, Token
<1>9. FlushShape'
    BY <1>1, <1>2, <1>3 DEF FlushShape, config
<1>10. Placed'
  <2>1. \A p \in 1..Len(blocks') : blocks'[p].start = (p - 1) * PageTokens
      BY <1>1, <1>3, Zenon DEF Placed
  <2>. QED BY <1>1, <1>3, <1>5, <1>6, <1>7, <2>1, SealsNext
<1>11. ViewShape'
  <2>. SUFFICES ASSUME NEW v \in views
                PROVE  /\ v.epoch \in Nat
                       /\ v.epoch <= epoch
                       /\ v.view.store \in 1..Len(stores')
                       /\ v.view.num \in Nat
                       /\ v.view.num <= stores'[v.view.store].capacity
                       /\ v.epoch = epoch =>
                            /\ v.view.num <= numPages'
                            /\ \A p \in 0..(v.view.num - 1) : stores'[v.view.store].table[p] = p
                            /\ v.showed = [p \in 1..v.view.num |->
                                              stores'[v.view.store].pages[p - 1]]
      BY <1>1 DEF ViewShape
  <2>. DEFINE k == v.view.store
              m == v.view.num
  <2>1. /\ v.epoch \in Nat /\ v.epoch <= epoch /\ k \in 1..Len(stores) /\ m \in Nat
        /\ m <= stores[k].capacity
        /\ v.epoch = epoch =>
            /\ m <= numPages
            /\ \A p \in 0..(m - 1) : stores[k].table[p] = p
            /\ v.showed = [p \in 1..m |-> stores[k].pages[p - 1]]
      BY Zenon DEF ViewShape
  <2>. HIDE DEF k, m
  <2>2. Len(stores) \in Nat /\ Len(stores') \in Nat /\ stores[k] \in AStore
      BY <1>4, <2>1 DEF ArenaShape
  <2>3. stores[k].capacity \in Nat
      BY <2>2, StoreFields, Constants
  <2>4. k \in 1..Len(stores') /\ m <= stores'[k].capacity
      BY <1>4, <2>1, <2>2
  <2>5. ASSUME v.epoch = epoch
        PROVE  /\ m <= numPages'
               /\ \A p \in 0..(m - 1) : stores'[k].table[p] = p
               /\ v.showed = [p \in 1..m |-> stores'[k].pages[p - 1]]
    <3>1. \A p \in 0..(m - 1) : p \in 0..(stores[k].capacity - 1) /\ p < numPages
        BY <1>5, <2>1, <2>3, <2>5
    <3>2. \A p \in 0..(m - 1) : /\ stores'[k].pages[p] = stores[k].pages[p]
                                /\ stores'[k].table[p] = stores[k].table[p]
        BY <1>4, <2>1, <3>1
    <3>3. \A p \in 1..m : p - 1 \in 0..(m - 1)
        BY <2>1
    <3>4. [p \in 1..m |-> stores'[k].pages[p - 1]] = [p \in 1..m |-> stores[k].pages[p - 1]]
        BY <3>2, <3>3
    <3>5. m <= numPages'
        BY <1>4, <1>5, <2>1, <2>5
    <3>. QED BY <2>1, <2>5, <3>2, <3>4, <3>5
  <2>. QED BY <2>1, <2>4, <2>5 DEF k, m
<1>. QED BY <1>4, <1>5, <1>6, <1>8, <1>9, <1>10, <1>11

\* A block sealed in a list.
LEMMA LayerFlushToList ==
    ASSUME IInv, FlushToList
    PROVE  /\ IInv'
           /\ Len(blocks) <= Len(blocks')
           /\ \A p \in 1..Len(blocks) : blocks'[p] = blocks[p]
<1>. USE DEF IInv
<1>1. /\ ~paged /\ More
      /\ blocks' = Append(blocks, [start |-> BlockStart, tokens |-> BlockTokens])
      /\ flushing' = flushing + 1
      /\ UNCHANGED <<arenaVars, config, geometry, dense, stage, encoded, destroyed,
                     fresh, appended, epoch, failed, views>>
    BY DEF FlushToList
<1>2. BlockStart \in Nat /\ BlockTokens \in Seq(Nat) /\ flushing \in Nat /\ geometry \in Geometry
    BY <1>1, NextBlockStaged
<1>3. ~failed /\ ~failed'
    BY <1>1 DEF FlushShape
<1>4. /\ blocks' \in Seq([start : Nat, tokens : Seq(Nat)])
      /\ Len(blocks') = Len(blocks) + 1 /\ Len(blocks) \in Nat
      /\ \A p \in 1..Len(blocks) : blocks'[p] = blocks[p]
      /\ blocks'[Len(blocks) + 1] = [start |-> BlockStart, tokens |-> BlockTokens]
    BY <1>1, <1>2 DEF Types
<1>5. SealedCount = Len(blocks) /\ SealedCount' = Len(blocks) + 1
    BY <1>1, <1>4 DEF SealedCount, config
<1>6. \A p : SealedTokens(p) = blocks[p].tokens /\ SealedTokens(p)' = blocks'[p].tokens
    BY <1>1 DEF SealedTokens, config
<1>7. \A p \in 1..Len(blocks') : blocks'[p].start = (p - 1) * PageTokens
  <2>. SUFFICES ASSUME NEW p \in 1..Len(blocks') PROVE blocks'[p].start = (p - 1) * PageTokens
      OBVIOUS
  <2>1. CASE p \in 1..Len(blocks)
    <3>1. blocks[p].start = (p - 1) * PageTokens
        BY <1>3, <2>1 DEF Placed
    <3>. QED BY <3>1, <2>1, <1>4, Zenon
  <2>2. CASE p = Len(blocks) + 1
    <3>1. p - 1 = SealedCount
        BY <1>4, <1>5, <2>2
    <3>2. (p - 1) * PageTokens = BlockStart
        BY <1>1, <1>3, <3>1, BlockContinues, Zenon
    <3>3. blocks'[p].start = BlockStart
        BY <1>4, <2>2
    <3>. QED BY <3>2, <3>3, Zenon
  <2>3. p \in 1..Len(blocks) \/ p = Len(blocks) + 1
      BY <1>4
  <2>. QED BY <2>1, <2>2, <2>3, Zenon
<1>8. Placed'
  <2>1. \A p \in 1..SealedCount : SealedTokens(p)' = SealedTokens(p)
      BY <1>4, <1>5, <1>6
  <2>2. \A p : p = SealedCount + 1 => SealedTokens(p)' = BlockTokens
    <3>1. blocks'[Len(blocks) + 1].tokens = BlockTokens
        BY <1>4
    <3>. QED BY <3>1, <1>5, <1>6, Zenon
  <2>3. SealedCount' = SealedCount + 1
      BY <1>5
  <2>. QED BY <1>1, <1>3, <1>7, <2>1, <2>2, <2>3, SealsNext
<1>9. Types'
    BY <1>1, <1>2, <1>4 DEF Types, config, Token
<1>10. FlushShape'
    BY <1>1, <1>2, <1>3 DEF FlushShape, config, arenaVars
<1>11. ArenaShape' /\ ViewShape'
    BY <1>1, ArenaFrame
<1>. QED BY <1>4, <1>8, <1>9, <1>10, <1>11

\* The arena refuses only for a cause.
LEMMA LayerFlushRaises ==
    ASSUME IInv, FlushRaises
    PROVE  IInv'
<1>. USE DEF IInv
<1>1. /\ paged /\ More /\ ~Accepts(BlockStart, geometry)
      /\ failed' = TRUE /\ flushing' = NoFlush
      /\ UNCHANGED <<arenaVars, config, geometry, dense, stage, encoded, blocks, destroyed,
                     fresh, appended, epoch, views>>
    BY DEF FlushRaises
<1>2. geometry \in Geometry
    BY <1>1, NextBlockStaged
<1>3. numPages = MaxPages \/ format \notin {NoGeometry, geometry}
  <2>1. CASE failed
      BY <2>1 DEF FlushShape
  <2>2. CASE ~failed
    <3>1. BlockStart = numPages * PageTokens
        BY <1>1, <2>2, BlockContinues
    <3>2. numPages \in Nat /\ numPages <= MaxPages
      <4>1. Store \in AStore
          BY DEF ArenaShape, Store
      <4>2. Store.capacity \in 1..MaxPages
          BY <4>1, StoreFields
      <4>. QED BY <4>2, Constants, SMTT(20) DEF ArenaShape
    <3>3. numPages < MaxPages \/ numPages = MaxPages
        BY <3>2, Constants
    <3>. QED BY <1>1, <3>1, <3>3, Zenon DEF Accepts
  <2>. QED BY <2>1, <2>2
<1>4. Types'
    BY <1>1 DEF Types, config, Token
<1>5. FlushShape'
    BY <1>1, <1>2, <1>3 DEF FlushShape, config, arenaVars
<1>6. Placed'
    BY <1>1 DEF Placed
<1>7. ArenaShape' /\ ViewShape'
    BY <1>1, ArenaFrame
<1>. QED BY <1>4, <1>5, <1>6, <1>7

\* The end of a flush: the sealed tokens leave staging.
LEMMA LayerFlushEnds ==
    ASSUME IInv, FlushEnds
    PROVE  IInv'
<1>. USE DEF IInv
<1>1. /\ flushing # NoFlush /\ ~More
      /\ encoded' = encoded + From
      /\ stage' = SubSeq(stage, From + 1, Len(stage))
      /\ flushing' = NoFlush
      /\ UNCHANGED <<arenaVars, config, geometry, dense, blocks, destroyed,
                     fresh, appended, epoch, failed, views>>
    BY DEF FlushEnds
<1>2. flushing \in Nat /\ encoded \in Nat /\ stage \in Seq(Token) /\ geometry \in Geometry
    BY <1>1 DEF Types, FlushShape
<1>3. From \in Nat /\ To = From + PageTokens /\ Done = From
    BY <1>1, <1>2, NextBlock DEF From, To, Done
<1>. HIDE DEF From, To, Done
<1>4. stage' \in Seq(Token)
    BY <1>1, <1>2, <1>3
<1>5. Types'
    BY <1>1, <1>2, <1>3, <1>4 DEF Types, config, Token
<1>6. FlushShape'
    BY <1>1 DEF FlushShape, config, arenaVars
<1>7. ArenaShape' /\ ViewShape'
    BY <1>1, ArenaFrame
<1>8. ASSUME ~failed' PROVE Placed'
  <2>1. /\ SealedCount * PageTokens = encoded + From /\ From <= Len(stage)
        /\ Len(appended) = encoded + Len(stage) + Len(dense)
        /\ \A i \in 1..Len(stage) : stage[i] = appended[encoded + i]
        /\ \A i \in 1..Len(dense) : dense[i] = appended[encoded + Len(stage) + i]
        /\ Len(dense) <= window /\ Len(stage) \in Nat /\ Len(dense) \in Nat
    <3>1. ~failed
        BY <1>1, <1>8
    <3>. QED BY <3>1, <1>2, <1>3 DEF Placed, Types
  <2>2. /\ Len(stage') = Len(stage) - From
        /\ \A i \in 1..(Len(stage) - From) : stage'[i] = stage[From + i]
      BY <1>1, <1>2, <1>3, <2>1, Cut
  <2>3. Done' = 0
      BY <1>1 DEF Done
  <2>4. /\ SealedCount' = SealedCount
        /\ \A p : SealedTokens(p)' = SealedTokens(p)
      BY <1>1 DEF SealedCount, SealedTokens, arenaVars, config, Store
  <2>5. SealedCount' * PageTokens = encoded' + Done'
    <3>1. SealedCount' * PageTokens = encoded + From
        BY <2>1, <2>4, Zenon
    <3>2. encoded' + Done' = encoded + From
        BY <1>1, <1>2, <1>3, <2>3
    <3>. QED BY <3>1, <3>2
  <2>6. Done' <= Len(stage') /\ Len(stage') < PageTokens
    <3>1. To > Len(stage)
        BY <1>1, <1>3, <2>1, Constants DEF More
    <3>. QED BY <3>1, <1>3, <2>1, <2>2, <2>3, Constants
  <2>7. \A i \in 1..Len(stage') : stage'[i] = appended'[encoded' + i]
    <3>. SUFFICES ASSUME NEW i \in 1..Len(stage') PROVE stage'[i] = appended'[encoded' + i]
        OBVIOUS
    <3>1. /\ From + i \in 1..Len(stage)
          /\ encoded + (From + i) = encoded' + i
          /\ i \in 1..(Len(stage) - From)
        BY <1>1, <1>2, <1>3, <2>1, <2>2
    <3>2. stage'[i] = stage[From + i] /\ stage[From + i] = appended[encoded + (From + i)]
        BY <2>1, <2>2, <3>1
    <3>. QED BY <1>1, <3>1, <3>2
  <2>11. encoded' + Len(stage') = encoded + Len(stage)
    <3>1. encoded \in Nat /\ From \in Nat /\ Len(stage) \in Nat
        BY <1>2, <1>3, <2>1
    <3>2. encoded' = encoded + From /\ Len(stage') = Len(stage) - From
        BY <1>1, <2>2
    <3>. QED BY <3>1, <3>2
  <2>8. \A i \in 1..Len(dense') : dense'[i] = appended'[encoded' + Len(stage') + i]
    <3>1. encoded' + Len(stage') = encoded + Len(stage)
        BY <2>11
    <3>. QED BY <1>1, <2>1, <3>1
  <2>9. Len(dense') <= window' /\ Len(appended') = encoded' + Len(stage') + Len(dense')
    <3>1. UNCHANGED <<dense, window, appended>>
        BY <1>1 DEF config
    <3>. QED BY <2>1, <2>11, <3>1
  <2>10. /\ \A p \in 1..SealedCount' :
              /\ Len(SealedTokens(p)') = PageTokens
              /\ \A i \in 1..PageTokens :
                    SealedTokens(p)'[i] = appended'[(p - 1) * PageTokens + i]
         /\ \A p \in 1..Len(blocks') : blocks'[p].start = (p - 1) * PageTokens
    <3>1. ~failed /\ appended' = appended /\ blocks' = blocks
        BY <1>1, <1>8
    <3>. QED BY <3>1, <2>4, Zenon DEF Placed
  <2>. QED BY <2>5, <2>6, <2>7, <2>8, <2>9, <2>10, Zenon DEF Placed
<1>9. Placed'
    BY <1>8 DEF Placed
<1>. QED BY <1>5, <1>6, <1>7, <1>9

\* A view shows written pages.
LEMMA LayerTakeView ==
    ASSUME IInv, TakeView
    PROVE  IInv'
<1>. USE DEF IInv
<1>1. /\ views' = views \cup {[view |-> View, epoch |-> epoch, showed |-> Shows(View)]}
      /\ UNCHANGED <<arenaVars, config, geometry, dense, stage, encoded, blocks, flushing,
                     destroyed, fresh, appended, epoch, failed>>
    BY DEF TakeView
<1>2. Types' /\ FlushShape'
    BY <1>1 DEF Types, FlushShape, config, arenaVars, Token
<1>3. ArenaShape'
    BY <1>1 DEF ArenaShape, arenaVars, Store
<1>4. Placed'
  <2>1. SealedCount' = SealedCount /\ Done' = Done /\ \A p : SealedTokens(p)' = SealedTokens(p)
      BY <1>1 DEF SealedCount, SealedTokens, Done, config, arenaVars, Store
  <2>2. UNCHANGED <<encoded, stage, dense, appended, blocks, flushing, failed, window>>
      BY <1>1 DEF config
  <2>. QED BY <2>1, <2>2, Zenon DEF Placed
<1>5. ViewShape'
  <2>1. UNCHANGED <<stores, numPages, epoch>>
      BY <1>1 DEF arenaVars
  <2>2. ASSUME NEW v \in views'
        PROVE  /\ v.epoch \in Nat
               /\ v.epoch <= epoch
               /\ v.view.store \in 1..Len(stores)
               /\ v.view.num \in Nat
               /\ v.view.num <= stores[v.view.store].capacity
               /\ v.epoch = epoch =>
                    /\ v.view.num <= numPages
                    /\ \A p \in 0..(v.view.num - 1) : stores[v.view.store].table[p] = p
                    /\ v.showed = [p \in 1..v.view.num |-> stores[v.view.store].pages[p - 1]]
    <3>1. CASE v \in views
        BY <3>1, Zenon DEF ViewShape
    <3>2. CASE v = [view |-> View, epoch |-> epoch, showed |-> Shows(View)]
      <4>1. /\ v.epoch = epoch /\ v.view.store = Len(stores) /\ v.view.num = numPages
            /\ v.showed = [p \in 1..numPages |-> Store.pages[Store.table[p - 1]]]
          BY <3>2 DEF View, Shows, Store
      <4>2. /\ numPages \in Nat /\ numPages <= Store.capacity /\ Len(stores) \in Nat
            /\ Len(stores) > 0 /\ \A p \in 0..(numPages - 1) : Store.table[p] = p
          BY DEF ArenaShape
      <4>3. \A p \in 1..numPages : p - 1 \in 0..(numPages - 1)
          BY <4>2
      <4>4. v.showed = [p \in 1..numPages |-> Store.pages[p - 1]]
          BY <4>1, <4>2, <4>3
      <4>5. epoch \in Nat /\ epoch <= epoch /\ numPages <= numPages
          BY <4>2 DEF Types
      <4>6. stores[v.view.store] = Store /\ v.view.store \in 1..Len(stores)
          BY <4>1, <4>2 DEF Store
      <4>. QED BY <4>1, <4>2, <4>4, <4>5, <4>6
    <3>. QED BY <1>1, <3>1, <3>2
  <2>. QED BY <2>1, <2>2, Zenon DEF ViewShape
<1>. QED BY <1>2, <1>3, <1>4, <1>5

\* reset and destroy.
LEMMA LayerCleared ==
    ASSUME IInv, Cleared, destroyed' \in BOOLEAN
    PROVE  IInv'
<1>. USE DEF IInv
<1>1. /\ flushing = NoFlush /\ numPages' = 0 /\ nextPhysical' = 0 /\ meta' = <<>>
      /\ geometry' = NoGeometry /\ dense' = <<>> /\ stage' = <<>> /\ encoded' = 0
      /\ blocks' = <<>> /\ appended' = <<>> /\ epoch' = epoch + 1 /\ failed' = FALSE
      /\ UNCHANGED <<stores, format, config, flushing, fresh, views>>
    BY DEF Cleared, ArenaReset
<1>2. Types'
  <2>1. \A S : <<>> \in Seq(S)
      OBVIOUS
  <2>2. epoch' \in Nat
      BY <1>1 DEF Types
  <2>. QED BY <1>1, <2>1, <2>2, Constants DEF Types, config
<1>3. ArenaShape'
  <2>1. Store' = Store /\ Store.capacity \in 1..MaxPages
    <3>1. Store \in AStore
        BY DEF ArenaShape, Store
    <3>. QED BY <1>1, <3>1, StoreFields DEF Store
  <2>. QED BY <1>1, <2>1, Constants DEF ArenaShape
<1>4. FlushShape'
    BY <1>1, Constants DEF FlushShape
<1>5. Placed'
  <2>1. SealedCount' = 0 /\ Done' = 0 /\ Len(blocks') = 0 /\ Len(stage') = 0
        /\ Len(dense') = 0 /\ Len(appended') = 0
      BY <1>1 DEF SealedCount, Done
  <2>2. window' \in Nat
      BY <1>1, Constants DEF config, Types
  <2>. QED BY <1>1, <2>1, <2>2, Constants DEF Placed
<1>6. ViewShape'
    BY <1>1 DEF ViewShape, Types
<1>. QED BY <1>2, <1>3, <1>4, <1>5, <1>6

\* Every step keeps the invariant.
LEMMA LayerNext == IInv /\ [Next]_vars => IInv'
<1>. SUFFICES ASSUME IInv, [Next]_vars PROVE IInv'
    OBVIOUS
<1>1. ASSUME NEW g \in Geometry, NEW n \in 1..MaxAppend, AppendTokens(g, n) PROVE IInv'
    BY <1>1, LayerAppend
<1>2. CASE FlushToArena
    BY <1>2, LayerFlushToArena
<1>3. CASE FlushToList
    BY <1>3, LayerFlushToList
<1>4. CASE FlushRaises
    BY <1>4, LayerFlushRaises
<1>5. CASE FlushEnds
    BY <1>5, LayerFlushEnds
<1>6. CASE TakeView
    BY <1>6, LayerTakeView
<1>7. CASE Reset \/ Destroy
  <2>1. Cleared /\ destroyed' \in BOOLEAN
      BY <1>7 DEF Reset, Destroy, IInv, Types
  <2>. QED BY <2>1, LayerCleared
<1>8. CASE UNCHANGED vars
  <2>1. UNCHANGED <<arenaVars, config, cacheVars>>
      BY <1>8 DEF vars
  <2>2. UNCHANGED <<arenaVars, epoch, views>> /\ UNCHANGED <<paged, window>>
        /\ UNCHANGED <<geometry, dense, stage, encoded, blocks, flushing, destroyed>>
        /\ UNCHANGED <<fresh, appended, failed>>
      BY <2>1 DEF cacheVars, config
  <2>3. ArenaShape' /\ ViewShape'
      BY <2>2, ArenaFrame
  <2>4. Types' /\ FlushShape'
      BY <2>2 DEF IInv, Types, FlushShape, arenaVars, Token
  <2>5. Placed'
    <3>1. SealedCount' = SealedCount /\ Done' = Done /\ \A p : SealedTokens(p)' = SealedTokens(p)
        BY <2>2 DEF SealedCount, SealedTokens, Done, arenaVars, Store
    <3>2. Placed
        BY DEF IInv
    <3>. QED BY <2>2, <3>1, <3>2, Zenon DEF Placed
  <2>. QED BY <2>3, <2>4, <2>5 DEF IInv
<1>. QED BY <1>1, <1>2, <1>3, <1>4, <1>5, <1>6, <1>7, <1>8 DEF Next

\* SealedLength after a step.
LEMMA SealedFacts ==
    ArenaShape /\ Types =>
        /\ Len(Sealed) = SealedCount /\ SealedCount \in Nat
        /\ paged => \A p \in 1..SealedCount :
            Sealed[p] = [start |-> (p - 1) * PageTokens, tokens |-> SealedTokens(p)]
<1>. SUFFICES ASSUME ArenaShape, Types
              PROVE  /\ Len(Sealed) = SealedCount /\ SealedCount \in Nat
                     /\ paged => \A p \in 1..SealedCount :
                          Sealed[p] = [start |-> (p - 1) * PageTokens, tokens |-> SealedTokens(p)]
    OBVIOUS
<1>. QED BY SealedLength

LEMMA SealedFactsNext ==
    ArenaShape' /\ Types' =>
        /\ Len(Sealed') = SealedCount' /\ SealedCount' \in Nat
        /\ paged' => \A p \in 1..SealedCount' :
            Sealed'[p] = [start |-> (p - 1) * PageTokens, tokens |-> SealedTokens(p)']
<1>1. (ArenaShape /\ Types =>
        /\ Len(Sealed) = SealedCount /\ SealedCount \in Nat
        /\ paged => \A p \in 1..SealedCount :
            Sealed[p] = [start |-> (p - 1) * PageTokens, tokens |-> SealedTokens(p)])'
    BY SealedFacts, PTL
<1>. QED BY <1>1

-----------------------------------------------------------------------------
(* The theorems                                                             *)

\* The invariant, for every page size, capacity, window and geometry.
THEOREM LayerInvariant == Spec => []IInv
BY LayerInit, LayerNext, PTL DEF Spec

\* The variables have their types (rfsn_v10/cache/incremental_layer_cache.py).
THEOREM LayerTypes == Spec => []TypeOK
<1>1. IInv => TypeOK
  <2>. SUFFICES ASSUME IInv PROVE TypeOK
      OBVIOUS
  <2>1. Store.capacity \in 1..MaxPages
    <3>1. Store \in AStore
        BY DEF IInv, ArenaShape, Store
    <3>. QED BY <3>1, StoreFields
  <2>2. numPages \in 0..MaxPages /\ nextPhysical \in 0..MaxPages
    <3>1. numPages \in Nat /\ nextPhysical = numPages /\ numPages <= Store.capacity
        BY DEF IInv, ArenaShape
    <3>. QED BY <2>1, <3>1, Constants
  <2>. QED BY <2>2 DEF IInv, ArenaShape, Types, TypeOK
<1>. QED BY <1>1, LayerInvariant, PTL

\* append and _flush_staging: between calls every token is in one place, at its
\* position, as long as no flush was refused.
THEOREM LayerPartition == Spec => []Partition
<1>1. IInv => Partition
  <2>. SUFFICES ASSUME IInv, Quiet PROVE Partition
      BY DEF Partition
  <2>. USE DEF IInv
  <2>1. ~failed /\ Done = 0 /\ Placed
      BY DEF Quiet, Done
  <2>2. Len(Sealed) = SealedCount /\ SealedCount \in Nat
      BY SealedLength
  <2>3. SealedCount * PageTokens = encoded /\ encoded \in Nat
      BY <2>1 DEF Placed, Types
  <2>4. ASSUME NEW p \in 1..SealedCount
        PROVE  /\ Sealed[p].start = (p - 1) * PageTokens
               /\ Sealed[p].tokens = SealedTokens(p)
    <3>1. CASE paged
      <4>1. Sealed[p] = [start |-> (p - 1) * PageTokens, tokens |-> SealedTokens(p)]
          BY <2>4, <3>1, SealedLength
      <4>. QED BY <4>1
    <3>2. CASE ~paged
      <4>1. Sealed = blocks /\ SealedCount = Len(blocks) /\ SealedTokens(p) = blocks[p].tokens
          BY <3>2 DEF Sealed, SealedCount, SealedTokens
      <4>2. blocks[p].start = (p - 1) * PageTokens
          BY <2>1, <2>4, <4>1, Zenon DEF Placed
      <4>. QED BY <4>1, <4>2, Zenon
    <3>. QED BY <3>1, <3>2
  <2>5. /\ Len(appended) = encoded + Len(stage) + Len(dense)
        /\ \A p \in 1..SealedCount :
            /\ Len(SealedTokens(p)) = PageTokens
            /\ \A i \in 1..PageTokens : SealedTokens(p)[i] = appended[(p - 1) * PageTokens + i]
        /\ \A i \in 1..Len(stage) : stage[i] = appended[encoded + i]
        /\ \A i \in 1..Len(dense) : dense[i] = appended[encoded + Len(stage) + i]
      BY <2>1, Zenon DEF Placed
  <2>6. encoded = Len(Sealed) * PageTokens
      BY <2>2, <2>3, Zenon
  <2>. QED BY <2>2, <2>4, <2>5, <2>6, ZenonT(100) DEF Partition
<1>. QED BY <1>1, LayerInvariant, PTL

\* _update_dense_residual and _flush_staging keep window and staging small.
THEOREM LayerBounded == Spec => []Bounded
<1>1. IInv => Bounded
    BY DEF IInv, Placed, Quiet, Bounded
<1>. QED BY <1>1, LayerInvariant, PTL

\* PagedKVArena.append raises only for the limit or for another format.
THEOREM LayerRefusedForCause == Spec => []RefusedForCause
<1>1. IInv => RefusedForCause
    BY DEF IInv, FlushShape, Types, RefusedForCause
<1>. QED BY <1>1, LayerInvariant, PTL

\* PagedKVArena.view: what a kernel reads through a view does not change.
THEOREM LayerViewsStable == Spec => []ViewsStable
<1>1. IInv => ViewsStable
  <2>. SUFFICES ASSUME IInv, NEW v \in views, v.epoch = epoch PROVE Shows(v.view) = v.showed
      BY DEF ViewsStable
  <2>. DEFINE s == stores[v.view.store]
              m == v.view.num
  <2>1. /\ m \in Nat /\ \A p \in 0..(m - 1) : s.table[p] = p
        /\ v.showed = [p \in 1..m |-> s.pages[p - 1]]
      BY DEF IInv, ViewShape
  <2>2. Shows(v.view) = [p \in 1..m |-> s.pages[s.table[p - 1]]]
      BY DEF Shows
  <2>. HIDE DEF s, m
  <2>3. \A p \in 1..m : p - 1 \in 0..(m - 1)
      BY <2>1
  <2>. QED BY <2>1, <2>2, <2>3
<1>. QED BY <1>1, LayerInvariant, PTL

\* PagedKVArena.append and _grow_if_needed: a sealed block is never changed.
THEOREM LayerHistoryImmutable == Spec => HistoryImmutable
<1>1. IInv /\ IInv' /\ [Next]_vars =>
        [epoch' = epoch => /\ Len(Sealed) <= Len(Sealed')
                           /\ \A p \in 1..Len(Sealed) : Sealed'[p] = Sealed[p]]_vars
  <2>. SUFFICES ASSUME IInv, IInv', [Next]_vars, epoch' = epoch
                PROVE  /\ Len(Sealed) <= Len(Sealed')
                       /\ \A p \in 1..Len(Sealed) : Sealed'[p] = Sealed[p]
      OBVIOUS
  <2>1. /\ Len(Sealed) = SealedCount /\ SealedCount \in Nat
        /\ paged => \A p \in 1..SealedCount :
            Sealed[p] = [start |-> (p - 1) * PageTokens, tokens |-> SealedTokens(p)]
      BY SealedLength DEF IInv
  <2>2. /\ Len(Sealed') = SealedCount' /\ SealedCount' \in Nat
        /\ paged' => \A p \in 1..SealedCount' :
            Sealed'[p] = [start |-> (p - 1) * PageTokens, tokens |-> SealedTokens(p)']
    <3>1. ArenaShape' /\ Types'
        BY DEF IInv
    <3>. QED BY <3>1, SealedFactsNext
  <2>3. CASE FlushToArena
    <3>1. SealedCount' = SealedCount + 1
          /\ \A p \in 1..SealedCount : SealedTokens(p)' = SealedTokens(p)
        BY <2>3, LayerFlushToArena
    <3>2. paged /\ paged'
        BY <2>3 DEF FlushToArena, config
    <3>3. \A p \in 1..SealedCount : p \in 1..SealedCount'
        BY <2>1, <3>1
    <3>4. \A p \in 1..SealedCount : Sealed'[p] = Sealed[p]
        BY <2>1, <2>2, <3>1, <3>2, <3>3, Zenon
    <3>5. SealedCount <= SealedCount'
        BY <2>1, <3>1
    <3>. QED BY <2>1, <2>2, <3>4, <3>5
  <2>4. CASE FlushToList
    <3>1. Len(blocks) <= Len(blocks') /\ \A p \in 1..Len(blocks) : blocks'[p] = blocks[p]
        BY <2>4, LayerFlushToList
    <3>2. Sealed = blocks /\ Sealed' = blocks'
        BY <2>4 DEF FlushToList, Sealed, config
    <3>. QED BY <3>1, <3>2, Zenon
  <2>5. CASE Reset \/ Destroy
      BY <2>5 DEF Reset, Destroy, Cleared, IInv, Types
  <2>6. CASE UNCHANGED <<arenaVars, blocks, paged>>
    <3>1. Sealed' = Sealed
        BY <2>6 DEF Sealed, ArenaBlocks, Store, arenaVars
    <3>. QED BY <2>1, <3>1
  <2>7. ASSUME NEW g \in Geometry, NEW n \in 1..MaxAppend, AppendTokens(g, n)
        PROVE  UNCHANGED <<arenaVars, blocks, paged>>
      BY <2>7 DEF AppendTokens, config
  <2>8. FlushRaises \/ FlushEnds \/ TakeView \/ UNCHANGED vars
        => UNCHANGED <<arenaVars, blocks, paged>>
      BY DEF FlushRaises, FlushEnds, TakeView, vars, cacheVars, config
  <2>. QED BY <2>3, <2>4, <2>5, <2>6, <2>7, <2>8 DEF Next
<1>. QED BY <1>1, LayerInvariant, PTL DEF Spec, HistoryImmutable
=============================================================================
