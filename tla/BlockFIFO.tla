------------------------------ MODULE BlockFIFO ------------------------------
(***************************************************************************)
(* What FreeKVCacheBlockQueue (rfsn_v11/cache/paged_cache.py) promises the *)
(* pool: a duplicate-free sequence of blocks.  This is the queue that      *)
(* PagedCache uses (freeQueue).                                            *)
(***************************************************************************)
EXTENDS Integers, FiniteSets, SequencesExt

CONSTANT Block

VARIABLE order

\* All blocks are free, in whatever order their ids have.
Init == order \in SetToSeqs(Block)

PopLeft == order # <<>> /\ order' = Tail(order)

PopLeftN(n) == n <= Len(order) /\ order' = SubSeq(order, n + 1, Len(order))

RemoveBlock(b) == \E i \in DOMAIN order : order[i] = b /\ order' = RemoveAt(order, i)

Append1(b) == b \notin ToSet(order) /\ order' = Append(order, b)

AppendN(s) == ToSet(s) \cap ToSet(order) = {} /\ order' = order \o s

Next ==
    \/ PopLeft
    \/ \E n \in 1..Cardinality(Block) : PopLeftN(n)
    \/ \E b \in Block : RemoveBlock(b) \/ Append1(b)
    \/ \E S \in SUBSET Block : \E s \in SetToSeqs(S) : AppendN(s)

Spec == Init /\ [][Next]_order
=============================================================================
