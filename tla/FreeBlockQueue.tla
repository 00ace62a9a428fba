--------------------------- MODULE FreeBlockQueue ---------------------------
(***************************************************************************)
(* The free queue of PagedCacheManager as the code keeps it, a BlockList,  *)
(* under the discipline of its callers: PagedCache's FreeQueueExact says   *)
(* that only blocks outside the queue are ever appended.                   *)
(***************************************************************************)
EXTENDS BlockList

VARIABLE list

QueueInit == \E s \in SetToSeqs(Block) : list = ListOf(s)

PopLeft == FirstFree(list) # FakeTail /\ list' = PoppedLeft(list)

PopLeftN(n) == n <= list.num /\ list' = PoppedLeftN(list, n)

\* touch finds the block under its hash, anywhere in the list.
RemoveBlock(b) == Removable(list, b) /\ list' = Removed(list, b)

Append1(b) == ~ Linked(list, b) /\ list' = Appended1(list, b)

AppendN(s) == (\A b \in ToSet(s) : ~ Linked(list, b)) /\ list' = AppendedN(list, s)

QueueNext ==
    \/ PopLeft
    \/ \E n \in 1..Cardinality(Block) : PopLeftN(n)
    \/ \E b \in Block : RemoveBlock(b) \/ Append1(b)
    \/ \E S \in SUBSET Block : \E s \in SetToSeqs(S) : AppendN(s)

QueueSpec == QueueInit /\ [][QueueNext]_list

-----------------------------------------------------------------------------
\* Pointers lead to nodes or nowhere, and the count is within the pool.
QueueTypeOK == list \in Lists /\ list.num \in 0..Cardinality(Block)

\* The two directions agree, the count is the length of the list, and only
\* blocks outside the list are without pointers.  touch, increment_ref and
\* release_request_refs rely on the last part to tell a free block.
WellLinked == Represents(list, Listed(list))

FIFO == INSTANCE BlockFIFO WITH order <- Listed(list)

\* The pointer operations of the code implement the sequence that PagedCache
\* works with: what is appended comes out last, what is removed never.
FIFOSpec == FIFO!Spec
=============================================================================
