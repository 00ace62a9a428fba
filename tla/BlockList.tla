----------------------------- MODULE BlockList ------------------------------
(***************************************************************************)
(* FreeKVCacheBlockQueue, rfsn_v11/cache/paged_cache.py: the free blocks   *)
(* as a doubly linked list between two sentinels, and a separate count.    *)
(*                                                                         *)
(* A list is a record: next and prev are the two pointers of each block    *)
(* and sentinel (Nil for None), num is num_free_blocks.  The operations    *)
(* are operators from list to list.  They perform the assignments in the   *)
(* code's order, so that they say as well what happens to a block that is  *)
(* in the list already; only PoppedLeftN and AppendedN assume a list with  *)
(* num blocks and blocks outside it.                                       *)
(***************************************************************************)
EXTENDS Integers, FiniteSets, SequencesExt

CONSTANTS
    Block,
    FakeHead, FakeTail,   \* the sentinels
    Nil                   \* None

ASSUME BlockListAssumption ==
    /\ IsFiniteSet(Block)
    /\ FakeHead # FakeTail
    /\ FakeHead \notin Block
    /\ FakeTail \notin Block
    /\ Nil \notin Block \cup {FakeHead, FakeTail}

Node == Block \cup {FakeHead, FakeTail}
Lists == [next : [Node -> Node \cup {Nil}], prev : [Node -> Node \cup {Nil}], num : Int]

FirstFree(q) == q.next[FakeHead]

\* __init__: the blocks of s, in this order.
ListOf(s) ==
    LET Place(b) == CHOOSE i \in DOMAIN s : s[i] = b
        Before(i) == IF i = 0 THEN FakeHead ELSE s[i]
        After(i) == IF i = Len(s) + 1 THEN FakeTail ELSE s[i]
    IN  [next |-> [v \in Node |-> CASE v = FakeHead -> After(1)
                                    [] v = FakeTail -> Nil
                                    [] OTHER -> After(Place(v) + 1)],
         prev |-> [v \in Node |-> CASE v = FakeHead -> Nil
                                    [] v = FakeTail -> Before(Len(s))
                                    [] OTHER -> Before(Place(v) - 1)],
         num |-> Len(s)]

\* Mutants: the block that is taken keeps its pointers, or stays counted.
PoppedLinked(q) ==
    LET after == q.next[FirstFree(q)]
    IN  [next |-> [q.next EXCEPT ![FakeHead] = after],
         prev |-> [q.prev EXCEPT ![after] = FakeHead],
         num |-> q.num - 1]

PoppedUncounted(q) ==
    LET b == FirstFree(q)
    IN  [next |-> [q.next EXCEPT ![FakeHead] = q.next[b], ![b] = Nil],
         prev |-> [q.prev EXCEPT ![q.next[b]] = FakeHead, ![b] = Nil],
         num |-> q.num]

\* popleft takes FirstFree(q), which it asserts to be a block.
PoppedLeft(q) ==
    LET b == FirstFree(q)
        after == q.next[b]
    IN  [next |-> [q.next EXCEPT ![FakeHead] = after, ![b] = Nil],
         prev |-> [v \in Node |-> CASE v = b -> Nil
                                    [] v = after /\ v # b -> FakeHead
                                    [] OTHER -> q.prev[v]],
         num |-> q.num - 1]

\* The i-th node behind the head.
Reached(q, n) ==
    LET node[i \in 0..n] == IF i = 0 THEN FakeHead ELSE q.next[node[i - 1]]
    IN  node

\* popleft_n takes the first n nodes.
PoppedLeftN(q, n) ==
    LET node == Reached(q, n + 1)
        taken == {node[i] : i \in 1..n}
    IN  [next |-> [v \in Node |-> CASE v = FakeHead -> node[n + 1]
                                    [] v \in taken -> Nil
                                    [] OTHER -> q.next[v]],
         prev |-> [v \in Node |-> CASE v \in taken -> Nil
                                    [] v = node[n + 1] -> FakeHead
                                    [] OTHER -> q.prev[v]],
         num |-> q.num - n]

\* remove raises RuntimeError for a block without both pointers.
Removable(q, b) == q.prev[b] # Nil /\ q.next[b] # Nil

Removed(q, b) ==
    LET unlinked == [q.next EXCEPT ![q.prev[b]] = q.next[b]]
    IN  [next |-> [unlinked EXCEPT ![b] = Nil],
         prev |-> [q.prev EXCEPT ![unlinked[b]] = q.prev[b], ![b] = Nil],
         num |-> q.num - 1]

\* Mutant: behind the head instead of before the tail.
Prepended1(q, b) ==
    LET first == q.next[FakeHead]
    IN  [next |-> [q.next EXCEPT ![FakeHead] = b, ![b] = first],
         prev |-> [q.prev EXCEPT ![first] = b, ![b] = FakeHead],
         num |-> q.num + 1]

\* append
Appended1(q, b) ==
    LET last == q.prev[FakeTail]
    IN  [next |-> [q.next EXCEPT ![last] = b, ![b] = FakeTail],
         prev |-> [q.prev EXCEPT ![b] = last, ![FakeTail] = b],
         num |-> q.num + 1]

\* Mutant: a whole batch counts as one block.
CountedOnce(q, s) == q.num + 1

\* num_free_blocks after append_n
Counted(q, s) == q.num + Len(s)

\* append_n links the blocks of s behind the last one, then the tail.
AppendedN(q, s) ==
    IF s = <<>> THEN q
    ELSE LET Place(b) == CHOOSE i \in DOMAIN s : s[i] = b
             last == q.prev[FakeTail]
         IN  [next |-> [v \in Node |->
                          CASE v \in ToSet(s) -> IF Place(v) = Len(s) THEN FakeTail ELSE s[Place(v) + 1]
                            [] v = last -> s[1]
                            [] OTHER -> q.next[v]],
              prev |-> [v \in Node |->
                          CASE v \in ToSet(s) -> IF Place(v) = 1 THEN last ELSE s[Place(v) - 1]
                            [] v = FakeTail -> s[Len(s)]
                            [] OTHER -> q.prev[v]],
              num |-> Counted(q, s)]

Linked(q, b) == q.next[b] # Nil \/ q.prev[b] # Nil

\* The list holds the blocks of s, in this order.
Represents(q, s) ==
    LET n == Len(s)
        At(i) == IF i = 0 THEN FakeHead ELSE IF i = n + 1 THEN FakeTail ELSE s[i]
    IN  /\ IsInjective(s)
        /\ q.num = n
        /\ \A i \in 0..n : q.next[At(i)] = At(i + 1) /\ q.prev[At(i + 1)] = At(i)
        /\ q.prev[FakeHead] = Nil /\ q.next[FakeTail] = Nil
        /\ \A b \in Block \ ToSet(s) : q.next[b] = Nil /\ q.prev[b] = Nil

\* What a walk from the head to the tail finds.
Listed(q) == Tail([i \in 1..(q.num + 1) |-> Reached(q, q.num)[i - 1]])
=============================================================================
