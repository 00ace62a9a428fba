---------------------------- MODULE RequestMemory ----------------------------
(***************************************************************************)
(* What PagedCacheManager promises a request: a KV memory of its own.      *)
(* view[r] is the sequence of block contents r reads through its block     *)
(* table.  Only r's own calls change it: a lookup extends it with the next *)
(* block of r's prompt, whoever computed that block; r appends, overwrites *)
(* its last block, cuts it back, drops it, or starts as a copy of another  *)
(* request.  Sharing, copy-on-write, eviction, reuse of a freed block and  *)
(* promotion from disk are not visible.                                    *)
(***************************************************************************)
EXTENDS Integers, Sequences

CONSTANTS Request, Hash, Prompt, NoHash, MaxTable

VARIABLES view, prompt

Init ==
    /\ view = [r \in Request |-> <<>>]
    /\ prompt = [r \in Request |-> <<>>]

Begin(r, p) ==
    /\ view[r] = <<>>
    /\ prompt' = [prompt EXCEPT ![r] = p]
    /\ UNCHANGED view

\* The i-th block of r holds what r asked for, or would have computed.
Expected(r, i) == IF i <= Len(prompt[r]) THEN prompt[r][i] ELSE r

Extend(r, n) ==
    LET old == Len(view[r])
    IN  /\ view' = [view EXCEPT ![r] =
              [i \in 1..(old + n) |-> IF i <= old THEN view[r][i] ELSE Expected(r, i)]]
        /\ UNCHANGED prompt

Overwrite(r) ==
    /\ Len(view[r]) > Len(prompt[r])
    /\ view' = [view EXCEPT ![r] = [@ EXCEPT ![Len(@)] = r]]
    /\ UNCHANGED prompt

Fork(r, s) ==
    /\ view[s] = <<>>
    /\ view' = [view EXCEPT ![s] = view[r]]
    /\ prompt' = [prompt EXCEPT ![s] = prompt[r]]

CutBack(r) ==
    /\ view[r] # <<>>
    /\ view' = [view EXCEPT ![r] = SubSeq(@, 1, Len(@) - 1)]
    /\ UNCHANGED prompt

Drop(r) ==
    /\ view' = [view EXCEPT ![r] = <<>>]
    /\ prompt' = [prompt EXCEPT ![r] = <<>>]

Next == \E r \in Request :
    \/ \E p \in Prompt : Begin(r, p)
    \/ \E n \in 1..MaxTable : Extend(r, n)
    \/ Overwrite(r)
    \/ \E s \in Request : Fork(r, s)
    \/ CutBack(r)
    \/ Drop(r)

Spec == Init /\ [][Next]_<<view, prompt>>
=============================================================================
