---------------------------- MODULE MCPagedCache ----------------------------
(* PagedCache on small instances for TLC.                                  *)
EXTENDS PagedCache, TLC

CONSTANTS r1, r2, b1, b2, b3, h0, h1

Callers2 == {r1, r2}
Blocks3 == {b1, b2, b3}
TwoHashes == {h0, h1}

\* Everyone asks the same prompt, and continues it alone.
OnePrompt == {<<h0, h1>>}

Symmetric == Permutations(Request) \cup Permutations(Block)
=============================================================================
