--------------------------- MODULE MCPrefixCache ---------------------------
(* PrefixCache on small instances for TLC: two tokens, blocks of two.      *)
EXTENDS PrefixCache, TLC

CONSTANTS r1, r2, r3, b1, b2, b3

Tokens == {1, 2}

Callers2 == {r1, r2}
Callers3 == {r1, r2, r3}
Blocks2 == {b1, b2}
Blocks3 == {b1, b2, b3}

\* Sequences that share a first block, end in a partial block and grow from
\* it; sequences that fill their blocks and differ in the last one.
Texts == {<<1, 1, 1>>, <<1, 1, 1, 2>>}
TrimTexts == {<<1, 1, 2, 1>>, <<2, 2>>}
FullTexts == {<<1, 1>>, <<1, 1, 2, 1>>}

Priorities == <<"assistant", "user">>
OneType == <<"assistant">>

Every == {{"trim", "fork", "grow", "reject"}, {"release"}}
Trims == {{"trim"}}
Releases == {{"release"}}
FullStates == {{"full"}}

Symmetric == Permutations(Request) \cup Permutations(Block)
=============================================================================
