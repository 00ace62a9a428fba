--------------------------- MODULE MCDecodeRuntime ---------------------------
(* DecodeRuntime on small instances for TLC.                                *)
EXTENDS DecodeRuntime, TLC

CONSTANTS k1, k2, k3, p1

Keys3 == {k1, k2, k3}
OneProfile == {p1}
SameProfile == [k \in Keys3 |-> p1]
\* A context of one block, and two longer ones.
Lengths == k1 :> 1 @@ k2 :> 4 @@ k3 :> 4
Estimates == k1 :> 1 @@ k2 :> 2 @@ k3 :> 2
Footprints == k1 :> 1 @@ k2 :> 2 @@ k3 :> 2

Config(guarded, evicts, adaptive, readBack, upcast) ==
    [guarded |-> guarded, evicts |-> evicts, adaptive |-> adaptive, audit |-> adaptive,
     sparse |-> TRUE, readBack |-> readBack, upcast |-> upcast]
Configs4 ==
    {Config(TRUE, TRUE, FALSE, TRUE, TRUE),
     Config(TRUE, TRUE, TRUE, TRUE, FALSE),
     Config(TRUE, FALSE, FALSE, FALSE, FALSE),
     Config(FALSE, FALSE, TRUE, TRUE, FALSE)}
=============================================================================
