-------------------------- MODULE MCFreeBlockQueue --------------------------
(* FreeBlockQueue on small instances for TLC.                              *)
EXTENDS FreeBlockQueue, TLC

CONSTANTS b1, b2, b3, b4, b5

Blocks5 == {b1, b2, b3, b4, b5}
=============================================================================
