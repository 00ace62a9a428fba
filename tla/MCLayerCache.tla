---------------------------- MODULE MCLayerCache ----------------------------
(* LayerCache on a small instance for TLC.                                 *)
EXTENDS LayerCache

CONSTANTS g1, g2

Geometries2 == {g1, g2}
=============================================================================
