-------------------------- MODULE MCDiskPersistence --------------------------
(* DiskPersistence on small instances for TLC.                              *)
EXTENDS DiskPersistence, TLC

CONSTANTS k1, k2, k3

Keys3 == {k1, k2, k3}
=============================================================================
