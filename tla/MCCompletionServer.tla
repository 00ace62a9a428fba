------------------------- MODULE MCCompletionServer -------------------------
(* CompletionServer on small instances for TLC.                            *)
EXTENDS CompletionServer

CONSTANTS q1, q2, q3

Requests2 == {q1, q2}
Requests3 == {q1, q2, q3}
=============================================================================
