---------------------------- MODULE MCAsyncWriter ----------------------------
(* AsyncWriter on small instances for TLC.                                  *)
EXTENDS AsyncWriter, TLC

CONSTANTS t1, t2

TwoTasks == <<t1, t1, t2>>
=============================================================================
