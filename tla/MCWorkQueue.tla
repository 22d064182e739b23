---------------------------- MODULE MCWorkQueue ----------------------------
(* Model checking of WorkQueue.                                            *)
EXTENDS WorkQueue
=============================================================================
