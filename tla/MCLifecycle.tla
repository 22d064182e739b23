---------------------------- MODULE MCLifecycle ----------------------------
(***************************************************************************)
(* Small instances of Lifecycle for TLC: all files belong to node 0, which *)
(* has two workers; the next node of the ring has one.                     *)
(***************************************************************************)
EXTENDS Lifecycle

CONSTANTS f1, f2, f3, w1, w2, w3

MCNodeOf == [w \in Workers |-> IF w = w3 THEN 1 ELSE 0]
MCOwner == [f \in Files |-> 0]
(* f1 and f3 are checkpoints of iteration 1, f2 of iteration 1 or 2.       *)
MCIters == [f \in Files |-> IF f = f2 THEN {1, 2} ELSE {1}]
(* One file name for all iterations.                                       *)
MCManyIters == [f \in Files |-> {1, 2}]
=============================================================================
