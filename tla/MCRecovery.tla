---------------------------- MODULE MCRecovery ----------------------------
(***************************************************************************)
(* Small instances of Recovery for TLC: node 0 saves f1 and f2 in          *)
(* iteration 1 and f3 in iteration 2, node 1 saves f4.                     *)
(***************************************************************************)
EXTENDS Recovery, TLC
CONSTANTS f1, f2, f3, f4
MCOwner == [f \in Files |-> IF f = f4 THEN 1 ELSE 0]
MCIter == [f \in Files |-> IF f = f3 THEN 2 ELSE 1]
(* f1 and f2 have the same owner and the same iteration.                   *)
MCSymmetry == Permutations({f1, f2})
=============================================================================
