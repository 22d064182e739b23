----------------------------- MODULE MCMonitor -----------------------------
(* Model checking of Monitor: two files of sizes 1 and 2 in a memory of 3, *)
(* two threads, a machine word of 16, 1 used according to the control      *)
(* group: without a limit files of size 1 are admitted, others not.        *)
EXTENDS Monitor, TLC

CONSTANTS f1, f2, t1, t2
MCFiles == {f1, f2}
MCThreads == {t1, t2}
MCSizes == {1, 2}
MCUsages == {1}
Symmetry == Permutations(MCFiles) \cup Permutations(MCThreads)
=============================================================================
