------------------------------ MODULE MCLoader ------------------------------
(* Instances of Loader for TLC.                                            *)
EXTENDS Loader

CONSTANTS f1, f2
HereAndThere == [f \in Files |-> IF f = f1 THEN {"own", "backup"} ELSE {"remote"}]
=============================================================================
