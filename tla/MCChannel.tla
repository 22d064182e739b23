---------------------------- MODULE MCChannel ----------------------------
(***************************************************************************)
(* Small instances of Channel for TLC.                                     *)
(***************************************************************************)
EXTENDS Channel
CONSTANTS p1, p2, p3, r1, r2
=============================================================================
