------------------------------- MODULE MCWire -------------------------------
(* Instances of Wire for TLC.                                              *)
EXTENDS Wire

CONSTANTS c1, c2
AnyAndMeta == [c \in Conns |-> IF c = c1 THEN Kinds ELSE {"meta"}]
=============================================================================
