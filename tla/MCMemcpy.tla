----------------------------- MODULE MCMemcpy -----------------------------
(***************************************************************************)
(* Small instances of Memcpy for TLC: one tensor of every size around the  *)
(* boundaries of threads and blocks, and two tensors.                      *)
(***************************************************************************)
EXTENDS Memcpy
MCCheckpoints == {<<>>} \cup {<<n>> : n \in 0 .. 13} \cup {<<5, 8>>, <<12, 3>>}
=============================================================================
