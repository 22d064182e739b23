------------------------------ MODULE Transfer ------------------------------
(***************************************************************************)
(* What a backup or a load between two nodes promises its caller, without  *)
(* sockets, queue pairs and messages: the server accepts the request, data *)
(* moves chunk by chunk, and neither the caller is told of success nor the *)
(* server's workers of a new key before everything has moved.              *)
(***************************************************************************)
EXTENDS Integers

CONSTANTS Operations, Sizes

VARIABLES
  need,                 \* chunks the operation has to move
  accepted, moved,      \* operations the server agreed to, chunks moved
  queued, result        \* keys the server queued, what the caller was told

Init ==
  /\ need = [o \in Operations |-> 0]
  /\ accepted = {}
  /\ moved = [o \in Operations |-> 0]
  /\ queued = {}
  /\ result = [o \in Operations |-> "none"]

Complete(o) == o \in accepted /\ moved[o] = need[o]

(* A metadata-only request moves nothing.                                  *)
Request(o, n) ==
  /\ o \notin accepted
  /\ need' = [need EXCEPT ![o] = n]
  /\ UNCHANGED <<accepted, moved, queued, result>>

Accept(o) ==
  /\ accepted' = accepted \cup {o}
  /\ UNCHANGED <<need, moved, queued, result>>

Move(o) ==
  /\ o \in accepted
  /\ result[o] = "none"
  /\ moved' = [moved EXCEPT ![o] = @ + 1]
  /\ UNCHANGED <<need, accepted, queued, result>>

Queue(o) ==
  /\ Complete(o)
  /\ queued' = queued \cup {o}
  /\ UNCHANGED <<need, accepted, moved, result>>

Confirm(o) ==
  /\ result[o] = "none"
  /\ Complete(o)
  /\ result' = [result EXCEPT ![o] = "ok"]
  /\ UNCHANGED <<need, accepted, moved, queued>>

Fail(o) ==
  /\ result[o] = "none"
  /\ result' = [result EXCEPT ![o] = "failed"]
  /\ UNCHANGED <<need, accepted, moved, queued>>

Next ==
  \E o \in Operations :
    \/ \E n \in Sizes : Request(o, n)
    \/ Accept(o) \/ Move(o) \/ Queue(o) \/ Confirm(o) \/ Fail(o)

TransferSpec == Init /\ [][Next]_<<need, accepted, moved, queued, result>>
=============================================================================
