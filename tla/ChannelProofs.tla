--------------------------- MODULE ChannelProofs ---------------------------
(***************************************************************************)
(* Proofs about Channel, for every capacity and every number of threads.   *)
(***************************************************************************)
EXTENDS Channel, SequenceTheorems, TLAPS

Elem == 1 .. MaxPushes

(* The parts of the channel that its order and its capacity depend on: a   *)
(* writer at or before the lock has a numbered element in hand, history    *)
(* and queue agree, and the queue is within its capacity.                  *)
Shape ==
  /\ queue_ \in Seq(Elem) /\ put \in Seq(Elem) /\ taken \in Seq(Elem)
  /\ pc \in [Threads -> WriterPCs \cup ReaderPCs]
  /\ val \in [Threads -> Nat]
  /\ pushes \in 0 .. MaxPushes
  /\ cnd_ \subseteq {t \in Threads : pc[t] \in {"wait", "next_wait", "read_wait"}}
  /\ \A t \in Threads : pc[t] \in {"lock", "wait"} => val[t] \in Elem
Bound == Cap > 0 => Len(queue_) <= Cap
ChannelInv == Shape /\ InOrder /\ Bound

(* A thread that moves to a step where it holds no element to push, and    *)
(* does not leave cnd_ behind, keeps the shape.                            *)
LEMMA GoesShape ==
  ASSUME Shape, NEW t \in Threads, NEW l \in WriterPCs \cup ReaderPCs, Goes(t, l),
         l \in {"lock", "wait"} => val'[t] \in Elem,
         val' \in [Threads -> Nat], \A u \in Threads \ {t} : val'[u] = val[u],
         cnd_' \subseteq {u \in Threads : pc'[u] \in {"wait", "next_wait", "read_wait"}},
         pushes' \in 0 .. MaxPushes,
         queue_' \in Seq(Elem), put' \in Seq(Elem), taken' \in Seq(Elem)
  PROVE  Shape'
<1>1. pc' \in [Threads -> WriterPCs \cup ReaderPCs]
  BY DEF Shape, Goes
<1>2. \A u \in Threads : pc'[u] = IF u = t THEN l ELSE pc[u]
  BY DEF Shape, Goes
<1>3. \A u \in Threads : pc'[u] \in {"lock", "wait"} => val'[u] \in Elem
  BY <1>2 DEF Shape
<1> QED
  BY <1>1, <1>3 DEF Shape

(* The sleepers of another thread stay asleep when t, awake, moves.        *)
LEMMA SleepersStay ==
  ASSUME Shape, NEW t \in Threads, NEW l, Goes(t, l), UNCHANGED cnd_,
         pc[t] \notin {"wait", "next_wait", "read_wait"}
  PROVE  cnd_' \subseteq {u \in Threads : pc'[u] \in {"wait", "next_wait", "read_wait"}}
  BY DEF Shape, Goes

LEMMA FallAsleep ==
  ASSUME Shape, NEW t \in Threads, NEW l \in {"wait", "next_wait", "read_wait"},
         Goes(t, l), cnd_' = cnd_ \cup {t}
  PROVE  cnd_' \subseteq {u \in Threads : pc'[u] \in {"wait", "next_wait", "read_wait"}}
  BY DEF Shape, Goes

(* Appending and removing the front keep history and queue in step.        *)
LEMMA PushInOrder ==
  ASSUME NEW k \in Seq(Elem), NEW q \in Seq(Elem), NEW x \in Elem
  PROVE  Append(k \o q, x) = k \o Append(q, x)
<1>1. Append(k \o q, x) = (k \o q) \o <<x>>
  BY AppendIsConcat, ConcatProperties
<1>2. Append(q, x) = q \o <<x>>
  BY AppendIsConcat
<1>3. <<x>> \in Seq(Elem)
  OBVIOUS
<1>4. (k \o q) \o <<x>> = k \o (q \o <<x>>)
  BY <1>3, ConcatAssociative
<1> QED
  BY <1>1, <1>2, <1>4

LEMMA PopInOrder ==
  ASSUME NEW S, NEW k \in Seq(S), NEW q \in Seq(S), q # <<>>
  PROVE  /\ k \o q = Append(k, Head(q)) \o Tail(q)
         /\ Tail(q) \in Seq(S) /\ Head(q) \in S /\ Len(Tail(q)) = Len(q) - 1
         /\ (k \o q)[Len(k) + 1] = Head(q)
         /\ Len(k) < Len(k \o q)
<1>1. Tail(q) \in Seq(S) /\ Head(q) \in S /\ Len(Tail(q)) = Len(q) - 1
      /\ Len(q) \in Nat \ {0} /\ Head(q) = q[1]
  OBVIOUS
<1>2. (k \o q)[Len(k) + 1] = Head(q)
  BY <1>1
<1>3. k \o q = Append(k, Head(q)) \o Tail(q)
  BY <1>1
<1>4. Len(k) < Len(k \o q)
  BY <1>1
<1> QED
  BY <1>1, <1>2, <1>3, <1>4

(* Steps that leave the queue and the history alone leave order and bound. *)
LEMMA QueueFrame ==
  ASSUME InOrder, Bound, UNCHANGED <<queue_, put, taken>>
  PROVE  InOrder' /\ Bound'
  BY DEF InOrder, Bound

(* A sleeper that is woken goes back to its predicate with its element.    *)
LEMMA WokenPC ==
  ASSUME NEW l \in {"wait", "next_wait", "read_wait"}
  PROVE  /\ Woken(l) \in WriterPCs \cup ReaderPCs
         /\ Woken(l) \in {"lock", "wait"} => l = "wait"
  BY DEF Woken, WriterPCs, ReaderPCs

-----------------------------------------------------------------------------
(* The operations, one lemma each. A step keeps the invariant, and is a    *)
(* step of the abstract FIFO or leaves both of its variables alone.        *)
Simulates == F!FifoNext \/ UNCHANGED <<put, taken>>

LEMMA WriteBeginStep ==
  ASSUME ChannelAssumption, ChannelInv, NEW t \in Writers, WriteBegin(t)
  PROVE  ChannelInv' /\ Simulates
<1> USE DEF ChannelInv
<1>1. t \in Threads
  BY DEF Threads
<1>2. pushes' \in 0 .. MaxPushes /\ pushes + 1 \in Elem
  BY DEF WriteBegin, Shape, ChannelAssumption, Elem
<1>3. CASE is_closed_ /\ Goes(t, "threw") /\ UNCHANGED val
  <2>1. "threw" \in WriterPCs \cup ReaderPCs /\ "threw" \notin {"lock", "wait"}
    BY DEF WriterPCs
  <2>2. cnd_' \subseteq {u \in Threads : pc'[u] \in {"wait", "next_wait", "read_wait"}}
    BY <1>1, <1>3, SleepersStay DEF WriteBegin
  <2> QED
    BY <1>1, <1>2, <1>3, <2>1, <2>2, GoesShape, QueueFrame
       DEF WriteBegin, Simulates, Shape
<1>4. CASE /\ ~is_closed_
           /\ val' = [val EXCEPT ![t] = pushes + 1]
           /\ Goes(t, "lock")
  <2>1. "lock" \in WriterPCs \cup ReaderPCs
    BY DEF WriterPCs
  <2>2. cnd_' \subseteq {u \in Threads : pc'[u] \in {"wait", "next_wait", "read_wait"}}
    BY <1>1, <1>4, SleepersStay DEF WriteBegin
  <2>3. /\ val' \in [Threads -> Nat] /\ val'[t] \in Elem
        /\ \A u \in Threads \ {t} : val'[u] = val[u]
    BY <1>1, <1>2, <1>4 DEF Shape, Elem
  <2> QED
    BY <1>1, <1>2, <1>4, <2>1, <2>2, <2>3, GoesShape, QueueFrame
       DEF WriteBegin, Simulates, Shape
<1> QED
  BY <1>3, <1>4 DEF WriteBegin

LEMMA WriteStep ==
  ASSUME ChannelAssumption, ChannelInv, NEW t \in Writers, Write(t)
  PROVE  ChannelInv' /\ Simulates
<1> USE DEF ChannelInv
<1>1. t \in Threads /\ val[t] \in Elem /\ Cap \in Nat
  BY DEF Threads, Write, Shape, ChannelAssumption
<1>2. /\ "notify" \in WriterPCs \cup ReaderPCs /\ "notify" \notin {"lock", "wait"}
      /\ "wait" \in WriterPCs \cup ReaderPCs
  BY DEF WriterPCs
<1>3. CASE /\ ~Full
           /\ queue_' = Append(queue_, val[t])
           /\ put' = Append(put, val[t])
           /\ Goes(t, "notify")
           /\ UNCHANGED cnd_
  <2>1. /\ queue_' \in Seq(Elem) /\ put' \in Seq(Elem)
        /\ Len(queue_') = Len(queue_) + 1 /\ Len(queue_) \in Nat
    BY <1>1, <1>3, AppendProperties DEF Shape
  <2>2. cnd_' \subseteq {u \in Threads : pc'[u] \in {"wait", "next_wait", "read_wait"}}
    BY <1>1, <1>3, SleepersStay DEF Write
  <2>3. Shape'
    BY <1>1, <1>2, <1>3, <2>1, <2>2, GoesShape DEF Write, Shape
  <2>4. InOrder'
    <3>1. queue_ \in Seq(Elem) /\ put \in Seq(Elem) /\ taken \in Seq(Elem)
          /\ put = taken \o queue_
      BY DEF Shape, InOrder
    <3>2. Append(put, val[t]) = taken \o Append(queue_, val[t])
      BY <1>1, <3>1, PushInOrder
    <3>3. taken' = taken
      BY DEF Write
    <3> QED
      BY <1>3, <3>2, <3>3 DEF InOrder
  <2>5. Bound' /\ (Cap > 0 => Len(queue_) < Cap)
    BY <1>1, <1>3, <2>1 DEF Bound, Full
  <2>6. Len(put) = Len(taken) + Len(queue_) /\ Len(taken) \in Nat
    BY ConcatProperties DEF InOrder, Shape
  <2>7. F!Send(val[t])
    BY <1>1, <1>3, <2>1, <2>5, <2>6 DEF F!Send, Write
  <2> QED
    BY <1>1, <2>3, <2>4, <2>5, <2>7 DEF Simulates, F!FifoNext, Elem
<1>4. CASE /\ Full
           /\ cnd_' = cnd_ \cup {t}
           /\ Goes(t, "wait")
           /\ UNCHANGED <<queue_, put>>
  <2>1. cnd_' \subseteq {u \in Threads : pc'[u] \in {"wait", "next_wait", "read_wait"}}
    BY <1>1, <1>4, FallAsleep
  <2> QED
    BY <1>1, <1>2, <1>4, <2>1, GoesShape, QueueFrame DEF Write, Simulates, Shape
<1> QED
  BY <1>3, <1>4 DEF Write

LEMMA CloseStep ==
  ASSUME ChannelAssumption, ChannelInv, NEW t \in Writers, Close(t)
  PROVE  ChannelInv' /\ Simulates
<1> USE DEF ChannelInv
<1>1. t \in Threads
  BY DEF Threads
<1>2. "notify_all" \in WriterPCs \cup ReaderPCs /\ "notify_all" \notin {"lock", "wait"}
  BY DEF WriterPCs
<1>3. cnd_' \subseteq {u \in Threads : pc'[u] \in {"wait", "next_wait", "read_wait"}}
  BY <1>1, SleepersStay DEF Close
<1> QED
  BY <1>1, <1>2, <1>3, GoesShape, QueueFrame DEF Close, Simulates, Shape

LEMMA NotifyOneStep ==
  ASSUME ChannelAssumption, ChannelInv, NEW t \in Threads, NotifyOne(t)
  PROVE  ChannelInv' /\ Simulates
<1> USE DEF ChannelInv
<1> DEFINE back == IF t \in Writers THEN "idle" ELSE "handle"
<1>1. back \in WriterPCs \cup ReaderPCs /\ back \notin {"lock", "wait"}
  BY DEF WriterPCs, ReaderPCs
<1>2. CASE cnd_ = {} /\ Goes(t, back) /\ UNCHANGED cnd_
  <2> HIDE DEF back
  <2>1. cnd_' \subseteq {u \in Threads : pc'[u] \in {"wait", "next_wait", "read_wait"}}
    BY <1>2
  <2> QED
    BY <1>1, <1>2, <2>1, GoesShape, QueueFrame DEF NotifyOne, Simulates, Shape
<1>3. ASSUME NEW u \in cnd_, cnd_' = cnd_ \ {u},
             pc' = [pc EXCEPT ![t] = back, ![u] = Woken(pc[u])]
      PROVE  Shape'
  <2> HIDE DEF back
  <2>1. u \in Threads /\ pc[u] \in {"wait", "next_wait", "read_wait"} /\ u # t
    BY DEF Shape, NotifyOne
  <2>2. /\ Woken(pc[u]) \in WriterPCs \cup ReaderPCs
        /\ Woken(pc[u]) \in {"lock", "wait"} => pc[u] = "wait"
    BY <2>1, WokenPC
  <2>3. /\ pc' \in [Threads -> WriterPCs \cup ReaderPCs]
        /\ pc'[t] = back /\ pc'[u] = Woken(pc[u])
        /\ \A v \in Threads \ {t, u} : pc'[v] = pc[v]
    BY <1>1, <1>3, <2>1, <2>2 DEF Shape
  <2>4. UNCHANGED <<queue_, val, pushes, put, taken>>
    BY DEF NotifyOne
  <2>5. \A v \in Threads : pc'[v] \in {"lock", "wait"} => val[v] \in Elem
    BY <1>1, <2>2, <2>3 DEF Shape
  <2>6. cnd_' \subseteq {v \in Threads : pc'[v] \in {"wait", "next_wait", "read_wait"}}
    <3>1. t \notin cnd_
      BY DEF NotifyOne, Shape
    <3> QED
      BY <1>3, <2>3, <3>1 DEF Shape
  <2> QED
    BY <2>3, <2>4, <2>5, <2>6 DEF Shape
<1> QED
  BY <1>2, <1>3, QueueFrame DEF NotifyOne, Simulates

LEMMA NotifyAllStep ==
  ASSUME ChannelAssumption, ChannelInv, NEW t \in Writers, NotifyAll(t)
  PROVE  ChannelInv' /\ Simulates
<1> USE DEF ChannelInv
<1>1. \A u \in cnd_ : /\ Woken(pc[u]) \in WriterPCs \cup ReaderPCs
                      /\ Woken(pc[u]) \in {"lock", "wait"} => pc[u] = "wait"
  BY WokenPC DEF Shape
<1>2. "closed" \in WriterPCs \cup ReaderPCs /\ "closed" \notin {"lock", "wait"}
  BY DEF WriterPCs
<1>3. \A u \in Threads :
        pc'[u] = IF u = t THEN "closed"
                 ELSE IF u \in cnd_ THEN Woken(pc[u]) ELSE pc[u]
  BY DEF NotifyAll
<1>4. pc' \in [Threads -> WriterPCs \cup ReaderPCs]
  <2>1. \A u \in Threads : pc'[u] \in WriterPCs \cup ReaderPCs
    BY <1>1, <1>2, <1>3 DEF Shape
  <2>2. pc' = [u \in Threads |-> pc'[u]]
    BY DEF NotifyAll
  <2> QED
    BY <2>1, <2>2
<1>5. \A u \in Threads : pc'[u] \in {"lock", "wait"} => val[u] \in Elem
  BY <1>1, <1>2, <1>3 DEF Shape
<1>6. UNCHANGED <<queue_, val, pushes, put, taken>> /\ cnd_' = {}
  BY DEF NotifyAll
<1>7. Shape'
  BY <1>4, <1>5, <1>6 DEF Shape
<1> QED
  BY <1>6, <1>7, QueueFrame DEF Simulates

(* A reader's step that changes only its own place, and perhaps mtx_.      *)
LEMMA ReaderMoves ==
  ASSUME ChannelAssumption, ChannelInv, NEW r \in Readers,
         NEW l \in ReaderPCs, Goes(r, l),
         pc[r] \notin {"wait", "next_wait", "read_wait"},
         UNCHANGED <<queue_, cnd_, pushes, put, taken>>,
         val' = val \/ val' = [val EXCEPT ![r] = Default]
  PROVE  ChannelInv' /\ Simulates
<1> USE DEF ChannelInv
<1>1. r \in Threads /\ l \in WriterPCs \cup ReaderPCs /\ l \notin {"lock", "wait"}
  BY DEF Threads, ReaderPCs
<1>2. cnd_' \subseteq {u \in Threads : pc'[u] \in {"wait", "next_wait", "read_wait"}}
  BY <1>1, SleepersStay
<1>3. val' \in [Threads -> Nat] /\ \A u \in Threads \ {r} : val'[u] = val[u]
  BY <1>1 DEF Shape, Default
<1> QED
  BY <1>1, <1>2, <1>3, GoesShape, QueueFrame DEF Simulates, Shape

LEMMA HasNextStep ==
  ASSUME ChannelAssumption, ChannelInv, NEW r \in Readers, HasNext(r)
  PROVE  ChannelInv' /\ Simulates
<1>1. {"read", "left", "next_block"} \subseteq ReaderPCs
  BY DEF ReaderPCs
<1>2. PICK l \in {"read", "left", "next_block"} : Goes(r, l)
  BY DEF HasNext
<1> QED
  BY <1>1, <1>2, ReaderMoves DEF HasNext

LEMMA ReadBeginStep ==
  ASSUME ChannelAssumption, ChannelInv, NEW r \in Readers, ReadBegin(r)
  PROVE  ChannelInv' /\ Simulates
<1>1. {"handle", "read_lock"} \subseteq ReaderPCs
  BY DEF ReaderPCs
<1>2. PICK l \in {"handle", "read_lock"} : Goes(r, l)
  BY DEF ReadBegin
<1> QED
  BY <1>1, <1>2, ReaderMoves DEF ReadBegin

LEMMA HandleStep ==
  ASSUME ChannelAssumption, ChannelInv, NEW r \in Readers, Handle(r)
  PROVE  ChannelInv' /\ Simulates
<1>1. "next" \in ReaderPCs
  BY DEF ReaderPCs
<1> QED
  BY <1>1, ReaderMoves DEF Handle

LEMMA ReadStep ==
  ASSUME ChannelAssumption, ChannelInv, NEW r \in Readers, Read(r)
  PROVE  ChannelInv' /\ Simulates
<1>1. r \in Threads /\ {"notify", "read_block"} \subseteq ReaderPCs
      /\ "notify" \in WriterPCs \cup ReaderPCs /\ "notify" \notin {"lock", "wait"}
  BY DEF Threads, ReaderPCs
<1>2. CASE /\ queue_ # <<>>
           /\ val' = [val EXCEPT ![r] = Front]
           /\ taken' = Append(taken, Front)
           /\ queue_' = Tail(queue_)
           /\ Goes(r, "notify")
           /\ UNCHANGED mtx_
  <2>1. queue_ \in Seq(Elem) /\ taken \in Seq(Elem) /\ put = taken \o queue_
    BY DEF ChannelInv, Shape, InOrder
  <2>2. /\ put = Append(taken, Front) \o Tail(queue_)
        /\ Tail(queue_) \in Seq(Elem) /\ Front \in Elem
        /\ Len(Tail(queue_)) = Len(queue_) - 1
        /\ put[Len(taken) + 1] = Front /\ Len(taken) < Len(put)
    BY <1>2, <2>1, PopInOrder, SMTT(60) DEF Front
  <2>3. /\ taken' \in Seq(Elem) /\ put' = put /\ pushes' = pushes
        /\ cnd_' = cnd_ /\ pc[r] = "read_lock"
    BY <1>2, <2>1, <2>2, AppendProperties DEF Read
  <2>4. val' \in [Threads -> Nat] /\ \A u \in Threads \ {r} : val'[u] = val[u]
    <3>1. Front \in Nat
      BY <2>2 DEF Elem
    <3> QED
      BY <1>1, <1>2, <3>1 DEF ChannelInv, Shape
  <2>5. cnd_' \subseteq {u \in Threads : pc'[u] \in {"wait", "next_wait", "read_wait"}}
    BY <1>1, <1>2, <2>3, SleepersStay DEF ChannelInv
  <2>6. Shape'
    BY <1>1, <1>2, <2>2, <2>3, <2>4, <2>5, GoesShape DEF ChannelInv, Shape
  <2>7. InOrder'
    BY <1>2, <2>2, <2>3 DEF InOrder
  <2>8. Bound'
    <3>1. Len(queue_) \in Nat /\ Cap \in Nat
      BY <2>1 DEF ChannelAssumption
    <3> QED
      BY <1>2, <2>2, <3>1 DEF ChannelInv, Bound
  <2>9. F!Receive
    BY <1>2, <2>2, <2>3 DEF F!Receive
  <2> QED
    BY <2>6, <2>7, <2>8, <2>9 DEF ChannelInv, Simulates, F!FifoNext
<1>3. CASE /\ queue_ = <<>> /\ is_closed_
           /\ val' = [val EXCEPT ![r] = Default]
           /\ Goes(r, "notify")
           /\ UNCHANGED <<queue_, taken, mtx_>>
  BY <1>1, <1>3, ReaderMoves DEF Read
<1>4. CASE /\ ~Ready
           /\ mtx_' = r
           /\ Goes(r, "read_block")
           /\ UNCHANGED <<queue_, taken, val>>
  BY <1>1, <1>4, ReaderMoves DEF Read
<1> QED
  BY <1>2, <1>3, <1>4 DEF Read

LEMMA BlockStep ==
  ASSUME ChannelAssumption, ChannelInv, NEW r \in Readers, Block(r)
  PROVE  ChannelInv' /\ Simulates
<1> USE DEF ChannelInv
<1>1. PICK l \in {"next_wait", "read_wait"} : Goes(r, l)
  BY DEF Block
<1>2. r \in Threads /\ l \in WriterPCs \cup ReaderPCs /\ l \notin {"lock", "wait"}
  BY DEF Threads, ReaderPCs
<1>3. cnd_' \subseteq {u \in Threads : pc'[u] \in {"wait", "next_wait", "read_wait"}}
  BY <1>1, <1>2, FallAsleep DEF Block
<1> QED
  BY <1>1, <1>2, <1>3, GoesShape, QueueFrame DEF Block, Simulates, Shape

-----------------------------------------------------------------------------
(* Every step of every thread keeps the invariant and is a FIFO step.      *)
LEMMA NextStep ==
  ASSUME ChannelAssumption, ChannelInv, [Next]_vars
  PROVE  ChannelInv' /\ Simulates
<1>1. ASSUME NEW t \in Writers, WriteBegin(t) \/ Close(t)
      PROVE  ChannelInv' /\ Simulates
  BY <1>1, WriteBeginStep, CloseStep
<1>2. ASSUME NEW t \in Threads, Inside(t)
      PROVE  ChannelInv' /\ Simulates
  BY <1>2, WriteStep, NotifyAllStep, HasNextStep, ReadBeginStep, ReadStep,
     BlockStep, HandleStep, NotifyOneStep DEF Inside
<1>3. CASE UNCHANGED vars
  BY <1>3 DEF vars, ChannelInv, Shape, InOrder, Bound, Simulates
<1> QED
  BY <1>1, <1>2, <1>3 DEF Next

LEMMA InitStep ==
  ASSUME ChannelAssumption, Init
  PROVE  ChannelInv /\ F!FifoInit
<1>1. pc \in [Threads -> WriterPCs \cup ReaderPCs]
  BY DEF Init, WriterPCs, ReaderPCs
<1>2. \A t \in Threads : pc[t] \notin {"lock", "wait"}
  BY DEF Init
<1>3. val \in [Threads -> Nat] /\ pushes \in 0 .. MaxPushes
  BY DEF Init, Default, ChannelAssumption
<1>4. Len(queue_) = 0 /\ put = taken \o queue_
      /\ queue_ \in Seq(Elem) /\ put \in Seq(Elem) /\ taken \in Seq(Elem)
  BY DEF Init
<1> QED
  BY <1>1, <1>2, <1>3, <1>4
     DEF Init, ChannelInv, Shape, InOrder, Bound, ChannelAssumption, F!FifoInit

(* Whatever the number of threads and the capacity, closed or not: what    *)
(* was pushed through operator>> is what operator<< popped followed by     *)
(* what is inside; nothing is lost, duplicated or overtaken.               *)
THEOREM OrderCorrect == Spec => []InOrder
<1>1. Init => ChannelInv
  BY InitStep, ChannelAssumption
<1>2. ChannelInv /\ [Next]_vars => ChannelInv'
  BY NextStep, ChannelAssumption
<1>3. ChannelInv => InOrder
  BY DEF ChannelInv
<1> QED
  BY <1>1, <1>2, <1>3, PTL DEF Spec

(* util::channel implements the bounded FIFO: every step of its threads is *)
(* a Send with room, a Receive of the oldest element, or a stutter.        *)
THEOREM FifoRefinement == Spec => Refinement
<1>1. Init => ChannelInv /\ F!FifoInit
  BY InitStep, ChannelAssumption
<1>2. ChannelInv /\ [Next]_vars => ChannelInv'
  BY NextStep, ChannelAssumption
<1>3. ChannelInv /\ [Next]_vars => [F!FifoNext]_<<put, taken>>
  BY NextStep, ChannelAssumption DEF Simulates
<1> QED
  BY <1>1, <1>2, <1>3, PTL DEF Spec, Refinement, F!FifoSpec

-----------------------------------------------------------------------------
(* Who sleeps and who holds the mutex: cnd_ holds the sleepers, exactly;   *)
(* the reader between its predicate and its sleep, and nobody else, holds  *)
(* mtx_.                                                                   *)
Asleep == {"wait", "next_wait", "read_wait"}
Holding == {"next_block", "read_block"}
Waits ==
  /\ is_closed_ \in BOOLEAN
  /\ mtx_ \in Readers \cup {Nobody}
  /\ cnd_ = {t \in Threads : pc[t] \in Asleep}
  /\ \A t \in Threads : pc[t] \in Holding <=> mtx_ = t

(* A thread that is awake, without the mutex, and stays so.                *)
LEMMA AwakeMoves ==
  ASSUME ChannelInv, Waits, NEW t \in Threads, NEW l, Goes(t, l),
         pc[t] \notin Asleep \cup Holding, l \notin Asleep \cup Holding,
         UNCHANGED <<mtx_, cnd_>>, is_closed_' \in BOOLEAN
  PROVE  Waits'
<1>1. \A u \in Threads : pc'[u] = IF u = t THEN l ELSE pc[u]
  BY DEF ChannelInv, Shape, Goes
<1> QED
  BY <1>1 DEF Waits

(* A thread goes to sleep, and the mutex is free afterwards: it was free,  *)
(* or the thread's own.                                                    *)
LEMMA SleepMoves ==
  ASSUME ChannelAssumption, ChannelInv, Waits, NEW t \in Threads, NEW l \in Asleep, Goes(t, l),
         mtx_ \in {t, Nobody}, mtx_' = Nobody, cnd_' = cnd_ \cup {t}, UNCHANGED is_closed_
  PROVE  Waits'
<1>1. \A u \in Threads : pc'[u] = IF u = t THEN l ELSE pc[u]
  BY DEF ChannelInv, Shape, Goes
<1>2. Asleep \cap Holding = {}
  BY DEF Asleep, Holding
<1>3. \A u \in Threads : u # Nobody /\ pc'[u] \notin Holding
  BY <1>1, <1>2 DEF Waits, ChannelAssumption
<1> QED
  BY <1>1, <1>3 DEF Waits

(* A reader keeps the mutex for its sleep.                                 *)
LEMMA HoldMoves ==
  ASSUME ChannelAssumption, ChannelInv, Waits, NEW r \in Readers, NEW l \in Holding, Goes(r, l),
         pc[r] \notin Asleep, mtx_ = Nobody, mtx_' = r, UNCHANGED <<cnd_, is_closed_>>
  PROVE  Waits'
<1>0. r \in Threads
  BY DEF Threads
<1>1. \A u \in Threads : pc'[u] = IF u = r THEN l ELSE pc[u]
  BY DEF ChannelInv, Shape, Goes
<1>2. l \notin Asleep
  BY DEF Asleep, Holding
<1>3. cnd_' = {u \in Threads : pc'[u] \in Asleep}
  BY <1>1, <1>2 DEF Waits
<1>4. \A u \in Threads : pc'[u] \in Holding <=> mtx_' = u
  BY <1>0, <1>1 DEF Waits, ChannelAssumption
<1> QED
  BY <1>3, <1>4 DEF Waits

LEMMA NotifyOneWaits ==
  ASSUME ChannelInv, Waits, NEW t \in Threads, NotifyOne(t)
  PROVE  Waits'
<1> DEFINE back == IF t \in Writers THEN "idle" ELSE "handle"
<1>1. back \notin Asleep \cup Holding /\ "notify" \notin Asleep \cup Holding
  BY DEF Asleep, Holding
<1>2. UNCHANGED <<is_closed_, mtx_>> /\ pc[t] = "notify"
  BY DEF NotifyOne
<1> HIDE DEF back
<1>3. CASE Goes(t, back) /\ UNCHANGED cnd_
  BY <1>1, <1>2, <1>3, AwakeMoves DEF Waits
<1>4. ASSUME NEW u \in cnd_, cnd_' = cnd_ \ {u},
             pc' = [pc EXCEPT ![t] = back, ![u] = Woken(pc[u])]
      PROVE  Waits'
  <2>1. u \in Threads /\ pc[u] \in Asleep /\ u # t
    BY <1>1, <1>2 DEF Waits
  <2>2. Woken(pc[u]) \notin Asleep \cup Holding
    BY <2>1 DEF Woken, Asleep, Holding
  <2>3. /\ pc'[t] = back /\ pc'[u] = Woken(pc[u])
        /\ \A v \in Threads \ {t, u} : pc'[v] = pc[v]
    BY <1>4, <2>1 DEF ChannelInv, Shape
  <2>4. cnd_' = {v \in Threads : pc'[v] \in Asleep}
    BY <1>1, <1>2, <1>4, <2>1, <2>2, <2>3 DEF Waits
  <2>5. pc[u] \notin Holding
    BY <2>1 DEF Asleep, Holding
  <2>6. \A v \in Threads : pc'[v] \in Holding <=> pc[v] \in Holding
    BY <1>1, <1>2, <2>1, <2>2, <2>3, <2>5
  <2> QED
    BY <1>2, <2>4, <2>6 DEF Waits
<1> QED
  BY <1>3, <1>4 DEF NotifyOne, back

LEMMA NotifyAllWaits ==
  ASSUME ChannelInv, Waits, NEW t \in Writers, NotifyAll(t)
  PROVE  Waits'
<1>1. \A u \in Threads :
        pc'[u] = IF u = t THEN "closed"
                 ELSE IF u \in cnd_ THEN Woken(pc[u]) ELSE pc[u]
  BY DEF NotifyAll
<1>2. UNCHANGED <<is_closed_, mtx_>> /\ pc[t] = "notify_all" /\ cnd_' = {}
  BY DEF NotifyAll
<1>3. \A u \in cnd_ : Woken(pc[u]) \notin Asleep \cup Holding /\ pc[u] \notin Holding
  BY DEF Waits, Woken, Asleep, Holding
<1>4. "closed" \notin Asleep \cup Holding /\ "notify_all" \notin Asleep \cup Holding
  BY DEF Asleep, Holding
<1>5. \A u \in Threads : pc'[u] \notin Asleep /\ (pc'[u] \in Holding <=> pc[u] \in Holding)
  BY <1>1, <1>2, <1>3, <1>4 DEF Waits
<1> QED
  BY <1>2, <1>5 DEF Waits

LEMMA WriterWaits ==
  ASSUME ChannelAssumption, ChannelInv, Waits, NEW t \in Writers,
         WriteBegin(t) \/ Close(t) \/ Write(t)
  PROVE  Waits'
<1>0. t \in Threads
  BY DEF Threads
<1>1. {"idle", "lock", "notify", "notify_all", "threw"} \cap (Asleep \cup Holding) = {}
      /\ "wait" \in Asleep
  BY DEF Asleep, Holding
<1>2. CASE WriteBegin(t)
  BY <1>0, <1>1, <1>2, AwakeMoves DEF WriteBegin, Waits
<1>3. CASE Close(t)
  BY <1>0, <1>1, <1>3, AwakeMoves DEF Close, Waits
<1>4. CASE Write(t) /\ Goes(t, "notify") /\ UNCHANGED cnd_
  BY <1>0, <1>1, <1>4, AwakeMoves DEF Write, Waits
<1>5. CASE Write(t) /\ Goes(t, "wait") /\ cnd_' = cnd_ \cup {t}
  BY <1>0, <1>1, <1>5, SleepMoves DEF Write
<1> QED
  BY <1>2, <1>3, <1>4, <1>5 DEF Write

LEMMA ReaderWaits ==
  ASSUME ChannelAssumption, ChannelInv, Waits, NEW r \in Readers,
         HasNext(r) \/ ReadBegin(r) \/ Read(r) \/ Block(r) \/ Handle(r)
  PROVE  Waits'
<1>0. r \in Threads
  BY DEF Threads
<1>1. {"next", "read", "left", "read_lock", "notify", "handle"} \cap (Asleep \cup Holding) = {}
      /\ {"next_block", "read_block"} = Holding /\ {"next_wait", "read_wait"} \subseteq Asleep
  BY DEF Asleep, Holding
<1>2. CASE HasNext(r)
  BY <1>0, <1>1, <1>2, AwakeMoves, HoldMoves DEF HasNext, Waits
<1>3. CASE ReadBegin(r)
  BY <1>0, <1>1, <1>3, AwakeMoves DEF ReadBegin, Waits
<1>4. CASE Read(r)
  BY <1>0, <1>1, <1>4, AwakeMoves, HoldMoves DEF Read, Waits
<1>5. CASE Block(r)
  <2>1. mtx_ = r
    BY <1>0, <1>1, <1>5 DEF Block, Waits
  <2>2. PICK l \in Asleep : Goes(r, l)
    BY <1>1, <1>5 DEF Block
  <2> QED
    BY <1>0, <1>5, <2>1, <2>2, SleepMoves DEF Block
<1>6. CASE Handle(r)
  BY <1>0, <1>1, <1>6, AwakeMoves DEF Handle, Waits
<1> QED
  BY <1>2, <1>3, <1>4, <1>5, <1>6

LEMMA NextWaits ==
  ASSUME ChannelAssumption, ChannelInv, Waits, [Next]_vars
  PROVE  Waits'
<1>1. CASE UNCHANGED vars
  BY <1>1 DEF vars, Waits
<1> QED
  BY <1>1, WriterWaits, ReaderWaits, NotifyOneWaits, NotifyAllWaits DEF Next, Inside

(* The channel keeps its shape, for every number of threads and whatever   *)
(* close() does without the mutex: every sleeper is in cnd_, where a       *)
(* notification finds it, and nobody else is; and mtx_ belongs to the      *)
(* reader that is about to sleep in waitBeforeRead, at most one of them.   *)
THEOREM TypeCorrect == Spec => []TypeOK
<1>1. Init => ChannelInv /\ Waits
  <2> SUFFICES ASSUME Init PROVE Waits
    BY InitStep, ChannelAssumption
  <2>1. \A t \in Threads : pc[t] \notin Asleep \cup Holding /\ t # Nobody
    BY ChannelAssumption DEF Init, Asleep, Holding
  <2> QED
    BY <2>1 DEF Init, Waits
<1>2. ChannelInv /\ Waits /\ [Next]_vars => (ChannelInv /\ Waits)'
  BY NextStep, NextWaits, ChannelAssumption
<1>3. ChannelInv /\ Waits => TypeOK
  <2> SUFFICES ASSUME ChannelInv, Waits PROVE TypeOK
    OBVIOUS
  <2>1. Elem \subseteq Nat
    BY DEF Elem
  <2>2. \A q \in Seq(Elem) : q \in Seq(Nat)
    <3> SUFFICES ASSUME NEW q \in Seq(Elem) PROVE q \in Seq(Nat)
      OBVIOUS
    <3>1. Len(q) \in Nat /\ q \in [1 .. Len(q) -> Elem]
      OBVIOUS
    <3>2. q \in [1 .. Len(q) -> Nat]
      BY <2>1, <3>1
    <3> QED
      BY <3>1, <3>2, SeqDef
  <2> QED
    BY <2>2 DEF ChannelInv, Shape, Waits, Asleep, Holding, TypeOK
<1> QED
  BY <1>1, <1>2, <1>3, PTL DEF Spec
=============================================================================
