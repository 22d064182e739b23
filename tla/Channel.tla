------------------------------ MODULE Channel ------------------------------
(***************************************************************************)
(* util::channel at the level of its mutex and condition variable, with    *)
(* the threads that use it: writers push elements and may close the        *)
(* channel, readers run "for (auto x : ch)". It is the work queue of       *)
(* Operator (Cap > 0), the request queue of the remote file loader, and    *)
(* the task queue of the bootstrap (Cap = 0, closed by the writer).        *)
(*                                                                         *)
(* A critical section is one action. Only a reader that goes to sleep      *)
(* takes two, since close() changes is_closed_ without the mutex: it looks *)
(* at the predicate, then blocks, and holds mtx_ in between.               *)
(***************************************************************************)
EXTENDS Integers, Sequences, FiniteSets

CONSTANTS
  Writers, Readers,   \* threads
  Nobody,             \* "no thread"
  Cap,                \* cap_: 0 means unlimited
  Closes,             \* the writers close the channel in the end
  MaxPushes           \* bound: elements pushed

Threads == Writers \cup Readers
Default == 0          \* a default-constructed element

ASSUME ChannelAssumption ==
  /\ Writers \cap Readers = {}
  /\ Nobody \notin Threads
  /\ Cap \in Nat
  /\ Closes \in BOOLEAN
  /\ MaxPushes \in Nat

VARIABLES
  queue_, is_closed_,   \* elements inside, flag
  mtx_,                 \* the reader that holds the mutex between two steps
  cnd_,                 \* threads asleep on the condition variable
  pc, val,              \* thread: step, element it pushes or was given
  pushes,               \* elements created so far; they are numbered
  put, taken            \* history: elements pushed and popped, in order

vars == <<queue_, is_closed_, mtx_, cnd_, pc, val, pushes, put, taken>>

Init ==
  /\ queue_ = <<>>
  /\ is_closed_ = FALSE
  /\ mtx_ = Nobody
  /\ cnd_ = {}
  /\ pc = [t \in Threads |-> IF t \in Writers THEN "idle" ELSE "next"]
  /\ val = [t \in Threads |-> Default]
  /\ pushes = 0
  /\ put = <<>>
  /\ taken = <<>>

Goes(t, l) == pc' = [pc EXCEPT ![t] = l]
Full == Cap > 0 /\ Len(queue_) = Cap
Ready == queue_ # <<>> \/ is_closed_        \* predicate of waitBeforeRead

-----------------------------------------------------------------------------
(* operator>> up to the lock: a closed channel refuses the element.        *)
WriteBegin(t) ==
  /\ pc[t] = "idle"
  /\ pushes < MaxPushes
  /\ pushes' = pushes + 1
  /\ \/ is_closed_ /\ Goes(t, "threw") /\ UNCHANGED val
     \/ /\ ~is_closed_
        /\ val' = [val EXCEPT ![t] = pushes + 1]
        /\ Goes(t, "lock")
  /\ UNCHANGED <<queue_, is_closed_, mtx_, cnd_, put, taken>>

(* Faulty variants: no wait for room; the newest element is taken first.   *)
WriteNoWait(t) ==
  /\ pc[t] = "lock"
  /\ mtx_ = Nobody
  /\ queue_' = Append(queue_, val[t])
  /\ put' = Append(put, val[t])
  /\ Goes(t, "notify")
  /\ UNCHANGED <<is_closed_, mtx_, cnd_, val, pushes, taken>>
PopNewest == queue_[Len(queue_)]

(* waitBeforeWrite, then push; or asleep until there is room.              *)
Write(t) ==
  /\ pc[t] = "lock"
  /\ mtx_ = Nobody
  /\ \/ /\ ~Full
        /\ queue_' = Append(queue_, val[t])
        /\ put' = Append(put, val[t])
        /\ Goes(t, "notify")
        /\ UNCHANGED cnd_
     \/ /\ Full
        /\ cnd_' = cnd_ \cup {t}
        /\ Goes(t, "wait")
        /\ UNCHANGED <<queue_, put>>
  /\ UNCHANGED <<is_closed_, mtx_, val, pushes, taken>>

(* Where a thread goes on when it is woken: back to its predicate.         *)
Woken(l) ==
  CASE l = "wait"      -> "lock"
    [] l = "next_wait" -> "next"
    [] l = "read_wait" -> "read_lock"

(* Faulty variant: the notification is missing.                            *)
NotifyNobody(t) ==
  /\ pc[t] = "notify"
  /\ Goes(t, IF t \in Writers THEN "idle" ELSE "handle")
  /\ UNCHANGED <<queue_, is_closed_, mtx_, cnd_, val, pushes, put, taken>>

(* notify_one, after a push as after a pop: any one sleeper, of any kind.  *)
NotifyOne(t) ==
  LET back == IF t \in Writers THEN "idle" ELSE "handle" IN
  /\ pc[t] = "notify"
  /\ \/ cnd_ = {} /\ Goes(t, back) /\ UNCHANGED cnd_
     \/ \E u \in cnd_ :
          /\ cnd_' = cnd_ \ {u}
          /\ pc' = [pc EXCEPT ![t] = back, ![u] = Woken(pc[u])]
  /\ UNCHANGED <<queue_, is_closed_, mtx_, val, pushes, put, taken>>

(* close(): the flag first, without the mutex, then notify_all.            *)
Close(t) ==
  /\ Closes
  /\ ~is_closed_
  /\ pc[t] = "idle"
  /\ is_closed_' = TRUE
  /\ Goes(t, "notify_all")
  /\ UNCHANGED <<queue_, mtx_, cnd_, val, pushes, put, taken>>

NotifyAll(t) ==
  /\ pc[t] = "notify_all"
  /\ cnd_' = {}
  /\ pc' = [u \in Threads |-> IF u = t THEN "closed"
                              ELSE IF u \in cnd_ THEN Woken(pc[u]) ELSE pc[u]]
  /\ UNCHANGED <<queue_, is_closed_, mtx_, val, pushes, put, taken>>

-----------------------------------------------------------------------------
(* blocking_iterator::operator!= : waitBeforeRead, then go on unless the   *)
(* channel is closed and empty.                                            *)
HasNext(r) ==
  /\ pc[r] = "next"
  /\ mtx_ = Nobody
  /\ \/ queue_ # <<>> /\ Goes(r, "read") /\ UNCHANGED mtx_
     \/ queue_ = <<>> /\ is_closed_ /\ Goes(r, "left") /\ UNCHANGED mtx_
     \/ ~Ready /\ mtx_' = r /\ Goes(r, "next_block")
  /\ UNCHANGED <<queue_, is_closed_, cnd_, val, pushes, put, taken>>

(* operator* calls operator<<, which first looks without the lock.         *)
ReadBegin(r) ==
  /\ pc[r] = "read"
  /\ \/ /\ is_closed_ /\ queue_ = <<>>
        /\ val' = [val EXCEPT ![r] = Default]
        /\ Goes(r, "handle")
     \/ /\ ~(is_closed_ /\ queue_ = <<>>)
        /\ Goes(r, "read_lock")
        /\ UNCHANGED val
  /\ UNCHANGED <<queue_, is_closed_, mtx_, cnd_, pushes, put, taken>>

(* The element operator<< moves out: the front of queue_.                  *)
Front == Head(queue_)

(* operator<< under the lock: wait, then pop; nothing to pop (closed)      *)
(* leaves the element default-constructed.                                 *)
Read(r) ==
  /\ pc[r] = "read_lock"
  /\ mtx_ = Nobody
  /\ \/ /\ queue_ # <<>>
        /\ val' = [val EXCEPT ![r] = Front]
        /\ taken' = Append(taken, Front)
        /\ queue_' = Tail(queue_)
        /\ Goes(r, "notify")
        /\ UNCHANGED mtx_
     \/ /\ queue_ = <<>> /\ is_closed_
        /\ val' = [val EXCEPT ![r] = Default]
        /\ Goes(r, "notify")
        /\ UNCHANGED <<queue_, taken, mtx_>>
     \/ /\ ~Ready
        /\ mtx_' = r
        /\ Goes(r, "read_block")
        /\ UNCHANGED <<queue_, taken, val>>
  /\ UNCHANGED <<is_closed_, cnd_, pushes, put>>

(* Faulty variant: the mutex is kept while asleep.                         *)
BlockLocked(r) ==
  /\ pc[r] \in {"next_block", "read_block"}
  /\ cnd_' = cnd_ \cup {r}
  /\ Goes(r, IF pc[r] = "next_block" THEN "next_wait" ELSE "read_wait")
  /\ UNCHANGED <<queue_, is_closed_, mtx_, val, pushes, put, taken>>

(* cnd_.wait releases the mutex and sleeps.                                *)
Block(r) ==
  /\ pc[r] \in {"next_block", "read_block"}
  /\ mtx_' = Nobody
  /\ cnd_' = cnd_ \cup {r}
  /\ Goes(r, IF pc[r] = "next_block" THEN "next_wait" ELSE "read_wait")
  /\ UNCHANGED <<queue_, is_closed_, val, pushes, put, taken>>

(* The body of the loop.                                                   *)
Handle(r) ==
  /\ pc[r] = "handle"
  /\ val' = [val EXCEPT ![r] = Default]
  /\ Goes(r, "next")
  /\ UNCHANGED <<queue_, is_closed_, mtx_, cnd_, pushes, put, taken>>

-----------------------------------------------------------------------------
(* Steps of a thread that is inside an operation of the channel.           *)
Inside(t) ==
  \/ t \in Writers /\ (Write(t) \/ NotifyAll(t))
  \/ t \in Readers /\ (HasNext(t) \/ ReadBegin(t) \/ Read(t) \/ Block(t) \/ Handle(t))
  \/ NotifyOne(t)

Next ==
  \/ \E t \in Writers : WriteBegin(t) \/ Close(t)
  \/ \E t \in Threads : Inside(t)

Spec == Init /\ [][Next]_vars

(* A thread inside an operation keeps running; new writes are not owed.    *)
FairSpec == Spec /\ \A t \in Threads : WF_vars(Inside(t))

-----------------------------------------------------------------------------
WriterPCs == {"idle", "lock", "wait", "notify", "notify_all", "closed",
              "threw"}
ReaderPCs == {"next", "next_block", "next_wait", "read", "read_lock",
              "read_block", "read_wait", "notify", "handle", "left"}

(* The channel and its threads keep their shape; whoever sleeps is in cnd_,*)
(* whoever is about to sleep holds mtx_.                                   *)
TypeOK ==
  /\ queue_ \in Seq(Nat) /\ put \in Seq(Nat) /\ taken \in Seq(Nat)
  /\ is_closed_ \in BOOLEAN
  /\ mtx_ \in Readers \cup {Nobody}
  /\ pc \in [Threads -> WriterPCs \cup ReaderPCs]
  /\ val \in [Threads -> Nat]
  /\ pushes \in Nat
  /\ cnd_ = {t \in Threads : pc[t] \in {"wait", "next_wait", "read_wait"}}
  /\ \A t \in Threads : pc[t] \in {"next_block", "read_block"} <=> mtx_ = t

(* Nothing is lost, duplicated or overtaken: what was pushed is what was   *)
(* popped followed by what is inside.                                      *)
InOrder == put = taken \o queue_

(* The channel behaves as a bounded FIFO whatever its threads do.          *)
F == INSTANCE Fifo WITH Elem <- 1 .. MaxPushes, sent <- put, received <- taken
Refinement == F!FifoSpec

(* An open channel keeps moving: with no more than Cap writers, notify_one *)
(* on the shared condition variable never wakes the wrong thread for good. *)
Drained == queue_ # <<>> ~> queue_ = <<>> \/ is_closed_
=============================================================================
