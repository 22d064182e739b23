-------------------------- MODULE WorkQueueProofs --------------------------
(***************************************************************************)
(* The rate limiter paces for any number of threads, any interval and any  *)
(* setting back of the system clock.                                       *)
(***************************************************************************)
EXTENDS WorkQueue, TLAPS

PCs == {"idle", "get", "handle", "claim", "sleep", "put"}

TimeType ==
  /\ next_free_ \in Nat
  /\ left \in [Threads -> Int]
  /\ forward \in BOOLEAN
  /\ pc \in [Threads -> PCs]

(* Every sleeper's permit lies an interval before the next free one. Paced *)
(* says so of permits that are still due; of those that are late by less   *)
(* than an interval it is needed too, since the next claim may come now.   *)
Slot(t) == left[t] >= -Interval /\ next_free_ - left[t] >= Interval
Distinct(t, u) == left[t] >= 0 \/ left[u] >= 0 => Apart(left[t], left[u])

Slots ==
  ~forward =>
    \A t \in Threads : Sleeping(t) =>
      /\ Slot(t)
      /\ \A u \in Threads \ {t} : Sleeping(u) => Distinct(t, u)

PacedInv == TimeType /\ Slots

LEMMA IntervalPositive == Interval \in Nat /\ Interval > 0 /\ Step \in Nat /\ Step > 0
  BY WorkQueueAssumption

LEMMA InitPaced == Init => PacedInv
<1> SUFFICES ASSUME Init PROVE PacedInv
  OBVIOUS
<1>1. TimeType
  <2>1. pc \in [Threads -> PCs]
    BY DEF Init, PCs
  <2>2. next_free_ \in Nat /\ left \in [Threads -> Int]
    BY DEF Init
  <2>3. forward \in BOOLEAN
    BY DEF Init
  <2> QED
    BY <2>1, <2>2, <2>3 DEF TimeType
<1>2. Slots
  BY DEF Init, Slots, Sleeping
<1> QED
  BY <1>1, <1>2 DEF PacedInv

(* claim_next: the new sleeper takes the next free slot.                   *)
LEMMA ClaimPaced ==
  ASSUME PacedInv, NEW t \in Threads, ClaimNext(t)
  PROVE  PacedInv'
<1> USE IntervalPositive
<1>1. TimeType'
  BY DEF PacedInv, TimeType, ClaimNext, Goes, PCs
<1>2. ASSUME NEW u \in Threads, Sleeping(u)', ~forward'
      PROVE  /\ Slot(u)'
             /\ u # t => Sleeping(u) /\ left'[u] = left[u]
             /\ u = t => left'[u] = next_free_
  BY <1>2 DEF PacedInv, TimeType, Slots, Slot, Sleeping, ClaimNext, Goes
<1>3. ASSUME NEW u \in Threads, NEW v \in Threads \ {u}, ~forward', Sleeping(u)', Sleeping(v)'
      PROVE  Distinct(u, v)'
  <2>1. CASE u = t
    BY <1>2, <1>3, <2>1 DEF PacedInv, TimeType, Slots, Slot, Distinct, Apart, ClaimNext
  <2>2. CASE v = t
    BY <1>2, <1>3, <2>2 DEF PacedInv, TimeType, Slots, Slot, Distinct, Apart, ClaimNext
  <2>3. CASE u # t /\ v # t
    BY <1>2, <1>3, <2>3 DEF PacedInv, Slots, Distinct, Apart, ClaimNext
  <2> QED
    BY <2>1, <2>2, <2>3
<1> QED
  BY <1>1, <1>2, <1>3 DEF PacedInv, Slots

(* Steps after which no thread sleeps that did not sleep before, with the  *)
(* same times.                                                             *)
LEMMA QuietPaced ==
  ASSUME PacedInv, TimeType', forward' = forward, next_free_' = next_free_,
         \A t \in Threads : Sleeping(t)' => Sleeping(t) /\ left'[t] = left[t]
  PROVE  PacedInv'
  BY DEF PacedInv, Slots, Slot, Distinct, Apart

(* Time: all permits come nearer by one tick, late ones stay in the past.  *)
LEMMA TickPaced == ASSUME PacedInv, Tick PROVE PacedInv'
<1> USE IntervalPositive
<1>1. /\ next_free_' = AtLeast(next_free_ - 1, 0)
      /\ forward' = forward /\ pc' = pc
      /\ \A t \in Threads : pc[t] = "sleep" => left'[t] = AtLeast(left[t] - 1, -Interval)
  BY DEF Tick
<1>2. TimeType'
  <2>1. \A t \in Threads : left'[t] \in Int
    BY DEF Tick, PacedInv, TimeType, AtLeast
  <2>2. left' \in [Threads -> Int]
    BY <2>1 DEF Tick
  <2> QED
    BY <1>1, <2>2 DEF PacedInv, TimeType, AtLeast
<1>3. ASSUME NEW t \in Threads, Sleeping(t)', ~forward'
      PROVE  Slot(t)'
  BY <1>1, <1>3 DEF PacedInv, TimeType, Slots, Slot, Sleeping, AtLeast
<1>4. ASSUME NEW t \in Threads, NEW u \in Threads \ {t}, ~forward', Sleeping(t)', Sleeping(u)'
      PROVE  Distinct(t, u)'
  <2>1. Slot(t) /\ Slot(u) /\ Distinct(t, u)
    BY <1>1, <1>4 DEF PacedInv, Slots, Sleeping
  <2>2. left[t] \in Int /\ left[u] \in Int
    BY DEF PacedInv, TimeType
  <2> QED
    BY <1>1, <1>4, <2>1, <2>2 DEF Sleeping, Slot, Distinct, Apart, AtLeast
<1> QED
  BY <1>2, <1>3, <1>4 DEF PacedInv, Slots

(* The clock is set back: the next permit moves away. Set forward, nothing *)
(* is claimed.                                                             *)
LEMMA SetClockPaced ==
  ASSUME PacedInv, NEW d \in {-Step, Step}, SetClock(d)
  PROVE  PacedInv'
<1> USE IntervalPositive
<1>1. TimeType'
  <2>1. next_free_' \in Nat
    BY DEF SetClock, PacedInv, TimeType, AtLeast
  <2>2. forward' \in BOOLEAN
    BY DEF SetClock
  <2> QED
    BY <2>1, <2>2 DEF SetClock, PacedInv, TimeType
<1>2. CASE d > 0
  BY <1>1, <1>2 DEF SetClock, PacedInv, Slots
<1>3. CASE ~(d > 0)
  <2>1. forward' = forward
    BY <1>3 DEF SetClock, PacedInv, TimeType
  <2>2. next_free_' >= next_free_
    BY <1>3 DEF SetClock, PacedInv, TimeType, AtLeast
  <2> QED
    BY <1>1, <2>1, <2>2 DEF SetClock, PacedInv, TimeType, Slots, Slot, Sleeping, Distinct, Apart
<1> QED
  BY <1>2, <1>3

LEMMA NextPaced == PacedInv /\ [Next]_vars => PacedInv'
<1> SUFFICES ASSUME PacedInv, [Next]_vars PROVE PacedInv'
  OBVIOUS
<1>1. ASSUME NEW t \in Threads, ClaimNext(t) PROVE PacedInv'
  BY <1>1, ClaimPaced
<1>2. ASSUME NEW t \in Threads, Wake(t) PROVE PacedInv'
  BY <1>2, QuietPaced DEF Wake, Goes, PacedInv, TimeType, Sleeping, PCs
<1>3. ASSUME NEW t \in Threads, Put(t) PROVE PacedInv'
  BY <1>3, QuietPaced DEF Put, Goes, Base, timeVars, PacedInv, TimeType, Sleeping, PCs
<1>4. ASSUME NEW w \in Workers, Get(w) PROVE PacedInv'
  BY <1>4, QuietPaced DEF Get, Goes, timeVars, Threads, PacedInv, TimeType, Sleeping, PCs
<1>5. ASSUME NEW w \in Workers, Handle(w) PROVE PacedInv'
  BY <1>5, QuietPaced DEF Handle, Goes, timeVars, Threads, PacedInv, TimeType, Sleeping, PCs
<1>6. ASSUME NEW p \in Producers, NEW k \in Keys, Add(p, k) PROVE PacedInv'
  BY <1>6, QuietPaced DEF Add, Goes, timeVars, Threads, PacedInv, TimeType, Sleeping, PCs
<1>7. CASE Tick
  BY <1>7, TickPaced
<1>8. ASSUME NEW d \in {-Step, Step}, SetClock(d) PROVE PacedInv'
  BY <1>8, SetClockPaced
<1>9. CASE UNCHANGED vars
  BY <1>9, QuietPaced DEF vars, PacedInv, TimeType, Sleeping
<1> QED
  BY <1>1, <1>2, <1>3, <1>4, <1>5, <1>6, <1>7, <1>8, <1>9 DEF Next, Worker, Producer, Threads

(* No two permits share a slot, for any number of workers and producers,   *)
(* any rate and any number of settings of the clock, as long as it is not  *)
(* set forward (RateLimiter::claim_next and aquire).                       *)
THEOREM PacedCorrect == Spec => []Paced
<1>1. PacedInv => Paced
  BY IntervalPositive DEF PacedInv, TimeType, Slots, Slot, Distinct, Paced
<1> QED
  BY InitPaced, NextPaced, <1>1, PTL DEF Spec
=============================================================================
