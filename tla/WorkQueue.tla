----------------------------- MODULE WorkQueue -----------------------------
(***************************************************************************)
(* The operator's work queue with its rate limiter in time: whoever adds a *)
(* key (an HTTP handler, a server thread, or a worker whose handler asks   *)
(* for another round) first claims a permit from RateLimiter, sleeps until *)
(* it is due, and then writes the key to the bounded channel.              *)
(*                                                                         *)
(* claim_next computes with the system clock, the sleep passes in real     *)
(* time, and the system clock can be set. Time is counted in ticks, and    *)
(* everything that refers to it is kept relative to the present, so that   *)
(* no bound on time is needed. The channel is taken as the bounded queue   *)
(* that module Channel shows it to implement.                              *)
(***************************************************************************)
EXTENDS Integers, Sequences, SequencesExt

CONSTANTS
  Keys,
  Workers,     \* OPERATOR_N_THREADS
  Producers,   \* other callers of AddRateLimited
  Cap,         \* OPERATOR_WORKQUEUE_BUFFER
  Interval,    \* interval_: ticks per permit, from OPERATOR_RATELIMITER_RATE
  Step,        \* by how much the system clock is set at a time
  MaxSets      \* bound: how often it is set

Threads == Workers \cup Producers

ASSUME WorkQueueAssumption ==
  /\ Workers \cap Producers = {}
  /\ Cap \in Nat \ {0}
  /\ Interval \in Nat \ {0}
  /\ Step \in Nat \ {0}
  /\ MaxSets \in Nat

VARIABLES
  work_queue_,   \* the channel's content
  pc, key,       \* what each thread does, and with which key
  next_free_,    \* how far next_free_ lies ahead of the system clock
  left,          \* ticks until a sleeper's permit is due, negative when late
  sets,          \* how often the system clock was set
  forward        \* history: it was set forward

timeVars == <<next_free_, left, sets, forward>>
vars == <<work_queue_, pc, key, next_free_, left, sets, forward>>

NoKey == "none"
AtLeast(n, low) == IF n < low THEN low ELSE n

Init ==
  /\ work_queue_ = <<>>
  /\ pc = [t \in Threads |-> IF t \in Workers THEN "get" ELSE "idle"]
  /\ key = [t \in Threads |-> NoKey]
  /\ next_free_ = 0
  /\ left = [t \in Threads |-> 0]
  /\ sets = 0
  /\ forward = FALSE

Goes(t, l, k) ==
  /\ pc' = [pc EXCEPT ![t] = l]
  /\ key' = [key EXCEPT ![t] = k]

Base(t) == IF t \in Workers THEN "get" ELSE "idle"

----------------------------------------------------------------------------
(* AddRateLimited is called from outside the operator.                     *)
Add(p, k) ==
  /\ p \in Producers /\ pc[p] = "idle"
  /\ Goes(p, "claim", k)
  /\ UNCHANGED <<work_queue_, timeVars>>

(* As ClaimNext, with sync after the claim: the interval is not added.     *)
ClaimNextUnpaced(t) ==
  /\ pc[t] = "claim"
  /\ left' = [left EXCEPT ![t] = next_free_]
  /\ Goes(t, "sleep", key[t])
  /\ UNCHANGED <<work_queue_, next_free_, sets, forward>>

(* claim_next under mut_: sync moves next_free_ up to the present, the     *)
(* caller waits until there and the next permit is one interval later.     *)
(* max_permits_ is never set, so no permit is ever stored.                 *)
ClaimNext(t) ==
  /\ pc[t] = "claim"
  /\ left' = [left EXCEPT ![t] = next_free_]
  /\ next_free_' = next_free_ + Interval
  /\ Goes(t, "sleep", key[t])
  /\ UNCHANGED <<work_queue_, sets, forward>>

(* sleep_for: at least as long as asked, on the steady clock.              *)
Wake(t) ==
  /\ pc[t] = "sleep" /\ left[t] <= 0
  /\ left' = [left EXCEPT ![t] = 0]
  /\ Goes(t, "put", key[t])
  /\ UNCHANGED <<work_queue_, next_free_, sets, forward>>

(* key >> work_queue_: blocks while the channel is full.                   *)
Put(t) ==
  /\ pc[t] = "put" /\ Len(work_queue_) < Cap
  /\ work_queue_' = Append(work_queue_, key[t])
  /\ Goes(t, Base(t), NoKey)
  /\ UNCHANGED timeVars

(* run: a worker takes the next key and calls the handler ...              *)
Get(w) ==
  /\ pc[w] = "get" /\ work_queue_ # <<>>
  /\ work_queue_' = Tail(work_queue_)
  /\ Goes(w, "handle", Head(work_queue_))
  /\ UNCHANGED timeVars

(* As Handle, where a worker stops after a round that asks for another.    *)
HandleOnce(w) ==
  /\ pc[w] = "handle"
  /\ \/ Goes(w, "get", NoKey)
     \/ Goes(w, "stopped", key[w])
  /\ UNCHANGED <<work_queue_, timeVars>>

(* ... whose answer decides whether the key goes round again.              *)
Handle(w) ==
  /\ pc[w] = "handle"
  /\ \/ Goes(w, "get", NoKey)
     \/ Goes(w, "claim", key[w])
  /\ UNCHANGED <<work_queue_, timeVars>>

----------------------------------------------------------------------------
(* Time passes. Lateness beyond one interval makes no difference, nor does *)
(* how long next_free_ has been in the past.                               *)
Tick ==
  /\ next_free_ > 0 \/ \E t \in Threads : pc[t] = "sleep" /\ left[t] > -Interval
  /\ next_free_' = AtLeast(next_free_ - 1, 0)
  /\ left' = [t \in Threads |->
                IF pc[t] = "sleep" THEN AtLeast(left[t] - 1, -Interval) ELSE left[t]]
  /\ UNCHANGED <<work_queue_, pc, key, sets, forward>>

(* The system clock is set back or forward; sleepers do not notice.        *)
SetClock(d) ==
  /\ sets < MaxSets
  /\ sets' = sets + 1
  /\ next_free_' = AtLeast(next_free_ - d, 0)
  /\ forward' = (forward \/ d > 0)
  /\ UNCHANGED <<work_queue_, pc, key, left>>

Worker(w) == ClaimNext(w) \/ Wake(w) \/ Put(w) \/ Get(w) \/ Handle(w)
Producer(p) == ClaimNext(p) \/ Wake(p) \/ Put(p)

Next ==
  \/ \E w \in Workers : Worker(w)
  \/ \E p \in Producers : Producer(p)
  \/ \E p \in Producers, k \in Keys : Add(p, k)
  \/ Tick
  \/ \E d \in {-Step, Step} : SetClock(d)

Spec == Init /\ [][Next]_vars

(* Threads that can run do run, handlers return, and time passes. Nothing  *)
(* is assumed of who calls AddRateLimited, or of the answers of a handler. *)
FairSpec ==
  /\ Spec
  /\ \A w \in Workers : WF_vars(Worker(w))
  /\ \A p \in Producers : WF_vars(Producer(p))
  /\ WF_vars(Tick)

----------------------------------------------------------------------------
Sleeping(t) == pc[t] = "sleep"
Apart(m, n) == m - n >= Interval \/ n - m >= Interval

(* No two permits share a slot: those not yet due are at least an interval *)
(* from every other, and the next claim comes an interval after all of     *)
(* them. Setting the system clock back keeps this (the next permits come   *)
(* late), setting it forward does not (claim_next, rate_limiter.cpp:70).   *)
Paced ==
  ~forward =>
    \A t \in Threads : Sleeping(t) =>
      /\ left[t] >= 0 => next_free_ - left[t] >= Interval
      /\ \A u \in Threads \ {t} :
           Sleeping(u) /\ (left[t] >= 0 \/ left[u] >= 0) => Apart(left[t], left[u])

(* A jam: the channel is full and every worker waits to write to it, so    *)
(* nobody will read again (Operator::run and AddRateLimited).              *)
Jammed == Len(work_queue_) = Cap /\ \A w \in Workers : pc[w] = "put"

(* A queued key is handled, however often others go round, unless the      *)
(* operator jams: which takes as many keys as channel and workers hold.    *)
Served ==
  \A k \in Keys :
    Contains(work_queue_, k)
      ~> (Jammed \/ \E w \in Workers : pc[w] = "handle" /\ key[w] = k)
=============================================================================
