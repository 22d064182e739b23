-------------------------- MODULE LifecycleProofs --------------------------
(***************************************************************************)
(* Proofs about Lifecycle, for every number of nodes, files, workers,      *)
(* saves and failures.                                                     *)
(***************************************************************************)
EXTENDS Lifecycle, SequenceTheorems, TLAPS

RowPCs == {"wait", "evict_add", "deleting"}   \* a row is in hand

(* Only the holder of rw_mutex_ evicts; it found rows of an iteration, so  *)
(* its node holds one; and it has a row in hand from EvictNext on.         *)
HandlerShape ==
  \A f \in Files :
    /\ cpc[f] \in EvictPCs <=> rw_mutex[Owner[f]] = f
    /\ cpc[f] \in EvictPCs \ {"batch"} => q_[Owner[f]] # <<>>
    /\ cpc[f] \in RowPCs => evictee[Owner[f]] \in Files

(* A worker is busy while it has a key, and it announces to the next node  *)
(* and deletes only what it loaded as OBSOLESCENT.                         *)
WorkerShape ==
  \A w \in Workers :
    /\ wpc[w] # "idle" <=> wkey[w] \in Files
    /\ wpc[w] \in {"notify", "delete"} => wsnap[w] = "OBSOLESCENT"

TypeInv == TypeOK /\ HandlerShape /\ WorkerShape

(* A worker acts, or its handshake is reset.                               *)
WorkerMove(w) == WorkerStep(w) \/ ConnectionReset(w)

(* All variables but exited.                                               *)
nodeVars == <<state, iteration, dict, cache, backup_dict, backup, alloc, disk,
              work_queue, cpc, citer, caddr, saves, rw_mutex, q_, vec, evictee,
              wpc, wkey, wsnap, waddr, wraddr, wdata, faults, acked, evicted>>

-----------------------------------------------------------------------------
(* Facts about the constants and the parts of actions.                     *)

(* Owners, worker nodes and next nodes are nodes of the ring.              *)
LEMMA NodeFacts ==
  /\ \A f \in Files : Owner[f] \in Nodes
  /\ \A w \in Workers : NodeOf[w] \in Nodes
  /\ \A n \in Nodes : NextNode(n) \in Nodes
<1>1. WorldSize \in Nat \ {0}
  BY ConstantsAssumption
<1>2. \A n \in Nodes : NextNode(n) \in Nodes
  BY <1>1, SMT DEF Nodes, NextNode
<1> QED
  BY <1>2, ConstantsAssumption

(* A group of variables that does not change keeps its type.               *)
LEMMA FrameType ==
  /\ RowTypeOK /\ UNCHANGED rowVars => RowTypeOK'
  /\ MemTypeOK /\ UNCHANGED memVars => MemTypeOK'
  /\ ClientTypeOK /\ UNCHANGED clientVars => ClientTypeOK'
  /\ EvictTypeOK /\ UNCHANGED evictVars => EvictTypeOK'
  /\ WorkerTypeOK /\ UNCHANGED workerVars => WorkerTypeOK'
  BY DEF RowTypeOK, MemTypeOK, ClientTypeOK, EvictTypeOK, WorkerTypeOK,
         rowVars, memVars, clientVars, evictVars, workerVars

(* A client that only moves to another step keeps its type.                *)
LEMMA ClientGoesType ==
  ASSUME TypeOK, NEW f \in Files, NEW pc \in ClientPCs, ClientGoes(f, pc),
         UNCHANGED <<citer, caddr, saves, acked>>
  PROVE  ClientTypeOK'
  BY DEF TypeOK, ClientTypeOK, ClientGoes

(* A worker that only moves to another step keeps its type.                *)
LEMMA WorkerGoesType ==
  ASSUME TypeOK, NEW w \in Workers, NEW pc \in WorkerPCs, WorkerGoes(w, pc),
         UNCHANGED <<wkey, wsnap, waddr, wraddr, wdata>>
  PROVE  WorkerTypeOK'
  BY DEF TypeOK, WorkerTypeOK, WorkerGoes

LEMMA LeaveEvictionType ==
  ASSUME TypeOK, NEW n \in Nodes, LeaveEviction(n)
  PROVE  /\ rw_mutex' \in [Nodes -> Files \cup {NoFile}]
         /\ vec' \in [Nodes -> [Files -> CheckpointState \cup {NONE}]]
         /\ evictee' \in [Nodes -> Files \cup {NoFile}]
<1>1. rw_mutex' \in [Nodes -> Files \cup {NoFile}]
  BY DEF LeaveEviction, TypeOK, EvictTypeOK
<1>2. vec' \in [Nodes -> [Files -> CheckpointState \cup {NONE}]]
  BY DEF LeaveEviction, TypeOK, EvictTypeOK
<1>3. evictee' \in [Nodes -> Files \cup {NoFile}]
  BY DEF LeaveEviction, TypeOK, EvictTypeOK
<1> QED
  BY <1>1, <1>2, <1>3

LEMMA AddType ==
  ASSUME TypeOK, NEW n \in Nodes, NEW f, AddRateLimited(n, f)
  PROVE  work_queue' \in [Nodes -> [Files -> Nat]]
<1> DEFINE row == [work_queue[n] EXCEPT ![f] = @ + 1]
<1>1. work_queue[n] \in [Files -> Nat]
  BY DEF TypeOK
<1>2. row \in [Files -> Nat]
  <2>1. CASE f \in Files
    BY <1>1, <2>1
  <2>2. CASE f \notin Files
    BY <1>1, <2>2
  <2> QED
    BY <2>1, <2>2
<1>3. work_queue' = [work_queue EXCEPT ![n] = row]
  BY DEF AddRateLimited
<1> HIDE DEF row
<1> QED
  BY <1>2, <1>3 DEF TypeOK

LEMMA DropType ==
  ASSUME TypeOK, NEW w \in Workers, Drop(w), wdata' \in [Workers -> Content]
  PROVE  WorkerTypeOK'
<1>1. wpc' \in [Workers -> WorkerPCs]
  BY DEF TypeOK, WorkerTypeOK, Drop, WorkerPCs
<1>2. wkey' \in [Workers -> Files \cup {NoFile}]
  BY DEF TypeOK, WorkerTypeOK, Drop
<1>3. wsnap' \in [Workers -> CheckpointState \cup {NONE}]
  BY DEF TypeOK, WorkerTypeOK, Drop
<1>4. waddr' \in [Workers -> Nat] /\ wraddr' \in [Workers -> Nat]
  BY DEF TypeOK, WorkerTypeOK, Drop
<1> QED
  BY <1>1, <1>2, <1>3, <1>4 DEF WorkerTypeOK

LEMMA RequeueType ==
  ASSUME TypeOK, NEW w \in Workers, Requeue(w),
         wdata' \in [Workers -> Content]
  PROVE  WorkerTypeOK' /\ work_queue' \in [Nodes -> [Files -> Nat]]
  BY DropType, AddType, NodeFacts DEF Requeue

LEMMA FailType ==
  ASSUME TypeOK, NEW kind, Fail(kind)
  PROVE  faults' \in Nat
  BY DEF TypeOK, Fail

(* Data in flight and what transfers leave behind are contents.            *)
LEMMA TransferType ==
  ASSUME TypeInv, NEW w \in Workers, wpc[w] # "idle"
  PROVE  /\ Source(w) \in Content
         /\ Delivered(w) \in Content
         /\ Torn \in Content
         /\ \A d \in Content : Spoiled(w, d) \in [Workers -> Content]
<1>1. Torn \in Content /\ Blank \in Content
  BY DEF Content, Torn, Blank
<1>2. Source(w) \in Content
  BY <1>1 DEF TypeInv, TypeOK, MemTypeOK, WorkerShape, Source
<1>3. Delivered(w) \in Content
  BY <1>1 DEF TypeInv, TypeOK, WorkerTypeOK, Delivered
<1>4. \A d \in Content : Spoiled(w, d) \in [Workers -> Content]
  BY <1>1 DEF TypeInv, TypeOK, WorkerTypeOK, Spoiled
<1> QED
  BY <1>1, <1>2, <1>3, <1>4

(* What a step of the system is: a client or its handler moves, a worker   *)
(* moves, or everything but exited stays as it is.                         *)
LEMMA Steps ==
  ASSUME [Next]_vars
  PROVE  \/ \E f \in Files : HandlerStep(f) \/ ClientStep(f)
         \/ \E w \in Workers : WorkerMove(w)
         \/ UNCHANGED nodeVars
<1>1. ASSUME NEW w \in Workers, NextNodeExits(w) PROVE UNCHANGED nodeVars
  BY <1>1 DEF NextNodeExits, nodeVars, rowVars, memVars, clientVars, evictVars, workerVars
<1>2. ASSUME UNCHANGED vars PROVE UNCHANGED nodeVars
  BY <1>2 DEF vars, nodeVars
<1> QED
  BY <1>1, <1>2 DEF Next, WorkerMove

(* The peer of a worker is a node; only nodes exit.                        *)
LEMMA ExitedType ==
  ASSUME TypeOK, [Next]_vars
  PROVE  exited' \in SUBSET Nodes
<1>1. ASSUME NEW w \in Workers, NextNodeExits(w) PROVE exited' \in SUBSET Nodes
  BY <1>1, NodeFacts DEF NextNodeExits, Peer, TypeOK
<1>2. ASSUME NEW w \in Workers, ConnectionReset(w) PROVE exited' = exited
  BY <1>2 DEF ConnectionReset
<1>3. ASSUME NEW w \in Workers, WorkerStep(w) PROVE exited' = exited
  BY <1>3 DEF WorkerStep
<1>4. ASSUME NEW f \in Files, HandlerStep(f) \/ ClientStep(f) PROVE exited' = exited
  BY <1>4 DEF HandlerStep, ClientStep
<1>5. ASSUME UNCHANGED vars PROVE exited' = exited
  BY <1>5 DEF vars
<1> QED
  BY <1>1, <1>2, <1>3, <1>4, <1>5 DEF Next, TypeOK

-----------------------------------------------------------------------------
LEMMA TypeInit == Init => TypeInv
<1> SUFFICES ASSUME Init PROVE TypeInv
  OBVIOUS
<1>1. RowTypeOK /\ MemTypeOK
  BY DEF Init, RowTypeOK, MemTypeOK, Content, Blank, Unknown
<1>2. ClientTypeOK
  BY DEF Init, ClientTypeOK, ClientPCs
<1>3. EvictTypeOK
  BY DEF Init, EvictTypeOK
<1>4. WorkerTypeOK
  BY DEF Init, WorkerTypeOK, WorkerPCs, Content, Blank
<1>5. disk \in [Files -> Content] /\ work_queue \in [Nodes -> [Files -> Nat]]
  BY DEF Init, Content, Blank
<1>6. faults \in Nat /\ exited \in SUBSET Nodes
  BY DEF Init
<1>7. HandlerShape /\ WorkerShape
  BY ConstantsAssumption, NodeFacts DEF Init, HandlerShape, WorkerShape, EvictPCs, RowPCs
<1> QED
  BY <1>1, <1>2, <1>3, <1>4, <1>5, <1>6, <1>7 DEF TypeInv, TypeOK

(* A client outside of the eviction, eviction state unchanged.             *)
LEMMA OutsideShape ==
  ASSUME TypeOK, HandlerShape, NEW f \in Files, NEW pc, ClientGoes(f, pc),
         cpc[f] \notin EvictPCs, pc \notin EvictPCs,
         UNCHANGED <<q_, rw_mutex, evictee>>
  PROVE  HandlerShape'
<1>1. \A g \in Files : cpc'[g] = IF g = f THEN pc ELSE cpc[g]
  BY DEF TypeOK, ClientTypeOK, ClientGoes
<1>2. RowPCs \subseteq EvictPCs
  BY DEF RowPCs, EvictPCs
<1> QED
  BY <1>1, <1>2 DEF HandlerShape

(* A handler that holds rw_mutex_, or finds it free, changes what its node *)
(* keeps for evictions.                                                    *)
LEMMA HolderShape ==
  ASSUME TypeOK, HandlerShape, NEW f \in Files, NEW pc, ClientGoes(f, pc),
         cpc[f] \in EvictPCs \/ rw_mutex[Owner[f]] = NoFile,
         rw_mutex'[Owner[f]] = IF pc \in EvictPCs THEN f ELSE NoFile,
         \A m \in Nodes \ {Owner[f]} : /\ rw_mutex'[m] = rw_mutex[m]
                                       /\ q_'[m] = q_[m]
                                       /\ evictee'[m] = evictee[m],
         pc \in EvictPCs \ {"batch"} => q_'[Owner[f]] # <<>>,
         pc \in RowPCs => evictee'[Owner[f]] \in Files
  PROVE  HandlerShape'
<1>1. \A g \in Files : cpc'[g] = IF g = f THEN pc ELSE cpc[g]
  BY DEF TypeOK, ClientTypeOK, ClientGoes
<1>2. NoFile \notin Files
  BY ConstantsAssumption
<1>3. RowPCs \subseteq EvictPCs
  BY DEF RowPCs, EvictPCs
<1> SUFFICES ASSUME NEW g \in Files
             PROVE  /\ cpc'[g] \in EvictPCs <=> rw_mutex'[Owner[g]] = g
                    /\ cpc'[g] \in EvictPCs \ {"batch"} => q_'[Owner[g]] # <<>>
                    /\ cpc'[g] \in RowPCs => evictee'[Owner[g]] \in Files
  BY DEF HandlerShape
<1>4. CASE g = f
  BY <1>1, <1>2, <1>4
<1>5. CASE g # f /\ Owner[g] = Owner[f]
  <2>1. cpc[g] \notin EvictPCs
    BY <1>2, <1>5 DEF HandlerShape
  <2> QED
    BY <1>1, <1>2, <1>3, <1>5, <2>1
<1>6. CASE g # f /\ Owner[g] # Owner[f]
  BY <1>1, <1>6, NodeFacts DEF HandlerShape
<1> QED
  BY <1>4, <1>5, <1>6

(* Leaving the eviction frees the lock of this node only.                  *)
LEMMA LeaveShape ==
  ASSUME TypeOK, HandlerShape, NEW f \in Files, cpc[f] \in EvictPCs,
         LeaveEviction(Owner[f]), NEW pc, pc \notin EvictPCs, ClientGoes(f, pc),
         \A m \in Nodes \ {Owner[f]} : q_'[m] = q_[m]
  PROVE  HandlerShape'
<1>1. Owner[f] \in Nodes
  BY NodeFacts
<1>2. /\ rw_mutex'[Owner[f]] = NoFile
      /\ \A m \in Nodes \ {Owner[f]} : rw_mutex'[m] = rw_mutex[m]
      /\ \A m \in Nodes \ {Owner[f]} : evictee'[m] = evictee[m]
  BY <1>1 DEF LeaveEviction, TypeOK, EvictTypeOK
<1>3. pc \notin RowPCs
  BY DEF RowPCs, EvictPCs
<1> QED
  BY <1>2, <1>3, HolderShape

LEMMA EvictionFailsType ==
  ASSUME TypeOK, HandlerShape, NEW f \in Files, cpc[f] \in EvictPCs,
         EvictionFails(f), UNCHANGED <<citer, caddr, saves, acked>>
  PROVE  EvictTypeOK' /\ ClientTypeOK' /\ HandlerShape'
<1>1. EvictTypeOK'
  BY NodeFacts, LeaveEvictionType DEF EvictionFails, TypeOK, EvictTypeOK
<1>2. ClientTypeOK'
  BY ClientGoesType DEF EvictionFails, ClientPCs
<1>3. HandlerShape'
  BY LeaveShape DEF EvictionFails, EvictPCs
<1> QED
  BY <1>1, <1>2, <1>3

(* The holder of the lock moves on to another step of the eviction.        *)
LEMMA EvictingShape ==
  ASSUME TypeOK, HandlerShape, NEW f \in Files, cpc[f] \in EvictPCs \ {"batch"},
         NEW pc \in EvictPCs, ClientGoes(f, pc), UNCHANGED <<rw_mutex, q_>>,
         \A m \in Nodes \ {Owner[f]} : evictee'[m] = evictee[m],
         pc \in RowPCs => evictee'[Owner[f]] \in Files
  PROVE  HandlerShape'
<1>1. rw_mutex'[Owner[f]] = f /\ q_'[Owner[f]] # <<>>
  BY DEF HandlerShape
<1> QED
  BY <1>1, HolderShape

(* The iteration of a save is recorded behind those of s.                  *)
LEMMA AppendType ==
  ASSUME TypeOK, NEW f \in Files, NEW s \in Seq(Nat \cup {Unknown}),
         q_' = [q_ EXCEPT ![Owner[f]] = Append(s, citer[f])]
  PROVE  /\ q_' \in [Nodes -> Seq(Nat \cup {Unknown})]
         /\ \A m \in Nodes \ {Owner[f]} : q_'[m] = q_[m]
<1>1. citer[f] \in Nat \cup {Unknown}
  BY DEF TypeOK, ClientTypeOK
<1> DEFINE t == Append(s, citer[f])
<1>2. t \in Seq(Nat \cup {Unknown})
  BY <1>1
<1>3. q_' = [q_ EXCEPT ![Owner[f]] = t]
  OBVIOUS
<1> HIDE DEF t
<1> QED
  BY <1>2, <1>3 DEF TypeOK, EvictTypeOK

(* The type invariant is preserved by the client of a file and its handler.*)
LEMMA ClientTypeStep ==
  ASSUME TypeInv, NEW f \in Files, HandlerStep(f) \/ ClientStep(f)
  PROVE  TypeInv'
<1> USE DEF TypeInv
<1>0. Owner[f] \in Nodes
  BY NodeFacts
<1>1. UNCHANGED workerVars
  BY DEF HandlerStep, ClientStep, AdmitIteration, EvictBatchLoad, EvictNext,
         EvictReload, EvictMark, EvictAdd, EvictDeleted, EvictDone, Alloc,
         SaveMeta, UpdateAdd, SaveBegin, WriteBegin, WriteEnd, ClientAbort,
         UpdateMetadata
<1>2. WorkerTypeOK' /\ WorkerShape'
  BY <1>1, FrameType DEF TypeOK, WorkerShape, workerVars
<1>3. disk' \in [Files -> Content]
  BY DEF TypeOK, HandlerStep, ClientStep, AdmitIteration, EvictBatchLoad, EvictNext,
         EvictReload, EvictMark, EvictAdd, EvictDeleted, EvictDone, Alloc,
         SaveMeta, UpdateAdd, SaveBegin, WriteBegin, WriteEnd, ClientAbort,
         UpdateMetadata
<1>20. exited' \in SUBSET Nodes
  BY DEF TypeOK, HandlerStep, ClientStep
<1> SUFFICES HandlerShape' /\ RowTypeOK' /\ MemTypeOK' /\ ClientTypeOK'
             /\ EvictTypeOK' /\ work_queue' \in [Nodes -> [Files -> Nat]]
             /\ faults' \in Nat
  BY <1>2, <1>3, <1>20 DEF TypeOK
<1>4. CASE SaveBegin(f)
  <2>1. PICK i \in Iters[f] :
          /\ citer' = [citer EXCEPT ![f] = i]
          /\ ClientGoes(f, IF i = Unknown THEN "alloc" ELSE "lock")
    BY <1>4 DEF SaveBegin
  <2>2. citer' \in [Files -> Nat \cup {Unknown}]
    BY <2>1, ConstantsAssumption DEF TypeOK, ClientTypeOK
  <2>3. cpc' \in [Files -> ClientPCs]
    BY <2>1 DEF TypeOK, ClientTypeOK, ClientGoes, ClientPCs
  <2>4. acked' \in [Files -> BOOLEAN]
    BY <1>4 DEF TypeOK, ClientTypeOK, SaveBegin
  <2>5. saves' \in [Files -> Nat] /\ caddr' \in [Files -> Nat]
    BY <1>4 DEF TypeOK, ClientTypeOK, SaveBegin
  <2>6. ClientTypeOK'
    BY <2>2, <2>3, <2>4, <2>5 DEF ClientTypeOK
  <2>7. HandlerShape'
    BY <1>4, <2>1, OutsideShape DEF SaveBegin, EvictPCs, evictVars
  <2> QED
    BY <1>4, <2>6, <2>7, FrameType DEF SaveBegin, TypeOK
<1>5. CASE AdmitIteration(f)
  <2>0. cpc[f] \notin EvictPCs /\ rw_mutex[Owner[f]] = NoFile
    BY <1>5 DEF AdmitIteration, EvictPCs
  <2>1. CASE ClientGoes(f, "alloc") /\ UNCHANGED <<q_, rw_mutex>>
    <3>1. HandlerShape' /\ ClientTypeOK'
      BY <1>5, <2>0, <2>1, OutsideShape, ClientGoesType
      DEF AdmitIteration, EvictPCs, ClientPCs
    <3> QED
      BY <1>5, <2>1, <3>1, FrameType DEF AdmitIteration, TypeOK, evictVars
  <2>2. CASE /\ q_' = [q_ EXCEPT ![Owner[f]] = Append(@, citer[f])]
             /\ ClientGoes(f, "alloc")
             /\ UNCHANGED rw_mutex
    <3>1. q_[Owner[f]] \in Seq(Nat \cup {Unknown})
      BY <1>0 DEF TypeOK, EvictTypeOK
    <3>2. /\ q_' \in [Nodes -> Seq(Nat \cup {Unknown})]
          /\ \A m \in Nodes \ {Owner[f]} : q_'[m] = q_[m]
      BY <2>2, <3>1, AppendType
    <3>3. ClientTypeOK'
      BY <1>5, <2>2, ClientGoesType DEF AdmitIteration, ClientPCs
    <3>4. EvictTypeOK'
      BY <1>5, <2>2, <3>2 DEF AdmitIteration, TypeOK, EvictTypeOK
    <3>5. UNCHANGED <<rw_mutex, evictee>> /\ "alloc" \notin EvictPCs \cup RowPCs
      BY <1>5, <2>2 DEF AdmitIteration, EvictPCs, RowPCs
    <3>6. HandlerShape'
      BY <2>0, <2>2, <3>2, <3>5, HolderShape
    <3> QED
      BY <1>5, <3>3, <3>4, <3>6, FrameType DEF AdmitIteration, TypeOK
  <2>3. CASE /\ rw_mutex' = [rw_mutex EXCEPT ![Owner[f]] = f]
             /\ ClientGoes(f, "batch")
             /\ UNCHANGED q_
    <3>1. EvictTypeOK'
      BY <1>5, <2>3 DEF AdmitIteration, TypeOK, EvictTypeOK
    <3>2. ClientTypeOK'
      BY <1>5, <2>3, ClientGoesType DEF AdmitIteration, ClientPCs
    <3>3. "batch" \in EvictPCs /\ "batch" \notin RowPCs
      BY DEF EvictPCs, RowPCs
    <3>4. /\ rw_mutex'[Owner[f]] = f
          /\ \A m \in Nodes \ {Owner[f]} : rw_mutex'[m] = rw_mutex[m]
          /\ evictee' = evictee
      BY <1>0, <1>5, <2>3 DEF AdmitIteration, TypeOK, EvictTypeOK
    <3>5. HandlerShape'
      BY <2>0, <2>3, <3>3, <3>4, HolderShape
    <3> QED
      BY <1>5, <3>1, <3>2, <3>5, FrameType DEF AdmitIteration, TypeOK
  <2> QED
    BY <1>5, <2>1, <2>2, <2>3 DEF AdmitIteration
<1>6. CASE EvictBatchLoad(f)
  <2> DEFINE rows == RowsOf(Owner[f], OldestIteration(Owner[f]))
  <2>0. cpc[f] \in EvictPCs
    BY <1>6 DEF EvictBatchLoad, EvictPCs
  <2>1. CASE EvictionFails(f)
    <3>1. EvictTypeOK' /\ ClientTypeOK' /\ HandlerShape'
      BY <1>6, <2>0, <2>1, EvictionFailsType DEF EvictBatchLoad
    <3>2. faults' \in Nat
      BY <1>6, FailType DEF EvictBatchLoad, TypeOK
    <3> QED
      BY <1>6, <3>1, <3>2, FrameType DEF EvictBatchLoad, TypeOK
  <2>2. CASE /\ rows # {}
             /\ vec' = [vec EXCEPT ![Owner[f]] =
                          [g \in Files |-> IF g \in rows THEN state[g] ELSE NONE]]
             /\ ClientGoes(f, "evict")
             /\ UNCHANGED <<rw_mutex, q_, evictee, evicted, faults>>
    <3> HIDE DEF rows
    <3>1. vec' \in [Nodes -> [Files -> CheckpointState \cup {NONE}]]
      BY <1>0, <2>2 DEF TypeOK, EvictTypeOK, RowTypeOK
    <3>2. EvictTypeOK'
      BY <2>2, <3>1 DEF TypeOK, EvictTypeOK
    <3>3. ClientTypeOK'
      BY <1>6, <2>2, ClientGoesType DEF EvictBatchLoad, ClientPCs
    <3>4. q_[Owner[f]] # <<>>
      <4>1. PICK g \in Files : iteration[g] = OldestIteration(Owner[f])
        BY <2>2 DEF rows, RowsOf
      <4>2. iteration[g] # NoIteration
        BY DEF TypeOK, RowTypeOK, Unknown, NoIteration
      <4> QED
        BY <4>1, <4>2 DEF OldestIteration
    <3>5. "evict" \in EvictPCs /\ "evict" \notin RowPCs
      BY DEF EvictPCs, RowPCs
    <3>6. rw_mutex[Owner[f]] = f
      BY <2>0 DEF HandlerShape
    <3>7. HandlerShape'
      BY <2>0, <2>2, <3>4, <3>5, <3>6, HolderShape
    <3> QED
      BY <1>6, <2>2, <3>2, <3>3, <3>7, FrameType DEF EvictBatchLoad, TypeOK
  <2> QED
    BY <1>6, <2>1, <2>2 DEF EvictBatchLoad
<1>7. CASE EvictNext(f)
  <2>1. PICK e \in Files : evictee' = [evictee EXCEPT ![Owner[f]] = e]
    BY <1>7 DEF EvictNext
  <2>2. EvictTypeOK'
    BY <1>7, <2>1 DEF EvictNext, TypeOK, EvictTypeOK
  <2>3. ClientTypeOK'
    BY <1>7, ClientGoesType DEF EvictNext, ClientPCs
  <2>4. /\ evictee'[Owner[f]] \in Files
        /\ \A m \in Nodes \ {Owner[f]} : evictee'[m] = evictee[m]
    BY <1>0, <2>1 DEF TypeOK, EvictTypeOK
  <2>5. cpc[f] \in EvictPCs \ {"batch"} /\ "wait" \in EvictPCs
    BY <1>7 DEF EvictNext, EvictPCs
  <2>6. HandlerShape'
    BY <1>7, <2>4, <2>5, EvictingShape DEF EvictNext
  <2> QED
    BY <1>7, <2>2, <2>3, <2>6, FrameType DEF EvictNext, TypeOK
<1>8. CASE EvictReload(f)
  <2> DEFINE e == evictee[Owner[f]]
  <2>0. cpc[f] \in EvictPCs
    BY <1>8 DEF EvictReload, EvictPCs
  <2>1. CASE vec' = [vec EXCEPT ![Owner[f]][e] = state[e]]
             /\ UNCHANGED <<cpc, rw_mutex, q_, evictee, evicted, faults>>
    <3>1. vec[Owner[f]] \in [Files -> CheckpointState \cup {NONE}]
      BY <1>0 DEF TypeOK, EvictTypeOK
    <3>2. [vec[Owner[f]] EXCEPT ![e] = state[e]]
            \in [Files -> CheckpointState \cup {NONE}]
      BY <3>1 DEF TypeOK, RowTypeOK
    <3>3. vec' \in [Nodes -> [Files -> CheckpointState \cup {NONE}]]
      BY <2>1, <3>2 DEF TypeOK, EvictTypeOK
    <3>4. EvictTypeOK' /\ HandlerShape'
      BY <2>1, <3>3 DEF TypeOK, EvictTypeOK, HandlerShape
    <3> QED
      BY <1>8, <2>1, <3>4, FrameType DEF EvictReload, TypeOK, clientVars
  <2>2. CASE Fail("db") /\ EvictionFails(f)
    <3>1. EvictTypeOK' /\ ClientTypeOK' /\ HandlerShape'
      BY <1>8, <2>0, <2>2, EvictionFailsType DEF EvictReload
    <3> QED
      BY <1>8, <2>2, <3>1, FrameType, FailType DEF EvictReload, TypeOK
  <2> QED
    BY <1>8, <2>1, <2>2 DEF EvictReload
<1>9. CASE EvictMark(f)
  <2> DEFINE e == evictee[Owner[f]]
  <2>0. cpc[f] \in RowPCs /\ cpc[f] \in EvictPCs \ {"batch"}
    BY <1>9 DEF EvictMark, RowPCs, EvictPCs
  <2>1. CASE /\ state' = [state EXCEPT ![e] = "OBSOLESCENT"]
             /\ evicted' = evicted \cup {e}
             /\ ClientGoes(f, "evict_add")
             /\ UNCHANGED <<rw_mutex, q_, vec, evictee, faults>>
    <3>1. e \in Files
      BY <2>0 DEF HandlerShape
    <3>2. RowTypeOK'
      BY <1>9, <2>1 DEF EvictMark, TypeOK, RowTypeOK, CheckpointState
    <3>3. EvictTypeOK'
      BY <2>1, <3>1 DEF TypeOK, EvictTypeOK
    <3>4. ClientTypeOK'
      BY <1>9, <2>1, ClientGoesType DEF EvictMark, ClientPCs
    <3>5. HandlerShape'
      BY <2>0, <2>1, <3>1, EvictingShape DEF EvictPCs
    <3> QED
      BY <1>9, <2>1, <3>2, <3>3, <3>4, <3>5, FrameType DEF EvictMark, TypeOK
  <2>2. CASE Fail("db") /\ EvictionFails(f) /\ UNCHANGED state
    <3>1. EvictTypeOK' /\ ClientTypeOK' /\ HandlerShape'
      BY <1>9, <2>0, <2>2, EvictionFailsType DEF EvictMark
    <3> QED
      BY <1>9, <2>2, <3>1, FrameType, FailType DEF EvictMark, TypeOK, rowVars
  <2> QED
    BY <1>9, <2>1, <2>2 DEF EvictMark
<1>10. CASE EvictAdd(f)
  <2>1. cpc[f] \in RowPCs /\ cpc[f] \in EvictPCs \ {"batch"}
    BY <1>10 DEF EvictAdd, RowPCs, EvictPCs
  <2>2. ClientTypeOK'
    BY <1>10, ClientGoesType DEF EvictAdd, ClientPCs
  <2>3. UNCHANGED <<rw_mutex, q_, evictee>> /\ evictee[Owner[f]] \in Files
    BY <1>10, <2>1 DEF EvictAdd, evictVars, HandlerShape
  <2>4. HandlerShape'
    BY <1>10, <2>1, <2>3, EvictingShape DEF EvictAdd, EvictPCs
  <2>5. work_queue' \in [Nodes -> [Files -> Nat]]
    BY <1>0, <1>10, AddType DEF EvictAdd
  <2> QED
    BY <1>10, <2>2, <2>4, <2>5, FrameType DEF EvictAdd, TypeOK
<1>11. CASE EvictDeleted(f)
  <2> DEFINE e == evictee[Owner[f]]
  <2>1. cpc[f] \in EvictPCs \ {"batch"}
    BY <1>11 DEF EvictDeleted, EvictPCs
  <2>2. ClientTypeOK'
    BY <1>11, ClientGoesType DEF EvictDeleted, ClientPCs
  <2>3. /\ evictee' \in [Nodes -> Files \cup {NoFile}]
        /\ \A m \in Nodes \ {Owner[f]} : evictee'[m] = evictee[m]
    BY <1>0, <1>11 DEF EvictDeleted, TypeOK, EvictTypeOK
  <2>4. vec[Owner[f]] \in [Files -> CheckpointState \cup {NONE}]
    BY <1>0 DEF TypeOK, EvictTypeOK
  <2>5. [vec[Owner[f]] EXCEPT ![e] = NONE]
          \in [Files -> CheckpointState \cup {NONE}]
    BY <2>4
  <2>6. vec' \in [Nodes -> [Files -> CheckpointState \cup {NONE}]]
    BY <1>11, <2>5 DEF EvictDeleted, TypeOK, EvictTypeOK
  <2>7. EvictTypeOK'
    BY <1>11, <2>3, <2>6 DEF EvictDeleted, TypeOK, EvictTypeOK
  <2>8. HandlerShape'
    BY <1>11, <2>1, <2>3, EvictingShape DEF EvictDeleted, EvictPCs, RowPCs
  <2> QED
    BY <1>11, <2>2, <2>7, <2>8, FrameType DEF EvictDeleted, TypeOK
<1>12. CASE EvictDone(f)
  <2>1. cpc[f] \in EvictPCs \ {"batch"}
    BY <1>12 DEF EvictDone, EvictPCs
  <2>2. Tail(q_[Owner[f]]) \in Seq(Nat \cup {Unknown})
    BY <1>0, <2>1 DEF HandlerShape, TypeOK, EvictTypeOK
  <2>3. /\ q_' \in [Nodes -> Seq(Nat \cup {Unknown})]
        /\ \A m \in Nodes \ {Owner[f]} : q_'[m] = q_[m]
    BY <1>12, <2>2, AppendType DEF EvictDone
  <2>4. EvictTypeOK'
    BY <1>0, <1>12, <2>3, LeaveEvictionType DEF EvictDone, TypeOK, EvictTypeOK
  <2>5. ClientTypeOK'
    BY <1>12, ClientGoesType DEF EvictDone, ClientPCs
  <2>6. HandlerShape'
    BY <1>12, <2>1, <2>3, LeaveShape DEF EvictDone, EvictPCs
  <2> QED
    BY <1>12, <2>4, <2>5, <2>6, FrameType DEF EvictDone, TypeOK
<1>13. CASE Alloc(f)
  <2>1. PICK pc \in {"save_meta", "idle"} : ClientGoes(f, pc)
    BY <1>13 DEF Alloc
  <2>2. ClientTypeOK'
    BY <1>13, <2>1, ClientGoesType DEF Alloc, ClientPCs
  <2>3. HandlerShape'
    BY <1>13, <2>1, OutsideShape DEF Alloc, EvictPCs, evictVars
  <2>4. dict' \in [Files -> Nat] /\ alloc' \in [Files -> Nat]
    BY <1>13 DEF Alloc, TypeOK, MemTypeOK
  <2>5. cache' \in [Files -> Content]
    BY <1>13 DEF Alloc, TypeOK, MemTypeOK, Content, Blank
  <2>6. MemTypeOK'
    BY <1>13, <2>4, <2>5 DEF Alloc, TypeOK, MemTypeOK
  <2>7. faults' \in Nat
    BY <1>13, FailType DEF Alloc, TypeOK
  <2> QED
    BY <1>13, <2>2, <2>3, <2>6, <2>7, FrameType DEF Alloc, TypeOK
<1>14. CASE SaveMeta(f)
  <2>1. PICK pc \in {"open", "idle"} : ClientGoes(f, pc)
    BY <1>14 DEF SaveMeta
  <2>2. ClientTypeOK'
    BY <1>14, <2>1, ClientGoesType DEF SaveMeta, ClientPCs
  <2>3. HandlerShape'
    BY <1>14, <2>1, OutsideShape DEF SaveMeta, EvictPCs, evictVars
  <2>4. state' \in [Files -> CheckpointState \cup {NONE}]
    BY <1>14 DEF SaveMeta, rowVars, TypeOK, RowTypeOK, CheckpointState
  <2>5. iteration' \in [Files -> Nat \cup {Unknown}]
    BY <1>14 DEF SaveMeta, rowVars, TypeOK, RowTypeOK, ClientTypeOK
  <2>6. faults' \in Nat
    BY <1>14, FailType DEF SaveMeta, TypeOK
  <2> QED
    BY <1>14, <2>2, <2>3, <2>4, <2>5, <2>6, FrameType
    DEF SaveMeta, TypeOK, RowTypeOK
<1>15. CASE WriteBegin(f)
  <2>1. PICK pc \in {"write", "idle"} : ClientGoes(f, pc)
    BY <1>15 DEF WriteBegin
  <2>2. cpc' \in [Files -> ClientPCs]
    BY <2>1 DEF ClientGoes, TypeOK, ClientTypeOK, ClientPCs
  <2>3. caddr' \in [Files -> Nat]
    BY <1>15 DEF WriteBegin, TypeOK, ClientTypeOK, MemTypeOK
  <2>4. ClientTypeOK'
    BY <1>15, <2>2, <2>3 DEF WriteBegin, TypeOK, ClientTypeOK
  <2>5. HandlerShape'
    BY <1>15, <2>1, OutsideShape DEF WriteBegin, EvictPCs, evictVars
  <2>6. cache' \in [Files -> Content]
    BY <1>15 DEF WriteBegin, TypeOK, MemTypeOK, Content, Torn
  <2>7. MemTypeOK'
    BY <1>15, <2>6 DEF WriteBegin, TypeOK, MemTypeOK
  <2> QED
    BY <1>15, <2>4, <2>5, <2>7, FrameType DEF WriteBegin, TypeOK
<1>16. CASE WriteEnd(f)
  <2>1. cpc' \in [Files -> ClientPCs]
    BY <1>16 DEF WriteEnd, ClientGoes, TypeOK, ClientTypeOK, ClientPCs
  <2>2. caddr' \in [Files -> Nat]
    BY <1>16 DEF WriteEnd, TypeOK, ClientTypeOK
  <2>3. ClientTypeOK'
    BY <1>16, <2>1, <2>2 DEF WriteEnd, TypeOK, ClientTypeOK
  <2>4. HandlerShape'
    BY <1>16, OutsideShape DEF WriteEnd, EvictPCs, evictVars
  <2>5. cache' \in [Files -> Content]
    BY <1>16 DEF WriteEnd, TypeOK, MemTypeOK, ClientTypeOK, Content
  <2>6. MemTypeOK'
    BY <1>16, <2>5 DEF WriteEnd, TypeOK, MemTypeOK
  <2> QED
    BY <1>16, <2>3, <2>4, <2>6, FrameType DEF WriteEnd, TypeOK
<1>17. CASE ClientAbort(f)
  <2>1. ClientTypeOK'
    <3>1. cpc' \in [Files -> ClientPCs]
      BY <1>17 DEF ClientAbort, ClientGoes, TypeOK, ClientTypeOK, ClientPCs
    <3>2. caddr' \in [Files -> Nat]
      BY <1>17 DEF ClientAbort, TypeOK, ClientTypeOK
    <3> QED
      BY <1>17, <3>1, <3>2 DEF ClientAbort, TypeOK, ClientTypeOK
  <2>2. HandlerShape'
    BY <1>17, OutsideShape DEF ClientAbort, EvictPCs, evictVars
  <2> QED
    BY <1>17, <2>1, <2>2, FrameType DEF ClientAbort, TypeOK
<1>18. CASE UpdateMetadata(f)
  <2>1. PICK pc \in {"add", "idle"} : ClientGoes(f, pc)
    BY <1>18 DEF UpdateMetadata
  <2>2. ClientTypeOK'
    BY <1>18, <2>1, ClientGoesType DEF UpdateMetadata, ClientPCs
  <2>3. HandlerShape'
    BY <1>18, <2>1, OutsideShape DEF UpdateMetadata, EvictPCs, evictVars
  <2>4. RowTypeOK'
    BY <1>18 DEF UpdateMetadata, TypeOK, RowTypeOK, CheckpointState
  <2>5. faults' \in Nat
    BY <1>18, FailType DEF UpdateMetadata, TypeOK
  <2> QED
    BY <1>18, <2>2, <2>3, <2>4, <2>5, FrameType DEF UpdateMetadata, TypeOK
<1>19. CASE UpdateAdd(f)
  <2>1. cpc' \in [Files -> ClientPCs]
    BY <1>19 DEF UpdateAdd, ClientGoes, TypeOK, ClientTypeOK, ClientPCs
  <2>2. acked' \in [Files -> BOOLEAN]
    BY <1>19 DEF UpdateAdd, TypeOK, ClientTypeOK
  <2>3. ClientTypeOK'
    BY <1>19, <2>1, <2>2 DEF UpdateAdd, TypeOK, ClientTypeOK
  <2>4. HandlerShape'
    BY <1>19, OutsideShape DEF UpdateAdd, EvictPCs, evictVars
  <2>5. work_queue' \in [Nodes -> [Files -> Nat]]
    BY <1>0, <1>19, AddType DEF UpdateAdd
  <2> QED
    BY <1>19, <2>3, <2>4, <2>5, FrameType DEF UpdateAdd, TypeOK
<1> QED
  BY <1>4, <1>5, <1>6, <1>7, <1>8, <1>9, <1>10, <1>11, <1>12, <1>13, <1>14,
     <1>15, <1>16, <1>17, <1>18, <1>19 DEF HandlerStep, ClientStep

(* A worker that dropped its key has none.                                 *)
LEMMA DropShape ==
  ASSUME TypeOK, WorkerShape, NEW w \in Workers, Drop(w)
  PROVE  WorkerShape'
<1>1. wpc'[w] = "idle" /\ wkey'[w] = NoFile
  BY DEF TypeOK, WorkerTypeOK, Drop
<1>2. \A u \in Workers \ {w} :
        wpc'[u] = wpc[u] /\ wkey'[u] = wkey[u] /\ wsnap'[u] = wsnap[u]
  BY DEF TypeOK, WorkerTypeOK, Drop
<1>3. NoFile \notin Files
  BY ConstantsAssumption
<1> SUFFICES ASSUME NEW u \in Workers
             PROVE  /\ wpc'[u] # "idle" <=> wkey'[u] \in Files
                    /\ wpc'[u] \in {"notify", "delete"} => wsnap'[u] = "OBSOLESCENT"
  BY DEF WorkerShape
<1>4. CASE u = w
  BY <1>1, <1>3, <1>4
<1>5. CASE u # w
  BY <1>2, <1>5 DEF WorkerShape
<1> QED
  BY <1>4, <1>5

(* A busy worker moves to another step with the same key and snapshot.     *)
LEMMA BusyShape ==
  ASSUME TypeOK, WorkerShape, NEW w \in Workers, wpc[w] # "idle",
         NEW pc, pc # "idle", WorkerGoes(w, pc), UNCHANGED <<wkey, wsnap>>,
         pc \in {"notify", "delete"} => wsnap[w] = "OBSOLESCENT"
  PROVE  WorkerShape'
  BY DEF TypeOK, WorkerTypeOK, WorkerShape, WorkerGoes

(* A worker that is caught in a handshake keeps its key and snapshot.      *)
LEMMA StuckType ==
  ASSUME TypeInv, NEW w \in Workers, wpc[w] # "idle", GetsStuck(w)
  PROVE  WorkerTypeOK' /\ WorkerShape'
<1>1. WorkerShape'
  BY BusyShape DEF GetsStuck, TypeInv
<1>2. wdata' \in [Workers -> Content]
  BY DEF GetsStuck, TypeInv, TypeOK, WorkerTypeOK, Content, Blank
<1>3. wpc' \in [Workers -> WorkerPCs]
  BY DEF GetsStuck, WorkerGoes, TypeInv, TypeOK, WorkerTypeOK, WorkerPCs
<1> QED
  BY <1>1, <1>2, <1>3 DEF GetsStuck, TypeInv, TypeOK, WorkerTypeOK

(* The type invariant is preserved by the reconciliation workers.          *)
LEMMA WorkerTypeStep ==
  ASSUME TypeInv, NEW w \in Workers, WorkerMove(w)
  PROVE  TypeInv'
<1> USE DEF TypeInv
<1>0. NodeOf[w] \in Nodes /\ NextNode(NodeOf[w]) \in Nodes
  BY NodeFacts
<1>1. UNCHANGED <<clientVars, evictVars, iteration>>
  BY DEF WorkerMove, WorkerStep, ConnectionReset,
         Fetch, LoadMetadata, CheckData, MarkBroken, BackupBegin,
         RdmaWrite, PersistOpen, PersistWrite, UpdateState, NotifyNext,
         DeleteEntry, rowVars
<1>2. ClientTypeOK' /\ EvictTypeOK' /\ HandlerShape'
  BY <1>1, FrameType DEF TypeOK, HandlerShape, clientVars, evictVars
<1>3. faults' \in Nat
  BY FailType
  DEF TypeOK, WorkerMove, WorkerStep, ConnectionReset, Fetch, LoadMetadata, CheckData, MarkBroken,
      BackupBegin, RdmaWrite, PersistOpen, PersistWrite, UpdateState,
      NotifyNext, DeleteEntry, PeerFails
<1>15. exited' \in SUBSET Nodes
  BY DEF TypeOK, WorkerMove, WorkerStep, ConnectionReset
<1> SUFFICES WorkerShape' /\ RowTypeOK' /\ MemTypeOK' /\ WorkerTypeOK'
             /\ work_queue' \in [Nodes -> [Files -> Nat]]
             /\ disk' \in [Files -> Content]
  BY <1>2, <1>3, <1>15 DEF TypeOK
<1>4. CASE Fetch(w)
  <2>1. PICK f \in Files :
          /\ work_queue[NodeOf[w]][f] > 0
          /\ work_queue' = [work_queue EXCEPT ![NodeOf[w]][f] = @ - 1]
          /\ wkey' = [wkey EXCEPT ![w] = f]
    BY <1>4 DEF Fetch
  <2>2. work_queue' \in [Nodes -> [Files -> Nat]]
    <3> DEFINE row == [work_queue[NodeOf[w]] EXCEPT ![f] = @ - 1]
    <3>1. work_queue[NodeOf[w]] \in [Files -> Nat]
      BY <1>0 DEF TypeOK
    <3>2. row \in [Files -> Nat]
      BY <2>1, <3>1
    <3>3. work_queue' = [work_queue EXCEPT ![NodeOf[w]] = row]
      BY <2>1
    <3> HIDE DEF row
    <3> QED
      BY <3>2, <3>3 DEF TypeOK
  <2>3. WorkerTypeOK'
    BY <1>4, <2>1 DEF Fetch, WorkerGoes, TypeOK, WorkerTypeOK, WorkerPCs
  <2>4. WorkerShape'
    BY <1>4, <2>1 DEF Fetch, WorkerGoes, TypeOK, WorkerTypeOK, WorkerShape
  <2> QED
    BY <1>4, <2>2, <2>3, <2>4, FrameType DEF Fetch, TypeOK
<1>5. CASE LoadMetadata(w)
  <2>0. wpc[w] # "idle" /\ wdata' \in [Workers -> Content] /\ wkey[w] \in Files
    BY <1>5 DEF LoadMetadata, TypeOK, WorkerTypeOK, WorkerShape
  <2>1. CASE Drop(w) /\ UNCHANGED <<work_queue, faults>>
    BY <1>5, <2>0, <2>1, DropType, DropShape, FrameType
    DEF LoadMetadata, TypeOK
  <2>2. CASE /\ state[wkey[w]] # NONE
             /\ wsnap' = [wsnap EXCEPT ![w] = state[wkey[w]]]
             /\ WorkerGoes(w, "check")
             /\ UNCHANGED <<work_queue, wkey, waddr, wraddr, faults>>
    <3>1. wsnap' \in [Workers -> CheckpointState \cup {NONE}]
      BY <2>0, <2>2 DEF TypeOK, WorkerTypeOK, RowTypeOK
    <3>2. WorkerTypeOK'
      BY <2>0, <2>2, <3>1 DEF TypeOK, WorkerTypeOK, WorkerGoes, WorkerPCs
    <3>3. WorkerShape'
      BY <2>0, <2>2 DEF TypeOK, WorkerTypeOK, WorkerGoes, WorkerShape
    <3> QED
      BY <1>5, <2>2, <3>2, <3>3, FrameType DEF LoadMetadata, TypeOK
  <2>3. CASE Fail("db") /\ Requeue(w)
    BY <1>5, <2>0, <2>3, RequeueType, DropShape, FrameType
    DEF LoadMetadata, TypeOK, Requeue
  <2> QED
    BY <1>5, <2>1, <2>2, <2>3 DEF LoadMetadata
<1>6. CASE CheckData(w)
  <2>0. wpc[w] # "idle" /\ wdata' \in [Workers -> Content] /\ wkey[w] \in Files
    BY <1>6 DEF CheckData, TypeOK, WorkerTypeOK, WorkerShape
  <2>1. CASE Drop(w)
    BY <1>6, <2>0, <2>1, DropType, DropShape, FrameType DEF CheckData, TypeOK
  <2>2. CASE WorkerGoes(w, "break") /\ UNCHANGED <<wkey, wsnap, waddr, wraddr>>
    BY <1>6, <2>0, <2>2, WorkerGoesType, BusyShape, FrameType
    DEF CheckData, TypeOK, WorkerPCs
  <2>3. CASE /\ waddr' = [waddr EXCEPT ![w] = LocalAddress(w)]
             /\ Task(w, wsnap[w]) # "none"
             /\ WorkerGoes(w, Task(w, wsnap[w]))
             /\ UNCHANGED <<wkey, wsnap, wraddr>>
    <3>1. Task(w, wsnap[w]) \in {"backup", "fopen", "notify", "delete"}
      BY <2>3, Zenon DEF Task
    <3>2. Task(w, wsnap[w]) \in {"notify", "delete"} => wsnap[w] = "OBSOLESCENT"
      BY DEF Task
    <3>3. LocalAddress(w) \in Nat
      BY <2>0 DEF LocalAddress, TypeOK, MemTypeOK
    <3>4. waddr' \in [Workers -> Nat]
      BY <2>3, <3>3 DEF TypeOK, WorkerTypeOK
    <3>5. wpc' \in [Workers -> WorkerPCs]
      BY <2>3, <3>1 DEF TypeOK, WorkerTypeOK, WorkerGoes, WorkerPCs
    <3>6. WorkerTypeOK'
      BY <2>0, <2>3, <3>4, <3>5 DEF TypeOK, WorkerTypeOK
    <3>7. WorkerShape'
      BY <2>0, <2>3, <3>1, <3>2, BusyShape
    <3> QED
      BY <1>6, <3>6, <3>7, FrameType DEF CheckData, TypeOK
  <2> QED
    BY <1>6, <2>1, <2>2, <2>3 DEF CheckData
<1>7. CASE MarkBroken(w)
  <2>1. wdata' \in [Workers -> Content]
    BY <1>7 DEF MarkBroken, TypeOK, WorkerTypeOK
  <2>2. RowTypeOK'
    BY <1>7 DEF MarkBroken, TypeOK, RowTypeOK, CheckpointState
  <2>3. WorkerTypeOK' /\ WorkerShape' /\ work_queue' \in [Nodes -> [Files -> Nat]]
    BY <1>7, <2>1, DropType, RequeueType, DropShape
    DEF MarkBroken, Requeue, TypeOK
  <2> QED
    BY <1>7, <2>2, <2>3, FrameType DEF MarkBroken, TypeOK
<1>8. CASE BackupBegin(w)
  <2> DEFINE f == wkey[w]
  <2>0. wpc[w] # "idle" /\ f \in Files
    BY <1>8 DEF BackupBegin, WorkerShape
  <2>1. CASE /\ IF backup_dict[f] # 0
                THEN UNCHANGED <<backup_dict, alloc>>
                ELSE /\ alloc' = [alloc EXCEPT ![f] = @ + 1]
                     /\ backup_dict' = [backup_dict EXCEPT ![f] = alloc[f] + 1]
             /\ backup' = [backup EXCEPT ![f] = Torn]
             /\ wraddr' = [wraddr EXCEPT ![w] = backup_dict'[f]]
             /\ wdata' = [wdata EXCEPT ![w] = Source(w)]
             /\ WorkerGoes(w, "rdma")
             /\ UNCHANGED <<work_queue, wkey, wsnap, waddr, faults>>
    <3>1. backup_dict' \in [Files -> Nat] /\ alloc' \in [Files -> Nat]
      <4>1. backup_dict \in [Files -> Nat] /\ alloc \in [Files -> Nat]
        BY DEF TypeOK, MemTypeOK
      <4> QED
        BY <2>0, <2>1, <4>1
    <3>2. backup' \in [Files -> Content]
      BY <2>0, <2>1, TransferType DEF TypeOK, MemTypeOK
    <3>3. MemTypeOK'
      BY <1>8, <3>1, <3>2 DEF BackupBegin, TypeOK, MemTypeOK
    <3>4. wdata' \in [Workers -> Content]
      BY <2>0, <2>1, TransferType DEF TypeOK, WorkerTypeOK
    <3>5. wraddr' \in [Workers -> Nat]
      BY <2>0, <2>1, <3>1 DEF TypeOK, WorkerTypeOK
    <3>6. wpc' \in [Workers -> WorkerPCs]
      BY <2>1 DEF TypeOK, WorkerTypeOK, WorkerGoes, WorkerPCs
    <3>7. WorkerTypeOK'
      BY <2>1, <3>4, <3>5, <3>6 DEF TypeOK, WorkerTypeOK
    <3>8. WorkerShape'
      BY <2>0, <2>1, BusyShape
    <3> QED
      BY <1>8, <2>1, <3>3, <3>7, <3>8, FrameType DEF BackupBegin, TypeOK
  <2>2. CASE Requeue(w) /\ UNCHANGED <<backup_dict, backup, alloc, wdata>>
    <3>1. wdata' \in [Workers -> Content] /\ UNCHANGED memVars
      BY <1>8, <2>2 DEF BackupBegin, TypeOK, WorkerTypeOK, memVars
    <3> QED
      BY <1>8, <2>2, <3>1, RequeueType, DropShape, FrameType
      DEF BackupBegin, TypeOK, Requeue
  <2>3. CASE GetsStuck(w) /\ UNCHANGED <<backup_dict, backup, alloc>>
    <3>1. UNCHANGED memVars
      BY <1>8, <2>3 DEF BackupBegin, memVars
    <3>2. UNCHANGED work_queue
      BY <2>3 DEF GetsStuck
    <3> QED
      BY <1>8, <2>0, <2>3, <3>1, <3>2, StuckType, FrameType DEF BackupBegin, TypeOK
  <2> QED
    BY <1>8, <2>1, <2>2, <2>3 DEF BackupBegin, Peer
<1>9. CASE RdmaWrite(w)
  <2>0. wpc[w] # "idle" /\ wkey[w] \in Files
    BY <1>9 DEF RdmaWrite, WorkerShape
  <2>7. CASE GetsStuck(w) /\ UNCHANGED backup
    <3>1. UNCHANGED memVars
      BY <1>9, <2>7 DEF RdmaWrite, memVars
    <3>2. UNCHANGED work_queue
      BY <2>7 DEF GetsStuck
    <3> QED
      BY <1>9, <2>0, <2>7, <3>1, <3>2, StuckType, FrameType DEF RdmaWrite, TypeOK
  <2> SUFFICES ASSUME ~(GetsStuck(w) /\ UNCHANGED backup)
               PROVE  /\ WorkerShape' /\ RowTypeOK' /\ MemTypeOK' /\ WorkerTypeOK'
                      /\ work_queue' \in [Nodes -> [Files -> Nat]]
                      /\ disk' \in [Files -> Content]
    BY <2>7
  <2>1. PICK c \in Content : /\ wdata' = Spoiled(w, c)
                             /\ backup' = IF backup_dict[wkey[w]] = wraddr[w]
                                          THEN [backup EXCEPT ![wkey[w]] = c]
                                          ELSE backup
    BY <1>9, <2>0, TransferType DEF RdmaWrite
  <2>2. wdata' \in [Workers -> Content]
    BY <2>0, <2>1, TransferType
  <2>3. backup' \in [Files -> Content]
    BY <2>1 DEF TypeOK, MemTypeOK
  <2>4. MemTypeOK'
    BY <1>9, <2>3 DEF RdmaWrite, TypeOK, MemTypeOK
  <2>5. CASE /\ AddRateLimited(NextNode(NodeOf[w]), wkey[w])
             /\ WorkerGoes(w, "update_state")
             /\ UNCHANGED <<wkey, wsnap, waddr, wraddr, faults>>
    <3>1. WorkerTypeOK'
      BY <2>2, <2>5 DEF TypeOK, WorkerTypeOK, WorkerGoes, WorkerPCs
    <3>2. WorkerShape'
      BY <2>0, <2>5, BusyShape
    <3>3. work_queue' \in [Nodes -> [Files -> Nat]]
      BY <1>0, <2>5, AddType
    <3> QED
      BY <1>9, <2>4, <3>1, <3>2, <3>3, FrameType DEF RdmaWrite, TypeOK
  <2>6. CASE Requeue(w)
    BY <1>9, <2>2, <2>4, <2>6, RequeueType, DropShape, FrameType
    DEF RdmaWrite, TypeOK, Requeue
  <2> QED
    BY <1>9, <2>5, <2>6 DEF RdmaWrite, Peer
<1>10. CASE PersistOpen(w)
  <2>0. wpc[w] # "idle"
    BY <1>10 DEF PersistOpen
  <2>1. CASE /\ disk' = [disk EXCEPT ![wkey[w]] = Torn]
             /\ wdata' = [wdata EXCEPT ![w] = Source(w)]
             /\ WorkerGoes(w, "fwrite")
             /\ UNCHANGED <<work_queue, wkey, wsnap, waddr, wraddr, faults>>
    <3>1. disk' \in [Files -> Content]
      BY <2>0, <2>1, TransferType DEF TypeOK
    <3>2. wdata' \in [Workers -> Content]
      BY <2>0, <2>1, TransferType DEF TypeOK, WorkerTypeOK
    <3>3. WorkerTypeOK'
      BY <2>1, <3>2 DEF TypeOK, WorkerTypeOK, WorkerGoes, WorkerPCs
    <3>4. WorkerShape'
      BY <2>0, <2>1, BusyShape
    <3> QED
      BY <1>10, <2>1, <3>1, <3>3, <3>4, FrameType DEF PersistOpen, TypeOK
  <2>2. CASE PersistFails(w) /\ UNCHANGED <<disk, wdata>>
    <3>1. wdata' \in [Workers -> Content]
      BY <2>2 DEF TypeOK, WorkerTypeOK
    <3>2. WorkerTypeOK' /\ WorkerShape' /\ work_queue' \in [Nodes -> [Files -> Nat]]
      BY <2>2, <3>1, DropType, RequeueType, DropShape
      DEF PersistFails, Requeue, TypeOK
    <3> QED
      BY <1>10, <2>2, <3>2, FrameType DEF PersistOpen, TypeOK
  <2> QED
    BY <1>10, <2>1, <2>2 DEF PersistOpen
<1>11. CASE PersistWrite(w)
  <2>0. wpc[w] # "idle"
    BY <1>11 DEF PersistWrite
  <2>1. wdata' \in [Workers -> Content]
    BY <1>11, <2>0, TransferType DEF PersistWrite
  <2>2. CASE /\ \E c \in {Delivered(w), Torn} : disk' = [disk EXCEPT ![wkey[w]] = c]
             /\ WorkerGoes(w, "update_state")
             /\ UNCHANGED <<work_queue, wkey, wsnap, waddr, wraddr, faults>>
    <3>1. disk' \in [Files -> Content]
      BY <2>0, <2>2, TransferType, ZenonT(60) DEF TypeOK
    <3>2. WorkerTypeOK'
      BY <2>1, <2>2 DEF TypeOK, WorkerTypeOK, WorkerGoes, WorkerPCs
    <3>3. WorkerShape'
      BY <2>0, <2>2, BusyShape
    <3> QED
      BY <1>11, <2>2, <3>1, <3>2, <3>3, FrameType DEF PersistWrite, TypeOK
  <2>3. CASE PersistFails(w) /\ UNCHANGED disk
    <3>1. WorkerTypeOK' /\ WorkerShape' /\ work_queue' \in [Nodes -> [Files -> Nat]]
      BY <2>1, <2>3, DropType, RequeueType, DropShape
      DEF PersistFails, Requeue, TypeOK
    <3> QED
      BY <1>11, <2>3, <3>1, FrameType DEF PersistWrite, TypeOK
  <2> QED
    BY <1>11, <2>2, <2>3 DEF PersistWrite
<1>12. CASE UpdateState(w)
  <2>1. wdata' \in [Workers -> Content]
    BY <1>12 DEF UpdateState, TypeOK, WorkerTypeOK
  <2>2. Promoted(wsnap[w]) \in CheckpointState
    BY DEF Promoted, CheckpointState
  <2>3. RowTypeOK'
    BY <1>12, <2>2 DEF UpdateState, TypeOK, RowTypeOK
  <2>4. WorkerTypeOK' /\ WorkerShape' /\ work_queue' \in [Nodes -> [Files -> Nat]]
    BY <1>12, <2>1, RequeueType, DropShape DEF UpdateState, Requeue, TypeOK
  <2> QED
    BY <1>12, <2>3, <2>4, FrameType DEF UpdateState, TypeOK
<1>13. CASE NotifyNext(w)
  <2>0. wpc[w] # "idle" /\ wsnap[w] = "OBSOLESCENT"
        /\ wdata' \in [Workers -> Content]
    BY <1>13 DEF NotifyNext, WorkerShape, TypeOK, WorkerTypeOK
  <2>1. CASE /\ AddRateLimited(NextNode(NodeOf[w]), wkey[w])
             /\ WorkerGoes(w, "delete")
             /\ UNCHANGED <<wkey, wsnap, waddr, wraddr, faults>>
    <3>1. WorkerTypeOK'
      BY <1>13, <2>1, WorkerGoesType DEF NotifyNext, WorkerPCs
    <3>2. WorkerShape'
      BY <2>0, <2>1, BusyShape
    <3>3. work_queue' \in [Nodes -> [Files -> Nat]]
      BY <1>0, <2>1, AddType
    <3> QED
      BY <1>13, <3>1, <3>2, <3>3, FrameType DEF NotifyNext, TypeOK
  <2>2. CASE Requeue(w)
    BY <1>13, <2>0, <2>2, RequeueType, DropShape, FrameType
    DEF NotifyNext, TypeOK, Requeue
  <2> QED
    BY <1>13, <2>1, <2>2 DEF NotifyNext, Peer
<1>14. CASE DeleteEntry(w)
  <2>1. wdata' \in [Workers -> Content]
    BY <1>14 DEF DeleteEntry, TypeOK, WorkerTypeOK
  <2>2. dict' \in [Files -> Nat] /\ backup_dict' \in [Files -> Nat]
    BY <1>14 DEF DeleteEntry, TypeOK, MemTypeOK
  <2>3. cache' \in [Files -> Content] /\ backup' \in [Files -> Content]
    BY <1>14 DEF DeleteEntry, TypeOK, MemTypeOK, Content, Blank
  <2>4. MemTypeOK'
    BY <1>14, <2>2, <2>3 DEF DeleteEntry, TypeOK, MemTypeOK
  <2>5. WorkerTypeOK' /\ WorkerShape'
    BY <1>14, <2>1, DropType, DropShape DEF DeleteEntry
  <2> QED
    BY <1>14, <2>4, <2>5, FrameType DEF DeleteEntry, TypeOK
<1>16. CASE ConnectionReset(w)
  <2>1. wdata' \in [Workers -> Content]
    BY <1>16 DEF ConnectionReset, TypeOK, WorkerTypeOK
  <2> QED
    BY <1>16, <2>1, RequeueType, DropShape, FrameType
    DEF ConnectionReset, Requeue, TypeOK
<1> QED
  BY <1>4, <1>5, <1>6, <1>7, <1>8, <1>9, <1>10, <1>11, <1>12, <1>13, <1>14,
     <1>16
  DEF WorkerMove, WorkerStep

(* A step that changes at most exited preserves the type invariant.        *)
LEMMA TypeStutter ==
  ASSUME TypeInv, UNCHANGED nodeVars, exited' \in SUBSET Nodes
  PROVE  TypeInv'
<1>1. UNCHANGED <<rowVars, memVars, clientVars, evictVars, workerVars>>
  BY DEF nodeVars, rowVars, memVars, clientVars, evictVars, workerVars
<1>2. UNCHANGED <<disk, work_queue, faults>>
  BY DEF nodeVars
<1>3. HandlerShape' /\ WorkerShape'
  BY <1>1 DEF TypeInv, HandlerShape, WorkerShape, clientVars, evictVars, workerVars
<1> QED
  BY <1>1, <1>2, <1>3, FrameType DEF TypeInv, TypeOK

LEMMA TypeStep == TypeInv /\ [Next]_vars => TypeInv'
<1> SUFFICES ASSUME TypeInv, [Next]_vars PROVE TypeInv'
  OBVIOUS
<1>1. exited' \in SUBSET Nodes
  BY ExitedType DEF TypeInv
<1> QED
  BY <1>1, ClientTypeStep, WorkerTypeStep, TypeStutter, Steps

(* The variables of handlers, workers, Storage and the table keep their    *)
(* shape: a busy worker has a key, only the holder of rw_mutex_ evicts.    *)
THEOREM TypeInvariance == Spec => []TypeInv
  BY TypeStep, TypeInit, PTL DEF Spec

(* Every variable keeps its type, whatever interleaving of handlers and    *)
(* workers runs and whatever operation fails.                              *)
THEOREM TypeCorrect == Spec => []TypeOK
<1>1. TypeInv => TypeOK
  BY DEF TypeInv
<1> QED
  BY <1>1, TypeInvariance, PTL

-----------------------------------------------------------------------------
(* The window of iterations.                                               *)

Distinct(s) == \A i, j \in 1 .. Len(s) : s[i] = s[j] => i = j
Absent(x, s) == \A k \in 1 .. Len(s) : s[k] # x

(* The window is bounded and has no duplicates; what an evicting handler   *)
(* is about to record is not in it.                                        *)
WindowInv ==
  /\ \A n \in Nodes : Len(q_[n]) <= MaxIteration /\ Distinct(q_[n])
  /\ \A f \in Files : cpc[f] \in EvictPCs => Absent(citer[f], q_[Owner[f]])

LEMMA AppendDistinct ==
  ASSUME NEW S, NEW s \in Seq(S), NEW x \in S, Distinct(s), Absent(x, s)
  PROVE  Distinct(Append(s, x)) /\ Len(Append(s, x)) = Len(s) + 1
  BY DEF Distinct, Absent

LEMMA TailDistinct ==
  ASSUME NEW S, NEW s \in Seq(S), s # <<>>, NEW x, Distinct(s), Absent(x, s)
  PROVE  /\ Tail(s) \in Seq(S) /\ Len(Tail(s)) = Len(s) - 1
         /\ Distinct(Tail(s)) /\ Absent(x, Tail(s))
<1>1. Tail(s) \in Seq(S) /\ Len(Tail(s)) = Len(s) - 1
      /\ \A k \in 1 .. Len(s) - 1 : Tail(s)[k] = s[k + 1]
  OBVIOUS
<1>2. Len(s) \in Nat
  OBVIOUS
<1>3. Distinct(Tail(s))
  <2> SUFFICES ASSUME NEW i \in 1 .. Len(s) - 1, NEW j \in 1 .. Len(s) - 1,
                      Tail(s)[i] = Tail(s)[j]
               PROVE  i = j
    BY <1>1 DEF Distinct
  <2>1. s[i + 1] = s[j + 1] /\ i + 1 \in 1 .. Len(s) /\ j + 1 \in 1 .. Len(s)
    BY <1>1, <1>2
  <2>2. i + 1 = j + 1
    BY <2>1 DEF Distinct
  <2> QED
    BY <2>2
<1>4. Absent(x, Tail(s))
  BY <1>1, <1>2 DEF Absent
<1> QED
  BY <1>1, <1>3, <1>4

(* A step that leaves iterations alone and starts no eviction.             *)
LEMMA WindowFrame ==
  ASSUME WindowInv, UNCHANGED <<q_, citer>>,
         \A f \in Files : cpc'[f] \in EvictPCs => cpc[f] \in EvictPCs
  PROVE  WindowInv'
  BY DEF WindowInv

(* The node of f records the iteration of f behind those of s.             *)
LEMMA WindowAppend ==
  ASSUME TypeInv, WindowInv, NEW f \in Files, ClientGoes(f, "alloc"),
         UNCHANGED citer,
         cpc[f] \in EvictPCs \/ rw_mutex[Owner[f]] = NoFile,
         NEW s \in Seq(Nat \cup {Unknown}), Distinct(s), Absent(citer[f], s),
         Len(s) < MaxIteration,
         q_' = [q_ EXCEPT ![Owner[f]] = Append(s, citer[f])]
  PROVE  WindowInv'
<1>1. Owner[f] \in Nodes /\ NoFile \notin Files
  BY NodeFacts, ConstantsAssumption
<1>2. citer[f] \in Nat \cup {Unknown}
  BY DEF TypeInv, TypeOK, ClientTypeOK
<1> DEFINE t == Append(s, citer[f])
<1>3. Distinct(t) /\ Len(t) = Len(s) + 1
  BY <1>2, AppendDistinct
<1>4. Len(t) <= MaxIteration
  BY <1>3, ConstantsAssumption
<1> HIDE DEF t
<1>5. /\ q_'[Owner[f]] = t
      /\ \A m \in Nodes \ {Owner[f]} : q_'[m] = q_[m]
  BY <1>1 DEF TypeInv, TypeOK, EvictTypeOK, t
<1>6. \A n \in Nodes : Len(q_'[n]) <= MaxIteration /\ Distinct(q_'[n])
  BY <1>3, <1>4, <1>5 DEF WindowInv
<1>7. \A g \in Files : cpc'[g] = IF g = f THEN "alloc" ELSE cpc[g]
  BY DEF TypeInv, TypeOK, ClientTypeOK, ClientGoes
<1>8. ASSUME NEW g \in Files, cpc'[g] \in EvictPCs
      PROVE  Absent(citer'[g], q_'[Owner[g]])
  <2>1. g # f /\ cpc[g] \in EvictPCs
    BY <1>7, <1>8 DEF EvictPCs
  <2>2. rw_mutex[Owner[g]] = g
    BY <2>1 DEF TypeInv, HandlerShape
  <2>3. Owner[g] # Owner[f]
    BY <1>1, <2>1, <2>2 DEF TypeInv, HandlerShape
  <2>4. q_'[Owner[g]] = q_[Owner[g]]
    BY <1>5, <2>3, NodeFacts
  <2> QED
    BY <2>1, <2>4 DEF WindowInv
<1> QED
  BY <1>6, <1>8 DEF WindowInv

LEMMA WindowStep ==
  ASSUME TypeInv, WindowInv, [Next]_vars
  PROVE  WindowInv'
<1>1. ASSUME NEW f \in Files, SaveBegin(f)
      PROVE  WindowInv'
  <2>1. \A g \in Files : cpc'[g] \in EvictPCs => g # f /\ cpc[g] \in EvictPCs
    BY <1>1 DEF SaveBegin, ClientGoes, TypeInv, TypeOK, ClientTypeOK, EvictPCs
  <2>2. \A g \in Files \ {f} : citer'[g] = citer[g]
    BY <1>1 DEF SaveBegin, TypeInv, TypeOK, ClientTypeOK
  <2> QED
    BY <1>1, <2>1, <2>2 DEF SaveBegin, evictVars, WindowInv
<1>2. ASSUME NEW f \in Files, AdmitIteration(f)
      PROVE  WindowInv'
  <2>0. UNCHANGED citer /\ rw_mutex[Owner[f]] = NoFile
    BY <1>2 DEF AdmitIteration
  <2>1. q_[Owner[f]] \in Seq(Nat \cup {Unknown}) /\ Distinct(q_[Owner[f]])
    BY NodeFacts DEF TypeInv, TypeOK, EvictTypeOK, WindowInv
  <2>2. ~IsExist(Owner[f], citer[f]) => Absent(citer[f], q_[Owner[f]])
    BY DEF IsExist, Absent
  <2>3. CASE ClientGoes(f, "alloc") /\ UNCHANGED q_
    <3>1. \A g \in Files : cpc'[g] \in EvictPCs => cpc[g] \in EvictPCs
      BY <2>3 DEF ClientGoes, TypeInv, TypeOK, ClientTypeOK, EvictPCs
    <3> QED
      BY <2>0, <2>3, <3>1, WindowFrame
  <2>4. CASE /\ ~IsExist(Owner[f], citer[f])
             /\ Len(q_[Owner[f]]) < MaxIteration
             /\ q_' = [q_ EXCEPT ![Owner[f]] = Append(@, citer[f])]
             /\ ClientGoes(f, "alloc")
    BY <2>0, <2>1, <2>2, <2>4, WindowAppend
  <2>5. CASE /\ ~IsExist(Owner[f], citer[f])
             /\ ClientGoes(f, "batch")
             /\ UNCHANGED q_
    <3>1. \A g \in Files : cpc'[g] = IF g = f THEN "batch" ELSE cpc[g]
      BY <2>5 DEF ClientGoes, TypeInv, TypeOK, ClientTypeOK
    <3> QED
      BY <2>0, <2>2, <2>5, <3>1 DEF WindowInv
  <2> QED
    BY <1>2, <2>3, <2>4, <2>5 DEF AdmitIteration
<1>3. ASSUME NEW f \in Files, EvictDone(f)
      PROVE  WindowInv'
  <2>1. cpc[f] \in EvictPCs \ {"batch"}
    BY <1>3 DEF EvictDone, EvictPCs
  <2>2. q_[Owner[f]] \in Seq(Nat \cup {Unknown}) /\ q_[Owner[f]] # <<>>
    BY <2>1, NodeFacts DEF TypeInv, TypeOK, EvictTypeOK, HandlerShape
  <2>3. /\ Distinct(q_[Owner[f]]) /\ Absent(citer[f], q_[Owner[f]])
        /\ Len(q_[Owner[f]]) <= MaxIteration
    BY <2>1, NodeFacts DEF WindowInv
  <2> DEFINE s == Tail(q_[Owner[f]])
  <2>4. /\ s \in Seq(Nat \cup {Unknown}) /\ Len(s) = Len(q_[Owner[f]]) - 1
        /\ Distinct(s) /\ Absent(citer[f], s)
    BY <2>2, <2>3, TailDistinct
  <2>5. Len(s) < MaxIteration
    BY <2>2, <2>3, <2>4, ConstantsAssumption
  <2>6. q_' = [q_ EXCEPT ![Owner[f]] = Append(s, citer[f])]
    BY <1>3 DEF EvictDone
  <2> HIDE DEF s
  <2> QED
    BY <1>3, <2>1, <2>4, <2>5, <2>6, WindowAppend DEF EvictDone
<1>4. ASSUME NEW f \in Files, HandlerStep(f) \/ ClientStep(f),
             ~SaveBegin(f), ~AdmitIteration(f), ~EvictDone(f)
      PROVE  WindowInv'
  <2>1. UNCHANGED <<q_, citer>>
    BY <1>4 DEF HandlerStep, ClientStep, EvictBatchLoad, EvictNext, EvictReload,
       EvictMark, EvictAdd, EvictDeleted, Alloc, SaveMeta, UpdateAdd, WriteBegin,
       WriteEnd, ClientAbort, UpdateMetadata, EvictionFails, evictVars
  <2>2. \/ UNCHANGED cpc
        \/ \E pc \in {"idle", "save_meta", "open", "write", "update", "add"} :
             ClientGoes(f, pc)
        \/ cpc[f] \in EvictPCs /\ \E pc \in EvictPCs : ClientGoes(f, pc)
    BY <1>4 DEF HandlerStep, ClientStep, EvictBatchLoad, EvictNext, EvictReload,
       EvictMark, EvictAdd, EvictDeleted, Alloc, SaveMeta, UpdateAdd, WriteBegin,
       WriteEnd, ClientAbort, UpdateMetadata, EvictionFails, EvictPCs
  <2>3. \A g \in Files : cpc'[g] \in EvictPCs => cpc[g] \in EvictPCs
    BY <2>2 DEF ClientGoes, TypeInv, TypeOK, ClientTypeOK, EvictPCs
  <2> QED
    BY <2>1, <2>3, WindowFrame
<1>5. ASSUME NEW w \in Workers, WorkerMove(w)
      PROVE  WindowInv'
  <2>1. UNCHANGED <<q_, citer, cpc>>
    BY <1>5 DEF WorkerMove, WorkerStep, ConnectionReset, Fetch, LoadMetadata, CheckData, MarkBroken,
       BackupBegin, RdmaWrite, PersistOpen, PersistWrite, UpdateState, NotifyNext,
       DeleteEntry, clientVars, evictVars
  <2> QED
    BY <2>1, WindowFrame
<1>6. ASSUME UNCHANGED nodeVars
      PROVE  WindowInv'
  BY <1>6, WindowFrame DEF nodeVars
<1> QED
  BY <1>1, <1>2, <1>3, <1>4, <1>5, <1>6, Steps

LEMMA WindowInvariance == Spec => []WindowInv
<1>1. Init => WindowInv
  <2> SUFFICES ASSUME Init PROVE WindowInv
    OBVIOUS
  <2>1. \A n \in Nodes : q_[n] = <<>>
    BY DEF Init
  <2>2. \A f \in Files : cpc[f] \notin EvictPCs
    BY DEF Init, EvictPCs
  <2> QED
    BY <2>1, <2>2, ConstantsAssumption DEF WindowInv, Distinct
<1>2. TypeInv /\ WindowInv /\ [Next]_vars => WindowInv'
  BY WindowStep
<1> QED
  BY <1>1, <1>2, TypeInvariance, PTL DEF Spec

(* The window of every node stays within MaxIteration, holds no iteration  *)
(* twice, and only the holder of rw_mutex_ evicts: check, eviction and     *)
(* push of createMetadata are atomic with respect to other saves.          *)
THEOREM WindowCorrect == Spec => []IterationWindow
<1>1. TypeInv /\ WindowInv => IterationWindow
  BY DEF TypeInv, HandlerShape, WindowInv, Distinct, IterationWindow
<1> QED
  BY <1>1, TypeInvariance, WindowInvariance, PTL
-----------------------------------------------------------------------------
(* The work queue.                                                         *)

(* The key of f is certainly still to be looked at when it is queued once  *)
(* more on its node.                                                       *)
LEMMA QueuedInHand ==
  ASSUME TypeInv, NEW f \in Files, AddRateLimited(Owner[f], f)
  PROVE  InHand(f, "CACHED")'
<1>1. work_queue'[Owner[f]][f] = work_queue[Owner[f]][f] + 1
  BY NodeFacts DEF AddRateLimited, TypeInv, TypeOK
<1>2. work_queue[Owner[f]][f] \in Nat
  BY NodeFacts DEF TypeInv, TypeOK
<1> QED
  BY <1>1, <1>2 DEF InHand

(* Adding keys takes none away.                                            *)
LEMMA QueueGrows ==
  ASSUME TypeInv, NEW n \in Nodes, NEW k, AddRateLimited(n, k)
  PROVE  \A m \in Nodes, f \in Files : work_queue'[m][f] >= work_queue[m][f]
<1> SUFFICES ASSUME NEW m \in Nodes, NEW f \in Files
             PROVE  work_queue'[m][f] >= work_queue[m][f]
  OBVIOUS
<1>1. work_queue[m][f] \in Nat
  BY DEF TypeInv, TypeOK
<1>2. CASE m = n /\ f = k
  BY <1>1, <1>2 DEF AddRateLimited, TypeInv, TypeOK
<1>3. CASE m # n \/ f # k
  BY <1>1, <1>3 DEF AddRateLimited, TypeInv, TypeOK
<1> QED
  BY <1>2, <1>3

(* Handlers take no key away from queues and workers.                      *)
LEMMA ClientKeepsWork ==
  ASSUME TypeInv, NoLostWork, NEW f \in Files, HandlerStep(f) \/ ClientStep(f)
  PROVE  NoLostWork'
<1>1. UNCHANGED <<wpc, wkey, wsnap>>
  BY DEF HandlerStep, ClientStep, AdmitIteration, EvictBatchLoad, EvictNext,
         EvictReload, EvictMark, EvictAdd, EvictDeleted, EvictDone, Alloc,
         SaveMeta, UpdateAdd, SaveBegin, WriteBegin, WriteEnd, ClientAbort,
         UpdateMetadata, workerVars
<1>2. \/ UNCHANGED work_queue
      \/ \E k : AddRateLimited(Owner[f], k)
  BY DEF HandlerStep, ClientStep, AdmitIteration, EvictBatchLoad, EvictNext,
         EvictReload, EvictMark, EvictAdd, EvictDeleted, EvictDone, Alloc,
         SaveMeta, UpdateAdd, SaveBegin, WriteBegin, WriteEnd, ClientAbort,
         UpdateMetadata
<1>3. \A g \in Files : work_queue'[Owner[g]][g] >= work_queue[Owner[g]][g]
  <2>1. \A g \in Files : work_queue[Owner[g]][g] \in Nat
    BY NodeFacts DEF TypeInv, TypeOK
  <2> QED
    BY <1>2, <2>1, QueueGrows, NodeFacts
<1>4. ASSUME NEW g \in Files, InHand(g, "CACHED")
      PROVE  InHand(g, "CACHED")'
  <2>1. work_queue[Owner[g]][g] \in Nat /\ work_queue'[Owner[g]][g] \in Nat
    BY NodeFacts, ClientTypeStep DEF TypeInv, TypeOK
  <2> QED
    BY <1>1, <1>3, <1>4, <2>1 DEF InHand
<1>5. ASSUME NEW g \in Files, cpc[g] = "add"
      PROVE  cpc'[g] = "add" \/ InHand(g, "CACHED")'
  <2>1. CASE UpdateAdd(f)
    <3>1. CASE g = f
      BY <2>1, <3>1, QueuedInHand DEF UpdateAdd
    <3>2. CASE g # f
      BY <1>5, <2>1, <3>2 DEF UpdateAdd, ClientGoes, TypeInv, TypeOK, ClientTypeOK
    <3> QED
      BY <3>1, <3>2
  <2>2. CASE ~UpdateAdd(f)
    <3>1. cpc[f] # "add" /\ (UNCHANGED cpc \/ \E pc : ClientGoes(f, pc))
      BY <2>2
      DEF HandlerStep, ClientStep, AdmitIteration, EvictBatchLoad, EvictNext,
          EvictReload, EvictMark, EvictAdd, EvictDeleted, EvictDone, Alloc,
          SaveMeta, SaveBegin, WriteBegin, WriteEnd, ClientAbort, UpdateMetadata,
          EvictionFails
    <3> QED
      BY <1>5, <3>1 DEF ClientGoes, TypeInv, TypeOK, ClientTypeOK
  <2> QED
    BY <2>1, <2>2
<1>6. ASSUME NEW g \in Files, state'[g] = "CACHED"
      PROVE  state[g] = "CACHED" \/ cpc'[g] = "add"
  <2>1. CASE UNCHANGED state
    BY <1>6, <2>1
  <2>2. CASE UpdateMetadata(f) /\ ~UNCHANGED state
    <3>1. state' = [state EXCEPT ![f] = "CACHED"] /\ ClientGoes(f, "add")
      BY <2>2 DEF UpdateMetadata
    <3> QED
      BY <1>6, <3>1
      DEF ClientGoes, TypeInv, TypeOK, ClientTypeOK, RowTypeOK
  <2>3. CASE ~UpdateMetadata(f) /\ ~UNCHANGED state
    <3>1. \E h, s : s # "CACHED" /\ state' = [state EXCEPT ![h] = s]
      <4>1. EvictMark(f) \/ SaveMeta(f)
        BY <2>3
        DEF HandlerStep, ClientStep, AdmitIteration, EvictBatchLoad, EvictNext,
            EvictReload, EvictAdd, EvictDeleted, EvictDone, Alloc, UpdateAdd,
            SaveBegin, WriteBegin, WriteEnd, ClientAbort, rowVars
      <4>2. \/ state' = [state EXCEPT ![evictee[Owner[f]]] = "OBSOLESCENT"]
            \/ state' = [state EXCEPT ![f] = "PENDING"]
        BY <2>3, <4>1 DEF EvictMark, SaveMeta, rowVars
      <4> QED
        BY <4>2
    <3> QED
      BY <1>6, <3>1 DEF TypeInv, TypeOK, RowTypeOK
  <2> QED
    BY <2>1, <2>2, <2>3
<1> QED
  BY <1>4, <1>5, <1>6 DEF NoLostWork

(* The worker that has a CACHED file in hand keeps it there: it requeues   *)
(* the key on every failure, and drops it only after the row has moved on. *)
LEMMA HolderKeepsWork ==
  ASSUME TypeInv, NEW w \in Workers, WorkerMove(w), NEW f \in Files,
         WorldSize > 1 \/ Persist,
         state[f] = "CACHED", state'[f] = "CACHED",
         NodeOf[w] = Owner[f], wkey[w] = f, wpc[w] = "load" \/ wsnap[w] = "CACHED"
  PROVE  InHand(f, "CACHED")'
<1>0. wpc[w] # "idle" /\ IsOwner(w)
  BY DEF TypeInv, WorkerShape, IsOwner
<1>1. Requeue(w) => InHand(f, "CACHED")'
  BY QueuedInHand DEF Requeue
<1>2. wkey'[w] = f /\ wsnap'[w] = "CACHED" => InHand(f, "CACHED")'
  BY DEF InHand
<1>3. CASE LoadMetadata(w)
  <2>1. "CACHED" # NONE
    BY DEF NONE
  <2>2. \/ wsnap' = [wsnap EXCEPT ![w] = state[wkey[w]]] /\ UNCHANGED wkey
        \/ Requeue(w)
    BY <1>0, <1>3, <2>1 DEF LoadMetadata
  <2>3. wsnap' = [wsnap EXCEPT ![w] = state[wkey[w]]] /\ UNCHANGED wkey
        => wkey'[w] = f /\ wsnap'[w] = "CACHED"
    BY DEF TypeInv, TypeOK, WorkerTypeOK
  <2> QED
    BY <1>1, <1>2, <2>2, <2>3
<1>4. CASE wsnap[w] = "CACHED" /\ UNCHANGED <<wkey, wsnap>>
  BY <1>2, <1>4
<1>5. CASE CheckData(w)
  <2>1. wsnap[w] = "CACHED"
    BY <1>5 DEF CheckData
  <2>2. Task(w, "CACHED") # "none"
    <3>1. CASE WorldSize > 1
      BY <3>1 DEF Task
    <3>2. CASE WorldSize = 1 /\ Persist
      BY <3>2 DEF Task
    <3> QED
      BY <3>1, <3>2, ConstantsAssumption
  <2> QED
    BY <1>4, <1>5, <2>1, <2>2 DEF CheckData
<1>6. CASE MarkBroken(w) \/ UpdateState(w)
  <2>1. wpc[w] \in {"break", "update_state"}
    BY <1>6 DEF MarkBroken, UpdateState
  <2>2. Promoted(wsnap[w]) # "CACHED"
    BY DEF Promoted
  <2>3. MarkBroken(w) => Requeue(w)
    BY DEF MarkBroken, TypeInv, TypeOK, RowTypeOK
  <2> QED
    BY <1>1, <1>6, <2>3 DEF UpdateState
<1>7. CASE BackupBegin(w) \/ RdmaWrite(w) \/ PersistOpen(w) \/ PersistWrite(w)
  <2>1. wsnap[w] = "CACHED"
    BY <1>7 DEF BackupBegin, RdmaWrite, PersistOpen, PersistWrite
  <2>2. PersistFails(w) => Requeue(w)
    BY <2>1 DEF PersistFails
  <2> QED
    BY <1>1, <1>4, <1>7, <2>1, <2>2
    DEF BackupBegin, RdmaWrite, PersistOpen, PersistWrite, GetsStuck
<1>9. CASE ConnectionReset(w)
  BY <1>1, <1>9 DEF ConnectionReset
<1>8. ~Fetch(w) /\ ~NotifyNext(w) /\ ~DeleteEntry(w)
  BY <1>0 DEF Fetch, NotifyNext, DeleteEntry, TypeInv, WorkerShape
<1> QED
  BY <1>3, <1>5, <1>6, <1>7, <1>8, <1>9 DEF WorkerMove, WorkerStep

(* A worker changes its own key, step and snapshot only.                   *)
LEMMA WorkerIsolation ==
  ASSUME TypeInv, NEW w \in Workers, WorkerMove(w), NEW u \in Workers \ {w}
  PROVE  wpc'[u] = wpc[u] /\ wkey'[u] = wkey[u] /\ wsnap'[u] = wsnap[u]
<1> USE DEF TypeInv, TypeOK, WorkerTypeOK
<1>1. ASSUME NEW pc, WorkerGoes(w, pc)
      PROVE  wpc'[u] = wpc[u]
  BY <1>1 DEF WorkerGoes
<1>2. ASSUME Drop(w)
      PROVE  wpc'[u] = wpc[u] /\ wkey'[u] = wkey[u] /\ wsnap'[u] = wsnap[u]
  BY <1>2 DEF Drop
<1>3. CASE Fetch(w)
  BY <1>1, <1>3 DEF Fetch
<1>4. CASE LoadMetadata(w)
  BY <1>1, <1>2, <1>4 DEF LoadMetadata, Requeue
<1>5. CASE CheckData(w)
  BY <1>1, <1>2, <1>5 DEF CheckData
<1>6. CASE MarkBroken(w) \/ UpdateState(w) \/ DeleteEntry(w)
  BY <1>2, <1>6 DEF MarkBroken, UpdateState, DeleteEntry, Requeue
<1>7. CASE BackupBegin(w) \/ RdmaWrite(w)
  BY <1>1, <1>2, <1>7 DEF BackupBegin, RdmaWrite, GetsStuck, Requeue
<1>8. CASE PersistOpen(w) \/ PersistWrite(w)
  BY <1>1, <1>2, <1>8 DEF PersistOpen, PersistWrite, PersistFails, Requeue
<1>9. CASE NotifyNext(w)
  BY <1>1, <1>2, <1>9 DEF NotifyNext, Requeue
<1>10. CASE ConnectionReset(w)
  BY <1>2, <1>10 DEF ConnectionReset, Requeue
<1> QED
  BY <1>3, <1>4, <1>5, <1>6, <1>7, <1>8, <1>9, <1>10 DEF WorkerMove, WorkerStep

(* A key leaves a queue only into the hands of the worker that fetched it. *)
LEMMA QueueKeepsWork ==
  ASSUME TypeInv, NEW w \in Workers, WorkerMove(w), NEW f \in Files,
         work_queue[Owner[f]][f] > 0
  PROVE  InHand(f, "CACHED")'
<1>0. work_queue[Owner[f]][f] \in Nat /\ work_queue'[Owner[f]][f] \in Nat
  BY NodeFacts, WorkerTypeStep DEF TypeInv, TypeOK
<1>1. CASE Fetch(w)
  <2>1. PICK g \in Files :
          /\ work_queue' = [work_queue EXCEPT ![NodeOf[w]][g] = @ - 1]
          /\ wkey' = [wkey EXCEPT ![w] = g]
    BY <1>1 DEF Fetch
  <2>2. wkey'[w] = g /\ wpc'[w] = "load"
    BY <1>1, <2>1 DEF Fetch, WorkerGoes, TypeInv, TypeOK, WorkerTypeOK
  <2>3. CASE g = f /\ NodeOf[w] = Owner[f]
    BY <2>2, <2>3 DEF InHand
  <2>4. CASE g # f \/ NodeOf[w] # Owner[f]
    <3>1. work_queue'[Owner[f]][f] = work_queue[Owner[f]][f]
      BY <2>1, <2>4, NodeFacts DEF TypeInv, TypeOK
    <3> QED
      BY <1>0, <3>1 DEF InHand
  <2> QED
    BY <2>3, <2>4
<1>2. CASE ~Fetch(w)
  <2>1. UNCHANGED work_queue \/ \E n \in Nodes : \E k : AddRateLimited(n, k)
    BY <1>2, NodeFacts
    DEF WorkerMove, WorkerStep, ConnectionReset,
        LoadMetadata, CheckData, MarkBroken, BackupBegin, RdmaWrite,
        PersistOpen, PersistWrite, PersistFails, UpdateState, NotifyNext,
        DeleteEntry, Requeue, Peer, GetsStuck
  <2>2. work_queue'[Owner[f]][f] >= work_queue[Owner[f]][f]
    BY <1>0, <2>1, QueueGrows, NodeFacts
  <2> QED
    BY <1>0, <2>2 DEF InHand
<1> QED
  BY <1>1, <1>2

LEMMA WorkerKeepsWork ==
  ASSUME TypeInv, NoLostWork, NEW w \in Workers, WorkerMove(w)
  PROVE  NoLostWork'
<1>1. UNCHANGED cpc
  BY DEF WorkerMove, WorkerStep, ConnectionReset,
         Fetch, LoadMetadata, CheckData, MarkBroken, BackupBegin,
         RdmaWrite, PersistOpen, PersistWrite, UpdateState, NotifyNext,
         DeleteEntry, clientVars
<1>2. \A f \in Files : state'[f] = "CACHED" => state[f] = "CACHED"
  <2>1. \/ UNCHANGED state
        \/ \E f, s : s # "CACHED" /\ state' = [state EXCEPT ![f] = s]
    <3>1. Promoted(wsnap[w]) # "CACHED"
      BY DEF Promoted
    <3> QED
      BY <3>1
      DEF WorkerMove, WorkerStep, ConnectionReset,
          Fetch, LoadMetadata, CheckData, MarkBroken, BackupBegin,
          RdmaWrite, PersistOpen, PersistWrite, UpdateState, NotifyNext,
          DeleteEntry, rowVars
  <2> QED
    BY <2>1 DEF TypeInv, TypeOK, RowTypeOK
<1> SUFFICES ASSUME NEW f \in Files, state'[f] = "CACHED",
                    WorldSize > 1 \/ Persist, InHand(f, "CACHED")
             PROVE  InHand(f, "CACHED")'
  BY <1>1, <1>2 DEF NoLostWork
<1>3. CASE work_queue[Owner[f]][f] > 0
  BY <1>3, QueueKeepsWork
<1>4. CASE \E u \in Workers : /\ NodeOf[u] = Owner[f] /\ wkey[u] = f
                              /\ wpc[u] = "load" \/ wsnap[u] = "CACHED"
  <2>1. PICK u \in Workers : /\ NodeOf[u] = Owner[f] /\ wkey[u] = f
                             /\ wpc[u] = "load" \/ wsnap[u] = "CACHED"
    BY <1>4
  <2>2. CASE u = w
    BY <1>2, <2>1, <2>2, HolderKeepsWork
  <2>3. CASE u # w
    BY <2>1, <2>3, WorkerIsolation DEF InHand
  <2> QED
    BY <2>2, <2>3
<1> QED
  BY <1>3, <1>4 DEF InHand

(* No failure and no interleaving makes Reconcile lose a checkpoint that   *)
(* still waits for its first copy: its key is queued, or in the hands of a *)
(* worker that will requeue it, or about to be queued by updateMetadata.   *)
THEOREM NoLostWorkCorrect == Spec => []NoLostWork
<1>1. Init => NoLostWork
  BY DEF Init, NoLostWork, NONE
<1>2. TypeInv /\ NoLostWork /\ [Next]_vars => NoLostWork'
  <2>1. TypeInv /\ NoLostWork /\ UNCHANGED nodeVars => NoLostWork'
    BY DEF nodeVars, NoLostWork, InHand
  <2> QED
    BY <2>1, ClientKeepsWork, WorkerKeepsWork, Steps
<1> QED
  BY <1>1, <1>2, TypeInvariance, PTL DEF Spec
-----------------------------------------------------------------------------
(***************************************************************************)
(* The life of a file that is saved once: its row tells the truth until it *)
(* is evicted, copies read live memory, the row only moves forward, and    *)
(* what was acknowledged stays recoverable.                                *)
(***************************************************************************)
Fresh(f) == saves[f] <= 1 /\ f \notin evicted
SavedStates == {"CACHED", "BACKED_UP", "PERSISTENT"}

(* A worker of the owner has the key of f.                                 *)
Holds(w, f) == NodeOf[w] = Owner[f] /\ wkey[w] = f
NoToken(f) ==
  work_queue[Owner[f]][f] = 0 /\ \A w \in Workers : ~Holds(w, f)

(* At the owner the key exists once: queued, or in one worker's hands.     *)
OneToken(f) ==
  /\ work_queue[Owner[f]][f] \in {0, 1}
  /\ \A w \in Workers : Holds(w, f) =>
       /\ work_queue[Owner[f]][f] = 0
       /\ \A u \in Workers : Holds(u, f) => u = w

(* How far the one save has come.                                          *)
ClientKnows(f) ==
  /\ cpc[f] # "idle" => saves[f] = 1
  /\ state[f] # NONE => saves[f] = 1
  /\ cpc[f] \in {"lock", "alloc", "save_meta"} \cup EvictPCs => state[f] = NONE
  /\ cpc[f] \in {"open", "write", "update"} => state[f] = "PENDING"
  /\ cpc[f] \in {"save_meta", "open", "write", "update", "add"} => dict[f] # 0
  /\ cpc[f] = "write" => caddr[f] = dict[f]
  /\ cpc[f] = "update" => cache[f] = 1
  /\ cpc[f] = "add" => state[f] = "CACHED"
  /\ state[f] \notin SavedStates \/ cpc[f] = "add" => NoToken(f)
  /\ acked[f] => state[f] \in SavedStates

(* What the row says is true.                                              *)
RowTrue(f) ==
  /\ state[f] \in {NONE, "PENDING"} \cup SavedStates
  /\ state[f] \in SavedStates => dict[f] # 0 /\ cache[f] = 1
  /\ state[f] = "BACKED_UP" => WorldSize > 1
  /\ state[f] = "BACKED_UP" \/ (state[f] = "PERSISTENT" /\ WorldSize > 1) =>
       backup_dict[f] # 0 /\ backup[f] = 1
  /\ state[f] = "PERSISTENT" => disk[f] = 1

Copying == {"backup", "rdma", "fopen", "fwrite"}

(* A worker of the owner past its load acts on the state the row still has;*)
(* workers of other nodes do nothing before the eviction.                  *)
WorkerTrue(w, f) ==
  /\ NodeOf[w] # Owner[f] => wpc[w] = "load"
  /\ wpc[w] \in {"load", "check", "update_state", "stuck"} \cup Copying
  /\ wpc[w] # "load" => wsnap[w] = state[f]
  /\ wpc[w] \in Copying => waddr[w] = dict[f]
  /\ wpc[w] \in {"backup", "rdma", "stuck"} => state[f] = "CACHED" /\ WorldSize > 1
  /\ wpc[w] \in {"fopen", "fwrite"} =>
       /\ state[f] \in {"CACHED", "BACKED_UP"} /\ Persist
       /\ state[f] = "CACHED" => WorldSize = 1
  /\ wpc[w] = "rdma" => wraddr[w] = backup_dict[f] /\ backup_dict[f] # 0
  /\ wpc[w] \in {"rdma", "fwrite"} => wdata[w] = 1
  /\ wpc[w] = "update_state" =>
       IF state[f] = "CACHED" /\ WorldSize > 1
       THEN backup_dict[f] # 0 /\ backup[f] = 1
       ELSE state[f] \in {"CACHED", "BACKED_UP"} /\ disk[f] = 1 /\ Persist

FreshInv(f) ==
  /\ OneToken(f) /\ ClientKnows(f) /\ RowTrue(f)
  /\ \A w \in Workers : wkey[w] = f => WorkerTrue(w, f)

(* Only what was marked is queued for deletion.                            *)
MarkedFirst ==
  \A g \in Files : cpc[g] \in {"evict_add", "deleting"} => evictee[Owner[g]] \in evicted

OnceInv == MarkedFirst /\ \A f \in Files : Fresh(f) => FreshInv(f)

-----------------------------------------------------------------------------
(* Saves in lock step.                                                     *)

(* Saves under way are of one iteration.                                   *)
OneIteration ==
  \A g, h \in Files : cpc[g] # "idle" /\ cpc[h] # "idle" => citer[g] = citer[h]

(* The rows an eviction has in hand are of another iteration than the one  *)
(* it makes room for; the one it waits for has been loaded.                *)
EvictsOthers ==
  \A g, e \in Files :
    LET n == Owner[g] IN
    /\ cpc[g] \in EvictPCs \ {"batch"} /\ vec[n][e] # NONE =>
         /\ state[e] # NONE
         /\ saves[e] <= 1 => citer[e] # citer[g]
    /\ cpc[g] \in RowPCs => vec[n][evictee[n]] # NONE

RowIteration ==
  \A f \in Files : state[f] # NONE /\ saves[f] <= 1 => iteration[f] = citer[f]

(* What the handler loaded is still so, or has moved towards the disk.     *)
VecTrue ==
  \A g, e \in Files :
    LET s == vec[Owner[g]][e] IN
    cpc[g] \in EvictPCs \ {"batch"} /\ Fresh(e) =>
      /\ s = "PENDING" => state[e] = "PENDING"
      /\ s = "BACKED_UP" => state[e] \in {"BACKED_UP", "PERSISTENT"}
      /\ s = "PERSISTENT" => state[e] = "PERSISTENT"
      /\ s \notin {"OBSOLESCENT", "BROKEN"}

(* A file that was evicted: nobody saves or copies it.                     *)
EvictedInv(f) ==
  /\ cpc[f] = "idle" /\ saves[f] = 1
  /\ state[f] \in {"OBSOLESCENT", "BROKEN"}
  /\ \A w \in Workers : wkey[w] = f =>
       /\ wpc[w] \in {"load", "check", "break", "notify", "delete"}
       /\ wpc[w] = "check" =>
            wsnap[w] # "CACHED" /\ (Persist => wsnap[w] # "BACKED_UP")
  /\ acked[f] /\ Persist => disk[f] = 1

LockStepInv ==
  /\ OneIteration /\ EvictsOthers /\ RowIteration /\ VecTrue
  /\ \A f \in Files : f \in evicted /\ saves[f] <= 1 => EvictedInv(f)

-----------------------------------------------------------------------------
(* What steps leave alone.                                                 *)

(* Nothing of f changes but, perhaps, what workers do with it.             *)
SameFile(f) ==
  /\ state'[f] = state[f] /\ disk'[f] = disk[f]
  /\ dict'[f] = dict[f] /\ cache'[f] = cache[f]
  /\ backup_dict'[f] = backup_dict[f] /\ backup'[f] = backup[f]
  /\ cpc'[f] = cpc[f] /\ caddr'[f] = caddr[f] /\ saves'[f] = saves[f]
  /\ acked'[f] = acked[f]
  /\ work_queue'[Owner[f]][f] = work_queue[Owner[f]][f]
SameWorker(w) ==
  /\ wpc'[w] = wpc[w] /\ wkey'[w] = wkey[w] /\ wsnap'[w] = wsnap[w]
  /\ waddr'[w] = waddr[w] /\ wraddr'[w] = wraddr[w] /\ wdata'[w] = wdata[w]

LEMMA WorkerFrame ==
  ASSUME NEW f \in Files, NEW w \in Workers, WorkerTrue(w, f), SameFile(f), SameWorker(w)
  PROVE  WorkerTrue(w, f)'
  BY DEF WorkerTrue, SameFile, SameWorker, Copying

LEMMA FreshFrame ==
  ASSUME NEW f \in Files, FreshInv(f), SameFile(f),
         \A w \in Workers :
           \/ SameWorker(w)
           \/ /\ ~Holds(w, f)
              /\ wkey'[w] = f => NodeOf[w] # Owner[f] /\ wpc'[w] = "load"
  PROVE  FreshInv(f)'
<1>1. \A w \in Workers : Holds(w, f)' <=> Holds(w, f)
  BY DEF Holds, SameWorker
<1>2. OneToken(f)'
  BY <1>1 DEF FreshInv, OneToken, SameFile
<1>3. NoToken(f) => NoToken(f)'
  BY <1>1 DEF NoToken, SameFile
<1>4. ClientKnows(f)'
  BY <1>3 DEF FreshInv, ClientKnows, SameFile
<1>5. RowTrue(f)'
  BY DEF FreshInv, RowTrue, SameFile
<1>6. \A w \in Workers : wkey'[w] = f /\ wpc'[w] = "load" => WorkerTrue(w, f)'
  BY DEF WorkerTrue, Copying
<1>7. \A w \in Workers : wkey'[w] = f => WorkerTrue(w, f)'
  BY <1>6, WorkerFrame DEF FreshInv, SameWorker
<1> QED
  BY <1>2, <1>4, <1>5, <1>7 DEF FreshInv

(* AddRateLimited changes one count.                                       *)
LEMMA AddEffect ==
  ASSUME TypeInv, NEW n \in Nodes, NEW k, AddRateLimited(n, k)
  PROVE  \A m \in Nodes, f \in Files :
           work_queue'[m][f] = work_queue[m][f] + IF m = n /\ f = k THEN 1 ELSE 0
<1> SUFFICES ASSUME NEW m \in Nodes, NEW f \in Files
             PROVE  work_queue'[m][f]
                      = work_queue[m][f] + IF m = n /\ f = k THEN 1 ELSE 0
  OBVIOUS
<1>1. work_queue[m][f] \in Nat
  BY DEF TypeInv, TypeOK
<1>2. CASE m = n /\ f = k
  BY <1>1, <1>2 DEF AddRateLimited, TypeInv, TypeOK
<1>3. CASE m # n \/ f # k
  BY <1>1, <1>3 DEF AddRateLimited, TypeInv, TypeOK
<1> QED
  BY <1>2, <1>3

(* A handler or client of g changes only g, the row it marks as evicted,   *)
(* and the count of the key it queues.                                     *)
LEMMA ClientLocal ==
  ASSUME TypeInv, MarkedFirst, NEW g \in Files, HandlerStep(g) \/ ClientStep(g),
         NEW f \in Files, f # g, f \notin evicted'
  PROVE  SameFile(f) /\ \A w \in Workers : SameWorker(w)
<1> USE DEF SameFile, SameWorker
<1>0. /\ cpc \in [Files -> ClientPCs] /\ caddr \in [Files -> Nat]
      /\ saves \in [Files -> Nat] /\ acked \in [Files -> BOOLEAN]
      /\ state \in [Files -> CheckpointState \cup {NONE}]
      /\ dict \in [Files -> Nat] /\ cache \in [Files -> Content]
  BY DEF TypeInv, TypeOK, ClientTypeOK, RowTypeOK, MemTypeOK
<1>1. CASE SaveBegin(g)
  BY <1>0, <1>1 DEF SaveBegin, ClientGoes, rowVars, memVars, workerVars
<1>2. CASE AdmitIteration(g) \/ EvictBatchLoad(g) \/ EvictNext(g) \/ EvictReload(g)
           \/ EvictDeleted(g) \/ EvictDone(g)
  BY <1>0, <1>2 DEF AdmitIteration, EvictBatchLoad, EvictNext, EvictReload, EvictDeleted,
     EvictDone, EvictionFails, ClientGoes, rowVars, memVars, workerVars
<1>3. CASE EvictMark(g)
  <2>1. state'[f] = state[f]
    BY <1>0, <1>3 DEF EvictMark
  <2> QED
    BY <1>0, <1>3, <2>1 DEF EvictMark, EvictionFails, ClientGoes, memVars, workerVars
<1>4. CASE EvictAdd(g)
  <2>1. f # evictee[Owner[g]]
    BY <1>4 DEF EvictAdd, MarkedFirst, evictVars
  <2>2. work_queue'[Owner[f]][f] = work_queue[Owner[f]][f]
    <3>1. work_queue[Owner[f]][f] \in Nat /\ Owner[f] \in Nodes /\ Owner[g] \in Nodes
      BY NodeFacts DEF TypeInv, TypeOK
    <3> QED
      BY <1>4, <2>1, <3>1, AddEffect DEF EvictAdd
  <2> QED
    BY <1>0, <1>4, <2>2 DEF EvictAdd, ClientGoes, rowVars, memVars, workerVars
<1>5. CASE Alloc(g) \/ SaveMeta(g)
  BY <1>0, <1>5 DEF Alloc, SaveMeta, ClientGoes, rowVars, memVars, workerVars
<1>6. CASE WriteBegin(g) \/ WriteEnd(g) \/ ClientAbort(g)
  BY <1>0, <1>6 DEF WriteBegin, WriteEnd, ClientAbort, ClientGoes, rowVars, memVars, workerVars
<1>7. CASE UpdateMetadata(g)
  BY <1>0, <1>7 DEF UpdateMetadata, ClientGoes, rowVars, memVars, workerVars
<1>8. CASE UpdateAdd(g)
  <2>1. work_queue'[Owner[f]][f] = work_queue[Owner[f]][f]
    <3>1. work_queue[Owner[f]][f] \in Nat /\ Owner[f] \in Nodes /\ Owner[g] \in Nodes
      BY NodeFacts DEF TypeInv, TypeOK
    <3> QED
      BY <1>8, <3>1, AddEffect DEF UpdateAdd
  <2> QED
    BY <1>0, <1>8, <2>1 DEF UpdateAdd, ClientGoes, rowVars, memVars, workerVars
<1> QED
  BY <1>1, <1>2, <1>3, <1>4, <1>5, <1>6, <1>7, <1>8 DEF HandlerStep, ClientStep

(* While no worker of the owner has the key, workers see nothing of what   *)
(* the client does.                                                        *)
LEMMA IdleWorkers ==
  ASSUME NEW f \in Files, FreshInv(f), NoToken(f), \A w \in Workers : SameWorker(w)
  PROVE  \A w \in Workers : wkey'[w] = f => WorkerTrue(w, f)'
<1> SUFFICES ASSUME NEW w \in Workers, wkey'[w] = f
             PROVE  WorkerTrue(w, f)'
  OBVIOUS
<1>1. NodeOf[w] # Owner[f] /\ wkey[w] = f
  BY DEF NoToken, Holds, SameWorker
<1>2. wpc'[w] = "load"
  BY <1>1 DEF FreshInv, WorkerTrue, SameWorker
<1> QED
  BY <1>1, <1>2 DEF WorkerTrue, Copying

LEMMA SameTokens ==
  ASSUME NEW f \in Files, FreshInv(f), NoToken(f), \A w \in Workers : SameWorker(w),
         work_queue'[Owner[f]][f] = work_queue[Owner[f]][f]
  PROVE  OneToken(f)' /\ NoToken(f)'
  BY DEF NoToken, OneToken, Holds, SameWorker

(* The client of f and its handler keep the invariant of f.                *)
LEMMA OwnClientFresh ==
  ASSUME TypeInv, MarkedFirst, NEW f \in Files, HandlerStep(f) \/ ClientStep(f),
         FreshInv(f), Fresh(f)'
  PROVE  FreshInv(f)'
<1>0. /\ cpc \in [Files -> ClientPCs] /\ caddr \in [Files -> Nat]
      /\ saves \in [Files -> Nat] /\ acked \in [Files -> BOOLEAN]
      /\ state \in [Files -> CheckpointState \cup {NONE}]
      /\ dict \in [Files -> Nat] /\ cache \in [Files -> Content]
      /\ alloc \in [Files -> Nat]
  BY DEF TypeInv, TypeOK, ClientTypeOK, RowTypeOK, MemTypeOK
<1>1. UNCHANGED <<backup_dict, backup, disk>> /\ \A w \in Workers : SameWorker(w)
  BY DEF HandlerStep, ClientStep, AdmitIteration, EvictBatchLoad, EvictNext, EvictReload,
     EvictMark, EvictAdd, EvictDeleted, EvictDone, Alloc, SaveMeta, UpdateAdd, SaveBegin,
     WriteBegin, WriteEnd, ClientAbort, UpdateMetadata, memVars, workerVars, SameWorker
<1>2. NONE \notin {"PENDING", "CACHED", "BACKED_UP", "PERSISTENT"}
  BY DEF NONE
<1>3. saves[f] \in Nat /\ saves'[f] <= 1 /\ f \notin evicted'
  BY <1>0 DEF Fresh
<1>4. NoToken(f)
  <2>1. CASE SaveBegin(f)
    <3>1. saves[f] = 0
      BY <1>0, <1>3, <2>1 DEF SaveBegin
    <3> QED
      BY <1>2, <3>1 DEF FreshInv, ClientKnows, SavedStates
  <2>2. CASE ~SaveBegin(f)
    <3>1. cpc[f] # "idle"
      BY <2>2 DEF HandlerStep, ClientStep, AdmitIteration, EvictBatchLoad, EvictNext, EvictReload,
         EvictMark, EvictAdd, EvictDeleted, EvictDone, Alloc, SaveMeta, UpdateAdd,
         WriteBegin, WriteEnd, ClientAbort, UpdateMetadata
    <3>2. cpc[f] \in {"lock", "alloc", "save_meta", "open", "write", "update", "add"} \cup EvictPCs
      BY <1>0, <3>1 DEF ClientPCs, EvictPCs
    <3> QED
      BY <1>2, <3>2 DEF FreshInv, ClientKnows, SavedStates
  <2> QED
    BY <2>1, <2>2
<1>5. \A w \in Workers : wkey'[w] = f => WorkerTrue(w, f)'
  BY <1>1, <1>4, IdleWorkers
<1>6. SUFFICES OneToken(f)' /\ ClientKnows(f)' /\ RowTrue(f)'
  BY <1>5 DEF FreshInv
<1> USE DEF FreshInv, ClientKnows, RowTrue, SavedStates, EvictPCs
<1>7. CASE SaveBegin(f)
  <2>1. saves[f] = 0 /\ saves'[f] = 1 /\ cpc'[f] \in {"alloc", "lock"} /\ acked'[f] = FALSE
    BY <1>0, <1>3, <1>7 DEF SaveBegin, ClientGoes
  <2>2. UNCHANGED <<state, dict, cache, work_queue>>
    BY <1>7 DEF SaveBegin, rowVars, memVars
  <2>3. OneToken(f)' /\ NoToken(f)'
    BY <1>1, <1>4, <2>2, SameTokens
  <2>4. ClientKnows(f)'
    BY <1>2, <2>1, <2>2, <2>3
  <2>5. RowTrue(f)'
    BY <1>1, <2>1, <2>2
  <2> QED
    BY <2>3, <2>4, <2>5
<1>8. CASE AdmitIteration(f) \/ EvictBatchLoad(f) \/ EvictNext(f) \/ EvictReload(f)
           \/ EvictDeleted(f) \/ EvictDone(f)
  <2>1. /\ cpc[f] \in {"lock"} \cup EvictPCs
        /\ cpc'[f] \in {"idle", "alloc"} \cup EvictPCs
    BY <1>0, <1>8 DEF AdmitIteration, EvictBatchLoad, EvictNext, EvictReload, EvictDeleted,
       EvictDone, EvictionFails, ClientGoes
  <2>2. UNCHANGED <<state, dict, cache, work_queue, saves, acked>>
    BY <1>8 DEF AdmitIteration, EvictBatchLoad, EvictNext, EvictReload, EvictDeleted,
       EvictDone, rowVars, memVars
  <2>3. OneToken(f)' /\ NoToken(f)'
    BY <1>1, <1>4, <2>2, SameTokens
  <2>4. ClientKnows(f)'
    BY <1>2, <2>1, <2>2, <2>3
  <2>5. RowTrue(f)'
    BY <1>1, <2>2
  <2> QED
    BY <2>3, <2>4, <2>5
<1>9. CASE EvictMark(f) \/ EvictAdd(f)
  <2>1. cpc[f] \in EvictPCs /\ cpc'[f] \in {"idle"} \cup EvictPCs
    BY <1>0, <1>9 DEF EvictMark, EvictAdd, EvictionFails, ClientGoes
  <2>2. UNCHANGED <<dict, cache, saves, acked>>
    BY <1>9 DEF EvictMark, EvictAdd, memVars
  <2>3. state'[f] = state[f]
    BY <1>0, <1>3, <1>9 DEF EvictMark, EvictAdd, rowVars
  <2>4. work_queue'[Owner[f]][f] = work_queue[Owner[f]][f]
    <3>1. CASE EvictAdd(f)
      <4>1. f # evictee[Owner[f]]
        BY <1>3, <3>1 DEF EvictAdd, MarkedFirst, evictVars
      <4>2. work_queue[Owner[f]][f] \in Nat /\ Owner[f] \in Nodes
        BY NodeFacts DEF TypeInv, TypeOK
      <4> QED
        BY <3>1, <4>1, <4>2, AddEffect DEF EvictAdd
    <3>2. CASE EvictMark(f)
      BY <3>2 DEF EvictMark
    <3> QED
      BY <1>9, <3>1, <3>2
  <2>5. OneToken(f)' /\ NoToken(f)'
    BY <1>1, <1>4, <2>4, SameTokens
  <2>6. ClientKnows(f)'
    BY <1>2, <2>1, <2>2, <2>3, <2>5
  <2>7. RowTrue(f)'
    BY <1>1, <2>2, <2>3
  <2> QED
    BY <2>5, <2>6, <2>7
<1>10. CASE Alloc(f)
  <2>1. /\ cpc[f] = "alloc"
        /\ cpc'[f] = "idle" \/ (cpc'[f] = "save_meta" /\ dict'[f] # 0)
    BY <1>0, <1>10 DEF Alloc, ClientGoes
  <2>2. UNCHANGED <<state, work_queue, saves, acked>>
    BY <1>10 DEF Alloc, rowVars
  <2>3. OneToken(f)' /\ NoToken(f)'
    BY <1>1, <1>4, <2>2, SameTokens
  <2>4. ClientKnows(f)'
    BY <1>2, <2>1, <2>2, <2>3
  <2>5. RowTrue(f)'
    BY <1>1, <1>2, <2>1, <2>2
  <2> QED
    BY <2>3, <2>4, <2>5
<1>11. CASE SaveMeta(f)
  <2>1. /\ cpc[f] = "save_meta"
        /\ \/ cpc'[f] = "idle" /\ state'[f] = state[f]
           \/ cpc'[f] = "open" /\ state'[f] = "PENDING"
    BY <1>0, <1>11 DEF SaveMeta, ClientGoes, rowVars
  <2>2. UNCHANGED <<dict, cache, work_queue, saves, acked>>
    BY <1>11 DEF SaveMeta, memVars
  <2>3. OneToken(f)' /\ NoToken(f)'
    BY <1>1, <1>4, <2>2, SameTokens
  <2>4. ClientKnows(f)'
    BY <1>2, <2>1, <2>2, <2>3
  <2>5. RowTrue(f)'
    BY <1>1, <1>2, <2>1, <2>2
  <2> QED
    BY <2>3, <2>4, <2>5
<1>12. CASE WriteBegin(f) \/ WriteEnd(f) \/ ClientAbort(f)
  <2>1. /\ cpc[f] \in {"open", "write", "update"}
        /\ \/ cpc'[f] = "idle"
           \/ cpc[f] = "open" /\ cpc'[f] = "write" /\ caddr'[f] = dict[f]
           \/ cpc[f] = "write" /\ cpc'[f] = "update"
              /\ (dict[f] = caddr[f] => cache'[f] = saves[f])
    BY <1>0, <1>12 DEF WriteBegin, WriteEnd, ClientAbort, ClientGoes
  <2>2. UNCHANGED <<state, dict, work_queue, saves, acked>>
    BY <1>12 DEF WriteBegin, WriteEnd, ClientAbort, rowVars, memVars
  <2>3. OneToken(f)' /\ NoToken(f)'
    BY <1>1, <1>4, <2>2, SameTokens
  <2>4. ClientKnows(f)'
    BY <1>2, <2>1, <2>2, <2>3
  <2>5. RowTrue(f)'
    BY <1>1, <1>2, <2>1, <2>2
  <2> QED
    BY <2>3, <2>4, <2>5
<1>13. CASE UpdateMetadata(f)
  <2>1. /\ cpc[f] = "update"
        /\ \/ cpc'[f] = "idle" /\ state'[f] = state[f]
           \/ cpc'[f] = "add" /\ state'[f] = "CACHED"
    BY <1>0, <1>13 DEF UpdateMetadata, ClientGoes
  <2>2. UNCHANGED <<dict, cache, work_queue, saves, acked>>
    BY <1>13 DEF UpdateMetadata, memVars
  <2>3. OneToken(f)' /\ NoToken(f)'
    BY <1>1, <1>4, <2>2, SameTokens
  <2>4. ClientKnows(f)'
    BY <1>2, <2>1, <2>2, <2>3
  <2>5. RowTrue(f)'
    BY <1>1, <1>2, <2>1, <2>2
  <2> QED
    BY <2>3, <2>4, <2>5
<1>14. CASE UpdateAdd(f)
  <2>1. cpc[f] = "add" /\ cpc'[f] = "idle"
    BY <1>0, <1>14 DEF UpdateAdd, ClientGoes
  <2>2. UNCHANGED <<state, dict, cache, saves>>
    BY <1>14 DEF UpdateAdd, rowVars, memVars
  <2>3. work_queue'[Owner[f]][f] = 1
    <3>1. work_queue[Owner[f]][f] = 0 /\ Owner[f] \in Nodes
      BY <1>4, NodeFacts DEF NoToken
    <3> QED
      BY <1>14, <3>1, AddEffect DEF UpdateAdd
  <2>4. OneToken(f)'
    BY <1>1, <1>4, <2>3 DEF OneToken, NoToken, Holds, SameWorker
  <2>5. ClientKnows(f)'
    BY <1>2, <2>1, <2>2
  <2>6. RowTrue(f)'
    BY <1>1, <2>2
  <2> QED
    BY <2>4, <2>5, <2>6
<1> QED
  BY <1>7, <1>8, <1>9, <1>10, <1>11, <1>12, <1>13, <1>14 DEF HandlerStep, ClientStep

-----------------------------------------------------------------------------
(* Workers.                                                                *)

LEMMA NextDiffers ==
  ASSUME WorldSize > 1, NEW n \in Nodes
  PROVE  NextNode(n) # n
<1>1. WorldSize \in Nat /\ n \in Nat /\ n < WorldSize
  BY ConstantsAssumption DEF Nodes
<1>2. CASE n + 1 = WorldSize
  <2>1. (n + 1) % WorldSize = 0
    BY <1>1, <1>2
  <2> QED
    BY <1>1, <1>2, <2>1 DEF NextNode
<1>3. CASE n + 1 < WorldSize
  <2>1. (n + 1) % WorldSize = n + 1
    BY <1>1, <1>3
  <2> QED
    BY <1>1, <2>1 DEF NextNode
<1> QED
  BY <1>1, <1>2, <1>3

LEMMA WorkerFrameVars ==
  ASSUME NEW w \in Workers, WorkerMove(w)
  PROVE  /\ UNCHANGED <<cpc, citer, caddr, saves, acked, iteration>>
         /\ UNCHANGED <<rw_mutex, q_, vec, evictee, evicted>>
  BY DEF WorkerMove, WorkerStep, ConnectionReset,
         Fetch, LoadMetadata, CheckData, MarkBroken, BackupBegin,
         RdmaWrite, PersistOpen, PersistWrite, UpdateState, NotifyNext,
         DeleteEntry, clientVars, evictVars, rowVars

(* A worker leaves the others alone, except that the end of its transfer   *)
(* may spoil one to the same place.                                        *)
LEMMA WorkerLocal ==
  ASSUME TypeInv, NEW w \in Workers, WorkerMove(w), NEW u \in Workers \ {w}
  PROVE  /\ wpc'[u] = wpc[u] /\ wkey'[u] = wkey[u] /\ wsnap'[u] = wsnap[u]
         /\ waddr'[u] = waddr[u] /\ wraddr'[u] = wraddr[u]
         /\ wkey[u] # wkey[w] => wdata'[u] = wdata[u]
<1>0. SUFFICES /\ waddr'[u] = waddr[u] /\ wraddr'[u] = wraddr[u]
               /\ wkey[u] # wkey[w] => wdata'[u] = wdata[u]
  BY WorkerIsolation
<1> USE DEF TypeInv, TypeOK, WorkerTypeOK
<1>1. ASSUME Drop(w)
      PROVE  waddr'[u] = waddr[u] /\ wraddr'[u] = wraddr[u]
  BY <1>1 DEF Drop
<1>2. wkey[u] # wkey[w] => \A d : Spoiled(w, d)[u] = wdata[u]
  BY DEF Spoiled, SameTarget
<1>3. CASE Fetch(w) \/ NotifyNext(w) \/ DeleteEntry(w)
  BY <1>1, <1>3 DEF Fetch, NotifyNext, DeleteEntry, Requeue
<1>4. CASE LoadMetadata(w) \/ CheckData(w)
  BY <1>1, <1>4 DEF LoadMetadata, CheckData, Requeue
<1>5. CASE MarkBroken(w) \/ UpdateState(w)
  BY <1>1, <1>5 DEF MarkBroken, UpdateState, Requeue
<1>6. CASE BackupBegin(w)
  BY <1>1, <1>6 DEF BackupBegin, GetsStuck, Requeue
<1>7. CASE RdmaWrite(w)
  BY <1>1, <1>2, <1>7 DEF RdmaWrite, GetsStuck, Requeue
<1>8. CASE PersistOpen(w)
  BY <1>1, <1>8 DEF PersistOpen, PersistFails, Requeue
<1>9. CASE PersistWrite(w)
  BY <1>1, <1>2, <1>9 DEF PersistWrite, PersistFails, Requeue
<1>10. CASE ConnectionReset(w)
  BY <1>1, <1>10 DEF ConnectionReset, Requeue
<1> QED
  BY <1>3, <1>4, <1>5, <1>6, <1>7, <1>8, <1>9, <1>10 DEF WorkerMove, WorkerStep

(* A worker changes nothing of files whose keys it neither has nor takes.  *)
LEMMA WorkerOtherFiles ==
  ASSUME TypeInv, NEW w \in Workers, WorkerMove(w), NEW f \in Files,
         wkey[w] # f, wkey'[w] # f
  PROVE  SameFile(f)
<1>0. /\ state \in [Files -> CheckpointState \cup {NONE}] /\ disk \in [Files -> Content]
      /\ dict \in [Files -> Nat] /\ cache \in [Files -> Content]
      /\ backup_dict \in [Files -> Nat] /\ backup \in [Files -> Content]
  BY DEF TypeInv, TypeOK, RowTypeOK, MemTypeOK
<1>1. state'[f] = state[f] /\ disk'[f] = disk[f]
  BY <1>0 DEF WorkerMove, WorkerStep, ConnectionReset,
           Fetch, LoadMetadata, CheckData, MarkBroken, BackupBegin,
         RdmaWrite, PersistOpen, PersistWrite, UpdateState, NotifyNext, DeleteEntry, rowVars
<1>2. dict'[f] = dict[f] /\ cache'[f] = cache[f]
  BY <1>0 DEF WorkerMove, WorkerStep, ConnectionReset,
           Fetch, LoadMetadata, CheckData, MarkBroken, BackupBegin,
         RdmaWrite, PersistOpen, PersistWrite, UpdateState, NotifyNext, DeleteEntry, memVars
<1>3. backup_dict'[f] = backup_dict[f] /\ backup'[f] = backup[f]
  BY <1>0 DEF WorkerMove, WorkerStep, ConnectionReset,
           Fetch, LoadMetadata, CheckData, MarkBroken, BackupBegin,
         RdmaWrite, PersistOpen, PersistWrite, UpdateState, NotifyNext, DeleteEntry, memVars
<1>4. work_queue'[Owner[f]][f] = work_queue[Owner[f]][f]
  <2>0. work_queue[Owner[f]][f] \in Nat
    BY NodeFacts DEF TypeInv, TypeOK
  <2>1. CASE Fetch(w)
    <3>1. PICK g \in Files :
            /\ work_queue' = [work_queue EXCEPT ![NodeOf[w]][g] = @ - 1]
            /\ wkey' = [wkey EXCEPT ![w] = g]
      BY <2>1 DEF Fetch
    <3>2. g # f
      BY <3>1 DEF TypeInv, TypeOK, WorkerTypeOK
    <3> QED
      BY <3>1, <3>2, NodeFacts DEF TypeInv, TypeOK
  <2>2. CASE ~Fetch(w)
    <3>1. UNCHANGED work_queue \/ \E n \in Nodes : AddRateLimited(n, wkey[w])
      BY <2>2, NodeFacts
      DEF WorkerMove, WorkerStep, ConnectionReset,
          LoadMetadata, CheckData, MarkBroken, BackupBegin, RdmaWrite,
          PersistOpen, PersistWrite, PersistFails, UpdateState, NotifyNext,
          DeleteEntry, Requeue, Peer, GetsStuck
    <3> QED
      BY <2>0, <3>1, AddEffect, NodeFacts
  <2> QED
    BY <2>1, <2>2
<1> QED
  BY <1>1, <1>2, <1>3, <1>4, WorkerFrameVars DEF SameFile

(* What the one worker of the owner that has the key must leave behind.    *)
LEMMA OwnerFrame ==
  ASSUME TypeInv, NEW f \in Files, FreshInv(f), NEW w \in Workers, Holds(w, f),
         WorkerMove(w), dict'[f] = dict[f], cache'[f] = cache[f],
         state'[f] \in SavedStates, RowTrue(f)',
         \/ wkey'[w] = f /\ WorkerTrue(w, f)' /\ work_queue'[Owner[f]][f] = 0
         \/ wkey'[w] # f /\ work_queue'[Owner[f]][f] \in {0, 1}
  PROVE  FreshInv(f)'
<1>1. \A u \in Workers \ {w} : wkey[u] = f => wpc[u] = "load" /\ NodeOf[u] # Owner[f]
  BY DEF FreshInv, OneToken, Holds, WorkerTrue
<1>2. \A u \in Workers \ {w} : wkey'[u] = f => wpc'[u] = "load" /\ NodeOf[u] # Owner[f]
  BY <1>1, WorkerLocal
<1>3. \A u \in Workers \ {w} : wkey'[u] = f => WorkerTrue(u, f)'
  BY <1>2 DEF WorkerTrue, Copying
<1>4. \A u \in Workers \ {w} : ~Holds(u, f)'
  BY <1>2 DEF Holds
<1>5. OneToken(f)'
  BY <1>4 DEF OneToken, Holds
<1>6. state[f] \in SavedStates /\ cpc[f] # "add"
  BY DEF FreshInv, ClientKnows, NoToken
<1>7. NONE \notin SavedStates /\ "PENDING" \notin SavedStates
  BY DEF NONE, SavedStates
<1>8. UNCHANGED <<cpc, caddr, saves, acked>>
  BY WorkerFrameVars
<1>9. ClientKnows(f)'
  BY <1>6, <1>7, <1>8 DEF FreshInv, ClientKnows
<1> QED
  BY <1>3, <1>5, <1>9 DEF FreshInv

LEMMA OwnerFresh ==
  ASSUME TypeInv, NEW f \in Files, FreshInv(f), NEW w \in Workers, Holds(w, f),
         WorkerMove(w)
  PROVE  FreshInv(f)'
<1>0. /\ wpc \in [Workers -> WorkerPCs] /\ wkey \in [Workers -> Files \cup {NoFile}]
      /\ wsnap \in [Workers -> CheckpointState \cup {NONE}]
      /\ waddr \in [Workers -> Nat] /\ wraddr \in [Workers -> Nat]
      /\ wdata \in [Workers -> Content]
      /\ state \in [Files -> CheckpointState \cup {NONE}] /\ disk \in [Files -> Content]
      /\ backup_dict \in [Files -> Nat] /\ backup \in [Files -> Content]
      /\ alloc \in [Files -> Nat] /\ dict \in [Files -> Nat]
  BY DEF TypeInv, TypeOK, WorkerTypeOK, RowTypeOK, MemTypeOK
<1>1. /\ wkey[w] = f /\ NodeOf[w] = Owner[f] /\ IsOwner(w) /\ WorkerTrue(w, f)
      /\ work_queue[Owner[f]][f] = 0 /\ NoFile # f
  BY ConstantsAssumption DEF FreshInv, OneToken, Holds, IsOwner
<1>2. /\ state[f] \in SavedStates /\ dict[f] # 0 /\ cache[f] = 1 /\ RowTrue(f)
      /\ NONE \notin SavedStates
  BY DEF FreshInv, ClientKnows, NoToken, RowTrue, NONE, SavedStates
<1>3. \A n \in Nodes : AddRateLimited(n, f) =>
        work_queue'[Owner[f]][f] = IF n = Owner[f] THEN 1 ELSE 0
  BY <1>1, AddEffect, NodeFacts
<1>4. ASSUME Drop(w) PROVE wkey'[w] # f
  BY <1>0, <1>1, <1>4 DEF Drop
<1>5. ASSUME Requeue(w) PROVE wkey'[w] # f /\ work_queue'[Owner[f]][f] = 1
  BY <1>1, <1>3, <1>4, <1>5, NodeFacts DEF Requeue
<1>6. ASSUME PersistFails(w)
      PROVE  wkey'[w] # f /\ work_queue'[Owner[f]][f] \in {0, 1}
  BY <1>1, <1>4, <1>5, <1>6 DEF PersistFails
<1>15. ASSUME GetsStuck(w), wpc[w] \in {"backup", "rdma"},
              UNCHANGED <<state, dict, cache, backup_dict, backup, disk>>
       PROVE  FreshInv(f)'
  <2>1. wpc'[w] = "stuck" /\ UNCHANGED <<work_queue, wkey, wsnap>>
    BY <1>0, <1>15 DEF GetsStuck, WorkerGoes
  <2>2. WorkerTrue(w, f)'
    BY <1>1, <1>15, <2>1 DEF WorkerTrue, Copying
  <2>3. RowTrue(f)'
    BY <1>2, <1>15 DEF RowTrue
  <2> QED
    BY <1>1, <1>2, <1>15, <2>1, <2>2, <2>3, OwnerFrame
<1>7. CASE LoadMetadata(w)
  <2>1. UNCHANGED <<state, dict, cache, backup_dict, backup, disk>>
    BY <1>7 DEF LoadMetadata, rowVars, memVars
  <2>2. RowTrue(f)'
    BY <1>2, <2>1 DEF RowTrue
  <2>3. CASE UNCHANGED <<work_queue, wkey, waddr, wraddr>> /\ wsnap' = [wsnap EXCEPT ![w] = state[f]]
             /\ WorkerGoes(w, "check")
    <3>1. wpc'[w] = "check" /\ wsnap'[w] = state[f]
      BY <1>0, <2>3 DEF WorkerGoes
    <3>2. WorkerTrue(w, f)'
      BY <1>1, <2>1, <3>1 DEF WorkerTrue, Copying
    <3> QED
      BY <1>1, <1>2, <2>1, <2>2, <2>3, <3>2, OwnerFrame
  <2>4. CASE Requeue(w)
    BY <1>2, <1>5, <2>1, <2>2, <2>4, OwnerFrame
  <2> QED
    BY <1>1, <1>2, <1>7, <2>3, <2>4 DEF LoadMetadata
<1>8. CASE CheckData(w)
  <2>1. UNCHANGED <<state, dict, cache, backup_dict, backup, disk, work_queue>>
    BY <1>8 DEF CheckData, rowVars, memVars
  <2>2. RowTrue(f)'
    BY <1>2, <2>1 DEF RowTrue
  <2>3. wsnap[w] = state[f] /\ LocalAddress(w) = dict[f]
    BY <1>1, <1>8 DEF CheckData, WorkerTrue, LocalAddress
  <2>4. CASE Drop(w)
    BY <1>1, <1>2, <1>4, <2>1, <2>2, <2>4, OwnerFrame
  <2>5. CASE /\ Task(w, wsnap[w]) # "none"
             /\ waddr' = [waddr EXCEPT ![w] = dict[f]]
             /\ WorkerGoes(w, Task(w, wsnap[w]))
             /\ UNCHANGED <<wkey, wsnap, wraddr>>
    <3>1. wpc'[w] = Task(w, state[f]) /\ waddr'[w] = dict[f]
      BY <1>0, <2>3, <2>5 DEF WorkerGoes
    <3>2. WorldSize = 1 \/ WorldSize > 1
      BY ConstantsAssumption
    <3>3. \/ state[f] = "CACHED" /\ WorldSize > 1 /\ wpc'[w] = "backup"
          \/ state[f] = "CACHED" /\ WorldSize = 1 /\ Persist /\ wpc'[w] = "fopen"
          \/ state[f] = "BACKED_UP" /\ Persist /\ wpc'[w] = "fopen"
      <4>1. CASE state[f] = "CACHED" /\ WorldSize > 1
        BY <3>1, <4>1 DEF Task
      <4>2. CASE state[f] = "CACHED" /\ WorldSize = 1
        <5>1. Persist
          BY <2>3, <2>5, <4>2 DEF Task
        <5> QED
          BY <3>1, <4>2, <5>1 DEF Task
      <4>3. CASE state[f] = "BACKED_UP"
        <5>1. Persist
          BY <2>3, <2>5, <4>3 DEF Task
        <5> QED
          BY <3>1, <4>3, <5>1 DEF Task
      <4>4. CASE state[f] = "PERSISTENT"
        BY <2>3, <2>5, <4>4 DEF Task
      <4> QED
        BY <1>2, <3>2, <4>1, <4>2, <4>3, <4>4 DEF SavedStates
    <3>4. WorkerTrue(w, f)'
      BY <1>1, <2>1, <2>3, <2>5, <3>1, <3>3 DEF WorkerTrue, Copying
    <3> QED
      BY <1>1, <1>2, <2>1, <2>2, <2>5, <3>4, OwnerFrame
  <2> QED
    BY <1>2, <1>8, <2>3, <2>4, <2>5 DEF CheckData, SavedStates
<1>9. CASE BackupBegin(w)
  <2>1. /\ UNCHANGED <<state, dict, cache, disk>>
        /\ state[f] = "CACHED" /\ WorldSize > 1 /\ wsnap[w] = "CACHED" /\ waddr[w] = dict[f]
    BY <1>1, <1>9 DEF BackupBegin, rowVars, WorkerTrue, Copying
  <2>2. RowTrue(f)'
    BY <1>2, <2>1 DEF RowTrue
  <2>3. CASE Requeue(w)
    BY <1>2, <1>5, <2>1, <2>2, <2>3, OwnerFrame
  <2>4. CASE /\ wraddr' = [wraddr EXCEPT ![w] = backup_dict'[f]]
             /\ wdata' = [wdata EXCEPT ![w] = Source(w)]
             /\ WorkerGoes(w, "rdma")
             /\ UNCHANGED <<work_queue, wkey, wsnap, waddr>>
             /\ backup_dict'[f] # 0
    <3>1. Source(w) = 1
      BY <1>1, <1>2, <2>1 DEF Source
    <3>2. wpc'[w] = "rdma" /\ wraddr'[w] = backup_dict'[f] /\ wdata'[w] = 1
      BY <1>0, <2>4, <3>1 DEF WorkerGoes
    <3>3. WorkerTrue(w, f)'
      BY <1>1, <2>1, <2>4, <3>2 DEF WorkerTrue, Copying
    <3> QED
      BY <1>1, <1>2, <2>1, <2>2, <2>4, <3>3, OwnerFrame
  <2>6. CASE GetsStuck(w) /\ UNCHANGED <<backup_dict, backup>>
    BY <1>9, <1>15, <2>1, <2>6 DEF BackupBegin
  <2>5. \/ Requeue(w)
        \/ GetsStuck(w) /\ UNCHANGED <<backup_dict, backup>>
        \/ /\ wraddr' = [wraddr EXCEPT ![w] = backup_dict'[f]]
           /\ wdata' = [wdata EXCEPT ![w] = Source(w)]
           /\ WorkerGoes(w, "rdma")
           /\ UNCHANGED <<work_queue, wkey, wsnap, waddr>>
           /\ backup_dict'[f] # 0
    BY <1>0, <1>1, <1>9 DEF BackupBegin
  <2> QED
    BY <2>3, <2>4, <2>5, <2>6
<1>10. CASE RdmaWrite(w)
  <2>1. /\ UNCHANGED <<state, dict, cache, disk, backup_dict>>
        /\ state[f] = "CACHED" /\ WorldSize > 1 /\ wsnap[w] = "CACHED" /\ waddr[w] = dict[f]
        /\ wraddr[w] = backup_dict[f] /\ backup_dict[f] # 0 /\ wdata[w] = 1
    BY <1>1, <1>10 DEF RdmaWrite, rowVars, WorkerTrue, Copying
  <2>2. RowTrue(f)'
    BY <1>2, <2>1 DEF RowTrue
  <2>3. Delivered(w) = 1
    BY <1>1, <1>2, <2>1 DEF Delivered, Source
  <2>4. CASE Requeue(w)
    BY <1>2, <1>5, <2>1, <2>2, <2>4, OwnerFrame
  <2>5. CASE /\ backup' = [backup EXCEPT ![f] = 1]
             /\ AddRateLimited(NextNode(NodeOf[w]), f)
             /\ WorkerGoes(w, "update_state")
             /\ UNCHANGED <<wkey, wsnap, waddr, wraddr>>
    <3>1. wpc'[w] = "update_state" /\ backup'[f] = 1
      BY <1>0, <2>5 DEF WorkerGoes
    <3>2. work_queue'[Owner[f]][f] = 0
      BY <1>1, <1>3, <2>1, <2>5, NextDiffers, NodeFacts
    <3>3. WorkerTrue(w, f)'
      BY <1>1, <2>1, <2>5, <3>1 DEF WorkerTrue, Copying
    <3> QED
      BY <1>1, <1>2, <2>1, <2>2, <2>5, <3>2, <3>3, OwnerFrame
  <2>6. CASE GetsStuck(w) /\ UNCHANGED backup
    BY <1>10, <1>15, <2>1, <2>6 DEF RdmaWrite
  <2> QED
    BY <1>1, <1>10, <2>1, <2>3, <2>4, <2>5, <2>6 DEF RdmaWrite, Peer
<1>11. CASE PersistOpen(w)
  <2>1. /\ UNCHANGED <<state, dict, cache, backup_dict, backup>>
        /\ state[f] \in {"CACHED", "BACKED_UP"} /\ Persist /\ wsnap[w] = state[f]
        /\ waddr[w] = dict[f] /\ (state[f] = "CACHED" => WorldSize = 1)
    BY <1>1, <1>11 DEF PersistOpen, rowVars, memVars, WorkerTrue, Copying
  <2>2. RowTrue(f)'
    BY <1>2, <2>1 DEF RowTrue
  <2>3. CASE PersistFails(w)
    BY <1>2, <1>6, <2>1, <2>2, <2>3, OwnerFrame
  <2>4. CASE /\ wdata' = [wdata EXCEPT ![w] = Source(w)]
             /\ WorkerGoes(w, "fwrite")
             /\ UNCHANGED <<work_queue, wkey, wsnap, waddr, wraddr>>
    <3>1. Source(w) = 1
      BY <1>1, <1>2, <2>1 DEF Source
    <3>2. wpc'[w] = "fwrite" /\ wdata'[w] = 1
      BY <1>0, <2>4, <3>1 DEF WorkerGoes
    <3>3. WorkerTrue(w, f)'
      BY <1>1, <2>1, <2>4, <3>2 DEF WorkerTrue, Copying
    <3> QED
      BY <1>1, <1>2, <2>1, <2>2, <2>4, <3>3, OwnerFrame
  <2> QED
    BY <1>11, <2>3, <2>4 DEF PersistOpen
<1>12. CASE PersistWrite(w)
  <2>1. /\ UNCHANGED <<state, dict, cache, backup_dict, backup>>
        /\ state[f] \in {"CACHED", "BACKED_UP"} /\ Persist /\ wsnap[w] = state[f]
        /\ waddr[w] = dict[f] /\ (state[f] = "CACHED" => WorldSize = 1) /\ wdata[w] = 1
    BY <1>1, <1>12 DEF PersistWrite, rowVars, memVars, WorkerTrue, Copying
  <2>2. RowTrue(f)'
    BY <1>2, <2>1 DEF RowTrue
  <2>3. CASE PersistFails(w)
    BY <1>2, <1>6, <2>1, <2>2, <2>3, OwnerFrame
  <2>4. Delivered(w) = 1
    BY <1>1, <1>2, <2>1 DEF Delivered, Source
  <2>5. {u \in Workers \ {w} : SameTarget(u, w)} = {}
    <3>1. \A u \in Workers \ {w} : wkey[u] = f => wpc[u] = "load"
      BY <1>1 DEF FreshInv, OneToken, Holds, WorkerTrue
    <3> QED
      BY <1>1, <1>12, <3>1 DEF SameTarget, PersistWrite
  <2>6. CASE /\ disk' = [disk EXCEPT ![f] = 1]
             /\ WorkerGoes(w, "update_state")
             /\ UNCHANGED <<work_queue, wkey, wsnap, waddr, wraddr>>
    <3>1. wpc'[w] = "update_state" /\ disk'[f] = 1
      BY <1>0, <2>6 DEF WorkerGoes
    <3>2. ~(state[f] = "CACHED" /\ WorldSize > 1)
      BY <2>1
    <3>3. WorkerTrue(w, f)'
      BY <1>1, <2>1, <2>6, <3>1, <3>2 DEF WorkerTrue, Copying
    <3> QED
      BY <1>1, <1>2, <2>1, <2>2, <2>6, <3>3, OwnerFrame
  <2> QED
    BY <1>1, <1>12, <2>3, <2>4, <2>5, <2>6 DEF PersistWrite
<1>13. CASE UpdateState(w)
  <2>1. /\ UNCHANGED <<dict, cache, backup_dict, backup, disk>> /\ Requeue(w)
        /\ wsnap[w] = state[f] /\ wpc[w] = "update_state"
    BY <1>1, <1>13 DEF UpdateState, memVars, WorkerTrue
  <2>2. state'[f] = state[f] \/ state'[f] = Promoted(state[f])
    BY <1>0, <1>1, <1>13, <2>1 DEF UpdateState
  <2>3. state'[f] \in SavedStates
    BY <1>2, <2>2 DEF Promoted, SavedStates
  <2>4. RowTrue(f)'
    <3>1. CASE state'[f] = state[f]
      BY <1>2, <2>1, <3>1 DEF RowTrue
    <3>2. CASE state'[f] = Promoted(state[f]) /\ state[f] = "CACHED" /\ WorldSize > 1
      BY <1>1, <1>2, <2>1, <3>2 DEF RowTrue, Promoted, WorkerTrue, SavedStates
    <3>3. CASE state'[f] = Promoted(state[f]) /\ ~(state[f] = "CACHED" /\ WorldSize > 1)
      <4>1. state[f] \in {"CACHED", "BACKED_UP"} /\ disk[f] = 1 /\ state'[f] = "PERSISTENT"
        BY <1>1, <2>1, <3>3 DEF Promoted, WorkerTrue
      <4> QED
        BY <1>2, <2>1, <3>3, <4>1 DEF RowTrue, SavedStates
    <3> QED
      BY <2>2, <3>1, <3>2, <3>3
  <2> QED
    BY <1>5, <2>1, <2>3, <2>4, OwnerFrame
<1>14. ~Fetch(w) /\ ~MarkBroken(w) /\ ~NotifyNext(w) /\ ~DeleteEntry(w)
  BY <1>1 DEF Fetch, MarkBroken, NotifyNext, DeleteEntry, WorkerTrue, Copying
<1>16. CASE ConnectionReset(w)
  <2>1. UNCHANGED <<state, dict, cache, backup_dict, backup, disk>>
    BY <1>16 DEF ConnectionReset, rowVars, memVars
  <2>2. RowTrue(f)'
    BY <1>2, <2>1 DEF RowTrue
  <2> QED
    BY <1>2, <1>5, <1>16, <2>1, <2>2, OwnerFrame DEF ConnectionReset
<1> QED
  BY <1>7, <1>8, <1>9, <1>10, <1>11, <1>12, <1>13, <1>14, <1>16
  DEF WorkerMove, WorkerStep

(* Any other worker leaves the one save of f alone: it only fetches keys,  *)
(* and on other nodes it finds nothing to do.                              *)
LEMMA OtherFresh ==
  ASSUME TypeInv, NEW f \in Files, FreshInv(f), NEW w \in Workers, ~Holds(w, f),
         WorkerMove(w)
  PROVE  FreshInv(f)'
<1>0. /\ wpc \in [Workers -> WorkerPCs] /\ wkey \in [Workers -> Files \cup {NoFile}]
      /\ NoFile \notin Files
  BY ConstantsAssumption DEF TypeInv, TypeOK, WorkerTypeOK
<1>1. CASE wkey[w] # f /\ wkey'[w] # f
  <2>1. \A u \in Workers : SameWorker(u) \/ (~Holds(u, f) /\ wkey'[u] # f)
    <3> SUFFICES ASSUME NEW u \in Workers, u # w
                 PROVE  SameWorker(u) \/ (~Holds(u, f) /\ wkey'[u] # f)
      BY <1>1
    <3>1. CASE wkey[u] = wkey[w]
      BY <1>1, <3>1, WorkerLocal DEF Holds
    <3>2. CASE wkey[u] # wkey[w]
      BY <3>2, WorkerLocal DEF SameWorker
    <3> QED
      BY <3>1, <3>2
  <2> QED
    BY <1>1, <2>1, WorkerOtherFiles, FreshFrame
<1>2. CASE wkey[w] = f
  <2>1. NodeOf[w] # Owner[f] /\ wpc[w] = "load" /\ ~IsOwner(w)
    BY <1>2 DEF Holds, FreshInv, WorkerTrue, IsOwner
  <2>2. LoadMetadata(w)
    BY <2>1 DEF WorkerMove, WorkerStep, ConnectionReset,
             Fetch, CheckData, MarkBroken, BackupBegin, RdmaWrite,
       PersistOpen, PersistWrite, UpdateState, NotifyNext, DeleteEntry
  <2>3. state[f] # "OBSOLESCENT"
    BY DEF FreshInv, RowTrue, SavedStates, NONE
  <2>4. /\ Drop(w)
        /\ UNCHANGED work_queue \/ AddRateLimited(NodeOf[w], f)
        /\ UNCHANGED <<state, disk, dict, cache, backup_dict, backup, wdata>>
    BY <1>2, <2>1, <2>2, <2>3 DEF LoadMetadata, Requeue, rowVars, memVars
  <2>5. wkey'[w] # f
    BY <1>0, <2>4 DEF Drop
  <2>6. work_queue'[Owner[f]][f] = work_queue[Owner[f]][f]
    <3>1. work_queue[Owner[f]][f] \in Nat
      BY NodeFacts DEF TypeInv, TypeOK
    <3> QED
      BY <2>1, <2>4, <3>1, AddEffect, NodeFacts
  <2>7. SameFile(f)
    BY <2>4, <2>6, WorkerFrameVars DEF SameFile
  <2>8. \A u \in Workers : u # w => SameWorker(u)
    BY <2>4, WorkerLocal DEF SameWorker
  <2> QED
    BY <2>5, <2>7, <2>8, FreshFrame
<1>3. CASE wkey[w] # f /\ wkey'[w] = f
  <2>1. Fetch(w)
    <3>1. \A u \in Workers : Drop(u) => wkey'[u] = NoFile
      BY <1>0 DEF Drop
    <3> QED
      BY <1>0, <1>3, <3>1 DEF WorkerMove, WorkerStep, ConnectionReset,
               LoadMetadata, CheckData, MarkBroken, BackupBegin,
         RdmaWrite, PersistOpen, PersistWrite, PersistFails, UpdateState, NotifyNext,
         DeleteEntry, Requeue, GetsStuck
  <2>2. PICK g \in Files :
          /\ work_queue[NodeOf[w]][g] > 0
          /\ work_queue' = [work_queue EXCEPT ![NodeOf[w]][g] = @ - 1]
          /\ wkey' = [wkey EXCEPT ![w] = g]
    BY <2>1 DEF Fetch
  <2>3. g = f
    BY <1>0, <1>3, <2>2
  <2>4. /\ wpc'[w] = "load"
        /\ UNCHANGED <<state, disk, dict, cache, backup_dict, backup, wdata>>
    BY <1>0, <2>1 DEF Fetch, WorkerGoes, rowVars, memVars
  <2>5. \A u \in Workers : u # w => SameWorker(u)
    BY <2>4, WorkerLocal DEF SameWorker
  <2>6. CASE NodeOf[w] # Owner[f]
    <3>1. work_queue'[Owner[f]][f] = work_queue[Owner[f]][f]
      BY <2>2, <2>6, NodeFacts DEF TypeInv, TypeOK
    <3>2. SameFile(f)
      BY <2>4, <3>1, WorkerFrameVars DEF SameFile
    <3> QED
      BY <2>4, <2>5, <2>6, <3>2, FreshFrame
  <2>7. CASE NodeOf[w] = Owner[f]
    <3>1. work_queue[Owner[f]][f] = 1 /\ \A u \in Workers : ~Holds(u, f)
      BY <2>2, <2>3, <2>7 DEF FreshInv, OneToken
    <3>2. work_queue'[Owner[f]][f] = 0
      BY <2>2, <2>3, <2>7, <3>1, NodeFacts DEF TypeInv, TypeOK
    <3>3. \A u \in Workers : Holds(u, f)' => u = w
      BY <2>5, <3>1 DEF SameWorker, Holds
    <3>4. OneToken(f)'
      BY <3>2, <3>3 DEF OneToken
    <3>5. UNCHANGED <<cpc, caddr, saves, acked>>
      BY WorkerFrameVars
    <3>6. ~NoToken(f)
      BY <3>1 DEF NoToken
    <3>7. ClientKnows(f)'
      BY <2>4, <3>5, <3>6 DEF FreshInv, ClientKnows
    <3>8. RowTrue(f)'
      BY <2>4 DEF FreshInv, RowTrue
    <3>9. \A u \in Workers : wkey'[u] = f => WorkerTrue(u, f)'
      <4>1. WorkerTrue(w, f)'
        BY <2>4, <2>7 DEF WorkerTrue, Copying
      <4>2. ASSUME NEW u \in Workers, u # w, wkey'[u] = f
            PROVE  WorkerTrue(u, f)'
        <5>1. NodeOf[u] # Owner[f] /\ wpc'[u] = "load"
          BY <2>5, <3>1, <4>2 DEF SameWorker, Holds, FreshInv, WorkerTrue
        <5> QED
          BY <5>1 DEF WorkerTrue, Copying
      <4> QED
        BY <4>1, <4>2
    <3> QED
      BY <3>4, <3>7, <3>8, <3>9 DEF FreshInv
  <2> QED
    BY <2>6, <2>7
<1> QED
  BY <1>1, <1>2, <1>3

LEMMA MarkedStep ==
  ASSUME TypeInv, MarkedFirst, [Next]_vars
  PROVE  MarkedFirst'
<1>1. ASSUME NEW f \in Files, HandlerStep(f) \/ ClientStep(f)
      PROVE  MarkedFirst'
  <2>0. /\ cpc \in [Files -> ClientPCs] /\ evictee \in [Nodes -> Files \cup {NoFile}]
        /\ Owner[f] \in Nodes
    BY NodeFacts DEF TypeInv, TypeOK, ClientTypeOK, EvictTypeOK
  <2>1. evicted \subseteq evicted'
    BY <1>1 DEF HandlerStep, ClientStep, AdmitIteration, EvictBatchLoad, EvictNext, EvictReload,
       EvictMark, EvictAdd, EvictDeleted, EvictDone, Alloc, SaveMeta, UpdateAdd, SaveBegin,
       WriteBegin, WriteEnd, ClientAbort, UpdateMetadata, EvictionFails, evictVars
  <2>2. \A g \in Files \ {f} : cpc'[g] = cpc[g]
    BY <1>1, <2>0 DEF HandlerStep, ClientStep, AdmitIteration, EvictBatchLoad, EvictNext, EvictReload,
       EvictMark, EvictAdd, EvictDeleted, EvictDone, Alloc, SaveMeta, UpdateAdd, SaveBegin,
       WriteBegin, WriteEnd, ClientAbort, UpdateMetadata, EvictionFails, ClientGoes
  <2>3. \/ UNCHANGED evictee
        \/ cpc[f] \in EvictPCs /\ \A n \in Nodes \ {Owner[f]} : evictee'[n] = evictee[n]
    BY <1>1, <2>0 DEF HandlerStep, ClientStep, AdmitIteration, EvictBatchLoad, EvictNext, EvictReload,
       EvictMark, EvictAdd, EvictDeleted, EvictDone, Alloc, SaveMeta, UpdateAdd, SaveBegin,
       WriteBegin, WriteEnd, ClientAbort, UpdateMetadata, EvictionFails, LeaveEviction, EvictPCs, evictVars
  <2>4. ASSUME NEW g \in Files \ {f}, cpc'[g] \in {"evict_add", "deleting"}
        PROVE  evictee'[Owner[g]] \in evicted'
    <3>1. cpc[g] \in EvictPCs /\ evictee[Owner[g]] \in evicted
      BY <2>2, <2>4 DEF MarkedFirst, EvictPCs
    <3>2. evictee'[Owner[g]] = evictee[Owner[g]]
      BY <2>3, <3>1, NodeFacts DEF TypeInv, HandlerShape
    <3> QED
      BY <2>1, <3>1, <3>2
  <2>5. ASSUME cpc'[f] \in {"evict_add", "deleting"}
        PROVE  evictee'[Owner[f]] \in evicted'
    <3>1. \/ EvictMark(f) /\ evictee[Owner[f]] \in evicted' /\ UNCHANGED evictee
          \/ EvictAdd(f)
      BY <1>1, <2>0, <2>5
      DEF HandlerStep, ClientStep, AdmitIteration, EvictBatchLoad, EvictNext, EvictReload,
       EvictMark, EvictDeleted, EvictDone, Alloc, SaveMeta, UpdateAdd, SaveBegin,
       WriteBegin, WriteEnd, ClientAbort, UpdateMetadata, EvictionFails, ClientGoes
    <3> QED
      BY <3>1 DEF EvictAdd, MarkedFirst, evictVars
  <2> QED
    BY <2>4, <2>5 DEF MarkedFirst
<1>2. ASSUME NEW w \in Workers, WorkerMove(w)
      PROVE  MarkedFirst'
  BY <1>2, WorkerFrameVars DEF MarkedFirst
<1>3. CASE UNCHANGED nodeVars
  BY <1>3 DEF nodeVars, MarkedFirst
<1> QED
  BY <1>1, <1>2, <1>3, Steps

(* The history only grows: what is fresh after a step was fresh before it. *)
LEMMA FreshBefore ==
  ASSUME TypeInv, [Next]_vars, NEW f \in Files, Fresh(f)'
  PROVE  Fresh(f)
<1>1. saves \in [Files -> Nat]
  BY DEF TypeInv, TypeOK, ClientTypeOK
<1>2. evicted \subseteq evicted' /\ (UNCHANGED saves \/ \E g \in Files : SaveBegin(g))
  <2>1. ASSUME NEW g \in Files, HandlerStep(g)
        PROVE  evicted \subseteq evicted' /\ UNCHANGED saves
    BY <2>1 DEF HandlerStep, AdmitIteration, EvictBatchLoad, EvictNext, EvictReload, EvictMark,
       EvictAdd, EvictDeleted, EvictDone, Alloc, SaveMeta, UpdateAdd, EvictionFails, evictVars,
       clientVars
  <2>2. ASSUME NEW g \in Files, ClientStep(g)
        PROVE  UNCHANGED evicted /\ (UNCHANGED saves \/ SaveBegin(g))
    BY <2>2 DEF ClientStep, SaveBegin, WriteBegin, WriteEnd, ClientAbort, UpdateMetadata, evictVars
  <2>3. CASE UNCHANGED nodeVars
    BY <2>3 DEF nodeVars
  <2> QED
    BY <2>1, <2>2, <2>3, WorkerFrameVars, Steps
<1>3. saves[f] <= saves'[f] /\ saves'[f] \in Nat
  <2>1. CASE UNCHANGED saves
    BY <1>1, <2>1
  <2>2. ASSUME NEW g \in Files, SaveBegin(g)
        PROVE  saves[f] <= saves'[f] /\ saves'[f] \in Nat
    BY <1>1, <2>2 DEF SaveBegin
  <2> QED
    BY <1>2, <2>1, <2>2
<1> QED
  BY <1>1, <1>2, <1>3 DEF Fresh

LEMMA OnceInit == Init => OnceInv
<1> SUFFICES ASSUME Init PROVE OnceInv
  OBVIOUS
<1>1. MarkedFirst
  BY DEF Init, MarkedFirst
<1>2. ASSUME NEW f \in Files
      PROVE  FreshInv(f)
  <2>0. NONE \notin SavedStates /\ Owner[f] \in Nodes /\ NoFile # f
    BY NodeFacts, ConstantsAssumption DEF NONE, SavedStates
  <2>1. \A w \in Workers : wkey[w] # f
    BY <2>0 DEF Init
  <2>2. OneToken(f) /\ NoToken(f)
    BY <2>0, <2>1 DEF Init, OneToken, NoToken, Holds
  <2>3. ClientKnows(f)
    BY <2>0, <2>2 DEF Init, ClientKnows, EvictPCs
  <2>4. RowTrue(f)
    BY <2>0 DEF Init, RowTrue, NONE
  <2> QED
    BY <2>1, <2>2, <2>3, <2>4 DEF FreshInv
<1> QED
  BY <1>1, <1>2 DEF OnceInv

LEMMA OnceStep ==
  ASSUME TypeInv, OnceInv, [Next]_vars
  PROVE  OnceInv'
<1>1. MarkedFirst'
  BY MarkedStep DEF OnceInv
<1>2. ASSUME NEW f \in Files, Fresh(f)'
      PROVE  FreshInv(f)'
  <2>1. FreshInv(f) /\ f \notin evicted'
    BY <1>2, FreshBefore DEF OnceInv, Fresh
  <2>2. ASSUME NEW g \in Files, HandlerStep(g) \/ ClientStep(g)
        PROVE  FreshInv(f)'
    <3>1. CASE g = f
      BY <1>2, <2>1, <2>2, <3>1, OwnClientFresh DEF OnceInv
    <3>2. CASE g # f
      BY <2>1, <2>2, <3>2, ClientLocal, FreshFrame DEF OnceInv
    <3> QED
      BY <3>1, <3>2
  <2>3. ASSUME NEW w \in Workers, WorkerMove(w)
        PROVE  FreshInv(f)'
    BY <2>1, <2>3, OwnerFresh, OtherFresh
  <2>4. CASE UNCHANGED nodeVars
    BY <2>1, <2>4, FreshFrame DEF nodeVars, SameFile, SameWorker
  <2> QED
    BY <2>2, <2>3, <2>4, Steps
<1> QED
  BY <1>1, <1>2 DEF OnceInv

LEMMA OnceInvariance == Spec => []OnceInv
  BY OnceInit, OnceStep, TypeInvariance, PTL DEF Spec

(* The row of a file saved once tells the truth until the file is evicted, *)
(* whatever fails and however handlers and workers interleave: its node    *)
(* has one key for it, so one worker at a time copies it, and one that is  *)
(* stuck keeps the key. An exited node holds nothing.                      *)
THEOREM OnceDurableCorrect == Spec => []OnceDurable
<1>1. OnceInv => OnceDurable
  <2> SUFFICES ASSUME OnceInv, NEW f \in Files, Fresh(f)
               PROVE  /\ state[f] # "BROKEN"
                      /\ state[f] \in {"CACHED", "BACKED_UP", "PERSISTENT"} =>
                           dict[f] # 0 /\ cache[f] = 1
                      /\ state[f] = "BACKED_UP" \/ (state[f] = "PERSISTENT" /\ WorldSize > 1) =>
                           backup_dict[f] # 0 /\ backup[f] = 1
                      /\ state[f] = "PERSISTENT" => disk[f] = 1
    BY DEF OnceDurable, Fresh
  <2> QED
    BY DEF OnceInv, FreshInv, RowTrue, SavedStates, NONE
<1> QED
  BY <1>1, OnceInvariance, PTL

-----------------------------------------------------------------------------
(* Evictions while the ranks save in lock step.                            *)

(* A handler or client changes its own variables, the eviction variables   *)
(* of its node while it holds the lock, and the row it marks.              *)
LEMMA ClientOwnVars ==
  ASSUME TypeInv, NEW g \in Files, HandlerStep(g) \/ ClientStep(g)
  PROVE  /\ UNCHANGED <<wpc, wkey, wsnap, waddr, wraddr, wdata, disk>>
         /\ \A h \in Files \ {g} :
              /\ cpc'[h] = cpc[h] /\ citer'[h] = citer[h] /\ saves'[h] = saves[h]
              /\ acked'[h] = acked[h] /\ iteration'[h] = iteration[h]
         /\ SaveBegin(g) \/ (UNCHANGED <<citer, saves>> /\ cpc[g] # "idle")
         /\ UNCHANGED <<vec, evictee>> \/ cpc[g] \in EvictPCs
         /\ \A n \in Nodes \ {Owner[g]} : vec'[n] = vec[n] /\ evictee'[n] = evictee[n]
<1>0. /\ cpc \in [Files -> ClientPCs] /\ citer \in [Files -> Nat \cup {Unknown}]
      /\ saves \in [Files -> Nat] /\ acked \in [Files -> BOOLEAN]
      /\ iteration \in [Files -> Nat \cup {Unknown}]
      /\ vec \in [Nodes -> [Files -> CheckpointState \cup {NONE}]]
      /\ evictee \in [Nodes -> Files \cup {NoFile}] /\ Owner[g] \in Nodes
  BY NodeFacts DEF TypeInv, TypeOK, ClientTypeOK, RowTypeOK, EvictTypeOK
<1>1. UNCHANGED <<wpc, wkey, wsnap, waddr, wraddr, wdata, disk>>
  BY DEF HandlerStep, ClientStep, AdmitIteration, EvictBatchLoad, EvictNext, EvictReload,
     EvictMark, EvictAdd, EvictDeleted, EvictDone, Alloc, SaveMeta, UpdateAdd, SaveBegin,
     WriteBegin, WriteEnd, ClientAbort, UpdateMetadata, workerVars
<1>2. \A h \in Files \ {g} : cpc'[h] = cpc[h]
  BY <1>0 DEF HandlerStep, ClientStep, AdmitIteration, EvictBatchLoad, EvictNext, EvictReload,
     EvictMark, EvictAdd, EvictDeleted, EvictDone, Alloc, SaveMeta, UpdateAdd, SaveBegin,
     WriteBegin, WriteEnd, ClientAbort, UpdateMetadata, EvictionFails, ClientGoes
<1>3. \A h \in Files \ {g} :
        /\ citer'[h] = citer[h] /\ saves'[h] = saves[h]
        /\ acked'[h] = acked[h] /\ iteration'[h] = iteration[h]
  BY <1>0 DEF HandlerStep, ClientStep, AdmitIteration, EvictBatchLoad, EvictNext, EvictReload,
     EvictMark, EvictAdd, EvictDeleted, EvictDone, Alloc, SaveMeta, UpdateAdd, SaveBegin,
     WriteBegin, WriteEnd, ClientAbort, UpdateMetadata, rowVars
<1>4. SaveBegin(g) \/ (UNCHANGED <<citer, saves>> /\ cpc[g] # "idle")
  BY DEF HandlerStep, ClientStep, AdmitIteration, EvictBatchLoad, EvictNext, EvictReload,
     EvictMark, EvictAdd, EvictDeleted, EvictDone, Alloc, SaveMeta, UpdateAdd,
     WriteBegin, WriteEnd, ClientAbort, UpdateMetadata
<1>5. UNCHANGED <<vec, evictee>> \/ cpc[g] \in EvictPCs
  BY DEF HandlerStep, ClientStep, AdmitIteration, EvictBatchLoad, EvictNext, EvictReload,
     EvictMark, EvictAdd, EvictDeleted, EvictDone, Alloc, SaveMeta, UpdateAdd, SaveBegin,
     WriteBegin, WriteEnd, ClientAbort, UpdateMetadata, EvictPCs, evictVars
<1>6. \A n \in Nodes \ {Owner[g]} : vec'[n] = vec[n] /\ evictee'[n] = evictee[n]
  BY <1>0 DEF HandlerStep, ClientStep, AdmitIteration, EvictBatchLoad, EvictNext, EvictReload,
     EvictMark, EvictAdd, EvictDeleted, EvictDone, Alloc, SaveMeta, UpdateAdd, SaveBegin,
     WriteBegin, WriteEnd, ClientAbort, UpdateMetadata, EvictionFails, LeaveEviction, evictVars
<1> QED
  BY <1>1, <1>2, <1>3, <1>4, <1>5, <1>6

(* Of the rows, a handler or client writes its own or the one it evicts.   *)
LEMMA ClientRows ==
  ASSUME TypeInv, NEW g \in Files, HandlerStep(g) \/ ClientStep(g),
         NEW f \in Files, state'[f] # state[f]
  PROVE  \/ f = g /\ SaveMeta(g) /\ state'[f] = "PENDING"
         \/ f = g /\ UpdateMetadata(g) /\ state'[f] = "CACHED"
         \/ /\ EvictMark(g) /\ f = evictee[Owner[g]] /\ ~MustWait(vec[Owner[g]][f])
            /\ state'[f] = "OBSOLESCENT" /\ f \in evicted'
<1>0. state \in [Files -> CheckpointState \cup {NONE}]
  BY DEF TypeInv, TypeOK, RowTypeOK
<1>1. SaveMeta(g) \/ UpdateMetadata(g) \/ EvictMark(g)
  BY DEF HandlerStep, ClientStep, AdmitIteration, EvictBatchLoad, EvictNext, EvictReload,
     EvictAdd, EvictDeleted, EvictDone, Alloc, UpdateAdd, SaveBegin,
     WriteBegin, WriteEnd, ClientAbort, rowVars
<1>2. CASE SaveMeta(g)
  BY <1>0, <1>2 DEF SaveMeta, rowVars
<1>3. CASE UpdateMetadata(g)
  BY <1>0, <1>3 DEF UpdateMetadata
<1>4. CASE EvictMark(g)
  BY <1>0, <1>4 DEF EvictMark
<1> QED
  BY <1>1, <1>2, <1>3, <1>4

(* Of the rows, a worker writes the one whose key it has.                  *)
LEMMA WorkerRows ==
  ASSUME TypeInv, NEW w \in Workers, WorkerMove(w), NEW f \in Files, state'[f] # state[f]
  PROVE  /\ wkey[w] = f
         /\ \/ wpc[w] = "break" /\ state'[f] = "BROKEN"
            \/ wpc[w] = "update_state" /\ state'[f] = Promoted(wsnap[w])
<1>0. state \in [Files -> CheckpointState \cup {NONE}]
  BY DEF TypeInv, TypeOK, RowTypeOK
<1>1. MarkBroken(w) \/ UpdateState(w)
  BY DEF WorkerMove, WorkerStep, ConnectionReset, Fetch, LoadMetadata, CheckData, BackupBegin,
         RdmaWrite, PersistOpen, PersistWrite, NotifyNext, DeleteEntry, rowVars
<1> QED
  BY <1>0, <1>1 DEF MarkBroken, UpdateState

(* Rows are never deleted.                                                 *)
LEMMA RowStays ==
  ASSUME TypeInv, [Next]_vars, NEW f \in Files, state[f] # NONE
  PROVE  state'[f] # NONE
<1>1. NONE \notin {"PENDING", "CACHED", "OBSOLESCENT", "BROKEN", "BACKED_UP", "PERSISTENT"}
  BY DEF NONE
<1>2. \A s : Promoted(s) \in {"BACKED_UP", "PERSISTENT"}
  BY DEF Promoted
<1>3. ASSUME state'[f] # state[f] PROVE state'[f] # NONE
  BY <1>1, <1>2, <1>3, ClientRows, WorkerRows, Steps DEF nodeVars
<1> QED
  BY <1>3

(* While one handler evicts, the others leave its rows alone.              *)
LEMMA OtherEviction ==
  ASSUME TypeInv, NEW g \in Files, HandlerStep(g) \/ ClientStep(g),
         NEW h \in Files \ {g}, cpc[h] \in EvictPCs
  PROVE  vec'[Owner[h]] = vec[Owner[h]] /\ evictee'[Owner[h]] = evictee[Owner[h]]
<1>1. cpc[g] \in EvictPCs => Owner[h] # Owner[g]
  BY DEF TypeInv, HandlerShape
<1> QED
  BY <1>1, ClientOwnVars, NodeFacts

LEMMA OneIterationStep ==
  ASSUME TypeInv, LockStep, OneIteration, [Next]_vars
  PROVE  OneIteration'
<1>1. ASSUME NEW g \in Files, SaveBegin(g)
      PROVE  OneIteration'
  <2>1. PICK i \in Iters[g] : /\ \A h \in Files : cpc[h] = "idle" \/ citer[h] = i
                              /\ citer' = [citer EXCEPT ![g] = i]
    BY <1>1 DEF SaveBegin
  <2>2. \A h \in Files : cpc'[h] # "idle" => citer'[h] = i
    BY <1>1, <2>1 DEF SaveBegin, ClientGoes, TypeInv, TypeOK, ClientTypeOK
  <2> QED
    BY <2>2 DEF OneIteration
<1>2. ASSUME NEW g \in Files, HandlerStep(g) \/ ClientStep(g), ~SaveBegin(g)
      PROVE  OneIteration'
  <2>1. UNCHANGED citer /\ \A h \in Files : cpc'[h] # "idle" => cpc[h] # "idle"
    BY <1>2, ClientOwnVars
  <2> QED
    BY <2>1 DEF OneIteration
<1>3. ASSUME NEW w \in Workers, WorkerMove(w)
      PROVE  OneIteration'
  BY <1>3, WorkerFrameVars DEF OneIteration
<1>4. CASE UNCHANGED nodeVars
  BY <1>4 DEF nodeVars, OneIteration
<1> QED
  BY <1>1, <1>2, <1>3, <1>4, Steps

(* A row belongs to a save.                                                *)
LEMMA RowWasSaved ==
  ASSUME TypeInv, OnceInv, LockStepInv, NEW f \in Files, state[f] # NONE
  PROVE  saves[f] # 0
<1> SUFFICES ASSUME saves[f] = 0 PROVE FALSE
  OBVIOUS
<1>1. CASE f \in evicted
  BY <1>1 DEF LockStepInv, EvictedInv
<1>2. CASE f \notin evicted
  BY <1>2 DEF OnceInv, Fresh, FreshInv, ClientKnows
<1> QED
  BY <1>1, <1>2

(* Nobody is saving what an eviction has in hand.                          *)
LEMMA EvicteeIdle ==
  ASSUME LockStepInv, NEW g \in Files, cpc[g] \in EvictPCs \ {"batch"},
         NEW e \in Files, vec[Owner[g]][e] # NONE, saves[e] <= 1
  PROVE  cpc[e] = "idle" /\ state[e] # NONE
<1>1. cpc[g] # "idle" /\ citer[e] # citer[g] /\ state[e] # NONE
  BY DEF LockStepInv, EvictsOthers, EvictPCs
<1> QED
  BY <1>1 DEF LockStepInv, OneIteration

LEMMA RowIterationStep ==
  ASSUME TypeInv, OnceInv, LockStepInv, [Next]_vars
  PROVE  RowIteration'
<1> SUFFICES ASSUME NEW f \in Files, state'[f] # NONE, saves'[f] <= 1
             PROVE  iteration'[f] = citer'[f]
  BY DEF RowIteration
<1>0. saves[f] \in Nat /\ iteration \in [Files -> Nat \cup {Unknown}]
  BY DEF TypeInv, TypeOK, ClientTypeOK, RowTypeOK
<1>1. ASSUME NEW w \in Workers, WorkerMove(w)
      PROVE  iteration'[f] = citer'[f]
  <2>1. UNCHANGED <<iteration, citer, saves>>
    BY <1>1, WorkerFrameVars
  <2>2. state[f] # NONE
    <3> SUFFICES ASSUME state[f] = NONE PROVE FALSE
      OBVIOUS
    <3>1. wkey[w] = f /\ wpc[w] \in {"break", "update_state"}
      BY <1>1, WorkerRows
    <3>2. f \notin evicted
      BY <2>1 DEF LockStepInv, EvictedInv, NONE
    <3>3. WorkerTrue(w, f)
      BY <2>1, <3>1, <3>2 DEF OnceInv, Fresh, FreshInv
    <3> QED
      BY <3>1, <3>3 DEF WorkerTrue, Copying, NONE
  <2> QED
    BY <2>1, <2>2 DEF LockStepInv, RowIteration
<1>2. ASSUME NEW g \in Files, HandlerStep(g) \/ ClientStep(g)
      PROVE  iteration'[f] = citer'[f]
  <2>1. CASE SaveBegin(g)
    <3>1. UNCHANGED <<state, iteration>>
      BY <2>1 DEF SaveBegin, rowVars
    <3>2. f # g
      <4> SUFFICES ASSUME f = g PROVE FALSE
        OBVIOUS
      <4>1. saves'[f] = saves[f] + 1
        BY <2>1 DEF SaveBegin, TypeInv, TypeOK, ClientTypeOK
      <4> QED
        BY <1>0, <3>1, <4>1, RowWasSaved
    <3> QED
      BY <1>2, <3>1, <3>2, ClientOwnVars DEF LockStepInv, RowIteration
  <2>2. CASE SaveMeta(g) /\ f = g
    <3>1. \/ iteration' = [iteration EXCEPT ![g] = citer[g]] /\ UNCHANGED citer
          \/ UNCHANGED <<state, iteration, citer, saves>>
      BY <2>2 DEF SaveMeta, rowVars
    <3> QED
      BY <1>0, <2>2, <3>1 DEF LockStepInv, RowIteration
  <2>3. CASE ~SaveBegin(g) /\ ~(SaveMeta(g) /\ f = g)
    <3>1. UNCHANGED <<citer, saves>>
      BY <1>2, <2>3, ClientOwnVars
    <3>2. iteration'[f] = iteration[f]
      BY <1>0, <1>2, <2>3
      DEF HandlerStep, ClientStep, AdmitIteration, EvictBatchLoad, EvictNext, EvictReload,
          EvictMark, EvictAdd, EvictDeleted, EvictDone, Alloc, SaveMeta, UpdateAdd,
          WriteBegin, WriteEnd, ClientAbort, UpdateMetadata, rowVars
    <3>3. state[f] # NONE
      <4>1. CASE state'[f] = state[f]
        BY <4>1
      <4>2. CASE state'[f] # state[f] /\ f = g /\ UpdateMetadata(g)
        <5>1. cpc[f] = "update"
          BY <4>2 DEF UpdateMetadata
        <5>2. f \notin evicted
          BY <3>1, <5>1 DEF LockStepInv, EvictedInv
        <5> QED
          BY <3>1, <5>1, <5>2 DEF OnceInv, Fresh, FreshInv, ClientKnows, NONE
      <4>3. CASE EvictMark(g) /\ f = evictee[Owner[g]]
        <5>1. cpc[g] = "wait"
          BY <4>3 DEF EvictMark
        <5> QED
          BY <4>3, <5>1 DEF LockStepInv, EvictsOthers, EvictPCs, RowPCs
      <4> QED
        BY <1>2, <2>3, <4>1, <4>2, <4>3, ClientRows
    <3> QED
      BY <3>1, <3>2, <3>3 DEF LockStepInv, RowIteration
  <2> QED
    BY <2>1, <2>2, <2>3
<1>3. CASE UNCHANGED nodeVars
  BY <1>3 DEF nodeVars, LockStepInv, RowIteration
<1> QED
  BY <1>1, <1>2, <1>3, Steps

(* What a step of an evicting handler does to the rows it has loaded.      *)
LEMMA OwnEviction ==
  ASSUME TypeInv, NEW g \in Files, HandlerStep(g) \/ ClientStep(g),
         cpc'[g] \in EvictPCs \ {"batch"}
  PROVE  \/ /\ EvictBatchLoad(g) /\ cpc[g] = "batch" /\ cpc'[g] = "evict"
            /\ \A e \in Files :
                 vec'[Owner[g]][e] = IF e \in RowsOf(Owner[g], OldestIteration(Owner[g]))
                                     THEN state[e] ELSE NONE
         \/ /\ EvictNext(g) /\ cpc[g] = "evict" /\ UNCHANGED vec
            /\ vec[Owner[g]][evictee'[Owner[g]]] # NONE
         \/ /\ EvictReload(g) /\ cpc[g] = "wait" /\ UNCHANGED evictee
            /\ \A e \in Files : vec'[Owner[g]][e] =
                 IF e = evictee[Owner[g]] THEN state[e] ELSE vec[Owner[g]][e]
         \/ /\ EvictMark(g) \/ EvictAdd(g)
            /\ cpc[g] \in RowPCs /\ UNCHANGED <<vec, evictee>>
         \/ /\ EvictDeleted(g) /\ cpc[g] = "deleting" /\ cpc'[g] = "evict"
            /\ \A e \in Files : vec'[Owner[g]][e] \in {NONE, vec[Owner[g]][e]}
<1>0. /\ cpc \in [Files -> ClientPCs] /\ Owner[g] \in Nodes
      /\ vec \in [Nodes -> [Files -> CheckpointState \cup {NONE}]]
      /\ evictee \in [Nodes -> Files \cup {NoFile}]
  BY NodeFacts DEF TypeInv, TypeOK, ClientTypeOK, EvictTypeOK
<1>1. \/ EvictBatchLoad(g) \/ EvictNext(g) \/ EvictReload(g) \/ EvictMark(g)
      \/ EvictAdd(g) \/ EvictDeleted(g)
  BY <1>0 DEF HandlerStep, ClientStep, AdmitIteration, EvictDone, Alloc, SaveMeta, UpdateAdd,
     SaveBegin, WriteBegin, WriteEnd, ClientAbort, UpdateMetadata, ClientGoes, EvictPCs
<1>2. ~EvictionFails(g)
  BY <1>0 DEF EvictionFails, ClientGoes, EvictPCs
<1>3. CASE EvictBatchLoad(g)
  BY <1>0, <1>2, <1>3 DEF EvictBatchLoad, ClientGoes
<1>4. CASE EvictNext(g)
  BY <1>0, <1>4 DEF EvictNext
<1>5. CASE EvictReload(g)
  BY <1>0, <1>2, <1>5 DEF EvictReload
<1>6. CASE EvictMark(g) \/ EvictAdd(g)
  BY <1>0, <1>2, <1>6 DEF EvictMark, EvictAdd, RowPCs, evictVars
<1>7. CASE EvictDeleted(g)
  BY <1>0, <1>7 DEF EvictDeleted, ClientGoes
<1> QED
  BY <1>1, <1>3, <1>4, <1>5, <1>6, <1>7

LEMMA EvictsOthersStep ==
  ASSUME TypeInv, WindowInv, OnceInv, LockStepInv, [Next]_vars
  PROVE  EvictsOthers'
<1> SUFFICES ASSUME NEW h \in Files, NEW e \in Files
             PROVE  LET n == Owner[h] IN
                    /\ cpc'[h] \in EvictPCs \ {"batch"} /\ vec'[n][e] # NONE =>
                         /\ state'[e] # NONE
                         /\ saves'[e] <= 1 => citer'[e] # citer'[h]
                    /\ cpc'[h] \in RowPCs => vec'[n][evictee'[n]] # NONE
  BY DEF EvictsOthers
<1> DEFINE n == Owner[h]
<1>0. RowPCs \subseteq EvictPCs \ {"batch"}
  BY DEF RowPCs, EvictPCs
<1>1. CASE UNCHANGED <<cpc, vec, evictee, citer, saves>>
  BY <1>1, RowStays DEF LockStepInv, EvictsOthers
<1>2. ASSUME NEW w \in Workers, WorkerMove(w)
      PROVE  UNCHANGED <<cpc, vec, evictee, citer, saves>>
  BY <1>2, WorkerFrameVars
<1>3. ASSUME NEW g \in Files, HandlerStep(g) \/ ClientStep(g), h # g
      PROVE  /\ cpc'[h] \in EvictPCs \ {"batch"} /\ vec'[n][e] # NONE =>
                  /\ state'[e] # NONE
                  /\ saves'[e] <= 1 => citer'[e] # citer'[h]
             /\ cpc'[h] \in RowPCs => vec'[n][evictee'[n]] # NONE
  <2>1. cpc'[h] = cpc[h] /\ citer'[h] = citer[h]
    BY <1>3, ClientOwnVars
  <2>2. cpc'[h] \in EvictPCs => vec'[n] = vec[n] /\ evictee'[n] = evictee[n]
    BY <1>3, <2>1, OtherEviction
  <2>3. cpc'[h] \in RowPCs => vec'[n][evictee'[n]] # NONE
    BY <1>0, <2>1, <2>2 DEF LockStepInv, EvictsOthers
  <2>4. ASSUME cpc'[h] \in EvictPCs \ {"batch"}, vec'[n][e] # NONE
        PROVE  state'[e] # NONE /\ (saves'[e] <= 1 => citer'[e] # citer'[h])
    <3>1. state[e] # NONE /\ (saves[e] <= 1 => citer[e] # citer[h])
      BY <2>1, <2>2, <2>4 DEF LockStepInv, EvictsOthers
    <3>2. CASE SaveBegin(g) /\ e = g
      <4>1. saves'[e] = saves[e] + 1 /\ saves[e] \in Nat
        BY <3>2 DEF SaveBegin, TypeInv, TypeOK, ClientTypeOK
      <4>2. ~(saves'[e] <= 1)
        BY <3>1, <4>1, RowWasSaved
      <4> QED
        BY <3>1, <4>2, RowStays
    <3>3. CASE ~SaveBegin(g) \/ e # g
      <4>1. saves'[e] = saves[e] /\ citer'[e] = citer[e]
        BY <1>3, <3>3, ClientOwnVars
      <4> QED
        BY <2>1, <3>1, <4>1, RowStays
    <3> QED
      BY <3>2, <3>3
  <2> QED
    BY <2>3, <2>4
<1>4. ASSUME HandlerStep(h) \/ ClientStep(h), cpc'[h] \in EvictPCs \ {"batch"}
      PROVE  /\ vec'[n][e] # NONE =>
                  /\ state'[e] # NONE
                  /\ saves'[e] <= 1 => citer'[e] # citer'[h]
             /\ cpc'[h] \in RowPCs => vec'[n][evictee'[n]] # NONE
  <2>0. UNCHANGED <<citer, saves>>
    BY <1>4, OwnEviction, ClientOwnVars
    DEF SaveBegin, EvictBatchLoad, EvictNext, EvictReload, EvictMark, EvictAdd, EvictDeleted
  <2>1. CASE /\ cpc[h] = "batch" /\ cpc'[h] = "evict"
             /\ \A d \in Files : vec'[n][d] =
                  IF d \in RowsOf(n, OldestIteration(n)) THEN state[d] ELSE NONE
    <3>1. cpc'[h] \notin RowPCs
      BY <2>1 DEF RowPCs
    <3>2. ASSUME vec'[n][e] # NONE
          PROVE  state[e] # NONE /\ (saves[e] <= 1 => citer[e] # citer[h])
      <4>1. state[e] # NONE /\ iteration[e] = OldestIteration(n)
        BY <2>1, <3>2 DEF RowsOf
      <4>2. iteration[e] \in Nat \cup {Unknown} /\ q_[n] \in Seq(Nat \cup {Unknown})
        BY NodeFacts DEF TypeInv, TypeOK, RowTypeOK, EvictTypeOK
      <4>3. q_[n] # <<>> /\ iteration[e] = Head(q_[n])
        BY <4>1, <4>2 DEF OldestIteration, NoIteration, Unknown
      <4>4. 1 \in 1 .. Len(q_[n]) /\ Head(q_[n]) = q_[n][1]
        BY <4>2, <4>3
      <4>5. iteration[e] # citer[h]
        BY <2>1, <4>3, <4>4 DEF WindowInv, Absent, EvictPCs
      <4> QED
        BY <4>1, <4>5 DEF LockStepInv, RowIteration
    <3> QED
      BY <2>0, <3>1, <3>2, RowStays
  <2>2. CASE cpc[h] \in EvictPCs \ {"batch"}
    <3>1. vec'[n][e] # NONE => vec[n][e] # NONE
      <4>1. cpc[h] = "wait" => vec[n][evictee[n]] # NONE
        BY <2>2 DEF LockStepInv, EvictsOthers, RowPCs
      <4> QED
        BY <1>4, <2>2, <4>1, OwnEviction
    <3>2. vec'[n][e] # NONE =>
            /\ state'[e] # NONE
            /\ saves'[e] <= 1 => citer'[e] # citer'[h]
      BY <2>0, <2>2, <3>1, RowStays DEF LockStepInv, EvictsOthers
    <3>3. cpc'[h] \in RowPCs => vec'[n][evictee'[n]] # NONE
      <4>1. CASE cpc[h] \in RowPCs /\ UNCHANGED <<vec, evictee>>
        BY <4>1 DEF LockStepInv, EvictsOthers
      <4>2. CASE UNCHANGED vec /\ vec[n][evictee'[n]] # NONE
        BY <4>2
      <4>3. CASE /\ cpc[h] = "wait" /\ UNCHANGED evictee
                 /\ \A d \in Files : vec'[n][d] =
                      IF d = evictee[n] THEN state[d] ELSE vec[n][d]
        <5>1. evictee[n] \in Files /\ vec[n][evictee[n]] # NONE
          BY <4>3 DEF TypeInv, HandlerShape, LockStepInv, EvictsOthers, RowPCs
        <5>2. state[evictee[n]] # NONE
          BY <2>2, <5>1 DEF LockStepInv, EvictsOthers
        <5> QED
          BY <4>3, <5>1, <5>2
      <4>4. CASE cpc'[h] = "evict"
        BY <4>4 DEF RowPCs
      <4> QED
        BY <1>4, <2>2, <4>1, <4>2, <4>3, <4>4, OwnEviction
    <3> QED
      BY <3>2, <3>3
  <2> QED
    BY <1>4, <2>1, <2>2, OwnEviction DEF EvictPCs, RowPCs
<1>5. CASE UNCHANGED nodeVars
  BY <1>1, <1>5 DEF nodeVars
<1> QED
  BY <1>0, <1>1, <1>2, <1>3, <1>4, <1>5, Steps

(* Workers move the row of a file saved once towards the disk.             *)
LEMMA FreshRow ==
  ASSUME TypeInv, NEW f \in Files, FreshInv(f), NEW w \in Workers, WorkerMove(w),
         state'[f] # state[f]
  PROVE  \/ state[f] = "CACHED" /\ state'[f] = "BACKED_UP"
         \/ /\ state[f] \in {"CACHED", "BACKED_UP"} /\ state'[f] = "PERSISTENT"
            /\ state[f] = "CACHED" => ~(WorldSize > 1)
<1>1. wkey[w] = f /\ wpc[w] \in {"break", "update_state"} /\ WorkerTrue(w, f)
  BY WorkerRows DEF FreshInv
<1>2. wpc[w] = "update_state" /\ wsnap[w] = state[f]
  BY <1>1 DEF WorkerTrue, Copying
<1>3. state'[f] = Promoted(state[f])
  BY <1>2, WorkerRows
<1> QED
  BY <1>1, <1>2, <1>3 DEF Promoted, WorkerTrue

LEMMA VecTrueStep ==
  ASSUME TypeInv, OnceInv, LockStepInv, [Next]_vars
  PROVE  VecTrue'
<1> SUFFICES ASSUME NEW g \in Files, NEW e \in Files,
                    cpc'[g] \in EvictPCs \ {"batch"}, Fresh(e)'
             PROVE  LET s == vec'[Owner[g]][e] IN
                    /\ s = "PENDING" => state'[e] = "PENDING"
                    /\ s = "BACKED_UP" => state'[e] \in {"BACKED_UP", "PERSISTENT"}
                    /\ s = "PERSISTENT" => state'[e] = "PERSISTENT"
                    /\ s \notin {"OBSOLESCENT", "BROKEN"}
  BY DEF VecTrue
<1> DEFINE s == vec[Owner[g]][e]
           t == vec'[Owner[g]][e]
<1>0. Fresh(e) /\ FreshInv(e) /\ saves[e] <= 1
  BY FreshBefore DEF OnceInv, Fresh
<1>1. state[e] \notin {"OBSOLESCENT", "BROKEN"}
  BY <1>0 DEF FreshInv, RowTrue, SavedStates, NONE
<1>2. NONE \notin {"PENDING", "BACKED_UP", "PERSISTENT", "OBSOLESCENT", "BROKEN"}
  BY DEF NONE
<1>3. cpc[g] \in EvictPCs \ {"batch"} =>
        /\ s = "PENDING" => state[e] = "PENDING"
        /\ s = "BACKED_UP" => state[e] \in {"BACKED_UP", "PERSISTENT"}
        /\ s = "PERSISTENT" => state[e] = "PERSISTENT"
        /\ s \notin {"OBSOLESCENT", "BROKEN"}
  BY <1>0 DEF LockStepInv, VecTrue
<1>4. CASE cpc[g] \in EvictPCs \ {"batch"} /\ t = s /\ state'[e] = state[e]
  BY <1>3, <1>4
<1>5. ASSUME NEW w \in Workers, WorkerMove(w)
      PROVE  /\ t = "PENDING" => state'[e] = "PENDING"
             /\ t = "BACKED_UP" => state'[e] \in {"BACKED_UP", "PERSISTENT"}
             /\ t = "PERSISTENT" => state'[e] = "PERSISTENT"
             /\ t \notin {"OBSOLESCENT", "BROKEN"}
  <2>1. cpc' = cpc /\ t = s
    BY <1>5, WorkerFrameVars
  <2>2. CASE state'[e] # state[e]
    BY <1>0, <1>3, <1>5, <2>1, <2>2, FreshRow
  <2> QED
    BY <1>3, <2>1, <2>2
<1>6. ASSUME NEW h \in Files, HandlerStep(h) \/ ClientStep(h)
      PROVE  /\ t = "PENDING" => state'[e] = "PENDING"
             /\ t = "BACKED_UP" => state'[e] \in {"BACKED_UP", "PERSISTENT"}
             /\ t = "PERSISTENT" => state'[e] = "PERSISTENT"
             /\ t \notin {"OBSOLESCENT", "BROKEN"}
  <2>1. CASE h # g
    <3>1. cpc[g] \in EvictPCs \ {"batch"} /\ t = s
      BY <1>6, <2>1, ClientOwnVars, OtherEviction
    <3>2. CASE state'[e] # state[e]
      <4>1. h = e /\ cpc[e] \in {"save_meta", "update"}
        BY <1>6, <3>2, ClientRows DEF Fresh, SaveMeta, UpdateMetadata
      <4>2. s = NONE
        BY <1>0, <3>1, <4>1, EvicteeIdle
      <4> QED
        BY <1>2, <3>1, <4>2
    <3> QED
      BY <1>4, <3>1, <3>2
  <2>2. CASE h = g
    <3>1. state'[e] = state[e]
      <4> SUFFICES ASSUME state'[e] # state[e] PROVE FALSE
        OBVIOUS
      <4>1. SaveMeta(g) \/ UpdateMetadata(g)
        BY <1>6, <2>2, ClientRows DEF Fresh
      <4> QED
        BY <1>6, <2>2, <4>1, OwnEviction
        DEF SaveMeta, UpdateMetadata, RowPCs
    <3>2. \/ t \in {NONE, state[e]}
          \/ cpc[g] \in EvictPCs \ {"batch"} /\ t = s
      BY <1>6, <2>2, OwnEviction DEF EvictPCs, RowPCs
    <3> QED
      BY <1>1, <1>2, <1>4, <3>1, <3>2
  <2> QED
    BY <2>1, <2>2
<1>7. CASE UNCHANGED nodeVars
  BY <1>4, <1>7 DEF nodeVars
<1> QED
  BY <1>5, <1>6, <1>7, Steps

(* The row an eviction marks for the first time is one nobody works on:    *)
(* the handler has waited for the copies that the configuration asks for.  *)
LEMMA MarkedIsDone ==
  ASSUME TypeInv, OnceInv, LockStepInv, WorldSize > 1, NEW g \in Files, cpc[g] = "wait",
         NEW e \in Files, e = evictee[Owner[g]], ~MustWait(vec[Owner[g]][e]), Fresh(e)
  PROVE  /\ cpc[e] = "idle" /\ saves[e] = 1 /\ FreshInv(e)
         /\ \/ state[e] = "PENDING"
            \/ state[e] = "PERSISTENT"
            \/ state[e] = "BACKED_UP" /\ ~Persist
<1> DEFINE s == vec[Owner[g]][e]
<1>1. s # NONE /\ saves[e] <= 1 /\ FreshInv(e)
  BY DEF LockStepInv, EvictsOthers, RowPCs, OnceInv, Fresh
<1>2. cpc[e] = "idle" /\ state[e] # NONE
  BY <1>1, EvicteeIdle DEF EvictPCs
<1>3. saves[e] = 1
  BY <1>1, <1>2 DEF FreshInv, ClientKnows
<1>4. /\ s = "PENDING" => state[e] = "PENDING"
      /\ s = "BACKED_UP" => state[e] \in {"BACKED_UP", "PERSISTENT"}
      /\ s = "PERSISTENT" => state[e] = "PERSISTENT"
      /\ s \notin {"OBSOLESCENT", "BROKEN"}
  BY DEF LockStepInv, VecTrue, EvictPCs
<1>5. s \in CheckpointState \cup {NONE}
  BY NodeFacts DEF TypeInv, TypeOK, EvictTypeOK
<1>6. s # "CACHED" /\ (s = "BACKED_UP" => ~Persist)
  BY DEF MustWait
<1> QED
  BY <1>1, <1>2, <1>3, <1>4, <1>5, <1>6 DEF CheckpointState

(* Nobody is copying a file whose row is PENDING or has had all copies.    *)
LEMMA DoneIsQuiet ==
  ASSUME NEW e \in Files, FreshInv(e), WorldSize > 1,
         \/ state[e] = "PENDING"
         \/ state[e] = "PERSISTENT"
         \/ state[e] = "BACKED_UP" /\ ~Persist,
         NEW w \in Workers, wkey[w] = e
  PROVE  /\ wpc[w] \in {"load", "check"}
         /\ wpc[w] = "check" => wsnap[w] = state[e] /\ state[e] # "PENDING"
<1>1. WorkerTrue(w, e)
  BY DEF FreshInv
<1>2. CASE state[e] = "PENDING"
  <2>1. NoToken(e)
    BY <1>2 DEF FreshInv, ClientKnows, SavedStates
  <2> QED
    BY <1>1, <2>1 DEF NoToken, Holds, WorkerTrue
<1>3. CASE state[e] = "PERSISTENT" \/ (state[e] = "BACKED_UP" /\ ~Persist)
  BY <1>1, <1>3 DEF WorkerTrue, Copying
<1> QED
  BY <1>2, <1>3

LEMMA EvictedStep ==
  ASSUME TypeInv, OnceInv, LockStepInv, WorldSize > 1, [Next]_vars,
         NEW f \in Files, f \in evicted', saves'[f] <= 1
  PROVE  EvictedInv(f)'
<1>0. /\ saves \in [Files -> Nat] /\ wpc \in [Workers -> WorkerPCs]
      /\ wsnap \in [Workers -> CheckpointState \cup {NONE}]
      /\ wkey \in [Workers -> Files \cup {NoFile}] /\ NoFile \notin Files
  BY ConstantsAssumption DEF TypeInv, TypeOK, ClientTypeOK, WorkerTypeOK
<1>1. saves[f] <= 1
  <2>1. ASSUME NEW g \in Files, SaveBegin(g) PROVE saves[f] <= saves'[f]
    BY <1>0, <2>1 DEF SaveBegin
  <2>2. saves'[f] \in Nat
    <3>1. TypeInv'
      BY TypeStep
    <3> QED
      BY <3>1 DEF TypeInv, TypeOK, ClientTypeOK
  <2> QED
    BY <1>0, <2>1, <2>2, ClientOwnVars, WorkerFrameVars, Steps DEF nodeVars
<1>2. f \in evicted => EvictedInv(f)
  BY <1>1 DEF LockStepInv
<1>3. ASSUME NEW g \in Files, HandlerStep(g) \/ ClientStep(g)
      PROVE  EvictedInv(f)'
  <2>1. UNCHANGED <<wpc, wkey, wsnap, disk>>
    BY <1>3, ClientOwnVars
  <2>2. CASE f \in evicted
    <3>1. cpc[f] = "idle" /\ saves[f] = 1
      BY <1>2, <2>2 DEF EvictedInv
    <3>2. f # g
      <4> SUFFICES ASSUME f = g PROVE FALSE
        OBVIOUS
      <4>1. SaveBegin(f)
        BY <1>3, <3>1, ClientOwnVars
      <4> QED
        BY <1>0, <3>1, <4>1 DEF SaveBegin
    <3>3. cpc'[f] = cpc[f] /\ saves'[f] = saves[f] /\ acked'[f] = acked[f]
      BY <1>3, <3>2, ClientOwnVars
    <3>4. state'[f] \in {"OBSOLESCENT", "BROKEN"}
      BY <1>2, <1>3, <2>2, <3>2, ClientRows DEF EvictedInv
    <3> QED
      BY <1>2, <2>1, <2>2, <3>3, <3>4 DEF EvictedInv
  <2>3. CASE f \notin evicted
    <3>1. /\ EvictMark(g) /\ f = evictee[Owner[g]]
          /\ state' = [state EXCEPT ![f] = "OBSOLESCENT"]
      BY <1>3, <2>3 DEF HandlerStep, ClientStep, AdmitIteration, EvictBatchLoad, EvictNext,
         EvictReload, EvictMark, EvictAdd, EvictDeleted, EvictDone, Alloc, SaveMeta, UpdateAdd,
         SaveBegin, WriteBegin, WriteEnd, ClientAbort, UpdateMetadata, EvictionFails, evictVars
    <3>2. /\ cpc[g] = "wait" /\ ~MustWait(vec[Owner[g]][f]) /\ UNCHANGED <<saves, acked>>
          /\ state'[f] = "OBSOLESCENT"
      BY <3>1 DEF EvictMark, TypeInv, TypeOK, RowTypeOK
    <3>3. /\ cpc[f] = "idle" /\ saves[f] = 1 /\ FreshInv(f)
          /\ \/ state[f] = "PENDING"
             \/ state[f] = "PERSISTENT"
             \/ state[f] = "BACKED_UP" /\ ~Persist
      BY <1>1, <2>3, <3>1, <3>2, MarkedIsDone DEF Fresh
    <3>4. cpc'[f] = "idle"
      BY <1>3, <3>2, <3>3, ClientOwnVars
    <3>5. \A w \in Workers : wkey'[w] = f =>
            /\ wpc'[w] \in {"load", "check"}
            /\ wpc'[w] = "check" =>
                 wsnap'[w] # "CACHED" /\ (Persist => wsnap'[w] # "BACKED_UP")
      BY <2>1, <3>3, DoneIsQuiet
    <3>6. acked[f] /\ Persist => disk[f] = 1
      BY <3>3 DEF FreshInv, ClientKnows, RowTrue, SavedStates
    <3> QED
      BY <2>1, <3>2, <3>3, <3>4, <3>5, <3>6 DEF EvictedInv
  <2> QED
    BY <2>2, <2>3
<1>4. ASSUME NEW w \in Workers, WorkerMove(w)
      PROVE  EvictedInv(f)'
  <2>1. UNCHANGED <<cpc, saves, acked, evicted>> /\ EvictedInv(f)
    BY <1>2, <1>4, WorkerFrameVars
  <2>2. ASSUME NEW u \in Workers, wkey'[u] = f, u # w
        PROVE  /\ wpc'[u] \in {"load", "check", "break", "notify", "delete"}
               /\ wpc'[u] = "check" =>
                    wsnap'[u] # "CACHED" /\ (Persist => wsnap'[u] # "BACKED_UP")
    BY <1>4, <2>1, <2>2, WorkerLocal DEF EvictedInv
  <2>3. CASE wkey[w] = f
    <3>1. /\ wpc[w] \in {"load", "check", "break", "notify", "delete"}
          /\ wpc[w] = "check" =>
               wsnap[w] # "CACHED" /\ (Persist => wsnap[w] # "BACKED_UP")
          /\ state[f] \in {"OBSOLESCENT", "BROKEN"}
      BY <2>1, <2>3 DEF EvictedInv
    <3>2. LoadMetadata(w) \/ CheckData(w) \/ MarkBroken(w) \/ NotifyNext(w) \/ DeleteEntry(w)
      BY <1>4, <3>1 DEF WorkerMove, WorkerStep, ConnectionReset,
               Fetch, BackupBegin, RdmaWrite, PersistOpen,
         PersistWrite, UpdateState
    <3>3. UNCHANGED disk
      BY <3>2 DEF LoadMetadata, CheckData, MarkBroken, NotifyNext, DeleteEntry
    <3>4. state'[f] \in {"OBSOLESCENT", "BROKEN"}
      BY <1>4, <3>1, WorkerRows
    <3>5. Drop(w) => wkey'[w] # f
      BY <1>0 DEF Drop
    <3>6. ASSUME wkey'[w] = f
          PROVE  /\ wpc'[w] \in {"check", "break", "notify", "delete"}
                 /\ wpc'[w] = "check" => wsnap'[w] \in {"OBSOLESCENT", "BROKEN"}
      <4>0. ~Drop(w) /\ ~Requeue(w)
        BY <3>5, <3>6 DEF Requeue
      <4>1. CASE LoadMetadata(w)
        BY <1>0, <2>3, <3>1, <4>0, <4>1 DEF LoadMetadata, WorkerGoes
      <4>2. CASE CheckData(w)
        <5>1. \/ WorkerGoes(w, "break")
              \/ WorkerGoes(w, Task(w, wsnap[w])) /\ Task(w, wsnap[w]) # "none"
          BY <4>0, <4>2 DEF CheckData
        <5>2. Task(w, wsnap[w]) # "none" => Task(w, wsnap[w]) \in {"notify", "delete"}
          <6>1. wsnap[w] # "CACHED" /\ ~(wsnap[w] = "BACKED_UP" /\ Persist)
            BY <3>1, <4>2 DEF CheckData
          <6>2. CASE wsnap[w] = "OBSOLESCENT" /\ IsOwner(w)
            BY <6>1, <6>2 DEF Task
          <6>3. CASE wsnap[w] = "OBSOLESCENT" /\ ~IsOwner(w)
            BY <6>1, <6>3 DEF Task
          <6>4. CASE wsnap[w] # "OBSOLESCENT"
            BY <6>1, <6>4 DEF Task
          <6> QED
            BY <6>2, <6>3, <6>4
        <5> QED
          BY <1>0, <5>1, <5>2 DEF WorkerGoes
      <4>3. CASE MarkBroken(w) \/ DeleteEntry(w)
        BY <4>0, <4>3 DEF MarkBroken, DeleteEntry
      <4>4. CASE NotifyNext(w)
        BY <1>0, <4>0, <4>4 DEF NotifyNext, WorkerGoes
      <4> QED
        BY <3>2, <4>1, <4>2, <4>3, <4>4
    <3> QED
      BY <2>1, <2>2, <3>3, <3>4, <3>6 DEF EvictedInv
  <2>4. CASE wkey[w] # f /\ wkey'[w] = f
    <3>1. Fetch(w)
      <4>1. Drop(w) => wkey'[w] = NoFile
        BY <1>0 DEF Drop
      <4> QED
        BY <1>0, <1>4, <2>4, <4>1 DEF WorkerMove, WorkerStep, ConnectionReset,
                 LoadMetadata, CheckData, MarkBroken,
           BackupBegin, RdmaWrite, PersistOpen, PersistWrite, PersistFails, UpdateState,
           NotifyNext, DeleteEntry, Requeue, GetsStuck
    <3>2. wpc'[w] = "load" /\ UNCHANGED <<state, disk>>
      BY <1>0, <3>1 DEF Fetch, WorkerGoes, rowVars
    <3> QED
      BY <2>1, <2>2, <3>2 DEF EvictedInv
  <2>5. CASE wkey[w] # f /\ wkey'[w] # f
    <3>1. state'[f] = state[f] /\ disk'[f] = disk[f]
      BY <1>4, <2>5, WorkerOtherFiles DEF SameFile
    <3> QED
      BY <2>1, <2>2, <2>5, <3>1 DEF EvictedInv
  <2> QED
    BY <2>3, <2>4, <2>5
<1>5. CASE UNCHANGED nodeVars
  BY <1>2, <1>5 DEF nodeVars, EvictedInv
<1> QED
  BY <1>3, <1>4, <1>5, Steps

LEMMA LockStepInit == Init => LockStepInv
<1>1. RowPCs \subseteq EvictPCs /\ "idle" \notin EvictPCs
  BY DEF RowPCs, EvictPCs
<1> QED
  BY <1>1 DEF Init, LockStepInv, OneIteration, EvictsOthers, RowIteration, VecTrue

LEMMA LockStepInvariance ==
  ASSUME LockStep, WorldSize > 1
  PROVE  Spec => [](TypeInv /\ OnceInv /\ LockStepInv)
<1>1. ASSUME TypeInv, WindowInv, OnceInv, LockStepInv, [Next]_vars
      PROVE  LockStepInv'
  <2>1. OneIteration' /\ EvictsOthers' /\ RowIteration' /\ VecTrue'
    BY <1>1, OneIterationStep, EvictsOthersStep, RowIterationStep, VecTrueStep
    DEF LockStepInv
  <2>2. \A f \in Files : f \in evicted' /\ saves'[f] <= 1 => EvictedInv(f)'
    BY <1>1, EvictedStep
  <2> QED
    BY <2>1, <2>2 DEF LockStepInv
<1> QED
  BY <1>1, LockStepInit, OnceInvariance, TypeInvariance, WindowInvariance, PTL DEF Spec

(* An acknowledged save of a file saved once stays recoverable through its *)
(* eviction when the ranks save in lock step: the evicting handler waits   *)
(* for the disk, and what it saw there cannot be overtaken by a copy. A    *)
(* save of which only memory has a copy is lost with its owner.            *)
THEOREM AckedRecoverableCorrect ==
  ASSUME LockStep
  PROVE  Spec => []AckedRecoverable
<1>1. ASSUME WorldSize > 1, Persist, OnceInv, LockStepInv, NEW f \in Files,
             acked[f], saves[f] = 1
      PROVE  (dict[f] # 0 /\ cache[f] = 1) \/ disk[f] = 1
  <2>1. CASE f \in evicted
    BY <1>1, <2>1 DEF LockStepInv, EvictedInv
  <2>2. CASE f \notin evicted
    <3>1. FreshInv(f)
      BY <1>1, <2>2 DEF OnceInv, Fresh
    <3> QED
      BY <1>1, <3>1 DEF FreshInv, ClientKnows, RowTrue
  <2> QED
    BY <2>1, <2>2
<1>2. WorldSize > 1 => (TypeInv /\ OnceInv /\ LockStepInv => AckedRecoverable)
  BY <1>1 DEF AckedRecoverable
<1>3. ~(WorldSize > 1) => (TypeInv => AckedRecoverable)
  BY DEF AckedRecoverable
<1>4. CASE WorldSize > 1
  BY <1>2, <1>4, LockStepInvariance, PTL
<1>5. CASE ~(WorldSize > 1)
  BY <1>3, <1>5, TypeInvariance, PTL
<1> QED
  BY <1>4, <1>5

(* When the ranks save in lock step, a worker that copies a file saved     *)
(* once reads the memory the file is in: no eviction frees it under the    *)
(* copy.                                                                   *)
THEOREM NoUseAfterFreeCorrect ==
  ASSUME LockStep
  PROVE  Spec => []NoUseAfterFree
<1>1. ASSUME WorldSize > 1, TypeInv, OnceInv, LockStepInv, NEW w \in Workers,
             wpc[w] \in {"backup", "rdma", "fopen", "fwrite"}, saves[wkey[w]] <= 1
      PROVE  dict[wkey[w]] = waddr[w]
  <2>1. wkey[w] \in Files
    BY <1>1 DEF TypeInv, WorkerShape
  <2>2. wkey[w] \notin evicted
    BY <1>1, <2>1 DEF LockStepInv, EvictedInv
  <2>3. WorkerTrue(w, wkey[w])
    BY <1>1, <2>1, <2>2 DEF OnceInv, Fresh, FreshInv
  <2> QED
    BY <1>1, <2>3 DEF WorkerTrue, Copying
<1>2. WorldSize > 1 => (TypeInv /\ OnceInv /\ LockStepInv => NoUseAfterFree)
  BY <1>1 DEF NoUseAfterFree
<1>3. ~(WorldSize > 1) => (TypeInv => NoUseAfterFree)
  BY DEF NoUseAfterFree
<1>4. CASE WorldSize > 1
  BY <1>2, <1>4, LockStepInvariance, PTL
<1>5. CASE ~(WorldSize > 1)
  BY <1>3, <1>5, TypeInvariance, PTL
<1> QED
  BY <1>4, <1>5

(* When the ranks save in lock step, the row of a file saved once only     *)
(* moves along the life cycle: no handler and no worker writes a state it  *)
(* derived from a row that has moved on since.                             *)
THEOREM ForwardOnlyCorrect ==
  ASSUME LockStep
  PROVE  Spec => ForwardOnly
<1>1. ASSUME WorldSize > 1, Persist, TypeInv, OnceInv, LockStepInv, [Next]_vars,
             NEW f \in Files, saves[f] <= 1, state'[f] # state[f]
      PROVE  <<state[f], state'[f]>> \in Moves
  <2>1. CASE f \in evicted
    <3>1. state[f] \in {"OBSOLESCENT", "BROKEN"} /\ cpc[f] = "idle"
      BY <1>1, <2>1 DEF LockStepInv, EvictedInv
    <3>2. \A w \in Workers : wkey[w] = f => wpc[w] # "update_state"
      BY <1>1, <2>1 DEF LockStepInv, EvictedInv
    <3>3. state'[f] \in {"OBSOLESCENT", "BROKEN"}
      <4>1. ASSUME NEW g \in Files, HandlerStep(g) \/ ClientStep(g)
            PROVE  state'[f] = "OBSOLESCENT"
        BY <1>1, <3>1, <4>1, ClientRows DEF SaveMeta, UpdateMetadata
      <4>2. ASSUME NEW w \in Workers, WorkerMove(w)
            PROVE  state'[f] = "BROKEN"
        BY <1>1, <3>2, <4>2, WorkerRows
      <4> QED
        BY <1>1, <4>1, <4>2, Steps DEF nodeVars
    <3> QED
      BY <1>1, <3>1, <3>3 DEF Moves
  <2>2. CASE f \notin evicted
    <3>1. Fresh(f) /\ FreshInv(f)
      BY <1>1, <2>2 DEF OnceInv, Fresh
    <3>2. ASSUME NEW w \in Workers, WorkerMove(w)
          PROVE  <<state[f], state'[f]>> \in Moves
      BY <1>1, <3>1, <3>2, FreshRow DEF Moves
    <3>3. ASSUME NEW g \in Files, HandlerStep(g) \/ ClientStep(g)
          PROVE  <<state[f], state'[f]>> \in Moves
      <4>1. CASE f = g /\ SaveMeta(g) /\ state'[f] = "PENDING"
        <5>1. state[f] = NONE
          BY <3>1, <4>1 DEF SaveMeta, FreshInv, ClientKnows
        <5> QED
          BY <4>1, <5>1 DEF Moves
      <4>2. CASE f = g /\ UpdateMetadata(g) /\ state'[f] = "CACHED"
        <5>1. state[f] = "PENDING"
          BY <3>1, <4>2 DEF UpdateMetadata, FreshInv, ClientKnows
        <5> QED
          BY <4>2, <5>1 DEF Moves
      <4>3. CASE /\ EvictMark(g) /\ f = evictee[Owner[g]] /\ ~MustWait(vec[Owner[g]][f])
                 /\ state'[f] = "OBSOLESCENT"
        <5>1. state[f] \in {"PENDING", "PERSISTENT"}
          BY <1>1, <3>1, <4>3, MarkedIsDone DEF EvictMark
        <5> QED
          BY <4>3, <5>1 DEF Moves
      <4> QED
        BY <1>1, <3>3, <4>1, <4>2, <4>3, ClientRows
    <3> QED
      BY <1>1, <3>2, <3>3, Steps DEF nodeVars
  <2> QED
    BY <2>1, <2>2
<1> DEFINE Forward == \A f \in Files :
      saves[f] <= 1 /\ WorldSize > 1 /\ Persist /\ state'[f] # state[f]
        => <<state[f], state'[f]>> \in Moves
<1>2. WorldSize > 1 =>
        (TypeInv /\ OnceInv /\ LockStepInv /\ [Next]_vars => [Forward]_vars)
  BY <1>1
<1>3. ~(WorldSize > 1) => (TypeInv /\ [Next]_vars => [Forward]_vars)
  OBVIOUS
<1>4. CASE WorldSize > 1
  BY <1>2, <1>4, LockStepInvariance, PTL DEF Spec, ForwardOnly
<1>5. CASE ~(WorldSize > 1)
  BY <1>3, <1>5, TypeInvariance, PTL DEF Spec, ForwardOnly
<1> QED
  BY <1>4, <1>5
=============================================================================
