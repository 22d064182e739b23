----------------------------- MODULE Lifecycle -----------------------------
(***************************************************************************)
(* The life of a checkpoint on a ring of WorldSize nodes: a training       *)
(* process saves it into shared memory of its node through two HTTP calls  *)
(* (createMetadata, updateMetadata), reconciliation workers copy it to the *)
(* next node of the ring and then to disk, and an HTTP call that opens a   *)
(* new iteration evicts the oldest one from memory.                        *)
(*                                                                         *)
(* Shared state: the MySQL table (state, iteration), Storage of the owner  *)
(* (dict, cache) and of the next node (backup_dict, backup), the files on  *)
(* disk, one work queue per node and the IterationManager of each node.    *)
(* Every step that reads or writes one of these is an action of its own,   *)
(* so all interleavings of handlers and workers are explored.              *)
(*                                                                         *)
(* A transfer that fails returns and is repeated, or it is caught in the   *)
(* handshake: its worker reads for ever, and the next node may exit.       *)
(* Restarts are the subject of Recovery.                                   *)
(***************************************************************************)
EXTENDS Integers, Sequences, FiniteSets

CONSTANTS
  WorldSize,     \* number of nodes
  Files,         \* checkpoint file names (primary key of the table)
  NoFile,        \* "no file": not a member of Files
  Workers,       \* reconciliation threads of all nodes
  NodeOf,        \* the node a worker runs on
  Owner,         \* the node whose rank saves the file
  Iters,         \* the iterations a file may be saved with
  MaxIteration,  \* CKPT_ENGINE_MAX_ITERATION_IN_CACHE
  Persist,       \* IS_PERSISTENT is "on"
  LockStep,      \* ranks start an iteration's save after the previous one's
  Faults,        \* kinds of operations that may fail
  MaxSaves,      \* bound: saves per file
  MaxFaults      \* bound: failures per behaviour

Nodes == 0 .. WorldSize - 1
NextNode(n) == (n + 1) % WorldSize
Unknown == -1                       \* the iteration "unknown"
NoIteration == -2                   \* ULONG_MAX of oldestIteration()
NONE == "NONE"                      \* no row, no snapshot
CheckpointState ==
  {"PENDING", "CACHED", "BACKED_UP", "PERSISTENT", "BROKEN", "OBSOLESCENT"}

(* What a memory region or a file holds: nothing written, a mixture, or    *)
(* the complete data of the file's k-th save.                              *)
Blank == 0
Torn == -1
Content == {Torn} \cup Nat

ASSUME ConstantsAssumption ==
  /\ WorldSize \in Nat \ {0}
  /\ NoFile \notin Files
  /\ NodeOf \in [Workers -> Nodes]
  /\ Owner \in [Files -> Nodes]
  /\ Iters \in [Files -> SUBSET (Nat \cup {Unknown})]
  /\ MaxIteration \in Nat
  /\ Persist \in BOOLEAN
  /\ LockStep \in BOOLEAN
  /\ Faults \subseteq {"db", "net", "mem", "disk"}
  /\ MaxSaves \in Nat
  /\ MaxFaults \in Nat

VARIABLES
  state, iteration,             \* the row of the file: STATE and ITERATION
  dict, cache,                  \* owner's Storage: address, content there
  backup_dict, backup,          \* next node's Storage: address, content
  alloc,                        \* addresses handed out so far, per file
  disk,                         \* content of the file on disk
  work_queue,                   \* per node: how often each key is queued
  cpc, citer, caddr, saves,     \* the client of a file and its handler
  rw_mutex, q_, vec, evictee,   \* per node: eviction lock, iterations,
                                \* rows being evicted, the one in hand
  wpc, wkey, wsnap,             \* worker: step, key, state it loaded
  waddr, wraddr, wdata,         \* local and remote address, data in flight
  exited,                       \* nodes whose server process exited
  faults,                       \* failures so far
  acked, evicted                \* history: save answered OK, ever evicted

rowVars    == <<state, iteration>>
memVars    == <<dict, cache, backup_dict, backup, alloc>>
clientVars == <<cpc, citer, caddr, saves, acked>>
evictVars  == <<rw_mutex, q_, vec, evictee, evicted>>
workerVars == <<wpc, wkey, wsnap, waddr, wraddr, wdata>>
vars == <<state, iteration, dict, cache, backup_dict, backup, alloc, disk,
          work_queue, cpc, citer, caddr, saves, rw_mutex, q_, vec, evictee,
          wpc, wkey, wsnap, waddr, wraddr, wdata, exited, faults, acked,
          evicted>>

Init ==
  /\ state = [f \in Files |-> NONE]
  /\ iteration = [f \in Files |-> Unknown]
  /\ dict = [f \in Files |-> 0]
  /\ cache = [f \in Files |-> Blank]
  /\ backup_dict = [f \in Files |-> 0]
  /\ backup = [f \in Files |-> Blank]
  /\ alloc = [f \in Files |-> 0]
  /\ disk = [f \in Files |-> Blank]
  /\ work_queue = [n \in Nodes |-> [f \in Files |-> 0]]
  /\ cpc = [f \in Files |-> "idle"]
  /\ citer = [f \in Files |-> Unknown]
  /\ caddr = [f \in Files |-> 0]
  /\ saves = [f \in Files |-> 0]
  /\ rw_mutex = [n \in Nodes |-> NoFile]
  /\ q_ = [n \in Nodes |-> <<>>]
  /\ vec = [n \in Nodes |-> [f \in Files |-> NONE]]
  /\ evictee = [n \in Nodes |-> NoFile]
  /\ wpc = [w \in Workers |-> "idle"]
  /\ wkey = [w \in Workers |-> NoFile]
  /\ wsnap = [w \in Workers |-> NONE]
  /\ waddr = [w \in Workers |-> 0]
  /\ wraddr = [w \in Workers |-> 0]
  /\ wdata = [w \in Workers |-> Blank]
  /\ exited = {}
  /\ faults = 0
  /\ acked = [f \in Files |-> FALSE]
  /\ evicted = {}

(* An operation of the given kind fails: the budget bounds how often.      *)
Fail(kind) == kind \in Faults /\ faults < MaxFaults /\ faults' = faults + 1

(* Operator::AddRateLimited: the key joins the node's queue once more.     *)
AddRateLimited(n, f) ==
  work_queue' = [work_queue EXCEPT ![n][f] = @ + 1]

ClientGoes(f, pc) == cpc' = [cpc EXCEPT ![f] = pc]

-----------------------------------------------------------------------------
(* createMetadata, part one: admission of the iteration.                   *)

(* engine.save sends createMetadata(PENDING).                              *)
SaveBegin(f) ==
  /\ cpc[f] = "idle"
  /\ saves[f] < MaxSaves
  /\ \E i \in Iters[f] :
       /\ LockStep => \A g \in Files : cpc[g] = "idle" \/ citer[g] = i
       /\ citer' = [citer EXCEPT ![f] = i]
       /\ ClientGoes(f, IF i = Unknown THEN "alloc" ELSE "lock")
  /\ saves' = [saves EXCEPT ![f] = @ + 1]
  /\ acked' = [acked EXCEPT ![f] = FALSE]
  /\ UNCHANGED <<rowVars, memVars, disk, work_queue, caddr, evictVars,
                 workerVars, faults>>

IsExist(n, i) == \E k \in 1 .. Len(q_[n]) : q_[n][k] = i
OldestIteration(n) == IF q_[n] = <<>> THEN NoIteration ELSE Head(q_[n])

(* Under rw_mutex_: a known iteration passes, a new one is recorded while  *)
(* there is room; otherwise the handler keeps the lock and evicts.         *)
AdmitIteration(f) ==
  LET n == Owner[f] IN
  /\ cpc[f] = "lock"
  /\ rw_mutex[n] = NoFile
  /\ \/ /\ IsExist(n, citer[f])
        /\ ClientGoes(f, "alloc")
        /\ UNCHANGED <<q_, rw_mutex>>
     \/ /\ ~IsExist(n, citer[f])
        /\ Len(q_[n]) < MaxIteration
        /\ q_' = [q_ EXCEPT ![n] = Append(@, citer[f])]
        /\ ClientGoes(f, "alloc")
        /\ UNCHANGED rw_mutex
     \/ /\ ~IsExist(n, citer[f])
        /\ Len(q_[n]) >= MaxIteration
        /\ rw_mutex' = [rw_mutex EXCEPT ![n] = f]
        /\ ClientGoes(f, "batch")
        /\ UNCHANGED q_
  /\ UNCHANGED <<rowVars, memVars, disk, work_queue, citer, caddr, saves, acked,
                 vec, evictee, evicted, workerVars, faults>>

-----------------------------------------------------------------------------
(* deleteOldestIteration, run by f's createMetadata handler on f's node.   *)

(* Faulty variant: returns without unlocking.                              *)
LeaveEvictionLocked(n) ==
  /\ UNCHANGED rw_mutex
  /\ vec' = [vec EXCEPT ![n] = [g \in Files |-> NONE]]
  /\ evictee' = [evictee EXCEPT ![n] = NoFile]

(* The handler leaves deleteOldestIteration: unlock, drop its locals.      *)
LeaveEviction(n) ==
  /\ rw_mutex' = [rw_mutex EXCEPT ![n] = NoFile]
  /\ vec' = [vec EXCEPT ![n] = [g \in Files |-> NONE]]
  /\ evictee' = [evictee EXCEPT ![n] = NoFile]

(* Failure: "deleteMinIteration failed", the save is refused.              *)
EvictionFails(f) ==
  /\ LeaveEviction(Owner[f])
  /\ ClientGoes(f, "idle")
  /\ UNCHANGED <<q_, evicted>>

RowsOf(n, i) ==
  {g \in Files : Owner[g] = n /\ state[g] # NONE /\ iteration[g] = i}

EvictBatchLoad(f) ==
  LET n == Owner[f]
      rows == RowsOf(n, OldestIteration(n)) IN
  /\ cpc[f] = "batch"
  /\ \/ rows = {} /\ EvictionFails(f) /\ UNCHANGED faults
     \/ Fail("db") /\ EvictionFails(f)
     \/ /\ rows # {}
        /\ vec' = [vec EXCEPT ![n] =
                     [g \in Files |-> IF g \in rows THEN state[g] ELSE NONE]]
        /\ ClientGoes(f, "evict")
        /\ UNCHANGED <<rw_mutex, q_, evictee, evicted, faults>>
  /\ UNCHANGED <<rowVars, memVars, disk, work_queue, citer, caddr, saves, acked,
                 workerVars>>

EvictNext(f) ==
  LET n == Owner[f] IN
  /\ cpc[f] = "evict"
  /\ \E e \in Files : /\ vec[n][e] # NONE
                      /\ evictee' = [evictee EXCEPT ![n] = e]
  /\ ClientGoes(f, "wait")
  /\ UNCHANGED <<rowVars, memVars, disk, work_queue, citer, caddr, saves, acked,
                 rw_mutex, q_, vec, evicted, workerVars, faults>>

(* Faulty variants: one of the two waits is missing.                       *)
MustWaitDiskOnly(s) == s = "BACKED_UP" /\ Persist
MustWaitBackupOnly(s) == s = "CACHED" /\ WorldSize > 1

(* "wait for the previous state to complete"                               *)
MustWait(s) ==
  \/ s = "CACHED" /\ WorldSize > 1
  \/ s = "BACKED_UP" /\ Persist

EvictReload(f) ==
  LET n == Owner[f]
      e == evictee[n] IN
  /\ cpc[f] = "wait"
  /\ MustWait(vec[n][e])
  /\ \/ /\ vec' = [vec EXCEPT ![n][e] = state[e]]
        /\ UNCHANGED <<cpc, rw_mutex, q_, evictee, evicted, faults>>
     \/ Fail("db") /\ EvictionFails(f)
  /\ UNCHANGED <<rowVars, memVars, disk, work_queue, citer, caddr, saves, acked,
                 workerVars>>

EvictMark(f) ==
  LET n == Owner[f]
      e == evictee[n] IN
  /\ cpc[f] = "wait"
  /\ ~MustWait(vec[n][e])
  /\ \/ /\ state' = [state EXCEPT ![e] = "OBSOLESCENT"]
        /\ evicted' = evicted \cup {e}
        /\ ClientGoes(f, "evict_add")
        /\ UNCHANGED <<rw_mutex, q_, vec, evictee, faults>>
     \/ Fail("db") /\ EvictionFails(f) /\ UNCHANGED state
  /\ UNCHANGED <<iteration, memVars, disk, work_queue, citer, caddr, saves,
                 acked, workerVars>>

(* Faulty variant: the evicted key is not queued.                          *)
EvictAddForgotten(f) ==
  /\ cpc[f] = "evict_add"
  /\ ClientGoes(f, "deleting")
  /\ UNCHANGED <<rowVars, memVars, disk, work_queue, citer, caddr, saves, acked,
                 evictVars, workerVars, faults>>

EvictAdd(f) ==
  /\ cpc[f] = "evict_add"
  /\ AddRateLimited(Owner[f], evictee[Owner[f]])
  /\ ClientGoes(f, "deleting")
  /\ UNCHANGED <<rowVars, memVars, disk, citer, caddr, saves, acked, evictVars,
                 workerVars, faults>>

(* The loop over Storage::Load ends when a worker deleted the entry.       *)
EvictDeleted(f) ==
  LET n == Owner[f]
      e == evictee[n] IN
  /\ cpc[f] = "deleting"
  /\ dict[e] = 0
  /\ vec' = [vec EXCEPT ![n][e] = NONE]
  /\ evictee' = [evictee EXCEPT ![n] = NoFile]
  /\ ClientGoes(f, "evict")
  /\ UNCHANGED <<rowVars, memVars, disk, work_queue, citer, caddr, saves, acked,
                 rw_mutex, q_, evicted, workerVars, faults>>

(* All rows done: pop the oldest iteration, record the new one, unlock.    *)
EvictDone(f) ==
  LET n == Owner[f] IN
  /\ cpc[f] = "evict"
  /\ \A e \in Files : vec[n][e] = NONE
  /\ q_' = [q_ EXCEPT ![n] = Append(Tail(@), citer[f])]
  /\ LeaveEviction(n)
  /\ ClientGoes(f, "alloc")
  /\ UNCHANGED <<rowVars, memVars, disk, work_queue, citer, caddr, saves, acked,
                 evicted, workerVars, faults>>

-----------------------------------------------------------------------------
(* createMetadata, part two: memory and row; then the client's writes.     *)

(* Reuse of an existing memfd keeps its bytes unless the size changes.     *)
Alloc(f) ==
  /\ cpc[f] = "alloc"
  /\ \/ /\ dict[f] # 0
        /\ \E c \in {cache[f], Torn} : cache' = [cache EXCEPT ![f] = c]
        /\ ClientGoes(f, "save_meta")
        /\ UNCHANGED <<dict, alloc, faults>>
     \/ /\ dict[f] = 0
        /\ alloc' = [alloc EXCEPT ![f] = @ + 1]
        /\ dict' = [dict EXCEPT ![f] = alloc[f] + 1]
        /\ cache' = [cache EXCEPT ![f] = Blank]
        /\ ClientGoes(f, "save_meta")
        /\ UNCHANGED faults
     \/ Fail("mem") /\ ClientGoes(f, "idle") /\ UNCHANGED <<dict, cache, alloc>>
  /\ UNCHANGED <<rowVars, backup_dict, backup, disk, work_queue, citer, caddr,
                 saves, acked, evictVars, workerVars>>

(* MysqlClient::Save is REPLACE INTO: the old row, if any, is overwritten. *)
SaveMeta(f) ==
  /\ cpc[f] = "save_meta"
  /\ \/ /\ state' = [state EXCEPT ![f] = "PENDING"]
        /\ iteration' = [iteration EXCEPT ![f] = citer[f]]
        /\ ClientGoes(f, "open")
        /\ UNCHANGED faults
     \/ Fail("db") /\ ClientGoes(f, "idle") /\ UNCHANGED rowVars
  /\ UNCHANGED <<memVars, disk, work_queue, citer, caddr, saves, acked,
                 evictVars, workerVars>>

(* transom_memcpy opens /proc/<pid>/fd/<memfd>, which fails when the entry *)
(* was deleted meanwhile, and starts copying.                              *)
WriteBegin(f) ==
  /\ cpc[f] = "open"
  /\ \/ /\ dict[f] # 0
        /\ caddr' = [caddr EXCEPT ![f] = dict[f]]
        /\ cache' = [cache EXCEPT ![f] = Torn]
        /\ ClientGoes(f, "write")
     \/ dict[f] = 0 /\ ClientGoes(f, "idle") /\ UNCHANGED <<caddr, cache>>
  /\ UNCHANGED <<rowVars, dict, backup_dict, backup, alloc, disk, work_queue,
                 citer, saves, acked, evictVars, workerVars, faults>>

(* The client keeps its own mapping: if the server dropped the memfd the   *)
(* bytes go to memory nobody else can reach.                               *)
WriteEnd(f) ==
  /\ cpc[f] = "write"
  /\ cache' = [cache EXCEPT ![f] = IF dict[f] = caddr[f] THEN saves[f] ELSE @]
  /\ caddr' = [caddr EXCEPT ![f] = 0]
  /\ ClientGoes(f, "update")
  /\ UNCHANGED <<rowVars, dict, backup_dict, backup, alloc, disk, work_queue,
                 citer, saves, acked, evictVars, workerVars, faults>>

(* The training process fails before it reports the data as cached.        *)
ClientAbort(f) ==
  /\ cpc[f] \in {"open", "write", "update"}
  /\ caddr' = [caddr EXCEPT ![f] = 0]
  /\ ClientGoes(f, "idle")
  /\ UNCHANGED <<rowVars, memVars, disk, work_queue, citer, saves, acked,
                 evictVars, workerVars, faults>>

(* updateMetadata(CACHED): the row, then the work queue, then the answer.  *)
UpdateMetadata(f) ==
  /\ cpc[f] = "update"
  /\ \/ /\ state' = [state EXCEPT ![f] = "CACHED"]
        /\ ClientGoes(f, "add")
        /\ UNCHANGED faults
     \/ Fail("db") /\ ClientGoes(f, "idle") /\ UNCHANGED state
  /\ UNCHANGED <<iteration, memVars, disk, work_queue, citer, caddr, saves,
                 acked, evictVars, workerVars>>

UpdateAdd(f) ==
  /\ cpc[f] = "add"
  /\ AddRateLimited(Owner[f], f)
  /\ ClientGoes(f, "idle")
  /\ acked' = [acked EXCEPT ![f] = TRUE]
  /\ UNCHANGED <<rowVars, memVars, disk, citer, caddr, saves, evictVars,
                 workerVars, faults>>

-----------------------------------------------------------------------------
(* Coordinator::Reconcile, run by a worker for one key at a time.          *)

WorkerGoes(w, pc) == wpc' = [wpc EXCEPT ![w] = pc]

(* Reconcile returns true: the key is dropped and the worker is free.      *)
Drop(w) ==
  /\ wpc' = [wpc EXCEPT ![w] = "idle"]
  /\ wkey' = [wkey EXCEPT ![w] = NoFile]
  /\ wsnap' = [wsnap EXCEPT ![w] = NONE]
  /\ waddr' = [waddr EXCEPT ![w] = 0]
  /\ wraddr' = [wraddr EXCEPT ![w] = 0]

(* Faulty variant: a key that must be retried is lost.                     *)
RequeueForgotten(w) == Drop(w) /\ UNCHANGED work_queue

(* Reconcile returns false: Operator::run adds the key again.              *)
Requeue(w) == Drop(w) /\ AddRateLimited(NodeOf[w], wkey[w])

IsOwner(w) == NodeOf[w] = Owner[wkey[w]]

(* Storage::Load on the worker's node: dict_ at the owner, else backup_dict_ *)
LocalAddress(w) == IF IsOwner(w) THEN dict[wkey[w]] ELSE backup_dict[wkey[w]]

(* What the worker reads through the address it loaded: freed memory       *)
(* yields arbitrary bytes.                                                 *)
Source(w) == IF dict[wkey[w]] = waddr[w] THEN cache[wkey[w]] ELSE Torn

Fetch(w) ==
  /\ wpc[w] = "idle"
  /\ \E f \in Files :
       /\ work_queue[NodeOf[w]][f] > 0
       /\ work_queue' = [work_queue EXCEPT ![NodeOf[w]][f] = @ - 1]
       /\ wkey' = [wkey EXCEPT ![w] = f]
  /\ WorkerGoes(w, "load")
  /\ UNCHANGED <<rowVars, memVars, disk, clientVars, evictVars, wsnap, waddr,
                 wraddr, wdata, faults>>

LoadMetadata(w) ==
  LET s == state[wkey[w]] IN
  /\ wpc[w] = "load"
  /\ \/ /\ s = NONE \/ (~IsOwner(w) /\ s # "OBSOLESCENT")
        /\ Drop(w)
        /\ UNCHANGED <<work_queue, faults>>
     \/ /\ s # NONE /\ (IsOwner(w) \/ s = "OBSOLESCENT")
        /\ wsnap' = [wsnap EXCEPT ![w] = s]
        /\ WorkerGoes(w, "check")
        /\ UNCHANGED <<work_queue, wkey, waddr, wraddr, faults>>
     \/ Fail("db") /\ Requeue(w)
  /\ UNCHANGED <<rowVars, memVars, disk, clientVars, evictVars, wdata>>

(* The step Reconcile takes for a complete entry in state s.               *)
Task(w, s) ==
  CASE s = "CACHED" /\ WorldSize > 1                     -> "backup"
    [] s = "CACHED" /\ WorldSize = 1 /\ Persist          -> "fopen"
    [] s = "BACKED_UP" /\ Persist                        -> "fopen"
    [] s = "OBSOLESCENT" /\ WorldSize > 1 /\ IsOwner(w)  -> "notify"
    [] s = "OBSOLESCENT" /\ (WorldSize = 1 \/ ~IsOwner(w)) -> "delete"
    [] OTHER                                             -> "none"

(* checkDataCompletion, then the switch on the loaded state.               *)
CheckData(w) ==
  LET a == LocalAddress(w) IN
  /\ wpc[w] = "check"
  /\ \/ /\ a = 0 /\ wsnap[w] \notin {"OBSOLESCENT", "BROKEN"}
        /\ WorkerGoes(w, "break")
        /\ UNCHANGED <<wkey, wsnap, waddr, wraddr>>
     \/ /\ a = 0 /\ wsnap[w] \in {"OBSOLESCENT", "BROKEN"}
        /\ Drop(w)
     \/ /\ a # 0 /\ Task(w, wsnap[w]) # "none"
        /\ waddr' = [waddr EXCEPT ![w] = a]
        /\ WorkerGoes(w, Task(w, wsnap[w]))
        /\ UNCHANGED <<wkey, wsnap, wraddr>>
     \/ /\ a # 0 /\ Task(w, wsnap[w]) = "none"
        /\ Drop(w)
  /\ UNCHANGED <<rowVars, memVars, disk, work_queue, clientVars, evictVars,
                 wdata, faults>>

MarkBroken(w) ==
  /\ wpc[w] = "break"
  /\ \/ /\ state' = [state EXCEPT ![wkey[w]] = "BROKEN"]
        /\ Drop(w)
        /\ UNCHANGED <<work_queue, faults>>
     \/ Fail("db") /\ Requeue(w) /\ UNCHANGED state
  /\ UNCHANGED <<iteration, memVars, disk, clientVars, evictVars, wdata>>

(* The peer of w: the node it backs up to. An operation with it fails, or  *)
(* the peer is not there any more.                                         *)
Peer(w) == NextNode(NodeOf[w])
PeerFails(w) ==
  \/ Fail("net")
  \/ Peer(w) \in exited /\ UNCHANGED faults

(* sock_sync_data reads until it has the other side's handshake, and goes  *)
(* on at end of file: the worker and its key are caught.                   *)
GetsStuck(w) ==
  /\ WorkerGoes(w, "stuck")
  /\ wdata' = [wdata EXCEPT ![w] = Blank]
  /\ UNCHANGED <<work_queue, wkey, wsnap, waddr, wraddr>>

(* ClientUtil::Backup and Server::handleBackup up to the first byte: the   *)
(* next node allocates or reuses its entry, then the handshake and the     *)
(* RDMA write begin. Without memory the request is refused, or, after the  *)
(* positive response, the client is left alone in the handshake.           *)
BackupBegin(w) ==
  LET f == wkey[w] IN
  /\ wpc[w] = "backup"
  /\ \/ /\ Peer(w) \notin exited
        /\ IF backup_dict[f] # 0
           THEN UNCHANGED <<backup_dict, alloc>>
           ELSE /\ alloc' = [alloc EXCEPT ![f] = @ + 1]
                /\ backup_dict' = [backup_dict EXCEPT ![f] = alloc[f] + 1]
        /\ backup' = [backup EXCEPT ![f] = Torn]
        /\ wraddr' = [wraddr EXCEPT ![w] = backup_dict'[f]]
        /\ wdata' = [wdata EXCEPT ![w] = Source(w)]
        /\ WorkerGoes(w, "rdma")
        /\ UNCHANGED <<work_queue, wkey, wsnap, waddr, faults>>
     \/ /\ PeerFails(w) \/ Fail("mem")
        /\ Requeue(w)
        /\ UNCHANGED <<backup_dict, backup, alloc, wdata>>
     \/ /\ Fail("mem")
        /\ GetsStuck(w)
        /\ UNCHANGED <<backup_dict, backup, alloc>>
  /\ UNCHANGED <<rowVars, dict, cache, disk, clientVars, evictVars>>

(* A transfer of worker w ends with data d: it delivers d if the source did *)
(* not change under it, and spoils a concurrent transfer of other data.    *)
Delivered(w) == IF Source(w) = wdata[w] THEN wdata[w] ELSE Torn
SameTarget(u, w) == wpc[u] = wpc[w] /\ wkey[u] = wkey[w] /\ wraddr[u] = wraddr[w]
Spoiled(w, d) ==
  [u \in Workers |->
     IF u = w THEN Blank
     ELSE IF SameTarget(u, w) /\ wdata[u] # d THEN Torn ELSE wdata[u]]

(* The RDMA write completes; handleBackup adds the key to the next node's  *)
(* queue. If the next node dropped its entry the bytes are unreachable.    *)
(* Or the write fails; or the handshake before it never ends.              *)
RdmaWrite(w) ==
  LET f == wkey[w]
      d == Delivered(w)
      landed(c) == IF backup_dict[f] = wraddr[w]
                   THEN [backup EXCEPT ![f] = c] ELSE backup IN
  /\ wpc[w] = "rdma"
  /\ \/ /\ Peer(w) \notin exited
        /\ backup' = landed(d)
        /\ wdata' = Spoiled(w, d)
        /\ AddRateLimited(Peer(w), f)
        /\ WorkerGoes(w, "update_state")
        /\ UNCHANGED <<wkey, wsnap, waddr, wraddr, faults>>
     \/ /\ PeerFails(w)
        /\ \E c \in {Torn, d} : backup' = landed(c) /\ wdata' = Spoiled(w, c)
        /\ Requeue(w)
     \/ PeerFails(w) /\ GetsStuck(w) /\ UNCHANGED backup
  /\ UNCHANGED <<rowVars, dict, cache, backup_dict, alloc, disk, clientVars,
                 evictVars>>

(* The other end may have left handleBackup on an error: execute() takes   *)
(* the client's handshake for the size of a routine, and LOG_FATAL of      *)
(* Buffer::Realloc ends the process. It takes no further step, and its     *)
(* memory, left as it was here, is out of everybody's reach.               *)
NextNodeExits(w) ==
  /\ wpc[w] = "stuck"
  /\ Peer(w) \notin exited
  /\ exited' = exited \cup {Peer(w)}
  /\ UNCHANGED <<rowVars, memVars, disk, work_queue, clientVars, evictVars,
                 workerVars, faults>>

(* The worker may see a reset connection instead of the end of file.       *)
ConnectionReset(w) ==
  /\ wpc[w] = "stuck"
  /\ NodeOf[w] \notin exited /\ Peer(w) \in exited
  /\ Requeue(w)
  /\ UNCHANGED <<rowVars, memVars, disk, clientVars, evictVars, wdata, exited,
                 faults>>

(* Faulty variant: every failed write to disk drops the key.               *)
PersistFailsDrops(w) == Drop(w) /\ UNCHANGED work_queue

(* Persistence::WriteToDisk failed: Reconcile drops a BACKED_UP key and    *)
(* retries a CACHED one.                                                   *)
PersistFails(w) ==
  \/ wsnap[w] = "BACKED_UP" /\ Drop(w) /\ UNCHANGED work_queue
  \/ wsnap[w] # "BACKED_UP" /\ Requeue(w)

(* fopen "w+" truncates the file that is there.                            *)
PersistOpen(w) ==
  /\ wpc[w] = "fopen"
  /\ \/ /\ disk' = [disk EXCEPT ![wkey[w]] = Torn]
        /\ wdata' = [wdata EXCEPT ![w] = Source(w)]
        /\ WorkerGoes(w, "fwrite")
        /\ UNCHANGED <<work_queue, wkey, wsnap, waddr, wraddr, faults>>
     \/ Fail("disk") /\ PersistFails(w) /\ UNCHANGED <<disk, wdata>>
  /\ UNCHANGED <<rowVars, memVars, clientVars, evictVars>>

PersistWrite(w) ==
  LET f == wkey[w]
      d == Delivered(w)
      others == {u \in Workers \ {w} : SameTarget(u, w)} IN
  /\ wpc[w] = "fwrite"
  /\ \/ /\ disk' = [disk EXCEPT ![f] = IF others = {} THEN d ELSE Torn]
        /\ wdata' = Spoiled(w, d)
        /\ WorkerGoes(w, "update_state")
        /\ UNCHANGED <<work_queue, wkey, wsnap, waddr, wraddr, faults>>
     \/ /\ Fail("disk")
        /\ wdata' = Spoiled(w, Torn)
        /\ PersistFails(w)
        /\ UNCHANGED disk
  /\ UNCHANGED <<rowVars, memVars, clientVars, evictVars>>

(* Faulty variants: the condition inverted; to_update_state never set.     *)
PromotedInverted(s) ==
  IF s = "CACHED" /\ WorldSize = 1 THEN "BACKED_UP" ELSE "PERSISTENT"
PromotedUnset(s) ==
  IF s = "CACHED" /\ WorldSize > 1 THEN "BACKED_UP" ELSE "STATE_ANY"

(* updateState with the next state of the loaded one; the key is queued    *)
(* again whether the update worked or not.                                 *)
Promoted(s) ==
  IF s = "CACHED" /\ WorldSize > 1 THEN "BACKED_UP" ELSE "PERSISTENT"

UpdateState(w) ==
  /\ wpc[w] = "update_state"
  /\ \/ /\ state' = [state EXCEPT ![wkey[w]] = Promoted(wsnap[w])]
        /\ UNCHANGED faults
     \/ Fail("db") /\ UNCHANGED state
  /\ Requeue(w)
  /\ UNCHANGED <<iteration, memVars, disk, clientVars, evictVars, wdata>>

(* Faulty variant: the next node is not told.                              *)
NotifyForgotten(w) ==
  /\ wpc[w] = "notify"
  /\ WorkerGoes(w, "delete")
  /\ UNCHANGED <<rowVars, memVars, disk, work_queue, clientVars, evictVars, wkey,
                 wsnap, waddr, wraddr, wdata, faults>>

(* The backup request with only_metadata: queue the key on the next node.  *)
NotifyNext(w) ==
  /\ wpc[w] = "notify"
  /\ \/ /\ Peer(w) \notin exited
        /\ AddRateLimited(Peer(w), wkey[w])
        /\ WorkerGoes(w, "delete")
        /\ UNCHANGED <<wkey, wsnap, waddr, wraddr, faults>>
     \/ PeerFails(w) /\ Requeue(w)
  /\ UNCHANGED <<rowVars, memVars, disk, clientVars, evictVars, wdata>>

(* Storage::Delete on the worker's node.                                   *)
DeleteEntry(w) ==
  LET f == wkey[w] IN
  /\ wpc[w] = "delete"
  /\ \/ /\ IsOwner(w)
        /\ dict' = [dict EXCEPT ![f] = 0]
        /\ cache' = [cache EXCEPT ![f] = Blank]
        /\ UNCHANGED <<backup_dict, backup>>
     \/ /\ ~IsOwner(w)
        /\ backup_dict' = [backup_dict EXCEPT ![f] = 0]
        /\ backup' = [backup EXCEPT ![f] = Blank]
        /\ UNCHANGED <<dict, cache>>
  /\ Drop(w)
  /\ UNCHANGED <<rowVars, alloc, disk, work_queue, clientVars, evictVars, wdata,
                 faults>>

-----------------------------------------------------------------------------
(* Steps of a server process that runs, and of the training processes of   *)
(* its node.                                                               *)
HandlerStep(f) ==
  /\ Owner[f] \notin exited /\ UNCHANGED exited
  /\ \/ AdmitIteration(f) \/ EvictBatchLoad(f) \/ EvictNext(f) \/ EvictReload(f)
     \/ EvictMark(f) \/ EvictAdd(f) \/ EvictDeleted(f) \/ EvictDone(f)
     \/ Alloc(f) \/ SaveMeta(f) \/ UpdateAdd(f)

ClientStep(f) ==
  /\ Owner[f] \notin exited /\ UNCHANGED exited
  /\ \/ SaveBegin(f) \/ WriteBegin(f) \/ WriteEnd(f) \/ ClientAbort(f)
     \/ UpdateMetadata(f)

WorkerStep(w) ==
  /\ NodeOf[w] \notin exited /\ UNCHANGED exited
  /\ \/ Fetch(w) \/ LoadMetadata(w) \/ CheckData(w) \/ MarkBroken(w)
     \/ BackupBegin(w) \/ RdmaWrite(w) \/ PersistOpen(w) \/ PersistWrite(w)
     \/ UpdateState(w) \/ NotifyNext(w) \/ DeleteEntry(w)

Next ==
  \/ \E f \in Files : HandlerStep(f) \/ ClientStep(f)
  \/ \E w \in Workers : WorkerStep(w) \/ NextNodeExits(w) \/ ConnectionReset(w)

Spec == Init /\ [][Next]_vars

(* Server threads run: a handler or worker that can go on does. Training   *)
(* processes promise nothing, and no stuck worker needs to be released.    *)
Fairness ==
  /\ \A f \in Files : WF_vars(HandlerStep(f))
  /\ \A w \in Workers : WF_vars(WorkerStep(w))

FairSpec == Spec /\ Fairness
-----------------------------------------------------------------------------
ClientPCs == {"idle", "lock", "batch", "evict", "wait", "evict_add", "deleting",
              "alloc", "save_meta", "open", "write", "update", "add"}
EvictPCs == {"batch", "evict", "wait", "evict_add", "deleting"}
WorkerPCs == {"idle", "load", "check", "break", "backup", "rdma", "stuck",
              "fopen", "fwrite", "update_state", "notify", "delete"}

RowTypeOK ==
  /\ state \in [Files -> CheckpointState \cup {NONE}]
  /\ iteration \in [Files -> Nat \cup {Unknown}]
MemTypeOK ==
  /\ dict \in [Files -> Nat] /\ backup_dict \in [Files -> Nat]
  /\ cache \in [Files -> Content] /\ backup \in [Files -> Content]
  /\ alloc \in [Files -> Nat]
ClientTypeOK ==
  /\ cpc \in [Files -> ClientPCs]
  /\ citer \in [Files -> Nat \cup {Unknown}]
  /\ caddr \in [Files -> Nat]
  /\ saves \in [Files -> Nat]
  /\ acked \in [Files -> BOOLEAN]
EvictTypeOK ==
  /\ rw_mutex \in [Nodes -> Files \cup {NoFile}]
  /\ q_ \in [Nodes -> Seq(Nat \cup {Unknown})]
  /\ vec \in [Nodes -> [Files -> CheckpointState \cup {NONE}]]
  /\ evictee \in [Nodes -> Files \cup {NoFile}]
  /\ evicted \in SUBSET Files
WorkerTypeOK ==
  /\ wpc \in [Workers -> WorkerPCs]
  /\ wkey \in [Workers -> Files \cup {NoFile}]
  /\ wsnap \in [Workers -> CheckpointState \cup {NONE}]
  /\ waddr \in [Workers -> Nat] /\ wraddr \in [Workers -> Nat]
  /\ wdata \in [Workers -> Content]

(* Every variable keeps its shape: rows, addresses, contents, queues and   *)
(* the local variables of handlers and workers.                            *)
TypeOK ==
  /\ RowTypeOK /\ MemTypeOK /\ ClientTypeOK /\ EvictTypeOK /\ WorkerTypeOK
  /\ disk \in [Files -> Content]
  /\ work_queue \in [Nodes -> [Files -> Nat]]
  /\ exited \in SUBSET Nodes
  /\ faults \in Nat

(* Somebody at the owner still has to look at f: its key is queued, a      *)
(* worker is about to load its row, or loaded the state s and acts on it,  *)
(* or is stuck at it.                                                      *)
InHand(f, s) ==
  \/ work_queue[Owner[f]][f] > 0
  \/ \E w \in Workers : /\ NodeOf[w] = Owner[f] /\ wkey[w] = f
                        /\ wpc[w] = "load" \/ wsnap[w] = s

(* The queue never loses a checkpoint that waits for its first copy: while *)
(* a row says CACHED (and the configuration copies it at all), its key is  *)
(* queued or in a worker's hands, or updateMetadata is about to queue it.  *)
NoLostWork ==
  \A f \in Files :
    state[f] = "CACHED" /\ (WorldSize > 1 \/ Persist)
      => cpc[f] = "add" \/ InHand(f, "CACHED")

(* A file saved once and never evicted: its row tells the truth. CACHED    *)
(* means the data is complete in the owner's memory, BACKED_UP complete on *)
(* the next node too, PERSISTENT complete on disk as well (api.h 63-82).   *)
(* An exited node has no memory.                                           *)
OnceDurable ==
  \A f \in Files :
    saves[f] <= 1 /\ f \notin evicted =>
      /\ state[f] # "BROKEN"
      /\ /\ state[f] \in {"CACHED", "BACKED_UP", "PERSISTENT"}
         /\ Owner[f] \notin exited
         => dict[f] # 0 /\ cache[f] = 1
      /\ /\ state[f] = "BACKED_UP" \/ (state[f] = "PERSISTENT" /\ WorldSize > 1)
         /\ NextNode(Owner[f]) \notin exited
         => backup_dict[f] # 0 /\ backup[f] = 1
      /\ state[f] = "PERSISTENT" => disk[f] = 1

(* An acknowledged save of a file saved once can be recovered as long as   *)
(* its owner runs, also after its eviction: the data is complete in the    *)
(* owner's memory or on disk. (With two nodes and persistence on: a single *)
(* node does not wait for CACHED files, and without persistence eviction   *)
(* is meant to discard.)                                                   *)
AckedRecoverable ==
  WorldSize > 1 /\ Persist =>
    \A f \in Files :
      acked[f] /\ saves[f] = 1 /\ Owner[f] \notin exited =>
        (dict[f] # 0 /\ cache[f] = 1) \/ disk[f] = 1

(* The window of iterations a node holds: never more than MaxIteration, no *)
(* iteration twice, and only the holder of rw_mutex_ is evicting.          *)
IterationWindow ==
  /\ \A n \in Nodes :
       /\ Len(q_[n]) <= MaxIteration
       /\ \A i, j \in 1 .. Len(q_[n]) : q_[n][i] = q_[n][j] => i = j
  /\ \A f \in Files : cpc[f] \in EvictPCs <=> rw_mutex[Owner[f]] = f

(* Workers read and write only live memory: while a copy of a file saved   *)
(* once is under way, the entry it was started from is still in Storage.   *)
(* (On several nodes: a single one does not wait for CACHED files.)        *)
NoUseAfterFree ==
  WorldSize > 1 =>
    \A w \in Workers :
      wpc[w] \in {"backup", "rdma", "fopen", "fwrite"} /\ saves[wkey[w]] <= 1 =>
        dict[wkey[w]] = waddr[w]

(* The moves of a row along the life cycle of the comment in Reconcile.    *)
Moves ==
  {<<NONE, "PENDING">>, <<"PENDING", "CACHED">>, <<"CACHED", "BACKED_UP">>,
   <<"CACHED", "PERSISTENT">>, <<"BACKED_UP", "PERSISTENT">>,
   <<"PENDING", "OBSOLESCENT">>, <<"PERSISTENT", "OBSOLESCENT">>,
   <<"OBSOLESCENT", "BROKEN">>, <<"BROKEN", "OBSOLESCENT">>}

(* A row of a file saved once only moves forward: no worker or handler     *)
(* writes a state derived from a row that has moved on since it was read,  *)
(* except that a worker may call an evicted row BROKEN, and an eviction    *)
(* that is repeated after a failure marks such a row again.                *)
ForwardOnly ==
  [][\A f \in Files :
       saves[f] <= 1 /\ WorldSize > 1 /\ Persist /\ state'[f] # state[f]
         => <<state[f], state'[f]>> \in Moves]_vars

(* BACKED_UP, waiting for disk, and nobody will look at it again: an       *)
(* operation failed before.                                                *)
Abandoned(f) ==
  /\ state[f] = "BACKED_UP" /\ Persist
  /\ ~InHand(f, "BACKED_UP")
  /\ faults > 0

(* Node n reconciles no more: it exited, or all its workers are stuck.     *)
Halted(n) ==
  \/ n \in exited
  \/ \A w \in Workers : NodeOf[w] = n => wpc[w] = "stuck"

(* f is caught in a handshake with the next node, or one of its two nodes  *)
(* reconciles no more.                                                     *)
Stuck(f) ==
  \/ \E w \in Workers : NodeOf[w] = Owner[f] /\ wkey[w] = f /\ wpc[w] = "stuck"
  \/ Halted(Owner[f]) \/ Halted(NextNode(Owner[f]))

(* An eviction ends: rw_mutex_ is released again, unless a write to disk   *)
(* failed and Reconcile abandoned a file of the node, or one is stuck.     *)
EvictionEnds ==
  \A n \in Nodes :
    rw_mutex[n] # NoFile
      ~> \/ rw_mutex[n] = NoFile
         \/ \E f \in Files : Owner[f] = n /\ (Abandoned(f) \/ Stuck(f))

(* A cached file saved once is eventually on disk, unless it is abandoned  *)
(* before that, or stuck.                                                  *)
EventuallyPersistent ==
  \A f \in Files :
    state[f] = "CACHED" /\ saves[f] = 1 /\ Persist
      ~> \/ state[f] \in {"PERSISTENT", "OBSOLESCENT"} \/ saves[f] > 1
         \/ Abandoned(f) \/ Stuck(f)

(* An evicted file leaves the memory of both nodes, if both go on, unless  *)
(* its row changes before the next node's worker reads it.                 *)
BackupReleased ==
  \A f \in Files :
    state[f] = "OBSOLESCENT"
      ~> \/ dict[f] = 0 /\ backup_dict[f] = 0
         \/ state[f] # "OBSOLESCENT"
         \/ Halted(Owner[f]) \/ Halted(NextNode(Owner[f]))

-----------------------------------------------------------------------------
(* A statement of the code base's comments that the code does not keep.    *)

(* "data has backup to next node" (api.h 75): whenever the row says        *)
(* BACKED_UP and the last save was acknowledged, the next node holds it.   *)
BackedUpTruth ==
  \A f \in Files :
    state[f] = "BACKED_UP" /\ acked[f]
      => backup_dict[f] # 0 /\ backup[f] = saves[f]
=============================================================================
