----------------------------- MODULE Recovery -----------------------------
(***************************************************************************)
(* Crash and restart of nodes. A server that starts runs bootstrap() before *)
(* it serves training processes: one thread (t1) asks the next node for    *)
(* the backups of its own checkpoints and falls back to the file system,   *)
(* another (t2) asks the previous node to back up to it again. Meanwhile   *)
(* the other nodes save, reconcile and evict.                              *)
(*                                                                         *)
(* A crash takes a node's memory, threads and training processes; the      *)
(* MySQL table and the files on disk survive. Saves and reconciliation are *)
(* coarser here than in Lifecycle: every file is saved once and a node has *)
(* one worker.                                                             *)
(***************************************************************************)
EXTENDS Integers, Sequences, FiniteSets

CONSTANTS
  WorldSize,      \* number of nodes: at least two, one alone has no bootstrap
  Files,          \* checkpoint file names
  NoFile,         \* "no file": not a member of Files
  Owner,          \* NODE_RANK of a file's row
  Iter,           \* its iteration
  MaxIteration,   \* CKPT_ENGINE_MAX_ITERATION_IN_CACHE
  RetryTimes,     \* attempts of t1: intervals 1, 2, 4, 8 <= 10 s in the code
  SkipFirst,      \* CKPT_ENGINE_SKIP_BOOTSTRAP is "on" for a first start
  MaxCrashes,     \* bound: crashes per behaviour
  Faults,         \* what may fail: transfers ("net"), allocations ("mem")
  MaxFaults       \* bound: failures per behaviour

Nodes == 0 .. WorldSize - 1
NextNode(n) == (n + 1) % WorldSize
PrevNode(n) == IF n = 0 THEN WorldSize - 1 ELSE n - 1
CheckpointState ==
  {"PENDING", "CACHED", "BACKED_UP", "PERSISTENT", "BROKEN", "OBSOLESCENT"}
NONE == "NONE"                               \* no row
Content == {"absent", "torn", "whole"}       \* no entry, partial, complete

ASSUME RecoveryAssumption ==
  /\ WorldSize \in Nat \ {0, 1}
  /\ NoFile \notin Files
  /\ IsFiniteSet(Files)
  /\ Owner \in [Files -> Nodes]
  /\ Iter \in [Files -> Nat]
  /\ MaxIteration \in Nat \ {0}
  /\ RetryTimes \in Nat \ {0}
  /\ SkipFirst \in BOOLEAN
  /\ MaxCrashes \in Nat
  /\ Faults \subseteq {"net", "mem"}
  /\ MaxFaults \in Nat

VARIABLES
  state, disk,            \* survive a crash: the rows' STATE, the files
  mem,                    \* Storage of a node: dict_ for its own files,
                          \* backup_dict_ for those of others
  q_, work_queue,         \* IterationManager and queued keys of a node
  saving,                 \* files between createMetadata and updateMetadata
  wpc, wkey,              \* the node's reconciliation worker
  up, ready, started,     \* server runs; bootstrap ended; ever started
  t1, tries, resp, ok,    \* retrieval: step, failed attempts, rows in hand,
                          \* no load of this attempt failed
  nomem,                  \* history: nodes short of memory for a file
  t2,                     \* re-backup request of a node to its previous node
  serv, hvec, hmove, hbad,\* its handler there: step, rows and their states,
                          \* files under way, some backup failed
  hstuck,                 \* files whose transfer never returns
  crashes, faults

rowVars  == <<state, disk>>
nodeVars == <<up, ready, started>>
workVars == <<wpc, wkey>>
t1Vars   == <<t1, tries, resp, ok, nomem>>
t2Vars   == <<t2, serv, hvec, hmove, hbad, hstuck>>
budget   == <<crashes, faults>>
vars == <<state, disk, mem, q_, work_queue, saving, wpc, wkey, up, ready,
          started, t1, tries, resp, ok, nomem, t2, serv, hvec, hmove, hbad,
          hstuck, crashes, faults>>

NoRows == [f \in Files |-> NONE]

Init ==
  /\ state = NoRows
  /\ disk = [f \in Files |-> "absent"]
  /\ mem = [n \in Nodes |-> [f \in Files |-> "absent"]]
  /\ q_ = [n \in Nodes |-> <<>>]
  /\ work_queue = [n \in Nodes |-> {}]
  /\ saving = {}
  /\ wpc = [n \in Nodes |-> "idle"]
  /\ wkey = [n \in Nodes |-> NoFile]
  /\ up = [n \in Nodes |-> FALSE]
  /\ ready = [n \in Nodes |-> FALSE]
  /\ started = [n \in Nodes |-> FALSE]
  /\ t1 = [n \in Nodes |-> "off"]
  /\ tries = [n \in Nodes |-> 0]
  /\ resp = [n \in Nodes |-> {}]
  /\ ok = [n \in Nodes |-> TRUE]
  /\ nomem = {}
  /\ t2 = [n \in Nodes |-> "off"]
  /\ serv = [n \in Nodes |-> "none"]
  /\ hvec = [n \in Nodes |-> NoRows]
  /\ hmove = [n \in Nodes |-> {}]
  /\ hbad = [n \in Nodes |-> FALSE]
  /\ hstuck = [n \in Nodes |-> {}]
  /\ crashes = 0
  /\ faults = 0

OwnFiles(n) == {f \in Files : Owner[f] = n}
Rows(n) == {f \in OwnFiles(n) : state[f] # NONE}
(* The rows recovery cares about: "dont load OBSOLESCENT ckpt".            *)
LiveRows(n) == {f \in Rows(n) : state[f] # "OBSOLESCENT"}
Dict(n) == {f \in OwnFiles(n) : mem[n][f] # "absent"}

Fault(kind) == kind \in Faults /\ faults < MaxFaults /\ faults' = faults + 1

-----------------------------------------------------------------------------
(* Start and crash of a server.                                            *)

(* main: operator, HTTP and inter-node server start, then bootstrap runs   *)
(* unless it is switched off.                                              *)
Start(n) ==
  LET skip == SkipFirst /\ ~started[n] IN
  /\ ~up[n]
  /\ up' = [up EXCEPT ![n] = TRUE]
  /\ started' = [started EXCEPT ![n] = TRUE]
  /\ ready' = [ready EXCEPT ![n] = skip]
  /\ t1' = [t1 EXCEPT ![n] = IF skip THEN "done" ELSE "ask"]
  /\ t2' = [t2 EXCEPT ![n] = IF skip THEN "done" ELSE "ask"]
  /\ UNCHANGED <<rowVars, mem, q_, work_queue, saving, workVars, tries, resp,
                 ok, nomem, serv, hvec, hmove, hbad, hstuck, budget>>

(* The worker of p is sending a backup to its next node, or stuck in it.   *)
Sending(p) == wpc[p] \in {"rdma", "stuck"}

(* Memory, queue, window, threads and training processes of n are gone.    *)
(* Its peers see their connections to n end: the previous node's worker    *)
(* retries its backup, or reads at end of file for ever if it was in the   *)
(* handshake; the next node's request to n fails and is repeated; and the  *)
(* handler that served n at the previous node gives up.                    *)
Crash(n) ==
  \E hung \in SUBSET {m \in {PrevNode(n)} : Sending(m)} :
  LET p == PrevNode(n)
      x == NextNode(n)
      gone == {n} \cup {m \in {p} \ hung : Sending(m)} IN
  /\ up[n]
  /\ crashes < MaxCrashes
  /\ crashes' = crashes + 1
  /\ up' = [up EXCEPT ![n] = FALSE]
  /\ ready' = [ready EXCEPT ![n] = FALSE]
  /\ mem' = [mem EXCEPT ![n] = [f \in Files |-> "absent"]]
  /\ q_' = [q_ EXCEPT ![n] = <<>>]
  /\ saving' = saving \ OwnFiles(n)
  /\ work_queue' = [m \in Nodes |->
       IF m = n THEN {}
       ELSE work_queue[m] \cup (IF m \in gone THEN {wkey[m]} ELSE {})]
  /\ wpc' = [m \in Nodes |->
       CASE m \in gone -> "idle" [] m \in hung -> "stuck" [] OTHER -> wpc[m]]
  /\ wkey' = [m \in Nodes |-> IF m \in gone THEN NoFile ELSE wkey[m]]
  /\ t1' = [t1 EXCEPT ![n] = "off"]
  /\ tries' = [tries EXCEPT ![n] = 0]
  /\ resp' = [resp EXCEPT ![n] = {}]
  /\ ok' = [ok EXCEPT ![n] = TRUE]
  /\ nomem' = nomem \ {n}
  /\ t2' = [m \in Nodes |->
       CASE m = n                          -> "off"
         [] m = x /\ m # n /\ t2[m] = "wait" -> "ask"
         [] OTHER                          -> t2[m]]
  /\ serv' = [m \in Nodes |-> IF m \in {n, x} THEN "none" ELSE serv[m]]
  /\ hvec' = [m \in Nodes |-> IF m \in {n, x} THEN NoRows ELSE hvec[m]]
  /\ hmove' = [m \in Nodes |-> IF m \in {n, x} THEN {} ELSE hmove[m]]
  /\ hbad' = [m \in Nodes |-> IF m \in {n, x} THEN FALSE ELSE hbad[m]]
  /\ hstuck' = [m \in Nodes |-> IF m \in {n, x} THEN {} ELSE hstuck[m]]
  /\ UNCHANGED <<rowVars, started, faults>>

-----------------------------------------------------------------------------
(* Saves and evictions on a node whose bootstrap ended (wait_ready).       *)

IsExist(n, i) == \E k \in 1 .. Len(q_[n]) : q_[n][k] = i
Admitted(f) == IsExist(Owner[f], Iter[f]) \/ Len(q_[Owner[f]]) < MaxIteration

(* createMetadata(PENDING): the iteration is recorded, memory allocated,   *)
(* the row written.                                                        *)
SaveCreate(f) ==
  LET n == Owner[f] IN
  /\ ready[n] /\ state[f] = NONE
  /\ Admitted(f)
  /\ q_' = [q_ EXCEPT ![n] = IF IsExist(n, Iter[f]) THEN @ ELSE Append(@, Iter[f])]
  /\ mem' = [mem EXCEPT ![n][f] = "torn"]
  /\ state' = [state EXCEPT ![f] = "PENDING"]
  /\ saving' = saving \cup {f}
  /\ UNCHANGED <<disk, work_queue, workVars, nodeVars, t1Vars, t2Vars, budget>>

(* The data is copied into the memfd; updateMetadata(CACHED) queues it.    *)
SaveDone(f) ==
  LET n == Owner[f] IN
  /\ f \in saving
  /\ saving' = saving \ {f}
  /\ mem' = [mem EXCEPT ![n][f] = "whole"]
  /\ state' = [state EXCEPT ![f] = "CACHED"]
  /\ work_queue' = [work_queue EXCEPT ![n] = @ \cup {f}]
  /\ UNCHANGED <<disk, q_, workVars, nodeVars, t1Vars, t2Vars, budget>>

(* A save of g waits for deleteOldestIteration: the window is full, and    *)
(* ranks save in lock step.                                                *)
Evicting(n) ==
  /\ ready[n]
  /\ \E g \in OwnFiles(n) : state[g] = NONE /\ ~Admitted(g)
  /\ saving \cap OwnFiles(n) = {}
OldestRows(n) == {f \in Rows(n) : Iter[f] = Head(q_[n])}

(* One row of the oldest iteration, once its copies are complete and the   *)
(* previous row is deleted from memory.                                    *)
EvictRow(f) ==
  LET n == Owner[f] IN
  /\ Evicting(n)
  /\ f \in OldestRows(n)
  /\ state[f] \notin {"CACHED", "BACKED_UP", "OBSOLESCENT"}
  /\ \A g \in OldestRows(n) : state[g] = "OBSOLESCENT" => mem[n][g] = "absent"
  /\ state' = [state EXCEPT ![f] = "OBSOLESCENT"]
  /\ work_queue' = [work_queue EXCEPT ![n] = @ \cup {f}]
  /\ UNCHANGED <<disk, mem, q_, saving, workVars, nodeVars, t1Vars, t2Vars,
                 budget>>

EvictDone(n) ==
  /\ Evicting(n)
  /\ OldestRows(n) # {}
  /\ \A f \in OldestRows(n) : state[f] = "OBSOLESCENT" /\ mem[n][f] = "absent"
  /\ q_' = [q_ EXCEPT ![n] = Tail(@)]
  /\ UNCHANGED <<rowVars, mem, work_queue, saving, workVars, nodeVars, t1Vars,
                 t2Vars, budget>>

-----------------------------------------------------------------------------
(* Reconcile, by the one worker of node n. A step that cannot be done now  *)
(* (the next node is down) leaves the key queued, as a retry does.         *)

Taken(n, f) == work_queue' = [work_queue EXCEPT ![n] = @ \ {f}]
Holds(n, pc, f) ==
  /\ wpc' = [wpc EXCEPT ![n] = pc]
  /\ wkey' = [wkey EXCEPT ![n] = f]

(* Backups that are not OBSOLESCENT, and states without a task.            *)
ReconcileIgnore(n, f) ==
  /\ wpc[n] = "idle" /\ f \in work_queue[n]
  /\ \/ Owner[f] # n /\ state[f] # "OBSOLESCENT"
     \/ Owner[f] = n /\ state[f] \in {"PENDING", "PERSISTENT", "BROKEN"}
                     /\ mem[n][f] # "absent"
     \/ state[f] = "OBSOLESCENT" /\ mem[n][f] = "absent"
  /\ Taken(n, f)
  /\ UNCHANGED <<rowVars, mem, q_, saving, workVars, nodeVars, t1Vars, t2Vars,
                 budget>>

(* CACHED: ClientUtil::Backup, whose other end allocates the entry.        *)
ReconcileBackup(n, f) ==
  LET x == NextNode(n) IN
  /\ wpc[n] = "idle" /\ f \in work_queue[n]
  /\ Owner[f] = n /\ state[f] = "CACHED" /\ mem[n][f] # "absent"
  /\ up[x]
  /\ Taken(n, f)
  /\ Holds(n, "rdma", f)
  /\ mem' = [mem EXCEPT ![x][f] = "torn"]
  /\ UNCHANGED <<rowVars, q_, saving, nodeVars, t1Vars, t2Vars, budget>>

(* The transfer ends: the next node queues the key; or it fails; or its    *)
(* handshake never returns (sock_sync_data, the dead ends of Wire).        *)
BackupEnd(n) ==
  LET x == NextNode(n)
      f == wkey[n] IN
  /\ wpc[n] = "rdma"
  /\ \/ /\ mem' = [mem EXCEPT ![x][f] = mem[n][f]]
        /\ work_queue' = [work_queue EXCEPT ![x] = @ \cup {f}]
        /\ Holds(n, "backed_up", f)
        /\ UNCHANGED faults
     \/ /\ Fault("net")
        /\ work_queue' = [work_queue EXCEPT ![n] = @ \cup {f}]
        /\ Holds(n, "idle", NoFile)
        /\ UNCHANGED mem
     \/ Fault("net") /\ Holds(n, "stuck", f) /\ UNCHANGED <<mem, work_queue>>
  /\ UNCHANGED <<rowVars, q_, saving, nodeVars, t1Vars, t2Vars, crashes>>

(* BACKED_UP: WriteToDisk opens with truncation ...                        *)
ReconcilePersist(n, f) ==
  /\ wpc[n] = "idle" /\ f \in work_queue[n]
  /\ Owner[f] = n /\ state[f] = "BACKED_UP" /\ mem[n][f] # "absent"
  /\ Taken(n, f)
  /\ Holds(n, "fwrite", f)
  /\ disk' = [disk EXCEPT ![f] = "torn"]
  /\ UNCHANGED <<state, mem, q_, saving, nodeVars, t1Vars, t2Vars, budget>>

(* ... and writes.                                                         *)
PersistEnd(n) ==
  /\ wpc[n] = "fwrite"
  /\ disk' = [disk EXCEPT ![wkey[n]] = mem[n][wkey[n]]]
  /\ Holds(n, "persistent", wkey[n])
  /\ UNCHANGED <<state, mem, q_, work_queue, saving, nodeVars, t1Vars, t2Vars,
                 budget>>

(* Faulty variants: to_update_state swapped, or not set for one task.      *)
PromotedSwapped(pc) == IF pc = "persistent" THEN "BACKED_UP" ELSE "PERSISTENT"
PromotedUnset(pc) == IF pc = "backed_up" THEN "BACKED_UP" ELSE "STATE_ANY"

Promoted(pc) == IF pc = "backed_up" THEN "BACKED_UP" ELSE "PERSISTENT"

(* updateState after either task; the key is queued again.                 *)
UpdateState(n) ==
  LET f == wkey[n] IN
  /\ wpc[n] \in {"backed_up", "persistent"}
  /\ state' = [state EXCEPT ![f] = Promoted(wpc[n])]
  /\ work_queue' = [work_queue EXCEPT ![n] = @ \cup {f}]
  /\ Holds(n, "idle", NoFile)
  /\ UNCHANGED <<disk, mem, q_, saving, nodeVars, t1Vars, t2Vars, budget>>

(* OBSOLESCENT: the owner tells the next node, then both delete.           *)
ReconcileDelete(n, f) ==
  LET x == NextNode(n) IN
  /\ wpc[n] = "idle" /\ f \in work_queue[n]
  /\ state[f] = "OBSOLESCENT" /\ mem[n][f] # "absent"
  /\ Owner[f] = n => up[x]
  /\ work_queue' = [m \in Nodes |->
       CASE m = n                -> work_queue[m] \ {f}
         [] m = x /\ Owner[f] = n -> work_queue[m] \cup {f}
         [] OTHER                -> work_queue[m]]
  /\ mem' = [mem EXCEPT ![n][f] = "absent"]
  /\ UNCHANGED <<rowVars, q_, saving, workVars, nodeVars, t1Vars, t2Vars, budget>>

-----------------------------------------------------------------------------
(* Thread t1 of bootstrap: retriveCheckpoint, else the file system.        *)

(* An attempt failed: sleep and try again, RetryTimes times in all.        *)
AttemptFails(n) ==
  /\ tries' = [tries EXCEPT ![n] = @ + 1]
  /\ t1' = [t1 EXCEPT ![n] = IF tries[n] + 1 < RetryTimes THEN "ask" ELSE "fs"]

(* BatchLoadRemote asks the next node, where handleBatchLoad wants an      *)
(* entry for every live row of n; one that is missing is an error, while   *)
(* no rows at all is a success with nothing to load.                       *)
BatchLoadRemote(n) ==
  LET x == NextNode(n) IN
  /\ t1[n] = "ask"
  /\ \/ /\ ~up[x] \/ \E f \in LiveRows(n) : mem[x][f] = "absent"
        /\ AttemptFails(n)
        /\ UNCHANGED <<resp, ok>>
     \/ /\ up[x] /\ \A f \in LiveRows(n) : mem[x][f] # "absent"
        /\ t1' = [t1 EXCEPT ![n] = "load"]
        /\ resp' = [resp EXCEPT ![n] = LiveRows(n)]
        /\ ok' = [ok EXCEPT ![n] = TRUE]
        /\ UNCHANGED tries
  /\ UNCHANGED <<rowVars, mem, q_, work_queue, saving, workVars, nodeVars,
                 nomem, t2Vars, budget>>

(* getNodeIP: LoadRemote connects to the node of the row's rank.           *)
LoadPeer(f) == Owner[f]

(* loadEach: one row through LoadRemote and the peer's handleLoad.         *)
LoadEach(n, f) ==
  LET peer == LoadPeer(f)
      found == up[peer] /\ mem[peer][f] # "absent" IN
  /\ t1[n] = "load"
  /\ f \in resp[n]
  /\ mem' = IF found THEN [mem EXCEPT ![n][f] = mem[peer][f]] ELSE mem
  /\ ok' = [ok EXCEPT ![n] = @ /\ found]
  /\ resp' = [resp EXCEPT ![n] = @ \ {f}]
  /\ UNCHANGED <<rowVars, q_, work_queue, saving, workVars, nodeVars, t1, tries,
                 nomem, t2Vars, budget>>

LoadAllDone(n) ==
  /\ t1[n] = "load"
  /\ resp[n] = {}
  /\ \/ /\ ok[n]
        /\ t1' = [t1 EXCEPT ![n] = "done"]
        /\ UNCHANGED tries
     \/ ~ok[n] /\ AttemptFails(n)
  /\ UNCHANGED <<rowVars, mem, q_, work_queue, saving, workVars, nodeVars, resp,
                 ok, nomem, t2Vars, budget>>

(* BatchLoadFromFileSystem: the rows are read once ...                     *)
FileSystemRows(n) ==
  /\ t1[n] = "fs"
  /\ resp' = [resp EXCEPT ![n] = LiveRows(n)]
  /\ t1' = [t1 EXCEPT ![n] = "files"]
  /\ UNCHANGED <<rowVars, mem, q_, work_queue, saving, workVars, nodeVars, tries,
                 ok, nomem, t2Vars, budget>>

(* Faulty variants: a short file is accepted; the iteration is forgotten;  *)
(* the loop ends at the first file.                                        *)
LoadFileShort(n, f) ==
  /\ t1[n] = "files" /\ f \in resp[n]
  /\ q_' = [q_ EXCEPT ![n] = IF IsExist(n, Iter[f]) THEN @ ELSE Append(@, Iter[f])]
  /\ mem' = [mem EXCEPT ![n][f] = IF disk[f] = "absent" THEN @ ELSE disk[f]]
  /\ resp' = [resp EXCEPT ![n] = IF disk[f] # "absent" THEN @ \ {f} ELSE {}]
  /\ UNCHANGED <<rowVars, work_queue, saving, workVars, nodeVars, t1, tries, ok,
                 nomem, t2Vars, budget>>
LoadFileNoPush(n, f) ==
  /\ t1[n] = "files" /\ f \in resp[n]
  /\ mem' = [mem EXCEPT ![n][f] = IF disk[f] = "whole" THEN "whole" ELSE @]
  /\ resp' = [resp EXCEPT ![n] = IF disk[f] = "whole" THEN @ \ {f} ELSE {}]
  /\ UNCHANGED <<rowVars, q_, work_queue, saving, workVars, nodeVars, t1, tries,
                 ok, nomem, t2Vars, budget>>
LoadFileOnce(n, f) ==
  /\ t1[n] = "files" /\ f \in resp[n]
  /\ q_' = [q_ EXCEPT ![n] = IF IsExist(n, Iter[f]) THEN @ ELSE Append(@, Iter[f])]
  /\ mem' = [mem EXCEPT ![n][f] = IF disk[f] = "whole" THEN "whole" ELSE @]
  /\ resp' = [resp EXCEPT ![n] = {}]
  /\ UNCHANGED <<rowVars, work_queue, saving, workVars, nodeVars, t1, tries, ok,
                 nomem, t2Vars, budget>>

(* ... and each, in the database's order, is recorded in the window and    *)
(* read from its file. TryLoadFromFile fails unless it gets memory         *)
(* (STATUS_OOM, memfdCalloc) and reads SIZE bytes, and the first failure   *)
(* ends the loop.                                                          *)
LoadFile(n, f) ==
  /\ t1[n] = "files" /\ f \in resp[n]
  /\ q_' = [q_ EXCEPT ![n] = IF IsExist(n, Iter[f]) THEN @ ELSE Append(@, Iter[f])]
  /\ \/ /\ mem' = [mem EXCEPT ![n][f] = IF disk[f] = "whole" THEN "whole" ELSE @]
        /\ resp' = [resp EXCEPT ![n] = IF disk[f] = "whole" THEN @ \ {f} ELSE {}]
        /\ UNCHANGED <<nomem, faults>>
     \/ /\ Fault("mem")
        /\ nomem' = nomem \cup {n}
        /\ resp' = [resp EXCEPT ![n] = {}]
        /\ UNCHANGED mem
  /\ UNCHANGED <<rowVars, work_queue, saving, workVars, nodeVars, t1, tries, ok,
                 t2Vars, crashes>>

(* Whatever BatchLoadFromFileSystem returned, t1 ends.                     *)
FileSystemDone(n) ==
  /\ t1[n] = "files" /\ resp[n] = {}
  /\ t1' = [t1 EXCEPT ![n] = "done"]
  /\ nomem' = nomem \ {n}
  /\ UNCHANGED <<rowVars, mem, q_, work_queue, saving, workVars, nodeVars, tries,
                 resp, ok, t2Vars, budget>>

-----------------------------------------------------------------------------
(* Thread t2 of bootstrap and handleNotifyBackup on the previous node.     *)

(* NotifyBackup: while the previous node is down, t2 tries again.          *)
NotifyBackup(n) ==
  /\ t2[n] = "ask"
  /\ up[PrevNode(n)]
  /\ t2' = [t2 EXCEPT ![n] = "wait"]
  /\ serv' = [serv EXCEPT ![n] = "check"]
  /\ UNCHANGED <<rowVars, mem, q_, work_queue, saving, workVars, nodeVars,
                 t1Vars, hvec, hmove, hbad, hstuck, budget>>

NeedBackup(p) == {f \in Rows(p) : state[f] \in {"BACKED_UP", "PERSISTENT"}}
(* "do not backup before retrived complete checkpoints"                    *)
Complete(p) == Dict(p) # {} /\ Cardinality(NeedBackup(p)) = Cardinality(Dict(p))

(* Not complete: the handler returns without a response and its thread     *)
(* waits for the next routine, while the requester waits for the response. *)
CheckComplete(n) ==
  LET p == PrevNode(n) IN
  /\ serv[n] = "check"
  /\ \/ ~Complete(p) /\ serv' = [serv EXCEPT ![n] = "silent"] /\ UNCHANGED hvec
     \/ /\ Complete(p)
        /\ serv' = [serv EXCEPT ![n] = "backup"]
        /\ hvec' = [hvec EXCEPT ![n] =
             [f \in Files |-> IF Owner[f] = p THEN state[f] ELSE NONE]]
  /\ UNCHANGED <<rowVars, mem, q_, work_queue, saving, workVars, nodeVars,
                 t1Vars, t2, hmove, hbad, hstuck, budget>>

(* Faulty variant: rows that are PERSISTENT are not sent.                  *)
BackupEachSkips(n, f) ==
  /\ serv[n] = "backup"
  /\ hvec[n][f] # NONE /\ f \notin hmove[n]
  /\ \/ /\ hvec[n][f] \in {"OBSOLESCENT", "PERSISTENT"}
        /\ hvec' = [hvec EXCEPT ![n][f] = NONE]
        /\ UNCHANGED <<mem, hmove>>
     \/ /\ hvec[n][f] \notin {"OBSOLESCENT", "PERSISTENT"}
        /\ mem' = [mem EXCEPT ![n][f] = "torn"]
        /\ hmove' = [hmove EXCEPT ![n] = @ \cup {f}]
        /\ UNCHANGED hvec
  /\ UNCHANGED <<rowVars, q_, work_queue, saving, workVars, nodeVars, t1Vars, t2,
                 serv, hbad, hstuck, budget>>

(* backupEach for one row: an error if there is no entry, nothing to do if *)
(* the row was OBSOLESCENT, else ClientUtil::Backup.                       *)
BackupEach(n, f) ==
  LET p == PrevNode(n) IN
  /\ serv[n] = "backup"
  /\ hvec[n][f] # NONE /\ f \notin hmove[n]
  /\ \/ /\ mem[p][f] = "absent"
        /\ hbad' = [hbad EXCEPT ![n] = TRUE]
        /\ hvec' = [hvec EXCEPT ![n][f] = NONE]
        /\ UNCHANGED <<mem, hmove>>
     \/ /\ mem[p][f] # "absent" /\ hvec[n][f] = "OBSOLESCENT"
        /\ hvec' = [hvec EXCEPT ![n][f] = NONE]
        /\ UNCHANGED <<mem, hmove, hbad>>
     \/ /\ mem[p][f] # "absent" /\ hvec[n][f] # "OBSOLESCENT"
        /\ mem' = [mem EXCEPT ![n][f] = "torn"]
        /\ hmove' = [hmove EXCEPT ![n] = @ \cup {f}]
        /\ UNCHANGED <<hvec, hbad>>
  /\ UNCHANGED <<rowVars, q_, work_queue, saving, workVars, nodeVars, t1Vars, t2,
                 serv, hstuck, budget>>

(* The thread of f has its result.                                         *)
Returned(n, f) ==
  /\ hmove' = [hmove EXCEPT ![n] = @ \ {f}]
  /\ hvec' = [hvec EXCEPT ![n][f] = NONE]
  /\ UNCHANGED hstuck

(* The transfer ends. An entry the previous node deleted meanwhile is read *)
(* after it was freed. Or its handshake never returns: the thread has no   *)
(* result, and handleNotifyBackup, which waits for all, no answer.         *)
BackupEachEnd(n, f) ==
  LET p == PrevNode(n) IN
  /\ f \in hmove[n] \ hstuck[n]
  /\ \/ /\ Returned(n, f)
        /\ mem' = [mem EXCEPT ![n][f] =
             IF mem[p][f] = "whole" THEN "whole" ELSE "torn"]
        /\ work_queue' = [work_queue EXCEPT ![n] = @ \cup {f}]
        /\ UNCHANGED <<hbad, faults>>
     \/ /\ Fault("net")
        /\ Returned(n, f)
        /\ hbad' = [hbad EXCEPT ![n] = TRUE]
        /\ UNCHANGED <<mem, work_queue>>
     \/ /\ Fault("net")
        /\ hstuck' = [hstuck EXCEPT ![n] = @ \cup {f}]
        /\ UNCHANGED <<hmove, hvec, hbad, mem, work_queue>>
  /\ UNCHANGED <<rowVars, q_, saving, workVars, nodeVars, t1Vars, t2, serv,
                 crashes>>

(* Faulty variant: no response.                                            *)
AnswerForgotten(n) ==
  /\ serv[n] = "backup" /\ hvec[n] = NoRows
  /\ serv' = [serv EXCEPT ![n] = "silent"]
  /\ hbad' = [hbad EXCEPT ![n] = FALSE]
  /\ UNCHANGED <<rowVars, mem, q_, work_queue, saving, workVars, nodeVars,
                 t1Vars, t2, hvec, hmove, hstuck, budget>>

(* All rows done: the response ends t2, or makes it ask again.             *)
Answer(n) ==
  /\ serv[n] = "backup" /\ hvec[n] = NoRows
  /\ t2' = [t2 EXCEPT ![n] = IF hbad[n] THEN "ask" ELSE "done"]
  /\ serv' = [serv EXCEPT ![n] = "none"]
  /\ hbad' = [hbad EXCEPT ![n] = FALSE]
  /\ UNCHANGED <<rowVars, mem, q_, work_queue, saving, workVars, nodeVars,
                 t1Vars, hvec, hmove, hstuck, budget>>

(* Both threads joined: MarkReady.                                         *)
MarkReady(n) ==
  /\ up[n] /\ ~ready[n]
  /\ t1[n] = "done" /\ t2[n] = "done"
  /\ ready' = [ready EXCEPT ![n] = TRUE]
  /\ UNCHANGED <<rowVars, mem, q_, work_queue, saving, workVars, up, started,
                 t1Vars, t2Vars, budget>>

-----------------------------------------------------------------------------
WorkerStep(n) ==
  \/ BackupEnd(n) \/ PersistEnd(n) \/ UpdateState(n)
  \/ \E f \in Files :
       \/ ReconcileIgnore(n, f) \/ ReconcileBackup(n, f)
       \/ ReconcilePersist(n, f) \/ ReconcileDelete(n, f)
T1Step(n) ==
  \/ BatchLoadRemote(n) \/ LoadAllDone(n) \/ FileSystemRows(n)
  \/ FileSystemDone(n) \/ \E f \in Files : LoadEach(n, f) \/ LoadFile(n, f)
T2Step(n) == NotifyBackup(n) \/ MarkReady(n)
ServStep(n) ==
  \/ CheckComplete(n) \/ Answer(n)
  \/ \E f \in Files : BackupEach(n, f) \/ BackupEachEnd(n, f)
TrainingStep ==
  \/ \E f \in Files : SaveCreate(f) \/ SaveDone(f) \/ EvictRow(f)
  \/ \E n \in Nodes : EvictDone(n)

Next ==
  \/ TrainingStep
  \/ \E n \in Nodes :
       \/ Start(n) \/ Crash(n)
       \/ WorkerStep(n) \/ T1Step(n) \/ T2Step(n) \/ ServStep(n)

Spec == Init /\ [][Next]_vars

(* Threads of running servers make progress; nobody promises a restart, a  *)
(* save or an eviction.                                                    *)
Fairness ==
  \A n \in Nodes :
    /\ WF_vars(WorkerStep(n)) /\ WF_vars(T1Step(n))
    /\ WF_vars(T2Step(n)) /\ WF_vars(ServStep(n))

FairSpec == Spec /\ Fairness
-----------------------------------------------------------------------------
(* Every variable keeps its shape.                                         *)
TypeOK ==
  /\ state \in [Files -> CheckpointState \cup {NONE}]
  /\ disk \in [Files -> Content]
  /\ mem \in [Nodes -> [Files -> Content]]
  /\ q_ \in [Nodes -> Seq(Nat)]
  /\ work_queue \in [Nodes -> SUBSET Files]
  /\ saving \in SUBSET Files
  /\ wpc \in [Nodes -> {"idle", "rdma", "stuck", "backed_up", "fwrite", "persistent"}]
  /\ wkey \in [Nodes -> Files \cup {NoFile}]
  /\ up \in [Nodes -> BOOLEAN] /\ ready \in [Nodes -> BOOLEAN]
  /\ started \in [Nodes -> BOOLEAN]
  /\ t1 \in [Nodes -> {"off", "ask", "load", "fs", "files", "done"}]
  /\ tries \in [Nodes -> Nat]
  /\ resp \in [Nodes -> SUBSET Files]
  /\ ok \in [Nodes -> BOOLEAN]
  /\ nomem \in SUBSET Nodes
  /\ t2 \in [Nodes -> {"off", "ask", "wait", "done"}]
  /\ serv \in [Nodes -> {"none", "check", "backup", "silent"}]
  /\ hvec \in [Nodes -> [Files -> CheckpointState \cup {NONE}]]
  /\ hmove \in [Nodes -> SUBSET Files]
  /\ hbad \in [Nodes -> BOOLEAN]
  /\ hstuck \in [Nodes -> SUBSET Files]
  /\ crashes \in Nat /\ faults \in Nat

(* A row that says PERSISTENT is backed by a complete file, whenever nodes *)
(* crash: WriteToDisk truncates first, so a crash in between must leave    *)
(* the row behind.                                                         *)
PersistentOnDisk ==
  \A f \in Files : state[f] = "PERSISTENT" => disk[f] = "whole"

(* What a node whose retrieval ended holds of its own files is complete,   *)
(* except what a training process is writing: no partial file and no       *)
(* unfinished transfer comes back as a checkpoint after a restart.         *)
RecoveredIntact ==
  \A f \in Files :
    t1[Owner[f]] = "done" /\ f \notin saving
      => mem[Owner[f]][f] \in {"absent", "whole"}

(* Whatever the order of crashes and restarts, a node that is ready holds  *)
(* a complete backup of every file whose row says it has been backed up:   *)
(* training goes on only when the next failure can be survived.            *)
ReadyHoldsBackups ==
  \A f \in Files :
    /\ ready[NextNode(Owner[f])]
    /\ state[f] \in {"BACKED_UP", "PERSISTENT"}
    => mem[NextNode(Owner[f])][f] = "whole"

(* The window of a node lists every iteration it holds files of, once,     *)
(* also when it is rebuilt from the rows: what is not listed would never   *)
(* be evicted. One restart keeps it within its limit. A second one may     *)
(* not: a load that ended the first rebuild early left iterations          *)
(* unlisted, saves took their places, and all rows come back together.     *)
WindowRebuilt ==
  \A n \in Nodes :
    /\ \A f \in Dict(n) : state[f] # "OBSOLESCENT" => IsExist(n, Iter[f])
    /\ \A i, j \in 1 .. Len(q_[n]) : q_[n][i] = q_[n][j] => i = j
    /\ crashes <= 1 => Len(q_[n]) <= MaxIteration

(* When the file system is the source, every live row has its file and     *)
(* there was memory for each, the thread that retrieves checkpoints ends   *)
(* with all of them in memory.                                             *)
RestoredFromDisk ==
  [][\A n \in Nodes \ nomem :
       /\ t1[n] = "files" /\ t1'[n] = "done"
       /\ \A f \in LiveRows(n) : disk[f] = "whole"
       => \A f \in LiveRows(n) : mem'[n][f] = "whole"]_vars

(* The previous node can serve a re-backup: both run, and its rows are     *)
(* exactly what it holds, all backed up before.                            *)
Serviceable(n) ==
  /\ up[n] /\ up[PrevNode(n)]
  /\ Rows(PrevNode(n)) # {}
  /\ \A f \in Rows(PrevNode(n)) : f \in NeedBackup(PrevNode(n)) \cap Dict(PrevNode(n))

(* A transfer of the re-backup is in a handshake that never returns.       *)
BackupStuck(n) == hstuck[n] # {}

(* Bootstrap ends if, from its request on, the previous node can serve it: *)
(* transfers that fail and return are repeated, and the retrieval gives up *)
(* in the end. One that never returns leaves the request without answer.   *)
BootstrapServed ==
  \A n \in Nodes :
    t2[n] = "ask" ~> ready[n] \/ ~Serviceable(n) \/ BackupStuck(n)

-----------------------------------------------------------------------------
(* A statement of the code base's comments that the code does not keep.    *)

(* "it fetches backup cache from next" (coordinator.h 41): when retrieval  *)
(* has ended, no backed-up file that the next node holds is missing.       *)
BackupFetched ==
  \A n \in Nodes :
    t1[n] = "done" =>
      \A f \in NeedBackup(n) :
        mem[NextNode(n)][f] = "whole" => mem[n][f] # "absent"
=============================================================================
