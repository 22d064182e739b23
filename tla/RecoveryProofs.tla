-------------------------- MODULE RecoveryProofs --------------------------
(***************************************************************************)
(* Proofs about Recovery, for every ring of at least two nodes, any files, *)
(* crashes, restarts and failed transfers.                                 *)
(***************************************************************************)
EXTENDS Recovery, SequenceTheorems, FiniteSetTheorems, TLAPS

(* A worker that is busy has a key.                                        *)
WorkerHasKey == \A n \in Nodes : wpc[n] # "idle" => wkey[n] \in Files

TypeInv == TypeOK /\ WorkerHasKey

-----------------------------------------------------------------------------
(* Both neighbours of a node are other nodes.                              *)
LEMMA RingFacts ==
  /\ \A n \in Nodes : NextNode(n) \in Nodes /\ NextNode(n) # n
  /\ \A n \in Nodes : PrevNode(n) \in Nodes /\ PrevNode(n) # n
  /\ \A f \in Files : Owner[f] \in Nodes /\ Iter[f] \in Nat
<1>1. WorldSize \in Nat /\ WorldSize > 1
  BY RecoveryAssumption
<1>2. ASSUME NEW n \in Nodes
      PROVE  NextNode(n) \in Nodes /\ NextNode(n) # n
  <2>1. CASE n + 1 < WorldSize
    BY <1>1, <2>1, SMT DEF Nodes, NextNode
  <2>2. CASE n + 1 = WorldSize
    BY <1>1, <2>2, SMT DEF Nodes, NextNode
  <2> QED
    BY <1>1, <2>1, <2>2 DEF Nodes
<1>3. ASSUME NEW n \in Nodes
      PROVE  PrevNode(n) \in Nodes /\ PrevNode(n) # n
  BY <1>1 DEF Nodes, PrevNode
<1> QED
  BY <1>2, <1>3, RecoveryAssumption

(* The window with the iteration of f in it.                               *)
LEMMA PushType ==
  ASSUME TypeOK, NEW n \in Nodes, NEW f \in Files
  PROVE  (IF IsExist(n, Iter[f]) THEN q_[n] ELSE Append(q_[n], Iter[f])) \in Seq(Nat)
  BY RingFacts DEF TypeOK

-----------------------------------------------------------------------------
(* Type correctness.                                                       *)

(* One entry of a node's memory is replaced.                               *)
LEMMA MemType ==
  ASSUME TypeOK, NEW n \in Nodes, NEW f \in Files, NEW c \in Content
  PROVE  [mem EXCEPT ![n][f] = c] \in [Nodes -> [Files -> Content]]
<1>1. [mem[n] EXCEPT ![f] = c] \in [Files -> Content]
  BY DEF TypeOK
<1> QED
  BY <1>1 DEF TypeOK

(* A worker's step and key.                                                *)
LEMMA HoldsType ==
  ASSUME TypeOK, NEW n \in Nodes, NEW f \in Files \cup {NoFile},
         NEW pc \in {"idle", "rdma", "stuck", "backed_up", "fwrite", "persistent"},
         Holds(n, pc, f)
  PROVE  /\ wpc' \in [Nodes -> {"idle", "rdma", "stuck", "backed_up", "fwrite", "persistent"}]
         /\ wkey' \in [Nodes -> Files \cup {NoFile}]
  BY DEF TypeOK, Holds

(* A row of a handler's list is done.                                      *)
LEMMA RowDoneType ==
  ASSUME TypeOK, NEW n \in Nodes, NEW f \in Files
  PROVE  [hvec EXCEPT ![n][f] = NONE] \in [Nodes -> [Files -> CheckpointState \cup {NONE}]]
<1>1. [hvec[n] EXCEPT ![f] = NONE] \in [Files -> CheckpointState \cup {NONE}]
  BY DEF TypeOK
<1> QED
  BY <1>1 DEF TypeOK

(* A failed attempt to retrieve.                                           *)
LEMMA AttemptType ==
  ASSUME TypeOK, NEW n \in Nodes, AttemptFails(n)
  PROVE  /\ t1' \in [Nodes -> {"off", "ask", "load", "fs", "files", "done"}]
         /\ tries' \in [Nodes -> Nat]
  BY DEF TypeOK, AttemptFails

LEMMA InitType == Init => TypeInv
  BY DEF Init, TypeInv, TypeOK, WorkerHasKey, CheckpointState, NONE, Content, NoRows

LEMMA StartType ==
  ASSUME TypeInv, NEW n \in Nodes, Start(n)
  PROVE  TypeInv'
<1> USE DEF TypeInv
<1>1. TypeOK'
  BY DEF TypeOK, Start, rowVars, workVars, budget
<1>2. WorkerHasKey'
  BY DEF WorkerHasKey, Start, workVars
<1> QED
  BY <1>1, <1>2

(* A worker that outlives the crash of n keeps its key; it may be stuck.   *)
Busy(m) == wpc[m] \in {"rdma", "stuck"} /\ wpc'[m] = "stuck"
LEMMA CrashWorkers ==
  ASSUME TypeOK, NEW n \in Nodes, Crash(n), NEW m \in Nodes
  PROVE  \/ wpc'[m] = "idle"
         \/ /\ m # n /\ wkey'[m] = wkey[m]
            /\ wpc'[m] = wpc[m] \/ Busy(m)
<1>1. PICK hung \in SUBSET {p \in {PrevNode(n)} : Sending(p)} :
        /\ wpc' = [p \in Nodes |->
             CASE p \in {n} \cup {r \in {PrevNode(n)} \ hung : Sending(r)} -> "idle"
               [] p \in hung -> "stuck" [] OTHER -> wpc[p]]
        /\ wkey' = [p \in Nodes |->
             IF p \in {n} \cup {r \in {PrevNode(n)} \ hung : Sending(r)}
             THEN NoFile ELSE wkey[p]]
  BY Zenon DEF Crash
<1> DEFINE gone == {n} \cup {r \in {PrevNode(n)} \ hung : Sending(r)}
<1>2. /\ wpc'[m] = CASE m \in gone -> "idle" [] m \in hung -> "stuck" [] OTHER -> wpc[m]
      /\ wkey'[m] = IF m \in gone THEN NoFile ELSE wkey[m]
  BY <1>1
<1>3. m \in hung => Sending(m)
  BY <1>1
<1>4. (m \notin gone => m # n) /\ (m \in gone => m \notin hung)
  BY RingFacts
<1> HIDE DEF gone
<1>5. CASE m \in gone
  <2>1. wpc'[m] = "idle"
    BY <1>2, <1>4, <1>5
  <2> QED
    BY <2>1
<1>6. CASE m \notin gone /\ m \in hung
  <2>1. wpc'[m] = "stuck"
    BY <1>2, <1>6
  <2> QED
    BY <1>2, <1>3, <1>4, <1>6, <2>1 DEF Busy, Sending
<1>7. CASE m \notin gone /\ m \notin hung
  BY <1>2, <1>4, <1>7, SMT
<1> QED
  BY <1>4, <1>5, <1>6, <1>7

LEMMA CrashType ==
  ASSUME TypeInv, NEW n \in Nodes, Crash(n)
  PROVE  TypeInv'
<1> USE DEF TypeInv
<1>1. PrevNode(n) \in Nodes /\ NextNode(n) \in Nodes
  BY RingFacts
<1>2. state' = state /\ disk' = disk
  BY DEF Crash, rowVars
<1>3. mem' \in [Nodes -> [Files -> Content]] /\ q_' \in [Nodes -> Seq(Nat)]
  BY DEF TypeOK, Crash, Content
<1>4. work_queue' \in [Nodes -> SUBSET Files]
  BY <1>1 DEF TypeOK, Crash, Sending, WorkerHasKey
<1>5. wpc' \in [Nodes -> {"idle", "rdma", "stuck", "backed_up", "fwrite", "persistent"}]
  BY DEF TypeOK, Crash
<1>6. wkey' \in [Nodes -> Files \cup {NoFile}]
  BY DEF TypeOK, Crash
<1>7. t2' \in [Nodes -> {"off", "ask", "wait", "done"}]
  BY DEF TypeOK, Crash
<1>8. /\ serv' \in [Nodes -> {"none", "check", "backup", "silent"}]
      /\ hbad' \in [Nodes -> BOOLEAN]
      /\ hmove' \in [Nodes -> SUBSET Files]
      /\ hstuck' \in [Nodes -> SUBSET Files]
  <2> DEFINE cut == {n, NextNode(n)}
  <2>1. /\ serv' = [m \in Nodes |-> IF m \in cut THEN "none" ELSE serv[m]]
        /\ hbad' = [m \in Nodes |-> IF m \in cut THEN FALSE ELSE hbad[m]]
        /\ hmove' = [m \in Nodes |-> IF m \in cut THEN {} ELSE hmove[m]]
        /\ hstuck' = [m \in Nodes |-> IF m \in cut THEN {} ELSE hstuck[m]]
    BY Zenon DEF Crash
  <2> HIDE DEF cut
  <2>2. hmove' \in [Nodes -> SUBSET Files] /\ hstuck' \in [Nodes -> SUBSET Files]
    BY <2>1 DEF TypeOK
  <2>3. serv' \in [Nodes -> {"none", "check", "backup", "silent"}]
    BY <2>1 DEF TypeOK
  <2>4. hbad' \in [Nodes -> BOOLEAN]
    BY <2>1, Zenon DEF TypeOK
  <2> QED
    BY <2>2, <2>3, <2>4
<1>9. hvec' \in [Nodes -> [Files -> CheckpointState \cup {NONE}]]
  BY DEF TypeOK, Crash, NoRows
<1>10. /\ saving' \in SUBSET Files
       /\ up' \in [Nodes -> BOOLEAN] /\ ready' \in [Nodes -> BOOLEAN]
       /\ started' \in [Nodes -> BOOLEAN]
       /\ crashes' \in Nat /\ faults' \in Nat
  BY DEF TypeOK, Crash
<1>11. /\ t1' \in [Nodes -> {"off", "ask", "load", "fs", "files", "done"}]
       /\ tries' \in [Nodes -> Nat]
       /\ resp' \in [Nodes -> SUBSET Files]
       /\ ok' \in [Nodes -> BOOLEAN]
       /\ nomem' \in SUBSET Nodes
  BY DEF TypeOK, Crash
<1>12. TypeOK'
  BY <1>2, <1>3, <1>4, <1>5, <1>6, <1>7, <1>8, <1>9, <1>10, <1>11 DEF TypeOK
<1>13. WorkerHasKey'
  <2> SUFFICES ASSUME NEW m \in Nodes, wpc'[m] # "idle"
               PROVE  wkey'[m] \in Files
    BY DEF WorkerHasKey
  <2>1. wkey'[m] = wkey[m] /\ wpc[m] # "idle"
    BY CrashWorkers DEF Busy
  <2> QED
    BY <2>1 DEF WorkerHasKey
<1> QED
  BY <1>12, <1>13

LEMMA TrainingType ==
  ASSUME TypeInv, TrainingStep
  PROVE  TypeInv'
<1> USE DEF TypeInv, workVars, nodeVars, t1Vars, t2Vars, budget, rowVars,
            CheckpointState, NONE, Content
<1>1. ASSUME NEW f \in Files, SaveCreate(f) PROVE TypeOK'
  BY <1>1, PushType, RingFacts DEF TypeOK, SaveCreate
<1>2. ASSUME NEW f \in Files, SaveDone(f) PROVE TypeOK'
  BY <1>2, RingFacts DEF TypeOK, SaveDone
<1>3. ASSUME NEW f \in Files, EvictRow(f) PROVE TypeOK'
  BY <1>3, RingFacts DEF TypeOK, EvictRow
<1>4. ASSUME NEW n \in Nodes, EvictDone(n) PROVE TypeOK'
  <2>1. q_[n] # <<>>
    BY <1>4, RecoveryAssumption DEF EvictDone, Evicting, Admitted, OwnFiles, TypeOK
  <2>2. Tail(q_[n]) \in Seq(Nat)
    BY <2>1 DEF TypeOK
  <2> QED
    BY <1>4, <2>2 DEF TypeOK, EvictDone
<1>5. TypeOK'
  BY <1>1, <1>2, <1>3, <1>4 DEF TrainingStep
<1>6. WorkerHasKey'
  BY DEF TrainingStep, SaveCreate, SaveDone, EvictRow, EvictDone, WorkerHasKey
<1> QED
  BY <1>5, <1>6

LEMMA WorkerType ==
  ASSUME TypeInv, NEW n \in Nodes, WorkerStep(n)
  PROVE  TypeInv'
<1> USE RingFacts DEF TypeInv, nodeVars, t1Vars, t2Vars, budget, rowVars
<1>1. CASE BackupEnd(n)
  <2>1. NextNode(n) \in Nodes /\ wkey[n] \in Files
    BY <1>1 DEF BackupEnd, WorkerHasKey
  <2>2. /\ wpc' \in [Nodes -> {"idle", "rdma", "stuck", "backed_up", "fwrite", "persistent"}]
        /\ wkey' \in [Nodes -> Files \cup {NoFile}]
    <3>1. \/ Holds(n, "backed_up", wkey[n]) \/ Holds(n, "idle", NoFile)
          \/ Holds(n, "stuck", wkey[n])
      BY <1>1 DEF BackupEnd
    <3> QED
      BY <2>1, <3>1, HoldsType
  <2>3. mem' \in [Nodes -> [Files -> Content]]
    <3>1. mem' = mem \/ mem' = [mem EXCEPT ![NextNode(n)][wkey[n]] = mem[n][wkey[n]]]
      BY <1>1 DEF BackupEnd
    <3>2. mem[n][wkey[n]] \in Content /\ mem \in [Nodes -> [Files -> Content]]
      BY <2>1 DEF TypeOK
    <3>3. [mem EXCEPT ![NextNode(n)][wkey[n]] = mem[n][wkey[n]]]
            \in [Nodes -> [Files -> Content]]
      BY <2>1, <3>2, MemType
    <3> QED
      BY <3>1, <3>2, <3>3
  <2>4. work_queue' \in [Nodes -> SUBSET Files]
    <3>1. \/ \E m \in Nodes : work_queue' = [work_queue EXCEPT ![m] = @ \cup {wkey[n]}]
          \/ work_queue' = work_queue
      BY <1>1, <2>1 DEF BackupEnd
    <3>2. CASE work_queue' = work_queue
      BY <3>2 DEF TypeOK
    <3>3. ASSUME NEW m \in Nodes,
                 work_queue' = [work_queue EXCEPT ![m] = @ \cup {wkey[n]}]
          PROVE  work_queue' \in [Nodes -> SUBSET Files]
      BY <2>1, <3>3 DEF TypeOK
    <3> QED
      BY <3>1, <3>2, <3>3
  <2>5. faults' \in Nat
    BY <1>1 DEF TypeOK, BackupEnd, Fault
  <2>6. TypeOK'
    BY <1>1, <2>2, <2>3, <2>4, <2>5 DEF TypeOK, BackupEnd
  <2>7. WorkerHasKey'
    BY <1>1, ZenonT(60) DEF TypeOK, BackupEnd, Holds, WorkerHasKey
  <2> QED
    BY <2>6, <2>7
<1>2. CASE PersistEnd(n)
  <2>1. TypeOK'
    BY <1>2 DEF TypeOK, PersistEnd, Holds, WorkerHasKey
  <2>2. WorkerHasKey'
    BY <1>2 DEF TypeOK, PersistEnd, Holds, WorkerHasKey
  <2> QED
    BY <2>1, <2>2
<1>3. CASE UpdateState(n)
  <2>1. TypeOK'
    BY <1>3 DEF TypeOK, UpdateState, Promoted, Holds, WorkerHasKey, CheckpointState
  <2>2. WorkerHasKey'
    BY <1>3 DEF TypeOK, UpdateState, Holds, WorkerHasKey
  <2> QED
    BY <2>1, <2>2
<1>4. ASSUME NEW f \in Files, ReconcileIgnore(n, f) PROVE TypeInv'
  <2>1. TypeOK'
    BY <1>4 DEF TypeOK, ReconcileIgnore, Taken, workVars
  <2>2. WorkerHasKey'
    BY <1>4 DEF ReconcileIgnore, WorkerHasKey, workVars
  <2> QED
    BY <2>1, <2>2
<1>5. ASSUME NEW f \in Files, ReconcileBackup(n, f) PROVE TypeInv'
  <2>1. TypeOK'
    BY <1>5 DEF TypeOK, ReconcileBackup, Taken, Holds, Content
  <2>2. WorkerHasKey'
    BY <1>5 DEF TypeOK, ReconcileBackup, Holds, WorkerHasKey
  <2> QED
    BY <2>1, <2>2
<1>6. ASSUME NEW f \in Files, ReconcilePersist(n, f) PROVE TypeInv'
  <2>1. TypeOK'
    BY <1>6 DEF TypeOK, ReconcilePersist, Taken, Holds, Content
  <2>2. WorkerHasKey'
    BY <1>6 DEF TypeOK, ReconcilePersist, Holds, WorkerHasKey
  <2> QED
    BY <2>1, <2>2
<1>7. ASSUME NEW f \in Files, ReconcileDelete(n, f) PROVE TypeInv'
  <2>1. TypeOK'
    BY <1>7 DEF TypeOK, ReconcileDelete, workVars, Content
  <2>2. WorkerHasKey'
    BY <1>7 DEF ReconcileDelete, WorkerHasKey, workVars
  <2> QED
    BY <2>1, <2>2
<1> QED
  BY <1>1, <1>2, <1>3, <1>4, <1>5, <1>6, <1>7 DEF WorkerStep

LEMMA RetrievalType ==
  ASSUME TypeInv, NEW n \in Nodes, T1Step(n)
  PROVE  TypeInv'
<1> USE RingFacts DEF TypeInv, workVars, nodeVars, t2Vars, budget, rowVars
<1>1. WorkerHasKey'
  BY DEF T1Step, BatchLoadRemote, LoadAllDone, FileSystemRows, FileSystemDone,
         LoadEach, LoadFile, WorkerHasKey
<1>2. LiveRows(n) \subseteq Files
  BY DEF LiveRows, Rows, OwnFiles
<1>3. CASE BatchLoadRemote(n)
  <2>1. /\ t1' \in [Nodes -> {"off", "ask", "load", "fs", "files", "done"}]
        /\ tries' \in [Nodes -> Nat]
    <3>1. AttemptFails(n) \/ (t1' = [t1 EXCEPT ![n] = "load"] /\ tries' = tries)
      BY <1>3 DEF BatchLoadRemote
    <3>2. /\ t1 \in [Nodes -> {"off", "ask", "load", "fs", "files", "done"}]
          /\ tries \in [Nodes -> Nat]
      BY DEF TypeOK
    <3> QED
      BY <3>1, <3>2, AttemptType
  <2>2. resp' \in [Nodes -> SUBSET Files] /\ ok' \in [Nodes -> BOOLEAN]
    <3>1. resp' = resp \/ resp' = [resp EXCEPT ![n] = LiveRows(n)]
      BY <1>3 DEF BatchLoadRemote
    <3>2. ok' = ok \/ ok' = [ok EXCEPT ![n] = TRUE]
      BY <1>3 DEF BatchLoadRemote
    <3>3. resp \in [Nodes -> SUBSET Files]
      BY DEF TypeOK
    <3>4. resp' \in [Nodes -> SUBSET Files]
      BY <1>2, <3>1, <3>3
    <3>5. ok' \in [Nodes -> BOOLEAN]
      BY <3>2, Zenon DEF TypeOK
    <3> QED
      BY <3>4, <3>5
  <2> QED
    BY <1>1, <1>3, <2>1, <2>2 DEF TypeOK, BatchLoadRemote
<1>4. CASE LoadAllDone(n)
  <2>1. /\ t1' \in [Nodes -> {"off", "ask", "load", "fs", "files", "done"}]
        /\ tries' \in [Nodes -> Nat]
    <3>1. AttemptFails(n) \/ (t1' = [t1 EXCEPT ![n] = "done"] /\ tries' = tries)
      BY <1>4 DEF LoadAllDone
    <3>2. /\ t1 \in [Nodes -> {"off", "ask", "load", "fs", "files", "done"}]
          /\ tries \in [Nodes -> Nat]
      BY DEF TypeOK
    <3> QED
      BY <3>1, <3>2, AttemptType
  <2> QED
    BY <1>1, <1>4, <2>1 DEF TypeOK, LoadAllDone
<1>5. CASE FileSystemRows(n)
  BY <1>1, <1>2, <1>5 DEF TypeOK, FileSystemRows
<1>6. CASE FileSystemDone(n)
  BY <1>1, <1>6 DEF TypeOK, FileSystemDone
<1>7. ASSUME NEW f \in Files, LoadEach(n, f) PROVE TypeInv'
  <2>1. mem[Owner[f]][f] \in Content
    BY DEF TypeOK
  <2>2. mem' \in [Nodes -> [Files -> Content]]
    <3>1. mem' = mem \/ mem' = [mem EXCEPT ![n][f] = mem[Owner[f]][f]]
      BY <1>7 DEF LoadEach, LoadPeer
    <3>2. [mem EXCEPT ![n][f] = mem[Owner[f]][f]] \in [Nodes -> [Files -> Content]]
      BY <2>1, MemType
    <3> QED
      BY <3>1, <3>2 DEF TypeOK
  <2> QED
    BY <1>1, <1>7, <2>2 DEF TypeOK, LoadEach
<1>8. ASSUME NEW f \in Files, LoadFile(n, f) PROVE TypeInv'
  <2>1. mem' \in [Nodes -> [Files -> Content]]
    <3> DEFINE c == IF disk[f] = "whole" THEN "whole" ELSE mem[n][f]
    <3>1. mem' = mem \/ mem' = [mem EXCEPT ![n][f] = c]
      BY <1>8 DEF LoadFile, TypeOK
    <3>2. c \in Content
      BY DEF TypeOK, Content
    <3> HIDE DEF c
    <3>3. [mem EXCEPT ![n][f] = c] \in [Nodes -> [Files -> Content]]
      BY <3>2, MemType
    <3> QED
      BY <3>1, <3>3 DEF TypeOK
  <2>2. q_' \in [Nodes -> Seq(Nat)]
    BY <1>8, PushType DEF TypeOK, LoadFile
  <2>3. resp' \in [Nodes -> SUBSET Files]
    <3>1. \/ resp' = [resp EXCEPT ![n] = @ \ {f}]
          \/ resp' = [resp EXCEPT ![n] = {}]
      BY <1>8 DEF LoadFile
    <3>2. resp \in [Nodes -> SUBSET Files]
      BY DEF TypeOK
    <3> QED
      BY <3>1, <3>2
  <2>4. nomem' \in SUBSET Nodes /\ faults' \in Nat
    BY <1>8 DEF TypeOK, LoadFile, Fault
  <2> QED
    BY <1>1, <1>8, <2>1, <2>2, <2>3, <2>4 DEF TypeOK, LoadFile
<1> QED
  BY <1>3, <1>4, <1>5, <1>6, <1>7, <1>8 DEF T1Step

LEMMA RebackupType ==
  ASSUME TypeInv, NEW n \in Nodes, T2Step(n) \/ ServStep(n)
  PROVE  TypeInv'
<1> USE DEF TypeInv, workVars, nodeVars, t1Vars, budget, rowVars
<1>0. /\ mem \in [Nodes -> [Files -> Content]]
      /\ work_queue \in [Nodes -> SUBSET Files]
      /\ serv \in [Nodes -> {"none", "check", "backup", "silent"}]
      /\ hvec \in [Nodes -> [Files -> CheckpointState \cup {NONE}]]
      /\ hmove \in [Nodes -> SUBSET Files]
      /\ hstuck \in [Nodes -> SUBSET Files]
      /\ faults \in Nat
  BY DEF TypeOK
<1>1. WorkerHasKey'
  BY DEF T2Step, ServStep, NotifyBackup, MarkReady, CheckComplete, Answer,
         BackupEach, BackupEachEnd, WorkerHasKey
<1>2. CASE NotifyBackup(n)
  BY <1>1, <1>2 DEF TypeOK, NotifyBackup
<1>3. CASE MarkReady(n)
  BY <1>1, <1>3 DEF TypeOK, MarkReady, t2Vars
<1>4. CASE CheckComplete(n)
  <2>1. [f \in Files |-> IF Owner[f] = PrevNode(n) THEN state[f] ELSE NONE]
          \in [Files -> CheckpointState \cup {NONE}]
    BY DEF TypeOK
  <2>2. hvec' \in [Nodes -> [Files -> CheckpointState \cup {NONE}]]
    <3>1. \/ hvec' = hvec
          \/ hvec' = [hvec EXCEPT ![n] = [f \in Files |->
                        IF Owner[f] = PrevNode(n) THEN state[f] ELSE NONE]]
      BY <1>4 DEF CheckComplete
    <3> QED
      BY <1>0, <2>1, <3>1
  <2>3. serv' \in [Nodes -> {"none", "check", "backup", "silent"}]
    <3>1. serv' = [serv EXCEPT ![n] = "silent"] \/ serv' = [serv EXCEPT ![n] = "backup"]
      BY <1>4 DEF CheckComplete
    <3> QED
      BY <1>0, <3>1
  <2> QED
    BY <1>1, <1>4, <2>2, <2>3 DEF TypeOK, CheckComplete
<1>5. CASE Answer(n)
  BY <1>1, <1>5 DEF TypeOK, Answer
<1>6. ASSUME NEW f \in Files, BackupEach(n, f) PROVE TypeInv'
  <2>1. mem' = mem \/ mem' = [mem EXCEPT ![n][f] = "torn"]
    BY <1>6 DEF BackupEach
  <2>2. mem' \in [Nodes -> [Files -> Content]]
    <3>1. "torn" \in Content
      BY DEF Content
    <3>2. [mem EXCEPT ![n][f] = "torn"] \in [Nodes -> [Files -> Content]]
      BY <3>1, MemType
    <3> QED
      BY <1>0, <2>1, <3>2
  <2>3. hvec' = hvec \/ hvec' = [hvec EXCEPT ![n][f] = NONE]
    BY <1>6 DEF BackupEach
  <2>4. hvec' \in [Nodes -> [Files -> CheckpointState \cup {NONE}]]
    <3>1. [hvec EXCEPT ![n][f] = NONE]
            \in [Nodes -> [Files -> CheckpointState \cup {NONE}]]
      BY RowDoneType
    <3> QED
      BY <1>0, <2>3, <3>1
  <2>5. hmove' = hmove \/ hmove' = [hmove EXCEPT ![n] = @ \cup {f}]
    BY <1>6 DEF BackupEach
  <2>6. hbad' = hbad \/ hbad' = [hbad EXCEPT ![n] = TRUE]
    BY <1>6 DEF BackupEach
  <2>7. hmove' \in [Nodes -> SUBSET Files]
    BY <1>0, <2>5
  <2>8. hbad' \in [Nodes -> BOOLEAN]
    BY <2>6, Zenon DEF TypeOK
  <2> QED
    BY <1>1, <1>6, <2>2, <2>4, <2>7, <2>8 DEF TypeOK, BackupEach
<1>7. ASSUME NEW f \in Files, BackupEachEnd(n, f) PROVE TypeInv'
  <2>1. \/ mem' = mem
        \/ mem' = [mem EXCEPT ![n][f] =
                     IF mem[PrevNode(n)][f] = "whole" THEN "whole" ELSE "torn"]
    BY <1>7 DEF BackupEachEnd
  <2>2. mem' \in [Nodes -> [Files -> Content]]
    <3>1. (IF mem[PrevNode(n)][f] = "whole" THEN "whole" ELSE "torn") \in Content
      BY DEF Content
    <3>2. [mem EXCEPT ![n][f] =
             IF mem[PrevNode(n)][f] = "whole" THEN "whole" ELSE "torn"]
            \in [Nodes -> [Files -> Content]]
      BY <3>1, MemType
    <3> QED
      BY <1>0, <2>1, <3>2
  <2>3. hvec' \in [Nodes -> [Files -> CheckpointState \cup {NONE}]]
    <3>1. hvec' = hvec \/ hvec' = [hvec EXCEPT ![n][f] = NONE]
      BY <1>7 DEF BackupEachEnd, Returned
    <3>2. [hvec EXCEPT ![n][f] = NONE]
            \in [Nodes -> [Files -> CheckpointState \cup {NONE}]]
      BY RowDoneType
    <3> QED
      BY <1>0, <3>1, <3>2
  <2>4. /\ hmove' \in [Nodes -> SUBSET Files]
        /\ hstuck' \in [Nodes -> SUBSET Files]
    <3>1. hmove' = hmove \/ hmove' = [hmove EXCEPT ![n] = @ \ {f}]
      BY <1>7 DEF BackupEachEnd, Returned
    <3>2. hstuck' = hstuck \/ hstuck' = [hstuck EXCEPT ![n] = @ \cup {f}]
      BY <1>7 DEF BackupEachEnd, Returned
    <3>3. hmove' \in [Nodes -> SUBSET Files]
      BY <1>0, <3>1
    <3>4. hstuck' \in [Nodes -> SUBSET Files]
      BY <1>0, <3>2
    <3> QED
      BY <3>3, <3>4
  <2>6. hbad' \in [Nodes -> BOOLEAN]
    <3>1. hbad' = hbad \/ hbad' = [hbad EXCEPT ![n] = TRUE]
      BY <1>7 DEF BackupEachEnd
    <3> QED
      BY <3>1, Zenon DEF TypeOK
  <2>5. work_queue' \in [Nodes -> SUBSET Files] /\ faults' \in Nat
    <3>1. work_queue' = work_queue \/ work_queue' = [work_queue EXCEPT ![n] = @ \cup {f}]
      BY <1>7 DEF BackupEachEnd
    <3>2. faults' = faults \/ faults' = faults + 1
      BY <1>7 DEF BackupEachEnd, Fault
    <3> QED
      BY <1>0, <3>1, <3>2
  <2> QED
    BY <1>1, <1>7, <2>2, <2>3, <2>4, <2>5, <2>6 DEF TypeOK, BackupEachEnd
<1> QED
  BY <1>2, <1>3, <1>4, <1>5, <1>6, <1>7 DEF T2Step, ServStep

LEMMA StepType == TypeInv /\ [Next]_vars => TypeInv'
<1> SUFFICES ASSUME TypeInv, [Next]_vars PROVE TypeInv'
  OBVIOUS
<1>1. CASE UNCHANGED vars
  BY <1>1 DEF TypeInv, TypeOK, WorkerHasKey, vars
<1>2. CASE TrainingStep
  BY <1>2, TrainingType
<1>3. ASSUME NEW n \in Nodes,
             Start(n) \/ Crash(n) \/ WorkerStep(n) \/ T1Step(n) \/ T2Step(n)
               \/ ServStep(n)
      PROVE  TypeInv'
  BY <1>3, StartType, CrashType, WorkerType, RetrievalType, RebackupType
<1> QED
  BY <1>1, <1>2, <1>3 DEF Next

(* The inductive invariant: types, and a key for every busy worker.        *)
THEOREM TypeInvariance == Spec => []TypeInv
  BY InitType, StepType, PTL DEF Spec

(* Rows, files, memories, queues and the locals of bootstrap keep their    *)
(* shape through any crashes and restarts.                                 *)
THEOREM TypeCorrect == Spec => []TypeOK
<1>1. TypeInv => TypeOK
  BY DEF TypeInv
<1> QED
  BY <1>1, TypeInvariance, PTL

-----------------------------------------------------------------------------
(* What survives crashes: rows that say PERSISTENT have a complete file,   *)
(* and nothing torn comes back as a checkpoint.                            *)

(* A node's own entry is torn only while a training process writes it, and *)
(* its row is PENDING for as long.                                         *)
OwnIntact ==
  \A f \in Files :
    /\ f \in saving => state[f] = "PENDING"
    /\ f \notin saving => mem[Owner[f]][f] # "torn"

(* A busy worker works for a file of its node, whose row still has the     *)
(* state it loaded; what it writes to disk is complete.                    *)
Knows(n) ==
  /\ wpc[n] # "idle" => Owner[wkey[n]] = n
  /\ wpc[n] \in {"rdma", "backed_up"} => state[wkey[n]] = "CACHED"
  /\ wpc[n] \in {"fwrite", "persistent"} => state[wkey[n]] = "BACKED_UP"
  /\ wpc[n] = "fwrite" => mem[n][wkey[n]] = "whole"
  /\ wpc[n] = "persistent" => disk[wkey[n]] = "whole"
WorkerKnows == \A n \in Nodes : Knows(n)

(* A re-backup only moves files of the previous node.                      *)
HandlerKnows ==
  \A n \in Nodes, f \in Files :
    hvec[n][f] # NONE \/ f \in hmove[n] => Owner[f] = PrevNode(n)

SafeInv == OwnIntact /\ WorkerKnows /\ HandlerKnows /\ PersistentOnDisk

-----------------------------------------------------------------------------
(* Entries of owners.                                                      *)

(* What nodes hold of their own files stays the same.                      *)
OwnSame == \A f \in Files : mem'[Owner[f]][f] = mem[Owner[f]][f]

LEMMA OwnFrame ==
  ASSUME TypeInv, SafeInv, OwnSame, UNCHANGED <<state, disk, saving, wpc, wkey>>
  PROVE  OwnIntact' /\ WorkerKnows' /\ PersistentOnDisk'
<1> USE DEF SafeInv
<1>1. OwnIntact'
  BY DEF OwnIntact, OwnSame
<1>2. WorkerKnows'
  <2> SUFFICES ASSUME NEW n \in Nodes
               PROVE  Knows(n)'
    BY DEF WorkerKnows
  <2>1. wpc[n] # "idle" => Owner[wkey[n]] = n /\ wkey[n] \in Files
    BY DEF WorkerKnows, Knows, TypeInv, WorkerHasKey
  <2>2. wpc[n] # "idle" => mem'[n][wkey[n]] = mem[n][wkey[n]]
    BY <2>1 DEF OwnSame
  <2> QED
    BY <2>2 DEF WorkerKnows, Knows
<1>3. PersistentOnDisk'
  BY DEF PersistentOnDisk
<1> QED
  BY <1>1, <1>2, <1>3

(* An entry of another node changes.                                       *)
LEMMA ElsewhereSame ==
  ASSUME TypeInv, NEW n \in Nodes, NEW f \in Files, Owner[f] # n, NEW c,
         mem' = [mem EXCEPT ![n][f] = c]
  PROVE  OwnSame
  BY RingFacts DEF TypeInv, TypeOK, OwnSame

(* A worker whose step and key, row, file and entry stay keeps Knows; of a *)
(* stuck one only the key matters.                                         *)
LEMMA KnowsFrame ==
  ASSUME TypeInv, WorkerKnows, NEW n \in Nodes,
         wpc'[n] = wpc[n], wkey'[n] = wkey[n],
         \A f \in Files :
           Owner[f] = n /\ wpc[n] \notin {"idle", "stuck"} /\ wkey[n] = f =>
           state'[f] = state[f] /\ disk'[f] = disk[f] /\ mem'[n][f] = mem[n][f]
  PROVE  Knows(n)'
<1>1. CASE wpc[n] \in {"idle", "stuck"}
  BY <1>1 DEF WorkerKnows, Knows
<1>2. CASE wpc[n] \notin {"idle", "stuck"}
  <2>1. wkey[n] \in Files /\ Owner[wkey[n]] = n
    BY <1>2 DEF WorkerKnows, Knows, TypeInv, WorkerHasKey
  <2>2. /\ state'[wkey[n]] = state[wkey[n]]
        /\ disk'[wkey[n]] = disk[wkey[n]]
        /\ mem'[n][wkey[n]] = mem[n][wkey[n]]
    BY <1>2, <2>1
  <2> QED
    BY <2>1, <2>2 DEF WorkerKnows, Knows
<1> QED
  BY <1>1, <1>2

-----------------------------------------------------------------------------
(* One lemma per group of actions.                                         *)

LEMMA SafeInit == Init => SafeInv
  BY RingFacts
     DEF Init, SafeInv, OwnIntact, WorkerKnows, Knows, HandlerKnows,
         PersistentOnDisk, NoRows, NONE

LEMMA StartSafe ==
  ASSUME TypeInv, SafeInv, NEW n \in Nodes, Start(n)
  PROVE  SafeInv'
<1>1. OwnSame /\ UNCHANGED <<state, disk, saving, wpc, wkey, hvec, hmove>>
  BY DEF Start, rowVars, workVars, OwnSame
<1>2. HandlerKnows'
  BY <1>1 DEF SafeInv, HandlerKnows
<1> QED
  BY <1>1, <1>2, OwnFrame DEF SafeInv

LEMMA CrashSafe ==
  ASSUME TypeInv, SafeInv, NEW n \in Nodes, Crash(n)
  PROVE  SafeInv'
<1> USE DEF SafeInv
<1>1. state' = state /\ disk' = disk
  BY DEF Crash, rowVars
<1>2. saving' = {f \in saving : Owner[f] # n}
  BY DEF Crash, OwnFiles, TypeInv, TypeOK
<1>3. \A f \in Files : mem'[n][f] = "absent"
  BY DEF Crash, TypeInv, TypeOK
<1>4. \A m \in Nodes : m # n => mem'[m] = mem[m]
  BY DEF Crash, TypeInv, TypeOK
<1>5. OwnIntact'
  BY <1>1, <1>2, <1>3, <1>4, RingFacts DEF OwnIntact
<1>6. WorkerKnows'
  <2> SUFFICES ASSUME NEW m \in Nodes PROVE Knows(m)'
    BY DEF WorkerKnows
  <2>1. \/ wpc'[m] = "idle"
        \/ m # n /\ wkey'[m] = wkey[m] /\ (wpc'[m] = wpc[m] \/ Busy(m))
    BY CrashWorkers DEF TypeInv
  <2>2. CASE wpc'[m] = "idle"
    BY <2>2 DEF Knows
  <2>3. CASE m # n /\ wpc'[m] = wpc[m] /\ wkey'[m] = wkey[m]
    BY <1>1, <1>4, <2>3, KnowsFrame
  <2>4. CASE Busy(m) /\ wkey'[m] = wkey[m]
    BY <2>4 DEF Busy, WorkerKnows, Knows
  <2> QED
    BY <2>1, <2>2, <2>3, <2>4
<1>7. HandlerKnows'
  <2> SUFFICES ASSUME NEW m \in Nodes, NEW f \in Files,
                      hvec'[m][f] # NONE \/ f \in hmove'[m]
               PROVE  Owner[f] = PrevNode(m)
    BY DEF HandlerKnows
  <2>1. hvec'[m] = hvec[m] \/ hvec'[m] = NoRows
    BY DEF Crash, TypeInv, TypeOK
  <2>2. hmove'[m] = hmove[m] \/ hmove'[m] = {}
    BY DEF Crash, TypeInv, TypeOK
  <2> QED
    BY <2>1, <2>2 DEF HandlerKnows, NoRows
<1>8. PersistentOnDisk'
  BY <1>1 DEF PersistentOnDisk
<1> QED
  BY <1>5, <1>6, <1>7, <1>8

LEMMA TrainingSafe ==
  ASSUME TypeInv, SafeInv, TrainingStep
  PROVE  SafeInv'
<1> USE DEF SafeInv
<1>1. wpc' = wpc /\ wkey' = wkey /\ hvec' = hvec /\ hmove' = hmove /\ disk' = disk
  BY DEF TrainingStep, SaveCreate, SaveDone, EvictRow, EvictDone, workVars, t2Vars,
         rowVars
<1>2. HandlerKnows'
  BY <1>1 DEF HandlerKnows
<1>3. ASSUME NEW f \in Files, state[f] \notin {"CACHED", "BACKED_UP"},
             NEW s \in CheckpointState, s # "PERSISTENT",
             state' = [state EXCEPT ![f] = s],
             \A m \in Nodes, g \in Files : g # f => mem'[m][g] = mem[m][g]
      PROVE  WorkerKnows' /\ PersistentOnDisk'
  <2>1. \A g \in Files : g # f => state'[g] = state[g]
    BY <1>3 DEF TypeInv, TypeOK
  <2>2. state'[f] # "PERSISTENT"
    BY <1>3 DEF TypeInv, TypeOK
  <2>3. PersistentOnDisk'
    BY <1>1, <2>1, <2>2 DEF PersistentOnDisk
  <2>4. ASSUME NEW n \in Nodes PROVE Knows(n)'
    <3>1. wpc[n] \notin {"idle", "stuck"} => wkey[n] # f
      BY <1>3 DEF WorkerKnows, Knows, TypeInv, TypeOK
    <3> QED
      BY <1>1, <1>3, <2>1, <3>1, KnowsFrame
  <2> QED
    BY <2>3, <2>4 DEF WorkerKnows
<1>4. ASSUME NEW f \in Files, SaveCreate(f) PROVE SafeInv'
  <2>1. /\ state' = [state EXCEPT ![f] = "PENDING"] /\ saving' = saving \cup {f}
        /\ mem' = [mem EXCEPT ![Owner[f]][f] = "torn"]
        /\ state[f] = NONE
    BY <1>4 DEF SaveCreate
  <2>2. \A m \in Nodes, g \in Files : g # f => mem'[m][g] = mem[m][g]
    BY <2>1, RingFacts DEF TypeInv, TypeOK
  <2>3. WorkerKnows' /\ PersistentOnDisk'
    BY <1>3, <2>1, <2>2 DEF NONE, CheckpointState
  <2>4. OwnIntact'
    BY <2>1, <2>2, RingFacts DEF OwnIntact, TypeInv, TypeOK
  <2> QED
    BY <1>2, <2>3, <2>4
<1>5. ASSUME NEW f \in Files, SaveDone(f) PROVE SafeInv'
  <2>1. /\ state' = [state EXCEPT ![f] = "CACHED"] /\ saving' = saving \ {f}
        /\ mem' = [mem EXCEPT ![Owner[f]][f] = "whole"]
        /\ state[f] = "PENDING"
    BY <1>5 DEF SaveDone, OwnIntact
  <2>2. \A m \in Nodes, g \in Files : g # f => mem'[m][g] = mem[m][g]
    BY <2>1, RingFacts DEF TypeInv, TypeOK
  <2>3. WorkerKnows' /\ PersistentOnDisk'
    BY <1>3, <2>1, <2>2 DEF CheckpointState
  <2>4. OwnIntact'
    BY <2>1, <2>2, RingFacts DEF OwnIntact, TypeInv, TypeOK
  <2> QED
    BY <1>2, <2>3, <2>4
<1>6. ASSUME NEW f \in Files, EvictRow(f) PROVE SafeInv'
  <2>1. /\ state' = [state EXCEPT ![f] = "OBSOLESCENT"] /\ saving' = saving
        /\ mem' = mem /\ state[f] \notin {"CACHED", "BACKED_UP"}
        /\ f \notin saving
    BY <1>6 DEF EvictRow, Evicting, OwnFiles
  <2>2. WorkerKnows' /\ PersistentOnDisk'
    BY <1>3, <2>1 DEF CheckpointState
  <2>3. OwnIntact'
    BY <2>1 DEF OwnIntact, TypeInv, TypeOK
  <2> QED
    BY <1>2, <2>2, <2>3
<1>7. ASSUME NEW n \in Nodes, EvictDone(n) PROVE SafeInv'
  <2>1. OwnSame /\ UNCHANGED <<state, disk, saving, wpc, wkey>>
    BY <1>7 DEF EvictDone, rowVars, workVars, OwnSame
  <2> QED
    BY <1>2, <2>1, OwnFrame
<1> QED
  BY <1>4, <1>5, <1>6, <1>7 DEF TrainingStep

LEMMA RetrievalSafe ==
  ASSUME TypeInv, SafeInv, NEW n \in Nodes, T1Step(n)
  PROVE  SafeInv'
<1> USE DEF SafeInv
<1>1. UNCHANGED <<state, disk, saving, wpc, wkey, hvec, hmove>>
  BY DEF T1Step, BatchLoadRemote, LoadAllDone, FileSystemRows, FileSystemDone,
         LoadEach, LoadFile, rowVars, workVars, t2Vars
<1>2. HandlerKnows'
  BY <1>1 DEF HandlerKnows
<1>3. CASE mem' = mem
  BY <1>1, <1>2, <1>3, OwnFrame DEF OwnSame
<1>4. ASSUME NEW f \in Files, LoadEach(n, f) PROVE SafeInv'
  <2>1. mem' = mem \/ mem' = [mem EXCEPT ![n][f] = mem[Owner[f]][f]]
    BY <1>4 DEF LoadEach, LoadPeer
  <2>2. OwnSame
    <3>1. CASE mem' = mem
      BY <3>1 DEF OwnSame
    <3>2. CASE Owner[f] = n /\ mem' = [mem EXCEPT ![n][f] = mem[Owner[f]][f]]
      <4>1. mem' = mem
        BY <3>2 DEF TypeInv, TypeOK
      <4> QED
        BY <3>1, <4>1
    <3>3. CASE Owner[f] # n /\ mem' = [mem EXCEPT ![n][f] = mem[Owner[f]][f]]
      BY <3>3, ElsewhereSame
    <3> QED
      BY <2>1, <3>1, <3>2, <3>3
  <2> QED
    BY <1>1, <1>2, <2>2, OwnFrame
<1>5. ASSUME NEW f \in Files, mem' = [mem EXCEPT ![n][f] = "whole"],
             LoadFile(n, f)
      PROVE  SafeInv'
  <2>1. mem' = [mem EXCEPT ![n][f] = "whole"]
    BY <1>5
  <2>2. \A m \in Nodes, g \in Files :
          mem'[m][g] = mem[m][g] \/ mem'[m][g] = "whole"
    BY <2>1 DEF TypeInv, TypeOK
  <2>3. OwnIntact'
    BY <1>1, <2>2, RingFacts DEF OwnIntact
  <2>4. ASSUME NEW m \in Nodes PROVE Knows(m)'
    <3>1. wpc[m] = "fwrite" => mem'[m][wkey[m]] = "whole"
      BY <2>2 DEF WorkerKnows, Knows, TypeInv, WorkerHasKey
    <3> QED
      BY <1>1, <3>1 DEF WorkerKnows, Knows
  <2>5. PersistentOnDisk'
    BY <1>1 DEF PersistentOnDisk
  <2> QED
    BY <1>2, <2>3, <2>4, <2>5 DEF WorkerKnows
<1>6. ASSUME NEW f \in Files, LoadFile(n, f)
      PROVE  mem' = mem \/ mem' = [mem EXCEPT ![n][f] = "whole"]
  <2>1. \/ mem' = mem
        \/ mem' = [mem EXCEPT ![n][f] = IF disk[f] = "whole" THEN "whole" ELSE mem[n][f]]
    BY <1>6 DEF LoadFile
  <2>2. [mem EXCEPT ![n][f] = mem[n][f]] = mem
    BY DEF TypeInv, TypeOK
  <2> QED
    BY <2>1, <2>2
<1>7. CASE \/ BatchLoadRemote(n) \/ LoadAllDone(n)
           \/ FileSystemRows(n) \/ FileSystemDone(n)
  BY <1>3, <1>7 DEF BatchLoadRemote, LoadAllDone, FileSystemRows, FileSystemDone
<1> QED
  BY <1>3, <1>4, <1>5, <1>6, <1>7 DEF T1Step

LEMMA RebackupSafe ==
  ASSUME TypeInv, SafeInv, NEW n \in Nodes, T2Step(n) \/ ServStep(n)
  PROVE  SafeInv'
<1> USE DEF SafeInv
<1>1. UNCHANGED <<state, disk, saving, wpc, wkey>>
  BY DEF T2Step, ServStep, NotifyBackup, MarkReady, CheckComplete, Answer,
         BackupEach, BackupEachEnd, rowVars, workVars
<1>2. CASE NotifyBackup(n) \/ MarkReady(n) \/ Answer(n)
  <2>1. OwnSame /\ UNCHANGED <<hvec, hmove>>
    BY <1>2 DEF NotifyBackup, MarkReady, Answer, OwnSame, t2Vars
  <2>2. HandlerKnows'
    BY <2>1 DEF HandlerKnows
  <2> QED
    BY <1>1, <2>1, <2>2, OwnFrame
<1>3. CASE CheckComplete(n)
  <2>1. OwnSame /\ hmove' = hmove
    BY <1>3 DEF CheckComplete, OwnSame
  <2>2. \/ hvec' = hvec
        \/ hvec' = [hvec EXCEPT ![n] = [f \in Files |->
                      IF Owner[f] = PrevNode(n) THEN state[f] ELSE NONE]]
    BY <1>3 DEF CheckComplete
  <2>3. HandlerKnows'
    <3> SUFFICES ASSUME NEW m \in Nodes, NEW f \in Files,
                        hvec'[m][f] # NONE \/ f \in hmove'[m]
                 PROVE  Owner[f] = PrevNode(m)
      BY DEF HandlerKnows
    <3>1. CASE hvec'[m] = hvec[m]
      BY <2>1, <3>1 DEF HandlerKnows
    <3>2. CASE m = n /\ hvec'[m] = [g \in Files |->
                 IF Owner[g] = PrevNode(n) THEN state[g] ELSE NONE]
      BY <2>1, <3>2 DEF HandlerKnows
    <3> QED
      BY <2>2, <3>1, <3>2 DEF TypeInv, TypeOK
  <2> QED
    BY <1>1, <2>1, <2>3, OwnFrame
<1>4. ASSUME NEW f \in Files, BackupEach(n, f) PROVE SafeInv'
  <2>1. Owner[f] = PrevNode(n) /\ Owner[f] # n
    BY <1>4, RingFacts DEF BackupEach, HandlerKnows
  <2>2. mem' = mem \/ mem' = [mem EXCEPT ![n][f] = "torn"]
    BY <1>4 DEF BackupEach
  <2>3. OwnSame
    <3>1. CASE mem' = mem
      BY <3>1 DEF OwnSame
    <3> QED
      BY <2>1, <2>2, <3>1, ElsewhereSame
  <2>4. hvec' = hvec \/ hvec' = [hvec EXCEPT ![n][f] = NONE]
    BY <1>4 DEF BackupEach
  <2>5. hmove' = hmove \/ hmove' = [hmove EXCEPT ![n] = @ \cup {f}]
    BY <1>4 DEF BackupEach
  <2>6. HandlerKnows'
    <3> SUFFICES ASSUME NEW m \in Nodes, NEW g \in Files,
                        hvec'[m][g] # NONE \/ g \in hmove'[m]
                 PROVE  Owner[g] = PrevNode(m)
      BY DEF HandlerKnows
    <3>1. hvec'[m][g] = hvec[m][g] \/ hvec'[m][g] = NONE
      <4>1. CASE hvec' = hvec
        BY <4>1
      <4>2. CASE hvec' = [hvec EXCEPT ![n][f] = NONE]
        <5>1. hvec \in [Nodes -> [Files -> CheckpointState \cup {NONE}]]
          BY DEF TypeInv, TypeOK
        <5> QED
          BY <4>2, <5>1
      <4> QED
        BY <2>4, <4>1, <4>2
    <3>2. g \in hmove'[m] => g \in hmove[m] \/ (m = n /\ g = f)
      BY <2>5 DEF TypeInv, TypeOK
    <3> QED
      BY <2>1, <3>1, <3>2 DEF HandlerKnows
  <2> QED
    BY <1>1, <2>3, <2>6, OwnFrame
<1>5. ASSUME NEW f \in Files, BackupEachEnd(n, f) PROVE SafeInv'
  <2>1. Owner[f] = PrevNode(n) /\ Owner[f] # n
    BY <1>5, RingFacts DEF BackupEachEnd, HandlerKnows
  <2>2. mem' = mem \/ \E c \in Content : mem' = [mem EXCEPT ![n][f] = c]
    BY <1>5 DEF BackupEachEnd, Content
  <2>3. OwnSame
    <3>1. CASE mem' = mem
      BY <3>1 DEF OwnSame
    <3> QED
      BY <2>1, <2>2, <3>1, ElsewhereSame
  <2>4. \/ UNCHANGED <<hvec, hmove>>
        \/ /\ hvec' = [hvec EXCEPT ![n][f] = NONE]
           /\ hmove' = [hmove EXCEPT ![n] = @ \ {f}]
    BY <1>5 DEF BackupEachEnd, Returned
  <2>5. HandlerKnows'
    <3>1. CASE UNCHANGED <<hvec, hmove>>
      BY <3>1 DEF HandlerKnows
    <3>2. CASE /\ hvec' = [hvec EXCEPT ![n][f] = NONE]
               /\ hmove' = [hmove EXCEPT ![n] = @ \ {f}]
      BY <3>2 DEF HandlerKnows, TypeInv, TypeOK
    <3> QED
      BY <2>4, <3>1, <3>2
  <2> QED
    BY <1>1, <2>3, <2>5, OwnFrame
<1> QED
  BY <1>2, <1>3, <1>4, <1>5 DEF T2Step, ServStep

LEMMA WorkerSafe ==
  ASSUME TypeInv, SafeInv, NEW n \in Nodes, WorkerStep(n)
  PROVE  SafeInv'
<1> USE DEF SafeInv
<1>1. UNCHANGED <<saving, hvec, hmove>>
  BY DEF WorkerStep, BackupEnd, PersistEnd, UpdateState, ReconcileIgnore,
         ReconcileBackup, ReconcilePersist, ReconcileDelete, t2Vars
<1>2. HandlerKnows'
  BY <1>1 DEF HandlerKnows
<1>3. ASSUME OwnSame, state' = state, disk' = disk,
             NEW pc, NEW k, Holds(n, pc, k), Knows(n)'
      PROVE  SafeInv'
  <2>1. OwnIntact' /\ PersistentOnDisk'
    BY <1>1, <1>3 DEF OwnIntact, PersistentOnDisk, OwnSame
  <2>2. ASSUME NEW m \in Nodes, m # n PROVE Knows(m)'
    <3>1. wpc'[m] = wpc[m] /\ wkey'[m] = wkey[m]
      BY <1>3, <2>2 DEF Holds, TypeInv, TypeOK
    <3> QED
      BY <1>3, <3>1, KnowsFrame DEF OwnSame
  <2> QED
    BY <1>2, <1>3, <2>1, <2>2 DEF WorkerKnows
<1>4. CASE BackupEnd(n)
  <2>1. /\ wkey[n] \in Files /\ Owner[wkey[n]] = n
        /\ NextNode(n) \in Nodes /\ NextNode(n) # n
        /\ state[wkey[n]] = "CACHED"
    BY <1>4, RingFacts DEF BackupEnd, TypeInv, WorkerHasKey, WorkerKnows, Knows
  <2>2. OwnSame
    <3>1. mem' = mem \/ mem' = [mem EXCEPT ![NextNode(n)][wkey[n]] = mem[n][wkey[n]]]
      BY <1>4 DEF BackupEnd
    <3>2. CASE mem' = mem
      BY <3>2 DEF OwnSame
    <3> QED
      BY <2>1, <3>1, <3>2, ElsewhereSame
  <2>3. state' = state /\ disk' = disk
    BY <1>4 DEF BackupEnd, rowVars
  <2>4. CASE Holds(n, "backed_up", wkey[n])
    <3>1. Knows(n)'
      BY <2>1, <2>3, <2>4 DEF Knows, Holds, TypeInv, TypeOK
    <3> QED
      BY <1>3, <2>2, <2>3, <2>4, <3>1
  <2>5. CASE Holds(n, "idle", NoFile)
    <3>1. Knows(n)'
      BY <2>5 DEF Knows, Holds, TypeInv, TypeOK
    <3> QED
      BY <1>3, <2>2, <2>3, <2>5, <3>1
  <2>6. CASE Holds(n, "stuck", wkey[n])
    <3>1. Knows(n)'
      BY <2>1, <2>6 DEF Knows, Holds, TypeInv, TypeOK
    <3> QED
      BY <1>3, <2>2, <2>3, <2>6, <3>1
  <2> QED
    BY <1>4, <2>4, <2>5, <2>6 DEF BackupEnd
<1>5. ASSUME NEW f \in Files, ReconcileBackup(n, f) PROVE SafeInv'
  <2>1. Owner[f] = n /\ NextNode(n) \in Nodes /\ NextNode(n) # n
    BY <1>5, RingFacts DEF ReconcileBackup
  <2>2. OwnSame
    BY <1>5, <2>1, ElsewhereSame DEF ReconcileBackup
  <2>3. state' = state /\ disk' = disk /\ state[f] = "CACHED" /\ Holds(n, "rdma", f)
    BY <1>5 DEF ReconcileBackup, rowVars
  <2>4. Knows(n)'
    BY <2>1, <2>3 DEF Knows, Holds, TypeInv, TypeOK
  <2> QED
    BY <1>3, <2>2, <2>3, <2>4
<1>6. ASSUME NEW f \in Files, ReconcileIgnore(n, f) PROVE SafeInv'
  <2>1. OwnSame /\ UNCHANGED <<state, disk, saving, wpc, wkey>>
    BY <1>6 DEF ReconcileIgnore, rowVars, workVars, OwnSame
  <2> QED
    BY <1>2, <2>1, OwnFrame
<1>7. ASSUME NEW f \in Files, ReconcilePersist(n, f) PROVE SafeInv'
  <2>1. /\ Owner[f] = n /\ state[f] = "BACKED_UP" /\ mem[n][f] # "absent"
        /\ state' = state /\ mem' = mem /\ disk' = [disk EXCEPT ![f] = "torn"]
        /\ Holds(n, "fwrite", f)
    BY <1>7 DEF ReconcilePersist
  <2>2. mem[n][f] = "whole"
    BY <2>1 DEF OwnIntact, TypeInv, TypeOK, Content
  <2>3. \A g \in Files : g # f => disk'[g] = disk[g]
    BY <2>1 DEF TypeInv, TypeOK
  <2>4. OwnIntact' /\ PersistentOnDisk'
    BY <1>1, <2>1, <2>3 DEF OwnIntact, PersistentOnDisk
  <2>5. Knows(n)'
    BY <2>1, <2>2 DEF Knows, Holds, TypeInv, TypeOK
  <2>6. ASSUME NEW m \in Nodes, m # n PROVE Knows(m)'
    <3>1. wpc'[m] = wpc[m] /\ wkey'[m] = wkey[m]
      BY <2>1, <2>6 DEF Holds, TypeInv, TypeOK
    <3> QED
      BY <2>1, <2>3, <2>6, <3>1, KnowsFrame
  <2> QED
    BY <1>2, <2>4, <2>5, <2>6 DEF WorkerKnows
<1>8. CASE PersistEnd(n)
  <2>1. /\ wkey[n] \in Files /\ Owner[wkey[n]] = n
        /\ state[wkey[n]] = "BACKED_UP" /\ mem[n][wkey[n]] = "whole"
    BY <1>8 DEF PersistEnd, TypeInv, WorkerHasKey, WorkerKnows, Knows
  <2>2. /\ state' = state /\ mem' = mem
        /\ disk' = [disk EXCEPT ![wkey[n]] = "whole"]
        /\ Holds(n, "persistent", wkey[n])
    BY <1>8, <2>1 DEF PersistEnd
  <2>3. \A g \in Files : disk'[g] = disk[g] \/ disk'[g] = "whole"
    BY <2>1, <2>2 DEF TypeInv, TypeOK
  <2>4. OwnIntact' /\ PersistentOnDisk'
    BY <1>1, <2>2, <2>3 DEF OwnIntact, PersistentOnDisk
  <2>5. Knows(n)'
    BY <2>1, <2>2 DEF Knows, Holds, TypeInv, TypeOK
  <2>6. ASSUME NEW m \in Nodes, m # n PROVE Knows(m)'
    <3>1. wpc'[m] = wpc[m] /\ wkey'[m] = wkey[m]
      BY <2>2, <2>6 DEF Holds, TypeInv, TypeOK
    <3>2. \A g \in Files : Owner[g] = m => disk'[g] = disk[g]
      BY <2>1, <2>2, <2>6 DEF TypeInv, TypeOK
    <3> QED
      BY <2>2, <3>1, <3>2, KnowsFrame
  <2> QED
    BY <1>2, <2>4, <2>5, <2>6 DEF WorkerKnows
<1>9. CASE UpdateState(n)
  <2>1. /\ wkey[n] \in Files /\ Owner[wkey[n]] = n
        /\ state[wkey[n]] \in {"CACHED", "BACKED_UP"}
        /\ wpc[n] = "persistent" => disk[wkey[n]] = "whole"
        /\ wpc[n] \in {"backed_up", "persistent"}
    BY <1>9 DEF UpdateState, TypeInv, WorkerHasKey, WorkerKnows, Knows
  <2>2. /\ state' = [state EXCEPT ![wkey[n]] = Promoted(wpc[n])]
        /\ mem' = mem /\ disk' = disk /\ Holds(n, "idle", NoFile)
    BY <1>9 DEF UpdateState
  <2>3. \A g \in Files : g # wkey[n] => state'[g] = state[g]
    BY <2>2 DEF TypeInv, TypeOK
  <2>4. state'[wkey[n]] = Promoted(wpc[n])
    BY <2>1, <2>2 DEF TypeInv, TypeOK
  <2>5. OwnIntact'
    <3>1. wkey[n] \notin saving
      BY <2>1 DEF OwnIntact
    <3> QED
      BY <1>1, <2>2, <2>3, <3>1 DEF OwnIntact
  <2>6. PersistentOnDisk'
    BY <2>1, <2>2, <2>3, <2>4 DEF PersistentOnDisk, Promoted
  <2>7. Knows(n)'
    BY <2>2 DEF Knows, Holds, TypeInv, TypeOK
  <2>8. ASSUME NEW m \in Nodes, m # n PROVE Knows(m)'
    <3>1. wpc'[m] = wpc[m] /\ wkey'[m] = wkey[m]
      BY <2>2, <2>8 DEF Holds, TypeInv, TypeOK
    <3> QED
      BY <2>1, <2>2, <2>3, <2>8, <3>1, KnowsFrame
  <2> QED
    BY <1>2, <2>5, <2>6, <2>7, <2>8 DEF WorkerKnows
<1>10. ASSUME NEW f \in Files, ReconcileDelete(n, f) PROVE SafeInv'
  <2>1. /\ state[f] = "OBSOLESCENT" /\ mem' = [mem EXCEPT ![n][f] = "absent"]
        /\ UNCHANGED <<state, disk, wpc, wkey>>
    BY <1>10 DEF ReconcileDelete, rowVars, workVars
  <2>2. \A m \in Nodes, g \in Files :
          mem'[m][g] = mem[m][g] \/ (g = f /\ mem'[m][g] = "absent")
    BY <2>1 DEF TypeInv, TypeOK
  <2>3. OwnIntact' /\ PersistentOnDisk'
    BY <1>1, <2>1, <2>2, RingFacts DEF OwnIntact, PersistentOnDisk
  <2>4. ASSUME NEW m \in Nodes PROVE Knows(m)'
    <3>1. wpc[m] \in {"idle", "rdma", "stuck", "backed_up", "fwrite", "persistent"}
      BY DEF TypeInv, TypeOK
    <3>2. wpc[m] \notin {"idle", "stuck"} => wkey[m] # f
      BY <2>1, <3>1 DEF WorkerKnows, Knows
    <3>3. \A g \in Files :
            Owner[g] = m /\ wpc[m] \notin {"idle", "stuck"} /\ wkey[m] = g =>
            state'[g] = state[g] /\ disk'[g] = disk[g] /\ mem'[m][g] = mem[m][g]
      BY <2>1, <2>2, <3>2
    <3>4. wpc'[m] = wpc[m] /\ wkey'[m] = wkey[m]
      BY <2>1
    <3> QED
      BY <3>3, <3>4, KnowsFrame
  <2> QED
    BY <1>2, <2>3, <2>4 DEF WorkerKnows
<1> QED
  BY <1>4, <1>5, <1>6, <1>7, <1>8, <1>9, <1>10 DEF WorkerStep

LEMMA StepSafe == TypeInv /\ SafeInv /\ [Next]_vars => SafeInv'
<1> SUFFICES ASSUME TypeInv, SafeInv, [Next]_vars PROVE SafeInv'
  OBVIOUS
<1>1. CASE UNCHANGED vars
  BY <1>1 DEF SafeInv, OwnIntact, WorkerKnows, Knows, HandlerKnows,
              PersistentOnDisk, vars
<1>2. CASE TrainingStep
  BY <1>2, TrainingSafe
<1>3. ASSUME NEW n \in Nodes,
             Start(n) \/ Crash(n) \/ WorkerStep(n) \/ T1Step(n) \/ T2Step(n)
               \/ ServStep(n)
      PROVE  SafeInv'
  BY <1>3, StartSafe, CrashSafe, WorkerSafe, RetrievalSafe, RebackupSafe
<1> QED
  BY <1>1, <1>2, <1>3 DEF Next

(* The inductive invariant: own entries are torn only while they are       *)
(* written, workers act on rows that still are what they loaded, re-backup *)
(* handlers move only what belongs to their node.                          *)
THEOREM SafeInvariance == Spec => []SafeInv
  BY TypeInvariance, SafeInit, StepSafe, PTL DEF Spec

(* A row says PERSISTENT only when its file is complete, wherever any      *)
(* number of nodes crash, although WriteToDisk truncates before it writes. *)
THEOREM PersistentCorrect == Spec => []PersistentOnDisk
<1>1. SafeInv => PersistentOnDisk
  BY DEF SafeInv
<1> QED
  BY <1>1, SafeInvariance, PTL

(* Nothing partial comes back as a checkpoint: after BatchLoadRemote or    *)
(* BatchLoadFromFileSystem a node holds its files completely or not at all.*)
THEOREM RecoveredCorrect == Spec => []RecoveredIntact
<1>1. TypeInv /\ SafeInv => RecoveredIntact
  BY RingFacts DEF TypeInv, TypeOK, Content, SafeInv, OwnIntact, RecoveredIntact
<1> QED
  BY <1>1, TypeInvariance, SafeInvariance, PTL

-----------------------------------------------------------------------------
(***************************************************************************)
(* Bootstrap: what a restarted node holds before it is ready.              *)
(***************************************************************************)

(* A node that is down has no bootstrap; one that is ready has ended both  *)
(* threads; a handler serves a request that waits.                         *)
BootFlags ==
  \A n \in Nodes :
    /\ ready[n] => t1[n] = "done" /\ t2[n] = "done"
    /\ serv[n] # "none" => t2[n] = "wait"
    /\ up[n] => started[n]
    /\ ~up[n] => t1[n] = "off" /\ t2[n] = "off"

(* Until its retrieval has ended, no worker and no training process of a   *)
(* node touches its own files.                                             *)
Quiet ==
  \A n \in Nodes :
    t1[n] # "done" =>
      /\ wpc[n] = "idle"
      /\ \A f \in OwnFiles(n) : f \notin saving /\ f \notin work_queue[n]

(* The rows in hand are the node's own.                                    *)
InHand == \A n \in Nodes : resp[n] \subseteq OwnFiles(n)

BootInv == BootFlags /\ Quiet /\ InHand

(* What the groups of actions leave alone.                                 *)
LEMMA TrainingFrame ==
  ASSUME TrainingStep
  PROVE  UNCHANGED <<disk, wpc, wkey, up, ready, started, t1, tries, resp, ok,
                     nomem, t2, serv, hvec, hmove, hbad, crashes, faults>>
  BY DEF TrainingStep, SaveCreate, SaveDone, EvictRow, EvictDone, workVars,
         nodeVars, t1Vars, t2Vars, budget, rowVars

LEMMA WorkerFrame ==
  ASSUME NEW n \in Nodes, WorkerStep(n)
  PROVE  UNCHANGED <<q_, saving, up, ready, started, t1, tries, resp, ok, nomem,
                     t2, serv, hvec, hmove, hbad, crashes>>
  BY DEF WorkerStep, BackupEnd, PersistEnd, UpdateState, ReconcileIgnore,
         ReconcileBackup, ReconcilePersist, ReconcileDelete, nodeVars, t1Vars,
         t2Vars, budget

LEMMA RetrievalFrame ==
  ASSUME NEW n \in Nodes, T1Step(n)
  PROVE  UNCHANGED <<state, disk, work_queue, saving, wpc, wkey, up, ready, started,
                     t2, serv, hvec, hmove, hbad, crashes>>
  BY DEF T1Step, BatchLoadRemote, LoadAllDone, FileSystemRows, FileSystemDone,
         LoadEach, LoadFile, rowVars, workVars, nodeVars, t2Vars, budget

LEMMA RebackupFrame ==
  ASSUME NEW n \in Nodes, T2Step(n) \/ ServStep(n)
  PROVE  UNCHANGED <<state, disk, q_, saving, wpc, wkey, up, started, t1, tries, resp,
                     ok, nomem, crashes>>
  BY DEF T2Step, ServStep, NotifyBackup, MarkReady, CheckComplete, Answer,
         BackupEach, BackupEachEnd, rowVars, workVars, nodeVars, t1Vars, budget

(* A step of thread t1 is a step of one that has not ended, and other      *)
(* nodes' threads stay where they are.                                     *)
LEMMA RetrievalMoves ==
  ASSUME TypeInv, NEW n \in Nodes, T1Step(n)
  PROVE  /\ t1[n] \in {"ask", "load", "fs", "files"}
         /\ t1'[n] # "off"
         /\ \A m \in Nodes \ {n} : /\ t1'[m] = t1[m] /\ resp'[m] = resp[m]
                                   /\ m \in nomem => m \in nomem'
<1> USE DEF TypeInv, TypeOK
<1>1. CASE BatchLoadRemote(n)
  BY <1>1 DEF BatchLoadRemote, AttemptFails
<1>2. CASE LoadAllDone(n)
  BY <1>2 DEF LoadAllDone, AttemptFails
<1>3. CASE FileSystemRows(n) \/ FileSystemDone(n)
  BY <1>3 DEF FileSystemRows, FileSystemDone
<1>4. CASE \E f \in Files : LoadEach(n, f) \/ LoadFile(n, f)
  BY <1>4 DEF LoadEach, LoadFile
<1> QED
  BY <1>1, <1>2, <1>3, <1>4 DEF T1Step

LEMMA BootInit == Init => BootInv
  BY DEF Init, BootInv, BootFlags, Quiet, InHand

LEMMA StepFlags ==
  ASSUME TypeInv, BootInv, Next
  PROVE  BootFlags'
<1> USE DEF BootInv
<1>1. CASE TrainingStep
  BY <1>1, TrainingFrame DEF BootFlags
<1>2. ASSUME NEW n \in Nodes, WorkerStep(n) PROVE BootFlags'
  BY <1>2, WorkerFrame DEF BootFlags
<1>3. ASSUME NEW n \in Nodes, T1Step(n) PROVE BootFlags'
  BY <1>3, RetrievalFrame, RetrievalMoves DEF BootFlags
<1>4. ASSUME NEW n \in Nodes, Start(n) PROVE BootFlags'
  <2> SUFFICES ASSUME NEW m \in Nodes
               PROVE  /\ ready'[m] => t1'[m] = "done" /\ t2'[m] = "done"
                      /\ serv'[m] # "none" => t2'[m] = "wait"
                      /\ up'[m] => started'[m]
                      /\ ~up'[m] => t1'[m] = "off" /\ t2'[m] = "off"
    BY DEF BootFlags
  <2>1. CASE m # n
    BY <1>4, <2>1 DEF Start, BootFlags, TypeInv, TypeOK
  <2>2. CASE m = n
    <3>1. ~up[m] /\ serv[m] = "none"
      BY <1>4, <2>2 DEF Start, BootFlags
    <3> QED
      BY <1>4, <2>2, <3>1 DEF Start, TypeInv, TypeOK
  <2> QED
    BY <2>1, <2>2
<1>5. ASSUME NEW n \in Nodes, Crash(n) PROVE BootFlags'
  <2> SUFFICES ASSUME NEW m \in Nodes
               PROVE  /\ ready'[m] => t1'[m] = "done" /\ t2'[m] = "done"
                      /\ serv'[m] # "none" => t2'[m] = "wait"
                      /\ up'[m] => started'[m]
                      /\ ~up'[m] => t1'[m] = "off" /\ t2'[m] = "off"
    BY DEF BootFlags
  <2>1. CASE m # n
    <3>1. ready'[m] = ready[m] /\ up'[m] = up[m] /\ started'[m] = started[m]
          /\ t1'[m] = t1[m]
      BY <1>5, <2>1 DEF Crash, TypeInv, TypeOK
    <3>2. \/ t2'[m] = t2[m] /\ serv'[m] = serv[m]
          \/ t2'[m] = t2[m] /\ serv'[m] = "none"
          \/ t2[m] = "wait" /\ serv'[m] = "none"
      BY <1>5, <2>1 DEF Crash, TypeInv, TypeOK
    <3> QED
      BY <3>1, <3>2 DEF BootFlags
  <2>2. CASE m = n
    BY <1>5, <2>2 DEF Crash, TypeInv, TypeOK
  <2> QED
    BY <2>1, <2>2
<1>6. ASSUME NEW n \in Nodes, T2Step(n) \/ ServStep(n) PROVE BootFlags'
  <2>1. UNCHANGED <<up, started, t1>>
    BY <1>6, RebackupFrame
  <2>2. CASE NotifyBackup(n)
    BY <2>1, <2>2 DEF NotifyBackup, BootFlags, TypeInv, TypeOK, nodeVars
  <2>3. CASE MarkReady(n)
    BY <2>1, <2>3 DEF MarkReady, BootFlags, TypeInv, TypeOK, t2Vars
  <2>4. CASE CheckComplete(n)
    BY <2>1, <2>4 DEF CheckComplete, BootFlags, TypeInv, TypeOK, nodeVars
  <2>5. CASE Answer(n)
    BY <2>1, <2>5 DEF Answer, BootFlags, TypeInv, TypeOK, nodeVars
  <2>6. CASE \E f \in Files : BackupEach(n, f) \/ BackupEachEnd(n, f)
    BY <2>1, <2>6 DEF BackupEach, BackupEachEnd, BootFlags, nodeVars
  <2> QED
    BY <1>6, <2>2, <2>3, <2>4, <2>5, <2>6 DEF T2Step, ServStep
<1> QED
  BY <1>1, <1>2, <1>3, <1>4, <1>5, <1>6 DEF Next

LEMMA StepInHand ==
  ASSUME TypeInv, BootInv, Next
  PROVE  InHand'
<1> USE DEF BootInv, InHand, OwnFiles
<1>1. CASE TrainingStep
  BY <1>1, TrainingFrame
<1>2. ASSUME NEW n \in Nodes, WorkerStep(n) \/ T2Step(n) \/ ServStep(n) \/ Start(n)
      PROVE InHand'
  BY <1>2, WorkerFrame, RebackupFrame DEF Start
<1>3. ASSUME NEW n \in Nodes, T1Step(n) PROVE InHand'
  <2>1. resp'[n] = resp[n] \/ resp'[n] = LiveRows(n) \/ resp'[n] \subseteq resp[n]
    BY <1>3 DEF T1Step, BatchLoadRemote, LoadAllDone, FileSystemRows, FileSystemDone,
                LoadEach, LoadFile, TypeInv, TypeOK
  <2> QED
    BY <1>3, <2>1, RetrievalMoves DEF LiveRows, Rows
<1>4. ASSUME NEW n \in Nodes, Crash(n) PROVE InHand'
  BY <1>4 DEF Crash, TypeInv, TypeOK
<1> QED
  BY <1>1, <1>2, <1>3, <1>4 DEF Next

LEMMA StepQuiet ==
  ASSUME TypeInv, SafeInv, BootInv, Next
  PROVE  Quiet'
<1> USE DEF BootInv
<1> SUFFICES ASSUME NEW m \in Nodes, t1'[m] # "done"
             PROVE  /\ wpc'[m] = "idle"
                    /\ \A f \in OwnFiles(m) : f \notin saving' /\ f \notin work_queue'[m]
  BY DEF Quiet, OwnFiles
<1>0. t1[m] # "done" =>
        /\ wpc[m] = "idle" /\ ~ready[m]
        /\ \A f \in OwnFiles(m) : f \notin saving /\ f \notin work_queue[m]
  BY DEF Quiet, BootFlags
<1>1. CASE TrainingStep
  <2>1. t1[m] # "done" /\ wpc' = wpc
    BY <1>1, TrainingFrame
  <2>2. ASSUME NEW f \in Files, SaveCreate(f) \/ SaveDone(f) \/ EvictRow(f)
        PROVE  /\ Owner[f] # m
               /\ \A g \in Files : g # f => (g \in saving' <=> g \in saving)
               /\ work_queue'[m] = work_queue[m]
    <3>1. Owner[f] # m
      BY <1>0, <2>1, <2>2 DEF SaveCreate, SaveDone, EvictRow, Evicting, OwnFiles
    <3> QED
      BY <2>2, <3>1, RingFacts DEF SaveCreate, SaveDone, EvictRow, TypeInv, TypeOK
  <2>3. ASSUME NEW n \in Nodes, EvictDone(n)
        PROVE  saving' = saving /\ work_queue' = work_queue
    BY <2>3 DEF EvictDone
  <2> QED
    BY <1>0, <1>1, <2>1, <2>2, <2>3 DEF TrainingStep, OwnFiles
<1>2. ASSUME NEW n \in Nodes, WorkerStep(n)
      PROVE  /\ wpc'[m] = "idle"
             /\ \A f \in OwnFiles(m) : f \notin saving' /\ f \notin work_queue'[m]
  <2>1. t1[m] # "done" /\ saving' = saving
    BY <1>2, WorkerFrame
  <2>2. ASSUME NEW f \in Files, ReconcileIgnore(n, f) \/ ReconcileDelete(n, f)
        PROVE  wpc' = wpc /\ \A g \in OwnFiles(m) : g \in work_queue'[m] => g \in work_queue[m]
    <3>1. wpc' = wpc
      BY <2>2 DEF ReconcileIgnore, ReconcileDelete, workVars
    <3>2. CASE ReconcileIgnore(n, f)
      BY <3>1, <3>2 DEF ReconcileIgnore, Taken, TypeInv, TypeOK
    <3>3. CASE ReconcileDelete(n, f)
      <4>1. m = NextNode(n) => m # n
        BY RingFacts
      <4>2. work_queue'[m] = CASE m = n                           -> work_queue[m] \ {f}
                               [] m = NextNode(n) /\ Owner[f] = n -> work_queue[m] \cup {f}
                               [] OTHER                           -> work_queue[m]
        BY <3>3 DEF ReconcileDelete
      <4> QED
        BY <3>1, <4>1, <4>2 DEF OwnFiles
    <3> QED
      BY <2>2, <3>2, <3>3
  <2>3. ASSUME NEW f \in Files, ReconcileBackup(n, f) \/ ReconcilePersist(n, f)
        PROVE  m # n /\ wpc'[m] = wpc[m] /\ work_queue'[m] = work_queue[m]
    <3>1. m # n
      BY <1>0, <2>1, <2>3 DEF ReconcileBackup, ReconcilePersist, OwnFiles
    <3> QED
      BY <2>3, <3>1 DEF ReconcileBackup, ReconcilePersist, Taken, Holds, TypeInv, TypeOK
  <2>4. CASE BackupEnd(n) \/ PersistEnd(n) \/ UpdateState(n)
    <3>1. /\ m # n /\ wkey[n] \in Files /\ Owner[wkey[n]] = n
      BY <1>0, <2>1, <2>4
         DEF BackupEnd, PersistEnd, UpdateState, TypeInv, WorkerHasKey, SafeInv,
             WorkerKnows, Knows
    <3>2. wpc'[m] = wpc[m]
      BY <2>4, <3>1 DEF BackupEnd, PersistEnd, UpdateState, Holds, TypeInv, TypeOK
    <3>3. \A g \in work_queue'[m] : g \in work_queue[m] \/ g = wkey[n]
      BY <2>4, <3>1, RingFacts DEF BackupEnd, PersistEnd, UpdateState, TypeInv, TypeOK
    <3> QED
      BY <1>0, <2>1, <3>1, <3>2, <3>3 DEF OwnFiles
  <2> QED
    BY <1>0, <1>2, <2>1, <2>2, <2>3, <2>4 DEF WorkerStep
<1>3. ASSUME NEW n \in Nodes, T1Step(n) PROVE t1[m] # "done"
  BY <1>3, RetrievalMoves
<1>4. ASSUME NEW n \in Nodes, Start(n)
      PROVE  t1[m] # "done" /\ UNCHANGED <<wpc, saving, work_queue>>
  BY <1>4 DEF Start, BootFlags, TypeInv, TypeOK, workVars
<1>5. ASSUME NEW n \in Nodes, Crash(n)
      PROVE  /\ wpc'[m] = "idle"
             /\ \A f \in OwnFiles(m) : f \notin saving' /\ f \notin work_queue'[m]
  <2>1. CASE m = n
    <3>1. wpc'[m] = "idle"
      BY <1>5, <2>1, CrashWorkers DEF TypeInv
    <3>2. saving' = saving \ OwnFiles(n) /\ work_queue'[n] = {}
      BY <1>5 DEF Crash
    <3> QED
      BY <2>1, <3>1, <3>2
  <2>2. CASE m # n
    <3>1. t1[m] # "done"
      BY <1>5, <2>2 DEF Crash, TypeInv, TypeOK
    <3>2. saving' \subseteq saving
      BY <1>5 DEF Crash
    <3>3. ~Sending(m)
      BY <1>0, <3>1 DEF Sending
    <3>4. work_queue'[m] = work_queue[m]
      BY <1>5, <2>2, <3>3 DEF Crash, TypeInv, TypeOK
    <3>5. wpc'[m] = "idle"
      BY <1>0, <1>5, <3>1, CrashWorkers DEF TypeInv, Busy
    <3> QED
      BY <1>0, <3>1, <3>2, <3>4, <3>5
  <2> QED
    BY <2>1, <2>2
<1>6. ASSUME NEW n \in Nodes, T2Step(n) \/ ServStep(n)
      PROVE  /\ t1[m] # "done" /\ UNCHANGED <<wpc, saving>>
             /\ \A f \in OwnFiles(m) : f \in work_queue'[m] => f \in work_queue[m]
  <2>1. t1[m] # "done" /\ UNCHANGED <<wpc, saving>>
    BY <1>6, RebackupFrame
  <2>2. ASSUME NEW f \in Files, BackupEachEnd(n, f)
        PROVE  Owner[f] # n /\ \A k \in Nodes : \A g \in work_queue'[k] :
                 g \in work_queue[k] \/ (k = n /\ g = f)
    <3>1. Owner[f] # n
      BY <2>2, RingFacts DEF BackupEachEnd, SafeInv, HandlerKnows
    <3> QED
      BY <2>2, <3>1 DEF BackupEachEnd, TypeInv, TypeOK
  <2>3. ASSUME ~\E f \in Files : BackupEachEnd(n, f) PROVE work_queue' = work_queue
    BY <1>6, <2>3 DEF T2Step, ServStep, NotifyBackup, MarkReady, CheckComplete, Answer,
                      BackupEach
  <2> QED
    BY <2>1, <2>2, <2>3 DEF OwnFiles
<1> QED
  BY <1>0, <1>1, <1>2, <1>3, <1>4, <1>5, <1>6, RetrievalFrame DEF Next

-----------------------------------------------------------------------------
(* Backups.                                                                *)

(* Two neighbours agree on who is next and who is previous.                *)
LEMMA Neighbours ==
  \A n \in Nodes : PrevNode(NextNode(n)) = n /\ NextNode(PrevNode(n)) = n
<1>1. WorldSize \in Nat /\ WorldSize > 1
  BY RecoveryAssumption
<1> SUFFICES ASSUME NEW n \in Nodes
             PROVE  PrevNode(NextNode(n)) = n /\ NextNode(PrevNode(n)) = n
  OBVIOUS
<1>2. \A k \in Nodes : k + 1 < WorldSize => NextNode(k) = k + 1
  BY <1>1, SMT DEF Nodes, NextNode
<1>3. \A k \in Nodes : k + 1 = WorldSize => NextNode(k) = 0
  BY <1>1, SMT DEF Nodes, NextNode
<1>4. PrevNode(NextNode(n)) = n
  BY <1>1, <1>2, <1>3 DEF Nodes, PrevNode
<1>5. NextNode(PrevNode(n)) = n
  BY <1>1, <1>2, <1>3 DEF Nodes, PrevNode
<1> QED
  BY <1>4, <1>5

(* A handler moves listed rows, from an entry that is there unless the row *)
(* became OBSOLESCENT.                                                     *)
Moving ==
  \A n \in Nodes, f \in Files :
    f \in hmove[n] =>
      /\ serv[n] = "backup" /\ hvec[n][f] # NONE
      /\ mem[Owner[f]][f] # "absent" \/ state[f] = "OBSOLESCENT"

(* A row that was listed as OBSOLESCENT still is.                          *)
ListedObsolete ==
  \A n \in Nodes, f \in Files :
    hvec[n][f] = "OBSOLESCENT" => state[f] = "OBSOLESCENT"

(* A worker sends an entry it has, to a node that has been started.        *)
SendsEntry ==
  \A n \in Nodes :
    wpc[n] = "rdma" => mem[n][wkey[n]] # "absent" /\ started[NextNode(n)]

(* The backup of f has been made: its row says so, or the worker is about  *)
(* to say so.                                                              *)
Backed(f) ==
  \/ state[f] \in {"BACKED_UP", "PERSISTENT"}
  \/ wpc[Owner[f]] = "backed_up" /\ wkey[Owner[f]] = f

(* Node n has, or would have, nothing more to ask of f: its request ended, *)
(* or its handler is past f and will answer with success.                  *)
Settled(n, f) ==
  \/ t2[n] = "done"
  \/ serv[n] = "backup" /\ ~hbad[n] /\ hvec[n][f] = NONE

Held(f) ==
  Backed(f) =>
    /\ started[NextNode(Owner[f])]
    /\ Settled(NextNode(Owner[f]), f) => mem[NextNode(Owner[f])][f] = "whole"

BackInv ==
  /\ Moving
  /\ ListedObsolete
  /\ SendsEntry
  /\ \A f \in Files : Held(f)

LEMMA BackInit == Init => BackInv
  BY RingFacts DEF Init, BackInv, Moving, ListedObsolete, SendsEntry, Held, Backed, NoRows,
                   NONE

LEMMA HeldFrame ==
  ASSUME NEW f \in Files, Held(f), Backed(f)' => Backed(f),
         started[NextNode(Owner[f])] => started'[NextNode(Owner[f])],
         Settled(NextNode(Owner[f]), f)' => Settled(NextNode(Owner[f]), f),
         mem'[NextNode(Owner[f])][f] \in {mem[NextNode(Owner[f])][f], "whole"}
  PROVE  Held(f)'
  BY DEF Held

(* The last step of a backup takes the entry of its owner, which is whole. *)
LEMMA BackedWhole ==
  ASSUME TypeInv, SafeInv, NEW f \in Files, Backed(f)
  PROVE  /\ state[f] \in {"CACHED", "BACKED_UP", "PERSISTENT"}
         /\ mem[Owner[f]][f] \in {"absent", "whole"}
<1>1. state[f] \in {"CACHED", "BACKED_UP", "PERSISTENT"}
  BY RingFacts DEF Backed, SafeInv, WorkerKnows, Knows
<1>2. f \notin saving
  BY <1>1 DEF SafeInv, OwnIntact
<1> QED
  BY <1>1, <1>2, RingFacts DEF SafeInv, OwnIntact, TypeInv, TypeOK, Content

LEMMA TrainingBack ==
  ASSUME TypeInv, SafeInv, BackInv, TrainingStep
  PROVE  BackInv'
<1>1. /\ \A g \in Files : state'[g] \in {state[g], "PENDING", "CACHED", "OBSOLESCENT"}
      /\ \A g \in Files : state[g] = "OBSOLESCENT" => state'[g] = "OBSOLESCENT"
      /\ \A m \in Nodes, g \in Files : m # Owner[g] => mem'[m][g] = mem[m][g]
      /\ \A m \in Nodes, g \in Files : mem[m][g] # "absent" => mem'[m][g] # "absent"
  <2> USE RingFacts DEF TypeInv, TypeOK
  <2>1. CASE \E f \in Files : SaveCreate(f)
    BY <2>1 DEF SaveCreate, NONE
  <2>2. CASE \E f \in Files : SaveDone(f)
    BY <2>2 DEF SaveDone, SafeInv, OwnIntact
  <2>3. CASE \E f \in Files : EvictRow(f)
    BY <2>3 DEF EvictRow
  <2>4. CASE \E n \in Nodes : EvictDone(n)
    BY <2>4 DEF EvictDone, rowVars
  <2> QED
    BY <2>1, <2>2, <2>3, <2>4 DEF TrainingStep
<1>2. UNCHANGED <<wpc, wkey, started, t2, serv, hvec, hmove, hbad>>
  BY TrainingFrame
<1>3. Moving' /\ ListedObsolete'
  BY <1>1, <1>2, RingFacts DEF BackInv, Moving, ListedObsolete
<1>4. SendsEntry'
  BY <1>1, <1>2 DEF BackInv, SendsEntry, TypeInv, WorkerHasKey
<1>5. ASSUME NEW f \in Files PROVE Held(f)'
  <2>1. Backed(f)' => Backed(f)
    BY <1>1, <1>2 DEF Backed
  <2>2. Settled(NextNode(Owner[f]), f)' => Settled(NextNode(Owner[f]), f)
    BY <1>2 DEF Settled
  <2>3. mem'[NextNode(Owner[f])][f] = mem[NextNode(Owner[f])][f]
    BY <1>1, RingFacts
  <2> QED
    BY <1>2, <2>1, <2>2, <2>3, HeldFrame DEF BackInv
<1> QED
  BY <1>3, <1>4, <1>5 DEF BackInv

LEMMA RetrievalBack ==
  ASSUME TypeInv, SafeInv, BootInv, BackInv, NEW n \in Nodes, T1Step(n)
  PROVE  BackInv'
<1>1. \A m \in Nodes, g \in Files : mem'[m][g] \in {mem[m][g], "whole"}
  <2>1. CASE \/ BatchLoadRemote(n) \/ LoadAllDone(n)
             \/ FileSystemRows(n) \/ FileSystemDone(n)
    BY <2>1 DEF BatchLoadRemote, LoadAllDone, FileSystemRows, FileSystemDone
  <2>2. ASSUME NEW f \in Files, LoadFile(n, f)
        PROVE  \A m \in Nodes, g \in Files : mem'[m][g] \in {mem[m][g], "whole"}
    <3> DEFINE c == IF disk[f] = "whole" THEN "whole" ELSE mem[n][f]
    <3>1. mem' = mem \/ mem' = [mem EXCEPT ![n][f] = c]
      BY <2>2 DEF LoadFile, TypeInv, TypeOK
    <3>2. c \in {mem[n][f], "whole"}
      OBVIOUS
    <3> HIDE DEF c
    <3>3. CASE mem' = mem
      BY <3>3
    <3>4. CASE mem' = [mem EXCEPT ![n][f] = c]
      BY <3>2, <3>4 DEF TypeInv, TypeOK
    <3> QED
      BY <3>1, <3>3, <3>4
  <2>3. ASSUME NEW f \in Files, LoadEach(n, f) PROVE mem' = mem
    <3>1. Owner[f] = n
      BY <2>3 DEF LoadEach, BootInv, InHand, OwnFiles
    <3>2. mem' = mem \/ mem' = [mem EXCEPT ![n][f] = mem[n][f]]
      BY <2>3, <3>1 DEF LoadEach, LoadPeer
    <3> QED
      BY <3>2 DEF TypeInv, TypeOK
  <2> QED
    BY <2>1, <2>2, <2>3 DEF T1Step
<1>2. UNCHANGED <<state, wpc, wkey, started, t2, serv, hvec, hmove, hbad>>
  BY RetrievalFrame
<1>3. Moving' /\ ListedObsolete'
  BY <1>1, <1>2, RingFacts DEF BackInv, Moving, ListedObsolete
<1>4. SendsEntry'
  BY <1>1, <1>2 DEF BackInv, SendsEntry, TypeInv, WorkerHasKey
<1>5. ASSUME NEW f \in Files PROVE Held(f)'
  <2>1. Backed(f)' => Backed(f)
    BY <1>2 DEF Backed
  <2>2. Settled(NextNode(Owner[f]), f)' => Settled(NextNode(Owner[f]), f)
    BY <1>2 DEF Settled
  <2>3. mem'[NextNode(Owner[f])][f] \in {mem[NextNode(Owner[f])][f], "whole"}
    BY <1>1, RingFacts
  <2> QED
    BY <1>2, <2>1, <2>2, <2>3, HeldFrame DEF BackInv
<1> QED
  BY <1>3, <1>4, <1>5 DEF BackInv

LEMMA StartBack ==
  ASSUME TypeInv, BootInv, BackInv, NEW n \in Nodes, Start(n)
  PROVE  BackInv'
<1>1. UNCHANGED <<state, mem, wpc, wkey, serv, hvec, hmove, hbad>>
  BY DEF Start, rowVars, workVars
<1>2. /\ \A m \in Nodes : started[m] => started'[m]
      /\ \A m \in Nodes \ {n} : t2'[m] = t2[m]
      /\ t2'[n] = "done" => ~started[n]
  BY DEF Start, TypeInv, TypeOK
<1>3. serv[n] = "none"
  BY DEF Start, BootInv, BootFlags
<1>4. Moving' /\ ListedObsolete'
  BY <1>1 DEF BackInv, Moving, ListedObsolete
<1>5. SendsEntry'
  BY <1>1, <1>2, RingFacts DEF BackInv, SendsEntry
<1>6. ASSUME NEW f \in Files PROVE Held(f)'
  <2>0. NextNode(Owner[f]) \in Nodes
    BY RingFacts
  <2>1. Backed(f)' => Backed(f)
    BY <1>1 DEF Backed
  <2>2. CASE NextNode(Owner[f]) # n
    <3>1. Settled(NextNode(Owner[f]), f)' => Settled(NextNode(Owner[f]), f)
      BY <1>1, <1>2, <2>0, <2>2 DEF Settled
    <3> QED
      BY <1>1, <1>2, <2>0, <2>1, <3>1, HeldFrame DEF BackInv
  <2>3. CASE NextNode(Owner[f]) = n
    BY <1>1, <1>2, <1>3, <2>0, <2>1, <2>3 DEF BackInv, Held, Settled
  <2> QED
    BY <2>2, <2>3
<1> QED
  BY <1>4, <1>5, <1>6 DEF BackInv

LEMMA CrashBack ==
  ASSUME TypeInv, SafeInv, BootInv, BackInv, NEW n \in Nodes, Crash(n)
  PROVE  BackInv'
<1> USE DEF TypeInv, TypeOK
<1>1. state' = state /\ started' = started
  BY DEF Crash, rowVars
<1>2. \A m \in Nodes \ {n} : mem'[m] = mem[m]
  BY DEF Crash
<1>3. \A m \in Nodes :
        \/ m \in {n, NextNode(n)} /\ serv'[m] = "none" /\ hvec'[m] = NoRows /\ hmove'[m] = {}
        \/ /\ m \notin {n, NextNode(n)}
           /\ serv'[m] = serv[m] /\ hvec'[m] = hvec[m] /\ hmove'[m] = hmove[m]
           /\ hbad'[m] = hbad[m]
  <2> DEFINE cut == {n, NextNode(n)}
  <2>1. /\ serv' = [m \in Nodes |-> IF m \in cut THEN "none" ELSE serv[m]]
        /\ hvec' = [m \in Nodes |-> IF m \in cut THEN NoRows ELSE hvec[m]]
        /\ hmove' = [m \in Nodes |-> IF m \in cut THEN {} ELSE hmove[m]]
        /\ hbad' = [m \in Nodes |-> IF m \in cut THEN FALSE ELSE hbad[m]]
    BY Zenon DEF Crash
  <2> QED
    BY <2>1
<1>4. \A m \in Nodes : \/ wpc'[m] \in {"idle", "stuck"}
                       \/ m # n /\ wpc'[m] = wpc[m] /\ wkey'[m] = wkey[m]
  BY CrashWorkers DEF Busy
<1>5. t2'[n] = "off" /\ \A m \in Nodes : t2'[m] = "done" => t2[m] = "done"
  BY DEF Crash
<1>6. Moving'
  <2> SUFFICES ASSUME NEW m \in Nodes, NEW f \in Files, f \in hmove'[m]
               PROVE  /\ serv'[m] = "backup" /\ hvec'[m][f] # NONE
                      /\ mem'[Owner[f]][f] # "absent" \/ state'[f] = "OBSOLESCENT"
    BY DEF Moving
  <2>1. /\ m \notin {n, NextNode(n)}
        /\ serv'[m] = serv[m] /\ hvec'[m] = hvec[m] /\ hmove'[m] = hmove[m]
    BY <1>3
  <2>2. Owner[f] = PrevNode(m)
    BY <2>1 DEF SafeInv, HandlerKnows
  <2>3. Owner[f] # n
    BY <2>1, <2>2, Neighbours
  <2> QED
    BY <1>1, <1>2, <2>1, <2>3, RingFacts DEF BackInv, Moving
<1>7. ListedObsolete'
  <2> SUFFICES ASSUME NEW m \in Nodes, NEW f \in Files, hvec'[m][f] = "OBSOLESCENT"
               PROVE  state'[f] = "OBSOLESCENT"
    BY DEF ListedObsolete
  <2>1. hvec'[m] = hvec[m]
    BY <1>3 DEF NoRows, NONE
  <2> QED
    BY <1>1, <2>1 DEF BackInv, ListedObsolete
<1>8. SendsEntry'
  <2> SUFFICES ASSUME NEW m \in Nodes, wpc'[m] = "rdma"
               PROVE  mem'[m][wkey'[m]] # "absent" /\ started'[NextNode(m)]
    BY DEF SendsEntry
  <2>1. m # n /\ wpc[m] = "rdma" /\ wkey'[m] = wkey[m]
    BY <1>4
  <2> QED
    BY <1>1, <1>2, <2>1 DEF BackInv, SendsEntry
<1>9. ASSUME NEW f \in Files PROVE Held(f)'
  <2>0. NextNode(Owner[f]) \in Nodes /\ Owner[f] \in Nodes
    BY RingFacts
  <2>1. Backed(f)' => Backed(f)
    BY <1>1, <1>4, <2>0 DEF Backed
  <2>2. CASE NextNode(Owner[f]) = n
    BY <1>1, <1>3, <1>5, <2>1, <2>2 DEF BackInv, Held, Settled
  <2>3. CASE NextNode(Owner[f]) # n
    <3>1. Settled(NextNode(Owner[f]), f)' => Settled(NextNode(Owner[f]), f)
      BY <1>3, <1>5, <2>0 DEF Settled
    <3> QED
      BY <1>1, <1>2, <2>0, <2>1, <2>3, <3>1, HeldFrame DEF BackInv
  <2> QED
    BY <2>2, <2>3
<1> QED
  BY <1>6, <1>7, <1>8, <1>9 DEF BackInv

LEMMA WorkerBack ==
  ASSUME TypeInv, SafeInv, BootInv, BackInv, NEW n \in Nodes, WorkerStep(n)
  PROVE  BackInv'
<1> USE DEF TypeInv
<1>1. UNCHANGED <<started, t2, serv, hvec, hmove, hbad>>
  BY WorkerFrame
<1>2. ASSUME NEW f \in Files PROVE Settled(NextNode(Owner[f]), f)' => Settled(NextNode(Owner[f]), f)
  BY <1>1 DEF Settled
<1>3. ASSUME NEW pc \in {"backed_up", "fwrite", "persistent", "idle", "stuck"}, NEW k,
             Holds(n, pc, k),
             OwnSame, \A f \in Files : state[f] = "OBSOLESCENT" => state'[f] = "OBSOLESCENT",
             \A f \in Files : Held(f)'
      PROVE  BackInv'
  <2>1. Moving' /\ ListedObsolete'
    BY <1>1, <1>3 DEF BackInv, Moving, ListedObsolete, OwnSame
  <2>2. SendsEntry'
    <3> SUFFICES ASSUME NEW m \in Nodes, wpc'[m] = "rdma"
                 PROVE  mem'[m][wkey'[m]] # "absent" /\ started'[NextNode(m)]
      BY DEF SendsEntry
    <3>1. m # n /\ wpc[m] = "rdma" /\ wkey'[m] = wkey[m]
      BY <1>3 DEF Holds, TypeOK
    <3>2. wkey[m] \in Files /\ Owner[wkey[m]] = m
      BY <3>1 DEF WorkerHasKey, SafeInv, WorkerKnows, Knows
    <3> QED
      BY <1>1, <1>3, <3>1, <3>2 DEF BackInv, SendsEntry, OwnSame
  <2> QED
    BY <1>3, <2>1, <2>2 DEF BackInv
<1>4. ASSUME NEW pc, NEW k, Holds(n, pc, k), NEW f \in Files, Owner[f] # n, state'[f] = state[f]
      PROVE  Backed(f)' => Backed(f)
  <2>1. wpc'[Owner[f]] = wpc[Owner[f]] /\ wkey'[Owner[f]] = wkey[Owner[f]]
    BY <1>4, RingFacts DEF Holds, TypeOK
  <2> QED
    BY <1>4, <2>1 DEF Backed
<1>5. CASE BackupEnd(n)
  <2>1. /\ wkey[n] \in Files /\ Owner[wkey[n]] = n
        /\ NextNode(n) \in Nodes /\ NextNode(n) # n
        /\ state[wkey[n]] = "CACHED" /\ mem[n][wkey[n]] # "absent" /\ started[NextNode(n)]
    BY <1>5, RingFacts
       DEF BackupEnd, WorkerHasKey, SafeInv, WorkerKnows, Knows, BackInv, SendsEntry
  <2>2. mem[n][wkey[n]] = "whole"
    BY <2>1 DEF SafeInv, OwnIntact, TypeOK, Content
  <2>3. state' = state
    BY <1>5 DEF BackupEnd, rowVars
  <2>4. CASE Holds(n, "backed_up", wkey[n]) /\ mem' = [mem EXCEPT ![NextNode(n)][wkey[n]] = mem[n][wkey[n]]]
    <3>1. OwnSame
      BY <2>1, <2>4, ElsewhereSame
    <3>2. \A m \in Nodes, g \in Files : mem'[m][g] \in {mem[m][g], "whole"}
      BY <2>1, <2>2, <2>4 DEF TypeOK
    <3>3. mem'[NextNode(n)][wkey[n]] = "whole"
      BY <2>1, <2>2, <2>4 DEF TypeOK
    <3>4. ASSUME NEW f \in Files PROVE Held(f)'
      <4>1. CASE f = wkey[n]
        BY <1>1, <2>1, <3>3, <4>1 DEF Held
      <4>2. CASE f # wkey[n]
        <5>1. Backed(f)' => Backed(f)
          BY <1>4, <2>3, <2>4, <4>2 DEF Backed, Holds, TypeOK
        <5> QED
          BY <1>1, <1>2, <3>2, <5>1, HeldFrame, RingFacts DEF BackInv
      <4> QED
        BY <4>1, <4>2
    <3> QED
      BY <1>3, <2>3, <2>4, <3>1, <3>4
  <2>5. CASE Holds(n, "idle", NoFile) /\ mem' = mem
    <3>1. ASSUME NEW f \in Files PROVE Held(f)'
      <4>1. Backed(f)' => Backed(f)
        BY <1>4, <2>3, <2>5 DEF Backed, Holds, TypeOK
      <4> QED
        BY <1>1, <1>2, <2>5, <4>1, HeldFrame DEF BackInv
    <3> QED
      BY <1>3, <2>3, <2>5, <3>1 DEF OwnSame
  <2>6. CASE Holds(n, "stuck", wkey[n]) /\ mem' = mem
    <3>1. ASSUME NEW f \in Files PROVE Held(f)'
      <4>1. Backed(f)' => Backed(f)
        BY <1>4, <2>3, <2>6 DEF Backed, Holds, TypeOK
      <4> QED
        BY <1>1, <1>2, <2>6, <4>1, HeldFrame DEF BackInv
    <3> QED
      BY <1>3, <2>3, <2>6, <3>1 DEF OwnSame
  <2> QED
    BY <1>5, <2>4, <2>5, <2>6 DEF BackupEnd
<1>6. ASSUME NEW f \in Files, ReconcileBackup(n, f) PROVE BackInv'
  <2>1. /\ Owner[f] = n /\ NextNode(n) \in Nodes /\ NextNode(n) # n
        /\ state[f] = "CACHED" /\ mem[n][f] # "absent" /\ started[NextNode(n)]
        /\ state' = state /\ Holds(n, "rdma", f)
        /\ mem' = [mem EXCEPT ![NextNode(n)][f] = "torn"]
    BY <1>6, RingFacts DEF ReconcileBackup, BootInv, BootFlags, rowVars
  <2>2. OwnSame
    BY <2>1, ElsewhereSame
  <2>3. Moving' /\ ListedObsolete'
    BY <1>1, <2>1, <2>2 DEF BackInv, Moving, ListedObsolete, OwnSame
  <2>4. SendsEntry'
    <3> SUFFICES ASSUME NEW m \in Nodes, wpc'[m] = "rdma"
                 PROVE  mem'[m][wkey'[m]] # "absent" /\ started'[NextNode(m)]
      BY DEF SendsEntry
    <3>1. CASE m = n
      <4>1. wkey'[m] = f
        BY <2>1, <3>1 DEF Holds, TypeOK
      <4> QED
        BY <1>1, <2>1, <2>2, <3>1, <4>1 DEF OwnSame
    <3>2. CASE m # n
      <4>1. wpc[m] = "rdma" /\ wkey'[m] = wkey[m]
        BY <2>1, <3>2 DEF Holds, TypeOK
      <4>2. wkey[m] \in Files /\ Owner[wkey[m]] = m
        BY <4>1 DEF WorkerHasKey, SafeInv, WorkerKnows, Knows
      <4> QED
        BY <1>1, <2>2, <4>1, <4>2 DEF BackInv, SendsEntry, OwnSame
    <3> QED
      BY <3>1, <3>2
  <2>5. ASSUME NEW g \in Files PROVE Held(g)'
    <3>1. CASE g = f
      <4>1. ~Backed(g)'
        BY <2>1, <3>1 DEF Backed, Holds, TypeOK
      <4> QED
        BY <4>1 DEF Held
    <3>2. CASE g # f
      <4>1. Backed(g)' => Backed(g)
        BY <1>4, <2>1 DEF Backed, Holds, TypeOK
      <4>2. \A m \in Nodes : mem'[m][g] = mem[m][g]
        BY <2>1, <3>2 DEF TypeOK
      <4> QED
        BY <1>1, <1>2, <4>1, <4>2, HeldFrame, RingFacts DEF BackInv
    <3> QED
      BY <3>1, <3>2
  <2> QED
    BY <2>3, <2>4, <2>5 DEF BackInv
<1>7. ASSUME NEW f \in Files, ReconcileIgnore(n, f) PROVE BackInv'
  <2>1. UNCHANGED <<state, mem, wpc, wkey>>
    BY <1>7 DEF ReconcileIgnore, rowVars, workVars
  <2> QED
    BY <1>1, <2>1 DEF BackInv, Moving, ListedObsolete, SendsEntry, Held, Backed, Settled
<1>8. ASSUME NEW f \in Files, ReconcilePersist(n, f) PROVE BackInv'
  <2>1. state' = state /\ mem' = mem /\ Holds(n, "fwrite", f)
    BY <1>8 DEF ReconcilePersist
  <2>2. ASSUME NEW g \in Files PROVE Held(g)'
    <3>1. Backed(g)' => Backed(g)
      BY <1>4, <2>1 DEF Backed, Holds, TypeOK
    <3> QED
      BY <1>1, <1>2, <2>1, <3>1, HeldFrame DEF BackInv
  <2> QED
    BY <1>3, <2>1, <2>2 DEF OwnSame
<1>9. CASE PersistEnd(n)
  <2>1. state' = state /\ mem' = mem /\ Holds(n, "persistent", wkey[n])
    BY <1>9 DEF PersistEnd
  <2>2. ASSUME NEW g \in Files PROVE Held(g)'
    <3>1. Backed(g)' => Backed(g)
      BY <1>4, <2>1 DEF Backed, Holds, TypeOK
    <3> QED
      BY <1>1, <1>2, <2>1, <3>1, HeldFrame DEF BackInv
  <2> QED
    BY <1>3, <2>1, <2>2 DEF OwnSame
<1>10. CASE UpdateState(n)
  <2>1. /\ wkey[n] \in Files /\ Owner[wkey[n]] = n
        /\ Backed(wkey[n]) /\ state[wkey[n]] \in {"CACHED", "BACKED_UP"}
        /\ state' = [state EXCEPT ![wkey[n]] = Promoted(wpc[n])]
        /\ mem' = mem /\ Holds(n, "idle", NoFile)
    BY <1>10 DEF UpdateState, WorkerHasKey, SafeInv, WorkerKnows, Knows, Backed
  <2>2. \A g \in Files : g # wkey[n] => state'[g] = state[g]
    BY <2>1 DEF TypeOK
  <2>3. ASSUME NEW g \in Files PROVE Held(g)'
    <3>1. Backed(g)' => Backed(g)
      <4>1. CASE g = wkey[n]
        BY <2>1, <4>1
      <4>2. CASE g # wkey[n]
        BY <1>4, <2>1, <2>2, <4>2 DEF Backed, Holds, TypeOK
      <4> QED
        BY <4>1, <4>2
    <3> QED
      BY <1>1, <1>2, <2>1, <3>1, HeldFrame DEF BackInv
  <2> QED
    BY <1>3, <2>1, <2>2, <2>3 DEF OwnSame
<1>11. ASSUME NEW f \in Files, ReconcileDelete(n, f) PROVE BackInv'
  <2>1. /\ state[f] = "OBSOLESCENT" /\ mem' = [mem EXCEPT ![n][f] = "absent"]
        /\ UNCHANGED <<state, wpc, wkey>>
    BY <1>11 DEF ReconcileDelete, rowVars, workVars
  <2>2. \A m \in Nodes, g \in Files : g # f => mem'[m][g] = mem[m][g]
    BY <2>1 DEF TypeOK
  <2>3. Moving' /\ ListedObsolete'
    BY <1>1, <2>1, <2>2, RingFacts DEF BackInv, Moving, ListedObsolete
  <2>4. SendsEntry'
    <3> SUFFICES ASSUME NEW m \in Nodes, wpc[m] = "rdma"
                 PROVE  mem'[m][wkey[m]] # "absent" /\ started[NextNode(m)]
      BY <1>1, <2>1 DEF SendsEntry
    <3>1. wkey[m] \in Files /\ wkey[m] # f
      BY <2>1 DEF WorkerHasKey, SafeInv, WorkerKnows, Knows
    <3> QED
      BY <2>2, <3>1 DEF BackInv, SendsEntry
  <2>5. ASSUME NEW g \in Files PROVE Held(g)'
    <3>1. Backed(g)' => Backed(g)
      BY <2>1 DEF Backed
    <3>2. Backed(g) => g # f
      BY <2>1, BackedWhole
    <3> QED
      BY <1>1, <1>2, <2>2, <3>1, <3>2, HeldFrame, RingFacts DEF BackInv, Held
  <2> QED
    BY <2>3, <2>4, <2>5 DEF BackInv
<1> QED
  BY <1>5, <1>6, <1>7, <1>8, <1>9, <1>10, <1>11 DEF WorkerStep

LEMMA RebackupBack ==
  ASSUME TypeInv, SafeInv, BootInv, BackInv, NEW n \in Nodes, T2Step(n) \/ ServStep(n)
  PROVE  BackInv'
<1> USE DEF TypeInv
<1>1. UNCHANGED <<state, wpc, wkey, started>>
  BY RebackupFrame
<1>2. ASSUME NEW f \in Files PROVE Backed(f)' <=> Backed(f)
  BY <1>1 DEF Backed
<1>3. OwnSame => SendsEntry'
  BY <1>1 DEF BackInv, SendsEntry, WorkerHasKey, SafeInv, WorkerKnows, Knows, OwnSame
<1>4. \A f \in Files : NextNode(Owner[f]) \in Nodes
                       /\ (NextNode(Owner[f]) = n => Owner[f] = PrevNode(n))
  BY RingFacts, Neighbours
<1>5. ASSUME mem' = mem, hmove' = hmove, hvec' = hvec, hbad' = hbad, serv' = serv, t2' = t2
      PROVE  BackInv'
  BY <1>1, <1>5 DEF BackInv, Moving, ListedObsolete, SendsEntry, Held, Backed, Settled
<1>6. CASE MarkReady(n)
  BY <1>5, <1>6 DEF MarkReady, t2Vars
<1>7. serv[n] # "backup" => hmove[n] = {}
  BY DEF BackInv, Moving, TypeOK
<1>8. CASE NotifyBackup(n)
  <2>1. /\ mem' = mem /\ hmove' = hmove /\ hvec' = hvec /\ hbad' = hbad
        /\ serv[n] = "none" /\ t2'[n] = "wait" /\ serv'[n] = "check"
        /\ \A m \in Nodes \ {n} : serv'[m] = serv[m] /\ t2'[m] = t2[m]
    BY <1>8 DEF NotifyBackup, BootInv, BootFlags, TypeOK
  <2>2. Moving' /\ ListedObsolete' /\ SendsEntry'
    BY <1>1, <1>3, <1>7, <2>1 DEF BackInv, Moving, ListedObsolete, OwnSame
  <2>3. ASSUME NEW f \in Files PROVE Held(f)'
    <3>1. Settled(NextNode(Owner[f]), f)' => Settled(NextNode(Owner[f]), f)
      BY <1>4, <2>1 DEF Settled
    <3> QED
      BY <1>1, <1>2, <2>1, <3>1, HeldFrame DEF BackInv
  <2> QED
    BY <2>2, <2>3 DEF BackInv
<1>9. CASE CheckComplete(n)
  <2>1. /\ mem' = mem /\ hmove' = hmove /\ hbad' = hbad /\ t2' = t2
        /\ serv[n] = "check" /\ t2[n] = "wait"
        /\ \A m \in Nodes \ {n} : serv'[m] = serv[m] /\ hvec'[m] = hvec[m]
    BY <1>9 DEF CheckComplete, BootInv, BootFlags, TypeOK
  <2>2. \/ serv'[n] = "silent" /\ hvec'[n] = hvec[n]
        \/ /\ serv'[n] = "backup"
           /\ \A f \in Files :
                hvec'[n][f] = IF Owner[f] = PrevNode(n) THEN state[f] ELSE NONE
    BY <1>9 DEF CheckComplete, TypeOK
  <2>3. Moving' /\ SendsEntry'
    BY <1>1, <1>3, <1>7, <2>1 DEF BackInv, Moving, OwnSame
  <2>4. ListedObsolete'
    BY <1>1, <2>1, <2>2 DEF BackInv, ListedObsolete, NONE
  <2>5. ASSUME NEW f \in Files PROVE Held(f)'
    <3>1. CASE NextNode(Owner[f]) # n
      <4>1. Settled(NextNode(Owner[f]), f)' => Settled(NextNode(Owner[f]), f)
        BY <1>4, <2>1, <3>1 DEF Settled
      <4> QED
        BY <1>1, <1>2, <2>1, <4>1, HeldFrame DEF BackInv
    <3>2. CASE NextNode(Owner[f]) = n
      <4>1. Backed(f) => state[f] # NONE
        BY BackedWhole DEF NONE
      <4>2. Backed(f) => ~Settled(NextNode(Owner[f]), f)'
        BY <1>4, <2>1, <2>2, <3>2, <4>1 DEF Settled
      <4> QED
        BY <1>1, <1>2, <4>2 DEF BackInv, Held
    <3> QED
      BY <3>1, <3>2
  <2> QED
    BY <2>3, <2>4, <2>5 DEF BackInv
<1>10. CASE Answer(n)
  <2>1. /\ mem' = mem /\ hmove' = hmove /\ hvec' = hvec
        /\ serv[n] = "backup" /\ serv'[n] = "none" /\ hvec[n] = NoRows
        /\ t2'[n] = IF hbad[n] THEN "ask" ELSE "done"
        /\ \A m \in Nodes \ {n} : serv'[m] = serv[m] /\ hbad'[m] = hbad[m] /\ t2'[m] = t2[m]
    BY <1>10 DEF Answer, TypeOK
  <2>2. hmove[n] = {}
    BY <2>1 DEF BackInv, Moving, NoRows, TypeOK
  <2>3. Moving' /\ ListedObsolete' /\ SendsEntry'
    BY <1>1, <1>3, <2>1, <2>2 DEF BackInv, Moving, ListedObsolete, OwnSame
  <2>4. ASSUME NEW f \in Files PROVE Held(f)'
    <3>1. Settled(NextNode(Owner[f]), f)' => Settled(NextNode(Owner[f]), f)
      BY <1>4, <2>1 DEF Settled, NoRows
    <3> QED
      BY <1>1, <1>2, <2>1, <3>1, HeldFrame DEF BackInv
  <2> QED
    BY <2>3, <2>4 DEF BackInv
<1>11. ASSUME NEW f \in Files, BackupEach(n, f) \/ BackupEachEnd(n, f) PROVE BackInv'
  <2>1. /\ serv[n] = "backup" /\ t2[n] = "wait" /\ hvec[n][f] # NONE
        /\ Owner[f] = PrevNode(n) /\ Owner[f] # n /\ NextNode(Owner[f]) = n
    BY <1>11, RingFacts, Neighbours
       DEF BackupEach, BackupEachEnd, BackInv, Moving, SafeInv, HandlerKnows, BootInv,
           BootFlags
  <2>2. serv' = serv /\ t2' = t2
    BY <1>11 DEF BackupEach, BackupEachEnd
  <2>3. mem' = mem \/ \E c \in Content : mem' = [mem EXCEPT ![n][f] = c]
    BY <1>11 DEF BackupEach, BackupEachEnd, Content
  <2>4. OwnSame
    <3>1. CASE mem' = mem
      BY <3>1 DEF OwnSame
    <3> QED
      BY <2>1, <2>3, <3>1, ElsewhereSame
  <2>5. \A m \in Nodes, g \in Files : m # n \/ g # f => mem'[m][g] = mem[m][g]
    BY <2>3 DEF TypeOK
  <2>6. /\ \A m \in Nodes, g \in Files : m # n \/ g # f => hvec'[m][g] = hvec[m][g]
        /\ hvec'[n][f] \in {hvec[n][f], NONE}
    <3>1. hvec' = hvec \/ hvec' = [hvec EXCEPT ![n][f] = NONE]
      BY <1>11 DEF BackupEach, BackupEachEnd, Returned
    <3>2. hvec \in [Nodes -> [Files -> CheckpointState \cup {NONE}]]
      BY DEF TypeOK
    <3> QED
      BY <3>1, <3>2
  <2>7. \A m \in Nodes : hbad'[m] = hbad[m] \/ (m = n /\ hbad'[m] = TRUE)
    BY <1>11 DEF BackupEach, BackupEachEnd, TypeOK
  <2>8. /\ \A m \in Nodes, g \in Files : m # n \/ g # f => (g \in hmove'[m] <=> g \in hmove[m])
        /\ f \in hmove'[n] =>
             /\ hvec'[n][f] # NONE
             /\ mem[Owner[f]][f] # "absent" \/ state[f] = "OBSOLESCENT"
    <3>1. \/ hmove' = hmove
          \/ hmove' = [hmove EXCEPT ![n] = @ \cup {f}]
          \/ hmove' = [hmove EXCEPT ![n] = @ \ {f}]
      BY <1>11 DEF BackupEach, BackupEachEnd, Returned
    <3>2. hmove \in [Nodes -> SUBSET Files]
      BY DEF TypeOK
    <3>3. \A m \in Nodes, g \in Files : m # n \/ g # f => (g \in hmove'[m] <=> g \in hmove[m])
      BY <3>1, <3>2
    <3>4. CASE BackupEach(n, f)
      BY <2>1, <3>2, <3>4 DEF BackupEach
    <3>5. CASE BackupEachEnd(n, f) /\ f \in hmove'[n]
      BY <2>1, <3>2, <3>5 DEF BackupEachEnd, Returned, BackInv, Moving
    <3> QED
      BY <1>11, <3>3, <3>4, <3>5
  <2>9. Moving'
    BY <1>1, <2>1, <2>2, <2>4, <2>6, <2>8 DEF BackInv, Moving, OwnSame
  <2>10. ListedObsolete'
    BY <1>1, <2>6 DEF BackInv, ListedObsolete, NONE
  <2>11. ASSUME NEW g \in Files, g # f PROVE Held(g)'
    <3>1. Settled(NextNode(Owner[g]), g)' => Settled(NextNode(Owner[g]), g)
      BY <1>4, <2>2, <2>6, <2>7, <2>11 DEF Settled
    <3> QED
      BY <1>1, <1>2, <1>4, <2>5, <2>11, <3>1, HeldFrame DEF BackInv
  <2>12. Held(f)'
    <3> SUFFICES ASSUME Backed(f), ~hbad'[n], hvec'[n][f] = NONE
                 PROVE  mem'[n][f] = "whole"
      BY <1>1, <1>2, <2>1, <2>2 DEF Held, Settled, BackInv
    <3>1. /\ state[f] # "OBSOLESCENT"
          /\ mem[Owner[f]][f] \in {"absent", "whole"}
      BY BackedWhole
    <3>2. CASE BackupEach(n, f)
      BY <2>1, <3>1, <3>2 DEF BackupEach, TypeOK, BackInv, ListedObsolete
    <3>3. CASE BackupEachEnd(n, f)
      <4>1. mem[Owner[f]][f] = "whole"
        BY <3>1, <3>3 DEF BackupEachEnd, BackInv, Moving
      <4> QED
        BY <2>1, <3>3, <4>1 DEF BackupEachEnd, Returned, TypeOK
    <3> QED
      BY <1>11, <3>2, <3>3
  <2> QED
    BY <1>3, <2>4, <2>9, <2>10, <2>11, <2>12 DEF BackInv
<1> QED
  BY <1>6, <1>8, <1>9, <1>10, <1>11 DEF T2Step, ServStep

LEMMA StepBoot ==
  ASSUME TypeInv, SafeInv, BootInv, [Next]_vars
  PROVE  BootInv'
<1>1. CASE UNCHANGED vars
  BY <1>1 DEF BootInv, BootFlags, Quiet, InHand, OwnFiles, vars
<1> QED
  BY <1>1, StepFlags, StepQuiet, StepInHand DEF BootInv

LEMMA StepBack ==
  ASSUME TypeInv, SafeInv, BootInv, BackInv, [Next]_vars
  PROVE  BackInv'
<1>1. CASE UNCHANGED vars
  BY <1>1 DEF BackInv, Moving, ListedObsolete, SendsEntry, Held, Backed, Settled, vars
<1>2. CASE TrainingStep
  BY <1>2, TrainingBack
<1>3. ASSUME NEW n \in Nodes,
             Start(n) \/ Crash(n) \/ WorkerStep(n) \/ T1Step(n) \/ T2Step(n)
               \/ ServStep(n)
      PROVE  BackInv'
  BY <1>3, StartBack, CrashBack, WorkerBack, RetrievalBack, RebackupBack
<1> QED
  BY <1>1, <1>2, <1>3 DEF Next

(* A node's flags, threads and rows follow the order of its boot: it is    *)
(* quiet until it has retrieved its files, and ready only afterwards.      *)
THEOREM BootInvariance == Spec => []BootInv
  BY TypeInvariance, SafeInvariance, BootInit, StepBoot, PTL DEF Spec

(* A file whose owner counts it as backed up is complete on the next node, *)
(* or that node still has it to fetch.                                     *)
THEOREM BackInvariance == Spec => []BackInv
  BY TypeInvariance, SafeInvariance, BootInvariance, BackInit, StepBack, PTL DEF Spec

(* However nodes crash and restart and transfers fail, a node is ready     *)
(* only with a complete backup of every file of the previous node whose    *)
(* row is BACKED_UP or PERSISTENT.                                         *)
THEOREM ReadyCorrect == Spec => []ReadyHoldsBackups
<1>1. BootInv /\ BackInv => ReadyHoldsBackups
  BY RingFacts
     DEF BootInv, BootFlags, BackInv, Held, Backed, Settled, ReadyHoldsBackups
<1> QED
  BY <1>1, BootInvariance, BackInvariance, PTL

-----------------------------------------------------------------------------
(* Sequences of iterations.                                                *)

In(s, i) == \E k \in 1 .. Len(s) : s[k] = i
NoRepeat(s) == \A i, j \in 1 .. Len(s) : s[i] = s[j] => i = j

LEMMA PushFacts ==
  ASSUME NEW s \in Seq(Nat), NEW i \in Nat, ~In(s, i), NoRepeat(s)
  PROVE  /\ NoRepeat(Append(s, i)) /\ Len(Append(s, i)) = Len(s) + 1
         /\ \A j \in Nat : In(Append(s, i), j) <=> In(s, j) \/ j = i
<1> DEFINE t == Append(s, i)
<1>1. /\ Len(s) \in Nat /\ Len(t) = Len(s) + 1
      /\ \A k \in 1 .. Len(s) : t[k] = s[k]
      /\ t[Len(s) + 1] = i
  OBVIOUS
<1> HIDE DEF t
<1>2. NoRepeat(t)
  BY <1>1 DEF NoRepeat, In
<1>3. \A j \in Nat : In(t, j) <=> In(s, j) \/ j = i
  BY <1>1 DEF In
<1> QED
  BY <1>1, <1>2, <1>3 DEF t

LEMMA PopFacts ==
  ASSUME NEW s \in Seq(Nat), s # <<>>, NoRepeat(s)
  PROVE  /\ NoRepeat(Tail(s)) /\ Len(Tail(s)) = Len(s) - 1
         /\ \A j \in Nat : In(s, j) => In(Tail(s), j) \/ j = Head(s)
         /\ \A j \in Nat : In(Tail(s), j) => In(s, j)
<1> DEFINE t == Tail(s)
<1>1. /\ Len(s) \in Nat \ {0} /\ Len(t) = Len(s) - 1
      /\ \A k \in 1 .. Len(t) : t[k] = s[k + 1]
      /\ Head(s) = s[1]
  OBVIOUS
<1> HIDE DEF t
<1>2. NoRepeat(t)
  <2> SUFFICES ASSUME NEW k \in 1 .. Len(t), NEW l \in 1 .. Len(t), t[k] = t[l] PROVE k = l
    BY DEF NoRepeat
  <2>1. k + 1 \in 1 .. Len(s) /\ l + 1 \in 1 .. Len(s) /\ k \in Nat /\ l \in Nat
    BY <1>1
  <2>2. t[k] = s[k + 1] /\ t[l] = s[l + 1]
    BY <1>1
  <2>3. k + 1 = l + 1
    BY <2>1, <2>2 DEF NoRepeat
  <2> QED
    BY <2>1, <2>3
<1>3. ASSUME NEW j \in Nat, In(s, j) PROVE In(t, j) \/ j = Head(s)
  <2>1. PICK k \in 1 .. Len(s) : s[k] = j
    BY <1>3 DEF In
  <2>2. CASE k = 1
    BY <1>1, <2>1, <2>2
  <2>3. CASE k # 1
    <3>1. k - 1 \in 1 .. Len(t) /\ t[k - 1] = j
      BY <1>1, <2>1, <2>3
    <3> QED
      BY <3>1 DEF In
  <2> QED
    BY <2>2, <2>3
<1>4. ASSUME NEW j \in Nat, In(t, j) PROVE In(s, j)
  <2>1. PICK k \in 1 .. Len(t) : t[k] = j
    BY <1>4 DEF In
  <2>2. k + 1 \in 1 .. Len(s) /\ s[k + 1] = j
    BY <1>1, <2>1
  <2> QED
    BY <2>2 DEF In
<1> QED
  BY <1>1, <1>2, <1>3, <1>4 DEF t

LEMMA IntervalFacts ==
  ASSUME NEW n \in Nat
  PROVE  IsFiniteSet(1 .. n) /\ Cardinality(1 .. n) = n
<1>1. IsFiniteSet(1 .. n)
  BY FS_Interval
<1>2. Cardinality(1 .. n) = IF 1 > n THEN 0 ELSE n - 1 + 1
  BY FS_Interval
<1> QED
  BY <1>1, <1>2

(* A sequence without repetition is no longer than a set of its elements.  *)
LEMMA LenBound ==
  ASSUME NEW S, IsFiniteSet(S), NEW s \in Seq(Nat), NoRepeat(s),
         \A k \in 1 .. Len(s) : s[k] \in S
  PROVE  Len(s) <= Cardinality(S)
<1> DEFINE g == [k \in 1 .. Len(s) |-> s[k]]
<1>1. g \in Injection(1 .. Len(s), S)
  BY DEF Injection, IsInjective, NoRepeat
<1>2. Cardinality(1 .. Len(s)) <= Cardinality(S)
  BY <1>1, FS_Injection
<1>3. Len(s) \in Nat
  OBVIOUS
<1>4. Cardinality(1 .. Len(s)) = Len(s)
  BY <1>3, IntervalFacts
<1> QED
  BY <1>2, <1>4

(* A set whose elements a sequence lists is no larger than the sequence.   *)
LEMMA SetBound ==
  ASSUME NEW S \in SUBSET Nat, NEW s \in Seq(Nat), \A i \in S : In(s, i)
  PROVE  IsFiniteSet(S) /\ Cardinality(S) <= Len(s)
<1> DEFINE R == {s[k] : k \in 1 .. Len(s)}
           g == [k \in 1 .. Len(s) |-> s[k]]
<1>1. Len(s) \in Nat
  OBVIOUS
<1>2. IsFiniteSet(1 .. Len(s)) /\ Cardinality(1 .. Len(s)) = Len(s)
  BY <1>1, IntervalFacts
<1>3. g \in Surjection(1 .. Len(s), R)
  BY DEF Surjection
<1>4. IsFiniteSet(R) /\ Cardinality(R) <= Len(s)
  BY <1>2, <1>3, FS_Surjection
<1>5. S \in SUBSET R
  BY DEF In
<1>6. IsFiniteSet(S) /\ Cardinality(S) <= Cardinality(R)
  BY <1>4, <1>5, FS_Subset
<1> QED
  BY <1>1, <1>4, <1>6, FS_CardinalityType

-----------------------------------------------------------------------------
(* The window and what is loaded from files.                               *)

LiveIters(n) == {Iter[f] : f \in LiveRows(n)}

(* A node's window has no repetition and, after at most one crash, keeps   *)
(* its limit. Until retrieval has ended, the rows in hand are live, and    *)
(* the window lists only iterations of live rows: no more, after one       *)
(* crash, than the window held before it.                                  *)
Window(n) ==
  /\ NoRepeat(q_[n])
  /\ crashes <= 1 => Len(q_[n]) <= MaxIteration
  /\ t1[n] # "done" =>
       /\ resp[n] \subseteq LiveRows(n)
       /\ \A k \in 1 .. Len(q_[n]) : q_[n][k] \in LiveIters(n)
       /\ crashes <= 1 => Cardinality(LiveIters(n)) <= MaxIteration

(* What an owner holds has a row, and is listed unless it is being         *)
(* evicted; what is being saved is held. Before any crash every live row   *)
(* is listed.                                                              *)
Entry(f) ==
  /\ mem[Owner[f]][f] # "absent" =>
       state[f] # NONE /\ (state[f] # "OBSOLESCENT" => In(q_[Owner[f]], Iter[f]))
  /\ f \in saving => mem[Owner[f]][f] # "absent"
  /\ crashes = 0 /\ state[f] \notin {NONE, "OBSOLESCENT"} => In(q_[Owner[f]], Iter[f])

(* While files are read, a live row is in hand or in memory, or there was  *)
(* no memory for one, or some live row has no complete file.               *)
Reading(n) ==
  t1[n] = "files" =>
    \/ n \in nomem
    \/ \A f \in LiveRows(n) : f \in resp[n] \/ mem[n][f] = "whole"
    \/ \E f \in LiveRows(n) : disk[f] # "whole"

WindowInv ==
  /\ \A n \in Nodes : Window(n) /\ Reading(n)
  /\ \A f \in Files : Entry(f)

LEMMA LiveIsFinite ==
  ASSUME NEW n
  PROVE  IsFiniteSet(LiveIters(n)) /\ LiveIters(n) \subseteq Nat
<1> DEFINE g == [f \in LiveRows(n) |-> Iter[f]]
<1>1. LiveRows(n) \in SUBSET Files
  BY DEF LiveRows, Rows, OwnFiles
<1>2. IsFiniteSet(LiveRows(n))
  BY <1>1, RecoveryAssumption, FS_Subset
<1>3. g \in Surjection(LiveRows(n), LiveIters(n))
  BY DEF Surjection, LiveIters
<1>4. IsFiniteSet(LiveIters(n))
  BY <1>2, <1>3, FS_Surjection
<1> QED
  BY <1>1, <1>4, RingFacts DEF LiveIters

(* Rows are never deleted, and OBSOLESCENT is final.                       *)
LEMMA RowMoves ==
  ASSUME TypeInv, SafeInv, Next, NEW f \in Files
  PROVE  /\ state[f] # NONE => state'[f] # NONE
         /\ state[f] = "OBSOLESCENT" => state'[f] = "OBSOLESCENT"
         /\ SaveCreate(f) \/ (state[f] = NONE => state'[f] = NONE)
<1> USE DEF TypeInv, TypeOK, NONE
<1>1. CASE \E g \in Files : SaveCreate(g)
  <2>1. PICK g \in Files : SaveCreate(g)
    BY <1>1
  <2>2. state[g] = NONE /\ state' = [state EXCEPT ![g] = "PENDING"]
    BY <2>1 DEF SaveCreate
  <2>3. g = f => SaveCreate(f)
    BY <2>1
  <2> QED
    BY <2>2, <2>3
<1>2. CASE \E g \in Files : SaveDone(g)
  BY <1>2 DEF SaveDone, SafeInv, OwnIntact
<1>3. CASE \E g \in Files : EvictRow(g)
  BY <1>3 DEF EvictRow, OldestRows, Rows
<1>4. CASE \E n \in Nodes : UpdateState(n)
  <2>1. PICK n \in Nodes : UpdateState(n)
    BY <1>4
  <2>2. /\ state[wkey[n]] \in {"CACHED", "BACKED_UP"}
        /\ state' = [state EXCEPT ![wkey[n]] = Promoted(wpc[n])]
        /\ Promoted(wpc[n]) \in {"BACKED_UP", "PERSISTENT"}
    BY <2>1 DEF UpdateState, SafeInv, WorkerKnows, Knows, Promoted
  <2> QED
    BY <2>2
<1>5. CASE state' = state
  BY <1>5
<1>6. ASSUME NEW n \in Nodes, WorkerStep(n), ~UpdateState(n) PROVE state' = state
  BY <1>6 DEF WorkerStep, BackupEnd, PersistEnd, ReconcileIgnore, ReconcileBackup,
              ReconcilePersist, ReconcileDelete, rowVars
<1>7. ASSUME NEW n \in Nodes, Start(n) \/ Crash(n) \/ EvictDone(n) PROVE state' = state
  BY <1>7 DEF Start, Crash, EvictDone, rowVars
<1> QED
  BY <1>1, <1>2, <1>3, <1>4, <1>5, <1>6, <1>7, RetrievalFrame, RebackupFrame
     DEF Next, TrainingStep

(* Until retrieval has ended, rows and files of a node stay as they are.   *)
LEMMA RowsStay ==
  ASSUME TypeInv, SafeInv, BootInv, Next, NEW m \in Nodes, t1[m] # "done",
         NEW f \in Files, Owner[f] = m
  PROVE  state'[f] = state[f] /\ disk'[f] = disk[f]
<1> USE DEF TypeInv, TypeOK
<1>1. /\ wpc[m] = "idle" /\ ~ready[m] /\ f \notin saving /\ f \notin work_queue[m]
  BY DEF BootInv, BootFlags, Quiet, OwnFiles
<1>2. CASE TrainingStep
  <2>1. disk' = disk
    BY <1>2, TrainingFrame
  <2>2. ASSUME NEW g \in Files, SaveCreate(g) \/ SaveDone(g) \/ EvictRow(g)
        PROVE  g # f /\ \E c : state' = [state EXCEPT ![g] = c]
    BY <1>1, <2>2 DEF SaveCreate, SaveDone, EvictRow, Evicting
  <2>3. ASSUME NEW n \in Nodes, EvictDone(n) PROVE state' = state
    BY <2>3 DEF EvictDone, rowVars
  <2>4. CASE \E g \in Files : SaveCreate(g) \/ SaveDone(g) \/ EvictRow(g)
    <3>1. PICK g \in Files : SaveCreate(g) \/ SaveDone(g) \/ EvictRow(g)
      BY <2>4
    <3>2. g # f /\ \E c : state' = [state EXCEPT ![g] = c]
      BY <2>2, <3>1
    <3> QED
      BY <2>1, <3>2
  <2> QED
    BY <1>2, <2>1, <2>3, <2>4 DEF TrainingStep
<1>3. ASSUME NEW n \in Nodes, WorkerStep(n) PROVE state'[f] = state[f] /\ disk'[f] = disk[f]
  <2>1. CASE UpdateState(n) \/ PersistEnd(n)
    <3>1. wkey[n] # f
      BY <1>1, <2>1 DEF UpdateState, PersistEnd, SafeInv, WorkerKnows, Knows
    <3> QED
      BY <2>1, <3>1 DEF UpdateState, PersistEnd
  <2>2. CASE \E g \in Files : ReconcilePersist(n, g)
    BY <1>1, <2>2 DEF ReconcilePersist
  <2> QED
    BY <1>3, <2>1, <2>2
       DEF WorkerStep, BackupEnd, ReconcileIgnore, ReconcileBackup, ReconcileDelete, rowVars
<1> QED
  BY <1>2, <1>3, RetrievalFrame, RebackupFrame DEF Next, Start, Crash, rowVars

LEMMA LiveStays ==
  ASSUME TypeInv, SafeInv, BootInv, Next, NEW m \in Nodes, t1[m] # "done"
  PROVE  LiveRows(m)' = LiveRows(m) /\ LiveIters(m)' = LiveIters(m)
<1>1. LiveRows(m)' = LiveRows(m)
  BY RowsStay DEF LiveRows, Rows, OwnFiles
<1> QED
  BY <1>1 DEF LiveIters

(* Retrieval is under way again only after a crash.                        *)
LEMMA BeforeDone ==
  ASSUME TypeInv, BootInv, Next, NEW m \in Nodes, t1'[m] # "done"
  PROVE  t1[m] # "done" \/ Crash(m)
<1>1. ASSUME NEW n \in Nodes, Start(n) PROVE t1[m] # "done"
  BY <1>1 DEF Start, BootInv, BootFlags, TypeInv, TypeOK
<1>2. ASSUME NEW n \in Nodes, Crash(n), n # m PROVE t1[m] # "done"
  BY <1>2 DEF Crash, TypeInv, TypeOK
<1> QED
  BY <1>1, <1>2, TrainingFrame, WorkerFrame, RetrievalMoves, RebackupFrame DEF Next

(* Where a node's window changes.                                          *)
Push(s, i) == IF In(s, i) THEN s ELSE Append(s, i)

LEMMA WindowMoves ==
  ASSUME TypeInv, Next, NEW m \in Nodes
  PROVE  \/ q_'[m] = q_[m]
         \/ \E f \in Files : /\ Owner[f] = m /\ SaveCreate(f)
                             /\ q_'[m] = Push(q_[m], Iter[f])
         \/ EvictDone(m) /\ q_'[m] = Tail(q_[m])
         \/ \E f \in Files : LoadFile(m, f) /\ q_'[m] = Push(q_[m], Iter[f])
         \/ Crash(m) /\ q_'[m] = <<>>
<1> USE DEF TypeInv, TypeOK
<1>1. ASSUME NEW f \in Files, SaveCreate(f)
      PROVE  q_'[m] = q_[m] \/ (Owner[f] = m /\ q_'[m] = Push(q_[m], Iter[f]))
  BY <1>1, RingFacts DEF SaveCreate, Push, In, IsExist
<1>2. ASSUME NEW n \in Nodes, NEW f \in Files, LoadFile(n, f)
      PROVE  q_'[m] = q_[m] \/ (n = m /\ q_'[m] = Push(q_[m], Iter[f]))
  BY <1>2 DEF LoadFile, Push, In, IsExist
<1>3. ASSUME NEW n \in Nodes, EvictDone(n)
      PROVE  q_'[m] = q_[m] \/ (n = m /\ q_'[m] = Tail(q_[m]))
  BY <1>3 DEF EvictDone
<1>4. ASSUME NEW n \in Nodes, Crash(n)
      PROVE  q_'[m] = q_[m] \/ (n = m /\ q_'[m] = <<>>)
  BY <1>4 DEF Crash
<1>5. ASSUME NEW f \in Files, SaveDone(f) \/ EvictRow(f) PROVE q_' = q_
  BY <1>5 DEF SaveDone, EvictRow
<1>6. ASSUME NEW n \in Nodes, Start(n) PROVE q_' = q_
  BY <1>6 DEF Start
<1>7. ASSUME NEW n \in Nodes, T1Step(n)
      PROVE  q_' = q_ \/ \E f \in Files : LoadFile(n, f)
  BY <1>7 DEF T1Step, BatchLoadRemote, LoadAllDone, FileSystemRows, FileSystemDone, LoadEach
<1> QED
  BY <1>1, <1>2, <1>3, <1>4, <1>5, <1>6, <1>7, WorkerFrame, RebackupFrame
     DEF Next, TrainingStep

(* Where an owner's entry appears, and what is being saved.                *)
LEMMA EntryMoves ==
  ASSUME TypeInv, SafeInv, BootInv, Next, NEW f \in Files
  PROVE  /\ mem'[Owner[f]][f] # "absent" =>
              \/ mem[Owner[f]][f] # "absent"
              \/ SaveCreate(f) \/ SaveDone(f) \/ LoadFile(Owner[f], f)
         /\ f \in saving' => SaveCreate(f) \/ f \in saving
         /\ mem[Owner[f]][f] # "absent" /\ mem'[Owner[f]][f] = "absent" =>
              state[f] = "OBSOLESCENT" \/ Crash(Owner[f])
<1> USE RingFacts DEF TypeInv, TypeOK
<1>1. ASSUME NEW g \in Files, SaveCreate(g) \/ SaveDone(g) \/ EvictRow(g)
      PROVE  /\ \/ mem'[Owner[f]][f] = mem[Owner[f]][f]
                \/ g = f /\ mem'[Owner[f]][f] # "absent" /\ ~EvictRow(g)
             /\ f \in saving' => f \in saving \/ (g = f /\ SaveCreate(g))
  <2>1. CASE SaveCreate(g)
    <3>1. saving' = saving \cup {g} /\ mem' = [mem EXCEPT ![Owner[g]][g] = "torn"]
      BY <2>1 DEF SaveCreate
    <3>2. ~EvictRow(g)
      BY <2>1 DEF SaveCreate, EvictRow, OldestRows, Rows
    <3> QED
      BY <2>1, <3>1, <3>2
  <2>2. CASE SaveDone(g)
    <3>1. saving' = saving \ {g} /\ mem' = [mem EXCEPT ![Owner[g]][g] = "whole"]
      BY <2>2 DEF SaveDone
    <3>2. ~EvictRow(g)
      BY <2>2 DEF SaveDone, EvictRow, Evicting, OwnFiles
    <3> QED
      BY <3>1, <3>2
  <2>3. CASE EvictRow(g)
    BY <2>3 DEF EvictRow
  <2> QED
    BY <1>1, <2>1, <2>2, <2>3
<1>2. ASSUME NEW n \in Nodes, EvictDone(n) PROVE mem' = mem /\ saving' = saving
  BY <1>2 DEF EvictDone
<1>3. ASSUME NEW n \in Nodes, WorkerStep(n)
      PROVE  /\ saving' = saving
             /\ \/ mem'[Owner[f]][f] = mem[Owner[f]][f]
                \/ mem'[Owner[f]][f] = "absent" /\ state[f] = "OBSOLESCENT"
  <2>1. saving' = saving
    BY <1>3, WorkerFrame
  <2>2. CASE BackupEnd(n)
    <3>1. /\ wkey[n] \in Files /\ Owner[wkey[n]] = n /\ NextNode(n) # n
          /\ mem' = mem \/ mem' = [mem EXCEPT ![NextNode(n)][wkey[n]] = mem[n][wkey[n]]]
      BY <2>2 DEF BackupEnd, WorkerHasKey, SafeInv, WorkerKnows, Knows
    <3>2. OwnSame
      BY <3>1, ElsewhereSame DEF OwnSame
    <3> QED
      BY <2>1, <3>2 DEF OwnSame
  <2>3. ASSUME NEW g \in Files, ReconcileBackup(n, g) PROVE mem'[Owner[f]][f] = mem[Owner[f]][f]
    BY <2>3 DEF ReconcileBackup
  <2>4. ASSUME NEW g \in Files, ReconcileDelete(n, g)
        PROVE  \/ mem'[Owner[f]][f] = mem[Owner[f]][f]
               \/ mem'[Owner[f]][f] = "absent" /\ state[f] = "OBSOLESCENT"
    BY <2>4 DEF ReconcileDelete
  <2> QED
    BY <1>3, <2>1, <2>2, <2>3, <2>4
       DEF WorkerStep, PersistEnd, UpdateState, ReconcileIgnore, ReconcilePersist
<1>4. ASSUME NEW n \in Nodes, T1Step(n)
      PROVE  /\ saving' = saving
             /\ \/ mem'[Owner[f]][f] = mem[Owner[f]][f]
                \/ mem'[Owner[f]][f] = "whole" /\ LoadFile(Owner[f], f)
  <2>1. saving' = saving
    BY <1>4, RetrievalFrame
  <2>2. ASSUME NEW g \in Files, LoadFile(n, g)
        PROVE  \/ mem'[Owner[f]][f] = mem[Owner[f]][f]
               \/ mem'[Owner[f]][f] = "whole" /\ LoadFile(Owner[f], f)
    <3>1. CASE n = Owner[f] /\ g = f
      BY <2>2, <3>1 DEF LoadFile
    <3>2. CASE ~(n = Owner[f] /\ g = f)
      BY <2>2, <3>2 DEF LoadFile
    <3> QED
      BY <3>1, <3>2
  <2>3. ASSUME NEW g \in Files, LoadEach(n, g) PROVE mem' = mem
    <3>1. Owner[g] = n
      BY <2>3 DEF LoadEach, BootInv, InHand, OwnFiles
    <3>2. mem' = mem \/ mem' = [mem EXCEPT ![n][g] = mem[n][g]]
      BY <2>3, <3>1 DEF LoadEach, LoadPeer
    <3> QED
      BY <3>2
  <2> QED
    BY <1>4, <2>1, <2>2, <2>3
       DEF T1Step, BatchLoadRemote, LoadAllDone, FileSystemRows, FileSystemDone
<1>5. ASSUME NEW n \in Nodes, T2Step(n) \/ ServStep(n)
      PROVE  saving' = saving /\ mem'[Owner[f]][f] = mem[Owner[f]][f]
  <2>1. saving' = saving
    BY <1>5, RebackupFrame
  <2>2. ASSUME NEW g \in Files, BackupEach(n, g) \/ BackupEachEnd(n, g)
        PROVE  mem'[Owner[f]][f] = mem[Owner[f]][f]
    <3>1. Owner[g] # n
      BY <2>2 DEF BackupEach, BackupEachEnd, SafeInv, HandlerKnows
    <3>2. mem' = mem \/ \E c \in Content : mem' = [mem EXCEPT ![n][g] = c]
      BY <2>2 DEF BackupEach, BackupEachEnd, Content
    <3>3. OwnSame
      BY <3>1, <3>2, ElsewhereSame DEF OwnSame
    <3> QED
      BY <3>3 DEF OwnSame
  <2> QED
    BY <1>5, <2>1, <2>2 DEF T2Step, ServStep, NotifyBackup, MarkReady, CheckComplete, Answer
<1>6. ASSUME NEW n \in Nodes, Crash(n)
      PROVE  /\ saving' \subseteq saving
             /\ \/ mem'[Owner[f]][f] = mem[Owner[f]][f]
                \/ mem'[Owner[f]][f] = "absent" /\ Owner[f] = n
  BY <1>6 DEF Crash
<1>7. ASSUME NEW n \in Nodes, Start(n) PROVE saving' = saving /\ mem' = mem
  BY <1>7 DEF Start
<1> QED
  BY <1>1, <1>2, <1>3, <1>4, <1>5, <1>6, <1>7 DEF Next, TrainingStep

LEMMA WindowInit == Init => WindowInv
<1> SUFFICES ASSUME Init PROVE WindowInv
  OBVIOUS
<1>1. ASSUME NEW n \in Nodes PROVE Window(n) /\ Reading(n)
  <2>1. q_[n] = <<>> /\ resp[n] = {} /\ t1[n] = "off" /\ LiveRows(n) = {}
    BY DEF Init, LiveRows, Rows, OwnFiles, NoRows
  <2>2. Cardinality(LiveIters(n)) = 0
    <3>1. LiveIters(n) = {}
      BY <2>1 DEF LiveIters
    <3> QED
      BY <3>1, FS_EmptySet
  <2> QED
    BY <2>1, <2>2, RecoveryAssumption DEF Window, Reading, NoRepeat
<1>2. ASSUME NEW f \in Files PROVE Entry(f)
  BY RingFacts DEF Init, Entry, NoRows, NONE
<1> QED
  BY <1>1, <1>2 DEF WindowInv

(* What pushing an iteration does to a window.                             *)
LEMMA PushWindow ==
  ASSUME NEW s \in Seq(Nat), NEW i \in Nat, NoRepeat(s)
  PROVE  /\ Push(s, i) \in Seq(Nat) /\ NoRepeat(Push(s, i))
         /\ \A j \in Nat : In(Push(s, i), j) <=> In(s, j) \/ j = i
         /\ Len(Push(s, i)) <= Len(s) + 1
         /\ In(s, i) => Push(s, i) = s
<1>1. CASE In(s, i)
  BY <1>1 DEF Push
<1>2. CASE ~In(s, i)
  <2>1. Push(s, i) = Append(s, i) /\ Append(s, i) \in Seq(Nat) /\ Len(s) \in Nat
    BY <1>2 DEF Push
  <2>2. /\ NoRepeat(Append(s, i)) /\ Len(Append(s, i)) = Len(s) + 1
        /\ \A j \in Nat : In(Append(s, i), j) <=> In(s, j) \/ j = i
    BY <1>2, PushFacts
  <2> QED
    BY <1>2, <2>1, <2>2
<1> QED
  BY <1>1, <1>2

LEMMA QueueFacts ==
  ASSUME TypeInv, WindowInv, NEW m \in Nodes
  PROVE  q_[m] \in Seq(Nat) /\ Len(q_[m]) \in Nat /\ NoRepeat(q_[m])
  BY DEF TypeInv, TypeOK, WindowInv, Window

LEMMA EvictFacts ==
  ASSUME TypeInv, NEW m \in Nodes, EvictDone(m)
  PROVE  q_[m] # <<>> /\ ready[m]
  BY RecoveryAssumption DEF EvictDone, Evicting, Admitted, OwnFiles, TypeInv, TypeOK

(* A listed live row stays listed, unless its node crashes.                *)
LEMMA StaysListed ==
  ASSUME TypeInv, WindowInv, Next, NEW f \in Files, ~Crash(Owner[f]),
         state[f] \notin {NONE, "OBSOLESCENT"}, In(q_[Owner[f]], Iter[f])
  PROVE  In(q_'[Owner[f]], Iter[f])
<1> DEFINE m == Owner[f]
<1>0. m \in Nodes /\ Iter[f] \in Nat
  BY RingFacts
<1>1. q_[m] \in Seq(Nat) /\ NoRepeat(q_[m])
  BY <1>0, QueueFacts
<1>2. ASSUME NEW g \in Files, q_'[m] = Push(q_[m], Iter[g]) PROVE In(q_'[m], Iter[f])
  <2>1. Iter[g] \in Nat
    BY RingFacts
  <2>2. In(Push(q_[m], Iter[g]), Iter[f])
    BY <1>0, <1>1, <2>1, PushWindow
  <2> QED
    BY <1>2, <2>2
<1>3. CASE EvictDone(m) /\ q_'[m] = Tail(q_[m])
  <2>1. Iter[f] # Head(q_[m])
    BY <1>3 DEF EvictDone, OldestRows, Rows, OwnFiles
  <2>2. q_[m] # <<>>
    BY <1>0, <1>3, EvictFacts
  <2> QED
    BY <1>0, <1>1, <1>3, <2>1, <2>2, PopFacts
<1> QED
  BY <1>0, <1>2, <1>3, WindowMoves

LEMMA CrashCount ==
  ASSUME TypeInv, Next
  PROVE  /\ crashes \in Nat
         /\ \/ crashes' = crashes /\ \A n \in Nodes : ~Crash(n)
            \/ crashes' = crashes + 1
<1>1. ASSUME NEW n \in Nodes, Crash(n) PROVE crashes' = crashes + 1
  BY <1>1 DEF Crash
<1>2. ASSUME \A n \in Nodes : ~Crash(n) PROVE crashes' = crashes
  BY <1>2, TrainingFrame, WorkerFrame, RetrievalFrame, RebackupFrame DEF Next, Start, budget
<1> QED
  BY <1>1, <1>2 DEF TypeInv, TypeOK

LEMMA StepEntry ==
  ASSUME TypeInv, SafeInv, BootInv, WindowInv, Next, NEW f \in Files
  PROVE  Entry(f)'
<1> DEFINE m == Owner[f]
<1>0. m \in Nodes /\ Iter[f] \in Nat /\ Entry(f)
  BY RingFacts DEF WindowInv
<1>1. q_[m] \in Seq(Nat) /\ NoRepeat(q_[m])
  BY <1>0, QueueFacts
<1>2. CASE SaveCreate(f)
  <2>1. /\ state'[f] = "PENDING" /\ mem'[m][f] = "torn"
    BY <1>0, <1>2 DEF SaveCreate, TypeInv, TypeOK
  <2>2. q_'[m] = Push(q_[m], Iter[f])
    BY <1>0, <1>2 DEF SaveCreate, Push, In, IsExist, TypeInv, TypeOK
  <2>3. In(q_'[m], Iter[f])
    BY <1>0, <1>1, <2>2, PushWindow
  <2> QED
    BY <2>1, <2>3 DEF Entry, NONE
<1>3. CASE LoadFile(m, f)
  <2>1. q_'[m] = Push(q_[m], Iter[f])
    BY <1>0, <1>3 DEF LoadFile, Push, In, IsExist, TypeInv, TypeOK
  <2>2. In(q_'[m], Iter[f])
    BY <1>0, <1>1, <2>1, PushWindow
  <2>3. state[f] # NONE /\ state' = state /\ saving' = saving
    BY <1>0, <1>3 DEF LoadFile, rowVars, WindowInv, Window, LiveRows, Rows
  <2>4. f \notin saving
    BY <1>0, <1>3 DEF LoadFile, BootInv, Quiet, OwnFiles
  <2> QED
    BY <2>2, <2>3, <2>4 DEF Entry
<1>4. CASE Crash(m)
  <2>1. mem'[m][f] = "absent" /\ f \notin saving' /\ crashes' # 0
    BY <1>0, <1>4, CrashCount DEF Crash, OwnFiles, TypeInv, TypeOK
  <2> QED
    BY <2>1 DEF Entry
<1>5. CASE ~SaveCreate(f) /\ ~LoadFile(m, f) /\ ~Crash(m)
  <2>1. /\ state[f] # NONE => state'[f] # NONE
        /\ state'[f] \notin {NONE, "OBSOLESCENT"} => state[f] \notin {NONE, "OBSOLESCENT"}
    BY <1>5, RowMoves
  <2>2. mem'[m][f] # "absent" => mem[m][f] # "absent"
    BY <1>0, <1>5, EntryMoves DEF Entry, SaveDone
  <2>3. f \in saving' => f \in saving
    BY <1>5, EntryMoves
  <2>4. f \in saving' => mem'[m][f] # "absent"
    BY <1>0, <1>5, <2>3, EntryMoves DEF Entry, SafeInv, OwnIntact
  <2>5. state'[f] \notin {NONE, "OBSOLESCENT"} /\ In(q_[m], Iter[f]) => In(q_'[m], Iter[f])
    BY <1>5, <2>1, StaysListed
  <2>6. crashes' = 0 => crashes = 0
    BY CrashCount
  <2> QED
    BY <1>0, <2>1, <2>2, <2>4, <2>5, <2>6 DEF Entry
<1> QED
  BY <1>2, <1>3, <1>4, <1>5

LEMMA StepWindow ==
  ASSUME TypeInv, SafeInv, BootInv, WindowInv, Next, NEW m \in Nodes
  PROVE  Window(m)'
<1>0. /\ q_[m] \in Seq(Nat) /\ Len(q_[m]) \in Nat /\ NoRepeat(q_[m])
      /\ Window(m) /\ MaxIteration \in Nat \ {0}
  BY QueueFacts, RecoveryAssumption DEF WindowInv
<1>1. crashes \in Nat /\ (crashes' <= 1 => crashes <= 1)
  BY CrashCount
<1>2. CASE Crash(m)
  <2>1. q_'[m] = <<>> /\ resp'[m] = {} /\ crashes' = crashes + 1 /\ state' = state
    BY <1>2 DEF Crash, rowVars, TypeInv, TypeOK
  <2>2. LiveIters(m)' = LiveIters(m)
    BY <2>1 DEF LiveIters, LiveRows, Rows
  <2>3. crashes' <= 1 => Cardinality(LiveIters(m)) <= MaxIteration
    <3> SUFFICES ASSUME crashes = 0 PROVE Cardinality(LiveIters(m)) <= MaxIteration
      BY <1>1, <2>1
    <3>1. \A i \in LiveIters(m) : In(q_[m], i)
      BY DEF LiveIters, LiveRows, Rows, OwnFiles, WindowInv, Entry
    <3>2. LiveIters(m) \in SUBSET Nat /\ IsFiniteSet(LiveIters(m))
      BY LiveIsFinite
    <3>3. Cardinality(LiveIters(m)) <= Len(q_[m])
      BY <1>0, <3>1, <3>2, SetBound
    <3>4. Len(q_[m]) <= MaxIteration
      BY <1>0 DEF Window
    <3> QED
      BY <1>0, <3>2, <3>3, <3>4, FS_CardinalityType
  <2>4. NoRepeat(q_'[m]) /\ Len(q_'[m]) <= MaxIteration
        /\ \A k \in 1 .. Len(q_'[m]) : FALSE
    BY <1>0, <2>1 DEF NoRepeat
  <2> QED
    BY <2>1, <2>2, <2>3, <2>4 DEF Window
<1>3. CASE ~Crash(m)
  <2>1. t1'[m] # "done" => t1[m] # "done" /\ ~ready[m]
    BY <1>3, BeforeDone DEF BootInv, BootFlags
  <2>2. t1[m] # "done" => LiveRows(m)' = LiveRows(m) /\ LiveIters(m)' = LiveIters(m)
    BY LiveStays
  <2>3. t1'[m] # "done" => resp'[m] \subseteq LiveRows(m)
    <3> SUFFICES ASSUME t1'[m] # "done" PROVE resp'[m] \subseteq LiveRows(m)
      OBVIOUS
    <3>1. resp[m] \subseteq LiveRows(m)
      BY <1>0, <2>1 DEF Window
    <3>2. ASSUME NEW n \in Nodes, T1Step(n) PROVE resp'[m] \subseteq LiveRows(m)
      <4>1. CASE n = m
        <5>1. resp'[m] = resp[m] \/ resp'[m] = LiveRows(m) \/ resp'[m] \subseteq resp[m]
          BY <3>2, <4>1
             DEF T1Step, BatchLoadRemote, LoadAllDone, FileSystemRows, FileSystemDone,
                 LoadEach, LoadFile, TypeInv, TypeOK
        <5> QED
          BY <3>1, <5>1
      <4>2. CASE n # m
        BY <3>1, <3>2, <4>2, RetrievalMoves
      <4> QED
        BY <4>1, <4>2
    <3>3. ASSUME NEW n \in Nodes, Crash(n) PROVE resp'[m] = resp[m]
      <4>1. n # m
        BY <1>3, <3>3
      <4> QED
        BY <3>3, <4>1 DEF Crash, TypeInv, TypeOK
    <3> QED
      BY <3>1, <3>2, <3>3, TrainingFrame, WorkerFrame, RebackupFrame DEF Next, Start
  <2>4. CASE q_'[m] = q_[m]
    BY <1>0, <1>1, <2>1, <2>2, <2>3, <2>4 DEF Window
  <2>5. ASSUME NEW f \in Files, Owner[f] = m, SaveCreate(f), q_'[m] = Push(q_[m], Iter[f])
        PROVE  Window(m)'
    <3>1. t1'[m] = "done"
      BY <2>1, <2>5 DEF SaveCreate
    <3>2. In(q_[m], Iter[f]) \/ Len(q_[m]) < MaxIteration
      BY <2>5 DEF SaveCreate, Admitted, IsExist, In
    <3>3. NoRepeat(q_'[m])
      BY <1>0, <2>5, PushWindow, RingFacts
    <3>4. crashes' <= 1 => Len(q_'[m]) <= MaxIteration
      <4>1. CASE In(q_[m], Iter[f])
        BY <1>0, <1>1, <2>5, <4>1 DEF Push, Window
      <4>2. CASE ~In(q_[m], Iter[f])
        <5>1. Len(q_'[m]) = Len(q_[m]) + 1
          BY <1>0, <2>5, <4>2, PushFacts, RingFacts DEF Push
        <5> QED
          BY <1>0, <3>2, <4>2, <5>1
      <4> QED
        BY <4>1, <4>2
    <3> QED
      BY <3>1, <3>3, <3>4 DEF Window
  <2>6. CASE EvictDone(m) /\ q_'[m] = Tail(q_[m])
    <3>1. q_[m] # <<>> /\ t1'[m] = "done"
      BY <2>1, <2>6, EvictFacts
    <3>2. NoRepeat(q_'[m]) /\ Len(q_'[m]) = Len(q_[m]) - 1
      BY <1>0, <2>6, <3>1, PopFacts
    <3> QED
      BY <1>0, <1>1, <3>1, <3>2 DEF Window
  <2>7. ASSUME NEW f \in Files, LoadFile(m, f), q_'[m] = Push(q_[m], Iter[f])
        PROVE  Window(m)'
    <3>1. t1[m] = "files" /\ f \in resp[m] /\ t1' = t1
      BY <2>7 DEF LoadFile
    <3>2. Iter[f] \in LiveIters(m)
      BY <1>0, <3>1 DEF Window, LiveIters
    <3>3. /\ q_'[m] \in Seq(Nat) /\ NoRepeat(q_'[m])
          /\ \A j \in Nat : In(q_'[m], j) => In(q_[m], j) \/ j = Iter[f]
      BY <1>0, <2>7, PushWindow, RingFacts
    <3>4. \A j \in Nat : In(q_[m], j) => j \in LiveIters(m)
      BY <1>0, <3>1 DEF Window, In
    <3>5. \A k \in 1 .. Len(q_'[m]) : q_'[m][k] \in LiveIters(m)
      <4> SUFFICES ASSUME NEW k \in 1 .. Len(q_'[m]) PROVE q_'[m][k] \in LiveIters(m)
        OBVIOUS
      <4>1. q_'[m][k] \in Nat /\ In(q_'[m], q_'[m][k])
        BY <3>3 DEF In
      <4> QED
        BY <3>2, <3>3, <3>4, <4>1
    <3>6. Len(q_'[m]) <= Cardinality(LiveIters(m)) /\ Len(q_'[m]) \in Nat
      BY <3>3, <3>5, LenBound, LiveIsFinite
    <3>7. crashes' <= 1 => Cardinality(LiveIters(m)) <= MaxIteration
      BY <1>0, <1>1, <3>1 DEF Window
    <3>8. crashes' <= 1 => Len(q_'[m]) <= MaxIteration
      <4>1. Cardinality(LiveIters(m)) \in Nat
        BY LiveIsFinite, FS_CardinalityType
      <4> QED
        BY <1>0, <3>6, <3>7, <4>1
    <3> QED
      BY <2>1, <2>2, <2>3, <3>1, <3>3, <3>5, <3>7, <3>8 DEF Window
  <2> QED
    BY <1>3, <2>4, <2>5, <2>6, <2>7, WindowMoves
<1> QED
  BY <1>2, <1>3

LEMMA StepReading ==
  ASSUME TypeInv, SafeInv, BootInv, WindowInv, Next, NEW m \in Nodes
  PROVE  Reading(m)'
<1> SUFFICES ASSUME t1'[m] = "files"
             PROVE  \/ m \in nomem'
                    \/ \A f \in LiveRows(m)' : f \in resp'[m] \/ mem'[m][f] = "whole"
                    \/ \E f \in LiveRows(m)' : disk'[f] # "whole"
  BY DEF Reading
<1>0. ~Crash(m)
  <2>1. ASSUME Crash(m) PROVE t1'[m] = "off"
    <3>1. /\ t1' = [t1 EXCEPT ![m] = "off"]
          /\ t1 \in [Nodes -> {"off", "ask", "load", "fs", "files", "done"}]
      BY <2>1 DEF Crash, TypeInv, TypeOK
    <3> QED
      BY <3>1
  <2> QED
    BY <2>1
<1>1. t1[m] # "done" /\ ~ready[m]
  BY <1>0, BeforeDone DEF BootInv, BootFlags
<1>2. LiveRows(m)' = LiveRows(m) /\ \A f \in LiveRows(m) : disk'[f] = disk[f]
                                                        /\ f \in Files /\ Owner[f] = m
  BY <1>1, LiveStays, RowsStay DEF LiveRows, Rows, OwnFiles
<1>3. CASE FileSystemRows(m)
  BY <1>2, <1>3 DEF FileSystemRows, TypeInv, TypeOK
<1>4. ASSUME NEW g \in Files, LoadFile(m, g)
      PROVE  \/ m \in nomem'
             \/ \A f \in LiveRows(m)' : f \in resp'[m] \/ mem'[m][f] = "whole"
             \/ \E f \in LiveRows(m)' : disk'[f] # "whole"
  <2>1. t1[m] = "files" /\ g \in LiveRows(m)
    BY <1>1, <1>4 DEF LoadFile, WindowInv, Window
  <2>2. CASE disk[g] # "whole"
    BY <1>2, <2>1, <2>2
  <2>3. CASE disk[g] = "whole" /\ m \notin nomem'
    <3>1. /\ resp'[m] = resp[m] \ {g} /\ mem' = [mem EXCEPT ![m][g] = "whole"]
          /\ nomem' = nomem
      BY <1>4, <2>3 DEF LoadFile, TypeInv, TypeOK
    <3>2. /\ mem'[m][g] = "whole" /\ \A f \in Files : f # g => mem'[m][f] = mem[m][f]
      BY <3>1 DEF TypeInv, TypeOK
    <3> QED
      BY <1>2, <2>1, <2>3, <3>1, <3>2 DEF WindowInv, Reading
  <2> QED
    BY <2>2, <2>3
<1>5. CASE ~FileSystemRows(m) /\ ~\E g \in Files : LoadFile(m, g)
  <2>1. t1[m] = "files" /\ resp'[m] = resp[m] /\ (m \in nomem => m \in nomem')
    <3>1. CASE T1Step(m)
      BY <1>5, <3>1
         DEF T1Step, BatchLoadRemote, LoadAllDone, AttemptFails, FileSystemDone, LoadEach, TypeInv, TypeOK
    <3>2. ASSUME NEW n \in Nodes, n # m, T1Step(n)
          PROVE  t1[m] = "files" /\ resp'[m] = resp[m] /\ (m \in nomem => m \in nomem')
      BY <3>2, RetrievalMoves
    <3>3. ASSUME NEW n \in Nodes, Start(n)
          PROVE  t1[m] = "files" /\ resp'[m] = resp[m] /\ (m \in nomem => m \in nomem')
      BY <3>3 DEF Start, TypeInv, TypeOK
    <3>4. ASSUME NEW n \in Nodes, Crash(n)
          PROVE  t1[m] = "files" /\ resp'[m] = resp[m] /\ (m \in nomem => m \in nomem')
      BY <1>0, <3>4 DEF Crash, TypeInv, TypeOK
    <3> QED
      BY <3>1, <3>2, <3>3, <3>4, TrainingFrame, WorkerFrame, RebackupFrame DEF Next
  <2>2. \A f \in LiveRows(m) : mem[m][f] = "whole" => mem'[m][f] = "whole"
    <3> SUFFICES ASSUME NEW f \in LiveRows(m), mem[m][f] = "whole" PROVE mem'[m][f] = "whole"
      OBVIOUS
    <3>1. f \in Files /\ Owner[f] = m /\ state[f] # "OBSOLESCENT" /\ f \notin saving
      BY <1>1, <1>2 DEF LiveRows, BootInv, Quiet, OwnFiles
    <3>2. mem'[m][f] # "absent"
      BY <1>0, <3>1, EntryMoves
    <3>3. f \notin saving'
      <4>1. ~SaveCreate(f)
        BY <1>1, <3>1 DEF SaveCreate
      <4> QED
        BY <3>1, <4>1, EntryMoves
    <3>4. TypeInv' /\ SafeInv'
      BY StepType, StepSafe
    <3> QED
      BY <3>1, <3>2, <3>3, <3>4 DEF TypeInv, TypeOK, Content, SafeInv, OwnIntact
  <2> QED
    BY <1>2, <2>1, <2>2 DEF WindowInv, Reading
<1> QED
  BY <1>3, <1>4, <1>5

LEMMA StepWindowInv ==
  ASSUME TypeInv, SafeInv, BootInv, WindowInv, [Next]_vars
  PROVE  WindowInv'
<1>1. CASE UNCHANGED vars
  BY <1>1 DEF WindowInv, Window, Reading, Entry, LiveIters, LiveRows, Rows, vars
<1> QED
  BY <1>1, StepWindow, StepReading, StepEntry DEF WindowInv

(* The window and the rows agree, at every step of its rebuilding too.     *)
THEOREM WindowInvariance == Spec => []WindowInv
  BY TypeInvariance, SafeInvariance, BootInvariance, WindowInit, StepWindowInv, PTL
     DEF Spec

(* A node's window lists every iteration of which it holds files, once,    *)
(* also when BatchLoadFromFileSystem rebuilds it; after one crash it is    *)
(* within MaxIteration.                                                    *)
THEOREM WindowCorrect == Spec => []WindowRebuilt
<1>1. WindowInv => WindowRebuilt
  <2> SUFFICES ASSUME WindowInv, NEW n \in Nodes
               PROVE  /\ \A f \in Dict(n) : state[f] # "OBSOLESCENT" => IsExist(n, Iter[f])
                      /\ \A i, j \in 1 .. Len(q_[n]) : q_[n][i] = q_[n][j] => i = j
                      /\ crashes <= 1 => Len(q_[n]) <= MaxIteration
    BY DEF WindowRebuilt
  <2>1. \A f \in Dict(n) : state[f] # "OBSOLESCENT" => IsExist(n, Iter[f])
    BY DEF WindowInv, Entry, Dict, OwnFiles, In, IsExist
  <2>2. /\ \A i, j \in 1 .. Len(q_[n]) : q_[n][i] = q_[n][j] => i = j
        /\ crashes <= 1 => Len(q_[n]) <= MaxIteration
    BY DEF WindowInv, Window, NoRepeat
  <2> QED
    BY <2>1, <2>2
<1> QED
  BY <1>1, WindowInvariance, PTL

(* The action of RestoredFromDisk.                                         *)
RestoreStep ==
  \A n \in Nodes \ nomem :
    /\ t1[n] = "files" /\ t1'[n] = "done"
    /\ \A f \in LiveRows(n) : disk[f] = "whole"
    => \A f \in LiveRows(n) : mem'[n][f] = "whole"

LEMMA StepRestores ==
  ASSUME TypeInv, BootInv, WindowInv, Next
  PROVE  RestoreStep
<1> SUFFICES ASSUME NEW n \in Nodes \ nomem, t1[n] = "files", t1'[n] = "done",
                    \A f \in LiveRows(n) : disk[f] = "whole"
             PROVE  \A f \in LiveRows(n) : mem'[n][f] = "whole"
  BY DEF RestoreStep
<1>1. FileSystemDone(n)
  <2>1. ASSUME NEW m \in Nodes, Start(m) PROVE FALSE
    BY <2>1 DEF Start, BootInv, BootFlags, TypeInv, TypeOK
  <2>2. ASSUME NEW m \in Nodes, Crash(m) PROVE FALSE
    BY <2>2 DEF Crash, TypeInv, TypeOK
  <2>3. ASSUME NEW m \in Nodes, T1Step(m) PROVE FileSystemDone(n)
    <3>1. m = n
      BY <2>3, RetrievalMoves
    <3> QED
      BY <2>3, <3>1 DEF T1Step, BatchLoadRemote, LoadAllDone, FileSystemRows, LoadEach, LoadFile
  <2> QED
    BY <2>1, <2>2, <2>3, TrainingFrame, WorkerFrame, RebackupFrame DEF Next
<1>2. resp[n] = {} /\ mem' = mem
  BY <1>1 DEF FileSystemDone
<1> QED
  BY <1>2 DEF WindowInv, Reading

(* BatchLoadFromFileSystem: when every live row has its complete file and  *)
(* there was memory for each, the thread ends with all of them in memory,  *)
(* whatever other nodes did.                                               *)
THEOREM RestoreCorrect == Spec => RestoredFromDisk
<1>1. TypeInv /\ BootInv /\ WindowInv /\ [Next]_vars => [RestoreStep]_vars
  BY StepRestores
<1>2. Spec => [][RestoreStep]_vars
  BY <1>1, TypeInvariance, BootInvariance, WindowInvariance, PTL DEF Spec
<1> QED
  BY <1>2 DEF RestoredFromDisk, RestoreStep
=============================================================================
