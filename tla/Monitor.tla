------------------------------ MODULE Monitor ------------------------------
(***************************************************************************)
(* The memory of one node: MemoryMonitor's accounting and admission check, *)
(* the memfd operations of Util, and the threads that allocate, truncate   *)
(* and free through them: createMetadata, handleBackup, LoadRemote, the    *)
(* loading of files at bootstrap, and the deletion by Storage::Delete.     *)
(*                                                                         *)
(* self_total_usage is read and written without a lock, as two steps. The  *)
(* thread that unmaps a deleted file holds references to the caller's      *)
(* metadata and to a map node: once the node is erased, what it reads is   *)
(* one of the outcomes listed at Unmap.                                    *)
(***************************************************************************)
EXTENDS Integers, FiniteSets, FiniteSetsExt

CONSTANTS
  Files,
  Threads,     \* HTTP handlers, server threads and workers
  Sizes,       \* sizes of files
  Capacity,    \* total_capacity
  Usages,      \* what memory.usage_in_bytes of the control group may say
  Word,        \* 2^64: size_t wraps around at it
  MaxOps       \* bound: operations begun, and with them mappings

ASSUME MonitorAssumption ==
  /\ IsFiniteSet(Files) /\ IsFiniteSet(Threads)
  /\ Sizes \subseteq Nat \ {0} /\ IsFiniteSet(Sizes)
  /\ Capacity \in Nat \ {0}
  /\ Usages \subseteq Nat
  /\ Word \in Nat /\ Word > Capacity /\ \A n \in Sizes : n < Word
  /\ MaxOps \in Nat
  /\ "nobody" \notin Threads

VARIABLES
  alive,                 \* the process runs
  user_limit_,           \* the environment sets a limit
  total_idle, self_total_usage,   \* of stat_
  rw_mutex_,             \* thread that deletes, with the storage locked
  dict,                  \* dict_ and backup_dict_: a file's mapping, or 0
  row,                   \* size in the file's row, 0 without one
  maps,                  \* mappings: length, size of the memfd, what is left
  pc, op,                \* the operation of each thread
  reg,                   \* what it read of self_total_usage
  dying,                 \* unmapping threads not run yet
  ops,                   \* operations begun
  seen                   \* history: irregularities that have happened

statVars == <<user_limit_, total_idle, self_total_usage>>
memVars  == <<dict, row, maps, dying>>
vars == <<alive, user_limit_, total_idle, self_total_usage, rw_mutex_, dict, row,
          maps, pc, op, reg, dying, ops, seen>>

Nobody == "nobody"
OpKinds == {"save", "backup", "load", "recover", "delete"}
Addresses == 1 .. MaxOps
NoOp == [kind |-> "none"]
Ops == [kind : OpKinds, file : Files, size : Sizes]

(* As Idle, were the subtraction not one of words.                         *)
IdleUnwrapped ==
  {Capacity - (IF user_limit_ THEN self_total_usage ELSE total_usage) : total_usage \in Usages}

(* collectMetric under mu_: idle memory is the capacity less the own       *)
(* accounting if the user set a limit, and less what the control group     *)
(* reports otherwise; size_t wraps.                                        *)
Idle == {(Capacity - (IF user_limit_ THEN self_total_usage ELSE total_usage)) % Word :
           total_usage \in Usages}

Init ==
  /\ alive = TRUE
  /\ user_limit_ \in BOOLEAN
  /\ self_total_usage = 0
  /\ total_idle \in Idle
  /\ rw_mutex_ = Nobody
  /\ dict = [f \in Files |-> 0]
  /\ row = [f \in Files |-> 0]
  /\ maps = [a \in Addresses |-> [len |-> 0, fsize |-> 0, left |-> 0, open |-> FALSE]]
  /\ pc = [t \in Threads |-> "idle"]
  /\ op = [t \in Threads |-> NoOp]
  /\ reg = [t \in Threads |-> 0]
  /\ dying = {}
  /\ ops = 0
  /\ seen = {}

Goes(t, l) ==
  /\ pc' = [pc EXCEPT ![t] = l]
  /\ op' = IF l = "idle" THEN [op EXCEPT ![t] = NoOp] ELSE op
Notes(what, happened) == seen' = IF happened THEN seen \cup {what} ELSE seen

----------------------------------------------------------------------------
(* A request for file f reaches thread t. The row of a file that is backed *)
(* up here was written by its owner; loading and deleting take the size    *)
(* the row has at that time.                                               *)
Begin(t, k, f, n) ==
  /\ pc[t] = "idle" /\ ops < MaxOps
  /\ k \in {"load", "recover", "delete"} => n = row[f]
  /\ k = "recover" => dict[f] = 0
  /\ ops' = ops + 1
  /\ op' = [op EXCEPT ![t] = [kind |-> k, file |-> f, size |-> n]]
  /\ row' = IF k = "backup" THEN [row EXCEPT ![f] = n] ELSE row
  /\ pc' = [pc EXCEPT ![t] = CASE k = "save"               -> "look"
                                [] k \in {"backup", "load"} -> "glance"
                                [] k = "recover"            -> "collect"
                                [] k = "delete"             -> "delete"]
  /\ Notes("resized", row[f] \notin {0, n}
                      \/ \E u \in Threads : pc[u] # "idle" /\ op[u].file = f /\ op[u].size # n)
  /\ UNCHANGED <<statVars, rw_mutex_, dict, maps, dying, reg>>

(* handleBackup and LoadRemote first compare with the idle memory of the   *)
(* last collectMetric, whenever that was.                                  *)
GetMemoryStat(t) ==
  /\ pc[t] = "glance"
  /\ Goes(t, IF total_idle < op[t].size THEN "idle"
             ELSE IF op[t].kind = "load" THEN "collect" ELSE "look")
  /\ UNCHANGED <<statVars, rw_mutex_, memVars, reg, ops, seen>>

(* Storage::Load decides between a new memfd and the one that is there.    *)
Load(t) ==
  /\ pc[t] = "look" /\ rw_mutex_ = Nobody
  /\ Goes(t, IF dict[op[t].file] = 0 THEN "collect" ELSE "truncate")
  /\ reg' = [reg EXCEPT ![t] = dict[op[t].file]]
  /\ UNCHANGED <<statVars, rw_mutex_, memVars, ops, seen>>

(* memfdFtruncate on the memfd found before: the mapping stays as it is.   *)
(* If that memfd was closed meanwhile, the call fails, or its number       *)
(* stands for another memfd opened since.                                  *)
MemfdFtruncate(t) ==
  /\ pc[t] = "truncate"
  /\ \/ \E a \in {x \in Addresses : maps[x].open} :
          /\ maps[reg[t]].open => a = reg[t]
          /\ maps' = [maps EXCEPT ![a].fsize = op[t].size]
          /\ Notes("reused", a # reg[t])
          /\ Goes(t, IF op[t].kind = "save" THEN "row" ELSE "idle")
     \/ /\ ~maps[reg[t]].open
        /\ Goes(t, "idle") /\ UNCHANGED <<maps, seen>>
  /\ reg' = [reg EXCEPT ![t] = 0]
  /\ UNCHANGED <<statVars, rw_mutex_, dict, row, dying, ops>>

----------------------------------------------------------------------------
(* Between the check of a thread and its addition to the usage.            *)
Admitting(t) == pc[t] \in {"compare", "add", "added"}
Counting(t)  == pc[t] \in {"added", "deleting"}

CollectMetric(t) ==
  /\ pc[t] = "collect"
  /\ total_idle' \in Idle
  /\ Goes(t, "compare")
  /\ Notes("overlap", \E u \in Threads : Admitting(u))
  /\ UNCHANGED <<user_limit_, self_total_usage, rw_mutex_, memVars, reg, ops>>

(* As Enough, without the comparison.                                      *)
EnoughAlways(t) ==
  /\ pc[t] = "compare"
  /\ Goes(t, IF total_idle >= 0 THEN "add" ELSE "idle")
  /\ UNCHANGED <<statVars, rw_mutex_, memVars, reg, ops, seen>>

(* The second half of enough(): total_idle is read without the lock.       *)
Enough(t) ==
  /\ pc[t] = "compare"
  /\ Goes(t, IF total_idle > op[t].size THEN "add" ELSE "idle")
  /\ UNCHANGED <<statVars, rw_mutex_, memVars, reg, ops, seen>>

(* self_total_usage += metadata.size, in two steps.                        *)
ReadUsage(t) ==
  /\ pc[t] = "add"
  /\ reg' = [reg EXCEPT ![t] = self_total_usage]
  /\ Goes(t, "added")
  /\ Notes("torn", \E u \in Threads : Counting(u))
  /\ UNCHANGED <<statVars, rw_mutex_, memVars, ops>>

AddUsage(t) ==
  /\ pc[t] = "added"
  /\ self_total_usage' = (reg[t] + op[t].size) % Word
  /\ reg' = [reg EXCEPT ![t] = 0]
  /\ Goes(t, "calloc")
  /\ UNCHANGED <<user_limit_, total_idle, rw_mutex_, memVars, ops, seen>>

(* memfdCalloc: a memfd of that size and its mapping, or a failure, after  *)
(* which the usage stays raised. TryLoadFromFile then reads the file.      *)
(* An address is never given out twice; MaxOps of them are enough, as an   *)
(* operation maps at most once.                                            *)
Fresh(a) == maps[a].len = 0 /\ \A b \in Addresses : maps[b].len = 0 => a <= b

MemfdCalloc(t) ==
  /\ pc[t] = "calloc"
  /\ \E a \in Addresses :
       /\ Fresh(a)
       /\ maps' = [maps EXCEPT ![a] = [len |-> op[t].size, fsize |-> op[t].size,
                                       left |-> op[t].size, open |-> TRUE]]
       /\ reg' = [reg EXCEPT ![t] = a]
  /\ Goes(t, IF op[t].kind = "recover" THEN "read" ELSE "save")
  /\ UNCHANGED <<statVars, rw_mutex_, dict, row, dying, ops, seen>>

MemfdCallocFails(t) ==
  /\ pc[t] = "calloc"
  /\ Goes(t, "idle")
  /\ Notes("failed", TRUE)
  /\ UNCHANGED <<statVars, rw_mutex_, memVars, reg, ops>>

(* fopen, fread and fclose of TryLoadFromFile; on an error the mapping is  *)
(* dropped without being released.                                         *)
ReadFile(t) ==
  /\ pc[t] = "read"
  /\ \/ Goes(t, "save") /\ UNCHANGED <<reg, seen>>
     \/ /\ Goes(t, "idle")
        /\ reg' = [reg EXCEPT ![t] = 0]
        /\ Notes("failed", TRUE)
  /\ UNCHANGED <<statVars, rw_mutex_, memVars, ops>>

(* Storage::Save replaces an entry without releasing its mapping.          *)
Save(t) ==
  /\ pc[t] = "save" /\ rw_mutex_ = Nobody
  /\ dict' = [dict EXCEPT ![op[t].file] = reg[t]]
  /\ reg' = [reg EXCEPT ![t] = 0]
  /\ Goes(t, IF op[t].kind = "save" THEN "row" ELSE "idle")
  /\ Notes("replaced", dict[op[t].file] # 0)
  /\ UNCHANGED <<statVars, rw_mutex_, row, maps, dying, ops>>

(* createMetadata saves the row last.                                      *)
SaveRow(t) ==
  /\ pc[t] = "row"
  /\ row' = [row EXCEPT ![op[t].file] = op[t].size]
  /\ Goes(t, "idle")
  /\ UNCHANGED <<statVars, rw_mutex_, dict, maps, dying, reg, ops, seen>>

----------------------------------------------------------------------------
(* Storage::Delete with the lock held: close, memfdFree, which starts the  *)
(* unmapping thread and reads the usage ...                                *)
Delete(t) ==
  LET a == dict[op[t].file] IN
  /\ pc[t] = "delete" /\ rw_mutex_ = Nobody
  /\ IF a = 0
     THEN Goes(t, "idle") /\ UNCHANGED <<rw_mutex_, maps, dying, reg, seen>>
     ELSE /\ maps' = [maps EXCEPT ![a].open = FALSE]
          /\ dying' = dying \cup {[addr |-> a, size |-> op[t].size, erased |-> FALSE]}
          /\ reg' = [reg EXCEPT ![t] = self_total_usage]
          /\ rw_mutex_' = t
          /\ Goes(t, "deleting")
          /\ Notes("torn", \E u \in Threads : Counting(u))
  /\ UNCHANGED <<statVars, dict, row, ops>>

(* As Erase, with the usage not lowered.                                   *)
EraseUncounted(t) ==
  /\ pc[t] = "deleting"
  /\ dict' = [dict EXCEPT ![op[t].file] = 0]
  /\ dying' = {[d EXCEPT !.erased = @ \/ d.addr = dict[op[t].file]] : d \in dying}
  /\ reg' = [reg EXCEPT ![t] = 0]
  /\ rw_mutex_' = Nobody
  /\ Goes(t, "idle")
  /\ UNCHANGED <<statVars, row, maps, ops, seen>>

(* As Erase, without erasing.                                              *)
EraseKeepsEntry(t) ==
  /\ pc[t] = "deleting"
  /\ self_total_usage' = (reg[t] - op[t].size) % Word
  /\ dying' = {[d EXCEPT !.erased = @ \/ d.addr = dict[op[t].file]] : d \in dying}
  /\ reg' = [reg EXCEPT ![t] = 0]
  /\ rw_mutex_' = Nobody
  /\ Goes(t, "idle")
  /\ UNCHANGED <<user_limit_, total_idle, dict, row, maps, ops, seen>>

(* ... and then writes it back lowered by the size the caller's metadata   *)
(* has; Delete erases the map node and unlocks.                            *)
Erase(t) ==
  /\ pc[t] = "deleting"
  /\ self_total_usage' = (reg[t] - op[t].size) % Word
  /\ dict' = [dict EXCEPT ![op[t].file] = 0]
  /\ dying' = {[d EXCEPT !.erased = @ \/ d.addr = dict[op[t].file]] : d \in dying}
  /\ reg' = [reg EXCEPT ![t] = 0]
  /\ rw_mutex_' = Nobody
  /\ Goes(t, "idle")
  /\ UNCHANGED <<user_limit_, total_idle, row, maps, ops, seen>>

(* munmap(a, n): whole pages from a on; past the end of the mapping it     *)
(* takes what the kernel placed there, one of the other mappings or none.  *)
Munmap(a, n) ==
  IF n <= maps[a].len
  THEN maps' = [maps EXCEPT ![a].left = IF maps[a].len - n < @ THEN maps[a].len - n ELSE @]
  ELSE \E b \in {x \in Addresses : maps[x].left > 0} \cup {a} :
         maps' = [maps EXCEPT ![a].left = 0,
                              ![b].left = IF b = a THEN 0 ELSE @ - 1]

(* The detached thread runs. While the map node stands it reads the right  *)
(* address and size. Afterwards the node may still hold the address, or    *)
(* have been reused for another entry, or hold what munmap rejects, which  *)
(* ends the process; and the caller's metadata may be another file's.      *)
Unmap(d) ==
  /\ d \in dying
  /\ dying' = dying \ {d}
  /\ \/ /\ \E a \in {d.addr} \cup {dict[f] : f \in Files}, n \in Sizes :
             a # 0 /\ (d.erased \/ (a = d.addr /\ n = d.size)) /\ Munmap(a, n)
        /\ UNCHANGED alive
     \/ d.erased /\ alive' = FALSE /\ UNCHANGED maps
  /\ Notes("late", d.erased)
  /\ UNCHANGED <<statVars, rw_mutex_, dict, row, pc, op, reg, ops>>

(* The monitor's own thread collects from time to time.                    *)
Start ==
  /\ total_idle' \in Idle
  /\ UNCHANGED <<user_limit_, self_total_usage, rw_mutex_, memVars, pc, op, reg, ops, seen>>

(* An idle node: all operations are done and the process waits.            *)
Rest ==
  /\ ~alive \/ (ops = MaxOps /\ dying = {} /\ \A t \in Threads : pc[t] = "idle")
  /\ UNCHANGED vars

Step(t) ==
  \/ \E k \in OpKinds, f \in Files, n \in Sizes : Begin(t, k, f, n)
  \/ GetMemoryStat(t) \/ Load(t) \/ MemfdFtruncate(t)
  \/ CollectMetric(t) \/ Enough(t) \/ ReadUsage(t) \/ AddUsage(t)
  \/ MemfdCalloc(t) \/ MemfdCallocFails(t) \/ ReadFile(t) \/ Save(t) \/ SaveRow(t)
  \/ Delete(t) \/ Erase(t)

Next ==
  \/ alive /\ UNCHANGED alive /\ \E t \in Threads : Step(t)
  \/ alive /\ \E d \in dying : Unmap(d)
  \/ alive /\ UNCHANGED alive /\ Start
  \/ Rest

Spec == Init /\ [][Next]_vars

----------------------------------------------------------------------------
(* Every variable has its type; total_idle and self_total_usage stay words *)
(* of the machine whatever is subtracted (monitor.cpp:76,112).             *)
TypeOK ==
  /\ alive \in BOOLEAN /\ user_limit_ \in BOOLEAN
  /\ total_idle \in 0 .. Word - 1
  /\ self_total_usage \in 0 .. Word - 1
  /\ rw_mutex_ \in Threads \cup {Nobody}
  /\ dict \in [Files -> 0 .. MaxOps]
  /\ row \in [Files -> Sizes \cup {0}]
  /\ \A a \in Addresses :
       /\ maps[a].len \in Sizes \cup {0} /\ maps[a].fsize \in Sizes \cup {0}
       /\ maps[a].left \in 0 .. maps[a].len /\ maps[a].open \in BOOLEAN
  /\ pc \in [Threads -> {"idle", "glance", "look", "truncate", "collect", "compare",
                         "add", "added", "calloc", "read", "save", "row", "delete",
                         "deleting"}]
  /\ \A t \in Threads : IF pc[t] = "idle" THEN op[t] = NoOp ELSE op[t] \in Ops
  /\ ops \in 0 .. MaxOps
  /\ seen \subseteq {"resized", "overlap", "torn", "failed", "replaced", "reused", "late"}

Never(what) == seen \cap what = {}
SizeAt(a) == IF a = 0 THEN 0 ELSE maps[a].len
Sum(f, S) == MapThenSumSet(LAMBDA x : f[x], S)

Listed == [f \in Files |-> SizeAt(dict[f])]
Coming == [t \in Threads |-> IF pc[t] \in {"calloc", "read", "save"} THEN op[t].size ELSE 0]
InUse  == [a \in Addresses |-> IF maps[a].open THEN maps[a].fsize ELSE 0]

(* The accounting is exact at every moment: self_total_usage is, as a word *)
(* of the machine, the length of all stored mappings and of those counted  *)
(* and not stored yet. It holds until two threads update it at once, an    *)
(* allocation fails after it was counted, an entry is replaced, or a file  *)
(* name changes its size (TryMemfdMalloc, TryLoadFromFile and memfdFree,   *)
(* monitor.cpp:96,112,121).                                                *)
UsageExact ==
  Never({"torn", "failed", "replaced", "resized"}) =>
    self_total_usage = (Sum(Listed, Files) + Sum(Coming, Threads)) % Word

(* The limit the user sets is kept: memfds in use never hold more than the *)
(* capacity, failed allocations and replaced entries included, as long as  *)
(* no two admissions overlapped and no update of the usage was lost: then  *)
(* the check of enough() is stale, or capacity - usage wraps around and    *)
(* admits everything (monitor.cpp:76,88).                                  *)
WithinLimit ==
  user_limit_ /\ Never({"overlap", "torn", "resized", "reused"}) =>
    Sum(InUse, Addresses) <= Capacity

(* What the storage lists is mapped in full, and unmapping ends no process:*)
(* true while every unmapping thread runs before its map node is erased    *)
(* and no file name changes its size (memfdFree, monitor.cpp:103-111).     *)
StoredIsMapped ==
  Never({"late", "resized"}) =>
    /\ alive
    /\ \A f \in Files : rw_mutex_ = Nobody /\ dict[f] # 0 =>
         maps[dict[f]].left = maps[dict[f]].len
=============================================================================
