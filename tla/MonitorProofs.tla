--------------------------- MODULE MonitorProofs ---------------------------
(***************************************************************************)
(* Proofs about Monitor, for any files, threads, sizes, capacity and word: *)
(* types, that what the storage lists is mapped in full, that the usage is *)
(* the sum of what it counts, and that memory in use keeps to the limit.   *)
(* The sums are folds over finite sets. What is needed of them is proved   *)
(* here by induction on subsets, with the sets of numbers and subsets that *)
(* have the property in place of an operator parameter.                    *)
(***************************************************************************)
EXTENDS Monitor, FiniteSetTheorems, WellFoundedInduction, TLAPS

Places == {"idle", "glance", "look", "truncate", "collect", "compare", "add", "added",
           "calloc", "read", "save", "row", "delete", "deleting"}
Lengths == Sizes \cup {0}
MapRecord == [len : Lengths, fsize : Lengths, left : Nat, open : BOOLEAN]
Irregular == {"resized", "overlap", "torn", "failed", "replaced", "reused", "late"}

StatType ==
  /\ alive \in BOOLEAN /\ user_limit_ \in BOOLEAN
  /\ total_idle \in 0 .. Word - 1 /\ self_total_usage \in 0 .. Word - 1
StoreType ==
  /\ rw_mutex_ \in Threads \cup {Nobody}
  /\ dict \in [Files -> 0 .. MaxOps]
  /\ row \in [Files -> Lengths]
  /\ dying \subseteq [addr : Addresses, size : Sizes, erased : BOOLEAN]
MapType ==
  /\ maps \in [Addresses -> MapRecord]
  /\ \A a \in Addresses : maps[a].left <= maps[a].len
ThreadType ==
  /\ pc \in [Threads -> Places]
  /\ op \in [Threads -> Ops \cup {NoOp}]
  /\ \A t \in Threads : IF pc[t] = "idle" THEN op[t] = NoOp ELSE op[t] \in Ops
  /\ reg \in [Threads -> Nat]
CountType == ops \in 0 .. MaxOps /\ seen \subseteq Irregular

TypeInv == StatType /\ StoreType /\ MapType /\ ThreadType /\ CountType

LEMMA SizeFacts ==
  /\ MaxOps \in Nat /\ Word \in Nat \ {0} /\ Capacity \in Nat
  /\ Sizes \subseteq Nat \ {0} /\ Lengths \subseteq Nat
  BY MonitorAssumption DEF Lengths

LEMMA WordRange ==
  ASSUME NEW x \in Int
  PROVE  x % Word \in 0 .. Word - 1
<1>1. Word \in Nat \ {0}
  BY SizeFacts
<1> QED
  BY <1>1, SMT

LEMMA IdleRange ==
  ASSUME StatType
  PROVE  Idle \subseteq 0 .. Word - 1
<1> SUFFICES ASSUME NEW u \in Usages
             PROVE  (Capacity - (IF user_limit_ THEN self_total_usage ELSE u)) % Word
                      \in 0 .. Word - 1
  BY DEF Idle
<1>1. u \in Nat /\ self_total_usage \in Nat /\ Capacity \in Nat
  BY MonitorAssumption DEF StatType
<1>2. Capacity - (IF user_limit_ THEN self_total_usage ELSE u) \in Int
  BY <1>1
<1> QED
  BY <1>2, WordRange

(* A thread moves on.                                                      *)
LEMMA GoesFacts ==
  ASSUME ThreadType, NEW t \in Threads, pc[t] # "idle", NEW l \in Places, Goes(t, l)
  PROVE  /\ pc' \in [Threads -> Places] /\ op' \in [Threads -> Ops \cup {NoOp}]
         /\ \A u \in Threads : IF pc'[u] = "idle" THEN op'[u] = NoOp ELSE op'[u] \in Ops
         /\ pc'[t] = l /\ (l # "idle" => op' = op)
         /\ \A u \in Threads \ {t} : pc'[u] = pc[u] /\ op'[u] = op[u]
<1>1. CASE l = "idle"
  <2>1. pc' = [pc EXCEPT ![t] = "idle"] /\ op' = [op EXCEPT ![t] = NoOp]
    BY <1>1 DEF Goes
  <2> QED
    BY <1>1, <2>1 DEF ThreadType
<1>2. CASE l # "idle"
  <2>1. pc' = [pc EXCEPT ![t] = l] /\ op' = op
    BY <1>2 DEF Goes
  <2> QED
    BY <1>2, <2>1 DEF ThreadType
<1> QED
  BY <1>1, <1>2

(* A thread with an operation has its file and size.                       *)
LEMMA OpFacts ==
  ASSUME ThreadType, NEW t \in Threads, pc[t] # "idle"
  PROVE  op[t] \in Ops /\ op[t].file \in Files /\ op[t].size \in Sizes /\ op[t].kind \in OpKinds
  BY DEF ThreadType, Ops

(* Every step of a thread but the first moves it on.                       *)
LEMMA StepMoves ==
  ASSUME NEW t \in Threads, Step(t),
         ~\E k \in OpKinds, f \in Files, n \in Sizes : Begin(t, k, f, n)
  PROVE  pc[t] # "idle" /\ \E l \in Places : Goes(t, l)
<1> USE DEF Places
<1>1. CASE GetMemoryStat(t) \/ Load(t) \/ CollectMetric(t) \/ Enough(t)
  BY <1>1 DEF GetMemoryStat, Load, CollectMetric, Enough
<1>2. CASE MemfdFtruncate(t)
  BY <1>2 DEF MemfdFtruncate
<1>3. CASE ReadUsage(t) \/ AddUsage(t) \/ MemfdCallocFails(t)
  BY <1>3 DEF ReadUsage, AddUsage, MemfdCallocFails
<1>4. CASE MemfdCalloc(t) \/ ReadFile(t) \/ Save(t) \/ SaveRow(t)
  BY <1>4 DEF MemfdCalloc, ReadFile, Save, SaveRow
<1>5. CASE Delete(t) \/ Erase(t)
  BY <1>5 DEF Delete, Erase
<1> QED
  BY <1>1, <1>2, <1>3, <1>4, <1>5 DEF Step

LEMMA InitType == Init => TypeInv
<1> SUFFICES ASSUME Init PROVE TypeInv
  OBVIOUS
<1>1. 0 \in 0 .. Word - 1 /\ 0 \in 0 .. MaxOps
  BY SizeFacts
<1>2. StatType
  <2>1. Idle \subseteq 0 .. Word - 1
    <3>1. self_total_usage = 0
      BY DEF Init
    <3> SUFFICES ASSUME NEW u \in Usages
                 PROVE  (Capacity - (IF user_limit_ THEN 0 ELSE u)) % Word \in 0 .. Word - 1
      BY <3>1 DEF Idle
    <3>2. Capacity - (IF user_limit_ THEN 0 ELSE u) \in Int
      BY MonitorAssumption
    <3> QED
      BY <3>2, WordRange
  <2> QED
    BY <1>1, <2>1 DEF Init, StatType
<1>3. StoreType /\ CountType
  BY <1>1 DEF Init, StoreType, CountType, Lengths, Nobody
<1>4. MapType
  BY DEF Init, MapType, MapRecord, Lengths
<1>5. ThreadType
  BY DEF Init, ThreadType, Places
<1> QED
  BY <1>2, <1>3, <1>4, <1>5 DEF TypeInv

LEMMA StatStep ==
  ASSUME TypeInv, NEW t \in Threads, Step(t), UNCHANGED alive
  PROVE  StatType'
<1> USE DEF TypeInv
<1>1. CASE UNCHANGED statVars
  BY <1>1 DEF StatType, statVars
<1>2. CASE CollectMetric(t)
  BY <1>2, IdleRange DEF CollectMetric, StatType
<1>3. CASE AddUsage(t) \/ Erase(t)
  <2>1. reg[t] \in Nat /\ op[t].size \in Nat
    BY <1>3, OpFacts, SizeFacts DEF AddUsage, Erase, ThreadType
  <2>2. self_total_usage' \in {(reg[t] + op[t].size) % Word, (reg[t] - op[t].size) % Word}
    BY <1>3 DEF AddUsage, Erase
  <2>3. self_total_usage' \in 0 .. Word - 1
    BY <2>1, <2>2, WordRange
  <2> QED
    BY <1>3, <2>3 DEF AddUsage, Erase, StatType
<1> QED
  BY <1>1, <1>2, <1>3
     DEF Step, Begin, GetMemoryStat, Load, MemfdFtruncate, Enough, ReadUsage, MemfdCalloc,
         MemfdCallocFails, ReadFile, Save, SaveRow, Delete

LEMMA ThreadStep ==
  ASSUME TypeInv, NEW t \in Threads, Step(t)
  PROVE  ThreadType'
<1> USE DEF TypeInv
<1>1. ASSUME NEW k \in OpKinds, NEW f \in Files, NEW n \in Sizes, Begin(t, k, f, n)
      PROVE  ThreadType'
  <2>1. PICK l \in Places \ {"idle"} : pc' = [pc EXCEPT ![t] = l]
    BY <1>1 DEF Begin, OpKinds, Places
  <2>2. op' = [op EXCEPT ![t] = [kind |-> k, file |-> f, size |-> n]] /\ reg' = reg
    BY <1>1 DEF Begin
  <2>3. [kind |-> k, file |-> f, size |-> n] \in Ops
    BY DEF Ops
  <2> QED
    BY <2>1, <2>2, <2>3 DEF ThreadType
<1>2. reg' \in [Threads -> Nat]
  <2>1. CASE reg' = reg
    BY <2>1 DEF ThreadType
  <2>2. CASE \E x \in Nat : reg' = [reg EXCEPT ![t] = x]
    BY <2>2 DEF ThreadType
  <2>3. self_total_usage \in Nat /\ 0 \in Nat
    BY DEF StatType
  <2>4. CASE Load(t)
    <3>1. dict[op[t].file] \in Nat
      BY <2>4, OpFacts, SizeFacts DEF Load, StoreType
    <3> QED
      BY <2>2, <2>4, <3>1 DEF Load
  <2>5. CASE MemfdCalloc(t)
    <3>1. PICK a \in Addresses : reg' = [reg EXCEPT ![t] = a]
      BY <2>5 DEF MemfdCalloc
    <3>2. a \in Nat
      BY SizeFacts DEF Addresses
    <3> QED
      BY <2>2, <3>1, <3>2
  <2>6. CASE ReadUsage(t) \/ AddUsage(t) \/ MemfdFtruncate(t) \/ Save(t) \/ Erase(t)
    BY <2>2, <2>3, <2>6 DEF ReadUsage, AddUsage, MemfdFtruncate, Save, Erase
  <2>7. CASE ReadFile(t) \/ Delete(t)
    BY <2>1, <2>2, <2>3, <2>7 DEF ReadFile, Delete
  <2> QED
    BY <2>1, <2>4, <2>5, <2>6, <2>7
       DEF Step, Begin, GetMemoryStat, CollectMetric, Enough, MemfdCallocFails, SaveRow, memVars
<1>3. ASSUME ~\E k \in OpKinds, f \in Files, n \in Sizes : Begin(t, k, f, n)
      PROVE  ThreadType'
  <2>1. pc[t] # "idle" /\ \E l \in Places : Goes(t, l)
    BY <1>3, StepMoves
  <2> QED
    BY <1>2, <2>1, GoesFacts DEF ThreadType
<1> QED
  BY <1>1, <1>3

LEMMA CountStep ==
  ASSUME TypeInv, NEW t \in Threads, Step(t)
  PROVE  CountType'
<1> USE DEF TypeInv, CountType
<1>1. ASSUME NEW what \in Irregular, NEW b, Notes(what, b) PROVE seen' \subseteq Irregular
  BY <1>1 DEF Notes
<1>2. seen' \subseteq Irregular
  <2>1. seen' = seen \/ \E what \in Irregular, b \in {TRUE, FALSE} : Notes(what, b)
    BY Zenon
       DEF Step, Begin, GetMemoryStat, Load, MemfdFtruncate, CollectMetric, Enough, ReadUsage,
           AddUsage, MemfdCalloc, MemfdCallocFails, ReadFile, Save, SaveRow, Delete, Erase,
           Irregular
  <2> QED
    BY <1>1, <2>1
<1>3. ops' \in 0 .. MaxOps
  <2>1. ops' = ops \/ (ops < MaxOps /\ ops' = ops + 1)
    BY DEF Step, Begin, GetMemoryStat, Load, MemfdFtruncate, CollectMetric, Enough, ReadUsage,
           AddUsage, MemfdCalloc, MemfdCallocFails, ReadFile, Save, SaveRow, Delete, Erase
  <2> QED
    BY <2>1, SizeFacts
<1> QED
  BY <1>2, <1>3

(* One mapping is replaced by another, or one field of it.                 *)
LEMMA MapReplace ==
  ASSUME MapType, NEW a \in Addresses, NEW r \in MapRecord, r.left <= r.len,
         maps' = [maps EXCEPT ![a] = r]
  PROVE  MapType'
  BY DEF MapType

LEMMA MapRecordFacts ==
  ASSUME MapType, NEW a \in Addresses
  PROVE  /\ maps[a] \in MapRecord
         /\ maps[a].len \in Lengths /\ maps[a].fsize \in Lengths
         /\ maps[a].left \in Nat /\ maps[a].open \in BOOLEAN
         /\ maps[a].left <= maps[a].len /\ maps[a].len \in Nat
  BY SizeFacts DEF MapType, MapRecord

LEMMA MapStep ==
  ASSUME TypeInv, NEW t \in Threads, Step(t)
  PROVE  MapType'
<1> USE DEF TypeInv
<1>1. CASE maps' = maps
  BY <1>1 DEF MapType
<1>2. CASE MemfdFtruncate(t)
  <2>1. CASE \E a \in Addresses : maps' = [maps EXCEPT ![a].fsize = op[t].size]
    <3>1. PICK a \in Addresses : maps' = [maps EXCEPT ![a].fsize = op[t].size]
      BY <2>1
    <3>2. op[t].size \in Lengths
      BY <1>2, OpFacts DEF MemfdFtruncate, Lengths
    <3>3. [maps[a] EXCEPT !.fsize = op[t].size] \in MapRecord
      BY <3>2, MapRecordFacts DEF MapRecord
    <3>4. [maps[a] EXCEPT !.fsize = op[t].size].left <= [maps[a] EXCEPT !.fsize = op[t].size].len
      BY MapRecordFacts DEF MapRecord
    <3>5. maps' = [maps EXCEPT ![a] = [maps[a] EXCEPT !.fsize = op[t].size]]
      BY <3>1
    <3> QED
      BY <3>3, <3>4, <3>5, MapReplace
  <2> QED
    BY <1>1, <1>2, <2>1 DEF MemfdFtruncate
<1>3. CASE MemfdCalloc(t)
  <2>1. PICK a \in Addresses :
          maps' = [maps EXCEPT ![a] = [len |-> op[t].size, fsize |-> op[t].size,
                                       left |-> op[t].size, open |-> TRUE]]
    BY <1>3 DEF MemfdCalloc
  <2>2. op[t].size \in Sizes /\ op[t].size \in Nat
    BY <1>3, OpFacts, SizeFacts DEF MemfdCalloc
  <2> DEFINE r == [len |-> op[t].size, fsize |-> op[t].size, left |-> op[t].size, open |-> TRUE]
  <2>3. r \in MapRecord /\ r.left <= r.len
    BY <2>2 DEF MapRecord, Lengths
  <2> QED
    BY <2>1, <2>3, MapReplace
<1>4. CASE Delete(t)
  <2>1. CASE dict[op[t].file] # 0
    <3> DEFINE a == dict[op[t].file]
               r == [maps[a] EXCEPT !.open = FALSE]
    <3>1. a \in Addresses
      BY <1>4, <2>1, OpFacts, SizeFacts DEF Delete, StoreType, Addresses
    <3>2. r \in MapRecord /\ r.left <= r.len
      BY <3>1, MapRecordFacts DEF MapRecord
    <3>3. maps' = [maps EXCEPT ![a] = r]
      BY <1>4, <2>1 DEF Delete
    <3> HIDE DEF a, r
    <3> QED
      BY <3>1, <3>2, <3>3, MapReplace
  <2> QED
    BY <1>1, <1>4, <2>1 DEF Delete
<1> QED
  BY <1>1, <1>2, <1>3, <1>4
     DEF Step, Begin, GetMemoryStat, Load, CollectMetric, Enough, ReadUsage, AddUsage,
         MemfdCallocFails, ReadFile, Save, SaveRow, Erase, memVars

LEMMA StoreStep ==
  ASSUME TypeInv, NEW t \in Threads, Step(t),
         pc[t] = "save" => reg[t] \in Addresses
  PROVE  StoreType'
<1> USE DEF TypeInv
<1>1. CASE UNCHANGED <<rw_mutex_, dict, row, dying>>
  BY <1>1 DEF StoreType
<1>2. ASSUME NEW k \in OpKinds, NEW f \in Files, NEW n \in Sizes, Begin(t, k, f, n)
      PROVE  StoreType'
  BY <1>2 DEF Begin, StoreType, Lengths
<1>3. CASE Save(t)
  <2>1. op[t].file \in Files /\ reg[t] \in 0 .. MaxOps
    BY <1>3, OpFacts, SizeFacts DEF Save, Addresses
  <2> QED
    BY <1>3, <2>1 DEF Save, StoreType
<1>4. CASE SaveRow(t)
  <2>1. op[t].file \in Files /\ op[t].size \in Lengths
    BY <1>4, OpFacts DEF SaveRow, Lengths
  <2> QED
    BY <1>4, <2>1 DEF SaveRow, StoreType
<1>5. CASE Delete(t)
  <2>1. CASE dict[op[t].file] # 0
    <3>1. dict[op[t].file] \in Addresses /\ op[t].size \in Sizes
      BY <1>5, <2>1, OpFacts, SizeFacts DEF Delete, StoreType, Addresses
    <3>2. [addr |-> dict[op[t].file], size |-> op[t].size, erased |-> FALSE]
            \in [addr : Addresses, size : Sizes, erased : BOOLEAN]
      BY <3>1
    <3> QED
      BY <1>5, <2>1, <3>2 DEF Delete, StoreType
  <2> QED
    BY <1>1, <1>5, <2>1 DEF Delete
<1>6. CASE Erase(t)
  <2>1. op[t].file \in Files /\ 0 \in 0 .. MaxOps
    BY <1>6, OpFacts, SizeFacts DEF Erase
  <2>2. dying' \subseteq [addr : Addresses, size : Sizes, erased : BOOLEAN]
    <3> SUFFICES ASSUME NEW d \in dying
                 PROVE  [d EXCEPT !.erased = @ \/ d.addr = dict[op[t].file]]
                          \in [addr : Addresses, size : Sizes, erased : BOOLEAN]
      BY <1>6 DEF Erase
    <3>1. d \in [addr : Addresses, size : Sizes, erased : BOOLEAN]
      BY DEF StoreType
    <3> QED
      BY <3>1
  <2> QED
    BY <1>6, <2>1, <2>2 DEF Erase, StoreType
<1> QED
  BY <1>1, <1>2, <1>3, <1>4, <1>5, <1>6
     DEF Step, GetMemoryStat, Load, MemfdFtruncate, CollectMetric, Enough, ReadUsage,
         AddUsage, MemfdCalloc, MemfdCallocFails, ReadFile, memVars

(* munmap leaves every mapping its length and takes from what is left.     *)
LEMMA MunmapFacts ==
  ASSUME TypeInv, NEW a \in Addresses, NEW n \in Sizes, Munmap(a, n)
  PROVE  /\ MapType'
         /\ n = maps[a].len =>
              \A b \in Addresses \ {a} : maps'[b] = maps[b]
         /\ \A b \in Addresses : maps'[b].len = maps[b].len
<1> USE DEF TypeInv
<1>0. n \in Nat \ {0} /\ maps[a] \in MapRecord /\ maps[a].len \in Nat /\ maps[a].left \in Nat
      /\ maps[a].left <= maps[a].len
  BY SizeFacts, MapRecordFacts
<1>1. CASE n <= maps[a].len
  <2> DEFINE v == IF maps[a].len - n < maps[a].left THEN maps[a].len - n ELSE maps[a].left
             r == [maps[a] EXCEPT !.left = v]
  <2>1. v \in Nat /\ v <= maps[a].len
    BY <1>0, <1>1
  <2>2. maps' = [maps EXCEPT ![a].left = v]
    BY <1>1 DEF Munmap
  <2> HIDE DEF v
  <2>3. maps' = [maps EXCEPT ![a] = r]
    BY <2>2
  <2>4. r \in MapRecord /\ r.left = v /\ r.len = maps[a].len
    BY <1>0, <2>1 DEF MapRecord
  <2> HIDE DEF r
  <2>5. MapType'
    BY <2>1, <2>3, <2>4, MapReplace
  <2>6. maps'[a] = r /\ \A b \in Addresses \ {a} : maps'[b] = maps[b]
    BY <2>3 DEF MapType
  <2> QED
    BY <2>4, <2>5, <2>6
<1>2. CASE ~(n <= maps[a].len)
  <2>1. PICK b \in {x \in Addresses : maps[x].left > 0} \cup {a} :
          maps' = [maps EXCEPT ![a].left = 0,
                               ![b].left = IF b = a THEN 0 ELSE @ - 1]
    BY <1>2 DEF Munmap
  <2>2. b \in Addresses /\ (b # a => maps[b].left > 0)
    OBVIOUS
  <2>3. \A x \in Addresses :
          /\ maps'[x] \in MapRecord /\ maps'[x].len = maps[x].len
          /\ maps'[x].left <= maps[x].left
    <3>1. maps'[a] = [maps[a] EXCEPT !.left = 0]
      BY <2>1, <2>2 DEF MapType
    <3>2. b # a => maps'[b] = [maps[b] EXCEPT !.left = maps[b].left - 1]
      BY <2>1, <2>2 DEF MapType
    <3>3. \A x \in Addresses \ {a, b} : maps'[x] = maps[x]
      BY <2>1, <2>2 DEF MapType
    <3>4. \A x \in Addresses : maps[x] \in MapRecord /\ maps[x].left \in Nat
      BY MapRecordFacts
    <3>5. b # a => maps[b].left - 1 \in Nat
      BY <2>2, <3>4
    <3>6. CASE b = a
      BY <3>1, <3>3, <3>4, <3>6 DEF MapRecord
    <3>7. CASE b # a
      <4>1. /\ maps'[a] \in MapRecord /\ maps'[a].len = maps[a].len
            /\ maps'[a].left <= maps[a].left
        BY <3>1, <3>4 DEF MapRecord
      <4>2. /\ maps'[b] \in MapRecord /\ maps'[b].len = maps[b].len
            /\ maps'[b].left <= maps[b].left
        BY <2>2, <3>2, <3>4, <3>5, <3>7 DEF MapRecord
      <4> QED
        BY <3>3, <3>4, <4>1, <4>2
    <3> QED
      BY <3>6, <3>7
  <2>4. DOMAIN maps' = Addresses /\ maps' = [x \in DOMAIN maps' |-> maps'[x]]
    BY <2>1 DEF MapType
  <2>5. maps' \in [Addresses -> MapRecord]
    BY <2>3, <2>4
  <2>6. \A x \in Addresses : maps'[x].left <= maps'[x].len
    <3> SUFFICES ASSUME NEW x \in Addresses PROVE maps'[x].left <= maps'[x].len
      OBVIOUS
    <3>1. maps[x].left <= maps[x].len /\ maps[x].left \in Nat /\ maps[x].len \in Nat
      BY MapRecordFacts
    <3>2. maps'[x].left \in Nat
      BY <2>3 DEF MapRecord
    <3> QED
      BY <2>3, <3>1, <3>2
  <2>7. n # maps[a].len
    BY <1>0, <1>2
  <2> QED
    BY <2>3, <2>5, <2>6, <2>7 DEF MapType
<1> QED
  BY <1>1, <1>2

(* The unmapping thread unmaps something that has an address.              *)
LEMMA UnmapFacts ==
  ASSUME TypeInv, NEW d \in dying, Unmap(d)
  PROVE  \/ maps' = maps /\ d.erased
         \/ \E a \in Addresses, n \in Sizes :
              /\ Munmap(a, n) /\ alive' = alive
              /\ d.erased \/ (a = d.addr /\ n = d.size)
<1>1. CASE d.erased /\ alive' = FALSE /\ maps' = maps
  BY <1>1
<1>2. ASSUME NEW a \in {d.addr} \cup {dict[f] : f \in Files}, NEW n \in Sizes, alive' = alive,
             a # 0, d.erased \/ (a = d.addr /\ n = d.size), Munmap(a, n)
      PROVE  \E x \in Addresses, y \in Sizes :
               /\ Munmap(x, y) /\ alive' = alive
               /\ d.erased \/ (x = d.addr /\ y = d.size)
  <2>1. d.addr \in Addresses /\ \A f \in Files : dict[f] # 0 => dict[f] \in Addresses
    BY SizeFacts DEF TypeInv, StoreType, Addresses
  <2>2. a \in Addresses
    BY <1>2, <2>1
  <2> QED
    BY <1>2, <2>2
<1> QED
  BY <1>1, <1>2 DEF Unmap

LEMMA UnmapType ==
  ASSUME TypeInv, NEW d \in dying, Unmap(d)
  PROVE  TypeInv'
<1>1. MapType'
  <2>1. CASE maps' = maps
    BY <2>1 DEF TypeInv, MapType
  <2> QED
    BY <2>1, UnmapFacts, MunmapFacts
<1>2. ThreadType'
  BY DEF Unmap, TypeInv, ThreadType
<1>3. StatType' /\ StoreType'
  BY DEF Unmap, TypeInv, StatType, StoreType, statVars
<1>4. CountType'
  <2>1. seen' = seen \/ seen' = seen \cup {"late"}
    BY DEF Unmap, Notes
  <2> QED
    BY <2>1 DEF Unmap, TypeInv, CountType, Irregular
<1> QED
  BY <1>1, <1>2, <1>3, <1>4 DEF TypeInv

----------------------------------------------------------------------------
(* A thread brings the mapping in reg to the storage; a file is being      *)
(* deleted; a thread works on a file.                                      *)
Brings(t)   == pc[t] \in {"read", "save"}
Deleting(f) == \E t \in Threads : pc[t] = "deleting" /\ op[t].file = f
Works(t, f) == pc[t] # "idle" /\ op[t].file = f

(* The storage is locked by the thread that deletes, and only by it.       *)
Locked ==
  \A t \in Threads :
    /\ rw_mutex_ = t <=> pc[t] = "deleting"
    /\ pc[t] \in {"delete", "deleting"} => op[t].kind = "delete"

(* No two files have the same mapping, and none has one that was not made. *)
Stored ==
  /\ \A f, g \in Files : dict[f] # 0 /\ dict[f] = dict[g] => f = g
  /\ \A f \in Files : dict[f] # 0 => maps[dict[f]].len # 0

(* A mapping on its way to the storage is nobody else's, and has the size  *)
(* of the thread's operation.                                              *)
Brought ==
  /\ \A t \in Threads : Brings(t) =>
       /\ reg[t] \in Addresses /\ maps[reg[t]].len = op[t].size
       /\ \A f \in Files : dict[f] # reg[t]
  /\ \A t, u \in Threads : Brings(t) /\ Brings(u) /\ reg[t] = reg[u] => t = u

ShapeInv == TypeInv /\ Locked /\ Stored /\ Brought

(* A file name has one size: in its row, its mapping and all operations.   *)
OneSize ==
  Never({"resized"}) =>
    \A f \in Files :
      /\ \A t, u \in Threads : Works(t, f) /\ Works(u, f) => op[t].size = op[u].size
      /\ \A t \in Threads : Works(t, f) /\ row[f] # 0 => op[t].size = row[f]
      /\ \A t \in Threads : Works(t, f) /\ op[t].kind # "save" => row[f] # 0
      /\ dict[f] # 0 =>
           \/ row[f] = maps[dict[f]].len
           \/ /\ row[f] = 0
              /\ \E t \in Threads :
                   pc[t] = "row" /\ op[t].file = f /\ op[t].size = maps[dict[f]].len

(* An unmapping thread whose map node stands was started by the thread     *)
(* that holds the lock, for the file that one deletes.                     *)
Undertaken ==
  \A d \in dying : ~d.erased =>
    \E t \in Threads :
      pc[t] = "deleting" /\ d.addr = dict[op[t].file] /\ d.size = op[t].size

(* What is stored and not being deleted, and what is on its way to the     *)
(* storage, is mapped in full.                                             *)
Whole ==
  Never({"late", "resized"}) =>
    /\ alive
    /\ \A f \in Files : dict[f] # 0 /\ ~Deleting(f) => maps[dict[f]].left = maps[dict[f]].len
    /\ \A t \in Threads : Brings(t) => maps[reg[t]].left = maps[reg[t]].len

StoredInv == ShapeInv /\ OneSize /\ Undertaken /\ Whole

(* The other threads do not move.                                          *)
Others(t) == \A u \in Threads \ {t} : pc'[u] = pc[u] /\ op'[u] = op[u] /\ reg'[u] = reg[u]

(* A step that leaves the storage, the rows and the mappings' extents.     *)
Quiet(t) ==
  /\ UNCHANGED <<rw_mutex_, dict, row, dying>> /\ seen \subseteq seen'
  /\ \A a \in Addresses : maps'[a].len = maps[a].len /\ maps'[a].left = maps[a].left
  /\ pc[t] \notin {"idle", "deleting", "row"} /\ pc'[t] \notin {"deleting", "delete"}
  /\ Others(t)
  /\ pc'[t] # "idle" => op'[t] = op[t]
  /\ pc'[t] \in {"read", "save"} => Brings(t) /\ reg'[t] = reg[t]

LEMMA NotesFacts ==
  ASSUME NEW what, NEW b, Notes(what, b)
  PROVE  seen \subseteq seen' /\ (b => what \in seen')
  BY DEF Notes

(* What Goes does to a thread that has an operation.                       *)
LEMMA OthersFacts ==
  ASSUME TypeInv, NEW t \in Threads, NEW l \in Places, Goes(t, l),
         reg' = reg \/ \E x : reg' = [reg EXCEPT ![t] = x]
  PROVE  /\ Others(t) /\ pc'[t] = l /\ (l # "idle" => op'[t] = op[t])
  BY DEF TypeInv, ThreadType, Others, Goes

LEMMA QuietMap ==
  ASSUME TypeInv, NEW x, NEW a \in Addresses, maps' = [maps EXCEPT ![a].fsize = x]
  PROVE  \A b \in Addresses : maps'[b].len = maps[b].len /\ maps'[b].left = maps[b].left
<1>1. maps'[a] = [maps[a] EXCEPT !.fsize = x] /\ maps[a] \in MapRecord
  BY DEF TypeInv, MapType
<1>2. maps'[a].len = maps[a].len /\ maps'[a].left = maps[a].left
  BY <1>1 DEF MapRecord
<1>3. \A b \in Addresses \ {a} : maps'[b] = maps[b]
  BY DEF TypeInv, MapType
<1> QED
  BY <1>2, <1>3

LEMMA QuietStep ==
  ASSUME TypeInv, NEW t \in Threads,
         \/ GetMemoryStat(t) \/ Load(t) \/ MemfdFtruncate(t) \/ CollectMetric(t) \/ Enough(t)
         \/ ReadUsage(t) \/ AddUsage(t) \/ MemfdCallocFails(t) \/ ReadFile(t)
         \/ (Delete(t) /\ dict[op[t].file] = 0)
  PROVE  Quiet(t)
<1>1. ASSUME NEW l \in Places \ {"deleting", "delete"}, Goes(t, l),
             reg' = reg \/ \E x : reg' = [reg EXCEPT ![t] = x],
             l \in {"read", "save"} => Brings(t) /\ reg' = reg,
             pc[t] \notin {"idle", "deleting", "row"},
             UNCHANGED <<rw_mutex_, dict, row, dying>>, seen \subseteq seen',
             \A a \in Addresses : maps'[a].len = maps[a].len /\ maps'[a].left = maps[a].left
      PROVE  Quiet(t)
  BY <1>1, OthersFacts DEF Quiet
<1>2. CASE GetMemoryStat(t) \/ Enough(t) \/ Load(t)
  <2>1. PICK l \in Places \ {"deleting", "delete", "read", "save"} : Goes(t, l)
    BY <1>2 DEF GetMemoryStat, Enough, Load, Places
  <2> QED
    BY <1>1, <1>2, <2>1 DEF GetMemoryStat, Enough, Load, memVars
<1>3. CASE CollectMetric(t) \/ ReadUsage(t) \/ AddUsage(t) \/ MemfdCallocFails(t)
  <2>1. PICK l \in Places \ {"deleting", "delete", "read", "save"} : Goes(t, l)
    BY <1>3 DEF CollectMetric, ReadUsage, AddUsage, MemfdCallocFails, Places
  <2>2. seen \subseteq seen'
    BY <1>3, NotesFacts DEF CollectMetric, ReadUsage, AddUsage, MemfdCallocFails
  <2> QED
    BY <1>1, <1>3, <2>1, <2>2 DEF CollectMetric, ReadUsage, AddUsage, MemfdCallocFails, memVars
<1>4. CASE ReadFile(t)
  <2>1. CASE Goes(t, "save") /\ UNCHANGED <<reg, seen>>
    BY <1>1, <1>4, <2>1 DEF ReadFile, Places, Brings, memVars
  <2>2. CASE Goes(t, "idle") /\ reg' = [reg EXCEPT ![t] = 0] /\ Notes("failed", TRUE)
    BY <1>1, <1>4, <2>2, NotesFacts DEF ReadFile, Places, memVars
  <2> QED
    BY <1>4, <2>1, <2>2 DEF ReadFile
<1>5. CASE MemfdFtruncate(t)
  <2>1. PICK l \in {"row", "idle"} : Goes(t, l)
    BY <1>5 DEF MemfdFtruncate
  <2>2. seen \subseteq seen'
    BY <1>5, NotesFacts DEF MemfdFtruncate
  <2>3. \A a \in Addresses : maps'[a].len = maps[a].len /\ maps'[a].left = maps[a].left
    BY <1>5, QuietMap DEF MemfdFtruncate
  <2> QED
    BY <1>1, <1>5, <2>1, <2>2, <2>3 DEF MemfdFtruncate, Places
<1>6. CASE Delete(t) /\ dict[op[t].file] = 0
  BY <1>1, <1>6 DEF Delete, Places
<1> QED
  BY <1>2, <1>3, <1>4, <1>5, <1>6

(* A quiet step keeps the invariant.                                       *)
LEMMA QuietShape ==
  ASSUME ShapeInv, TypeInv', NEW t \in Threads, Quiet(t)
  PROVE  Locked' /\ Stored' /\ Brought'
<1> USE DEF ShapeInv
<1>1. Locked'
  <2> SUFFICES ASSUME NEW u \in Threads
               PROVE  /\ rw_mutex_' = u <=> pc'[u] = "deleting"
                      /\ pc'[u] \in {"delete", "deleting"} => op'[u].kind = "delete"
    BY DEF Locked
  <2>1. CASE u = t
    BY <2>1 DEF Locked, Quiet
  <2>2. CASE u # t
    BY <2>2 DEF Locked, Quiet, Others
  <2> QED
    BY <2>1, <2>2
<1>2. Stored'
  <2>1. \A f \in Files : dict[f] # 0 => dict[f] \in Addresses
    BY SizeFacts DEF TypeInv, StoreType, Addresses
  <2>2. dict' = dict /\ \A a \in Addresses : maps'[a].len = maps[a].len
    BY DEF Quiet
  <2> QED
    BY <2>1, <2>2 DEF Stored
<1>3. \A u \in Threads : Brings(u)' => Brings(u) /\ reg'[u] = reg[u] /\ op'[u] = op[u]
  BY DEF Quiet, Others, Brings
<1>4. Brought'
  <2>1. dict' = dict /\ \A a \in Addresses : maps'[a].len = maps[a].len
    BY DEF Quiet
  <2>2. ASSUME NEW u \in Threads, Brings(u)'
        PROVE  /\ reg'[u] \in Addresses /\ maps'[reg'[u]].len = op'[u].size
               /\ \A f \in Files : dict'[f] # reg'[u]
    BY <1>3, <2>1, <2>2 DEF Brought
  <2>3. ASSUME NEW u \in Threads, NEW v \in Threads, Brings(u)', Brings(v)', reg'[u] = reg'[v]
        PROVE  u = v
    BY <1>3, <2>3 DEF Brought
  <2> QED
    BY <2>2, <2>3 DEF Brought
<1> QED
  BY <1>1, <1>2, <1>4

LEMMA QuietSizes ==
  ASSUME StoredInv, TypeInv', NEW t \in Threads, Quiet(t), alive' = alive
  PROVE  OneSize' /\ Undertaken' /\ Whole'
<1> USE DEF StoredInv
<1>1. \A u \in Threads : pc'[u] # "idle" => pc[u] # "idle" /\ op'[u] = op[u]
  BY DEF Quiet, Others
<1>2. \A u \in Threads : pc[u] \in {"deleting", "row"} => pc'[u] = pc[u] /\ op'[u] = op[u]
  BY DEF Quiet, Others
<1>3. \A u \in Threads : Brings(u)' => Brings(u) /\ reg'[u] = reg[u]
  BY DEF Quiet, Others, Brings
<1>4. \A f \in Files : dict[f] # 0 => dict[f] \in Addresses
  BY SizeFacts DEF ShapeInv, TypeInv, StoreType, Addresses
<1>5. UNCHANGED <<dict, row, dying>> /\ seen \subseteq seen'
  BY DEF Quiet
<1>6. \A a \in Addresses : maps'[a].len = maps[a].len /\ maps'[a].left = maps[a].left
  BY DEF Quiet
<1>7. OneSize'
  <2> SUFFICES ASSUME Never({"resized"})', NEW f \in Files
      PROVE  /\ \A u, v \in Threads :
                  Works(u, f)' /\ Works(v, f)' => op'[u].size = op'[v].size
             /\ \A u \in Threads : Works(u, f)' /\ row'[f] # 0 => op'[u].size = row'[f]
             /\ \A u \in Threads : Works(u, f)' /\ op'[u].kind # "save" => row'[f] # 0
             /\ dict'[f] # 0 =>
                  \/ row'[f] = maps'[dict'[f]].len
                  \/ /\ row'[f] = 0
                     /\ \E u \in Threads : /\ pc'[u] = "row" /\ op'[u].file = f
                                           /\ op'[u].size = maps'[dict'[f]].len
    BY DEF OneSize
  <2>1. Never({"resized"})
    BY <1>5 DEF Never
  <2>2. \A u \in Threads : Works(u, f)' => Works(u, f) /\ op'[u] = op[u]
    BY <1>1 DEF Works
  <2>3. dict[f] # 0 =>
          \/ row[f] = maps[dict[f]].len
          \/ /\ row[f] = 0
             /\ \E u \in Threads :
                  pc[u] = "row" /\ op[u].file = f /\ op[u].size = maps[dict[f]].len
    BY <2>1 DEF OneSize
  <2> QED
    BY <1>2, <1>4, <1>5, <1>6, <2>1, <2>2, <2>3 DEF OneSize
<1>8. Undertaken'
  BY <1>2, <1>5 DEF Undertaken
<1>9. Whole'
  <2>1. Never({"late", "resized"})' => Never({"late", "resized"})
    BY <1>5 DEF Never
  <2>2. \A f \in Files : Deleting(f) => Deleting(f)'
    BY <1>2 DEF Deleting
  <2>3. \A u \in Threads : Brings(u) => reg[u] \in Addresses
    BY DEF ShapeInv, Brought
  <2> QED
    BY <1>3, <1>4, <1>5, <1>6, <2>1, <2>2, <2>3 DEF Whole
<1> QED
  BY <1>7, <1>8, <1>9

(* A request begins.                                                       *)
LEMMA BeginFacts ==
  ASSUME TypeInv, NEW t \in Threads, NEW k \in OpKinds, NEW f \in Files, NEW n \in Sizes,
         Begin(t, k, f, n)
  PROVE  /\ pc[t] = "idle" /\ pc'[t] \notin {"idle", "deleting", "row", "read", "save"}
         /\ pc'[t] = "delete" => k = "delete"
         /\ op'[t].kind = k /\ op'[t].file = f /\ op'[t].size = n /\ Others(t)
         /\ UNCHANGED <<rw_mutex_, dict, maps, dying>> /\ seen \subseteq seen'
<1> DEFINE l == CASE k = "save"               -> "look"
                  [] k \in {"backup", "load"} -> "glance"
                  [] k = "recover"            -> "collect"
                  [] k = "delete"             -> "delete"
<1>0. /\ l \in Places \ {"idle", "deleting", "row", "read", "save"}
      /\ l = "delete" => k = "delete"
  BY DEF OpKinds, Places
<1>1. pc' = [pc EXCEPT ![t] = l]
  BY DEF Begin
<1> HIDE DEF l
<1>2. pc[t] = "idle" /\ op' = [op EXCEPT ![t] = [kind |-> k, file |-> f, size |-> n]]
      /\ reg' = reg /\ UNCHANGED <<rw_mutex_, dict, maps, dying>>
  BY DEF Begin
<1>3. seen \subseteq seen'
  BY NotesFacts DEF Begin
<1> QED
  BY <1>0, <1>1, <1>2, <1>3 DEF TypeInv, ThreadType, Others

LEMMA BeginShape ==
  ASSUME ShapeInv, NEW t \in Threads, NEW k \in OpKinds, NEW f \in Files, NEW n \in Sizes,
         Begin(t, k, f, n)
  PROVE  Locked' /\ Stored' /\ Brought'
<1> USE DEF ShapeInv
<1>1. /\ pc[t] = "idle" /\ pc'[t] \notin {"idle", "deleting", "row", "read", "save"}
      /\ pc'[t] = "delete" => k = "delete"
      /\ op'[t].kind = k /\ Others(t)
      /\ UNCHANGED <<rw_mutex_, dict, maps, dying>>
  BY BeginFacts
<1>2. Locked'
  BY <1>1 DEF Locked, Others
<1>3. Stored'
  BY <1>1 DEF Stored
<1>4. \A u \in Threads : Brings(u)' => Brings(u) /\ reg'[u] = reg[u] /\ op'[u] = op[u]
  BY <1>1 DEF Others, Brings
<1>5. Brought'
  BY <1>1, <1>4 DEF Brought
<1> QED
  BY <1>2, <1>3, <1>5

LEMMA BeginSizes ==
  ASSUME StoredInv, NEW t \in Threads, NEW k \in OpKinds, NEW f \in Files, NEW n \in Sizes,
         Begin(t, k, f, n), alive' = alive
  PROVE  OneSize' /\ Undertaken' /\ Whole'
<1> USE DEF StoredInv
<1>1. /\ pc[t] = "idle" /\ pc'[t] \notin {"idle", "deleting", "row", "read", "save"}
      /\ op'[t].kind = k /\ op'[t].file = f /\ op'[t].size = n /\ Others(t)
      /\ UNCHANGED <<dict, maps, dying>> /\ seen \subseteq seen'
  BY BeginFacts DEF ShapeInv
<1>2. \A u \in Threads : pc[u] \in {"deleting", "row"} => pc'[u] = pc[u] /\ op'[u] = op[u]
  BY <1>1 DEF Others
<1>3. \A u \in Threads : Brings(u)' => Brings(u) /\ reg'[u] = reg[u]
  BY <1>1 DEF Others, Brings
<1>4. Undertaken'
  BY <1>1, <1>2 DEF Undertaken
<1>5. Whole'
  <2>1. Never({"late", "resized"})' => Never({"late", "resized"})
    BY <1>1 DEF Never
  <2>2. \A g \in Files : Deleting(g) => Deleting(g)'
    BY <1>2 DEF Deleting
  <2> QED
    BY <1>1, <1>3, <2>1, <2>2 DEF Whole
<1>6. OneSize'
  <2> SUFFICES ASSUME Never({"resized"})', NEW g \in Files
      PROVE  /\ \A u, v \in Threads :
                  Works(u, g)' /\ Works(v, g)' => op'[u].size = op'[v].size
             /\ \A u \in Threads : Works(u, g)' /\ row'[g] # 0 => op'[u].size = row'[g]
             /\ \A u \in Threads : Works(u, g)' /\ op'[u].kind # "save" => row'[g] # 0
             /\ dict'[g] # 0 =>
                  \/ row'[g] = maps'[dict'[g]].len
                  \/ /\ row'[g] = 0
                     /\ \E u \in Threads : /\ pc'[u] = "row" /\ op'[u].file = g
                                           /\ op'[u].size = maps'[dict'[g]].len
    BY DEF OneSize
  <2>1. Never({"resized"})
    BY <1>1 DEF Never
  <2>2. /\ row[f] \in {0, n}
        /\ \A u \in Threads : pc[u] # "idle" /\ op[u].file = f => op[u].size = n
    <3>1. ~("resized" \in seen')
      BY DEF Never
    <3> QED
      BY <3>1, NotesFacts DEF Begin
  <2>3. /\ \A u \in Threads \ {t} : Works(u, g)' => Works(u, g) /\ op'[u] = op[u]
        /\ Works(t, g)' => g = f
    BY <1>1 DEF Works, Others
  <2>4. /\ \A u, v \in Threads : Works(u, g) /\ Works(v, g) => op[u].size = op[v].size
        /\ \A u \in Threads : Works(u, g) /\ row[g] # 0 => op[u].size = row[g]
        /\ \A u \in Threads : Works(u, g) /\ op[u].kind # "save" => row[g] # 0
        /\ dict[g] # 0 =>
             \/ row[g] = maps[dict[g]].len
             \/ /\ row[g] = 0
                /\ \E u \in Threads :
                     pc[u] = "row" /\ op[u].file = g /\ op[u].size = maps[dict[g]].len
    BY <2>1 DEF OneSize
  <2>5. CASE g # f
    <3>1. row'[g] = row[g]
      BY <2>5 DEF Begin, ShapeInv, TypeInv, StoreType
    <3>2. \A u \in Threads : Works(u, g)' => Works(u, g) /\ op'[u] = op[u]
      BY <2>3, <2>5
    <3> QED
      BY <1>1, <1>2, <2>4, <3>1, <3>2
  <2>6. CASE g = f
    <3>1. row'[f] = row[f] \/ row'[f] = n
      BY DEF Begin, ShapeInv, TypeInv, StoreType
    <3>2. n # 0 /\ (k # "save" => row'[f] = n)
      BY SizeFacts DEF Begin, OpKinds, ShapeInv, TypeInv, StoreType
    <3>3. \A u \in Threads : Works(u, f)' => op'[u].size = n
      BY <1>1, <2>2, <2>3, <2>6 DEF Works
    <3>4. \A u \in Threads : Works(u, f)' /\ op'[u].kind # "save" => row'[f] # 0
      BY <1>1, <2>3, <2>4, <2>6, <3>1, <3>2
    <3>5. ASSUME dict[f] # 0
          PROVE  \/ row'[f] = maps[dict[f]].len
                 \/ /\ row'[f] = 0
                    /\ \E u \in Threads :
                         pc'[u] = "row" /\ op'[u].file = f /\ op'[u].size = maps[dict[f]].len
      <4>1. maps[dict[f]].len # 0
        BY <3>5 DEF ShapeInv, Stored
      <4>2. CASE row[f] = maps[dict[f]].len
        BY <2>2, <3>1, <4>1, <4>2
      <4>3. CASE row[f] = 0 /\ \E u \in Threads :
                   pc[u] = "row" /\ op[u].file = f /\ op[u].size = maps[dict[f]].len
        <5>1. maps[dict[f]].len = n
          BY <2>2, <4>3
        <5> QED
          BY <1>2, <3>1, <4>3, <5>1
      <4> QED
        BY <2>4, <2>6, <3>5, <4>2, <4>3
    <3> QED
      BY <1>1, <2>2, <2>6, <3>1, <3>3, <3>4, <3>5
  <2> QED
    BY <2>5, <2>6
<1> QED
  BY <1>4, <1>5, <1>6

(* memfdCalloc hands out a mapping nobody has.                             *)
LEMMA CallocFacts ==
  ASSUME TypeInv, NEW t \in Threads, MemfdCalloc(t)
  PROVE  \E a \in Addresses :
           /\ maps[a].len = 0 /\ maps'[a].len = op[t].size /\ maps'[a].left = op[t].size
           /\ \A b \in Addresses \ {a} : maps'[b] = maps[b]
           /\ reg'[t] = a /\ Others(t)
           /\ pc[t] = "calloc" /\ pc'[t] \in {"read", "save"} /\ op'[t] = op[t]
           /\ op[t].size \in Nat \ {0}
           /\ UNCHANGED <<rw_mutex_, dict, row, dying, seen>>
<1>1. PICK a \in Addresses :
        /\ Fresh(a)
        /\ maps' = [maps EXCEPT ![a] = [len |-> op[t].size, fsize |-> op[t].size,
                                        left |-> op[t].size, open |-> TRUE]]
        /\ reg' = [reg EXCEPT ![t] = a]
  BY DEF MemfdCalloc
<1>2. PICK l \in {"read", "save"} : Goes(t, l)
  BY DEF MemfdCalloc
<1>3. Others(t) /\ pc'[t] = l /\ op'[t] = op[t]
  BY <1>1, <1>2, OthersFacts DEF Places
<1>4. pc[t] = "calloc" /\ op[t].size \in Nat \ {0}
  BY OpFacts, SizeFacts DEF MemfdCalloc, TypeInv
<1>5. maps'[a].len = op[t].size /\ maps'[a].left = op[t].size
      /\ \A b \in Addresses \ {a} : maps'[b] = maps[b]
  BY <1>1 DEF TypeInv, MapType
<1>6. reg'[t] = a
  BY <1>1 DEF TypeInv, ThreadType
<1>7. UNCHANGED <<rw_mutex_, dict, row, dying, seen>>
  BY DEF MemfdCalloc
<1> QED
  BY <1>1, <1>2, <1>3, <1>4, <1>5, <1>6, <1>7 DEF Fresh

LEMMA CallocStep ==
  ASSUME StoredInv, NEW t \in Threads, MemfdCalloc(t), alive' = alive
  PROVE  Locked' /\ Stored' /\ Brought' /\ OneSize' /\ Undertaken' /\ Whole'
<1> USE DEF StoredInv, ShapeInv
<1>1. PICK a \in Addresses :
        /\ maps[a].len = 0 /\ maps'[a].len = op[t].size /\ maps'[a].left = op[t].size
        /\ \A b \in Addresses \ {a} : maps'[b] = maps[b]
        /\ reg'[t] = a /\ Others(t)
        /\ pc[t] = "calloc" /\ pc'[t] \in {"read", "save"} /\ op'[t] = op[t]
        /\ op[t].size \in Nat \ {0}
        /\ UNCHANGED <<rw_mutex_, dict, row, dying, seen>>
  BY CallocFacts
<1>2. \A f \in Files : dict[f] # 0 =>
        dict[f] \in Addresses \ {a} /\ maps'[dict[f]] = maps[dict[f]]
  <2>1. \A f \in Files : dict[f] # 0 => dict[f] \in Addresses
    BY SizeFacts DEF TypeInv, StoreType, Addresses
  <2> QED
    BY <1>1, <2>1 DEF Stored
<1>3. \A u \in Threads \ {t} : Brings(u) =>
        reg[u] \in Addresses \ {a} /\ maps'[reg[u]] = maps[reg[u]]
  <2> SUFFICES ASSUME NEW u \in Threads \ {t}, Brings(u)
               PROVE  reg[u] \in Addresses \ {a}
    BY <1>1
  <2>1. reg[u] \in Addresses /\ maps[reg[u]].len = op[u].size
    BY DEF Brought
  <2>2. op[u].size # 0
    BY OpFacts, SizeFacts DEF Brings, TypeInv
  <2> QED
    BY <1>1, <2>1, <2>2
<1>4. \A u \in Threads \ {t} :
        (Brings(u)' <=> Brings(u)) /\ reg'[u] = reg[u] /\ op'[u] = op[u] /\ pc'[u] = pc[u]
  BY <1>1 DEF Others, Brings
<1>5. \A u \in Threads : op'[u] = op[u] /\ (pc'[u] = pc[u] \/ u = t)
  BY <1>1, <1>4
<1>6. Locked'
  BY <1>1, <1>5 DEF Locked
<1>7. Stored'
  BY <1>1, <1>2 DEF Stored
<1>8. Brought'
  <2>1. a # 0
    BY SizeFacts DEF Addresses
  <2>2. ASSUME NEW u \in Threads, Brings(u)'
        PROVE  /\ reg'[u] \in Addresses /\ maps'[reg'[u]].len = op'[u].size
               /\ \A f \in Files : dict'[f] # reg'[u]
    <3>1. CASE u = t
      BY <1>1, <1>2, <2>1, <3>1
    <3>2. CASE u # t
      BY <1>1, <1>3, <1>4, <2>2, <3>2 DEF Brought
    <3> QED
      BY <3>1, <3>2
  <2>3. ASSUME NEW u \in Threads, NEW v \in Threads, Brings(u)', Brings(v)', reg'[u] = reg'[v]
        PROVE  u = v
    BY <1>1, <1>3, <1>4, <2>3 DEF Brought
  <2> QED
    BY <2>2, <2>3 DEF Brought
<1>9. OneSize'
  <2>1. \A u \in Threads, f \in Files : Works(u, f)' => Works(u, f) /\ op'[u] = op[u]
    BY <1>1, <1>5 DEF Works
  <2>2. \A u \in Threads : pc[u] = "row" => pc'[u] = "row"
    BY <1>1, <1>5
  <2>3. Never({"resized"})' => Never({"resized"})
    BY <1>1 DEF Never
  <2>4. UNCHANGED <<dict, row>>
    BY <1>1
  <2> QED
    BY <1>2, <1>5, <2>1, <2>2, <2>3, <2>4 DEF OneSize
<1>10. Undertaken'
  BY <1>1, <1>5 DEF Undertaken
<1>11. Whole'
  <2>1. Never({"late", "resized"})' => Never({"late", "resized"})
    BY <1>1 DEF Never
  <2>2. \A f \in Files : Deleting(f) => Deleting(f)'
    BY <1>1, <1>5 DEF Deleting
  <2>3. ASSUME NEW f \in Files, Never({"late", "resized"})', dict'[f] # 0, ~Deleting(f)'
        PROVE  maps'[dict'[f]].left = maps'[dict'[f]].len
    BY <1>1, <1>2, <2>1, <2>2, <2>3 DEF Whole
  <2>4. ASSUME NEW u \in Threads, Never({"late", "resized"})', Brings(u)'
        PROVE  maps'[reg'[u]].left = maps'[reg'[u]].len
    BY <1>1, <1>3, <1>4, <2>1, <2>4 DEF Whole
  <2> QED
    BY <2>1, <2>3, <2>4 DEF Whole
<1> QED
  BY <1>6, <1>7, <1>8, <1>9, <1>10, <1>11

(* Save moves the mapping a thread brings into the storage, SaveRow writes *)
(* the row of the file.                                                    *)
LEMMA SaveStep ==
  ASSUME StoredInv, NEW t \in Threads, Save(t), alive' = alive
  PROVE  Locked' /\ Stored' /\ Brought' /\ OneSize' /\ Undertaken' /\ Whole'
<1> USE DEF StoredInv, ShapeInv
<1>1. PICK l \in {"row", "idle"} : Goes(t, l) /\ (op[t].kind = "save" => l = "row")
  BY DEF Save
<1>2. /\ Others(t) /\ pc'[t] = l /\ (l # "idle" => op'[t] = op[t])
      /\ pc[t] = "save" /\ rw_mutex_ = Nobody /\ rw_mutex_' = rw_mutex_
      /\ UNCHANGED <<row, maps, dying>> /\ seen \subseteq seen'
  <2>1. l \in Places /\ reg' = [reg EXCEPT ![t] = 0]
    BY DEF Save, Places
  <2> QED
    BY <1>1, <2>1, OthersFacts, NotesFacts DEF Save
<1> DEFINE f == op[t].file
           a == reg[t]
<1>3. /\ f \in Files /\ op[t].size \in Nat \ {0}
      /\ a \in Addresses /\ maps[a].len = op[t].size /\ a # 0
      /\ \A g \in Files : dict[g] # a
  <2>1. f \in Files /\ op[t].size \in Nat \ {0}
    BY <1>2, OpFacts, SizeFacts DEF TypeInv
  <2>2. a \in Addresses /\ maps[a].len = op[t].size /\ \A g \in Files : dict[g] # a
    BY <1>2 DEF Brought, Brings
  <2>3. a # 0
    BY <2>2, SizeFacts DEF Addresses
  <2> QED
    BY <2>1, <2>2, <2>3
<1>4. dict'[f] = a /\ \A g \in Files \ {f} : dict'[g] = dict[g]
  BY <1>3 DEF Save, TypeInv, StoreType
<1>5. \A u \in Threads : pc[u] # "deleting" /\ pc'[u] # "deleting"
  BY <1>2, MonitorAssumption DEF Locked, Others, Nobody
<1>6. \A u \in Threads \ {t} : pc'[u] = pc[u] /\ op'[u] = op[u] /\ reg'[u] = reg[u]
  BY <1>2 DEF Others
<1>7. \A u \in Threads : Brings(u)' => u # t /\ Brings(u) /\ reg'[u] = reg[u] /\ op'[u] = op[u]
  BY <1>2, <1>6 DEF Brings
<1>8. \A u \in Threads, g \in Files : Works(u, g)' => Works(u, g) /\ op'[u] = op[u]
  BY <1>2, <1>6 DEF Works
<1>9. f = op[t].file /\ a = reg[t] /\ Works(t, f) /\ Brings(t)
  BY <1>2 DEF Works, Brings
<1> HIDE DEF f, a
<1>10. Locked'
  BY <1>2, <1>5, <1>6 DEF Locked
<1>11. Stored'
  BY <1>2, <1>3, <1>4 DEF Stored
<1>12. Brought'
  <2>1. ASSUME NEW u \in Threads, Brings(u)'
        PROVE  /\ reg'[u] \in Addresses /\ maps'[reg'[u]].len = op'[u].size
               /\ \A g \in Files : dict'[g] # reg'[u]
    <3>1. u # t /\ Brings(u) /\ reg'[u] = reg[u] /\ op'[u] = op[u]
      BY <1>7, <2>1
    <3>2. reg[u] # a
      BY <1>9, <3>1 DEF Brought
    <3> QED
      BY <1>2, <1>4, <3>1, <3>2 DEF Brought
  <2>2. ASSUME NEW u \in Threads, NEW v \in Threads, Brings(u)', Brings(v)', reg'[u] = reg'[v]
        PROVE  u = v
    BY <1>7, <2>2 DEF Brought
  <2> QED
    BY <2>1, <2>2 DEF Brought
<1>13. OneSize'
  <2> SUFFICES ASSUME Never({"resized"})', NEW g \in Files
      PROVE  /\ \A u, v \in Threads :
                  Works(u, g)' /\ Works(v, g)' => op'[u].size = op'[v].size
             /\ \A u \in Threads : Works(u, g)' /\ row'[g] # 0 => op'[u].size = row'[g]
             /\ \A u \in Threads : Works(u, g)' /\ op'[u].kind # "save" => row'[g] # 0
             /\ dict'[g] # 0 =>
                  \/ row'[g] = maps'[dict'[g]].len
                  \/ /\ row'[g] = 0
                     /\ \E u \in Threads : /\ pc'[u] = "row" /\ op'[u].file = g
                                           /\ op'[u].size = maps'[dict'[g]].len
    BY DEF OneSize
  <2>1. Never({"resized"})
    BY <1>2 DEF Never
  <2>2. /\ \A u, v \in Threads : Works(u, g) /\ Works(v, g) => op[u].size = op[v].size
        /\ \A u \in Threads : Works(u, g) /\ row[g] # 0 => op[u].size = row[g]
        /\ \A u \in Threads : Works(u, g) /\ op[u].kind # "save" => row[g] # 0
        /\ dict[g] # 0 =>
             \/ row[g] = maps[dict[g]].len
             \/ /\ row[g] = 0
                /\ \E u \in Threads :
                     pc[u] = "row" /\ op[u].file = g /\ op[u].size = maps[dict[g]].len
    BY <2>1 DEF OneSize
  <2>3. /\ \A u, v \in Threads : Works(u, g)' /\ Works(v, g)' => op'[u].size = op'[v].size
        /\ \A u \in Threads : Works(u, g)' /\ row'[g] # 0 => op'[u].size = row'[g]
        /\ \A u \in Threads : Works(u, g)' /\ op'[u].kind # "save" => row'[g] # 0
    BY <1>2, <1>8, <2>2
  <2>4. CASE g # f
    <3>1. \A u \in Threads : pc[u] = "row" => pc'[u] = "row" /\ op'[u] = op[u]
      BY <1>2, <1>6
    <3> QED
      BY <1>2, <1>4, <2>2, <2>3, <2>4, <3>1
  <2>5. CASE g = f
    <3>1. row[f] # 0 => row[f] = maps[a].len
      BY <1>3, <1>9, <2>2, <2>5
    <3>2. row[f] = 0 => l = "row"
      BY <1>1, <1>9, <2>2, <2>5
    <3> QED
      BY <1>2, <1>3, <1>4, <1>9, <2>3, <2>5, <3>1, <3>2
  <2> QED
    BY <2>4, <2>5
<1>14. Undertaken'
  BY <1>2, <1>5 DEF Undertaken
<1>15. Whole'
  <2>1. Never({"late", "resized"})' => Never({"late", "resized"})
    BY <1>2 DEF Never
  <2>2. \A g \in Files : ~Deleting(g)
    BY <1>5 DEF Deleting
  <2>3. ASSUME Never({"late", "resized"})' PROVE maps[a].left = maps[a].len
    BY <1>9, <2>1, <2>3 DEF Whole
  <2>4. ASSUME NEW g \in Files, Never({"late", "resized"})', dict'[g] # 0
        PROVE  maps'[dict'[g]].left = maps'[dict'[g]].len
    BY <1>2, <1>4, <2>1, <2>2, <2>3, <2>4 DEF Whole
  <2>5. ASSUME NEW u \in Threads, Never({"late", "resized"})', Brings(u)'
        PROVE  maps'[reg'[u]].left = maps'[reg'[u]].len
    BY <1>2, <1>7, <2>1, <2>5 DEF Whole
  <2> QED
    BY <2>1, <2>4, <2>5 DEF Whole
<1> QED
  BY <1>10, <1>11, <1>12, <1>13, <1>14, <1>15

LEMMA SaveRowStep ==
  ASSUME StoredInv, NEW t \in Threads, SaveRow(t), alive' = alive
  PROVE  Locked' /\ Stored' /\ Brought' /\ OneSize' /\ Undertaken' /\ Whole'
<1> USE DEF StoredInv, ShapeInv
<1>1. /\ Others(t) /\ pc'[t] = "idle" /\ pc[t] = "row"
      /\ UNCHANGED <<rw_mutex_, dict, maps, dying, seen>>
  BY OthersFacts DEF SaveRow, Places
<1> DEFINE f == op[t].file
           n == op[t].size
<1>2. f \in Files /\ n \in Nat \ {0}
  BY <1>1, OpFacts, SizeFacts DEF TypeInv
<1>3. row'[f] = n /\ \A g \in Files \ {f} : row'[g] = row[g]
  BY <1>2 DEF SaveRow, TypeInv, StoreType
<1>4. f = op[t].file /\ n = op[t].size /\ Works(t, f)
  BY <1>1 DEF Works
<1> HIDE DEF f, n
<1>5. \A u \in Threads \ {t} : pc'[u] = pc[u] /\ op'[u] = op[u] /\ reg'[u] = reg[u]
  BY <1>1 DEF Others
<1>6. \A u \in Threads : Brings(u)' => Brings(u) /\ reg'[u] = reg[u] /\ op'[u] = op[u]
  BY <1>1, <1>5 DEF Brings
<1>7. \A u \in Threads, g \in Files : Works(u, g)' => Works(u, g) /\ op'[u] = op[u]
  BY <1>1, <1>5 DEF Works
<1>8. Locked'
  BY <1>1, <1>5 DEF Locked
<1>9. Stored'
  BY <1>1 DEF Stored
<1>10. Brought'
  BY <1>1, <1>6 DEF Brought
<1>11. OneSize'
  <2> SUFFICES ASSUME Never({"resized"})', NEW g \in Files
      PROVE  /\ \A u, v \in Threads :
                  Works(u, g)' /\ Works(v, g)' => op'[u].size = op'[v].size
             /\ \A u \in Threads : Works(u, g)' /\ row'[g] # 0 => op'[u].size = row'[g]
             /\ \A u \in Threads : Works(u, g)' /\ op'[u].kind # "save" => row'[g] # 0
             /\ dict'[g] # 0 =>
                  \/ row'[g] = maps'[dict'[g]].len
                  \/ /\ row'[g] = 0
                     /\ \E u \in Threads : /\ pc'[u] = "row" /\ op'[u].file = g
                                           /\ op'[u].size = maps'[dict'[g]].len
    BY DEF OneSize
  <2>1. Never({"resized"})
    BY <1>1 DEF Never
  <2>2. /\ \A u, v \in Threads : Works(u, g) /\ Works(v, g) => op[u].size = op[v].size
        /\ \A u \in Threads : Works(u, g) /\ row[g] # 0 => op[u].size = row[g]
        /\ \A u \in Threads : Works(u, g) /\ op[u].kind # "save" => row[g] # 0
        /\ dict[g] # 0 =>
             \/ row[g] = maps[dict[g]].len
             \/ /\ row[g] = 0
                /\ \E u \in Threads :
                     pc[u] = "row" /\ op[u].file = g /\ op[u].size = maps[dict[g]].len
    BY <2>1 DEF OneSize
  <2>3. \A u, v \in Threads : Works(u, g)' /\ Works(v, g)' => op'[u].size = op'[v].size
    BY <1>7, <2>2
  <2>4. CASE g # f
    <3>1. \A u \in Threads : pc[u] = "row" /\ op[u].file = g => pc'[u] = "row" /\ op'[u] = op[u]
      BY <1>4, <1>5, <2>4
    <3> QED
      BY <1>1, <1>3, <1>7, <2>2, <2>3, <2>4, <3>1
  <2>5. CASE g = f
    <3>1. \A u \in Threads : Works(u, f) => op[u].size = n
      BY <1>4, <2>2, <2>5
    <3>2. dict[f] # 0 => n = maps[dict[f]].len
      <4>1. \A u \in Threads : pc[u] = "row" /\ op[u].file = f => op[u].size = n
        BY <3>1 DEF Works
      <4>2. dict[f] # 0 => maps[dict[f]].len # 0
        BY <1>2 DEF Stored
      <4> QED
        BY <1>4, <2>2, <2>5, <4>1, <4>2
    <3> QED
      BY <1>1, <1>2, <1>3, <1>7, <2>3, <2>5, <3>1, <3>2
  <2> QED
    BY <2>4, <2>5
<1>12. \A u \in Threads : pc[u] = "deleting" => pc'[u] = pc[u] /\ op'[u] = op[u]
  BY <1>1, <1>5
<1>13. Undertaken'
  BY <1>1, <1>12 DEF Undertaken
<1>14. Whole'
  <2>1. Never({"late", "resized"})' => Never({"late", "resized"})
    BY <1>1 DEF Never
  <2>2. \A g \in Files : Deleting(g) => Deleting(g)'
    BY <1>12 DEF Deleting
  <2> QED
    BY <1>1, <1>6, <2>1, <2>2 DEF Whole
<1> QED
  BY <1>8, <1>9, <1>10, <1>11, <1>13, <1>14

(* Delete locks the storage and starts an unmapping thread for the file's  *)
(* mapping; Erase erases the file and unlocks.                             *)
LEMMA DeleteStep ==
  ASSUME StoredInv, NEW t \in Threads, Delete(t), dict[op[t].file] # 0, alive' = alive
  PROVE  Locked' /\ Stored' /\ Brought' /\ OneSize' /\ Undertaken' /\ Whole'
<1> USE DEF StoredInv, ShapeInv
<1> DEFINE f == op[t].file
           a == dict[f]
<1>1. /\ pc[t] = "delete" /\ rw_mutex_ = Nobody /\ rw_mutex_' = t
      /\ maps' = [maps EXCEPT ![a].open = FALSE]
      /\ dying' = dying \cup {[addr |-> a, size |-> op[t].size, erased |-> FALSE]}
      /\ UNCHANGED <<dict, row>>
  BY DEF Delete
<1>2. Others(t) /\ pc'[t] = "deleting" /\ op'[t] = op[t]
  <2>1. Goes(t, "deleting") /\ reg' = [reg EXCEPT ![t] = self_total_usage]
    BY DEF Delete
  <2> QED
    BY <2>1, OthersFacts DEF Places
<1>3. seen \subseteq seen'
  BY NotesFacts DEF Delete
<1>4. f \in Files /\ a \in Addresses
  BY <1>1, OpFacts, SizeFacts DEF TypeInv, StoreType, Addresses
<1>5. \A b \in Addresses : maps'[b].len = maps[b].len /\ maps'[b].left = maps[b].left
  <2>1. maps'[a] = [maps[a] EXCEPT !.open = FALSE] /\ maps[a] \in MapRecord
    BY <1>1, <1>4 DEF TypeInv, MapType
  <2>2. maps'[a].len = maps[a].len /\ maps'[a].left = maps[a].left
    BY <2>1 DEF MapRecord
  <2>3. \A b \in Addresses \ {a} : maps'[b] = maps[b]
    BY <1>1, <1>4 DEF TypeInv, MapType
  <2> QED
    BY <2>2, <2>3
<1>6. \A u \in Threads \ {t} : pc'[u] = pc[u] /\ op'[u] = op[u] /\ reg'[u] = reg[u]
  BY <1>2 DEF Others
<1>7. \A u \in Threads : pc[u] # "deleting" /\ (pc'[u] = "deleting" => u = t)
  <2>1. \A u \in Threads : pc[u] # "deleting"
    BY <1>1, MonitorAssumption DEF Locked, Nobody
  <2> QED
    BY <1>6, <2>1
<1>8. \A u \in Threads : Brings(u)' => Brings(u) /\ reg'[u] = reg[u] /\ op'[u] = op[u]
  BY <1>2, <1>6 DEF Brings
<1>9. \A u \in Threads, g \in Files : Works(u, g)' => Works(u, g) /\ op'[u] = op[u]
  BY <1>1, <1>2, <1>6 DEF Works
<1>10. \A g \in Files : dict[g] # 0 => dict[g] \in Addresses
  BY SizeFacts DEF TypeInv, StoreType, Addresses
<1>11. \A u \in Threads : Brings(u) => reg[u] \in Addresses
  BY DEF Brought
<1>12. Locked'
  BY <1>1, <1>2, <1>6, <1>7 DEF Locked
<1>13. Stored'
  BY <1>1, <1>5, <1>10 DEF Stored
<1>14. Brought'
  BY <1>1, <1>5, <1>8, <1>11 DEF Brought
<1>15. OneSize'
  <2>1. \A u \in Threads : pc[u] = "row" => pc'[u] = "row" /\ op'[u] = op[u]
    BY <1>1, <1>6
  <2>2. Never({"resized"})' => Never({"resized"})
    BY <1>3 DEF Never
  <2> QED
    BY <1>1, <1>5, <1>9, <1>10, <2>1, <2>2 DEF OneSize
<1>16. Undertaken'
  <2> SUFFICES ASSUME NEW d \in dying', ~d.erased
               PROVE  \E u \in Threads : /\ pc'[u] = "deleting" /\ d.addr = dict'[op'[u].file]
                                         /\ d.size = op'[u].size
    BY DEF Undertaken
  <2>1. CASE d \in dying
    BY <1>7, <2>1 DEF Undertaken
  <2>2. CASE d = [addr |-> a, size |-> op[t].size, erased |-> FALSE]
    BY <1>1, <1>2, <2>2
  <2> QED
    BY <1>1, <2>1, <2>2
<1>17. Whole'
  <2>1. Never({"late", "resized"})' => Never({"late", "resized"})
    BY <1>3 DEF Never
  <2>2. \A g \in Files : ~Deleting(g)
    BY <1>7 DEF Deleting
  <2>3. ASSUME NEW g \in Files, Never({"late", "resized"}), dict'[g] # 0
        PROVE  maps'[dict'[g]].left = maps'[dict'[g]].len
    <3>1. dict'[g] = dict[g] /\ dict[g] \in Addresses
      BY <1>1, <1>10, <2>3
    <3> QED
      BY <1>5, <2>2, <2>3, <3>1 DEF Whole
  <2>4. ASSUME NEW u \in Threads, Never({"late", "resized"}), Brings(u)'
        PROVE  maps'[reg'[u]].left = maps'[reg'[u]].len
    <3>1. Brings(u) /\ reg'[u] = reg[u] /\ reg[u] \in Addresses
      BY <1>8, <1>11, <2>4
    <3> QED
      BY <1>5, <2>4, <3>1 DEF Whole
  <2> QED
    BY <2>1, <2>3, <2>4 DEF Whole
<1> QED
  BY <1>12, <1>13, <1>14, <1>15, <1>16, <1>17

LEMMA EraseStep ==
  ASSUME StoredInv, NEW t \in Threads, Erase(t), alive' = alive
  PROVE  Locked' /\ Stored' /\ Brought' /\ OneSize' /\ Undertaken' /\ Whole'
<1> USE DEF StoredInv, ShapeInv
<1> DEFINE f == op[t].file
<1>1. /\ pc[t] = "deleting" /\ rw_mutex_' = Nobody
      /\ dict' = [dict EXCEPT ![f] = 0]
      /\ dying' = {[d EXCEPT !.erased = @ \/ d.addr = dict[f]] : d \in dying}
      /\ UNCHANGED <<row, maps, seen>>
  BY DEF Erase
<1>2. Others(t) /\ pc'[t] = "idle"
  <2>1. Goes(t, "idle") /\ reg' = [reg EXCEPT ![t] = 0]
    BY DEF Erase
  <2> QED
    BY <2>1, OthersFacts DEF Places
<1>3. f \in Files /\ f = op[t].file
  BY <1>1, OpFacts DEF TypeInv
<1> HIDE DEF f
<1>4. dict'[f] = 0 /\ \A g \in Files \ {f} : dict'[g] = dict[g]
  BY <1>1, <1>3 DEF TypeInv, StoreType
<1>5. \A u \in Threads \ {t} : pc'[u] = pc[u] /\ op'[u] = op[u] /\ reg'[u] = reg[u]
  BY <1>2 DEF Others
<1>6. \A u \in Threads : (pc[u] = "deleting" => u = t) /\ pc'[u] # "deleting"
  BY <1>1, <1>2, <1>5 DEF Locked
<1>7. \A u \in Threads : Brings(u)' => Brings(u) /\ reg'[u] = reg[u] /\ op'[u] = op[u]
  BY <1>2, <1>5 DEF Brings
<1>8. \A u \in Threads, g \in Files : Works(u, g)' => Works(u, g) /\ op'[u] = op[u]
  BY <1>2, <1>5 DEF Works
<1>9. \A u \in Threads : Brings(u) => reg[u] \in Addresses /\ reg[u] # 0
  BY SizeFacts DEF Brought, Addresses
<1>10. Locked'
  BY <1>1, <1>2, <1>5, <1>6, MonitorAssumption DEF Locked, Nobody
<1>11. Stored'
  BY <1>1, <1>4 DEF Stored
<1>12. Brought'
  <2>1. ASSUME NEW u \in Threads, Brings(u)'
        PROVE  /\ reg'[u] \in Addresses /\ maps'[reg'[u]].len = op'[u].size
               /\ \A g \in Files : dict'[g] # reg'[u]
    BY <1>1, <1>4, <1>7, <1>9, <2>1 DEF Brought
  <2>2. ASSUME NEW u \in Threads, NEW v \in Threads, Brings(u)', Brings(v)', reg'[u] = reg'[v]
        PROVE  u = v
    BY <1>7, <2>2 DEF Brought
  <2> QED
    BY <2>1, <2>2 DEF Brought
<1>13. OneSize'
  <2>1. \A u \in Threads : pc[u] = "row" => pc'[u] = "row" /\ op'[u] = op[u]
    BY <1>1, <1>5
  <2>2. Never({"resized"})' => Never({"resized"})
    BY <1>1 DEF Never
  <2>3. UNCHANGED <<row, maps>>
    BY <1>1
  <2> QED
    BY <1>4, <1>8, <2>1, <2>2, <2>3 DEF OneSize
<1>14. Undertaken'
  <2> SUFFICES ASSUME NEW e \in dying' PROVE e.erased
    BY DEF Undertaken
  <2>0. PICK d \in dying : e = [d EXCEPT !.erased = d.erased \/ d.addr = dict[f]]
    BY <1>1
  <2>1. d \in [addr : Addresses, size : Sizes, erased : BOOLEAN]
    BY DEF TypeInv, StoreType
  <2>2. d.erased \/ d.addr = dict[f]
    BY <1>3, <1>6 DEF Undertaken
  <2> QED
    BY <2>0, <2>1, <2>2
<1>15. Whole'
  <2>1. Never({"late", "resized"})' => Never({"late", "resized"})
    BY <1>1 DEF Never
  <2>2. \A g \in Files : Deleting(g) => g = f
    BY <1>3, <1>6 DEF Deleting
  <2> QED
    BY <1>1, <1>4, <1>7, <2>1, <2>2 DEF Whole
<1> QED
  BY <1>10, <1>11, <1>12, <1>13, <1>14, <1>15

(* Every step of a thread keeps the invariant.                             *)
LEMMA ThreadKeeps ==
  ASSUME StoredInv, NEW t \in Threads, Step(t), alive' = alive
  PROVE  StoredInv'
<1>1. TypeInv'
  <2>1. pc[t] = "save" => reg[t] \in Addresses
    BY DEF StoredInv, ShapeInv, Brought, Brings
  <2> QED
    BY <2>1, StatStep, ThreadStep, CountStep, MapStep, StoreStep
       DEF StoredInv, ShapeInv, TypeInv
<1>2. CASE Quiet(t)
  BY <1>1, <1>2, QuietShape, QuietSizes DEF StoredInv, ShapeInv
<1>3. ASSUME NEW k \in OpKinds, NEW f \in Files, NEW n \in Sizes, Begin(t, k, f, n)
      PROVE  StoredInv'
  BY <1>1, <1>3, BeginShape, BeginSizes DEF StoredInv, ShapeInv
<1>4. CASE MemfdCalloc(t) \/ Save(t) \/ SaveRow(t) \/ Erase(t)
  BY <1>1, <1>4, CallocStep, SaveStep, SaveRowStep, EraseStep DEF StoredInv, ShapeInv
<1>5. CASE Delete(t) /\ dict[op[t].file] # 0
  BY <1>1, <1>5, DeleteStep DEF StoredInv, ShapeInv
<1>6. TypeInv
  BY DEF StoredInv, ShapeInv
<1> QED
  BY <1>2, <1>3, <1>4, <1>5, <1>6, QuietStep DEF Step

(* An unmapping thread that runs while its map node stands takes its own   *)
(* mapping and nothing else.                                               *)
LEMMA UnmapKeeps ==
  ASSUME StoredInv, NEW d \in dying, Unmap(d)
  PROVE  StoredInv'
<1> USE DEF StoredInv, ShapeInv
<1>1. TypeInv'
  BY UnmapType
<1>2. /\ dying' = dying \ {d} /\ UNCHANGED <<rw_mutex_, dict, row, pc, op, reg>>
      /\ seen \subseteq seen' /\ (d.erased => "late" \in seen')
  BY NotesFacts DEF Unmap
<1>3. \A a \in Addresses : maps'[a].len = maps[a].len
  <2>1. CASE maps' = maps
    BY <2>1
  <2> QED
    BY <2>1, UnmapFacts, MunmapFacts
<1>4. \A f \in Files : dict[f] # 0 => dict[f] \in Addresses
  BY SizeFacts DEF TypeInv, StoreType, Addresses
<1>5. \A u \in Threads : Brings(u) => reg[u] \in Addresses
  BY DEF Brought
<1>6. \A u \in Threads : Brings(u)' <=> Brings(u)
  BY <1>2 DEF Brings
<1>7. Locked'
  BY <1>2 DEF Locked
<1>8. Stored'
  BY <1>2, <1>3, <1>4 DEF Stored
<1>9. Brought'
  BY <1>2, <1>3, <1>5, <1>6 DEF Brought
<1>10. OneSize'
  <2>1. Never({"resized"})' => Never({"resized"})
    BY <1>2 DEF Never
  <2>2. \A u \in Threads, f \in Files : Works(u, f)' <=> Works(u, f)
    BY <1>2 DEF Works
  <2> QED
    BY <1>2, <1>3, <1>4, <2>1, <2>2 DEF OneSize
<1>11. Undertaken'
  BY <1>2 DEF Undertaken
<1>12. Whole'
  <2> SUFFICES ASSUME Never({"late", "resized"})'
      PROVE  /\ alive'
             /\ \A f \in Files : dict'[f] # 0 /\ ~Deleting(f)' =>
                  maps'[dict'[f]].left = maps'[dict'[f]].len
             /\ \A u \in Threads : Brings(u)' => maps'[reg'[u]].left = maps'[reg'[u]].len
    BY DEF Whole
  <2>1. ~d.erased /\ Never({"late", "resized"}) /\ Never({"resized"})
    BY <1>2 DEF Never
  <2>2. Munmap(d.addr, d.size) /\ alive' = alive /\ d.addr \in Addresses /\ d.size \in Sizes
    BY <2>1, UnmapFacts
  <2>3. PICK t \in Threads :
          pc[t] = "deleting" /\ d.addr = dict[op[t].file] /\ d.size = op[t].size
    BY <2>1 DEF Undertaken
  <2> DEFINE g == op[t].file
  <2>4. g \in Files /\ Works(t, g) /\ op[t].kind = "delete" /\ dict[g] # 0
    <3>1. g \in Files /\ d.addr # 0
      BY <2>2, <2>3, OpFacts, SizeFacts DEF TypeInv, Addresses
    <3> QED
      BY <2>3, <3>1 DEF Works, Locked
  <2>5. d.size = maps[d.addr].len
    <3>1. row[g] # 0 /\ op[t].size = row[g]
      BY <2>1, <2>4 DEF OneSize
    <3>2. row[g] = maps[dict[g]].len
      BY <2>1, <2>4, <3>1 DEF OneSize
    <3> QED
      BY <2>3, <3>1, <3>2
  <2>6. \A b \in Addresses \ {d.addr} : maps'[b] = maps[b]
    BY <2>2, <2>5, MunmapFacts
  <2>7. ASSUME NEW f \in Files, dict'[f] # 0, ~Deleting(f)'
        PROVE  maps'[dict'[f]].left = maps'[dict'[f]].len
    <3>1. ~Deleting(f) /\ f # g
      BY <1>2, <2>3, <2>7 DEF Deleting
    <3>2. dict[f] \in Addresses \ {d.addr}
      BY <1>2, <1>4, <2>3, <2>4, <2>7, <3>1 DEF Stored
    <3> QED
      BY <1>2, <2>1, <2>6, <2>7, <3>1, <3>2 DEF Whole
  <2>8. ASSUME NEW u \in Threads, Brings(u)'
        PROVE  maps'[reg'[u]].left = maps'[reg'[u]].len
    <3>1. reg[u] \in Addresses \ {d.addr}
      BY <1>6, <2>3, <2>4, <2>8 DEF Brought
    <3> QED
      BY <1>2, <1>6, <2>1, <2>6, <2>8, <3>1 DEF Whole
  <2> QED
    BY <2>1, <2>2, <2>7, <2>8 DEF Whole
<1> QED
  BY <1>1, <1>7, <1>8, <1>9, <1>10, <1>11, <1>12

(* The initial state has no mapping, and the monitor's own thread changes  *)
(* the idle memory only.                                                   *)
LEMMA InitKeeps == Init => StoredInv
<1> SUFFICES ASSUME Init PROVE StoredInv
  OBVIOUS
<1>1. TypeInv
  BY InitType
<1>2. Locked
  BY MonitorAssumption DEF Init, Locked, Nobody
<1>3. Stored /\ Brought
  BY DEF Init, Stored, Brought, Brings
<1>4. OneSize /\ Undertaken /\ Whole
  BY DEF Init, OneSize, Undertaken, Whole, Works, Brings
<1> QED
  BY <1>1, <1>2, <1>3, <1>4 DEF StoredInv, ShapeInv

LEMMA IdleKeeps ==
  ASSUME StoredInv, alive' = alive,
         UNCHANGED <<user_limit_, self_total_usage, rw_mutex_, memVars, pc, op, reg, ops, seen>>,
         total_idle' \in 0 .. Word - 1
  PROVE  StoredInv'
<1> USE DEF StoredInv, ShapeInv, memVars
<1>1. TypeInv'
  BY DEF TypeInv, StatType, StoreType, MapType, ThreadType, CountType
<1>2. Locked' /\ Stored'
  BY DEF Locked, Stored
<1>3. Brought'
  BY DEF Brought, Brings
<1>4. OneSize' /\ Undertaken'
  BY DEF OneSize, Undertaken, Works, Never
<1>5. Whole'
  BY DEF Whole, Deleting, Brings, Never
<1> QED
  BY <1>1, <1>2, <1>3, <1>4, <1>5

(* The invariant holds of every reachable state: types, the lock, that no  *)
(* two owners share a mapping, that a file name has one size unless it was *)
(* resized, and that mappings in use are whole.                            *)
THEOREM StoredInvariance == Spec => []StoredInv
<1>1. StoredInv /\ [Next]_vars => StoredInv'
  <2> SUFFICES ASSUME StoredInv, [Next]_vars PROVE StoredInv'
    OBVIOUS
  <2>1. ASSUME UNCHANGED alive, NEW t \in Threads, Step(t) PROVE StoredInv'
    BY <2>1, ThreadKeeps
  <2>2. ASSUME NEW d \in dying, Unmap(d) PROVE StoredInv'
    BY <2>2, UnmapKeeps
  <2>3. CASE UNCHANGED alive /\ Start
    <3>1. total_idle' \in 0 .. Word - 1
      BY <2>3, IdleRange DEF Start, StoredInv, ShapeInv, TypeInv
    <3> QED
      BY <2>3, <3>1, IdleKeeps DEF Start
  <2>4. CASE UNCHANGED vars
    <3>1. total_idle' \in 0 .. Word - 1
      BY <2>4 DEF vars, StoredInv, ShapeInv, TypeInv, StatType
    <3> QED
      BY <2>4, <3>1, IdleKeeps DEF vars, memVars
  <2> QED
    BY <2>1, <2>2, <2>3, <2>4 DEF Next, Rest
<1> QED
  BY <1>1, InitKeeps, PTL DEF Spec

(* The variables keep their types; total_idle and self_total_usage stay    *)
(* words of the machine whatever is added and subtracted without a lock    *)
(* (monitor.cpp:76,96,112).                                                *)
THEOREM TypeCorrect == Spec => []TypeOK
<1>1. StoredInv => TypeOK
  <2> SUFFICES ASSUME StoredInv PROVE TypeOK
    OBVIOUS
  <2> USE DEF StoredInv, ShapeInv, TypeInv
  <2>1. \A a \in Addresses :
          /\ maps[a].len \in Sizes \cup {0} /\ maps[a].fsize \in Sizes \cup {0}
          /\ maps[a].left \in 0 .. maps[a].len /\ maps[a].open \in BOOLEAN
    BY MapRecordFacts DEF Lengths
  <2> QED
    BY <2>1 DEF TypeOK, StatType, StoreType, ThreadType, CountType, Places, Lengths, Irregular
<1> QED
  BY <1>1, StoredInvariance, PTL

(* What the storage lists is mapped in full and no unmapping ends the      *)
(* process, as long as every unmapping thread runs before its map node is  *)
(* erased and no file name changes its size (memfdFree,                    *)
(* monitor.cpp:103-111).                                                   *)
THEOREM StoredCorrect == Spec => []StoredIsMapped
<1>1. StoredInv => StoredIsMapped
  <2>1. ASSUME StoredInv, rw_mutex_ = Nobody PROVE \A f \in Files : ~Deleting(f)
    BY <2>1, MonitorAssumption DEF StoredInv, ShapeInv, Locked, Deleting, Nobody
  <2> QED
    BY <2>1 DEF StoredIsMapped, StoredInv, Whole
<1> QED
  BY <1>1, StoredInvariance, PTL

----------------------------------------------------------------------------
(* The least-number principle, and with it induction over a set of numbers.*)
LEMMA Least ==
  ASSUME NEW T \in SUBSET Nat, NEW n \in T
  PROVE  \E m \in T : \A k \in T : m <= k
<1> DEFINE R == {p \in Nat \X Nat : p[1] < p[2]}
<1>1. IsWellFoundedOn(R, Nat)
  BY NatLessThanWellFounded DEF OpToRel
<1>2. \E m \in T : \A k \in T : <<k, m>> \notin R
  <2> HIDE DEF R
  <2> QED
    BY <1>1, WFMin
<1>3. PICK m \in T : \A k \in T : <<k, m>> \notin R
  BY <1>2
<1>4. ASSUME NEW k \in T PROVE m <= k
  <2>1. m \in Nat /\ k \in Nat /\ ~(k < m)
    BY <1>3
  <2> QED
    BY <2>1
<1> QED
  BY <1>4

(* Induction over the natural numbers, for the set that has the property.  *)
LEMMA Induct ==
  ASSUME NEW T \in SUBSET Nat, 0 \in T, \A n \in T : n + 1 \in T
  PROVE  T = Nat
<1> SUFFICES ASSUME NEW n \in Nat, n \notin T PROVE FALSE
  OBVIOUS
<1>1. PICK m \in Nat \ T : \A k \in Nat \ T : m <= k
  BY Least
<1>2. m # 0 /\ m - 1 \in Nat
  BY <1>1
<1>3. m - 1 \in T
  BY <1>1, <1>2
<1> QED
  BY <1>1, <1>3

(* A sum over S as MapThenSumSet computes it: the function that sums every *)
(* subset by taking one element out.                                       *)
Pick(s) == CHOOSE x \in s : TRUE
Rec(f, g, D) == g = [s \in D |-> IF s = {} THEN 0 ELSE f[Pick(s)] + g[s \ {Pick(s)}]]

(* Sum is the function chosen by MapThenSumSet, at S.                      *)
LEMMA SumIs ==
  ASSUME NEW f, NEW S
  PROVE  Sum(f, S) = (CHOOSE g : Rec(f, g, SUBSET S))[S]
  BY DEF Sum, MapThenSumSet, MapThenFoldSet, Rec, Pick

(* Induction over the subsets of a finite set, one element at a time.      *)
LEMMA SubsetInduct ==
  ASSUME NEW S, IsFiniteSet(S), NEW T \in SUBSET (SUBSET S), {} \in T,
         \A s \in SUBSET S : s # {} /\ s \ {Pick(s)} \in T => s \in T
  PROVE  T = SUBSET S
<1> SUFFICES ASSUME NEW w \in SUBSET S, w \notin T PROVE FALSE
  OBVIOUS
<1>1. IsWellFoundedOn(StrictSubsetOrdering(S), SUBSET S)
  <2>1. FiniteSubsetsOf(S) = SUBSET S
    BY FS_FiniteSubsetsOfFinite
  <2>2. IsWellFoundedOn(StrictSubsetOrdering(S), FiniteSubsetsOf(S))
    BY FS_StrictSubsetOrderingWellFounded
  <2> QED
    BY <2>1, <2>2
<1> DEFINE B == (SUBSET S) \ T
<1>2. \E s \in B : \A u \in B : <<u, s>> \notin StrictSubsetOrdering(S)
  <2>1. B \subseteq SUBSET S /\ B # {}
    OBVIOUS
  <2> HIDE DEF B
  <2> QED
    BY <1>1, <2>1, WFMin
<1>3. PICK s \in B : \A u \in B : <<u, s>> \notin StrictSubsetOrdering(S)
  BY <1>2
<1>4. s # {} /\ Pick(s) \in s
  BY <1>3 DEF Pick
<1>5. s \ {Pick(s)} \notin T
  BY <1>3, <1>4
<1>6. <<s \ {Pick(s)}, s>> \in StrictSubsetOrdering(S)
  BY <1>4 DEF StrictSubsetOrdering
<1> QED
  BY <1>3, <1>5, <1>6

(* The function exists: for the subsets of at most n elements by induction *)
(* on n, and S has no others if n is its cardinality.                      *)
Small(S, n) == {s \in SUBSET S : Cardinality(s) <= n}

LEMMA RecExists ==
  ASSUME NEW f, NEW S, IsFiniteSet(S)
  PROVE  \E g : Rec(f, g, SUBSET S)
<1> DEFINE T == {n \in Nat : \E g : Rec(f, g, Small(S, n))}
<1>0. \A s \in SUBSET S : /\ IsFiniteSet(s) /\ Cardinality(s) \in Nat
                          /\ Cardinality(s) <= Cardinality(S)
  BY FS_Subset, FS_CardinalityType
<1>1. 0 \in T
  <2> DEFINE g == [s \in Small(S, 0) |-> 0]
  <2>1. \A s \in Small(S, 0) : s = {}
    BY <1>0, FS_EmptySet DEF Small
  <2>2. g = [s \in Small(S, 0) |-> IF s = {} THEN 0 ELSE f[Pick(s)] + g[s \ {Pick(s)}]]
    BY <2>1
  <2> QED
    BY <2>2 DEF Rec
<1>2. ASSUME NEW n \in T PROVE n + 1 \in T
  <2>1. PICK g : Rec(f, g, Small(S, n))
    OBVIOUS
  <2> DEFINE h == [s \in Small(S, n + 1) |->
                     IF s = {} THEN 0 ELSE f[Pick(s)] + g[s \ {Pick(s)}]]
  <2>2. \A s \in Small(S, n + 1) : s # {} => s \ {Pick(s)} \in Small(S, n)
    <3> SUFFICES ASSUME NEW s \in Small(S, n + 1), s # {}
                 PROVE  s \ {Pick(s)} \in Small(S, n)
      OBVIOUS
    <3>1. Pick(s) \in s /\ s \in SUBSET S /\ Cardinality(s) <= n + 1
      BY DEF Pick, Small
    <3>2. Cardinality(s \ {Pick(s)}) = Cardinality(s) - 1
      BY <1>0, <3>1, FS_RemoveElement
    <3> QED
      BY <1>0, <3>1, <3>2 DEF Small
  <2>3. \A s \in Small(S, n) : s \in Small(S, n + 1) /\ h[s] = g[s]
    <3>1. \A s \in Small(S, n) : s \in Small(S, n + 1)
      BY <1>0 DEF Small
    <3>2. \A s \in Small(S, n) : g[s] = IF s = {} THEN 0 ELSE f[Pick(s)] + g[s \ {Pick(s)}]
      BY <2>1 DEF Rec
    <3> QED
      BY <3>1, <3>2
  <2>4. h = [s \in Small(S, n + 1) |->
               IF s = {} THEN 0 ELSE f[Pick(s)] + h[s \ {Pick(s)}]]
    <3> HIDE DEF h
    <3>1. \A s \in Small(S, n + 1) : s # {} => h[s \ {Pick(s)}] = g[s \ {Pick(s)}]
      BY <2>2, <2>3
    <3> QED
      BY <3>1 DEF h
  <2> QED
    <3> HIDE DEF h
    <3>1. Rec(f, h, Small(S, n + 1))
      BY <2>4 DEF Rec
    <3> QED
      BY <3>1
<1>3. T = Nat
  <2> HIDE DEF T
  <2>1. T \in SUBSET Nat
    BY DEF T
  <2> QED
    BY <1>1, <1>2, <2>1, Induct
<1>4. Small(S, Cardinality(S)) = SUBSET S /\ Cardinality(S) \in Nat
  BY <1>0, FS_CardinalityType DEF Small
<1> QED
  <2>1. Cardinality(S) \in T
    BY <1>3, <1>4
  <2>2. \E g : Rec(f, g, Small(S, Cardinality(S)))
    BY <2>1
  <2> QED
    BY <1>4, <2>2

(* Sum obeys the recursion it is defined by.                               *)
LEMMA SumRec ==
  ASSUME NEW f, NEW S, IsFiniteSet(S)
  PROVE  \E g : Rec(f, g, SUBSET S) /\ Sum(f, S) = g[S]
<1>1. Rec(f, CHOOSE g : Rec(f, g, SUBSET S), SUBSET S)
  BY RecExists
<1> QED
  BY <1>1, SumIs

(* A sum of natural numbers is one; a sum of zeros is zero.                *)
LEMMA SumType ==
  ASSUME NEW S, IsFiniteSet(S), NEW f, \A x \in S : f[x] \in Nat
  PROVE  Sum(f, S) \in Nat
<1>1. PICK g : Rec(f, g, SUBSET S) /\ Sum(f, S) = g[S]
  BY SumRec
<1> DEFINE T == {s \in SUBSET S : g[s] \in Nat}
<1>2. \A s \in SUBSET S : g[s] = IF s = {} THEN 0 ELSE f[Pick(s)] + g[s \ {Pick(s)}]
  BY <1>1 DEF Rec
<1>3. {} \in T
  BY <1>2
<1>4. \A s \in SUBSET S : s # {} /\ s \ {Pick(s)} \in T => s \in T
  BY <1>2 DEF Pick
<1>5. T = SUBSET S
  <2>1. T \in SUBSET (SUBSET S)
    OBVIOUS
  <2> HIDE DEF T
  <2> QED
    BY <1>3, <1>4, <2>1, SubsetInduct
<1> QED
  BY <1>1, <1>5

LEMMA SumZero ==
  ASSUME NEW S, IsFiniteSet(S), NEW f, \A x \in S : f[x] = 0
  PROVE  Sum(f, S) = 0
<1>1. PICK g : Rec(f, g, SUBSET S) /\ Sum(f, S) = g[S]
  BY SumRec
<1> DEFINE T == {s \in SUBSET S : g[s] = 0}
<1>2. \A s \in SUBSET S : g[s] = IF s = {} THEN 0 ELSE f[Pick(s)] + g[s \ {Pick(s)}]
  BY <1>1 DEF Rec
<1>3. {} \in T
  BY <1>2
<1>4. \A s \in SUBSET S : s # {} /\ s \ {Pick(s)} \in T => s \in T
  BY <1>2 DEF Pick
<1>5. T = SUBSET S
  <2>1. T \in SUBSET (SUBSET S)
    OBVIOUS
  <2> HIDE DEF T
  <2> QED
    BY <1>3, <1>4, <2>1, SubsetInduct
<1> QED
  BY <1>1, <1>5

(* Two functions that differ at one element have sums that differ by that. *)
LEMMA SumChange ==
  ASSUME NEW S, IsFiniteSet(S), NEW e, NEW f, NEW h,
         \A x \in S : f[x] \in Nat /\ h[x] \in Nat /\ (x # e => h[x] = f[x])
  PROVE  Sum(h, S) = Sum(f, S) + (IF e \in S THEN h[e] - f[e] ELSE 0)
<1>1. PICK F : Rec(f, F, SUBSET S) /\ Sum(f, S) = F[S]
  BY SumRec
<1>2. PICK H : Rec(h, H, SUBSET S) /\ Sum(h, S) = H[S]
  BY SumRec
<1> DEFINE T == {s \in SUBSET S : /\ F[s] \in Int
                                  /\ H[s] = F[s] + (IF e \in s THEN h[e] - f[e] ELSE 0)}
<1>3. \A s \in SUBSET S : F[s] = IF s = {} THEN 0 ELSE f[Pick(s)] + F[s \ {Pick(s)}]
  BY <1>1 DEF Rec
<1>4. \A s \in SUBSET S : H[s] = IF s = {} THEN 0 ELSE h[Pick(s)] + H[s \ {Pick(s)}]
  BY <1>2 DEF Rec
<1>5. {} \in T
  <2>1. F[{}] = 0 /\ H[{}] = 0
    BY <1>3, <1>4
  <2> QED
    BY <2>1
<1>6. \A s \in SUBSET S : s # {} /\ s \ {Pick(s)} \in T => s \in T
  <2> SUFFICES ASSUME NEW s \in SUBSET S, s # {}, s \ {Pick(s)} \in T PROVE s \in T
    OBVIOUS
  <2>1. Pick(s) \in s /\ Pick(s) \in S
    BY DEF Pick
  <2>2. F[s] = f[Pick(s)] + F[s \ {Pick(s)}] /\ H[s] = h[Pick(s)] + H[s \ {Pick(s)}]
    BY <1>3, <1>4
  <2>3. CASE Pick(s) = e
    BY <2>1, <2>2, <2>3
  <2>4. CASE Pick(s) # e
    BY <2>1, <2>2, <2>4
  <2> QED
    BY <2>3, <2>4
<1>7. T = SUBSET S
  <2>1. T \in SUBSET (SUBSET S)
    OBVIOUS
  <2> HIDE DEF T
  <2> QED
    BY <1>5, <1>6, <2>1, SubsetInduct
<1> QED
  BY <1>1, <1>2, <1>7

(* Division with remainder by the machine word.                            *)
LEMMA DivMod ==
  ASSUME NEW x \in Int
  PROVE  /\ x \div Word \in Int /\ x % Word \in Int
         /\ x = Word * (x \div Word) + (x % Word) /\ 0 <= x % Word /\ x % Word < Word
  BY SizeFacts, Z3

(* The remainder is the only one.                                          *)
LEMMA Unique ==
  ASSUME NEW q \in Int, NEW p \in Int, NEW r \in Int, NEW s \in Int,
         Word * q + r = Word * p + s, 0 <= r, r < Word, 0 <= s, s < Word
  PROVE  r = s
<1>0. Word \in Int /\ Word > 0
  BY SizeFacts
<1>1. Word * (q - p) = s - r
  BY <1>0, Z3
<1>2. ASSUME q - p >= 1 PROVE FALSE
  <2>1. Word * (q - p) >= Word
    BY <1>0, <1>2, Z3
  <2> QED
    BY <1>0, <1>1, <2>1
<1>3. ASSUME q - p <= -1 PROVE FALSE
  <2>1. Word * (q - p) <= -Word
    BY <1>0, <1>3, Z3
  <2> QED
    BY <1>0, <1>1, <2>1
<1>4. q = p
  BY <1>2, <1>3
<1> QED
  BY <1>0, <1>1, <1>4, Z3

(* Wrapping around before an addition or after it makes no difference.     *)
LEMMA ModAdd == ASSUME NEW x \in Int, NEW n \in Int
  PROVE ((x % Word) + n) % Word = (x + n) % Word
<1> DEFINE a == x % Word
           b == a + n
<1>1. a \in Int /\ x \div Word \in Int /\ x = Word * (x \div Word) + a
  BY DivMod
<1>2. b \in Int /\ x + n \in Int
  BY <1>1
<1>3. /\ b \div Word \in Int /\ b % Word \in Int /\ b = Word * (b \div Word) + (b % Word)
      /\ 0 <= b % Word /\ b % Word < Word
  BY <1>2, DivMod
<1>4. /\ (x + n) \div Word \in Int /\ (x+n) % Word \in Int
      /\ x + n = Word * ((x + n) \div Word) + ((x + n) % Word)
      /\ 0 <= (x + n) % Word /\ (x + n) % Word < Word
  BY <1>2, DivMod
<1> DEFINE k == x \div Word
           m == b \div Word
           r == b % Word
           p == (x + n) \div Word
           s == (x + n) % Word
<1>5. Word * (k + m) + r = Word * p + s
  <2>1. x + n = Word * k + b
    BY <1>1, SizeFacts
  <2> HIDE DEF k, b, m, r, p, s
  <2>2. /\ k \in Int /\ m \in Int /\ r \in Int /\ p \in Int /\ s \in Int
        /\ b = Word * m + r /\ x + n = Word * p + s
    BY <1>1, <1>3, <1>4 DEF k, b, m, r, p, s
  <2>3. Word * (k + m) = Word * k + Word * m
    BY <2>2, SizeFacts, Z3
  <2>4. Word * k \in Int /\ Word * m \in Int /\ Word * p \in Int
    BY <2>2, SizeFacts
  <2> QED
    BY <2>1, <2>2, <2>3, <2>4
<1> HIDE DEF k, b, m, r, p, s
<1>6. r = s
  <2>1. /\ k + m \in Int /\ p \in Int /\ r \in Int /\ s \in Int
        /\ 0 <= r /\ r < Word /\ 0 <= s /\ s < Word
    BY <1>1, <1>3, <1>4 DEF k, m, p, r, s
  <2> QED
    BY <1>5, <2>1, Unique
<1> QED
  BY <1>6 DEF r, s, b, a

(* A word is its own remainder.                                            *)
LEMMA SmallMod ==
  ASSUME NEW x \in Int, 0 <= x, x < Word
  PROVE  x % Word = x
<1>1. /\ x \div Word \in Int /\ x % Word \in Int
      /\ x = Word * (x \div Word) + (x % Word) /\ 0 <= x % Word /\ x % Word < Word
  BY DivMod
<1> DEFINE q == x \div Word
           r == x % Word
<1>2. Word * q + r = Word * 0 + x
  <2>1. Word * 0 = 0
    BY SizeFacts
  <2> HIDE DEF q, r
  <2>2. q \in Int /\ r \in Int /\ x = Word * q + r /\ Word * q \in Int
    BY <1>1, SizeFacts DEF q, r
  <2> QED
    BY <2>1, <2>2
<1> HIDE DEF q, r
<1>3. q \in Int /\ r \in Int /\ 0 <= r /\ r < Word /\ 0 \in Int
  BY <1>1 DEF q, r
<1>4. r = x
  BY <1>2, <1>3, Unique
<1> QED
  BY <1>4 DEF r

----------------------------------------------------------------------------
(* What a thread has counted and holds no memory for: before its memfd is  *)
(* made, and after the memfd it deletes is closed.                         *)
Pending == [t \in Threads |-> IF pc[t] \in {"calloc", "deleting"} THEN op[t].size ELSE 0]

(* Sums range over finite sets of natural numbers.                         *)
LEMMA Finite == IsFiniteSet(Files) /\ IsFiniteSet(Threads) /\ IsFiniteSet(Addresses)
  BY MonitorAssumption, SizeFacts, FS_Interval DEF Addresses

LEMMA DictRange ==
  ASSUME TypeInv, NEW f \in Files, dict[f] # 0
  PROVE  dict[f] \in Addresses /\ dict[f] # 0
  BY SizeFacts DEF TypeInv, StoreType, Addresses

(* All summands are natural numbers, before and after a step.              *)
Naturals ==
  /\ \A f \in Files : Listed[f] \in Nat
  /\ \A t \in Threads : Coming[t] \in Nat /\ Pending[t] \in Nat
  /\ \A a \in Addresses : InUse[a] \in Nat

LEMMA Summands == TypeInv => Naturals
<1> SUFFICES ASSUME TypeInv PROVE Naturals
  OBVIOUS
<1>1. ASSUME NEW f \in Files PROVE Listed[f] \in Nat
  <2>1. dict[f] # 0 => maps[dict[f]].len \in Nat
    BY DictRange, MapRecordFacts DEF TypeInv
  <2> QED
    BY <2>1 DEF Listed, SizeAt
<1>2. ASSUME NEW t \in Threads PROVE Coming[t] \in Nat /\ Pending[t] \in Nat
  <2>1. pc[t] # "idle" => op[t].size \in Nat
    BY OpFacts, SizeFacts DEF TypeInv
  <2> QED
    BY <2>1 DEF Coming, Pending
<1>3. ASSUME NEW a \in Addresses PROVE InUse[a] \in Nat
  <2>1. maps[a].fsize \in Nat
    BY MapRecordFacts, SizeFacts DEF TypeInv
  <2> QED
    BY <2>1 DEF InUse
<1> QED
  BY <1>1, <1>2, <1>3 DEF Naturals

LEMMA SummandsNext == TypeInv' => Naturals'
  BY Summands, PTL

(* A thread's step changes its own summand only.                           *)
LEMMA ThreadSums ==
  ASSUME TypeInv, TypeInv', NEW t \in Threads, Others(t)
  PROVE  /\ Sum(Coming', Threads) = Sum(Coming, Threads) + (Coming'[t] - Coming[t])
         /\ Sum(Pending', Threads) = Sum(Pending, Threads) + (Pending'[t] - Pending[t])
<1>1. \A u \in Threads : u # t => Coming'[u] = Coming[u] /\ Pending'[u] = Pending[u]
  BY DEF Others, Coming, Pending
<1>2. \A u \in Threads : Coming'[u] \in Nat /\ Coming[u] \in Nat
                         /\ Pending'[u] \in Nat /\ Pending[u] \in Nat
  BY Summands, SummandsNext DEF Naturals
<1> QED
  BY <1>1, <1>2, Finite, SumChange

(* Any step of a thread leaves the others and the lengths of mappings, and *)
(* what was seen stays seen.                                               *)
LEMMA StepFrame ==
  ASSUME TypeInv, NEW t \in Threads, Step(t)
  PROVE  /\ Others(t) /\ seen \subseteq seen'
         /\ \A a \in Addresses : maps[a].len # 0 => maps'[a].len = maps[a].len
         /\ user_limit_' = user_limit_
<1>1. ASSUME Quiet(t)
      PROVE  /\ Others(t) /\ seen \subseteq seen'
             /\ \A a \in Addresses : maps'[a].len = maps[a].len
  BY <1>1 DEF Quiet
<1>2. ASSUME NEW k \in OpKinds, NEW f \in Files, NEW n \in Sizes, Begin(t, k, f, n)
      PROVE  Others(t) /\ seen \subseteq seen' /\ maps' = maps
  BY <1>2, BeginFacts
<1>3. ASSUME MemfdCalloc(t)
      PROVE  /\ Others(t) /\ seen \subseteq seen'
             /\ \A a \in Addresses : maps[a].len # 0 => maps'[a].len = maps[a].len
  BY <1>3, CallocFacts
<1>4. ASSUME Save(t) \/ SaveRow(t) \/ Erase(t)
      PROVE  Others(t) /\ seen \subseteq seen' /\ maps' = maps
  <2>1. PICK l \in Places : Goes(t, l)
    BY <1>4 DEF Save, SaveRow, Erase, Places
  <2>2. reg' = reg \/ \E x : reg' = [reg EXCEPT ![t] = x]
    BY <1>4 DEF Save, SaveRow, Erase
  <2>3. seen \subseteq seen' /\ maps' = maps
    BY <1>4, NotesFacts DEF Save, SaveRow, Erase
  <2> QED
    BY <2>1, <2>2, <2>3, OthersFacts
<1>5. ASSUME Delete(t), dict[op[t].file] # 0
      PROVE  /\ Others(t) /\ seen \subseteq seen'
             /\ \A a \in Addresses : maps'[a].len = maps[a].len
  <2>1. Goes(t, "deleting") /\ reg' = [reg EXCEPT ![t] = self_total_usage]
    BY <1>5 DEF Delete
  <2>2. Others(t) /\ seen \subseteq seen'
    BY <1>5, <2>1, OthersFacts, NotesFacts DEF Delete, Places
  <2>3. dict[op[t].file] \in Addresses
    BY <1>5, OpFacts, DictRange DEF Delete, TypeInv
  <2>4. maps' = [maps EXCEPT ![dict[op[t].file]].open = FALSE]
    BY <1>5 DEF Delete
  <2>5. ASSUME NEW a \in Addresses PROVE maps'[a].len = maps[a].len
    <3>1. maps[a] \in MapRecord /\ maps \in [Addresses -> MapRecord]
      BY DEF TypeInv, MapType
    <3> QED
      BY <2>3, <2>4, <3>1 DEF MapRecord
  <2> QED
    BY <2>2, <2>5
<1>6. user_limit_' = user_limit_
  BY DEF Step, Begin, GetMemoryStat, Load, MemfdFtruncate, CollectMetric, Enough, ReadUsage,
         AddUsage, MemfdCalloc, MemfdCallocFails, ReadFile, Save, SaveRow, Delete, Erase,
         statVars
<1> QED
  BY <1>1, <1>2, <1>3, <1>4, <1>5, <1>6, QuietStep DEF Step

(* What is read of the usage to be changed is the usage, unless somebody   *)
(* else is about to change it.                                             *)
ReadIsUsage ==
  Never({"torn"}) =>
    \A t \in Threads : Counting(t) =>
      reg[t] = self_total_usage /\ \A u \in Threads : Counting(u) => u = t

(* Reading notes "torn" if somebody else is between its read and write.    *)
LEMMA ReadKept ==
  ASSUME StoredInv, ReadIsUsage, NEW t \in Threads, Step(t)
  PROVE  ReadIsUsage'
<1> SUFFICES ASSUME Never({"torn"})'
             PROVE  \A u \in Threads : Counting(u)' =>
                      /\ reg'[u] = self_total_usage'
                      /\ \A v \in Threads : Counting(v)' => v = u
  BY DEF ReadIsUsage
<1>0. TypeInv /\ Locked
  BY DEF StoredInv, ShapeInv
<1>1. Others(t) /\ seen \subseteq seen'
  BY <1>0, StepFrame
<1>2. Never({"torn"})
  BY <1>1 DEF Never
<1>3. \A u \in Threads \ {t} : (Counting(u)' <=> Counting(u)) /\ reg'[u] = reg[u]
  BY <1>1 DEF Others, Counting
<1>4. CASE self_total_usage' = self_total_usage /\ ~Counting(t)'
  BY <1>2, <1>3, <1>4 DEF ReadIsUsage
<1>5. CASE AddUsage(t) \/ Erase(t)
  <2>1. Counting(t) /\ ~Counting(t)'
    <3>1. Counting(t)
      BY <1>5 DEF AddUsage, Erase, Counting
    <3>2. \E l \in {"calloc", "idle"} : Goes(t, l)
      BY <1>5 DEF AddUsage, Erase
    <3> QED
      BY <1>0, <3>1, <3>2 DEF Goes, Counting, TypeInv, ThreadType
  <2>2. \A u \in Threads \ {t} : ~Counting(u)
    BY <1>2, <2>1 DEF ReadIsUsage
  <2> QED
    BY <1>3, <2>1, <2>2
<1>6. CASE ReadUsage(t) \/ (Delete(t) /\ dict[op[t].file] # 0)
  <2>1. ~\E u \in Threads : Counting(u)
    BY <1>6 DEF ReadUsage, Delete, Notes, Never
  <2>2. reg' = [reg EXCEPT ![t] = self_total_usage] /\ self_total_usage' = self_total_usage
    BY <1>6 DEF ReadUsage, Delete, statVars
  <2>3. reg'[t] = self_total_usage'
    BY <1>0, <2>2 DEF TypeInv, ThreadType
  <2> QED
    BY <1>3, <2>1, <2>3
<1>7. CASE \E k \in OpKinds, f \in Files, n \in Sizes : Begin(t, k, f, n)
  BY <1>0, <1>4, <1>7, BeginFacts DEF Begin, Counting, TypeInv, ThreadType, statVars, OpKinds
<1>8. CASE \/ GetMemoryStat(t) \/ Load(t) \/ MemfdFtruncate(t) \/ CollectMetric(t) \/ Enough(t)
           \/ MemfdCalloc(t) \/ MemfdCallocFails(t) \/ ReadFile(t) \/ Save(t) \/ SaveRow(t)
           \/ (Delete(t) /\ dict[op[t].file] = 0)
  <2>1. \E l \in Places \ {"added", "deleting"} : Goes(t, l)
    BY <1>8 DEF GetMemoryStat, Load, MemfdFtruncate, CollectMetric, Enough, MemfdCalloc,
         MemfdCallocFails, ReadFile, Save, SaveRow, Delete, Places
  <2>2. ~Counting(t)'
    BY <1>0, <2>1 DEF Goes, Counting, TypeInv, ThreadType
  <2>3. self_total_usage' = self_total_usage
    BY <1>8 DEF GetMemoryStat, Load, MemfdFtruncate, CollectMetric, Enough, MemfdCalloc,
         MemfdCallocFails, ReadFile, Save, SaveRow, Delete, statVars
  <2> QED
    BY <1>4, <2>2, <2>3
<1> QED
  BY <1>5, <1>6, <1>7, <1>8 DEF Step

(* What is being deleted is still listed.                                  *)
Held == \A t \in Threads : pc[t] = "deleting" => dict[op[t].file] # 0

(* Only the thread that holds the lock erases, and nothing is saved        *)
(* meanwhile.                                                              *)
LEMMA HeldKept ==
  ASSUME StoredInv, Held, NEW t \in Threads, Step(t)
  PROVE  Held'
<1> SUFFICES ASSUME NEW u \in Threads, pc'[u] = "deleting" PROVE dict'[op'[u].file] # 0
  BY DEF Held
<1>0. TypeInv /\ Locked
  BY DEF StoredInv, ShapeInv
<1>1. Others(t)
  BY <1>0, StepFrame
<1>2. CASE Save(t) \/ Erase(t)
  <2>1. u # t
    <3>1. \E l \in {"row", "idle"} : Goes(t, l)
      BY <1>2 DEF Save, Erase
    <3> QED
      BY <1>0, <3>1 DEF Goes, TypeInv, ThreadType
  <2>2. pc[u] = "deleting"
    BY <1>1, <2>1 DEF Others
  <2> QED
    BY <1>0, <1>2, <2>1, <2>2, MonitorAssumption DEF Save, Erase, Locked, Nobody
<1>3. CASE Delete(t) /\ dict[op[t].file] # 0
  <2>1. dict' = dict /\ op' = op
    BY <1>3 DEF Delete, Goes
  <2>2. u # t => pc[u] = "deleting"
    BY <1>1 DEF Others
  <2> QED
    BY <1>3, <2>1, <2>2 DEF Held
<1>4. CASE dict' = dict /\ pc'[t] # "deleting"
  BY <1>1, <1>4 DEF Held, Others
<1>5. CASE \E k \in OpKinds, f \in Files, n \in Sizes : Begin(t, k, f, n)
  BY <1>0, <1>4, <1>5, BeginFacts
<1>6. CASE Quiet(t)
  BY <1>4, <1>6 DEF Quiet
<1>7. CASE MemfdCalloc(t) \/ SaveRow(t)
  <2>1. dict' = dict /\ \E l \in {"read", "save", "idle"} : Goes(t, l)
    BY <1>7 DEF MemfdCalloc, SaveRow
  <2> QED
    BY <1>0, <1>4, <2>1 DEF Goes, TypeInv, ThreadType
<1> QED
  BY <1>0, <1>2, <1>3, <1>5, <1>6, <1>7, QuietStep DEF Step

(* The storage's sum changes with the entry of one file.                   *)
LEMMA ListedSum ==
  ASSUME TypeInv, TypeInv', NEW f \in Files,
         \A g \in Files \ {f} : dict'[g] = dict[g],
         \A g \in Files \ {f} : dict[g] # 0 => maps'[dict[g]].len = maps[dict[g]].len
  PROVE  Sum(Listed', Files) = Sum(Listed, Files) + (Listed'[f] - Listed[f])
<1>1. \A g \in Files : g # f => Listed'[g] = Listed[g]
  BY DEF Listed, SizeAt
<1>2. \A g \in Files : Listed'[g] \in Nat /\ Listed[g] \in Nat
  BY Summands, SummandsNext DEF Naturals
<1> QED
  BY <1>1, <1>2, Finite, SumChange

(* Without a change of the storage its sum stays.                          *)
LEMMA ListedSame ==
  ASSUME TypeInv, dict' = dict,
         \A g \in Files : dict[g] # 0 => maps'[dict[g]].len = maps[dict[g]].len
  PROVE  Listed' = Listed
  BY DEF Listed, SizeAt

(* A thread's operation has the size of what is stored for its file.       *)
LEMMA StoredSize ==
  ASSUME StoredInv, Never({"resized"}), NEW t \in Threads, pc[t] # "idle",
         dict[op[t].file] # 0
  PROVE  maps[dict[op[t].file]].len = op[t].size
<1> DEFINE f == op[t].file
<1>1. f \in Files /\ Works(t, f)
  BY OpFacts DEF Works, StoredInv, ShapeInv, TypeInv
<1>2. maps[dict[f]].len # 0
  BY <1>1 DEF StoredInv, ShapeInv, Stored
<1>3. CASE row[f] = maps[dict[f]].len
  BY <1>1, <1>2, <1>3 DEF StoredInv, OneSize
<1>4. CASE \E u \in Threads :
             pc[u] = "row" /\ op[u].file = f /\ op[u].size = maps[dict[f]].len
  BY <1>1, <1>4 DEF StoredInv, OneSize, Works
<1> QED
  BY <1>1, <1>3, <1>4 DEF StoredInv, OneSize

(* The accounting is exact, whatever has happened.                         *)
Exact == self_total_usage = (Sum(Listed, Files) + Sum(Coming, Threads)) % Word

(* All four sums are natural numbers.                                      *)
LEMMA SumsAreNat ==
  ASSUME TypeInv
  PROVE  Sum(Listed, Files) \in Nat /\ Sum(Coming, Threads) \in Nat /\ Sum(Pending, Threads) \in Nat
         /\ Sum(InUse, Addresses) \in Nat
  BY Summands, SumType, Finite DEF Naturals

(* The accounting stays exact when a thread moves.                         *)
LEMMA ExactKept ==
  ASSUME StoredInv, StoredInv', ReadIsUsage, Held, UsageExact, NEW t \in Threads, Step(t)
  PROVE  UsageExact'
<1> SUFFICES ASSUME Never({"torn", "failed", "replaced", "resized"})' PROVE Exact'
  BY DEF UsageExact, Exact
<1>0. TypeInv /\ TypeInv'
  BY DEF StoredInv, ShapeInv
<1>1. /\ Others(t) /\ seen \subseteq seen'
      /\ \A a \in Addresses : maps[a].len # 0 => maps'[a].len = maps[a].len
  BY <1>0, StepFrame
<1>2. Never({"torn"}) /\ Never({"resized"}) /\ Never({"torn", "failed", "replaced", "resized"})
      /\ "failed" \notin seen' /\ "replaced" \notin seen'
  BY <1>1 DEF Never
<1>3. Exact
  BY <1>2 DEF UsageExact, Exact
<1>4. \A f \in Files : dict[f] # 0 => maps'[dict[f]].len = maps[dict[f]].len
  BY <1>0, <1>1, DictRange DEF StoredInv, ShapeInv, Stored
<1>5. Sum(Coming', Threads) = Sum(Coming, Threads) + (Coming'[t] - Coming[t])
      /\ Coming'[t] \in Nat /\ Coming[t] \in Nat
  BY <1>0, <1>1, ThreadSums, Summands, SummandsNext DEF Naturals
<1>6. Sum(Listed, Files) \in Nat /\ Sum(Coming, Threads) \in Nat
  BY <1>0, SumsAreNat
<1> DEFINE A == Sum(Listed, Files)
           B == Sum(Coming, Threads)
<1>7. CASE self_total_usage' = self_total_usage /\ dict' = dict /\ Coming'[t] = Coming[t]
  <2>1. Sum(Listed', Files) = Sum(Listed, Files)
    BY <1>0, <1>4, <1>7, ListedSame
  <2>2. Sum(Coming', Threads) = Sum(Coming, Threads)
    BY <1>5, <1>6, <1>7
  <2> QED
    BY <1>3, <1>7, <2>1, <2>2 DEF Exact
<1>8. CASE AddUsage(t)
  <2>1. pc[t] = "added" /\ Goes(t, "calloc") /\ dict' = dict
        /\ self_total_usage' = (reg[t] + op[t].size) % Word
    BY <1>8 DEF AddUsage, memVars
  <2>2. reg[t] = self_total_usage /\ op[t].size \in Nat
    BY <1>0, <1>2, <2>1, OpFacts, SizeFacts DEF ReadIsUsage, Counting, TypeInv
  <2>3. Coming[t] = 0 /\ Coming'[t] = op[t].size
    BY <1>0, <2>1 DEF Coming, Goes, TypeInv, ThreadType
  <2>4. Sum(Listed', Files) = A /\ Sum(Coming', Threads) = B + op[t].size
    BY <1>0, <1>4, <1>5, <1>6, <2>1, <2>2, <2>3, ListedSame
  <2>5. self_total_usage' = ((A + B) + op[t].size) % Word
    <3>1. A + B \in Int /\ op[t].size \in Int
      BY <1>6, <2>2
    <3>2. self_total_usage' = (((A + B) % Word) + op[t].size) % Word
      BY <1>3, <2>1, <2>2 DEF Exact
    <3> HIDE DEF A, B
    <3> QED
      BY <3>1, <3>2, ModAdd
  <2>6. (A + B) + op[t].size = A + (B + op[t].size)
    BY <1>6, <2>2
  <2> QED
    BY <2>4, <2>5, <2>6 DEF Exact
<1>9. CASE Erase(t)
  <2> DEFINE f == op[t].file
             n == op[t].size
  <2>1. pc[t] = "deleting" /\ Goes(t, "idle") /\ dict' = [dict EXCEPT ![f] = 0]
        /\ self_total_usage' = (reg[t] - n) % Word
    BY <1>9 DEF Erase
  <2>2. reg[t] = self_total_usage /\ n \in Nat /\ f \in Files
    BY <1>0, <1>2, <2>1, OpFacts, SizeFacts DEF ReadIsUsage, Counting, TypeInv
  <2>3. Coming[t] = 0 /\ Coming'[t] = 0
    BY <1>0, <2>1 DEF Coming, Goes, TypeInv, ThreadType
  <2>4. dict[f] # 0 => Listed[f] = n
    BY <1>2, <2>1, <2>2, StoredSize DEF Listed, SizeAt
  <2>5. dict[f] # 0
    BY <2>1, <2>2 DEF Held
  <2>6. Listed'[f] = 0 /\ \A g \in Files \ {f} : dict'[g] = dict[g]
    BY <1>0, <2>1, <2>2 DEF Listed, SizeAt, TypeInv, StoreType
  <2>7. Sum(Listed', Files) = A - n /\ Sum(Coming', Threads) = B
    BY <1>0, <1>4, <1>5, <1>6, <2>2, <2>3, <2>4, <2>5, <2>6, ListedSum
  <2>8. self_total_usage' = ((A + B) + (-n)) % Word
    <3>1. reg[t] - n = ((A + B) % Word) + (-n)
      BY <1>0, <1>3, <2>2 DEF Exact, TypeInv, StatType
    <3>2. A + B \in Int /\ -n \in Int
      BY <1>6, <2>2
    <3>3. self_total_usage' = (((A + B) % Word) + (-n)) % Word
      BY <2>1, <3>1
    <3> HIDE DEF A, B, n
    <3> QED
      BY <3>2, <3>3, ModAdd
  <2>9. (A + B) + (-n) = (A - n) + B
    BY <1>6, <2>2
  <2> QED
    BY <2>7, <2>8, <2>9 DEF Exact
<1>10. CASE Save(t)
  <2> DEFINE f == op[t].file
  <2>1. /\ pc[t] = "save" /\ dict' = [dict EXCEPT ![f] = reg[t]] /\ maps' = maps
        /\ self_total_usage' = self_total_usage /\ Notes("replaced", dict[f] # 0)
        /\ \E l \in {"row", "idle"} : Goes(t, l)
    BY <1>10 DEF Save, statVars
  <2>2. f \in Files /\ dict[f] = 0 /\ op[t].size \in Nat
    <3>1. f \in Files /\ op[t].size \in Nat
      BY <1>0, <2>1, OpFacts, SizeFacts DEF TypeInv
    <3>2. dict[f] = 0
      BY <1>2, <2>1 DEF Notes
    <3> QED
      BY <3>1, <3>2
  <2>3. reg[t] \in Addresses /\ reg[t] # 0 /\ maps[reg[t]].len = op[t].size
    BY <2>1, SizeFacts DEF StoredInv, ShapeInv, Brought, Brings, Addresses
  <2>4. Coming[t] = op[t].size /\ Coming'[t] = 0
    BY <1>0, <2>1 DEF Coming, Goes, TypeInv, ThreadType
  <2>5. dict'[f] = reg[t] /\ \A g \in Files \ {f} : dict'[g] = dict[g]
    BY <1>0, <2>1, <2>2 DEF TypeInv, StoreType
  <2>6. Listed[f] = 0 /\ Listed'[f] = op[t].size
    BY <2>1, <2>2, <2>3, <2>5 DEF Listed, SizeAt
  <2>7. Sum(Listed', Files) = A + op[t].size /\ Sum(Coming', Threads) = B - op[t].size
    BY <1>0, <1>4, <1>5, <1>6, <2>2, <2>4, <2>5, <2>6, ListedSum
  <2>8. (A + op[t].size) + (B - op[t].size) = A + B
    BY <1>6, <2>2
  <2> QED
    BY <1>3, <2>1, <2>7, <2>8 DEF Exact
<1>11. CASE \E k \in OpKinds, f \in Files, n \in Sizes : Begin(t, k, f, n)
  BY <1>0, <1>7, <1>11, BeginFacts DEF Begin, Coming, OpKinds, TypeInv, ThreadType, statVars
<1>12. CASE MemfdCallocFails(t)
  BY <1>2, <1>12, NotesFacts DEF MemfdCallocFails
<1>13. CASE MemfdCalloc(t) \/ ReadFile(t)
  <2>1. ReadFile(t) => Goes(t, "save")
    BY <1>2, NotesFacts DEF ReadFile
  <2>2. \E l \in {"read", "save"} : Goes(t, l)
    BY <1>13, <2>1 DEF MemfdCalloc
  <2>3. pc[t] \in {"calloc", "read"} /\ self_total_usage' = self_total_usage /\ dict' = dict
    BY <1>13 DEF MemfdCalloc, ReadFile, statVars, memVars
  <2>4. Coming'[t] = Coming[t]
    BY <1>0, <2>2, <2>3 DEF Coming, Goes, TypeInv, ThreadType
  <2> QED
    BY <1>7, <2>3, <2>4
<1>14. CASE \/ GetMemoryStat(t) \/ Load(t) \/ MemfdFtruncate(t) \/ CollectMetric(t) \/ Enough(t)
            \/ ReadUsage(t) \/ SaveRow(t) \/ Delete(t)
  <2>1. \E l \in Places \ {"calloc", "read", "save"} : Goes(t, l)
    BY <1>14 DEF GetMemoryStat, Load, MemfdFtruncate, CollectMetric, Enough, ReadUsage,
         SaveRow, Delete, Places
  <2>2. pc[t] \notin {"calloc", "read", "save"} /\ self_total_usage' = self_total_usage
        /\ dict' = dict
    BY <1>14 DEF GetMemoryStat, Load, MemfdFtruncate, CollectMetric, Enough, ReadUsage,
         SaveRow, Delete, statVars, memVars
  <2>3. Coming'[t] = Coming[t]
    BY <1>0, <2>1, <2>2 DEF Coming, Goes, TypeInv, ThreadType
  <2> QED
    BY <1>7, <2>2, <2>3
<1> QED
  BY <1>8, <1>9, <1>10, <1>11, <1>12, <1>13, <1>14 DEF Step

(* A memfd in use has the length of its mapping; what is stored and not    *)
(* being deleted, and what is brought to the storage, is open; a thread    *)
(* that found an entry is about to give its memfd the size it has.         *)
OpenAll ==
  /\ \A a \in Addresses : maps[a].open => maps[a].fsize = maps[a].len
  /\ \A f \in Files : dict[f] # 0 /\ ~Deleting(f) => maps[dict[f]].open
  /\ \A t \in Threads : Brings(t) => maps[reg[t]].open
  /\ \A t \in Threads : pc[t] = "truncate" =>
       reg[t] \in Addresses /\ maps[reg[t]].len = op[t].size
Opens == Never({"resized", "reused"}) => OpenAll

(* Truncating the memfd that was found changes nothing.                    *)
LEMMA TruncateSame ==
  ASSUME TypeInv, OpenAll, NEW t \in Threads, MemfdFtruncate(t), "reused" \notin seen'
  PROVE  maps' = maps
<1>1. CASE \E a \in Addresses : /\ maps' = [maps EXCEPT ![a].fsize = op[t].size]
                                /\ maps[a].open /\ Notes("reused", a # reg[t])
  <2>1. PICK a \in Addresses : /\ maps' = [maps EXCEPT ![a].fsize = op[t].size]
                               /\ maps[a].open /\ Notes("reused", a # reg[t])
    BY <1>1
  <2>2. a = reg[t] /\ pc[t] = "truncate"
    BY <2>1 DEF Notes, MemfdFtruncate
  <2>3. maps[a].fsize = op[t].size
    BY <2>1, <2>2 DEF OpenAll
  <2>4. maps[a] \in MapRecord /\ maps \in [Addresses -> MapRecord]
    BY DEF TypeInv, MapType
  <2>5. [maps[a] EXCEPT !.fsize = op[t].size] = maps[a]
    BY <2>3, <2>4 DEF MapRecord
  <2> QED
    BY <2>1, <2>4, <2>5
<1> QED
  BY <1>1 DEF MemfdFtruncate

(* Only Load goes on to truncate, with the mapping it found.               *)
LEMMA LoadTruncates ==
  ASSUME StoredInv, NEW t \in Threads, Step(t), pc'[t] = "truncate"
  PROVE  /\ pc[t] = "look" /\ dict[op[t].file] # 0 /\ reg'[t] = dict[op[t].file]
         /\ op'[t] = op[t] /\ maps' = maps /\ dict' = dict
<1>0. TypeInv
  BY DEF StoredInv, ShapeInv
<1>1. CASE Load(t)
  BY <1>0, <1>1 DEF Load, Goes, TypeInv, ThreadType, memVars
<1>2. CASE \E k \in OpKinds, f \in Files, n \in Sizes : Begin(t, k, f, n)
  BY <1>0, <1>2 DEF Begin, OpKinds, TypeInv, ThreadType
<1>3. CASE ~Load(t) /\ ~\E k \in OpKinds, f \in Files, n \in Sizes : Begin(t, k, f, n)
  <2>1. \E l \in Places \ {"truncate"} : Goes(t, l)
    BY <1>3 DEF Step, GetMemoryStat, MemfdFtruncate, CollectMetric, Enough, ReadUsage,
         AddUsage, MemfdCalloc, MemfdCallocFails, ReadFile, Save, SaveRow, Delete, Erase,
         Places
  <2> QED
    BY <1>0, <2>1 DEF Goes, TypeInv, ThreadType
<1> QED
  BY <1>1, <1>2, <1>3

(* MemfdCalloc opens a memfd of the operation's size at a new address.     *)
LEMMA CallocOpens ==
  ASSUME StoredInv, NEW t \in Threads, MemfdCalloc(t)
  PROVE  \E a \in Addresses :
           /\ maps[a].len = 0
           /\ maps'[a].len = op[t].size /\ maps'[a].fsize = op[t].size /\ maps'[a].open
           /\ \A b \in Addresses \ {a} : maps'[b] = maps[b]
           /\ reg'[t] = a /\ pc'[t] \in {"read", "save"} /\ op'[t] = op[t]
           /\ dict' = dict /\ self_total_usage' = self_total_usage
<1>0. TypeInv
  BY DEF StoredInv, ShapeInv
<1>1. PICK a \in Addresses :
        /\ Fresh(a)
        /\ maps' = [maps EXCEPT ![a] = [len |-> op[t].size, fsize |-> op[t].size,
                                        left |-> op[t].size, open |-> TRUE]]
        /\ reg' = [reg EXCEPT ![t] = a]
  BY DEF MemfdCalloc
<1>2. PICK l \in {"read", "save"} : Goes(t, l)
  BY DEF MemfdCalloc
<1>3. pc'[t] = l /\ op'[t] = op[t] /\ reg'[t] = a
  BY <1>0, <1>1, <1>2 DEF Goes, TypeInv, ThreadType
<1>4. /\ maps'[a].len = op[t].size /\ maps'[a].fsize = op[t].size /\ maps'[a].open
      /\ \A b \in Addresses \ {a} : maps'[b] = maps[b]
  BY <1>0, <1>1 DEF TypeInv, MapType
<1> QED
  BY <1>1, <1>2, <1>3, <1>4 DEF MemfdCalloc, Fresh, statVars

(* Delete closes the memfd of the file it has locked the storage for.      *)
LEMMA DeleteCloses ==
  ASSUME StoredInv, NEW t \in Threads, Delete(t), dict[op[t].file] # 0
  PROVE  /\ op[t].file \in Files /\ dict[op[t].file] \in Addresses
         /\ pc[t] = "delete" /\ pc'[t] = "deleting" /\ op'[t] = op[t]
         /\ dict' = dict /\ self_total_usage' = self_total_usage
         /\ ~maps'[dict[op[t].file]].open
         /\ maps'[dict[op[t].file]].len = maps[dict[op[t].file]].len
         /\ \A b \in Addresses \ {dict[op[t].file]} : maps'[b] = maps[b]
         /\ \A u \in Threads : pc[u] # "deleting"
<1>0. TypeInv /\ Locked
  BY DEF StoredInv, ShapeInv
<1> DEFINE a == dict[op[t].file]
<1>1. /\ pc[t] = "delete" /\ rw_mutex_ = Nobody /\ Goes(t, "deleting") /\ dict' = dict
      /\ maps' = [maps EXCEPT ![a].open = FALSE] /\ self_total_usage' = self_total_usage
  BY DEF Delete, statVars
<1>2. op[t].file \in Files /\ a \in Addresses
  BY <1>0, <1>1, OpFacts, DictRange DEF TypeInv
<1>3. maps \in [Addresses -> MapRecord] /\ maps[a] \in MapRecord
  BY <1>0, <1>2 DEF TypeInv, MapType
<1> HIDE DEF a
<1>4. /\ ~maps'[a].open /\ maps'[a].len = maps[a].len
      /\ \A b \in Addresses \ {a} : maps'[b] = maps[b]
  BY <1>1, <1>2, <1>3 DEF MapRecord
<1>5. pc'[t] = "deleting" /\ op'[t] = op[t]
  BY <1>0, <1>1 DEF Goes, TypeInv, ThreadType
<1>6. \A u \in Threads : pc[u] # "deleting"
  BY <1>0, <1>1, MonitorAssumption DEF Locked, Nobody
<1> QED
  BY <1>1, <1>2, <1>4, <1>5, <1>6 DEF a

(* Memfds stay open and as long as their mappings when a thread moves.     *)
LEMMA OpensKept ==
  ASSUME StoredInv, StoredInv', Opens, NEW t \in Threads, Step(t)
  PROVE  Opens'
<1> SUFFICES ASSUME Never({"resized", "reused"})' PROVE OpenAll'
  BY DEF Opens
<1>0. TypeInv /\ TypeInv' /\ Locked
  BY DEF StoredInv, ShapeInv
<1>1. Others(t) /\ seen \subseteq seen'
      /\ \A a \in Addresses : maps[a].len # 0 => maps'[a].len = maps[a].len
  BY <1>0, StepFrame
<1>2. OpenAll /\ Never({"resized"}) /\ "reused" \notin seen'
  BY <1>1 DEF Opens, Never
<1>3. \A u \in Threads \ {t} : pc'[u] = pc[u] /\ op'[u] = op[u] /\ reg'[u] = reg[u]
  BY <1>1 DEF Others
<1>4. \A u \in Threads : pc'[u] = "truncate" =>
        reg'[u] \in Addresses /\ maps'[reg'[u]].len = op'[u].size
  <2> SUFFICES ASSUME NEW u \in Threads, pc'[u] = "truncate"
               PROVE  reg'[u] \in Addresses /\ maps'[reg'[u]].len = op'[u].size
    OBVIOUS
  <2>1. CASE u = t
    <3>1. /\ pc[t] = "look" /\ dict[op[t].file] # 0 /\ reg'[t] = dict[op[t].file]
          /\ op'[t] = op[t] /\ maps' = maps
      BY <2>1, LoadTruncates
    <3>2. dict[op[t].file] \in Addresses
      BY <1>0, <3>1, OpFacts, DictRange DEF TypeInv
    <3>3. maps[dict[op[t].file]].len = op[t].size
      BY <1>2, <3>1, StoredSize
    <3> QED
      BY <2>1, <3>1, <3>2, <3>3
  <2>2. CASE u # t
    <3>1. pc[u] = "truncate" /\ reg[u] \in Addresses /\ maps[reg[u]].len = op[u].size
      BY <1>2, <1>3, <2>2 DEF OpenAll
    <3>2. op[u].size # 0
      BY <1>0, <3>1, OpFacts, SizeFacts DEF TypeInv
    <3> QED
      BY <1>1, <1>3, <2>2, <3>1, <3>2
  <2> QED
    BY <2>1, <2>2
<1>5. ASSUME maps' = maps, dict' = dict, \A f \in Files : Deleting(f) => Deleting(f)',
             Brings(t)' => Brings(t) /\ reg'[t] = reg[t]
      PROVE  OpenAll'
  <2>1. \A u \in Threads : Brings(u)' => Brings(u) /\ reg'[u] = reg[u]
    BY <1>3, <1>5 DEF Brings
  <2> QED
    BY <1>2, <1>4, <1>5, <2>1 DEF OpenAll
<1>6. CASE Quiet(t)
  <2>1. maps' = maps
    <3>1. CASE MemfdFtruncate(t)
      BY <1>0, <1>2, <3>1, TruncateSame
    <3>2. CASE MemfdCalloc(t) \/ (Delete(t) /\ dict[op[t].file] # 0)
      <4>1. MemfdCalloc(t) => pc[t] = "calloc" /\ pc'[t] \in {"read", "save"}
        BY CallocOpens DEF MemfdCalloc
      <4> QED
        BY <1>6, <3>2, <4>1, DeleteCloses DEF Quiet, Brings
    <3> QED
      BY <3>1, <3>2
         DEF Step, Begin, GetMemoryStat, Load, CollectMetric, Enough, ReadUsage, AddUsage,
             MemfdCallocFails, ReadFile, Save, SaveRow, Delete, Erase, memVars
  <2>2. \A f \in Files : Deleting(f) => Deleting(f)'
    BY <1>3, <1>6 DEF Quiet, Deleting
  <2> QED
    BY <1>5, <1>6, <2>1, <2>2 DEF Quiet, Brings
<1>7. CASE \E k \in OpKinds, f \in Files, n \in Sizes : Begin(t, k, f, n)
  <2>1. pc[t] = "idle" /\ pc'[t] \notin {"read", "save"} /\ UNCHANGED <<dict, maps>>
    BY <1>0, <1>7, BeginFacts
  <2>2. \A f \in Files : Deleting(f) => Deleting(f)'
    BY <1>3, <2>1 DEF Deleting
  <2> QED
    BY <1>5, <2>1, <2>2 DEF Brings
<1>8. CASE SaveRow(t)
  <2>1. pc[t] = "row" /\ Goes(t, "idle") /\ UNCHANGED <<dict, maps>>
    BY <1>8 DEF SaveRow
  <2>2. pc'[t] = "idle"
    BY <1>0, <2>1 DEF Goes, TypeInv, ThreadType
  <2>3. \A f \in Files : Deleting(f) => Deleting(f)'
    BY <1>3, <2>1 DEF Deleting
  <2> QED
    BY <1>5, <2>1, <2>2, <2>3 DEF Brings
<1>9. CASE MemfdCalloc(t)
  <2>1. PICK a \in Addresses :
           /\ maps[a].len = 0
           /\ maps'[a].len = op[t].size /\ maps'[a].fsize = op[t].size /\ maps'[a].open
           /\ \A b \in Addresses \ {a} : maps'[b] = maps[b]
           /\ reg'[t] = a /\ pc'[t] \in {"read", "save"} /\ op'[t] = op[t]
           /\ dict' = dict
    BY <1>9, CallocOpens
  <2>2. \A f \in Files : Deleting(f) => Deleting(f)'
    BY <1>3, <1>9 DEF Deleting, MemfdCalloc
  <2>3. \A f \in Files : dict[f] # 0 => dict[f] \in Addresses \ {a}
    BY <1>0, <2>1, DictRange DEF StoredInv, ShapeInv, Stored
  <2>4. \A u \in Threads \ {t} : Brings(u) => reg[u] \in Addresses \ {a}
    <3> SUFFICES ASSUME NEW u \in Threads \ {t}, Brings(u) PROVE reg[u] \in Addresses \ {a}
      OBVIOUS
    <3>1. reg[u] \in Addresses /\ maps[reg[u]].len = op[u].size
      BY DEF StoredInv, ShapeInv, Brought
    <3>2. op[u].size # 0
      BY <1>0, OpFacts, SizeFacts DEF TypeInv, Brings
    <3> QED
      BY <2>1, <3>1, <3>2
  <2>5. \A b \in Addresses : maps'[b].open => maps'[b].fsize = maps'[b].len
    BY <1>2, <2>1 DEF OpenAll
  <2>6. \A f \in Files : dict'[f] # 0 /\ ~Deleting(f)' => maps'[dict'[f]].open
    BY <1>2, <2>1, <2>2, <2>3 DEF OpenAll
  <2>7. \A u \in Threads : Brings(u)' => maps'[reg'[u]].open
    BY <1>2, <1>3, <2>1, <2>4 DEF OpenAll, Brings
  <2> QED
    BY <1>4, <2>5, <2>6, <2>7 DEF OpenAll
<1>10. CASE Save(t)
  <2> DEFINE f == op[t].file
  <2>1. /\ pc[t] = "save" /\ dict' = [dict EXCEPT ![f] = reg[t]] /\ maps' = maps
        /\ rw_mutex_ = Nobody /\ \E l \in {"row", "idle"} : Goes(t, l)
    BY <1>10 DEF Save
  <2>2. f \in Files
    BY <1>0, <2>1, OpFacts DEF TypeInv
  <2>3. dict'[f] = reg[t] /\ \A g \in Files \ {f} : dict'[g] = dict[g]
    BY <1>0, <2>1, <2>2 DEF TypeInv, StoreType
  <2>4. pc'[t] \notin {"read", "save"}
    BY <1>0, <2>1 DEF Goes, TypeInv, ThreadType
  <2>5. maps[reg[t]].open
    BY <1>2, <2>1 DEF OpenAll, Brings
  <2>6. \A g \in Files : ~Deleting(g)
    BY <1>0, <2>1, MonitorAssumption DEF Deleting, Locked, Nobody
  <2>7. \A g \in Files : dict'[g] # 0 /\ ~Deleting(g)' => maps'[dict'[g]].open
    BY <1>2, <2>1, <2>3, <2>5, <2>6 DEF OpenAll
  <2>8. \A u \in Threads : Brings(u)' => maps'[reg'[u]].open
    BY <1>2, <1>3, <2>1, <2>4 DEF OpenAll, Brings
  <2> QED
    BY <1>2, <1>4, <2>1, <2>7, <2>8 DEF OpenAll
<1>11. CASE Erase(t)
  <2> DEFINE f == op[t].file
  <2>1. pc[t] = "deleting" /\ dict' = [dict EXCEPT ![f] = 0] /\ maps' = maps /\ Goes(t, "idle")
    BY <1>11 DEF Erase
  <2>2. f \in Files
    BY <1>0, <2>1, OpFacts DEF TypeInv
  <2>3. dict'[f] = 0 /\ \A g \in Files \ {f} : dict'[g] = dict[g]
    BY <1>0, <2>1, <2>2 DEF TypeInv, StoreType
  <2>4. pc'[t] = "idle"
    BY <1>0, <2>1 DEF Goes, TypeInv, ThreadType
  <2>5. \A g \in Files \ {f} : Deleting(g) => Deleting(g)'
    BY <1>3, <2>1 DEF Deleting
  <2>6. \A g \in Files : dict'[g] # 0 /\ ~Deleting(g)' => maps'[dict'[g]].open
    BY <1>2, <2>1, <2>3, <2>5 DEF OpenAll
  <2>7. \A u \in Threads : Brings(u)' => maps'[reg'[u]].open
    BY <1>2, <1>3, <2>1, <2>4 DEF OpenAll, Brings
  <2> QED
    BY <1>2, <1>4, <2>1, <2>6, <2>7 DEF OpenAll
<1>12. CASE Delete(t) /\ dict[op[t].file] # 0
  <2> DEFINE f == op[t].file
             a == dict[f]
  <2>1. /\ f \in Files /\ a \in Addresses
        /\ pc'[t] = "deleting" /\ op'[t] = op[t] /\ dict' = dict
        /\ ~maps'[a].open
        /\ \A b \in Addresses \ {a} : maps'[b] = maps[b]
        /\ \A u \in Threads : pc[u] # "deleting"
    BY <1>12, DeleteCloses
  <2>2. \A g \in Files : dict'[g] # 0 /\ ~Deleting(g)' => maps'[dict'[g]].open
    <3> SUFFICES ASSUME NEW g \in Files, dict'[g] # 0, ~Deleting(g)' PROVE maps'[dict'[g]].open
      OBVIOUS
    <3>1. g # f
      BY <2>1 DEF Deleting
    <3>2. dict[g] \in Addresses \ {a}
      BY <1>0, <1>12, <2>1, <3>1, DictRange DEF StoredInv, ShapeInv, Stored
    <3>3. ~Deleting(g)
      BY <2>1 DEF Deleting
    <3> QED
      BY <1>2, <2>1, <3>2, <3>3 DEF OpenAll
  <2>3. \A u \in Threads : Brings(u)' => maps'[reg'[u]].open
    <3> SUFFICES ASSUME NEW u \in Threads, Brings(u)' PROVE maps'[reg'[u]].open
      OBVIOUS
    <3>1. u # t /\ Brings(u) /\ reg'[u] = reg[u]
      BY <1>3, <2>1 DEF Brings
    <3>2. reg[u] \in Addresses \ {a}
      BY <2>1, <3>1 DEF StoredInv, ShapeInv, Brought
    <3> QED
      BY <1>2, <2>1, <3>1, <3>2 DEF OpenAll
  <2>4. \A b \in Addresses : maps'[b].open => maps'[b].fsize = maps'[b].len
    BY <1>2, <2>1 DEF OpenAll
  <2> QED
    BY <1>4, <2>2, <2>3, <2>4 DEF OpenAll
<1> QED
  BY <1>0, <1>6, <1>7, <1>8, <1>9, <1>10, <1>11, <1>12, QuietStep DEF Step

(* With a limit set, the accounting covers what is in use and what is      *)
(* counted without memory yet ...                                          *)
Covered == Sum(InUse, Addresses) + Sum(Pending, Threads) <= self_total_usage

(* ... and stays within the capacity, because one thread at a time admits, *)
(* with an idle memory that is not more than what is left.                 *)
Admission ==
  /\ self_total_usage <= Capacity
  /\ \A t, u \in Threads : Admitting(t) /\ Admitting(u) => t = u
  /\ \A t \in Threads : pc[t] = "compare" => total_idle <= Capacity - self_total_usage
  /\ \A t \in Threads : pc[t] \in {"add", "added"} =>
       op[t].size <= Capacity - self_total_usage

(* What ends the promise of WithinLimit, and the invariant behind it.      *)
Disturbed == {"overlap", "torn", "resized", "reused"}
LimitInv == user_limit_ /\ Never(Disturbed) => Covered /\ Admission

(* With a limit, idle memory is what the accounting leaves.                *)
LEMMA IdleIsLeft ==
  ASSUME TypeInv, user_limit_, self_total_usage <= Capacity, NEW x \in Idle
  PROVE  x = Capacity - self_total_usage
<1>1. self_total_usage \in Nat /\ Capacity \in Nat /\ Capacity < Word /\ Word \in Nat
  BY MonitorAssumption, SizeFacts DEF TypeInv, StatType
<1>2. (Capacity - self_total_usage) % Word = Capacity - self_total_usage
  BY <1>1, SmallMod
<1> QED
  BY <1>2 DEF Idle

(* The memory in use changes with one memfd, or not at all.                *)
LEMMA InUseSum ==
  ASSUME TypeInv, TypeInv', NEW a \in Addresses, \A b \in Addresses \ {a} : maps'[b] = maps[b]
  PROVE  /\ Sum(InUse', Addresses) = Sum(InUse, Addresses) + (InUse'[a] - InUse[a])
         /\ InUse'[a] \in Nat /\ InUse[a] \in Nat
<1>1. \A b \in Addresses : b # a => InUse'[b] = InUse[b]
  BY DEF InUse
<1>2. \A b \in Addresses : InUse'[b] \in Nat /\ InUse[b] \in Nat
  BY Summands, SummandsNext DEF Naturals
<1> QED
  BY <1>1, <1>2, Finite, SumChange

(* It depends on the memfds that are open and their sizes only.            *)
LEMMA InUseSame ==
  ASSUME \A a \in Addresses : maps'[a].open = maps[a].open /\ maps'[a].fsize = maps[a].fsize
  PROVE  InUse' = InUse
  BY DEF InUse

(* An addition that was admitted does not wrap around ...                  *)
LEMMA AddIsExact ==
  ASSUME TypeInv, ReadIsUsage, Never({"torn"}), Admission, NEW t \in Threads, AddUsage(t)
  PROVE  /\ self_total_usage' = self_total_usage + op[t].size
         /\ self_total_usage' <= Capacity
         /\ op[t].size \in Nat /\ pc[t] = "added" /\ pc'[t] = "calloc" /\ op'[t] = op[t]
<1>1. pc[t] = "added" /\ Goes(t, "calloc")
      /\ self_total_usage' = (reg[t] + op[t].size) % Word
  BY DEF AddUsage
<1>2. reg[t] = self_total_usage /\ op[t].size \in Nat /\ self_total_usage \in Nat
  <2>1. reg[t] = self_total_usage
    BY <1>1 DEF ReadIsUsage, Counting
  <2>2. op[t].size \in Nat
    BY <1>1, OpFacts, SizeFacts DEF TypeInv
  <2>3. self_total_usage \in Nat
    BY SizeFacts DEF TypeInv, StatType
  <2> QED
    BY <2>1, <2>2, <2>3
<1>3. self_total_usage + op[t].size <= Capacity /\ Capacity < Word /\ Capacity \in Nat
      /\ Word \in Nat
  BY <1>1, <1>2, SizeFacts, MonitorAssumption DEF Admission
<1>4. (self_total_usage + op[t].size) % Word = self_total_usage + op[t].size
  BY <1>2, <1>3, SmallMod
<1>5. pc'[t] = "calloc" /\ op'[t] = op[t]
  BY <1>1 DEF Goes, TypeInv, ThreadType
<1> QED
  BY <1>1, <1>2, <1>3, <1>4, <1>5

(* ... and neither does a subtraction of what was counted.                 *)
LEMMA EraseIsExact ==
  ASSUME TypeInv, ReadIsUsage, Never({"torn"}), NEW t \in Threads, Erase(t),
         op[t].size <= self_total_usage
  PROVE  self_total_usage' = self_total_usage - op[t].size
<1>1. pc[t] = "deleting" /\ self_total_usage' = (reg[t] - op[t].size) % Word
  BY DEF Erase
<1>2. /\ reg[t] = self_total_usage /\ op[t].size \in Nat
      /\ self_total_usage \in Nat /\ self_total_usage < Word /\ Word \in Nat
  <2>1. reg[t] = self_total_usage
    BY <1>1 DEF ReadIsUsage, Counting
  <2>2. op[t].size \in Nat
    BY <1>1, OpFacts, SizeFacts DEF TypeInv
  <2>3. self_total_usage \in Nat /\ self_total_usage < Word /\ Word \in Nat
    BY SizeFacts DEF TypeInv, StatType
  <2> QED
    BY <2>1, <2>2, <2>3
<1>3. (self_total_usage - op[t].size) % Word = self_total_usage - op[t].size
  BY <1>2, SmallMod
<1> QED
  BY <1>1, <1>2, <1>3

(* Memory passes between what is counted and what is in use, and the usage *)
(* covers both at every step of a thread.                                  *)
LEMMA CoveredKept ==
  ASSUME StoredInv, StoredInv', ReadIsUsage, Opens, NEW t \in Threads, Step(t),
         Covered, Admission, Never(Disturbed)'
  PROVE  Covered'
<1>0. TypeInv /\ TypeInv'
  BY DEF StoredInv, ShapeInv
<1>1. /\ Others(t) /\ seen \subseteq seen'
      /\ Never({"torn"}) /\ Never({"resized"}) /\ OpenAll /\ "reused" \notin seen'
  BY <1>0, StepFrame DEF Never, Disturbed, Opens
<1> DEFINE I == Sum(InUse, Addresses)
           P == Sum(Pending, Threads)
           n == op[t].size
<1>2. I \in Nat /\ P \in Nat /\ self_total_usage \in Nat
      /\ Sum(InUse', Addresses) \in Nat /\ Sum(Pending', Threads) \in Nat
  <2>1. Sum(InUse', Addresses) \in Nat /\ Sum(Pending', Threads) \in Nat
    BY <1>0, SummandsNext, SumType, Finite DEF Naturals
  <2> QED
    BY <1>0, <2>1, SumsAreNat DEF TypeInv, StatType
<1>3. /\ Sum(Pending', Threads) = P + (Pending'[t] - Pending[t])
      /\ Pending'[t] \in Nat /\ Pending[t] \in Nat
  BY <1>0, <1>1, ThreadSums, Summands, SummandsNext DEF Naturals
<1>4. I + P <= self_total_usage
  BY DEF Covered
<1>5. pc[t] # "idle" => n \in Nat
  BY <1>0, OpFacts, SizeFacts DEF TypeInv
<1>6. ASSUME self_total_usage' = self_total_usage, maps' = maps, Pending'[t] <= Pending[t]
      PROVE  Covered'
  <2>1. Sum(InUse', Addresses) = I
    BY <1>6, InUseSame
  <2> HIDE DEF I, P
  <2> QED
    BY <1>2, <1>3, <1>4, <1>6, <2>1 DEF Covered
<1>7. CASE AddUsage(t)
  <2>1. /\ self_total_usage' = self_total_usage + n /\ n \in Nat
        /\ pc[t] = "added" /\ pc'[t] = "calloc" /\ op'[t] = op[t]
    BY <1>0, <1>1, <1>7, AddIsExact
  <2>2. maps' = maps
    BY <1>7 DEF AddUsage, memVars
  <2>3. Sum(InUse', Addresses) = I
    BY <2>2, InUseSame
  <2>4. Pending[t] = 0 /\ Pending'[t] = n
    BY <2>1 DEF Pending
  <2> HIDE DEF I, P, n
  <2> QED
    BY <1>2, <1>3, <1>4, <2>1, <2>3, <2>4 DEF Covered
<1>8. CASE MemfdCalloc(t)
  <2>1. PICK a \in Addresses :
           /\ maps[a].len = 0
           /\ maps'[a].len = n /\ maps'[a].fsize = n /\ maps'[a].open
           /\ \A b \in Addresses \ {a} : maps'[b] = maps[b]
           /\ reg'[t] = a /\ pc'[t] \in {"read", "save"} /\ op'[t] = op[t]
           /\ dict' = dict /\ self_total_usage' = self_total_usage
    BY <1>8, CallocOpens
  <2>2. pc[t] = "calloc"
    BY <1>8 DEF MemfdCalloc
  <2>3. Pending[t] = n /\ Pending'[t] = 0 /\ InUse[a] = 0 /\ InUse'[a] = n
    BY <1>1, <2>1, <2>2 DEF Pending, InUse, OpenAll
  <2>4. Sum(InUse', Addresses) = I + (InUse'[a] - InUse[a])
    BY <1>0, <2>1, InUseSum
  <2> HIDE DEF I, P, n
  <2> QED
    BY <1>2, <1>3, <1>4, <1>5, <2>1, <2>2, <2>3, <2>4 DEF Covered
<1>9. CASE Delete(t) /\ dict[op[t].file] # 0
  <2> DEFINE a == dict[op[t].file]
  <2>1. /\ op[t].file \in Files /\ a \in Addresses
        /\ pc[t] = "delete" /\ pc'[t] = "deleting" /\ op'[t] = op[t]
        /\ self_total_usage' = self_total_usage
        /\ ~maps'[a].open
        /\ \A b \in Addresses \ {a} : maps'[b] = maps[b]
        /\ \A u \in Threads : pc[u] # "deleting"
    BY <1>9, DeleteCloses
  <2>2. maps[a].open /\ maps[a].fsize = maps[a].len
    BY <1>1, <1>9, <2>1 DEF OpenAll, Deleting
  <2>3. maps[a].len = n
    BY <1>1, <1>9, <2>1, StoredSize
  <2>4. InUse[a] = n /\ InUse'[a] = 0 /\ Pending[t] = 0 /\ Pending'[t] = n
    BY <2>1, <2>2, <2>3 DEF InUse, Pending
  <2>5. Sum(InUse', Addresses) = I + (InUse'[a] - InUse[a])
    BY <1>0, <2>1, InUseSum
  <2> HIDE DEF I, P, n, a
  <2> QED
    BY <1>2, <1>3, <1>4, <1>5, <2>1, <2>4, <2>5 DEF Covered
<1>10. CASE Erase(t)
  <2>1. pc[t] = "deleting" /\ maps' = maps /\ Goes(t, "idle")
    BY <1>10 DEF Erase
  <2>2. pc'[t] = "idle" /\ n \in Nat
    BY <1>0, <1>5, <2>1 DEF Goes, TypeInv, ThreadType
  <2>3. Pending[t] = n /\ Pending'[t] = 0
    BY <2>1, <2>2 DEF Pending
  <2>4. Sum(InUse', Addresses) = I
    BY <2>1, InUseSame
  <2>5. n <= P
    BY <1>2, <1>3, <2>2, <2>3
  <2>6. n <= self_total_usage
    BY <1>2, <1>4, <2>2, <2>5
  <2>7. self_total_usage' = self_total_usage - n
    BY <1>0, <1>1, <1>10, <2>6, EraseIsExact
  <2> HIDE DEF I, P, n
  <2> QED
    BY <1>2, <1>3, <1>4, <2>2, <2>3, <2>4, <2>7 DEF Covered
<1>11. CASE \E k \in OpKinds, f \in Files, m \in Sizes : Begin(t, k, f, m)
  <2>1. maps' = maps /\ self_total_usage' = self_total_usage /\ pc'[t] \notin {"calloc", "deleting"}
    BY <1>0, <1>11 DEF Begin, OpKinds, TypeInv, ThreadType, statVars
  <2>2. Pending'[t] = 0
    BY <2>1 DEF Pending
  <2> QED
    BY <1>3, <1>6, <2>1, <2>2
<1>12. CASE \/ GetMemoryStat(t) \/ Load(t) \/ MemfdFtruncate(t) \/ CollectMetric(t) \/ Enough(t)
            \/ ReadUsage(t) \/ MemfdCallocFails(t) \/ ReadFile(t) \/ Save(t) \/ SaveRow(t)
            \/ (Delete(t) /\ dict[op[t].file] = 0)
  <2>1. \E l \in Places \ {"calloc", "deleting"} : Goes(t, l)
    BY <1>12 DEF GetMemoryStat, Load, MemfdFtruncate, CollectMetric, Enough, ReadUsage,
         MemfdCallocFails, ReadFile, Save, SaveRow, Delete, Places
  <2>2. pc'[t] \notin {"calloc", "deleting"}
    BY <1>0, <2>1 DEF Goes, TypeInv, ThreadType
  <2>3. Pending'[t] = 0
    BY <2>2 DEF Pending
  <2>4. self_total_usage' = self_total_usage
    BY <1>12 DEF GetMemoryStat, Load, MemfdFtruncate, CollectMetric, Enough, ReadUsage,
         MemfdCallocFails, ReadFile, Save, SaveRow, Delete, statVars
  <2>5. maps' = maps
    BY <1>0, <1>1, <1>12, TruncateSame
       DEF GetMemoryStat, Load, CollectMetric, Enough, ReadUsage,
           MemfdCallocFails, ReadFile, Save, SaveRow, Delete, memVars
  <2> QED
    BY <1>3, <1>6, <2>3, <2>4, <2>5
<1> QED
  BY <1>7, <1>8, <1>9, <1>10, <1>11, <1>12 DEF Step

(* The thread that admits has room for what it adds: the others can only   *)
(* lower the usage before it has added.                                    *)
LEMMA AdmissionKept ==
  ASSUME StoredInv, StoredInv', ReadIsUsage, NEW t \in Threads, Step(t), user_limit_,
         Covered, Admission, Never(Disturbed)'
  PROVE  Admission'
<1>0. TypeInv /\ TypeInv'
  BY DEF StoredInv, ShapeInv
<1>1. Others(t) /\ seen \subseteq seen' /\ Never({"torn"}) /\ user_limit_'
  BY <1>0, StepFrame DEF Never, Disturbed
<1>2. \A u \in Threads \ {t} : pc'[u] = pc[u] /\ op'[u] = op[u]
  BY <1>1 DEF Others
<1>3. /\ self_total_usage \in Nat /\ total_idle \in Nat /\ Capacity \in Nat
      /\ self_total_usage' \in Nat /\ total_idle' \in Nat
      /\ \A u \in Threads : pc[u] # "idle" => op[u].size \in Nat
  <2>1. \A x \in 0 .. Word - 1 : x \in Nat
    BY SizeFacts
  <2>2. \A u \in Threads : pc[u] # "idle" => op[u].size \in Nat
    BY <1>0, OpFacts, SizeFacts DEF TypeInv
  <2> QED
    BY <1>0, <2>1, <2>2, SizeFacts DEF TypeInv, StatType
<1>4. ASSUME self_total_usage' = self_total_usage, total_idle' = total_idle, ~Admitting(t)'
      PROVE  Admission'
  BY <1>2, <1>4 DEF Admission, Admitting
<1>5. CASE AddUsage(t)
  <2>1. pc[t] = "added" /\ pc'[t] = "calloc" /\ self_total_usage' <= Capacity
    BY <1>0, <1>1, <1>5, AddIsExact
  <2>2. \A u \in Threads : ~Admitting(u)'
    BY <1>2, <2>1 DEF Admission, Admitting
  <2> QED
    BY <2>1, <2>2 DEF Admission, Admitting
<1>6. CASE Erase(t)
  <2> DEFINE n == op[t].size
  <2>1. pc[t] = "deleting" /\ Goes(t, "idle") /\ total_idle' = total_idle
    BY <1>6 DEF Erase
  <2>2. pc'[t] = "idle" /\ n \in Nat
    BY <1>0, <1>3, <2>1 DEF Goes, TypeInv, ThreadType
  <2>3. n <= Sum(Pending, Threads)
    <3>1. /\ Sum(Pending', Threads) = Sum(Pending, Threads) + (Pending'[t] - Pending[t])
          /\ Sum(Pending', Threads) \in Nat
      BY <1>0, <1>1, ThreadSums, SummandsNext, SumType, Finite DEF Naturals
    <3>2. Pending[t] = n /\ Pending'[t] = 0
      BY <2>1, <2>2 DEF Pending
    <3> HIDE DEF n
    <3> QED
      BY <1>0, <2>2, <3>1, <3>2, SumsAreNat
  <2>4. n <= self_total_usage
    BY <1>0, <1>3, <2>2, <2>3, SumsAreNat DEF Covered
  <2>5. self_total_usage' = self_total_usage - n
    BY <1>0, <1>1, <1>6, <2>4, EraseIsExact
  <2>6. self_total_usage' <= self_total_usage
        /\ Capacity - self_total_usage <= Capacity - self_total_usage'
    BY <1>3, <2>2, <2>5
  <2> HIDE DEF n
  <2>7. ASSUME NEW u \in Threads, pc'[u] = "compare"
        PROVE  total_idle' <= Capacity - self_total_usage'
    <3>1. pc[u] = "compare"
      BY <1>2, <2>2, <2>7
    <3>2. total_idle' <= Capacity - self_total_usage
      BY <2>1, <3>1 DEF Admission
    <3>3. /\ total_idle' \in Int /\ Capacity - self_total_usage \in Int
          /\ Capacity - self_total_usage' \in Int
      BY <1>3
    <3> QED
      BY <2>6, <3>2, <3>3
  <2>8. ASSUME NEW u \in Threads, pc'[u] \in {"add", "added"}
        PROVE  op'[u].size <= Capacity - self_total_usage'
    <3>1. pc[u] \in {"add", "added"} /\ op'[u] = op[u]
      BY <1>2, <2>2, <2>8
    <3>2. op[u].size <= Capacity - self_total_usage /\ op[u].size \in Nat
      BY <1>3, <3>1 DEF Admission
    <3> QED
      BY <1>3, <2>6, <3>1, <3>2
  <2>9. self_total_usage' <= Capacity
    BY <1>3, <2>6 DEF Admission
  <2>10. \A u, v \in Threads : Admitting(u)' /\ Admitting(v)' => u = v
    BY <1>2, <2>2 DEF Admission, Admitting
  <2> QED
    BY <2>7, <2>8, <2>9, <2>10 DEF Admission
<1>7. CASE CollectMetric(t)
  <2>1. /\ \A u \in Threads : ~Admitting(u)
        /\ total_idle' \in Idle /\ Goes(t, "compare") /\ self_total_usage' = self_total_usage
    BY <1>7 DEF CollectMetric, Notes, Never, Disturbed
  <2>2. pc'[t] = "compare"
    BY <1>0, <2>1 DEF Goes, TypeInv, ThreadType
  <2>3. total_idle' = Capacity - self_total_usage
    BY <1>0, <2>1, IdleIsLeft DEF Admission
  <2>4. \A u \in Threads : Admitting(u)' => u = t /\ pc'[u] = "compare"
    BY <1>2, <2>1, <2>2 DEF Admitting
  <2>5. total_idle' <= Capacity - self_total_usage'
    BY <1>3, <2>1, <2>3
  <2> QED
    BY <2>1, <2>4, <2>5 DEF Admission, Admitting
<1>8. CASE Enough(t)
  <2>1. /\ pc[t] = "compare" /\ self_total_usage' = self_total_usage /\ total_idle' = total_idle
        /\ Goes(t, IF total_idle > op[t].size THEN "add" ELSE "idle")
    BY <1>8 DEF Enough, statVars
  <2>2. CASE total_idle > op[t].size
    <3>1. pc'[t] = "add" /\ op'[t] = op[t]
      BY <1>0, <2>1, <2>2 DEF Goes, TypeInv, ThreadType
    <3>2. op[t].size <= Capacity - self_total_usage
      BY <1>3, <2>1, <2>2 DEF Admission
    <3>3. \A u \in Threads : Admitting(u)' => u = t
      BY <1>2, <2>1 DEF Admission, Admitting
    <3> QED
      BY <2>1, <3>1, <3>2, <3>3 DEF Admission, Admitting
  <2>3. CASE ~(total_idle > op[t].size)
    <3>1. pc'[t] = "idle"
      BY <1>0, <2>1, <2>3 DEF Goes, TypeInv, ThreadType
    <3> QED
      BY <1>4, <2>1, <3>1 DEF Admitting
  <2> QED
    BY <2>2, <2>3
<1>9. CASE ReadUsage(t)
  <2>1. /\ pc[t] = "add" /\ self_total_usage' = self_total_usage /\ total_idle' = total_idle
        /\ Goes(t, "added")
    BY <1>9 DEF ReadUsage, statVars
  <2>2. pc'[t] = "added" /\ op'[t] = op[t]
    BY <1>0, <2>1 DEF Goes, TypeInv, ThreadType
  <2> QED
    BY <1>2, <2>1, <2>2 DEF Admission, Admitting
<1>10. CASE \E k \in OpKinds, f \in Files, n \in Sizes : Begin(t, k, f, n)
  <2>1. self_total_usage' = self_total_usage /\ total_idle' = total_idle
        /\ pc'[t] \in {"look", "glance", "collect", "delete"}
    BY <1>0, <1>10 DEF Begin, OpKinds, TypeInv, ThreadType, statVars
  <2> QED
    BY <1>4, <2>1 DEF Admitting
<1>11. CASE \/ GetMemoryStat(t) \/ Load(t) \/ MemfdFtruncate(t) \/ MemfdCalloc(t)
            \/ MemfdCallocFails(t) \/ ReadFile(t) \/ Save(t) \/ SaveRow(t) \/ Delete(t)
  <2>1. \E l \in Places \ {"compare", "add", "added"} : Goes(t, l)
    BY <1>11 DEF GetMemoryStat, Load, MemfdFtruncate, MemfdCalloc,
         MemfdCallocFails, ReadFile, Save, SaveRow, Delete, Places
  <2>2. ~Admitting(t)'
    BY <1>0, <2>1 DEF Goes, Admitting, TypeInv, ThreadType
  <2>3. self_total_usage' = self_total_usage /\ total_idle' = total_idle
    BY <1>11 DEF GetMemoryStat, Load, MemfdFtruncate, MemfdCalloc,
         MemfdCallocFails, ReadFile, Save, SaveRow, Delete, statVars
  <2> QED
    BY <1>4, <2>2, <2>3
<1> QED
  BY <1>5, <1>6, <1>7, <1>8, <1>9, <1>10, <1>11 DEF Step

(* The inductive invariant of the accounting and of the limit.             *)
AccountInv == StoredInv /\ ReadIsUsage /\ Held /\ UsageExact /\ Opens /\ LimitInv

(* munmap leaves memfds alone.                                             *)
LEMMA MunmapKeeps ==
  ASSUME TypeInv, NEW a \in Addresses, NEW n \in Sizes, Munmap(a, n)
  PROVE  \A x \in Addresses : /\ maps'[x].len = maps[x].len
                              /\ maps'[x].fsize = maps[x].fsize
                              /\ maps'[x].open = maps[x].open
<1> SUFFICES ASSUME NEW x \in Addresses
             PROVE  /\ maps'[x].len = maps[x].len /\ maps'[x].fsize = maps[x].fsize
                    /\ maps'[x].open = maps[x].open
  OBVIOUS
<1>1. maps \in [Addresses -> MapRecord] /\ \A y \in Addresses : maps[y] \in MapRecord
  BY DEF TypeInv, MapType
<1>2. \E v, w : \E b \in Addresses : maps' = [maps EXCEPT ![a].left = v, ![b].left = w]
  <2>1. CASE n <= maps[a].len
    <3>1. PICK v : maps' = [maps EXCEPT ![a].left = v]
      BY <2>1 DEF Munmap
    <3>2. maps' = [maps EXCEPT ![a].left = v, ![a].left = v]
      <4>1. maps[a] \in MapRecord
        BY <1>1
      <4> QED
        BY <1>1, <3>1, <4>1 DEF MapRecord
    <3> QED
      BY <3>2
  <2>2. CASE ~(n <= maps[a].len)
    BY <2>2 DEF Munmap
  <2> QED
    BY <2>1, <2>2
<1>3. PICK v, w : \E b \in Addresses : maps' = [maps EXCEPT ![a].left = v, ![b].left = w]
  BY <1>2
<1>4. PICK b \in Addresses : maps' = [maps EXCEPT ![a].left = v, ![b].left = w]
  BY <1>3
<1>5. \E u : maps'[x] = [maps[x] EXCEPT !.left = u] \/ maps'[x] = maps[x]
  <2>1. CASE x = b
    BY <1>1, <1>4, <2>1 DEF MapRecord
  <2>2. CASE x # b
    BY <1>1, <1>4, <2>2
  <2> QED
    BY <2>1, <2>2
<1> QED
  BY <1>1, <1>5 DEF MapRecord

(* What the threads do not do leaves the accounting and the memfds.        *)
LEMMA AccountFrame ==
  ASSUME AccountInv, StoredInv', seen \subseteq seen',
         UNCHANGED <<user_limit_, self_total_usage, dict, pc, op, reg>>,
         total_idle' = total_idle \/ total_idle' \in Idle,
         \A a \in Addresses : /\ maps'[a].len = maps[a].len
                              /\ maps'[a].fsize = maps[a].fsize
                              /\ maps'[a].open = maps[a].open
  PROVE  AccountInv'
<1>0. TypeInv /\ TypeInv'
  BY DEF AccountInv, StoredInv, ShapeInv
<1>1. \A what : Never(what)' => Never(what)
  BY DEF Never
<1>2. ReadIsUsage'
  BY <1>1 DEF AccountInv, ReadIsUsage, Counting
<1>3. Held'
  BY DEF AccountInv, Held
<1>4. \A f \in Files : dict[f] # 0 => dict[f] \in Addresses
  BY <1>0, DictRange
<1>5. Listed' = Listed /\ Coming' = Coming /\ Pending' = Pending /\ InUse' = InUse
  BY <1>4 DEF Listed, SizeAt, Coming, Pending, InUse
<1>6. UsageExact'
  BY <1>1, <1>5 DEF AccountInv, UsageExact
<1>7. Opens'
  <2>1. \A t \in Threads : Brings(t) => reg[t] \in Addresses
    BY DEF AccountInv, StoredInv, ShapeInv, Brought
  <2>2. OpenAll => OpenAll'
    BY <1>4, <2>1 DEF OpenAll, Deleting, Brings
  <2> QED
    BY <1>1, <2>2 DEF AccountInv, Opens
<1>8. LimitInv'
  <2> SUFFICES ASSUME user_limit_', Never(Disturbed)' PROVE Covered' /\ Admission'
    BY DEF LimitInv
  <2>1. user_limit_ /\ Covered /\ Admission
    BY <1>1 DEF AccountInv, LimitInv
  <2>2. Covered'
    BY <1>5, <2>1 DEF Covered
  <2>3. total_idle' = total_idle \/ total_idle' = Capacity - self_total_usage
    BY <1>0, <2>1, IdleIsLeft DEF Admission
  <2>4. Capacity - self_total_usage \in Int
    <3>1. self_total_usage \in Nat
      BY <1>0, SizeFacts DEF TypeInv, StatType
    <3> QED
      BY <3>1, SizeFacts
  <2>5. Capacity - self_total_usage <= Capacity - self_total_usage
    BY <2>4
  <2>6. Admission'
    BY <2>1, <2>3, <2>5 DEF Admission, Admitting
  <2> QED
    BY <2>2, <2>6
<1> QED
  BY <1>2, <1>3, <1>6, <1>7, <1>8 DEF AccountInv

(* Nothing is stored, counted or in use at first.                          *)
LEMMA AccountInit == Init => AccountInv
<1> SUFFICES ASSUME Init PROVE AccountInv
  OBVIOUS
<1>1. StoredInv
  BY InitKeeps
<1>2. ReadIsUsage /\ Held
  BY DEF Init, ReadIsUsage, Held, Counting
<1>3. /\ \A f \in Files : Listed[f] = 0
      /\ \A t \in Threads : Coming[t] = 0 /\ Pending[t] = 0
      /\ \A a \in Addresses : InUse[a] = 0
  BY DEF Init, Listed, SizeAt, Coming, Pending, InUse
<1>4. /\ Sum(Listed, Files) = 0 /\ Sum(Coming, Threads) = 0
      /\ Sum(Pending, Threads) = 0 /\ Sum(InUse, Addresses) = 0
  BY <1>3, Finite, SumZero
<1>5. self_total_usage = 0
  BY DEF Init
<1>6. 0 % Word = 0
  BY SizeFacts, SmallMod
<1>7. UsageExact
  <2>1. 0 + 0 = 0
    OBVIOUS
  <2> QED
    BY <1>4, <1>5, <1>6, <2>1 DEF UsageExact
<1>8. Opens
  BY DEF Init, Opens, OpenAll, Brings
<1>9. LimitInv
  BY <1>4, <1>5, SizeFacts DEF Init, LimitInv, Covered, Admission, Admitting
<1> QED
  BY <1>1, <1>2, <1>7, <1>8, <1>9 DEF AccountInv

(* The invariant holds of every reachable state: besides the shape of the  *)
(* storage, the usage read is the usage, memfds in use have the length of  *)
(* their mappings, and one thread at a time admits (monitor.cpp:76-121).   *)
THEOREM AccountInvariance == Spec => []AccountInv
<1>1. AccountInv /\ [Next]_vars => AccountInv'
  <2> SUFFICES ASSUME AccountInv, [Next]_vars PROVE AccountInv'
    OBVIOUS
  <2>0. StoredInv
    BY DEF AccountInv
  <2>1. ASSUME UNCHANGED alive, NEW t \in Threads, Step(t) PROVE AccountInv'
    <3>1. StoredInv'
      BY <2>0, <2>1, ThreadKeeps
    <3>2. ReadIsUsage' /\ Held' /\ UsageExact' /\ Opens'
      BY <2>0, <2>1, <3>1, ReadKept, HeldKept, ExactKept, OpensKept DEF AccountInv
    <3>3. LimitInv'
      <4> SUFFICES ASSUME user_limit_', Never(Disturbed)' PROVE Covered' /\ Admission'
        BY DEF LimitInv
      <4>1. user_limit_ /\ Never(Disturbed)
        BY <2>0, <2>1, StepFrame DEF StoredInv, ShapeInv, Never
      <4>2. Covered /\ Admission
        BY <4>1 DEF AccountInv, LimitInv
      <4> QED
        BY <2>0, <2>1, <3>1, <4>1, <4>2, CoveredKept, AdmissionKept DEF AccountInv
    <3> QED
      BY <3>1, <3>2, <3>3 DEF AccountInv
  <2>2. ASSUME NEW d \in dying, Unmap(d) PROVE AccountInv'
    <3>1. StoredInv'
      BY <2>0, <2>2, UnmapKeeps
    <3>2. TypeInv
      BY <2>0 DEF StoredInv, ShapeInv
    <3>3. \A a \in Addresses : /\ maps'[a].len = maps[a].len
                               /\ maps'[a].fsize = maps[a].fsize
                               /\ maps'[a].open = maps[a].open
      <4>1. CASE maps' = maps
        BY <4>1
      <4> QED
        BY <2>2, <3>2, <4>1, UnmapFacts, MunmapKeeps
    <3>4. /\ seen \subseteq seen'
          /\ UNCHANGED <<user_limit_, self_total_usage, total_idle, dict, pc, op, reg>>
      BY <2>2, NotesFacts DEF Unmap, statVars
    <3> QED
      BY <3>1, <3>3, <3>4, AccountFrame
  <2>3. CASE UNCHANGED alive /\ Start
    <3>1. total_idle' \in 0 .. Word - 1
      BY <2>0, <2>3, IdleRange DEF Start, StoredInv, ShapeInv, TypeInv
    <3>2. StoredInv'
      BY <2>0, <2>3, <3>1, IdleKeeps DEF Start
    <3> QED
      BY <2>3, <3>2, AccountFrame DEF Start, memVars
  <2>4. CASE UNCHANGED vars
    <3>1. total_idle' \in 0 .. Word - 1
      BY <2>0, <2>4 DEF vars, StoredInv, ShapeInv, TypeInv, StatType
    <3>2. StoredInv'
      BY <2>0, <2>4, <3>1, IdleKeeps DEF vars, memVars
    <3> QED
      BY <2>4, <3>2, AccountFrame DEF vars
  <2> QED
    BY <2>1, <2>2, <2>3, <2>4 DEF Next, Rest
<1> QED
  BY <1>1, AccountInit, PTL DEF Spec

(* self_total_usage is, as a word of the machine, the length of all stored *)
(* mappings and of those counted and not stored yet, until an update is    *)
(* lost, an allocation fails, an entry is replaced or a file is resized    *)
(* (monitor.cpp:96,112,121).                                               *)
THEOREM UsageCorrect == Spec => []UsageExact
<1>1. AccountInv => UsageExact
  BY DEF AccountInv
<1> QED
  BY <1>1, AccountInvariance, PTL

(* Memfds in use never hold more than the limit the user sets, as long as  *)
(* no two admissions overlap and no update of the usage is lost: the check *)
(* of enough() then sees at most what is left (monitor.cpp:76,88).         *)
THEOREM LimitCorrect == Spec => []WithinLimit
<1>1. ASSUME AccountInv PROVE WithinLimit
  <2> SUFFICES ASSUME user_limit_, Never(Disturbed)
               PROVE  Sum(InUse, Addresses) <= Capacity
    BY DEF WithinLimit, Disturbed
  <2>1. TypeInv /\ Covered /\ Admission
    BY <1>1 DEF AccountInv, LimitInv, StoredInv, ShapeInv
  <2>2. /\ Sum(InUse, Addresses) \in Nat /\ Sum(Pending, Threads) \in Nat
        /\ self_total_usage \in Nat /\ Capacity \in Nat
    BY <2>1, SumsAreNat, SizeFacts DEF TypeInv, StatType
  <2> QED
    BY <2>1, <2>2 DEF Covered, Admission
<1> QED
  BY <1>1, AccountInvariance, PTL
=============================================================================
