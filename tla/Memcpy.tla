------------------------------ MODULE Memcpy ------------------------------
(***************************************************************************)
(* transom_memcpy: the training process copies a checkpoint into the       *)
(* shared memory of the server. The caller's thread walks through the      *)
(* tensors and starts copying threads; at the end it joins them all.       *)
(* Host memory is copied by several threads per tensor, device memory by   *)
(* two threads that go through pinned buffers of their own, block by block.*)
(* An address holds one cell; the size in front of a tensor takes one.     *)
(***************************************************************************)
EXTENDS Integers, Sequences, FiniteSets

CONSTANTS
  Checkpoints,   \* sequences of nBytes, one number per tensor
  MetaSize,      \* metadata_size
  BUFFER_SIZE,   \* cells of a pinned buffer (512 KiB in the code)
  Devices        \* where tensors may live: TRUE is device memory

BUFFER_NUMS == 2
num_threads == 4

ASSUME MemcpyAssumption ==
  /\ Checkpoints \subseteq Seq(Nat)
  /\ MetaSize \in Nat \ {0}
  /\ BUFFER_SIZE \in Nat \ {0}
  /\ Devices \subseteq BOOLEAN

VARIABLES
  nBytes, USE_CUDA,  \* the call's tensors
  shm,               \* address -> cell written there
  pin_buffer,        \* cells last fetched into each pinned buffer
  pc, i, offset,     \* caller: step, tensors done, position
  threads            \* copying threads that have not ended

vars == <<nBytes, USE_CUDA, shm, pin_buffer, pc, i, offset, threads>>

Nothing == <<"nothing">>
Meta(k) == <<"meta", k>>
SizeOf(t) == <<"size", t>>
Data(t, k) == <<"data", t, k>>

(* The layout engine.load expects: metadata, then size and data of each    *)
(* tensor. Start(t) is the address of t's data.                            *)
Start(t) ==
  LET sum[k \in 0 .. t] == IF k = 0 THEN 0 ELSE sum[k - 1] + nBytes[k]
  IN  MetaSize + sum[t - 1] + t
ShmSize ==
  IF nBytes = <<>> THEN MetaSize ELSE Start(Len(nBytes)) + nBytes[Len(nBytes)]
Address == 0 .. ShmSize - 1
Layout ==
  [a \in Address |->
     IF a < MetaSize THEN Meta(a)
     ELSE LET t == CHOOSE u \in 1 .. Len(nBytes) :
                     Start(u) - 1 <= a /\ a < Start(u) + nBytes[u]
          IN  IF a = Start(t) - 1 THEN SizeOf(t) ELSE Data(t, a - Start(t))]

Init ==
  /\ nBytes \in Checkpoints
  /\ USE_CUDA \in IF nBytes = <<>> THEN {FALSE} ELSE Devices
  /\ shm = [a \in Address |-> Nothing]
  /\ pin_buffer = [b \in 1 .. Len(nBytes) * BUFFER_NUMS + 1 |-> <<>>]
  /\ pc = "tensors"
  /\ i = 0
  /\ offset = 0
  /\ threads = {[to |-> 0, cells |-> [k \in 1 .. MetaSize |-> Meta(k - 1)],
                 pin |-> 0, blocks |-> 0, full |-> FALSE]}

(* memcpy of the cells to the address (out of range: a fault, no effect).  *)
Copied(to, cells) ==
  [a \in Address |->
     IF a - to + 1 \in 1 .. Len(cells) THEN cells[a - to + 1] ELSE shm[a]]

(* len cells of tensor t from position from on.                            *)
Cells(t, from, len) == [k \in 1 .. len |-> Data(t, from + k - 1)]

(* A thread that copies len cells of t at once, through no pinned buffer.  *)
Direct(t, to, from, len) ==
  [to |-> to + from, cells |-> Cells(t, from, len), pin |-> 0, blocks |-> 0,
   full |-> FALSE]

(* Faulty variant: the rest goes behind the previous part, not its own.    *)
HostThreadsShifted(t, to) ==
  LET per == nBytes[t] \div num_threads IN
  {Direct(t, to, per * j, per) : j \in 0 .. num_threads - 1}
    \cup {Direct(t, to - per, per * num_threads, nBytes[t] % num_threads)}

(* Host memory: equal parts, and one thread for the rest.                  *)
HostThreads(t, to) ==
  LET per == nBytes[t] \div num_threads IN
  {Direct(t, to, per * j, per) : j \in 0 .. num_threads - 1}
    \cup {Direct(t, to, per * num_threads, nBytes[t] % num_threads)}

shared_nums(t) == nBytes[t] \div BUFFER_SIZE
shared_remainder(t) == nBytes[t] % BUFFER_SIZE

(* Device memory: each of two threads loops over half of the full blocks.  *)
DeviceThreads(t, to) ==
  LET half == shared_nums(t) \div BUFFER_NUMS
      loop(from, pin) == [to |-> to + from, cells |-> Cells(t, from, half * BUFFER_SIZE),
                          pin |-> pin, blocks |-> half, full |-> FALSE]
  IN  {loop(0, t), loop(half * BUFFER_SIZE, t + Len(nBytes))}

(* One round of the loop over the tensors: the size, then the threads; for *)
(* device memory the caller copies the rest itself, behind all full blocks.*)
NextTensor ==
  LET t == i + 1
      to == MetaSize + offset + 1
      from == shared_nums(t) * BUFFER_SIZE
      size == [to |-> to - 1, cells |-> <<SizeOf(t)>>, pin |-> 0, blocks |-> 0,
               full |-> FALSE]
      rest == Cells(t, from, shared_remainder(t))
      last == Len(pin_buffer) IN
  /\ pc = "tensors"
  /\ i < Len(nBytes)
  /\ i' = t
  /\ offset' = offset + 1 + nBytes[t]
  /\ \/ /\ USE_CUDA
        /\ threads' = threads \cup {size} \cup DeviceThreads(t, to)
        /\ pin_buffer' = [pin_buffer EXCEPT ![last] = rest]
        /\ shm' = Copied(to + from, rest)
     \/ /\ ~USE_CUDA
        /\ threads' = threads \cup {size} \cup HostThreads(t, to)
        /\ UNCHANGED <<pin_buffer, shm>>
  /\ UNCHANGED <<nBytes, USE_CUDA, pc>>

(* A thread without pinned buffer is one memcpy.                           *)
CopyDirect(th) ==
  /\ th.pin = 0
  /\ shm' = Copied(th.to, th.cells)
  /\ threads' = threads \ {th}
  /\ UNCHANGED <<nBytes, USE_CUDA, pin_buffer, pc, i, offset>>

(* cudaMemcpy of the next block into the thread's pinned buffer ...        *)
FetchBlock(th) ==
  /\ th.pin > 0 /\ ~th.full /\ th.blocks > 0
  /\ pin_buffer' = [pin_buffer EXCEPT ![th.pin] = SubSeq(th.cells, 1, BUFFER_SIZE)]
  /\ threads' = (threads \ {th}) \cup {[th EXCEPT !.full = TRUE]}
  /\ UNCHANGED <<nBytes, USE_CUDA, shm, pc, i, offset>>

(* ... and memcpy to its place.                                            *)
StoreBlock(th) ==
  /\ th.full
  /\ shm' = Copied(th.to, pin_buffer[th.pin])
  /\ threads' = (threads \ {th}) \cup
       {[th EXCEPT !.to = @ + BUFFER_SIZE, !.blocks = @ - 1, !.full = FALSE,
                   !.cells = SubSeq(@, BUFFER_SIZE + 1, Len(@))]}
  /\ UNCHANGED <<nBytes, USE_CUDA, pin_buffer, pc, i, offset>>

BlocksDone(th) ==
  /\ th.pin > 0 /\ ~th.full /\ th.blocks = 0
  /\ threads' = threads \ {th}
  /\ UNCHANGED <<nBytes, USE_CUDA, shm, pin_buffer, pc, i, offset>>

(* Faulty variant: threads are not joined.                                 *)
FinishEarly ==
  /\ pc = "tensors" /\ i = Len(nBytes)
  /\ pc' = IF offset + MetaSize = ShmSize THEN "true" ELSE "false"
  /\ UNCHANGED <<nBytes, USE_CUDA, shm, pin_buffer, i, offset, threads>>

(* All threads joined: the result tells whether the offsets add up.        *)
Finish ==
  /\ pc = "tensors" /\ i = Len(nBytes)
  /\ threads = {}
  /\ pc' = IF offset + MetaSize = ShmSize THEN "true" ELSE "false"
  /\ UNCHANGED <<nBytes, USE_CUDA, shm, pin_buffer, i, offset, threads>>

Next ==
  \/ NextTensor \/ Finish
  \/ \E th \in threads :
       CopyDirect(th) \/ FetchBlock(th) \/ StoreBlock(th) \/ BlocksDone(th)

Spec == Init /\ [][Next]_vars

-----------------------------------------------------------------------------
(* No thread ever writes a cell to a place that is not its own, in any     *)
(* order of the threads: what is written is what the layout has there.     *)
WritesInPlace == \A a \in Address : shm[a] \in {Nothing, Layout[a]}

(* A successful copy is complete, from host memory always and from device  *)
(* memory when every tensor has an even number of full blocks.             *)
CopyComplete ==
  /\ pc = "true"
  /\ USE_CUDA => \A t \in 1 .. Len(nBytes) : shared_nums(t) % BUFFER_NUMS = 0
  => shm = Layout
=============================================================================
