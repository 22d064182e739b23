---------------------------- MODULE MemcpyProofs ----------------------------
(***************************************************************************)
(* Proofs about Memcpy, for any checkpoints, metadata and pinned buffers:  *)
(* every cell is written to its place, and a copy that returns true is     *)
(* complete. The places are sums of the sizes, a recursive function, known *)
(* by induction over the tensors; the rest is arithmetic on the addresses  *)
(* and one lemma per action.                                               *)
(***************************************************************************)
EXTENDS Memcpy, SequenceTheorems, WellFoundedInduction, TLAPS

(* Induction over the numbers, with a set in place of a predicate.         *)
LEMMA Induct ==
  ASSUME NEW T \in SUBSET Nat, 0 \in T, \A n \in T : n + 1 \in T
  PROVE  T = Nat
<1> SUFFICES ASSUME NEW n \in Nat, n \notin T PROVE FALSE
  OBVIOUS
<1> DEFINE R == {p \in Nat \X Nat : p[1] < p[2]}
<1>1. IsWellFoundedOn(R, Nat)
  BY NatLessThanWellFounded DEF OpToRel
<1>2. PICK m \in Nat \ T : \A k \in Nat \ T : <<k, m>> \notin R
  <2>1. n \in Nat \ T /\ Nat \ T \subseteq Nat
    OBVIOUS
  <2> HIDE DEF R
  <2> QED
    BY <1>1, <2>1, WFMin
<1>3. \A k \in Nat \ T : ~(k < m)
  BY <1>2
<1>4. m # 0 /\ m - 1 \in Nat
  BY <1>2
<1>5. m - 1 \in T
  BY <1>3, <1>4
<1> QED
  BY <1>2, <1>4, <1>5

(* What is known of the tensors' sizes.                                    *)
Tensors == nBytes \in Seq(Nat)

(* The tensors of the call.                                                *)
Count == Len(nBytes)

(* The sizes are numbers.                                                  *)
LEMMA TensorFacts ==
  ASSUME Tensors
  PROVE  Count \in Nat /\ \A t \in 1 .. Count : nBytes[t] \in Nat
  BY DEF Tensors, Count

(* The sums Start computes, for positions up to t.                         *)
Adds(g, t) == g = [k \in 0 .. t |-> IF k = 0 THEN 0 ELSE g[k - 1] + nBytes[k]]

(* Start takes its sum from such a function.                               *)
LEMMA StartIs ==
  ASSUME NEW t
  PROVE  Start(t) = MetaSize + (CHOOSE g : Adds(g, t))[t - 1] + t
  BY DEF Start, Adds

(* There is one: its values are chosen as those of shorter ones.           *)
LEMMA AddsExists ==
  ASSUME NEW t \in Nat
  PROVE  \E g : Adds(g, t)
<1> DEFINE T == {n \in Nat : \E g : Adds(g, n)}
<1>1. 0 \in T
  <2> DEFINE g == [k \in 0 .. 0 |-> 0]
  <2>1. g = [k \in 0 .. 0 |-> IF k = 0 THEN 0 ELSE g[k - 1] + nBytes[k]]
    OBVIOUS
  <2> HIDE DEF g
  <2>2. Adds(g, 0)
    BY <2>1 DEF Adds
  <2> QED
    BY <2>2
<1>2. ASSUME NEW n \in T PROVE n + 1 \in T
  <2>1. PICK g : Adds(g, n)
    OBVIOUS
  <2> DEFINE h == [k \in 0 .. n + 1 |-> IF k = 0 THEN 0 ELSE g[k - 1] + nBytes[k]]
  <2>2. \A k \in 0 .. n : h[k] = g[k]
    BY <2>1 DEF Adds
  <2>3. \A k \in 0 .. n + 1 : k # 0 => k - 1 \in 0 .. n
    OBVIOUS
  <2>4. h = [k \in 0 .. n + 1 |-> IF k = 0 THEN 0 ELSE h[k - 1] + nBytes[k]]
    <3> HIDE DEF h
    <3>1. \A k \in 0 .. n + 1 : k # 0 => h[k - 1] = g[k - 1]
      BY <2>2, <2>3
    <3> QED
      BY <3>1 DEF h
  <2> HIDE DEF h
  <2>5. Adds(h, n + 1)
    BY <2>4 DEF Adds
  <2> QED
    BY <2>5
<1>3. T = Nat
  <2>1. T \in SUBSET Nat
    OBVIOUS
  <2> HIDE DEF T
  <2> QED
    BY <1>1, <1>2, <2>1, Induct
<1> QED
  BY <1>3

(* All these sums agree, and are natural numbers.                          *)
LEMMA AddsAgree ==
  ASSUME Tensors, NEW t \in Nat, NEW u \in Nat, NEW g, NEW h, Adds(g, t), Adds(h, u),
         NEW k \in Nat, k <= t, k <= u, k <= Count
  PROVE  g[k] = h[k] /\ g[k] \in Nat
<1> DEFINE T == {n \in Nat : n <= t /\ n <= u /\ n <= Count => g[n] = h[n] /\ g[n] \in Nat}
<1>0. /\ \A n \in 0 .. t : g[n] = IF n = 0 THEN 0 ELSE g[n - 1] + nBytes[n]
      /\ \A n \in 0 .. u : h[n] = IF n = 0 THEN 0 ELSE h[n - 1] + nBytes[n]
  BY DEF Adds
<1>1. 0 \in T
  BY <1>0
<1>2. ASSUME NEW n \in T PROVE n + 1 \in T
  <2> SUFFICES ASSUME n + 1 <= t, n + 1 <= u, n + 1 <= Count
               PROVE  g[n + 1] = h[n + 1] /\ g[n + 1] \in Nat
    OBVIOUS
  <2>1. n + 1 \in 0 .. t /\ n + 1 \in 0 .. u /\ n + 1 # 0 /\ (n + 1) - 1 = n
    OBVIOUS
  <2>2. nBytes[n + 1] \in Nat
    BY TensorFacts
  <2>3. g[n] = h[n] /\ g[n] \in Nat
    BY TensorFacts
  <2>4. g[n + 1] = g[n] + nBytes[n + 1] /\ h[n + 1] = h[n] + nBytes[n + 1]
    BY <1>0, <2>1
  <2> QED
    BY <2>2, <2>3, <2>4
<1>3. T = Nat
  <2>1. T \in SUBSET Nat
    OBVIOUS
  <2> HIDE DEF T
  <2> QED
    BY <1>1, <1>2, <2>1, Induct
<1> QED
  BY <1>3

(* The first tensor lies behind the metadata and its own size.             *)
LEMMA StartFirst == Start(1) = MetaSize + 1
<1> DEFINE g == CHOOSE f : Adds(f, 1)
<1>1. Adds(g, 1)
  BY AddsExists
<1>2. Start(1) = MetaSize + g[0] + 1
  <2>1. 1 - 1 = 0
    OBVIOUS
  <2> QED
    BY <2>1, StartIs
<1> HIDE DEF g
<1>3. g[0] = 0
  BY <1>1 DEF Adds
<1> QED
  BY <1>2, <1>3, MemcpyAssumption

(* Each tensor lies behind the one before it, with its size between.       *)
LEMMA StartNext ==
  ASSUME Tensors, NEW t \in 1 .. Count
  PROVE  Start(t + 1) = Start(t) + nBytes[t] + 1 /\ Start(t) \in Nat /\ Start(t + 1) \in Nat
<1> DEFINE g == CHOOSE f : Adds(f, t)
           h == CHOOSE f : Adds(f, t + 1)
<1>1. Adds(g, t) /\ Adds(h, t + 1)
  BY AddsExists
<1>2. Start(t) = MetaSize + g[t - 1] + t /\ Start(t + 1) = MetaSize + h[t] + (t + 1)
  <2>1. (t + 1) - 1 = t
    OBVIOUS
  <2> QED
    BY <2>1, StartIs
<1> HIDE DEF g, h
<1>3. h[t - 1] = g[t - 1] /\ h[t - 1] \in Nat
  <2>1. /\ t \in Nat /\ t + 1 \in Nat /\ t - 1 \in Nat /\ t - 1 <= t /\ t - 1 <= t + 1
        /\ t - 1 <= Count
    BY TensorFacts
  <2> QED
    BY <1>1, <2>1, AddsAgree
<1>4. h[t] = h[t - 1] + nBytes[t] /\ nBytes[t] \in Nat
  BY <1>1, TensorFacts DEF Adds
<1>5. t \in Nat /\ MetaSize \in Nat
  BY TensorFacts, MemcpyAssumption
<1>6. Start(t) = MetaSize + h[t - 1] + t
  BY <1>2, <1>3
<1>7. Start(t + 1) = MetaSize + (h[t - 1] + nBytes[t]) + (t + 1)
  BY <1>2, <1>4
<1>8. Start(t + 1) = Start(t) + nBytes[t] + 1
  BY <1>3, <1>4, <1>5, <1>6, <1>7
<1>9. Start(t) \in Nat
  BY <1>3, <1>5, <1>6
<1> QED
  BY <1>4, <1>8, <1>9

(* The tensors lie one behind the other.                                   *)
LEMMA StartType ==
  ASSUME Tensors, NEW t \in 1 .. Count + 1
  PROVE  Start(t) \in Nat /\ Start(t) >= MetaSize + 1
<1> DEFINE T == {n \in Nat : n + 1 <= Count + 1 =>
                   Start(n + 1) \in Nat /\ Start(n + 1) >= MetaSize + 1}
<1>1. 0 \in T
  BY StartFirst, MemcpyAssumption
<1>2. ASSUME NEW n \in T PROVE n + 1 \in T
  <2> SUFFICES ASSUME (n + 1) + 1 <= Count + 1
               PROVE  Start((n + 1) + 1) \in Nat /\ Start((n + 1) + 1) >= MetaSize + 1
    OBVIOUS
  <2>1. n + 1 \in 1 .. Count /\ n \in Nat
    BY TensorFacts
  <2>2. Start((n + 1) + 1) = Start(n + 1) + nBytes[n + 1] + 1
    BY <2>1, StartNext
  <2>3. Start(n + 1) \in Nat /\ Start(n + 1) >= MetaSize + 1 /\ nBytes[n + 1] \in Nat
    BY <2>1, TensorFacts
  <2> QED
    BY <2>2, <2>3, MemcpyAssumption
<1>3. T = Nat
  <2>1. T \in SUBSET Nat
    OBVIOUS
  <2> HIDE DEF T
  <2> QED
    BY <1>1, <1>2, <2>1, Induct
<1>4. t - 1 \in T
  <2> HIDE DEF T
  <2> QED
    BY <1>3
<1>5. (t - 1) + 1 = t /\ t <= Count + 1
  OBVIOUS
<1> QED
  BY <1>4, <1>5

(* A tensor ends, and the next size fits, before any later tensor begins.  *)
LEMMA StartOrder ==
  ASSUME Tensors, NEW t \in 1 .. Count, NEW u \in 1 .. Count + 1, t < u
  PROVE  Start(t) + nBytes[t] + 1 <= Start(u)
<1> DEFINE T == {n \in Nat : t + 1 + n <= Count + 1 => Start(t) + nBytes[t] + 1 <= Start(t + 1 + n)}
<1>1. 0 \in T
  <2>1. t + 1 + 0 = t + 1
    OBVIOUS
  <2>2. Start(t + 1) = Start(t) + nBytes[t] + 1 /\ Start(t + 1) \in Nat
    BY StartNext
  <2>3. Start(t) + nBytes[t] + 1 <= Start(t + 1 + 0)
    BY <2>1, <2>2
  <2> QED
    BY <2>3
<1>2. ASSUME NEW n \in T PROVE n + 1 \in T
  <2> SUFFICES ASSUME t + 1 + (n + 1) <= Count + 1
               PROVE  Start(t) + nBytes[t] + 1 <= Start(t + 1 + (n + 1))
    OBVIOUS
  <2> DEFINE v == t + 1 + n
  <2>1. v \in 1 .. Count /\ v + 1 = t + 1 + (n + 1) /\ v <= Count + 1
    BY TensorFacts
  <2>2. Start(t) + nBytes[t] + 1 <= Start(v)
    BY <2>1
  <2> HIDE DEF v
  <2>3. Start(v + 1) = Start(v) + nBytes[v] + 1 /\ Start(v) \in Nat /\ Start(v + 1) \in Nat
    BY <2>1, StartNext
  <2>4. nBytes[v] \in Nat /\ nBytes[t] \in Nat
    BY <2>1, TensorFacts
  <2>5. Start(t) \in Nat
    BY StartNext
  <2>6. Start(t) + nBytes[t] + 1 <= Start(v + 1)
    BY <2>2, <2>3, <2>4, <2>5
  <2> QED
    BY <2>1, <2>6
<1>3. T = Nat
  <2>1. T \in SUBSET Nat
    OBVIOUS
  <2> HIDE DEF T
  <2> QED
    BY <1>1, <1>2, <2>1, Induct
<1>4. u - t - 1 \in T
  <2> HIDE DEF T
  <2> QED
    BY <1>3
<1>5. t + 1 + (u - t - 1) = u
  OBVIOUS
<1>6. u <= Count + 1
  OBVIOUS
<1> QED
  BY <1>4, <1>5, <1>6

(* The shared memory ends with the last tensor.                            *)
LEMMA ShmEnd ==
  ASSUME Tensors
  PROVE  ShmSize = Start(Count + 1) - 1 /\ ShmSize \in Nat /\ ShmSize >= MetaSize
<1>1. CASE nBytes = <<>>
  <2>1. Count + 1 = 1
    BY <1>1 DEF Count
  <2> QED
    BY <1>1, <2>1, StartFirst, MemcpyAssumption DEF ShmSize, Count
<1>2. CASE nBytes # <<>>
  <2>1. Count \in 1 .. Count
    BY <1>2 DEF Tensors, Count
  <2>2. /\ Start(Count + 1) = Start(Count) + nBytes[Count] + 1
        /\ Start(Count) \in Nat
    BY <2>1, StartNext
  <2>3. nBytes[Count] \in Nat
    BY <2>1, TensorFacts
  <2>4. ShmSize = Start(Count) + nBytes[Count]
    BY <1>2 DEF ShmSize, Count
  <2>5. Start(Count) >= MetaSize + 1
    BY <2>1, StartType
  <2> QED
    BY <2>2, <2>3, <2>4, <2>5, MemcpyAssumption
<1> QED
  BY <1>1, <1>2

(* Every address belongs to the metadata or to one tensor.                 *)
Owns(t, a) == Start(t) - 1 <= a /\ a < Start(t) + nBytes[t]

(* An address behind the metadata belongs to one tensor at most.           *)
LEMMA OneOwner ==
  ASSUME Tensors, NEW t \in 1 .. Count, NEW a \in Int, Owns(t, a)
  PROVE  /\ a \in Address /\ ~(a < MetaSize)
         /\ \A u \in 1 .. Count : Owns(u, a) => u = t
<1>1. Start(t) + nBytes[t] + 1 <= Start(Count + 1)
  BY StartOrder, TensorFacts
<1>2. /\ Start(t) \in Nat /\ Start(t) >= MetaSize + 1 /\ nBytes[t] \in Nat
      /\ Start(Count + 1) \in Nat /\ MetaSize \in Nat
  BY StartType, MemcpyAssumption, TensorFacts
<1>3. a \in Address
  <2>1. ShmSize = Start(Count + 1) - 1 /\ ShmSize \in Nat
    BY ShmEnd
  <2>2. 0 <= a
    BY <1>2 DEF Owns
  <2>3. a < ShmSize
    BY <1>1, <1>2, <2>1 DEF Owns
  <2> QED
    BY <2>1, <2>2, <2>3 DEF Address
<1>4. ~(a < MetaSize)
  BY <1>2 DEF Owns
<1>5. ASSUME NEW u \in 1 .. Count, Owns(u, a) PROVE u = t
  <2>1. Start(u) \in Nat /\ nBytes[u] \in Nat
    BY StartType, TensorFacts
  <2>2. Start(u) - 1 <= a /\ a < Start(u) + nBytes[u]
    BY <1>5 DEF Owns
  <2>3. Start(t) - 1 <= a /\ a < Start(t) + nBytes[t]
    BY DEF Owns
  <2>4. ~(u < t)
    <3>1. u < t => Start(u) + nBytes[u] + 1 <= Start(t)
      BY StartOrder, TensorFacts
    <3> QED
      BY <1>2, <2>1, <2>2, <2>3, <3>1
  <2>5. ~(t < u)
    <3>1. t < u => Start(t) + nBytes[t] + 1 <= Start(u)
      BY StartOrder, TensorFacts
    <3> QED
      BY <1>2, <2>1, <2>2, <2>3, <3>1
  <2> QED
    BY <2>4, <2>5
<1> QED
  BY <1>3, <1>4, <1>5

(* What the layout has in the place of a tensor.                           *)
LEMMA LayoutIs ==
  ASSUME Tensors, NEW t \in 1 .. Count, NEW a \in Int, Owns(t, a)
  PROVE  /\ a \in Address
         /\ Layout[a] = IF a = Start(t) - 1 THEN SizeOf(t) ELSE Data(t, a - Start(t))
<1>1. /\ a \in Address /\ ~(a < MetaSize)
      /\ \A u \in 1 .. Count : Owns(u, a) => u = t
  BY OneOwner
<1>2. (CHOOSE u \in 1 .. Count : Start(u) - 1 <= a /\ a < Start(u) + nBytes[u]) = t
  BY <1>1 DEF Owns
<1>3. Layout[a] = LET v == CHOOSE u \in 1 .. Count :
                             Start(u) - 1 <= a /\ a < Start(u) + nBytes[u]
                  IN  IF a = Start(v) - 1 THEN SizeOf(v) ELSE Data(v, a - Start(v))
  BY <1>1 DEF Layout, Count
<1> QED
  BY <1>1, <1>2, <1>3

(* What the layout has in the place of the metadata.                       *)
LEMMA LayoutMeta ==
  ASSUME Tensors, NEW a \in 0 .. MetaSize - 1
  PROVE  a \in Address /\ Layout[a] = Meta(a)
<1>1. a \in Address /\ a < MetaSize
  BY ShmEnd, MemcpyAssumption DEF Address
<1> QED
  BY <1>1 DEF Layout

(* What may be written, and the records of copying threads.                *)
Cell == {Meta(k) : k \in Nat} \cup {SizeOf(t) : t \in Nat} \cup {Data(t, k) : t \in Nat, k \in Nat}
Task == [to : Nat, cells : Seq(Cell), pin : Nat, blocks : Nat, full : BOOLEAN]

(* Types. The memory has the addresses of the layout and no others.        *)
MemType ==
  /\ Tensors /\ USE_CUDA \in BOOLEAN
  /\ shm = [a \in Address |-> shm[a]]
  /\ pin_buffer \in Seq(Seq(Cell)) /\ Len(pin_buffer) = 2 * Count + 1
  /\ threads \subseteq Task

(* What a copying thread still writes is what the layout has there.        *)
Fits(to, cells) ==
  \A k \in 1 .. Len(cells) : to + k - 1 \in Address /\ Layout[to + k - 1] = cells[k]

(* A pinned buffer belongs to a tensor that has been reached.              *)
Begun(pin) == pin \in 1 .. i \/ pin \in Count + 1 .. Count + i

(* What a thread knows: its buffer is its own, full of its next block, and *)
(* every cell it still has fits.                                           *)
Shaped(th) ==
  /\ th.pin > 0 => Begun(th.pin) /\ Len(th.cells) = th.blocks * BUFFER_SIZE
  /\ th.full => /\ th.pin > 0 /\ th.blocks > 0
                /\ pin_buffer[th.pin] = SubSeq(th.cells, 1, BUFFER_SIZE)
  /\ Fits(th.to, th.cells)

(* The caller's position is where the layout has the next tensor.          *)
Walk ==
  /\ i \in 0 .. Count /\ offset \in Nat /\ offset + MetaSize + 1 = Start(i + 1)
  /\ pc # "tensors" => threads = {} /\ i = Count

(* No two threads share a pinned buffer.                                   *)
Pins == \A th, u \in threads : th.pin > 0 /\ th.pin = u.pin => th = u

(* The thread will write the address.                                      *)
Covers(th, a) == a - th.to + 1 \in 1 .. Len(th.cells)

(* Both threads of a tensor in device memory have whole halves.            *)
Even == USE_CUDA => \A t \in 1 .. Count : shared_nums(t) % BUFFER_NUMS = 0

(* Every address is written, will be, or belongs to a tensor not reached.  *)
Covered ==
  Even => \A a \in Address :
            \/ shm[a] = Layout[a]
            \/ \E th \in threads : Covers(th, a)
            \/ Start(i + 1) - 1 <= a

(* The inductive invariant of the copy.                                    *)
CopyInv ==
  /\ MemType /\ Walk /\ Pins /\ WritesInPlace /\ Covered
  /\ \A th \in threads : Shaped(th)

(* The fields of a thread's record.                                        *)
LEMMA TaskFacts ==
  ASSUME NEW th \in Task
  PROVE  /\ th.to \in Nat /\ th.cells \in Seq(Cell) /\ th.pin \in Nat /\ th.blocks \in Nat
         /\ th.full \in BOOLEAN /\ Len(th.cells) \in Nat
<1>1. th.cells \in Seq(Cell)
  BY DEF Task
<1>2. Len(th.cells) \in Nat
  BY <1>1, LenProperties
<1> QED
  BY <1>1, <1>2 DEF Task

(* Functions on 1 .. n are sequences of that length.                       *)
LEMMA ListFacts ==
  ASSUME NEW S, NEW n \in Nat, NEW s \in [1 .. n -> S]
  PROVE  s \in Seq(S) /\ Len(s) = n
<1>1. s \in Seq(S)
  BY SeqDef
<1>2. Len(s) \in Nat /\ DOMAIN s = 1 .. Len(s)
  BY <1>1, LenProperties
<1> QED
  BY <1>1, <1>2

(* Cells lists the cells of a tensor, one by one.                          *)
LEMMA CellsFacts ==
  ASSUME NEW t \in Nat, NEW from \in Nat, NEW len \in Nat
  PROVE  /\ Cells(t, from, len) \in Seq(Cell) /\ Len(Cells(t, from, len)) = len
         /\ \A k \in 1 .. len : Cells(t, from, len)[k] = Data(t, from + k - 1)
<1> DEFINE s == [k \in 1 .. len |-> Data(t, from + k - 1)]
<1>1. \A k \in 1 .. len : from + k - 1 \in Nat
  OBVIOUS
<1>2. s \in [1 .. len -> Cell]
  BY <1>1 DEF Cell
<1>3. s \in Seq(Cell) /\ Len(s) = len
  BY <1>2, ListFacts
<1> QED
  BY <1>3 DEF Cells

(* A part of a tensor, and the size in front of it, fit.                   *)
LEMMA PartFits ==
  ASSUME Tensors, NEW t \in 1 .. Count, NEW from \in Nat, NEW len \in Nat,
         from + len <= nBytes[t]
  PROVE  Fits(Start(t) + from, Cells(t, from, len))
<1>0. t \in Nat /\ nBytes[t] \in Nat /\ Start(t) \in Nat
  BY TensorFacts, StartType
<1> SUFFICES ASSUME NEW k \in 1 .. len
             PROVE  /\ Start(t) + from + k - 1 \in Address
                    /\ Layout[Start(t) + from + k - 1] = Cells(t, from, len)[k]
  BY <1>0, CellsFacts DEF Fits
<1> DEFINE a == Start(t) + from + k - 1
<1>1. a \in Int /\ a # Start(t) - 1 /\ a - Start(t) = from + k - 1
  BY <1>0
<1>2. Start(t) - 1 <= a
  BY <1>0
<1>3. a < Start(t) + nBytes[t]
  BY <1>0
<1>4. Owns(t, a)
  BY <1>2, <1>3 DEF Owns
<1> HIDE DEF a
<1>5. a \in Address /\ Layout[a] = Data(t, from + k - 1)
  BY <1>1, <1>4, LayoutIs
<1>6. Cells(t, from, len)[k] = Data(t, from + k - 1)
  BY <1>0, CellsFacts
<1> QED
  BY <1>5, <1>6 DEF a

(* The size in front of a tensor fits.                                     *)
LEMMA SizeFits ==
  ASSUME Tensors, NEW t \in 1 .. Count
  PROVE  /\ <<SizeOf(t)>> \in Seq(Cell) /\ Len(<<SizeOf(t)>>) = 1
         /\ Fits(Start(t) - 1, <<SizeOf(t)>>)
<1>0. t \in Nat /\ nBytes[t] \in Nat /\ Start(t) \in Nat
  BY TensorFacts, StartType
<1>1. SizeOf(t) \in Cell
  BY <1>0 DEF Cell
<1>2. <<SizeOf(t)>> \in Seq(Cell) /\ Len(<<SizeOf(t)>>) = 1 /\ <<SizeOf(t)>>[1] = SizeOf(t)
  BY <1>1
<1>3. Start(t) - 1 \in Address /\ Layout[Start(t) - 1] = SizeOf(t)
  <2>1. Start(t) - 1 \in Int /\ Owns(t, Start(t) - 1)
    BY <1>0 DEF Owns
  <2> QED
    BY <2>1, LayoutIs
<1>4. ASSUME NEW k \in 1 .. 1
      PROVE  /\ Start(t) - 1 + k - 1 \in Address
             /\ Layout[Start(t) - 1 + k - 1] = <<SizeOf(t)>>[k]
  <2>1. k = 1 /\ Start(t) - 1 + k - 1 = Start(t) - 1
    BY <1>0
  <2> QED
    BY <1>2, <1>3, <2>1
<1> QED
  BY <1>2, <1>4 DEF Fits

(* The metadata fits.                                                      *)
LEMMA MetaFits ==
  ASSUME Tensors
  PROVE  LET s == [k \in 1 .. MetaSize |-> Meta(k - 1)]
         IN  s \in Seq(Cell) /\ Len(s) = MetaSize /\ Fits(0, s)
<1> DEFINE s == [k \in 1 .. MetaSize |-> Meta(k - 1)]
<1>0. MetaSize \in Nat
  BY MemcpyAssumption
<1>1. s \in [1 .. MetaSize -> Cell]
  BY <1>0 DEF Cell
<1>2. s \in Seq(Cell) /\ Len(s) = MetaSize
  BY <1>0, <1>1, ListFacts
<1>3. \A k \in 1 .. MetaSize : s[k] = Meta(k - 1)
  OBVIOUS
<1> HIDE DEF s
<1>4. ASSUME NEW k \in 1 .. MetaSize PROVE 0 + k - 1 \in Address /\ Layout[0 + k - 1] = s[k]
  <2>1. 0 + k - 1 = k - 1 /\ k - 1 \in 0 .. MetaSize - 1
    BY <1>0
  <2> QED
    BY <1>3, <2>1, LayoutMeta
<1>5. Fits(0, s)
  BY <1>2, <1>4 DEF Fits
<1> QED
  BY <1>2, <1>5 DEF s

(* Nothing of this depends on more than the sizes.                         *)
LEMMA SizesOnly ==
  ASSUME nBytes' = nBytes
  PROVE  /\ Address' = Address /\ Layout' = Layout /\ Count' = Count /\ (Tensors' <=> Tensors)
         /\ \A t : Start(t)' = Start(t)
  BY DEF Address, Layout, Count, Tensors, ShmSize, Start

(* A memcpy to its place writes what belongs there and nothing else.       *)
LEMMA CopyFits ==
  ASSUME Tensors, WritesInPlace, nBytes' = nBytes,
         NEW to \in Nat, NEW cells, Fits(to, cells), shm' = Copied(to, cells)
  PROVE  /\ WritesInPlace' /\ shm' = [a \in Address |-> shm'[a]]
         /\ \A a \in Address : a - to + 1 \in 1 .. Len(cells) => shm'[a] = Layout[a]
         /\ \A a \in Address : shm[a] = Layout[a] => shm'[a] = Layout[a]
<1>1. \A a \in Address : shm'[a] = IF a - to + 1 \in 1 .. Len(cells) THEN cells[a - to + 1]
                                    ELSE shm[a]
  BY DEF Copied
<1>2. shm' = [a \in Address |-> shm'[a]]
  BY DEF Copied
<1>3. ASSUME NEW a \in Address, a - to + 1 \in 1 .. Len(cells) PROVE shm'[a] = Layout[a]
  <2>1. a \in Int
    BY ShmEnd DEF Address
  <2>2. to + (a - to + 1) - 1 = a
    BY <2>1
  <2>3. Layout[to + (a - to + 1) - 1] = cells[a - to + 1]
    BY <1>3 DEF Fits
  <2> QED
    BY <1>1, <1>3, <2>2, <2>3
<1>4. \A a \in Address : shm[a] = Layout[a] => shm'[a] = Layout[a]
  BY <1>1, <1>3
<1>5. WritesInPlace'
  <2>1. \A a \in Address : shm'[a] \in {Nothing, Layout[a]}
    BY <1>1, <1>3 DEF WritesInPlace
  <2> QED
    BY <2>1, SizesOnly DEF WritesInPlace
<1> QED
  BY <1>2, <1>3, <1>4, <1>5

(* The division of a tensor into blocks, and of blocks into halves.        *)
LEMMA BlockFacts ==
  ASSUME Tensors, NEW t \in 1 .. Count
  PROVE  /\ shared_nums(t) \in Nat /\ shared_remainder(t) \in Nat
         /\ shared_nums(t) * BUFFER_SIZE \in Nat
         /\ shared_nums(t) * BUFFER_SIZE + shared_remainder(t) = nBytes[t]
<1>1. nBytes[t] \in Nat /\ BUFFER_SIZE \in Nat \ {0}
  BY TensorFacts, MemcpyAssumption
<1>2. \A n \in Nat, b \in Nat \ {0} :
        n \div b \in Nat /\ n % b \in Nat /\ (n \div b) * b \in Nat
        /\ (n \div b) * b + (n % b) = n
  BY Z3
<1> QED
  BY <1>1, <1>2 DEF shared_nums, shared_remainder

(* Two halves of the blocks are no more than all, and all if even.         *)
LEMMA HalfFacts ==
  ASSUME NEW n \in Nat
  PROVE  LET half == n \div BUFFER_NUMS
         IN  /\ half \in Nat /\ half * BUFFER_SIZE \in Nat
             /\ half * BUFFER_SIZE + half * BUFFER_SIZE <= n * BUFFER_SIZE
             /\ n % BUFFER_NUMS = 0 =>
                  half * BUFFER_SIZE + half * BUFFER_SIZE = n * BUFFER_SIZE
<1> DEFINE half == n \div 2
<1>0. BUFFER_SIZE \in Nat
  BY MemcpyAssumption
<1>1. half \in Nat /\ (n = half + half \/ (n = half + half + 1 /\ n % 2 = 1))
  OBVIOUS
<1>2. n % 2 = 0 => n = half + half
  OBVIOUS
<1> HIDE DEF half
<1>3. half * BUFFER_SIZE \in Nat
  BY <1>0, <1>1, Z3
<1>4. (half + half) * BUFFER_SIZE = half * BUFFER_SIZE + half * BUFFER_SIZE
  BY <1>0, <1>1, Z3
<1>5. (half + half + 1) * BUFFER_SIZE = half * BUFFER_SIZE + half * BUFFER_SIZE + BUFFER_SIZE
  BY <1>0, <1>1, Z3
<1>6. half * BUFFER_SIZE + half * BUFFER_SIZE <= n * BUFFER_SIZE
  BY <1>0, <1>1, <1>3, <1>4, <1>5
<1> QED
  BY <1>1, <1>2, <1>3, <1>4, <1>6 DEF half, BUFFER_NUMS

(* What is new after a tensor is reached.                                  *)
New(t, th) == th \in Task /\ Fits(th.to, th.cells) /\ ~th.full

(* A thread that copies a part at once writes that part, in its place.     *)
LEMMA DirectNew ==
  ASSUME Tensors, NEW t \in 1 .. Count, NEW from \in Nat, NEW len \in Nat,
         from + len <= nBytes[t]
  PROVE  LET th == Direct(t, Start(t), from, len)
         IN  /\ New(t, th) /\ th.pin = 0
             /\ \A a \in Int : Start(t) + from <= a /\ a < Start(t) + from + len => Covers(th, a)
<1>0. t \in Nat /\ Start(t) \in Nat
  BY TensorFacts, StartType
<1>1. /\ Cells(t, from, len) \in Seq(Cell) /\ Len(Cells(t, from, len)) = len
      /\ Fits(Start(t) + from, Cells(t, from, len))
  BY <1>0, CellsFacts, PartFits
<1> DEFINE th == Direct(t, Start(t), from, len)
<1>2. /\ th.to = Start(t) + from /\ th.cells = Cells(t, from, len)
      /\ th.pin = 0 /\ th.blocks = 0 /\ th.full = FALSE
  BY DEF Direct
<1>3. th \in Task
  <2>1. Start(t) + from \in Nat
    BY <1>0
  <2> QED
    BY <1>1, <2>1 DEF Direct, Task
<1> HIDE DEF th
<1>4. \A a \in Int : Start(t) + from <= a /\ a < Start(t) + from + len => Covers(th, a)
  BY <1>0, <1>1, <1>2 DEF Covers
<1> QED
  BY <1>1, <1>2, <1>3, <1>4 DEF New, th

(* The threads of a tensor in host memory write all of it.                 *)
LEMMA HostNew ==
  ASSUME Tensors, NEW t \in 1 .. Count
  PROVE  /\ \A th \in HostThreads(t, Start(t)) : New(t, th) /\ th.pin = 0
         /\ \A a \in Int : Start(t) <= a /\ a < Start(t) + nBytes[t] =>
              \E th \in HostThreads(t, Start(t)) : Covers(th, a)
<1> DEFINE n == nBytes[t]
           per == n \div 4
           rest == n % 4
<1>0. n \in Nat /\ Start(t) \in Nat
  BY TensorFacts, StartType
<1>1. per \in Nat /\ rest \in Nat /\ n = per * 4 + rest
  BY <1>0
<1>2. HostThreads(t, Start(t)) = {Direct(t, Start(t), per * j, per) : j \in 0 .. 3}
                                   \cup {Direct(t, Start(t), per * 4, rest)}
  BY DEF HostThreads, num_threads
<1> HIDE DEF per, rest
<1>3. \A j \in 0 .. 3 : per * j \in Nat /\ per * j + per <= n
  BY <1>0, <1>1, Z3
<1> HIDE DEF n
<1>4. per * 4 \in Nat /\ per * 4 + rest <= n
  BY <1>0, <1>1
<1>5. \A th \in HostThreads(t, Start(t)) : New(t, th) /\ th.pin = 0
  BY <1>1, <1>2, <1>3, <1>4, DirectNew DEF n
<1>6. ASSUME NEW a \in Int, Start(t) <= a, a < Start(t) + n
      PROVE  \E th \in HostThreads(t, Start(t)) : Covers(th, a)
  <2>1. \/ \E j \in 0 .. 3 : Start(t) + per * j <= a /\ a < Start(t) + per * j + per
        \/ Start(t) + per * 4 <= a /\ a < Start(t) + per * 4 + rest
    <3>1. /\ per * 0 = 0 /\ per * 1 = per /\ per * 2 = per + per /\ per * 3 = per + per + per
          /\ per * 4 = per + per + per + per
      BY <1>1
    <3>2. CASE a < Start(t) + per
      <4>1. Start(t) + per * 0 <= a /\ a < Start(t) + per * 0 + per
        BY <1>0, <1>1, <1>6, <3>1, <3>2
      <4> QED
        BY <4>1
    <3>3. CASE Start(t) + per <= a /\ a < Start(t) + per + per
      <4>1. Start(t) + per * 1 <= a /\ a < Start(t) + per * 1 + per
        BY <1>0, <1>1, <1>6, <3>1, <3>3
      <4> QED
        BY <4>1
    <3>4. CASE Start(t) + per + per <= a /\ a < Start(t) + per + per + per
      <4>1. Start(t) + per * 2 <= a /\ a < Start(t) + per * 2 + per
        BY <1>0, <1>1, <1>6, <3>1, <3>4
      <4> QED
        BY <4>1
    <3>5. CASE Start(t) + per + per + per <= a /\ a < Start(t) + per + per + per + per
      <4>1. Start(t) + per * 3 <= a /\ a < Start(t) + per * 3 + per
        BY <1>0, <1>1, <1>6, <3>1, <3>5
      <4> QED
        BY <4>1
    <3>6. CASE Start(t) + per + per + per + per <= a
      <4>1. Start(t) + per * 4 <= a /\ a < Start(t) + per * 4 + rest
        BY <1>0, <1>1, <1>6, <3>1, <3>6
      <4> QED
        BY <4>1
    <3> QED
      BY <1>0, <1>1, <1>6, <3>2, <3>3, <3>4, <3>5, <3>6
  <2>2. CASE Start(t) + per * 4 <= a /\ a < Start(t) + per * 4 + rest
    <3>1. Covers(Direct(t, Start(t), per * 4, rest), a)
      BY <1>1, <1>4, <2>2, DirectNew DEF n
    <3> QED
      BY <1>2, <3>1
  <2>3. CASE \E j \in 0 .. 3 : Start(t) + per * j <= a /\ a < Start(t) + per * j + per
    <3>1. PICK j \in 0 .. 3 : Start(t) + per * j <= a /\ a < Start(t) + per * j + per
      BY <2>3
    <3>2. Covers(Direct(t, Start(t), per * j, per), a)
      BY <1>1, <1>3, <3>1, DirectNew DEF n
    <3> QED
      BY <1>2, <3>2
  <2> QED
    BY <2>1, <2>2, <2>3
<1> QED
  BY <1>5, <1>6 DEF n

(* The threads of a tensor in device memory have buffers of their own, and *)
(* with the caller's rest write all of it when the blocks are even.        *)
LEMMA DeviceNew ==
  ASSUME Tensors, NEW t \in 1 .. Count
  PROVE  LET rest == Cells(t, shared_nums(t) * BUFFER_SIZE, shared_remainder(t))
             from == Start(t) + shared_nums(t) * BUFFER_SIZE
         IN  /\ rest \in Seq(Cell) /\ from \in Nat /\ Fits(from, rest)
             /\ \A th \in DeviceThreads(t, Start(t)) :
                  /\ New(t, th) /\ th.pin \in {t, t + Count}
                  /\ Len(th.cells) = th.blocks * BUFFER_SIZE
             /\ \A th, u \in DeviceThreads(t, Start(t)) : th.pin = u.pin => th = u
             /\ shared_nums(t) % BUFFER_NUMS = 0 =>
                  \A a \in Int : Start(t) <= a /\ a < Start(t) + nBytes[t] =>
                    \/ \E th \in DeviceThreads(t, Start(t)) : Covers(th, a)
                    \/ a - from + 1 \in 1 .. Len(rest)
<1> DEFINE nums == shared_nums(t)
           half == nums \div BUFFER_NUMS
           part == half * BUFFER_SIZE
           all == nums * BUFFER_SIZE
           left == shared_remainder(t)
           loop(from, pin) == [to |-> Start(t) + from, cells |-> Cells(t, from, part),
                               pin |-> pin, blocks |-> half, full |-> FALSE]
<1>0. /\ t \in Nat /\ t # 0 /\ Count \in Nat /\ Count # 0 /\ Start(t) \in Nat /\ nBytes[t] \in Nat
      /\ nums \in Nat /\ all \in Nat /\ left \in Nat /\ all + left = nBytes[t]
  BY TensorFacts, StartType, BlockFacts
<1>1. /\ half \in Nat /\ part \in Nat /\ part + part <= all
      /\ nums % BUFFER_NUMS = 0 => part + part = all
  BY <1>0, HalfFacts
<1>2. DeviceThreads(t, Start(t)) = {loop(0, t), loop(part, t + Count)}
  BY DEF DeviceThreads, Count
<1> HIDE DEF nums, half, all, left
<1>3. ASSUME NEW from \in Nat, NEW pin \in {t, t + Count}, from + part <= nBytes[t]
      PROVE  /\ New(t, loop(from, pin)) /\ loop(from, pin).pin = pin
             /\ Len(loop(from, pin).cells) = loop(from, pin).blocks * BUFFER_SIZE
             /\ \A a \in Int : Start(t) + from <= a /\ a < Start(t) + from + part =>
                  Covers(loop(from, pin), a)
  <2>1. /\ Cells(t, from, part) \in Seq(Cell) /\ Len(Cells(t, from, part)) = part
        /\ Fits(Start(t) + from, Cells(t, from, part))
    BY <1>0, <1>1, <1>3, CellsFacts, PartFits
  <2>2. pin \in Nat /\ Start(t) + from \in Nat
    BY <1>0, <1>3
  <2> DEFINE th == loop(from, pin)
  <2>3. /\ th.to = Start(t) + from /\ th.cells = Cells(t, from, part)
        /\ th.pin = pin /\ th.blocks = half /\ th.full = FALSE
    OBVIOUS
  <2>4. th \in Task
    BY <1>1, <2>1, <2>2 DEF Task
  <2> HIDE DEF th
  <2>5. \A a \in Int : Start(t) + from <= a /\ a < Start(t) + from + part => Covers(th, a)
    BY <1>0, <1>1, <2>1, <2>3 DEF Covers
  <2>6. New(t, th)
    BY <2>1, <2>3, <2>4 DEF New
  <2>7. Len(th.cells) = th.blocks * BUFFER_SIZE
    BY <2>1, <2>3
  <2> QED
    BY <2>3, <2>5, <2>6, <2>7 DEF th
<1> HIDE DEF part, loop
<1>4. 0 \in Nat /\ 0 + part <= nBytes[t] /\ part + part <= nBytes[t] /\ Start(t) + 0 = Start(t)
  BY <1>0, <1>1
<1> DEFINE rest == Cells(t, all, left)
           from == Start(t) + all
<1>5. rest \in Seq(Cell) /\ Len(rest) = left /\ from \in Nat /\ Fits(from, rest)
  <2>1. all + left <= nBytes[t]
    BY <1>0
  <2>2. rest \in Seq(Cell) /\ Len(rest) = left
    BY <1>0, CellsFacts
  <2>3. Fits(Start(t) + all, Cells(t, all, left))
    BY <1>0, <2>1, PartFits
  <2>4. Start(t) + all \in Nat
    BY <1>0
  <2> QED
    BY <2>2, <2>3, <2>4
<1>6. ASSUME NEW th \in DeviceThreads(t, Start(t))
      PROVE  /\ New(t, th) /\ th.pin \in {t, t + Count}
             /\ Len(th.cells) = th.blocks * BUFFER_SIZE
  BY <1>1, <1>2, <1>3, <1>4, <1>6
<1>7. \A th, u \in DeviceThreads(t, Start(t)) : th.pin = u.pin => th = u
  <2>1. loop(0, t).pin = t /\ loop(part, t + Count).pin = t + Count
    BY <1>1, <1>3, <1>4
  <2>2. t # t + Count
    BY <1>0
  <2> QED
    BY <1>2, <2>1, <2>2
<1>8. ASSUME nums % BUFFER_NUMS = 0, NEW a \in Int, Start(t) <= a, a < Start(t) + nBytes[t]
      PROVE  \/ \E th \in DeviceThreads(t, Start(t)) : Covers(th, a)
             \/ a - from + 1 \in 1 .. Len(rest)
  <2>1. CASE a < Start(t) + part
    <3>1. Start(t) + 0 <= a /\ a < Start(t) + 0 + part
      BY <1>0, <1>1, <1>8, <2>1
    <3>2. Covers(loop(0, t), a)
      BY <1>3, <1>4, <3>1
    <3> QED
      BY <1>2, <3>2
  <2>2. CASE Start(t) + part <= a /\ a < Start(t) + part + part
    <3>1. Covers(loop(part, t + Count), a)
      BY <1>1, <1>3, <1>4, <2>2
    <3> QED
      BY <1>2, <3>1
  <2>3. CASE Start(t) + part + part <= a
    <3>1. a - from + 1 \in 1 .. left
      BY <1>0, <1>1, <1>8, <2>3
    <3> QED
      BY <1>5, <3>1
  <2> QED
    BY <1>0, <1>1, <2>1, <2>2, <2>3
<1> QED
  BY <1>5, <1>6, <1>7, <1>8 DEF nums, all, left

(* A copying thread ends, or goes on as another record, and writes to its  *)
(* place or not at all.                                                    *)
Kept == UNCHANGED <<nBytes, USE_CUDA, pc, i, offset>>

(* The caller stays where it is.                                           *)
LEMMA WalkKept ==
  ASSUME Walk, Kept, threads # {}
  PROVE  Walk' /\ Count' = Count /\ pc = "tensors"
<1>1. pc = "tensors"
  BY DEF Walk
<1>2. Count' = Count /\ Start(i + 1)' = Start(i + 1)
  BY SizesOnly DEF Kept, Start
<1> QED
  BY <1>1, <1>2 DEF Walk, Kept

(* An address stays covered when what is written stays and what a thread   *)
(* would write is written or left to its successor.                        *)
LEMMA CoveredNext ==
  ASSUME Covered, Kept, threads # {},
         \A a \in Address : shm[a] = Layout[a] => shm'[a] = Layout[a],
         \A a \in Address : \A th \in threads : Covers(th, a) =>
           shm'[a] = Layout[a] \/ \E u \in threads' : Covers(u, a)
  PROVE  Covered'
<1>1. Address' = Address /\ Layout' = Layout /\ Start(i + 1)' = Start(i + 1)
      /\ (Even' <=> Even)
  <2>1. Start(i + 1)' = Start(i + 1)
    BY DEF Kept, Start
  <2>2. Even' <=> Even
    BY SizesOnly DEF Kept, Even, shared_nums
  <2> QED
    BY <2>1, <2>2, SizesOnly DEF Kept
<1> SUFFICES ASSUME Even, NEW a \in Address
             PROVE  \/ shm'[a] = Layout[a]
                    \/ \E th \in threads' : Covers(th, a)
                    \/ Start(i + 1) - 1 <= a
  BY <1>1 DEF Covered, Covers
<1> QED
  BY DEF Covered

(* A thread that does nothing keeps what it knows, if nobody else fills    *)
(* its buffer.                                                             *)
LEMMA ShapedKept ==
  ASSUME Kept, NEW th \in Task, Shaped(th), th.full => pin_buffer'[th.pin] = pin_buffer[th.pin]
  PROVE  Shaped(th)'
<1>1. Fits(th.to, th.cells)'
  BY SizesOnly DEF Kept, Shaped, Fits
<1>2. Begun(th.pin) => Begun(th.pin)'
  BY SizesOnly DEF Kept, Begun
<1> QED
  BY <1>1, <1>2 DEF Shaped

(* CopyDirect keeps the invariant.                                         *)
LEMMA DirectKeeps ==
  ASSUME CopyInv, NEW th \in threads, CopyDirect(th)
  PROVE  CopyInv'
<1> USE DEF CopyInv
<1>0. th \in Task /\ Fits(th.to, th.cells) /\ threads' = threads \ {th} /\ Kept
      /\ pin_buffer' = pin_buffer /\ shm' = Copied(th.to, th.cells) /\ th.to \in Nat
  BY TaskFacts DEF CopyDirect, MemType, Shaped, Kept
<1>1. /\ WritesInPlace' /\ shm' = [a \in Address |-> shm'[a]]
      /\ \A a \in Address : a - th.to + 1 \in 1 .. Len(th.cells) => shm'[a] = Layout[a]
      /\ \A a \in Address : shm[a] = Layout[a] => shm'[a] = Layout[a]
  BY <1>0, CopyFits DEF MemType, Kept
<1>2. MemType'
  BY <1>0, <1>1, SizesOnly DEF MemType, Kept
<1>3. Walk'
  BY <1>0, WalkKept
<1>4. Pins'
  BY <1>0 DEF Pins
<1>5. Covered'
  BY <1>0, <1>1, CoveredNext DEF Covers
<1>6. \A u \in threads' : Shaped(u)'
  BY <1>0, ShapedKept DEF MemType
<1> QED
  BY <1>1, <1>2, <1>3, <1>4, <1>5, <1>6

(* BlocksDone keeps the invariant: the thread has nothing left.            *)
LEMMA DoneKeeps ==
  ASSUME CopyInv, NEW th \in threads, BlocksDone(th)
  PROVE  CopyInv'
<1> USE DEF CopyInv
<1>0. th \in Task /\ Shaped(th) /\ threads' = threads \ {th} /\ Kept
      /\ pin_buffer' = pin_buffer /\ shm' = shm /\ th.pin > 0 /\ th.blocks = 0
  BY TaskFacts DEF BlocksDone, MemType, Kept
<1>1. \A a \in Address : ~Covers(th, a)
  <2>1. Len(th.cells) = 0
    <3>1. 0 * BUFFER_SIZE = 0
      BY MemcpyAssumption
    <3> QED
      BY <1>0, <3>1 DEF Shaped
  <2> QED
    BY <2>1 DEF Covers
<1>2. MemType'
  BY <1>0, SizesOnly DEF MemType, Kept
<1>3. Walk'
  BY <1>0, WalkKept
<1>4. Pins'
  BY <1>0 DEF Pins
<1>5. Covered'
  BY <1>0, <1>1, CoveredNext
<1>6. \A u \in threads' : Shaped(u)'
  BY <1>0, ShapedKept DEF MemType
<1>7. WritesInPlace'
  BY <1>0, SizesOnly DEF WritesInPlace, Kept
<1> QED
  BY <1>2, <1>3, <1>4, <1>5, <1>6, <1>7

(* The next block of a thread that has blocks.                             *)
LEMMA BlockSplit ==
  ASSUME NEW th \in Task, th.blocks > 0, Len(th.cells) = th.blocks * BUFFER_SIZE
  PROVE  /\ SubSeq(th.cells, 1, BUFFER_SIZE) \in Seq(Cell)
         /\ Len(SubSeq(th.cells, 1, BUFFER_SIZE)) = BUFFER_SIZE
         /\ \A k \in 1 .. BUFFER_SIZE : k \in 1 .. Len(th.cells)
                                        /\ SubSeq(th.cells, 1, BUFFER_SIZE)[k] = th.cells[k]
         /\ SubSeq(th.cells, BUFFER_SIZE + 1, Len(th.cells)) \in Seq(Cell)
         /\ Len(SubSeq(th.cells, BUFFER_SIZE + 1, Len(th.cells))) = (th.blocks - 1) * BUFFER_SIZE
         /\ Len(SubSeq(th.cells, BUFFER_SIZE + 1, Len(th.cells))) = Len(th.cells) - BUFFER_SIZE
         /\ \A k \in 1 .. Len(th.cells) - BUFFER_SIZE :
              /\ k + BUFFER_SIZE \in 1 .. Len(th.cells)
              /\ SubSeq(th.cells, BUFFER_SIZE + 1, Len(th.cells))[k] = th.cells[k + BUFFER_SIZE]
<1> DEFINE s == th.cells
           n == Len(s)
           b == BUFFER_SIZE
<1>1. s \in Seq(Cell) /\ n \in Nat /\ b \in Nat \ {0} /\ th.blocks \in Nat
  BY TaskFacts, MemcpyAssumption
<1>2. th.blocks * b = (th.blocks - 1) * b + b /\ (th.blocks - 1) * b \in Nat
  BY <1>1, Z3
<1>3. n = (th.blocks - 1) * b + b /\ n - b = (th.blocks - 1) * b /\ b <= n
  BY <1>1, <1>2
<1>4. \A k \in 1 .. n : s[k] \in Cell
  BY <1>1, ElementOfSeq
<1> HIDE DEF s, n, b
<1>5. /\ SubSeq(s, 1, b) \in Seq(Cell)
      /\ Len(SubSeq(s, 1, b)) = b
      /\ \A k \in 1 .. b : k \in 1 .. n /\ SubSeq(s, 1, b)[k] = s[k]
  <2>1. 1 \in Int /\ b \in Int /\ 1 <= b /\ b - 1 + 1 = b
        /\ \A k \in 1 .. b : k \in 1 .. n /\ 1 + k - 1 = k
    BY <1>1, <1>3
  <2>2. \A k \in 1 .. b : s[k] \in Cell
    BY <1>4, <2>1
  <2>3. /\ SubSeq(s, 1, b) \in Seq(Cell)
        /\ Len(SubSeq(s, 1, b)) = IF 1 <= b THEN b - 1 + 1 ELSE 0
        /\ \A k \in 1 .. b - 1 + 1 : SubSeq(s, 1, b)[k] = s[1 + k - 1]
    BY <2>1, <2>2, SubSeqProperties
  <2> QED
    BY <2>1, <2>3
<1>6. /\ SubSeq(s, b + 1, n) \in Seq(Cell)
      /\ Len(SubSeq(s, b + 1, n)) = n - b
      /\ \A k \in 1 .. n - b : /\ k + b \in 1 .. n
                               /\ SubSeq(s, b + 1, n)[k] = s[k + b]
  <2>1. b + 1 \in Int /\ n \in Int /\ n - (b + 1) + 1 = n - b
        /\ (n - b = IF b + 1 <= n THEN n - (b + 1) + 1 ELSE 0)
    BY <1>1, <1>3
  <2>2. \A k \in b + 1 .. n : s[k] \in Cell
    BY <1>1, <1>4
  <2>3. \A k \in 1 .. n - b : k + b \in 1 .. n /\ (b + 1) + k - 1 = k + b
    BY <1>1, <1>3
  <2>4. /\ SubSeq(s, b + 1, n) \in Seq(Cell)
        /\ Len(SubSeq(s, b + 1, n)) = IF b + 1 <= n THEN n - (b + 1) + 1 ELSE 0
        /\ \A k \in 1 .. n - (b + 1) + 1 : SubSeq(s, b + 1, n)[k] = s[(b + 1) + k - 1]
    BY <2>1, <2>2, SubSeqProperties
  <2> QED
    BY <2>1, <2>3, <2>4
<1> QED
  BY <1>3, <1>5, <1>6 DEF s, n, b

(* A thread's pinned buffer is one of the tensors'.                        *)
LEMMA PinRange ==
  ASSUME MemType, Walk, NEW th \in Task, Shaped(th), th.pin > 0
  PROVE  th.pin \in 1 .. Len(pin_buffer)
<1>1. Count \in Nat /\ i \in Nat /\ i <= Count /\ Len(pin_buffer) = 2 * Count + 1
  BY TensorFacts DEF MemType, Walk
<1>2. th.pin \in 1 .. i \/ th.pin \in Count + 1 .. Count + i
  BY DEF Shaped, Begun
<1>3. th.pin \in 1 .. 2 * Count + 1
  BY <1>1, <1>2
<1> QED
  BY <1>1, <1>3

(* FetchBlock keeps the invariant: no other thread's buffer is filled.     *)
LEMMA FetchKeeps ==
  ASSUME CopyInv, NEW th \in threads, FetchBlock(th)
  PROVE  CopyInv'
<1> USE DEF CopyInv
<1> DEFINE v == [th EXCEPT !.full = TRUE]
           block == SubSeq(th.cells, 1, BUFFER_SIZE)
<1>0. th \in Task /\ Shaped(th) /\ threads' = (threads \ {th}) \cup {v} /\ Kept
      /\ pin_buffer' = [pin_buffer EXCEPT ![th.pin] = block] /\ shm' = shm
      /\ th.pin > 0 /\ th.blocks > 0
  BY DEF FetchBlock, MemType, Kept
<1>1. v \in Task /\ v.to = th.to /\ v.cells = th.cells /\ v.pin = th.pin /\ v.blocks = th.blocks
      /\ v.full = TRUE
  BY <1>0 DEF Task
<1> HIDE DEF v
<1>2. block \in Seq(Cell)
  BY <1>0, BlockSplit DEF Shaped
<1> HIDE DEF block
<1>3. th.pin \in 1 .. Len(pin_buffer)
  BY <1>0, PinRange
<1>4. /\ pin_buffer' \in Seq(Seq(Cell)) /\ Len(pin_buffer') = Len(pin_buffer)
      /\ pin_buffer'[th.pin] = block
      /\ \A k \in 1 .. Len(pin_buffer) : k # th.pin => pin_buffer'[k] = pin_buffer[k]
  BY <1>0, <1>2, <1>3, ExceptSeq DEF MemType
<1>5. MemType'
  <2>1. threads' \subseteq Task
    BY <1>0, <1>1 DEF MemType
  <2>2. Len(pin_buffer') = 2 * Count + 1
    BY <1>4 DEF MemType
  <2> QED
    BY <1>0, <1>4, <2>1, <2>2, SizesOnly DEF MemType, Kept
<1>6. Walk'
  BY <1>0, WalkKept
<1>7. Pins'
  BY <1>0, <1>1 DEF Pins
<1>8. Covered'
  BY <1>0, <1>1, CoveredNext DEF Covers
<1>9. ASSUME NEW u \in threads \ {th} PROVE Shaped(u)'
  <2>1. u \in Task /\ Shaped(u)
    BY DEF MemType
  <2>2. u.full => u.pin \in 1 .. Len(pin_buffer) /\ u.pin # th.pin
    <3>1. u.pin > 0 => u.pin \in 1 .. Len(pin_buffer)
      BY <2>1, PinRange
    <3>2. u.pin > 0 => u.pin # th.pin
      BY DEF Pins
    <3> QED
      BY <2>1, <3>1, <3>2 DEF Shaped
  <2> QED
    BY <1>0, <1>4, <2>1, <2>2, ShapedKept
<1>10. Shaped(v)'
  <2>1. Fits(th.to, th.cells)' /\ Begun(th.pin)'
    BY <1>0, SizesOnly DEF Shaped, Fits, Begun, Kept
  <2> QED
    BY <1>0, <1>1, <1>4, <2>1 DEF Shaped, block
<1>11. WritesInPlace'
  BY <1>0, SizesOnly DEF WritesInPlace, Kept
<1> QED
  BY <1>0, <1>5, <1>6, <1>7, <1>8, <1>9, <1>10, <1>11

(* StoreBlock keeps the invariant: the block goes to its place, the rest   *)
(* behind it.                                                              *)
LEMMA StoreKeeps ==
  ASSUME CopyInv, NEW th \in threads, StoreBlock(th)
  PROVE  CopyInv'
<1> USE DEF CopyInv
<1> DEFINE block == SubSeq(th.cells, 1, BUFFER_SIZE)
           more == SubSeq(th.cells, BUFFER_SIZE + 1, Len(th.cells))
           v == [th EXCEPT !.to = th.to + BUFFER_SIZE, !.blocks = th.blocks - 1, !.full = FALSE,
                           !.cells = more]
<1>0. th \in Task /\ Shaped(th) /\ threads' = (threads \ {th}) \cup {v} /\ Kept
      /\ pin_buffer' = pin_buffer /\ shm' = Copied(th.to, block)
      /\ th.pin > 0 /\ th.blocks > 0
  <2>1. th \in Task /\ Shaped(th) /\ th.full
    BY DEF StoreBlock, MemType
  <2>2. shm' = Copied(th.to, block)
    BY <2>1 DEF StoreBlock, Shaped
  <2>3. th.pin > 0 /\ th.blocks > 0
    BY <2>1 DEF Shaped
  <2> QED
    BY <2>1, <2>2, <2>3 DEF StoreBlock, Kept
<1>1. /\ th.to \in Nat /\ th.blocks \in Nat /\ BUFFER_SIZE \in Nat \ {0}
      /\ Len(th.cells) \in Nat /\ th.cells \in Seq(Cell)
  BY <1>0, TaskFacts, MemcpyAssumption
<1>2. /\ block \in Seq(Cell) /\ Len(block) = BUFFER_SIZE
      /\ \A k \in 1 .. BUFFER_SIZE : k \in 1 .. Len(th.cells) /\ block[k] = th.cells[k]
      /\ more \in Seq(Cell) /\ Len(more) = (th.blocks - 1) * BUFFER_SIZE
      /\ Len(more) = Len(th.cells) - BUFFER_SIZE
      /\ \A k \in 1 .. Len(th.cells) - BUFFER_SIZE :
           k + BUFFER_SIZE \in 1 .. Len(th.cells) /\ more[k] = th.cells[k + BUFFER_SIZE]
  BY <1>0, BlockSplit DEF Shaped
<1>3. /\ v \in Task /\ v.to = th.to + BUFFER_SIZE /\ v.cells = more /\ v.pin = th.pin
      /\ v.blocks = th.blocks - 1 /\ v.full = FALSE
  <2>1. th.to + BUFFER_SIZE \in Nat /\ th.blocks - 1 \in Nat
    BY <1>0, <1>1
  <2> HIDE DEF more
  <2> QED
    BY <1>0, <1>2, <2>1 DEF Task
<1> HIDE DEF v, more, block
<1>4. Fits(th.to, block)
  BY <1>0, <1>2 DEF Shaped, Fits
<1>5. Fits(th.to + BUFFER_SIZE, more)
  <2> SUFFICES ASSUME NEW k \in 1 .. Len(th.cells) - BUFFER_SIZE
               PROVE  /\ th.to + BUFFER_SIZE + k - 1 \in Address
                      /\ Layout[th.to + BUFFER_SIZE + k - 1] = more[k]
    BY <1>2 DEF Fits
  <2>1. k + BUFFER_SIZE \in 1 .. Len(th.cells) /\ more[k] = th.cells[k + BUFFER_SIZE]
    BY <1>2
  <2>2. th.to + (k + BUFFER_SIZE) - 1 = th.to + BUFFER_SIZE + k - 1
    BY <1>1
  <2>3. /\ th.to + (k + BUFFER_SIZE) - 1 \in Address
        /\ Layout[th.to + (k + BUFFER_SIZE) - 1] = th.cells[k + BUFFER_SIZE]
    BY <1>0, <2>1 DEF Shaped, Fits
  <2> QED
    BY <2>1, <2>2, <2>3
<1>6. /\ WritesInPlace' /\ shm' = [a \in Address |-> shm'[a]]
      /\ \A a \in Address : a - th.to + 1 \in 1 .. BUFFER_SIZE => shm'[a] = Layout[a]
      /\ \A a \in Address : shm[a] = Layout[a] => shm'[a] = Layout[a]
  BY <1>0, <1>1, <1>2, <1>4, CopyFits DEF MemType, Kept
<1>7. MemType'
  <2>1. threads' \subseteq Task
    BY <1>0, <1>3 DEF MemType
  <2> QED
    BY <1>0, <1>6, <2>1, SizesOnly DEF MemType, Kept
<1>8. Walk'
  BY <1>0, WalkKept
<1>9. Pins'
  BY <1>0, <1>3 DEF Pins
<1>10. Covered'
  <2>1. ASSUME NEW a \in Address, Covers(th, a)
        PROVE  shm'[a] = Layout[a] \/ Covers(v, a)
    <3>1. a \in Int
      BY ShmEnd DEF Address, MemType
    <3>2. a - th.to + 1 \in 1 .. Len(th.cells)
      BY <2>1 DEF Covers
    <3>3. CASE a - th.to + 1 <= BUFFER_SIZE
      <4>1. a - th.to + 1 \in 1 .. BUFFER_SIZE
        BY <1>1, <3>1, <3>2, <3>3
      <4> QED
        BY <1>6, <4>1
    <3>4. CASE ~(a - th.to + 1 <= BUFFER_SIZE)
      <4>1. a - (th.to + BUFFER_SIZE) + 1 \in 1 .. Len(th.cells) - BUFFER_SIZE
        BY <1>1, <3>1, <3>2, <3>4
      <4> QED
        BY <1>2, <1>3, <4>1 DEF Covers
    <3> QED
      BY <3>3, <3>4
  <2> QED
    BY <1>0, <1>6, <2>1, CoveredNext
<1>11. ASSUME NEW u \in threads \ {th} PROVE Shaped(u)'
  BY <1>0, ShapedKept DEF MemType
<1>12. Shaped(v)'
  <2>1. Fits(v.to, v.cells)' /\ Begun(v.pin)'
    BY <1>0, <1>3, <1>5, SizesOnly DEF Shaped, Fits, Begun, Kept
  <2>2. Len(v.cells) = v.blocks * BUFFER_SIZE
    BY <1>2, <1>3
  <2> QED
    BY <1>3, <2>1, <2>2 DEF Shaped
<1> QED
  BY <1>0, <1>6, <1>7, <1>8, <1>9, <1>10, <1>11, <1>12

(* The record of the size in front of a tensor.                            *)
SizeRecord(t) ==
  [to |-> Start(t) - 1, cells |-> <<SizeOf(t)>>, pin |-> 0, blocks |-> 0, full |-> FALSE]

(* It fits, and covers the address of the size.                            *)
LEMMA SizeNew ==
  ASSUME Tensors, NEW t \in 1 .. Count
  PROVE  /\ New(t, SizeRecord(t)) /\ SizeRecord(t).pin = 0
         /\ Covers(SizeRecord(t), Start(t) - 1)
<1> DEFINE v == SizeRecord(t)
<1>1. /\ <<SizeOf(t)>> \in Seq(Cell) /\ Len(<<SizeOf(t)>>) = 1
      /\ Fits(Start(t) - 1, <<SizeOf(t)>>)
  BY SizeFits
<1>2. Start(t) \in Nat /\ Start(t) >= MetaSize + 1 /\ MetaSize \in Nat
  BY StartType, TensorFacts, MemcpyAssumption
<1>3. Start(t) - 1 \in Nat
  BY <1>2
<1>4. /\ v.to = Start(t) - 1 /\ v.cells = <<SizeOf(t)>> /\ v.pin = 0 /\ v.blocks = 0
      /\ v.full = FALSE
  BY DEF SizeRecord
<1>5. v \in Task
  BY <1>1, <1>3 DEF SizeRecord, Task
<1> HIDE DEF v
<1>6. Covers(v, Start(t) - 1)
  <2>1. Start(t) - 1 - (Start(t) - 1) + 1 \in 1 .. 1
    BY <1>2
  <2> QED
    BY <1>1, <1>4, <2>1 DEF Covers
<1> QED
  BY <1>1, <1>4, <1>5, <1>6 DEF New, v

(* What a round of the caller's loop does to its threads N and to the      *)
(* memory, whichever of the two ways it takes.                             *)
RoundWalk(t) ==
  /\ t = i + 1 /\ i < Count /\ pc = "tensors"
  /\ i' = t /\ offset' = offset + 1 + nBytes[t]

(* The new threads have cells that fit, and buffers nobody else has.       *)
RoundThreads(t, N) ==
  /\ threads' = threads \cup {SizeRecord(t)} \cup N
  /\ \A th \in N : New(t, th)
  /\ \A th \in N : th.pin > 0 => /\ th.pin \in {t, t + Count}
                                 /\ Len(th.cells) = th.blocks * BUFFER_SIZE
  /\ \A th, u \in N : th.pin > 0 /\ th.pin = u.pin => th = u

(* Only the caller's own pinned buffer, the last one, may change.          *)
RoundBuffers ==
  /\ pin_buffer' \in Seq(Seq(Cell)) /\ Len(pin_buffer') = 2 * Count + 1
  /\ \A k \in 1 .. 2 * Count : pin_buffer'[k] = pin_buffer[k]

(* The memory keeps what is right, and the tensor is written or will be.   *)
RoundMemory(t, N) ==
  /\ WritesInPlace' /\ shm' = [a \in Address |-> shm'[a]]
  /\ \A a \in Address : shm[a] = Layout[a] => shm'[a] = Layout[a]
  /\ Even => \A a \in Int : Start(t) <= a /\ a < Start(t) + nBytes[t] =>
               shm'[a] = Layout[a] \/ \E th \in N : Covers(th, a)

(* Such a round keeps the invariant.                                       *)
LEMMA RoundKeeps ==
  ASSUME CopyInv, NEW t, NEW N, UNCHANGED <<nBytes, USE_CUDA, pc>>,
         RoundWalk(t), RoundThreads(t, N), RoundBuffers, RoundMemory(t, N)
  PROVE  CopyInv'
<1>0. /\ i \in 0 .. Count /\ Count \in Nat /\ t \in 1 .. Count /\ t \in 1 .. Count + 1
      /\ nBytes[t] \in Nat /\ Tensors /\ offset \in Nat /\ MetaSize \in Nat /\ t = i + 1
  <2>1. i \in 0 .. Count /\ Count \in Nat /\ Tensors /\ offset \in Nat /\ MetaSize \in Nat
        /\ t = i + 1 /\ i < Count
    BY TensorFacts, MemcpyAssumption DEF CopyInv, Walk, MemType, RoundWalk
  <2>2. t \in 1 .. Count /\ t \in 1 .. Count + 1
    BY <2>1
  <2> QED
    BY <2>1, <2>2, TensorFacts
<1>1. /\ Start(t) \in Nat /\ Start(t + 1) \in Nat /\ Start(t + 1) = Start(t) + nBytes[t] + 1
      /\ offset + MetaSize + 1 = Start(t)
  BY <1>0, StartNext DEF CopyInv, Walk
<1>2. Count' = Count /\ Address' = Address /\ Layout' = Layout /\ Tensors'
      /\ \A u : Start(u)' = Start(u)
  BY <1>0, SizesOnly
<1>3. New(t, SizeRecord(t)) /\ SizeRecord(t).pin = 0 /\ Covers(SizeRecord(t), Start(t) - 1)
  BY <1>0, SizeNew
<1>4. MemType'
  <2>1. threads' \subseteq Task
    BY <1>3 DEF CopyInv, MemType, New, RoundThreads
  <2> QED
    BY <1>2, <2>1 DEF CopyInv, MemType, RoundBuffers, RoundMemory
<1>5. Walk'
  <2>1. i' = t /\ offset' = offset + 1 + nBytes[t] /\ pc' = "tensors"
    BY DEF RoundWalk
  <2>2. offset' \in Nat /\ offset' + MetaSize + 1 = Start(t + 1) /\ t \in 0 .. Count
    BY <1>0, <1>1, <2>1
  <2>3. (Start(i + 1))' = Start(t + 1)
    BY <2>1 DEF Start
  <2> QED
    BY <1>2, <2>1, <2>2, <2>3 DEF Walk
<1>6. ASSUME NEW th \in threads, th.pin > 0
      PROVE  /\ th.pin # t /\ th.pin # t + Count /\ th.pin \in 1 .. 2 * Count
             /\ th.pin \in 1 .. t \/ th.pin \in Count + 1 .. Count + t
  <2>1. th.pin \in 1 .. i \/ th.pin \in Count + 1 .. Count + i
    BY <1>6 DEF CopyInv, Shaped, Begun
  <2> QED
    BY <1>0, <2>1
<1>7. Pins'
  <2> SUFFICES ASSUME NEW th \in threads', NEW u \in threads', th.pin > 0, th.pin = u.pin
               PROVE  th = u
    BY DEF Pins
  <2>1. (th \in threads \/ th \in N) /\ (u \in threads \/ u \in N)
    BY <1>3 DEF RoundThreads
  <2>2. CASE th \in threads /\ u \in threads
    BY <2>2 DEF CopyInv, Pins
  <2>3. CASE th \in N /\ u \in N
    BY <2>3 DEF RoundThreads
  <2>4. CASE th \in threads /\ u \in N
    BY <1>6, <2>4 DEF RoundThreads
  <2>5. CASE th \in N /\ u \in threads
    BY <1>6, <2>5 DEF RoundThreads
  <2> QED
    BY <2>1, <2>2, <2>3, <2>4, <2>5
<1>8. Covered'
  <2>1. (Start(i + 1))' = Start(t + 1)
    BY DEF Start, RoundWalk
  <2>2. Even' <=> Even
    BY <1>2 DEF Even, shared_nums
  <2> SUFFICES ASSUME Even, NEW a \in Address
               PROVE  \/ shm'[a] = Layout[a]
                      \/ \E th \in threads' : Covers(th, a)
                      \/ Start(t + 1) - 1 <= a
    BY <1>2, <2>1, <2>2 DEF Covered, Covers
  <2>3. a \in Int
    BY <1>0, ShmEnd DEF Address
  <2>4. CASE shm[a] = Layout[a] \/ \E th \in threads : Covers(th, a)
    BY <2>4 DEF RoundThreads, RoundMemory
  <2>5. CASE Start(t) - 1 <= a
    <3>1. \/ a = Start(t) - 1 \/ (Start(t) <= a /\ a < Start(t) + nBytes[t])
          \/ Start(t + 1) - 1 <= a
      BY <1>0, <1>1, <2>3, <2>5
    <3>2. CASE a = Start(t) - 1
      BY <1>3, <3>2 DEF RoundThreads
    <3>3. CASE Start(t) <= a /\ a < Start(t) + nBytes[t]
      BY <2>3, <3>3 DEF RoundThreads, RoundMemory
    <3> QED
      BY <3>1, <3>2, <3>3
  <2> QED
    BY <1>0, <2>4, <2>5 DEF CopyInv, Covered
<1>9. ASSUME NEW th \in threads PROVE Shaped(th)'
  <2>1. Shaped(th)
    BY DEF CopyInv
  <2>2. Fits(th.to, th.cells)'
    BY <1>2, <2>1 DEF Shaped, Fits
  <2>3. th.pin > 0 => Begun(th.pin)'
    BY <1>2, <1>6 DEF Begun, RoundWalk
  <2>4. th.full => pin_buffer'[th.pin] = pin_buffer[th.pin]
    BY <1>6, <2>1 DEF Shaped, RoundBuffers
  <2> QED
    BY <2>1, <2>2, <2>3, <2>4 DEF Shaped
<1>10. ASSUME NEW th \in N \cup {SizeRecord(t)} PROVE Shaped(th)'
  <2>1. /\ th \in Task /\ Fits(th.to, th.cells) /\ ~th.full
        /\ th.pin > 0 => /\ th.pin \in {t, t + Count}
                         /\ Len(th.cells) = th.blocks * BUFFER_SIZE
    BY <1>3 DEF New, RoundThreads
  <2>2. Fits(th.to, th.cells)'
    BY <1>2, <2>1 DEF Fits
  <2>3. t \in 1 .. t /\ t + Count \in Count + 1 .. Count + t
    BY <1>0
  <2>4. th.pin > 0 => Begun(th.pin)'
    BY <1>2, <2>1, <2>3 DEF Begun, RoundWalk
  <2> QED
    BY <2>1, <2>2, <2>4 DEF Shaped
<1>11. \A th \in threads' : Shaped(th)'
  BY <1>9, <1>10 DEF RoundThreads
<1> QED
  BY <1>4, <1>5, <1>7, <1>8, <1>11 DEF CopyInv, RoundMemory

(* NextTensor is such a round, for device memory and for host memory.      *)
LEMMA TensorKeeps ==
  ASSUME CopyInv, NextTensor
  PROVE  CopyInv'
<1> USE DEF CopyInv
<1> DEFINE t == i + 1
           all == shared_nums(t) * BUFFER_SIZE
           rest == Cells(t, all, shared_remainder(t))
           last == Len(pin_buffer)
<1>0. /\ pc = "tensors" /\ i < Count /\ i' = t /\ offset' = offset + 1 + nBytes[t]
      /\ UNCHANGED <<nBytes, USE_CUDA, pc>>
      /\ MetaSize + offset + 1 = Start(t) /\ MetaSize + offset + 1 - 1 = Start(t) - 1
      /\ Tensors /\ t \in 1 .. Count /\ Count \in Nat
  <2>1. /\ pc = "tensors" /\ i < Count /\ i' = t /\ offset' = offset + 1 + nBytes[t]
        /\ UNCHANGED <<nBytes, USE_CUDA, pc>>
    BY DEF NextTensor, Count
  <2>2. /\ Tensors /\ Count \in Nat /\ i \in 0 .. Count /\ offset \in Nat /\ MetaSize \in Nat
        /\ offset + MetaSize + 1 = Start(t)
    BY TensorFacts, MemcpyAssumption DEF Walk, MemType
  <2>3. MetaSize + offset + 1 = offset + MetaSize + 1 /\ t \in 1 .. Count
    BY <2>1, <2>2
  <2> QED
    BY <2>1, <2>2, <2>3
<1>1. \/ /\ USE_CUDA
         /\ threads' = threads \cup {SizeRecord(t)} \cup DeviceThreads(t, Start(t))
         /\ pin_buffer' = [pin_buffer EXCEPT ![last] = rest]
         /\ shm' = Copied(Start(t) + all, rest)
      \/ /\ ~USE_CUDA
         /\ threads' = threads \cup {SizeRecord(t)} \cup HostThreads(t, Start(t))
         /\ UNCHANGED <<pin_buffer, shm>>
  <2> HIDE DEF CopyInv
  <2> QED
    BY <1>0 DEF NextTensor, SizeRecord
<1> HIDE DEF t
<1>2. CASE /\ USE_CUDA
           /\ threads' = threads \cup {SizeRecord(t)} \cup DeviceThreads(t, Start(t))
           /\ pin_buffer' = [pin_buffer EXCEPT ![last] = rest]
           /\ shm' = Copied(Start(t) + all, rest)
  <2>1. /\ rest \in Seq(Cell) /\ Start(t) + all \in Nat /\ Fits(Start(t) + all, rest)
        /\ \A th \in DeviceThreads(t, Start(t)) :
             /\ New(t, th) /\ th.pin \in {t, t + Count}
             /\ Len(th.cells) = th.blocks * BUFFER_SIZE
        /\ \A th, u \in DeviceThreads(t, Start(t)) : th.pin = u.pin => th = u
        /\ shared_nums(t) % BUFFER_NUMS = 0 =>
             \A a \in Int : Start(t) <= a /\ a < Start(t) + nBytes[t] =>
               \/ \E th \in DeviceThreads(t, Start(t)) : Covers(th, a)
               \/ a - (Start(t) + all) + 1 \in 1 .. Len(rest)
    BY <1>0, DeviceNew
  <2> HIDE DEF rest, all
  <2>2. /\ pin_buffer' \in Seq(Seq(Cell)) /\ Len(pin_buffer') = 2 * Count + 1
        /\ \A k \in 1 .. 2 * Count : pin_buffer'[k] = pin_buffer[k]
    <3>1. pin_buffer \in Seq(Seq(Cell)) /\ last = 2 * Count + 1
      BY DEF MemType
    <3>2. last \in 1 .. last /\ \A k \in 1 .. 2 * Count : k \in 1 .. last /\ k # last
      BY <1>0, <3>1
    <3>3. /\ pin_buffer' \in Seq(Seq(Cell)) /\ Len(pin_buffer') = last
          /\ \A k \in 1 .. last : k # last => pin_buffer'[k] = pin_buffer[k]
      BY <1>2, <2>1, <3>1, <3>2, ExceptSeq
    <3> QED
      BY <3>1, <3>2, <3>3
  <2>3. /\ WritesInPlace' /\ shm' = [a \in Address |-> shm'[a]]
        /\ \A a \in Address : a - (Start(t) + all) + 1 \in 1 .. Len(rest) => shm'[a] = Layout[a]
        /\ \A a \in Address : shm[a] = Layout[a] => shm'[a] = Layout[a]
    BY <1>0, <1>2, <2>1, CopyFits
  <2>4. ASSUME Even, NEW a \in Int, Start(t) <= a, a < Start(t) + nBytes[t]
        PROVE  shm'[a] = Layout[a] \/ \E th \in DeviceThreads(t, Start(t)) : Covers(th, a)
    <3>1. Start(t) \in Nat /\ Start(t) - 1 <= a
      BY <1>0, <2>4, StartNext
    <3>2. a \in Address
      BY <1>0, <2>4, <3>1, OneOwner DEF Owns
    <3>3. shared_nums(t) % BUFFER_NUMS = 0
      BY <1>0, <1>2, <2>4 DEF Even
    <3> QED
      BY <2>1, <2>3, <2>4, <3>2, <3>3
  <2> QED
    <3> DEFINE N == DeviceThreads(t, Start(t))
    <3>1. t = i + 1
      BY DEF t
    <3>2. \A th \in N : New(t, th)
      BY <2>1
    <3>3. \A th \in N : th.pin > 0 => /\ th.pin \in {t, t + Count}
                                      /\ Len(th.cells) = th.blocks * BUFFER_SIZE
      BY <2>1
    <3>4. \A th, u \in N : th.pin > 0 /\ th.pin = u.pin => th = u
      BY <2>1
    <3>5. threads' = threads \cup {SizeRecord(t)} \cup N
      BY <1>2
    <3> HIDE DEF N
    <3>6. Even => \A a \in Int : Start(t) <= a /\ a < Start(t) + nBytes[t] =>
                    shm'[a] = Layout[a] \/ \E th \in N : Covers(th, a)
      BY <2>4 DEF N
    <3> HIDE DEF CopyInv
    <3> QED
      <4>1. RoundWalk(t) /\ RoundThreads(t, N)
        BY <1>0, <3>1, <3>2, <3>3, <3>4, <3>5 DEF RoundWalk, RoundThreads
      <4>2. RoundBuffers /\ RoundMemory(t, N)
        BY <2>2, <2>3, <3>6 DEF RoundBuffers, RoundMemory
      <4> QED
        BY <1>0, <4>1, <4>2, RoundKeeps
<1>3. CASE /\ ~USE_CUDA
           /\ threads' = threads \cup {SizeRecord(t)} \cup HostThreads(t, Start(t))
           /\ UNCHANGED <<pin_buffer, shm>>
  <2> DEFINE N == HostThreads(t, Start(t))
  <2>1. /\ \A th \in N : New(t, th) /\ th.pin = 0
        /\ \A a \in Int : Start(t) <= a /\ a < Start(t) + nBytes[t] =>
             \E th \in N : Covers(th, a)
    BY <1>0, HostNew
  <2>2. threads' = threads \cup {SizeRecord(t)} \cup N /\ pin_buffer' = pin_buffer /\ shm' = shm
    BY <1>3
  <2>3. /\ pin_buffer' \in Seq(Seq(Cell)) /\ Len(pin_buffer') = 2 * Count + 1
        /\ \A k \in 1 .. 2 * Count : pin_buffer'[k] = pin_buffer[k]
    BY <2>2 DEF MemType
  <2>4. /\ WritesInPlace' /\ shm' = [a \in Address |-> shm'[a]]
        /\ \A a \in Address : shm[a] = Layout[a] => shm'[a] = Layout[a]
    BY <1>0, <2>2, SizesOnly DEF WritesInPlace, MemType
  <2>5. t = i + 1
    BY DEF t
  <2> HIDE DEF N
  <2>6. \A th \in N : ~(th.pin > 0)
    BY <2>1
  <2>7. /\ \A th \in N : th.pin > 0 => /\ th.pin \in {t, t + Count}
                                       /\ Len(th.cells) = th.blocks * BUFFER_SIZE
        /\ \A th, u \in N : th.pin > 0 /\ th.pin = u.pin => th = u
    BY <2>6
  <2>8. \A th \in N : New(t, th)
    BY <2>1
  <2> HIDE DEF CopyInv
  <2>9. RoundWalk(t) /\ RoundThreads(t, N)
    BY <1>0, <2>2, <2>5, <2>7, <2>8 DEF RoundWalk, RoundThreads
  <2>10. RoundBuffers /\ RoundMemory(t, N)
    BY <2>1, <2>3, <2>4 DEF RoundBuffers, RoundMemory
  <2> QED
    BY <1>0, <2>9, <2>10, RoundKeeps
<1> QED
  BY <1>1, <1>2, <1>3

(* Finish keeps the invariant.                                             *)
LEMMA FinishKeeps ==
  ASSUME CopyInv, Finish
  PROVE  CopyInv'
<1> USE DEF CopyInv
<1>0. threads = {} /\ threads' = {} /\ i = Count /\ i' = i /\ offset' = offset /\ nBytes' = nBytes
      /\ USE_CUDA' = USE_CUDA /\ shm' = shm /\ pin_buffer' = pin_buffer
  BY DEF Finish, Count
<1>1. MemType' /\ Pins' /\ WritesInPlace'
  BY <1>0, SizesOnly DEF MemType, Pins, WritesInPlace
<1>2. (Start(i + 1))' = Start(i + 1)
  BY <1>0 DEF Start
<1>3. Walk'
  BY <1>0, <1>2, SizesOnly DEF Walk
<1>4. Covered'
  <2>1. Even' <=> Even
    BY <1>0, SizesOnly DEF Even, shared_nums
  <2> QED
    BY <1>0, <1>2, <2>1, SizesOnly DEF Covered
<1> QED
  BY <1>0, <1>1, <1>3, <1>4

(* So does a step that changes nothing.                                    *)
LEMMA StutterKeeps ==
  ASSUME CopyInv, UNCHANGED vars
  PROVE  CopyInv'
<1> USE DEF vars
<1>1. (Start(i + 1))' = Start(i + 1)
  BY DEF Start
<1>2. Even' <=> Even
  BY SizesOnly DEF Even, shared_nums
<1>3. \A th : Shaped(th)' <=> Shaped(th)
  BY SizesOnly DEF Shaped, Fits, Begun
<1>4. (MemType' <=> MemType) /\ (Walk' <=> Walk) /\ (Pins' <=> Pins)
      /\ (WritesInPlace' <=> WritesInPlace)
  BY <1>1, SizesOnly DEF MemType, Walk, Pins, WritesInPlace
<1>5. Covered' <=> Covered
  BY <1>1, <1>2, SizesOnly DEF Covered, Covers
<1> QED
  BY <1>3, <1>4, <1>5 DEF CopyInv

(* It holds at the start: one thread, with the metadata.                   *)
LEMMA CopyInit ==
  ASSUME Init
  PROVE  CopyInv
<1> DEFINE s == [k \in 1 .. MetaSize |-> Meta(k - 1)]
           v == [to |-> 0, cells |-> s, pin |-> 0, blocks |-> 0, full |-> FALSE]
<1>0. Tensors /\ USE_CUDA \in BOOLEAN
  BY MemcpyAssumption DEF Init, Tensors
<1>1. threads = {v} /\ shm = [a \in Address |-> Nothing] /\ pc = "tensors" /\ i = 0 /\ offset = 0
  BY DEF Init
<1>2. s \in Seq(Cell) /\ Len(s) = MetaSize /\ Fits(0, s)
  BY <1>0, MetaFits
<1> HIDE DEF s
<1>3. v \in Task /\ v.to = 0 /\ v.cells = s /\ v.pin = 0 /\ v.blocks = 0 /\ v.full = FALSE
  BY <1>2 DEF Task
<1> HIDE DEF v
<1>4. pin_buffer \in Seq(Seq(Cell)) /\ Len(pin_buffer) = 2 * Count + 1
  <2>1. pin_buffer = [b \in 1 .. Count * BUFFER_NUMS + 1 |-> <<>>]
    BY DEF Init, Count
  <2>2. Count * BUFFER_NUMS + 1 = 2 * Count + 1 /\ 2 * Count + 1 \in Nat
    BY <1>0, TensorFacts DEF BUFFER_NUMS
  <2>3. <<>> \in Seq(Cell)
    OBVIOUS
  <2>4. pin_buffer \in [1 .. 2 * Count + 1 -> Seq(Cell)]
    BY <2>1, <2>2, <2>3
  <2> QED
    BY <2>2, <2>4, ListFacts
<1>5. MemType
  BY <1>0, <1>1, <1>3, <1>4 DEF MemType
<1>6. Walk
  <2>1. Count \in Nat /\ MetaSize \in Nat /\ 0 + 1 = 1
    BY <1>0, TensorFacts, MemcpyAssumption
  <2>2. 0 + MetaSize + 1 = MetaSize + 1 /\ 0 \in 0 .. Count /\ 0 \in Nat
    BY <2>1
  <2> QED
    BY <1>1, <2>1, <2>2, StartFirst DEF Walk
<1>7. Pins /\ WritesInPlace
  BY <1>1 DEF Pins, WritesInPlace
<1>8. Covered
  <2> SUFFICES ASSUME NEW a \in Address PROVE Covers(v, a) \/ Start(i + 1) - 1 <= a
    BY <1>1 DEF Covered
  <2>1. a \in Int /\ 0 <= a /\ MetaSize \in Nat
    BY <1>0, ShmEnd, MemcpyAssumption DEF Address
  <2>2. i + 1 = 1
    BY <1>1
  <2>3. a < MetaSize \/ Start(1) - 1 <= a
    BY <2>1, StartFirst
  <2>4. CASE a < MetaSize
    <3>1. a - 0 + 1 \in 1 .. MetaSize
      BY <2>1, <2>4
    <3> QED
      BY <1>2, <1>3, <3>1 DEF Covers
  <2> QED
    BY <2>2, <2>3, <2>4
<1>9. Shaped(v)
  BY <1>2, <1>3 DEF Shaped
<1> QED
  BY <1>1, <1>5, <1>6, <1>7, <1>8, <1>9 DEF CopyInv

(* The invariant holds in every state of transom_memcpy.                   *)
THEOREM CopyInvariance == Spec => []CopyInv
<1>1. Init => CopyInv
  BY CopyInit
<1>2. CopyInv /\ [Next]_vars => CopyInv'
  <2> SUFFICES ASSUME CopyInv, [Next]_vars PROVE CopyInv'
    OBVIOUS
  <2>1. CASE NextTensor
    BY <2>1, TensorKeeps
  <2>2. CASE Finish
    BY <2>2, FinishKeeps
  <2>3. ASSUME NEW th \in threads, CopyDirect(th) PROVE CopyInv'
    BY <2>3, DirectKeeps
  <2>4. ASSUME NEW th \in threads, FetchBlock(th) PROVE CopyInv'
    BY <2>4, FetchKeeps
  <2>5. ASSUME NEW th \in threads, StoreBlock(th) PROVE CopyInv'
    BY <2>5, StoreKeeps
  <2>6. ASSUME NEW th \in threads, BlocksDone(th) PROVE CopyInv'
    BY <2>6, DoneKeeps
  <2>7. CASE UNCHANGED vars
    BY <2>7, StutterKeeps
  <2> QED
    BY <2>1, <2>2, <2>3, <2>4, <2>5, <2>6, <2>7 DEF Next
<1> QED
  BY <1>1, <1>2, PTL DEF Spec

(* No copying thread ever writes a cell to a place that is not its own, in *)
(* any order of the threads, for any checkpoint and any size of the pinned *)
(* buffers.                                                                *)
THEOREM PlaceCorrect == Spec => []WritesInPlace
<1>1. CopyInv => WritesInPlace
  BY DEF CopyInv
<1> QED
  BY <1>1, CopyInvariance, PTL

(* A copy that returns true has written every cell of the layout: from     *)
(* host memory always, from device memory when every tensor has an even    *)
(* number of full blocks.                                                  *)
THEOREM CompleteCorrect == Spec => []CopyComplete
<1>1. CopyInv => CopyComplete
  <2> SUFFICES ASSUME CopyInv, pc = "true",
                      USE_CUDA => \A t \in 1 .. Len(nBytes) : shared_nums(t) % BUFFER_NUMS = 0
               PROVE  shm = Layout
    BY DEF CopyComplete
  <2>1. Tensors /\ shm = [a \in Address |-> shm[a]] /\ threads = {} /\ i = Count /\ Covered
    BY DEF CopyInv, MemType, Walk
  <2>2. Even
    BY DEF Even, Count
  <2>3. ASSUME NEW a \in Address PROVE shm[a] = Layout[a]
    <3>1. ShmSize = Start(Count + 1) - 1 /\ ShmSize \in Nat /\ a \in 0 .. ShmSize - 1
      BY <2>1, ShmEnd DEF Address
    <3>2. ~(ShmSize <= a)
      BY <3>1
    <3>3. ~(Start(i + 1) - 1 <= a)
      BY <2>1, <3>1, <3>2
    <3> QED
      BY <2>1, <2>2, <3>3 DEF Covered
  <2>4. Layout = [a \in Address |-> Layout[a]]
    BY DEF Layout
  <2> QED
    BY <2>1, <2>3, <2>4
<1> QED
  BY <1>1, CopyInvariance, PTL
=============================================================================
