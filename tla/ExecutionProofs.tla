---------------------------- MODULE ExecutionProofs ----------------------------
(***************************************************************************)
(* Proofs about execution: the memory plan of a run, the executor that     *)
(* follows it and the CUDA plan that does so on a stream, for every graph; *)
(* then the CUDA runtime, which owns the stream, for all buffers and every *)
(* number of operations; and the buffers tensors share, for every arena.   *)
(***************************************************************************)
EXTENDS Executor, CudaExecution, CudaRuntime, Tensors, SequenceTheorems, BasicLemmas

------------------------------------------------------------------------------
\* The plan

\* A slot is as large as each of its values and busy until all of them are dead.
SlotsCover ==
    \A v \in DOMAIN slot :
        /\ bytes[v] <= capacity[slot[v]]
        /\ LastStep(v) <= busy_until[slot[v]]

\* Values of one slot do not meet.
LifetimesApart ==
    \A v, w \in DOMAIN slot : v < w /\ slot[v] = slot[w] => LastStep(v) < w

PlanInv == PlanOK /\ SlotsCover /\ LifetimesApart

------------------------------------------------------------------------------

\* LastStep is a step, or the end of the run.
LEMMA LastStepType ==
  ASSUME reads \in [Step -> SUBSET Value], NEW v \in Value
  PROVE  LastStep(v) \in 0 .. Nodes /\ v <= LastStep(v)
<1>. DEFINE S == {v} \cup {s \in Step : v \in reads[s]}
<1>1. S \in SUBSET (0 .. Nodes - 1) /\ S # {} /\ v \in S
  BY DEF Step, Value
<1>2. Nodes \in Nat /\ Nodes - 1 \in Int
  BY PlanAssumption
<1>3. Max(S) \in S /\ Max(S) >= v
  <2>. HIDE DEF S
  <2>. QED
    BY <1>1, <1>2, MaxMember
<1>4. Max(S) \in 0 .. Nodes - 1 /\ v \in 0 .. Nodes - 1
  BY <1>1, <1>3
<1>. HIDE DEF S
<1>5. LastStep(v) = IF v \in outputs THEN Nodes ELSE Max(S)
  BY DEF LastStep, S
<1>. QED
  BY <1>2, <1>3, <1>4, <1>5

\* A value lives until the last step that reads it.
LEMMA LastStepReads ==
  ASSUME reads \in [Step -> SUBSET Value], NEW v \in Value, NEW s \in Step, v \in reads[s]
  PROVE  s <= LastStep(v)
<1>. DEFINE S == {v} \cup {t \in Step : v \in reads[t]}
<1>1. S \in SUBSET (0 .. Nodes - 1) /\ S # {} /\ s \in S
  BY DEF Step, Value
<1>2. Nodes \in Nat /\ Nodes - 1 \in Int
  BY PlanAssumption
<1>3. Max(S) >= s /\ s \in 0 .. Nodes - 1
  <2>. HIDE DEF S
  <2>. QED
    BY <1>1, <1>2, MaxMember
<1>. HIDE DEF S
<1>4. LastStep(v) = IF v \in outputs THEN Nodes ELSE Max(S)
  BY DEF LastStep, S
<1>5. CASE v \in outputs
  BY <1>2, <1>3, <1>4, <1>5
<1>6. CASE v \notin outputs
  <2>1. Max(S) \in S
    BY <1>1, <1>2, MaxMember
  <2>. QED
    BY <1>1, <1>2, <1>3, <1>4, <1>6, <2>1
<1>. QED
  BY <1>5, <1>6

\* The lifetimes are those of the graph, which never changes.
LEMMA LastStepStable ==
  ASSUME UNCHANGED graph
  PROVE  \A v : LastStep(v)' = LastStep(v)
BY DEF graph, LastStep

\* A fresh plan satisfies the invariant.
LEMMA PlanInvInit ==
  ASSUME PlanInit
  PROVE  PlanInv
<1>1. slot = <<>> /\ DOMAIN slot = {}
  BY DEF PlanInit
<1>2. PlanOK
  <2>1. bytes \in [Value -> Nat]
    BY PlanAssumption DEF PlanInit
  <2>2. slot \in [0 .. planned - 1 -> 1 .. Len(capacity)]
    <3>1. planned = 0 /\ 0 .. planned - 1 = {}
      BY DEF PlanInit
    <3>. QED
      BY <1>1, <3>1
  <2>3. planned \in 0 .. Nodes
    BY PlanAssumption DEF PlanInit
  <2>. QED
    BY <2>1, <2>2, <2>3 DEF PlanInit, PlanOK
<1>. QED
  BY <1>1, <1>2 DEF PlanInv, SlotsCover, LifetimesApart

\* A plan nobody touches keeps the invariant.
LEMMA PlanInvStutter ==
  ASSUME PlanInv, UNCHANGED graph, UNCHANGED plan
  PROVE  PlanInv'
<1>1. \A v : LastStep(v)' = LastStep(v)
  BY LastStepStable
<1>. QED
  BY <1>1 DEF PlanInv, PlanOK, SlotsCover, LifetimesApart, graph, plan

\* The value planned last joins a slot whose values are all dead.
LEMMA PlanInvStep ==
  ASSUME PlanInv, PlanValue
  PROVE  PlanInv'
<1>. DEFINE v == planned
            Joins(k) == /\ k \in BestSlots(v)
                        /\ capacity' = [capacity EXCEPT ![k] = Max({@, bytes[v]})]
                        /\ busy_until' = [busy_until EXCEPT ![k] = LastStep(v)]
                        /\ slot' = Placed(v, k)
            Opens == /\ capacity' = Append(capacity, bytes[v])
                     /\ busy_until' = Append(busy_until, LastStep(v))
                     /\ slot' = Placed(v, Len(capacity) + 1)
<1>1. v \in Value /\ v \in Nat /\ v < Nodes /\ Nodes \in Nat
  BY PlanAssumption DEF PlanInv, PlanOK, PlanValue, Value, Step
<1>2. DOMAIN slot = 0 .. v - 1 /\ v \notin DOMAIN slot /\ \A x \in DOMAIN slot : x \in Value /\ x < v
  BY <1>1 DEF PlanInv, PlanOK, Value, Step
<1>3. planned' = v + 1 /\ UNCHANGED graph
  BY DEF PlanValue
<1>4. \A x : LastStep(x)' = LastStep(x)
  BY <1>3, LastStepStable
<1>5. \A x \in Value : LastStep(x) \in Nat /\ bytes[x] \in Nat
  BY <1>1, LastStepType DEF PlanInv, PlanOK
<1>6. /\ capacity \in Seq(Nat) /\ busy_until \in Seq(Nat)
      /\ Len(capacity) = Len(busy_until) /\ Len(capacity) \in Nat
      /\ \A x \in DOMAIN slot : slot[x] \in 1 .. Len(capacity)
  BY DEF PlanInv, PlanOK
<1>7. ASSUME NEW k \in 1 .. Len(capacity) + 1
      PROVE  /\ DOMAIN Placed(v, k) = 0 .. v
             /\ Placed(v, k)[v] = k
             /\ \A x \in DOMAIN slot : Placed(v, k)[x] = slot[x]
             /\ Placed(v, k) = [x \in 0 .. v |-> Placed(v, k)[x]]
  <2>1. DOMAIN slot \cup {v} = 0 .. v
    BY <1>1, <1>2
  <2>. QED
    BY <1>2, <2>1 DEF Placed
<1>8. CASE Opens
  <2>1. /\ capacity' \in Seq(Nat) /\ busy_until' \in Seq(Nat)
        /\ Len(capacity') = Len(capacity) + 1 /\ Len(busy_until') = Len(capacity) + 1
        /\ capacity'[Len(capacity) + 1] = bytes[v]
        /\ busy_until'[Len(capacity) + 1] = LastStep(v)
        /\ \A k \in 1 .. Len(capacity) :
              capacity'[k] = capacity[k] /\ busy_until'[k] = busy_until[k]
    BY <1>1, <1>5, <1>6, <1>8
  <2>2. slot' = Placed(v, Len(capacity) + 1) /\ Len(capacity) + 1 \in 1 .. Len(capacity) + 1
    BY <1>6, <1>8
  <2>. HIDE DEF Joins, Opens
  <2>3. /\ DOMAIN slot' = 0 .. v
        /\ slot'[v] = Len(capacity) + 1
        /\ \A x \in DOMAIN slot : slot'[x] = slot[x]
        /\ slot' = [x \in 0 .. v |-> slot'[x]]
    BY <1>7, <2>2
  <2>4. slot' \in [0 .. planned' - 1 -> 1 .. Len(capacity')]
    <3>1. ASSUME NEW x \in 0 .. v
          PROVE  slot'[x] \in 1 .. Len(capacity) + 1
      <4>1. x = v \/ x \in DOMAIN slot
        BY <1>1, <1>2
      <4>. QED
        BY <1>6, <2>3, <4>1
    <3>2. slot' \in [0 .. v -> 1 .. Len(capacity) + 1]
      BY <2>3, <3>1
    <3>. QED
      BY <1>1, <1>3, <2>1, <3>2
  <2>5. PlanOK'
    <3>1. planned' \in 0 .. Nodes
      BY <1>1, <1>3
    <3>2. UNCHANGED <<reads, outputs, bytes>>
      BY <1>3 DEF graph
    <3>. QED
      BY <2>1, <2>4, <3>1, <3>2 DEF PlanInv, PlanOK
  <2>6. bytes' = bytes
    BY <1>3 DEF graph
  <2>7. SlotsCover'
    <3>. SUFFICES ASSUME NEW x \in 0 .. v
                  PROVE  bytes[x] <= capacity'[slot'[x]] /\ LastStep(x) <= busy_until'[slot'[x]]
      BY <1>4, <2>3, <2>6 DEF SlotsCover
    <3>1. CASE x = v
      BY <1>1, <1>5, <2>1, <2>3, <3>1
    <3>2. CASE x # v
      <4>1. x \in DOMAIN slot
        BY <1>1, <1>2, <3>2
      <4>2. /\ bytes[x] <= capacity[slot[x]] /\ LastStep(x) <= busy_until[slot[x]]
            /\ slot[x] \in 1 .. Len(capacity)
        BY <1>6, <4>1 DEF PlanInv, SlotsCover
      <4>. QED
        BY <2>1, <2>3, <4>1, <4>2
    <3>. QED
      BY <3>1, <3>2
  <2>8. LifetimesApart'
    <3>. SUFFICES ASSUME NEW x \in 0 .. v, NEW w \in 0 .. v, x < w, slot'[x] = slot'[w]
                  PROVE  LastStep(x) < w
      BY <1>4, <2>3 DEF LifetimesApart
    <3>0. x \in 0 .. v - 1
      BY <1>1
    <3>1. x \in DOMAIN slot /\ slot[x] \in 1 .. Len(capacity)
      BY <1>2, <1>6, <3>0
    <3>2. w # v
      BY <1>6, <2>3, <3>1
    <3>3. w \in DOMAIN slot /\ slot[x] = slot[w]
      BY <1>1, <1>2, <2>3, <3>1, <3>2
    <3>. QED
      BY <3>1, <3>3 DEF PlanInv, LifetimesApart
  <2>. QED
    BY <2>5, <2>7, <2>8 DEF PlanInv
<1>9. ASSUME NEW k, Joins(k)
      PROVE  PlanInv'
  <2>1. k \in 1 .. Len(capacity) /\ busy_until[k] < v
    BY <1>9 DEF BestSlots, Reusable
  <2>2. capacity[k] \in Nat /\ busy_until[k] \in Nat
    BY <1>6, <2>1
  <2>3. LET m == Max({capacity[k], bytes[v]})
        IN  m \in Nat /\ m >= capacity[k] /\ m >= bytes[v]
    <3>1. PICK top \in Nat : capacity[k] <= top /\ bytes[v] <= top
      <4>1. bytes[v] \in Nat /\ capacity[k] + bytes[v] \in Nat
        BY <1>1, <1>5, <2>2
      <4>. QED
        BY <2>2, <4>1
    <3>2. {capacity[k], bytes[v]} \in SUBSET (0 .. top)
      BY <1>1, <1>5, <2>2, <3>1
    <3>3. Max({capacity[k], bytes[v]}) \in {capacity[k], bytes[v]}
          /\ \A y \in {capacity[k], bytes[v]} : Max({capacity[k], bytes[v]}) >= y
      <4>. DEFINE pair == {capacity[k], bytes[v]}
      <4>1. pair \in SUBSET (0 .. top) /\ pair # {} /\ top \in Int
        BY <3>1, <3>2
      <4>. HIDE DEF pair
      <4>2. Max(pair) \in pair /\ \A y \in pair : Max(pair) >= y
        BY <4>1, MaxMember
      <4>. QED
        BY <4>2 DEF pair
    <3>. QED
      BY <1>1, <1>5, <2>2, <3>3
  <2>. DEFINE m == Max({capacity[k], bytes[v]})
              last == LastStep(v)
  <2>4. capacity' = [capacity EXCEPT ![k] = m] /\ busy_until' = [busy_until EXCEPT ![k] = last]
         /\ slot' = Placed(v, k)
    BY <1>9
  <2>5. last \in Nat /\ m \in Nat /\ m >= capacity[k] /\ m >= bytes[v]
    BY <1>1, <1>5, <2>3
  <2>6. /\ capacity' \in Seq(Nat) /\ busy_until' \in Seq(Nat)
        /\ Len(capacity') = Len(capacity) /\ Len(busy_until') = Len(capacity)
        /\ capacity'[k] >= capacity[k] /\ capacity'[k] >= bytes[v] /\ capacity'[k] \in Nat
        /\ busy_until'[k] = last
        /\ \A j \in 1 .. Len(capacity) :
              j # k => capacity'[j] = capacity[j] /\ busy_until'[j] = busy_until[j]
    <3>. HIDE DEF m, last
    <3>. QED
      BY <1>6, <2>1, <2>4, <2>5
  <2>. HIDE DEF m, Joins, Opens
  <2>7. /\ DOMAIN slot' = 0 .. v
        /\ slot'[v] = k
        /\ \A x \in DOMAIN slot : slot'[x] = slot[x]
    <3>1. k \in 1 .. Len(capacity) + 1
      BY <1>6, <2>1
    <3>2. /\ DOMAIN Placed(v, k) = 0 .. v /\ Placed(v, k)[v] = k
          /\ \A x \in DOMAIN slot : Placed(v, k)[x] = slot[x]
      BY <1>7, <3>1
    <3>. QED
      BY <2>4, <3>2
  <2>8. slot' \in [0 .. planned' - 1 -> 1 .. Len(capacity')]
    <3>1. slot' \in [0 .. v -> 1 .. Len(capacity)]
      <4>1. /\ Placed(v, k) = [x \in 0 .. v |-> Placed(v, k)[x]] /\ Placed(v, k)[v] = k
            /\ \A x \in DOMAIN slot : Placed(v, k)[x] = slot[x]
        BY <1>6, <1>7, <2>1
      <4>2. ASSUME NEW x \in 0 .. v
            PROVE  Placed(v, k)[x] \in 1 .. Len(capacity)
        <5>1. x = v \/ x \in DOMAIN slot
          BY <1>1, <1>2
        <5>. QED
          BY <1>6, <2>1, <4>1, <5>1
      <4>. QED
        BY <2>4, <4>1, <4>2
    <3>2. planned' - 1 = v /\ Len(capacity') = Len(capacity)
      BY <1>1, <1>3, <2>6
    <3>. QED
      BY <3>1, <3>2
  <2>9. PlanOK'
    <3>1. planned' \in 0 .. Nodes
      BY <1>1, <1>3
    <3>2. UNCHANGED <<reads, outputs, bytes>>
      BY <1>3 DEF graph
    <3>. QED
      BY <2>6, <2>8, <3>1, <3>2 DEF PlanInv, PlanOK
  <2>10. bytes' = bytes
    BY <1>3 DEF graph
  <2>11. \A x \in DOMAIN slot : slot[x] = k => LastStep(x) < v
    BY <1>1, <1>2, <1>5, <2>1, <2>2 DEF PlanInv, SlotsCover
  <2>12. v <= LastStep(v)
    BY <1>1, LastStepType DEF PlanInv, PlanOK
  <2>13. SlotsCover'
    <3>. SUFFICES ASSUME NEW x \in 0 .. v
                  PROVE  bytes[x] <= capacity'[slot'[x]] /\ LastStep(x) <= busy_until'[slot'[x]]
      BY <1>4, <2>7, <2>10 DEF SlotsCover
    <3>1. CASE x = v
      BY <1>1, <1>5, <2>6, <2>7, <3>1
    <3>2. CASE x # v
      <4>1. x \in DOMAIN slot
        BY <1>1, <1>2, <3>2
      <4>2. bytes[x] <= capacity[slot[x]] /\ LastStep(x) <= busy_until[slot[x]]
        BY <4>1 DEF PlanInv, SlotsCover
      <4>3. slot[x] \in 1 .. Len(capacity) /\ capacity[slot[x]] \in Nat
        BY <1>6, <4>1
      <4>4. x \in Value /\ bytes[x] \in Nat /\ LastStep(x) \in Nat /\ LastStep(v) \in Nat
        BY <1>1, <1>2, <1>5, <4>1
      <4>5. /\ bytes[x] <= capacity[slot[x]] /\ LastStep(x) <= busy_until[slot[x]]
            /\ slot[x] \in 1 .. Len(capacity) /\ capacity[slot[x]] \in Nat
            /\ x \in Value /\ bytes[x] \in Nat /\ LastStep(x) \in Nat /\ LastStep(v) \in Nat
        BY <4>2, <4>3, <4>4
      <4>6. CASE slot[x] = k
        <5>1. slot'[x] = k /\ LastStep(x) < v /\ bytes[x] <= capacity[k]
          BY <2>7, <2>11, <4>1, <4>5, <4>6
        <5>2. capacity'[k] \in Nat /\ capacity'[k] >= capacity[k] /\ busy_until'[k] = LastStep(v)
          BY <2>6
        <5>. QED
          BY <1>1, <2>2, <2>12, <4>5, <5>1, <5>2
      <4>7. CASE slot[x] # k
        BY <2>6, <2>7, <4>1, <4>5, <4>7
      <4>. QED
        BY <4>6, <4>7
    <3>. QED
      BY <3>1, <3>2
  <2>14. LifetimesApart'
    BY <1>1, <1>2, <1>4, <2>7, <2>11 DEF PlanInv, LifetimesApart
  <2>. QED
    BY <2>9, <2>13, <2>14 DEF PlanInv
<1>. QED
  BY <1>8, <1>9 DEF PlanValue

\* The invariant says all that SlotsSeparateLifetimes says.
LEMMA PlanInvSeparates ==
  ASSUME PlanInv
  PROVE  SlotsSeparateLifetimes
BY DEF PlanInv, SlotsCover, LifetimesApart, SlotsSeparateLifetimes
------------------------------------------------------------------------------
\* The layout of the buffer

\* align_up never goes down.
LEMMA AlignUpGrows ==
  ASSUME NEW n \in Nat
  PROVE  AlignUp(n) \in Nat /\ n <= AlignUp(n)
<1>. DEFINE m == n + Alignment - 1
            q == m \div Alignment
<1>1. m \in Nat /\ Alignment \in Nat /\ Alignment > 0
  BY PlanAssumption
<1>2. q \in Int /\ Alignment * q <= m /\ m < Alignment * (q + 1)
  BY <1>1
<1>3. q >= 0
  BY <1>1, <1>2
<1>4. Alignment * q >= n /\ q * Alignment = Alignment * q /\ q * Alignment \in Nat
  BY <1>1, <1>2, <1>3
<1>. QED
  BY <1>4 DEF AlignUp

\* f lays out the first m slots.
LaysOut(f, m) ==
    /\ f \in [0 .. m -> Nat] /\ f[0] = 0
    /\ \A k \in 1 .. m : f[k] = AlignUp(f[k - 1]) + capacity[k]

\* The ends of the slots are what the recursion says.
LEMMA EndOK ==
  ASSUME PlanOK
  PROVE  LaysOut(End, Len(capacity))
<1>. DEFINE n == Len(capacity)
            Q(m) == \E f : LaysOut(f, m)
            Bad == {m \in 0 .. n : ~Q(m)}
<1>1. n \in Nat /\ \A k \in 1 .. n : capacity[k] \in Nat
  BY DEF PlanOK
<1>2. Q(0)
  <2>1. LaysOut([k \in 0 .. 0 |-> 0], 0)
    BY DEF LaysOut
  <2>. QED
    BY <2>1
<1>3. ASSUME NEW m \in 1 .. n, Q(m - 1) PROVE Q(m)
  <2>1. PICK f : LaysOut(f, m - 1)
    BY <1>3
  <2>. DEFINE g == [k \in 0 .. m |-> IF k < m THEN f[k] ELSE AlignUp(f[m - 1]) + capacity[m]]
  <2>2. f[m - 1] \in Nat
    BY <2>1, <1>1 DEF LaysOut
  <2>3. AlignUp(f[m - 1]) + capacity[m] \in Nat
    <3>1. AlignUp(f[m - 1]) \in Nat
      BY <2>2, AlignUpGrows
    <3>2. capacity[m] \in Nat
      BY <1>1
    <3>. QED
      BY <3>1, <3>2
  <2>4. LaysOut(g, m)
    BY <1>1, <2>1, <2>3 DEF LaysOut
  <2>. QED
    BY <2>4
<1>4. Bad = {}
  <2>. SUFFICES ASSUME Bad # {} PROVE FALSE
    OBVIOUS
  <2>1. Bad \in SUBSET Nat
    BY <1>1
  <2>. HIDE DEF Q
  <2>2. PICK m \in Bad : \A y \in Bad : m <= y
    <3>. HIDE DEF Bad
    <3>. QED
      BY <2>1, LeastNatural
  <2>3. m \in 1 .. n /\ m - 1 \in 0 .. n /\ m - 1 \notin Bad
    BY <1>1, <1>2, <2>2
  <2>4. Q(m)
    BY <1>3, <2>3
  <2>. QED
    BY <2>2, <2>4
<1>5. PICK f : LaysOut(f, n)
  BY <1>1, <1>4
<1>6. f = [k \in 0 .. n |-> IF k = 0 THEN 0 ELSE AlignUp(f[k - 1]) + capacity[k]]
  BY <1>1, <1>5 DEF LaysOut
<1>7. End = [k \in 0 .. n |-> IF k = 0 THEN 0 ELSE AlignUp(End[k - 1]) + capacity[k]]
  BY <1>6, Zenon DEF End
<1>8. /\ DOMAIN End = 0 .. n /\ End[0] = 0
      /\ \A k \in 1 .. n : End[k] = AlignUp(End[k - 1]) + capacity[k]
  BY <1>1, <1>7
<1>9. \A k \in 0 .. n : End[k] \in Nat
  <2>. DEFINE Off == {k \in 0 .. n : End[k] \notin Nat}
  <2>. SUFFICES ASSUME Off # {} PROVE FALSE
    OBVIOUS
  <2>1. Off \in SUBSET Nat
    BY <1>1
  <2>2. PICK m \in Off : \A y \in Off : m <= y
    <3>. HIDE DEF Off
    <3>. QED
      BY <2>1, LeastNatural
  <2>3. m \in 1 .. n /\ m - 1 \in 0 .. n /\ End[m - 1] \in Nat
    BY <1>1, <1>8, <2>2
  <2>4. End[m] \in Nat
    <3>1. AlignUp(End[m - 1]) \in Nat
      BY <2>3, AlignUpGrows
    <3>2. capacity[m] \in Nat /\ End[m] = AlignUp(End[m - 1]) + capacity[m]
      BY <1>1, <1>8, <2>3
    <3>. QED
      BY <3>1, <3>2
  <2>. QED
    BY <2>2, <2>4
<1>. QED
  BY <1>1, <1>7, <1>8, <1>9 DEF LaysOut

\* A slot begins behind the ones before it and ends within the buffer.
LEMMA SlotsApart ==
  ASSUME PlanOK
  PROVE  /\ \A k \in 1 .. Len(capacity) :
               Offsets[k] \in Nat /\ Offsets[k] + capacity[k] <= BufferSize
         /\ \A j, k \in 1 .. Len(capacity) :
               j < k => Offsets[j] + capacity[j] <= Offsets[k]
<1>. DEFINE n == Len(capacity)
<1>1. n \in Nat /\ \A k \in 1 .. n : capacity[k] \in Nat
  BY DEF PlanOK
<1>2. /\ \A k \in 0 .. n : End[k] \in Nat
      /\ \A k \in 1 .. n : End[k] = AlignUp(End[k - 1]) + capacity[k]
  BY <1>1, EndOK DEF LaysOut
<1>3. ASSUME NEW k \in 1 .. n
      PROVE  /\ Offsets[k] \in Nat /\ End[k - 1] <= Offsets[k]
             /\ End[k] = Offsets[k] + capacity[k]
  <2>1. k - 1 \in 0 .. n
    BY <1>1
  <2>2. AlignUp(End[k - 1]) \in Nat /\ End[k - 1] <= AlignUp(End[k - 1])
    BY <1>2, <2>1, AlignUpGrows
  <2>. QED
    BY <1>2, <2>2 DEF Offsets
<1>4. ASSUME NEW j \in 0 .. n, NEW k \in 0 .. n, j <= k PROVE End[j] <= End[k]
  <2>. DEFINE Off == {i \in 0 .. n : j <= i /\ End[i] < End[j]}
  <2>. SUFFICES ASSUME Off # {} PROVE FALSE
    BY <1>2, <1>4
  <2>1. Off \in SUBSET Nat
    BY <1>1
  <2>2. PICK m \in Off : \A y \in Off : m <= y
    <3>. HIDE DEF Off
    <3>. QED
      BY <2>1, LeastNatural
  <2>3. m \in 1 .. n /\ j <= m - 1 /\ m - 1 \in 0 .. n
    BY <1>1, <1>2, <2>2
  <2>4. End[j] <= End[m - 1]
    BY <1>1, <1>2, <2>2, <2>3, SMTT(30)
  <2>5. End[m - 1] <= End[m]
    <3>1. /\ Offsets[m] \in Nat /\ End[m - 1] <= Offsets[m]
          /\ End[m] = Offsets[m] + capacity[m]
      BY <1>3, <2>3
    <3>2. capacity[m] \in Nat /\ End[m - 1] \in Nat
      BY <1>1, <1>2, <2>3
    <3>. QED
      BY <3>1, <3>2
  <2>6. End[m] < End[j] /\ End[m] \in Nat /\ End[j] \in Nat /\ End[m - 1] \in Nat
    BY <1>2, <2>2, <2>3
  <2>. HIDE DEF Off
  <2>. QED
    BY <2>4, <2>5, <2>6
<1>5. ASSUME NEW k \in 1 .. n PROVE Offsets[k] + capacity[k] <= End[n]
  <2>1. k \in 0 .. n /\ n \in 0 .. n /\ k <= n
    BY <1>1
  <2>. QED
    BY <1>3, <1>4, <2>1
<1>6. ASSUME NEW j \in 1 .. n, NEW k \in 1 .. n, j < k
      PROVE  Offsets[j] + capacity[j] <= Offsets[k]
  <2>1. j \in 0 .. n /\ k - 1 \in 0 .. n /\ j <= k - 1
    BY <1>1, <1>6
  <2>2. End[j] <= End[k - 1]
    BY <1>4, <2>1
  <2>. QED
    BY <1>2, <1>3, <2>1, <2>2
<1>. QED
  BY <1>3, <1>5, <1>6 DEF BufferSize

\* Where a value lies within its slot.
LEMMA RegionInSlot ==
  ASSUME PlanOK, SlotsCover, Complete, NEW v \in Value
  PROVE  /\ slot[v] \in 1 .. Len(capacity) /\ v \in DOMAIN slot
         /\ bytes[v] \in Nat /\ bytes[v] <= capacity[slot[v]]
         /\ capacity[slot[v]] \in Nat
         /\ Offsets[slot[v]] \in Nat
         /\ Offsets[slot[v]] + capacity[slot[v]] <= BufferSize
         /\ Region(v) = Offsets[slot[v]] .. Offsets[slot[v]] + bytes[v] - 1
<1>1. Nodes \in Nat /\ planned = Nodes
  BY PlanAssumption DEF Complete
<1>2. slot[v] \in 1 .. Len(capacity) /\ v \in DOMAIN slot /\ bytes[v] \in Nat
  BY <1>1 DEF PlanOK, Value, Step
<1>3. capacity[slot[v]] \in Nat
  BY <1>2 DEF PlanOK
<1>4. bytes[v] <= capacity[slot[v]]
  BY <1>2 DEF SlotsCover
<1>5. Offsets[slot[v]] \in Nat /\ Offsets[slot[v]] + capacity[slot[v]] <= BufferSize
  BY <1>2, SlotsApart
<1>. QED
  BY <1>2, <1>3, <1>4, <1>5 DEF Region

\* Values whose regions meet are in one slot.
LEMMA SlotsOverlap ==
  ASSUME PlanOK, SlotsCover, Complete, NEW v \in Value, NEW w \in Value,
         Region(v) \cap Region(w) # {}
  PROVE  slot[v] = slot[w]
<1>. DEFINE j == slot[v]
            k == slot[w]
            x == Offsets[j]
            y == Offsets[k]
<1>. SUFFICES ASSUME j # k PROVE Region(v) \cap Region(w) = {}
  OBVIOUS
<1>1. /\ j \in 1 .. Len(capacity) /\ x \in Nat
      /\ bytes[v] \in Nat /\ bytes[v] <= capacity[j] /\ capacity[j] \in Nat
      /\ Region(v) = x .. x + bytes[v] - 1
  BY RegionInSlot
<1>2. /\ k \in 1 .. Len(capacity) /\ y \in Nat
      /\ bytes[w] \in Nat /\ bytes[w] <= capacity[k] /\ capacity[k] \in Nat
      /\ Region(w) = y .. y + bytes[w] - 1
  BY RegionInSlot
<1>3. Len(capacity) \in Nat
  BY DEF PlanOK
<1>4. x + capacity[j] <= y \/ y + capacity[k] <= x
  <2>. HIDE DEF j, k
  <2>1. j < k \/ k < j
    BY <1>1, <1>2, <1>3
  <2>. QED
    BY <1>1, <1>2, <2>1, SlotsApart
<1>. DEFINE a == bytes[v]
            b == bytes[w]
            c == capacity[j]
            d == capacity[k]
<1>5. /\ x \in Nat /\ a \in Nat /\ c \in Nat /\ a <= c
      /\ y \in Nat /\ b \in Nat /\ d \in Nat /\ b <= d
      /\ x + c <= y \/ y + d <= x
      /\ Region(v) = x .. x + a - 1 /\ Region(w) = y .. y + b - 1
  BY <1>1, <1>2, <1>4
<1>. HIDE DEF x, y, j, k, a, b, c, d
<1>6. ASSUME NEW e \in Region(v), e \in Region(w) PROVE FALSE
  <2>1. e \in Int /\ x <= e /\ e <= x + a - 1 /\ y <= e /\ e <= y + b - 1
    BY <1>5, <1>6
  <2>. QED
    BY <1>5, <2>1
<1>. QED
  BY <1>6

\* The regions of two values that are alive at the same step do not meet, and
\* lie within the buffer.
LEMMA RegionsApart ==
  ASSUME PlanInv, Complete
  PROVE  /\ \A v \in Value : Region(v) \subseteq 0 .. BufferSize - 1
         /\ \A v, w \in Value : v < w /\ w <= LastStep(v) => Region(v) \cap Region(w) = {}
<1>1. PlanOK /\ SlotsCover /\ LifetimesApart
  BY DEF PlanInv
<1>2. BufferSize \in Nat
  <2>1. Len(capacity) \in 0 .. Len(capacity)
    BY <1>1 DEF PlanOK
  <2>. QED
    BY <1>1, <2>1, EndOK DEF BufferSize, LaysOut
<1>3. ASSUME NEW v \in Value PROVE Region(v) \subseteq 0 .. BufferSize - 1
  BY <1>1, <1>2, RegionInSlot, SMTT(30)
<1>4. ASSUME NEW v \in Value, NEW w \in Value, v < w, w <= LastStep(v)
      PROVE  Region(v) \cap Region(w) = {}
  <2>1. v \in DOMAIN slot /\ w \in DOMAIN slot
    BY <1>1, RegionInSlot
  <2>2. LastStep(v) \in Int /\ w \in Int
    BY <1>1, LastStepType, PlanAssumption DEF PlanOK, Value, Step
  <2>3. slot[v] # slot[w]
    BY <1>1, <1>4, <2>1, <2>2 DEF LifetimesApart
  <2>. QED
    BY <1>1, <2>3, SlotsOverlap
<1>. QED
  BY <1>3, <1>4

------------------------------------------------------------------------------
\* Runs on the CPU

\* The inductive invariant: a well-formed run over a plan that separates lifetimes.
RunInv == TypeOK /\ PlanInv

LEMMA RunInvInit == Init => RunInv
<1>. SUFFICES ASSUME Init PROVE RunInv
  OBVIOUS
<1>1. PlanInv
  BY PlanInvInit DEF Init
<1>2. TypeOK
  BY <1>1, PlanAssumption DEF Init, TypeOK, PlanInv
<1>. QED
  BY <1>1, <1>2 DEF RunInv

LEMMA RunInvNext == RunInv /\ [Next]_vars => RunInv'
<1>. SUFFICES ASSUME RunInv, [Next]_vars PROVE RunInv'
  OBVIOUS
<1>. USE DEF RunInv
<1>0. Nodes \in Nat /\ PlanOK /\ planned \in 0 .. Nodes /\ step \in 0 .. Nodes
  BY PlanAssumption DEF TypeOK, PlanOK
<1>1. CASE PlanValue /\ UNCHANGED <<running, step, values, buffer>>
  <2>1. PlanInv'
    BY <1>1, PlanInvStep
  <2>2. ~running
    <3>1. planned < Nodes
      BY <1>1 DEF PlanValue
    <3>2. ~Complete
      BY <1>0, <3>1 DEF Complete
    <3>. QED
      BY <3>2 DEF TypeOK
  <2>. QED
    BY <1>1, <2>1, <2>2 DEF TypeOK, PlanInv
<1>2. ASSUME UNCHANGED graph, UNCHANGED plan
      PROVE  PlanInv' /\ PlanOK' /\ (Complete' <=> Complete)
  BY <1>2, PlanInvStutter DEF PlanInv, plan, Complete
<1>3. CASE BeginRun
  BY <1>0, <1>2, <1>3 DEF BeginRun, TypeOK
<1>4. CASE ExecuteNode
  <2>1. step \in Value /\ step' \in 0 .. Nodes
    BY <1>0, <1>4 DEF ExecuteNode, Value, Step
  <2>2. values' \subseteq Value
    BY <1>4, <2>1 DEF ExecuteNode, TypeOK
  <2>3. \A b \in DOMAIN buffer' : buffer'[b] \in Value \cup {Nothing}
    BY <1>4, <2>1 DEF ExecuteNode, TypeOK
  <2>. QED
    BY <1>2, <1>4, <2>1, <2>2, <2>3 DEF ExecuteNode, TypeOK
<1>5. CASE NodeFails
  <2>1. step \in Value
    BY <1>0, <1>5 DEF NodeFails, Value, Step
  <2>2. values' \subseteq Value
    BY <1>5, <2>1 DEF NodeFails, TypeOK
  <2>3. \A b \in DOMAIN buffer' : buffer'[b] \in Value \cup {Nothing}
    BY <1>5, <2>1 DEF NodeFails, TypeOK
  <2>. QED
    BY <1>2, <1>5, <2>2, <2>3 DEF NodeFails, TypeOK
<1>6. CASE EndRun
  BY <1>2, <1>6 DEF EndRun, TypeOK
<1>7. CASE UNCHANGED vars
  BY <1>2, <1>7 DEF vars, TypeOK
<1>. QED
  BY <1>1, <1>3, <1>4, <1>5, <1>6, <1>7 DEF Next

LEMMA RunInvAlways == Spec => []RunInv
BY RunInvInit, RunInvNext, PTL DEF Spec

\* The plan and its runs stay well formed: every value planned has a slot of the
\* plan, nothing runs before the plan is complete, and no step is beyond its end.
THEOREM TypeAlwaysOK == Spec => []TypeOK
<1>1. RunInv => TypeOK
  BY DEF RunInv
<1>. QED
  BY <1>1, RunInvAlways, PTL

\* memory_plan.cpp, MemoryPlan::MemoryPlan: whatever the graph and the sizes of its
\* values are, a slot is as large as each of its values, and values that share it
\* are never alive at the same step, not even the one that reads the first and
\* produces the second.
THEOREM SlotsAlwaysSeparateLifetimes == Spec => []SlotsSeparateLifetimes
<1>1. RunInv => SlotsSeparateLifetimes
  BY PlanInvSeparates DEF RunInv
<1>. QED
  BY <1>1, RunInvAlways, PTL

------------------------------------------------------------------------------
\* What a run finds in the buffer

\* While a graph runs, every value that was produced and is still to be read is
\* materialized, and its bytes are its own.
LiveIntact ==
    running =>
        /\ DOMAIN buffer = 0 .. BufferSize - 1
        /\ \A v \in Value :
              v < step /\ step <= LastStep(v) =>
                  v \in values /\ \A b \in Region(v) : buffer[b] = v

\* The order of the nodes: a value is read after it is produced.
Topological == \A s \in Step : \A v \in reads[s] : v < s

IntactInv == RunInv /\ Topological /\ LiveIntact

LEMMA IntactInvInit == Init => IntactInv
<1>. SUFFICES ASSUME Init PROVE IntactInv
  OBVIOUS
<1>. QED
  BY RunInvInit DEF Init, PlanInit, IntactInv, Topological, LiveIntact

LEMMA IntactInvNext == IntactInv /\ [Next]_vars => IntactInv'
<1>. SUFFICES ASSUME IntactInv, [Next]_vars PROVE IntactInv'
  OBVIOUS
<1>1. RunInv /\ RunInv' /\ Topological /\ LiveIntact /\ TypeOK /\ TypeOK' /\ PlanOK
  BY RunInvNext DEF IntactInv, RunInv, TypeOK
<1>2. UNCHANGED graph
  BY DEF Next, vars, PlanValue, BeginRun, ExecuteNode, NodeFails, EndRun, graph
<1>3. Topological'
  BY <1>1, <1>2 DEF Topological, graph
<1>4. ASSUME UNCHANGED plan
      PROVE  /\ BufferSize' = BufferSize
             /\ \A v : LastStep(v)' = LastStep(v) /\ Region(v)' = Region(v)
  <2>1. End' = End
    BY <1>4 DEF plan, End, AlignUp
  <2>2. Offsets' = Offsets
    BY <1>4, <2>1 DEF plan, Offsets
  <2>3. \A v : Region(v)' = Region(v)
    BY <1>2, <1>4, <2>2 DEF plan, graph, Region
  <2>4. \A v : LastStep(v)' = LastStep(v)
    BY <1>2, LastStepStable
  <2>. QED
    BY <1>4, <2>1, <2>3, <2>4 DEF plan, BufferSize
<1>5. Nodes \in Nat /\ step \in 0 .. Nodes
  BY <1>1, PlanAssumption DEF TypeOK
<1>6. CASE PlanValue /\ UNCHANGED <<running, step, values, buffer>>
  <2>1. ~running
    <3>1. planned < Nodes
      BY <1>6 DEF PlanValue
    <3>2. ~Complete
      BY <1>5, <3>1 DEF Complete
    <3>. QED
      BY <1>1, <3>2 DEF TypeOK
  <2>. QED
    BY <1>1, <1>3, <1>6, <2>1 DEF IntactInv, LiveIntact
<1>7. CASE BeginRun
  <2>1. /\ buffer' = [b \in 0 .. BufferSize - 1 |-> Nothing] /\ step' = 0 /\ UNCHANGED plan
    BY <1>7 DEF BeginRun
  <2>2. \A v \in Value : ~(v < step')
    BY <1>5, <2>1 DEF Value, Step
  <2>. QED
    BY <1>1, <1>3, <1>4, <2>1, <2>2 DEF IntactInv, LiveIntact
<1>8. CASE ExecuteNode
  <2>1. /\ running /\ step < Nodes /\ step' = step + 1 /\ UNCHANGED plan /\ running' = running
        /\ values' = (values \cup {step}) \ ReleasedAfter(step)
        /\ buffer' = [b \in DOMAIN buffer |-> IF b \in Region(step) THEN step ELSE buffer[b]]
    BY <1>8 DEF ExecuteNode
  <2>2. Complete /\ step \in Value
    BY <1>1, <1>5, <2>1 DEF TypeOK, Value, Step
  <2>3. DOMAIN buffer = 0 .. BufferSize - 1 /\ DOMAIN buffer' = DOMAIN buffer
    BY <1>1, <2>1 DEF LiveIntact
  <2>4. ASSUME NEW v \in Value, v < step + 1, step + 1 <= LastStep(v)
        PROVE  v \in values' /\ \A b \in Region(v) : buffer'[b] = v
    <3>1. v \in Int /\ step \in Int /\ LastStep(v) \in Int
      <4>1. LastStep(v) \in 0 .. Nodes
        BY <1>1, LastStepType DEF PlanOK
      <4>. QED
        BY <1>5, <4>1 DEF Value, Step
    <3>2. v \notin ReleasedAfter(step)
      BY <2>4, <3>1 DEF ReleasedAfter
    <3>3. Region(v) \subseteq DOMAIN buffer
      BY <1>1, <2>2, <2>3, RegionsApart DEF RunInv
    <3>4. CASE v = step
      BY <2>1, <3>2, <3>3, <3>4
    <3>5. CASE v # step
      <4>1. v < step /\ step <= LastStep(v)
        BY <2>4, <3>1, <3>5
      <4>2. v \in values /\ \A b \in Region(v) : buffer[b] = v
        BY <1>1, <2>1, <4>1 DEF LiveIntact
      <4>3. Region(v) \cap Region(step) = {}
        BY <1>1, <2>2, <4>1, RegionsApart DEF RunInv
      <4>. QED
        BY <2>1, <3>2, <3>3, <4>2, <4>3
    <3>. QED
      BY <3>4, <3>5
  <2>5. LiveIntact'
    BY <1>4, <2>1, <2>3, <2>4, ZenonT(30) DEF LiveIntact
  <2>. QED
    BY <1>1, <1>3, <2>5 DEF IntactInv
<1>9. CASE NodeFails \/ EndRun
  BY <1>1, <1>3, <1>9 DEF NodeFails, EndRun, IntactInv, LiveIntact
<1>10. CASE UNCHANGED vars
  <2>1. UNCHANGED plan /\ UNCHANGED <<running, step, values, buffer>>
    BY <1>10 DEF vars
  <2>. QED
    BY <1>1, <1>3, <1>4, <2>1 DEF IntactInv, LiveIntact
<1>. QED
  BY <1>6, <1>7, <1>8, <1>9, <1>10 DEF Next

LEMMA IntactInvAlways == Spec => []IntactInv
BY IntactInvInit, IntactInvNext, PTL DEF Spec

\* Executor::run, release_after_step: whatever the graph, the sizes of its values
\* and the alignment are, a node finds every value it reads materialized and
\* untouched by the nodes that ran since, and writes into none of them.
THEOREM OperandsAlwaysIntact == Spec => []OperandsIntact
<1>1. ASSUME IntactInv PROVE OperandsIntact
  <2>. SUFFICES ASSUME running, step < Nodes, NEW v \in reads[step]
                PROVE  /\ v \in values
                       /\ \A b \in Region(v) : buffer[b] = v
                       /\ Region(v) \cap Region(step) = {}
    BY DEF OperandsIntact
  <2>1. RunInv /\ TypeOK
    BY <1>1 DEF IntactInv, RunInv
  <2>2. Complete /\ reads \in [Step -> SUBSET Value] /\ step \in 0 .. Nodes
    BY <2>1 DEF TypeOK, PlanOK
  <2>3. step \in Value /\ step \in Step
    BY <2>2, PlanAssumption DEF Value, Step
  <2>4. v \in Value /\ v < step /\ step <= LastStep(v)
    BY <1>1, <2>2, <2>3, LastStepReads DEF IntactInv, Topological
  <2>. QED
    BY <1>1, <2>1, <2>2, <2>3, <2>4, RegionsApart DEF IntactInv, RunInv, LiveIntact
<1>. QED
  BY <1>1, IntactInvAlways, PTL

\* ExecutionContext::output: whatever the graph is, every graph output is there
\* when the last node is done, untouched by the nodes after its producer.
THEOREM OutputsAlwaysIntact == Spec => []OutputsIntact
<1>1. ASSUME IntactInv PROVE OutputsIntact
  <2>. SUFFICES ASSUME running, step = Nodes, NEW v \in outputs
                PROVE  v \in values /\ \A b \in Region(v) : buffer[b] = v
    BY DEF OutputsIntact
  <2>1. v \in Value /\ v < step /\ step <= LastStep(v)
    <3>1. v \in Value /\ Nodes \in Nat /\ step \in Nat
      BY <1>1, PlanAssumption DEF IntactInv, RunInv, TypeOK, PlanOK
    <3>2. LastStep(v) = Nodes
      BY DEF LastStep
    <3>. QED
      BY <3>1, <3>2 DEF Value, Step
  <2>. QED
    BY <1>1, <2>1 DEF IntactInv, LiveIntact
<1>. QED
  BY <1>1, IntactInvAlways, PTL

------------------------------------------------------------------------------
\* Runs on a CUDA stream

\* A slot remembers the last of its values that a kernel was submitted for.
OccupantsLatest ==
    /\ \A k \in DOMAIN occupants :
          occupants[k] # Nobody => slot[occupants[k]] = k
    /\ \A v \in 0 .. submitted - 1 :
          slot[v] \in DOMAIN occupants /\ v <= occupants[slot[v]]

\* Once a slot was handed on, the last reader of the earlier value was waited for.
HandedOnSafely ==
    \A v, w \in 0 .. submitted - 1 :
        v < w /\ slot[v] = slot[w] => LastStep(v) < waited

\* What the host knows: it only waits for what the stream has executed, and a
\* context that has an output is at rest.
HostInv ==
    /\ ~Complete => submitted = 0 /\ ~has_output
    /\ in_run => DOMAIN occupants = 1 .. Len(capacity)
    /\ waited <= executed
    /\ has_output => ~in_run /\ submitted = Nodes /\ executed = Nodes
    /\ OccupantsLatest /\ HandedOnSafely

\* In stream order: every value that was computed and is still to be read, or is a
\* graph output, is in the arena.
ArenaIntact ==
    in_run \/ submitted > 0 =>
        /\ DOMAIN arena = 0 .. BufferSize - 1
        /\ \A v \in Value : v < executed /\ executed <= LastStep(v) => Intact(v)

CudaInv == CudaTypeOK /\ PlanInv /\ Topological /\ HostInv /\ ArenaIntact

LEMMA CudaInvInit == CudaInit => CudaInv
<1>. SUFFICES ASSUME CudaInit PROVE CudaInv
  OBVIOUS
<1>1. PlanInv /\ Nodes \in Nat \ {0}
  BY PlanInvInit, PlanAssumption DEF CudaInit
<1>2. CudaTypeOK
  <2>1. DOMAIN occupants = {} /\ 0 \in 0 .. Nodes /\ 0 \in 0 .. 0
    BY <1>1 DEF CudaInit
  <2>. QED
    BY <1>1, <2>1 DEF CudaInit, CudaTypeOK, PlanInv
<1>3. ~Complete
  BY <1>1 DEF CudaInit, PlanInit, Complete
<1>4. HostInv
  BY <1>3 DEF CudaInit, HostInv, OccupantsLatest, HandedOnSafely
<1>. QED
  BY <1>1, <1>2, <1>4 DEF CudaInit, PlanInit, CudaInv, Topological, ArenaIntact

------------------------------------------------------------------------------
\* The steps

\* Nothing but the planner touches the plan, and it is done before the first run.
LEMMA PlanFixed ==
  ASSUME UNCHANGED graph, UNCHANGED plan
  PROVE  /\ BufferSize' = BufferSize /\ (Complete' <=> Complete)
         /\ \A v : LastStep(v)' = LastStep(v) /\ Region(v)' = Region(v)
         /\ PlanInv => PlanInv' /\ PlanOK'
         /\ Topological => Topological'
<1>1. End' = End
  BY DEF plan, End, AlignUp
<1>2. Offsets' = Offsets
  BY <1>1 DEF plan, Offsets
<1>3. \A v : Region(v)' = Region(v)
  BY <1>2 DEF plan, graph, Region
<1>4. \A v : LastStep(v)' = LastStep(v)
  BY LastStepStable
<1>5. PlanInv => PlanInv' /\ PlanOK'
  <2>. SUFFICES ASSUME PlanInv PROVE PlanInv'
    BY DEF PlanInv
  <2>. QED
    BY PlanInvStutter
<1>. QED
  BY <1>1, <1>3, <1>4, <1>5 DEF plan, graph, BufferSize, Complete, Topological

\* What a reader may take from the types.
LEMMA CudaTypes ==
  ASSUME CudaInv
  PROVE  /\ Nodes \in Nat \ {0} /\ PlanOK /\ PlanInv
         /\ submitted \in 0 .. Nodes /\ waited \in 0 .. submitted /\ executed \in 0 .. submitted
         /\ \A v \in Value : LastStep(v) \in 0 .. Nodes /\ v \in Nat
         /\ Complete => slot \in [Value -> 1 .. Len(capacity)]
<1>1. Nodes \in Nat \ {0} /\ PlanOK /\ PlanInv
  BY PlanAssumption DEF CudaInv, CudaTypeOK
<1>2. submitted \in 0 .. Nodes /\ waited \in 0 .. submitted /\ executed \in 0 .. submitted
  BY DEF CudaInv, CudaTypeOK
<1>3. ASSUME NEW v \in Value PROVE LastStep(v) \in 0 .. Nodes /\ v \in Nat
  BY <1>1, LastStepType DEF PlanOK, Value, Step
<1>4. Complete => slot \in [Value -> 1 .. Len(capacity)]
  BY <1>1 DEF PlanOK, Complete, Value, Step
<1>. QED
  BY <1>1, <1>2, <1>3, <1>4

\* The kernels to wait for read the last value of the slot, dead by now.
LEMMA ReuseEndBound ==
  ASSUME CudaInv, in_run, submitted < Nodes
  PROVE  /\ ReuseEnd \in 0 .. submitted
         /\ \A v \in 0 .. submitted - 1 : slot[v] = slot[submitted] => LastStep(v) < Max({waited, ReuseEnd})
         /\ Max({waited, ReuseEnd}) \in {waited, ReuseEnd}
         /\ waited <= Max({waited, ReuseEnd})
<1>. DEFINE p == Previous
            m == Max({waited, ReuseEnd})
<1>1. /\ Nodes \in Nat \ {0} /\ PlanOK /\ PlanInv
      /\ submitted \in 0 .. Nodes /\ waited \in 0 .. submitted /\ executed \in 0 .. submitted
      /\ \A v \in Value : LastStep(v) \in 0 .. Nodes /\ v \in Nat
      /\ slot \in [Value -> 1 .. Len(capacity)]
  BY CudaTypes DEF CudaInv, CudaTypeOK
<1>2. /\ submitted \in Value /\ \A v \in 0 .. submitted - 1 : v \in Value
      /\ DOMAIN slot = Value
  BY <1>1 DEF Value, Step
<1>3. /\ DOMAIN occupants = 1 .. Len(capacity) /\ OccupantsLatest /\ HandedOnSafely
      /\ \A k \in DOMAIN occupants : occupants[k] \in {Nobody} \cup (0 .. submitted - 1)
  BY DEF CudaInv, HostInv, CudaTypeOK
<1>4. slot[submitted] \in DOMAIN occupants
  BY <1>1, <1>2, <1>3
<1>5. p \in {Nobody} \cup (0 .. submitted - 1) /\ (p # Nobody => slot[p] = slot[submitted])
  BY <1>3, <1>4 DEF OccupantsLatest, Previous
<1>6. ASSUME p # Nobody PROVE p \in 0 .. submitted - 1 /\ LastStep(p) < submitted /\ LastStep(p) \in Nat
  <2>1. p \in 0 .. submitted - 1 /\ p \in Value /\ p < submitted
    BY <1>1, <1>2, <1>5, <1>6
  <2>2. LastStep(p) < submitted
    BY <1>1, <1>2, <1>5, <1>6, <2>1 DEF PlanInv, LifetimesApart
  <2>. QED
    BY <1>1, <2>1, <2>2
<1>7. ReuseEnd = IF p = Nobody THEN 0 ELSE LastStep(p) + 1
  BY DEF ReuseEnd
<1>8. ReuseEnd \in 0 .. submitted
  <2>. HIDE DEF p
  <2>. QED
    BY <1>1, <1>6, <1>7
<1>9. m \in {waited, ReuseEnd} /\ waited <= m /\ ReuseEnd <= m /\ m \in Nat
  <2>. DEFINE pair == {waited, ReuseEnd}
  <2>1. pair \in SUBSET (0 .. submitted) /\ pair # {} /\ submitted \in Int
    BY <1>1, <1>8
  <2>2. Max(pair) \in pair /\ \A y \in pair : Max(pair) >= y
    <3>. HIDE DEF pair
    <3>. QED
      BY <2>1, MaxMember
  <2>. QED
    BY <1>1, <1>8, <2>2
<1>10. ASSUME NEW v \in 0 .. submitted - 1, slot[v] = slot[submitted]
       PROVE  LastStep(v) < m
  <2>1. v <= p /\ p # Nobody
    BY <1>1, <1>3, <1>10 DEF OccupantsLatest, Previous, Nobody
  <2>2. p \in 0 .. submitted - 1 /\ slot[v] = slot[p] /\ LastStep(p) \in Nat /\ LastStep(v) \in Nat
    BY <1>1, <1>2, <1>5, <1>6, <1>10, <2>1
  <2>3. CASE v = p
    <3>1. ReuseEnd = LastStep(p) + 1
      BY <1>7, <2>1
    <3>. HIDE DEF p, m
    <3>. QED
      BY <1>8, <1>9, <2>2, <2>3, <3>1
  <2>4. CASE v # p
    <3>1. v < p
      BY <1>1, <2>1, <2>2, <2>4
    <3>2. LastStep(v) < waited
      BY <1>3, <2>2, <3>1 DEF HandedOnSafely
    <3>. HIDE DEF p, m
    <3>. QED
      BY <1>1, <1>9, <2>2, <3>2
  <2>. QED
    BY <2>3, <2>4
<1>. QED
  BY <1>8, <1>9, <1>10
LEMMA PlanKeepsInv ==
  ASSUME CudaInv, Plan
  PROVE  CudaInv'
<1>1. ~Complete /\ ~in_run /\ submitted = 0 /\ executed = 0 /\ waited = 0 /\ ~has_output
  BY CudaTypes DEF CudaInv, CudaTypeOK, HostInv, Plan, PlanValue, Complete
<1>2. PlanInv' /\ PlanOK'
  BY PlanInvStep DEF CudaInv, Plan, PlanInv
<1>3. /\ UNCHANGED <<in_run, has_output, occupants, submitted, waited, executed, failed, arena>>
      /\ UNCHANGED graph
  BY DEF Plan, PlanValue, progress
<1>4. CudaTypeOK'
  BY <1>1, <1>2, <1>3 DEF CudaInv, CudaTypeOK
<1>5. \A k \in DOMAIN occupants : occupants[k] = Nobody
  BY <1>1 DEF CudaInv, CudaTypeOK
<1>6. HostInv'
  BY <1>1, <1>3, <1>5 DEF HostInv, OccupantsLatest, HandedOnSafely
<1>. QED
  BY <1>1, <1>2, <1>3, <1>4, <1>6 DEF CudaInv, Topological, ArenaIntact, graph

LEMMA BeginCudaRunKeepsInv ==
  ASSUME CudaInv, BeginCudaRun
  PROVE  CudaInv'
<1>1. /\ Complete /\ UNCHANGED graph /\ UNCHANGED plan /\ in_run' = TRUE /\ has_output' = FALSE
      /\ occupants' = [k \in 1 .. Len(capacity) |-> Nobody]
      /\ submitted' = 0 /\ waited' = 0 /\ executed' = 0 /\ failed' = failed
      /\ arena' = [b \in 0 .. BufferSize - 1 |-> Garbage]
  BY DEF BeginCudaRun
<1>2. /\ BufferSize' = BufferSize /\ Complete' /\ PlanInv' /\ PlanOK' /\ Topological'
      /\ capacity' = capacity
  BY <1>1, PlanFixed DEF CudaInv, plan
<1>3. CudaTypeOK'
  <2>1. submitted' \in 0 .. Nodes /\ waited' \in 0 .. submitted' /\ executed' \in 0 .. submitted'
    BY <1>1, CudaTypes
  <2>2. \A k \in DOMAIN occupants' : occupants'[k] = Nobody
    BY <1>1
  <2>. QED
    BY <1>1, <1>2, <2>1, <2>2 DEF CudaInv, CudaTypeOK
<1>4. HostInv'
  BY <1>1, <1>2 DEF HostInv, OccupantsLatest, HandedOnSafely
<1>5. ArenaIntact'
  <2>1. \A v \in Value : ~(v < executed')
    BY <1>1, CudaTypes
  <2>. QED
    BY <1>1, <1>2, <2>1 DEF ArenaIntact
<1>. QED
  BY <1>2, <1>3, <1>4, <1>5 DEF CudaInv

LEMMA SubmitKeepsInv ==
  ASSUME CudaInv, Submit
  PROVE  CudaInv'
<1>. DEFINE m == Max({waited, ReuseEnd})
            k == slot[submitted]
<1>1. /\ in_run /\ submitted < Nodes /\ ReuseEnd <= executed /\ UNCHANGED graph /\ UNCHANGED plan
      /\ waited' = m
      /\ occupants' = [occupants EXCEPT ![k] = submitted]
      /\ submitted' = submitted + 1
      /\ UNCHANGED <<in_run, has_output, executed, failed, arena>>
  BY DEF Submit
<1>2. /\ BufferSize' = BufferSize /\ (Complete' <=> Complete)
      /\ \A v : LastStep(v)' = LastStep(v) /\ Region(v)' = Region(v)
      /\ PlanInv' /\ PlanOK' /\ Topological' /\ capacity' = capacity /\ slot' = slot
  BY <1>1, PlanFixed DEF CudaInv, plan
<1>3. /\ Nodes \in Nat \ {0} /\ Complete
      /\ submitted \in 0 .. Nodes /\ waited \in 0 .. submitted /\ executed \in 0 .. submitted
      /\ \A v \in Value : LastStep(v) \in 0 .. Nodes /\ v \in Nat
      /\ slot \in [Value -> 1 .. Len(capacity)]
  BY <1>1, CudaTypes DEF CudaInv, CudaTypeOK
<1>4. /\ ReuseEnd \in 0 .. submitted /\ m \in {waited, ReuseEnd} /\ waited <= m
      /\ \A v \in 0 .. submitted - 1 : slot[v] = k => LastStep(v) < m
  BY <1>1, ReuseEndBound
<1>5. /\ DOMAIN occupants = 1 .. Len(capacity) /\ OccupantsLatest /\ HandedOnSafely /\ waited <= executed
      /\ ~has_output
      /\ \A j \in DOMAIN occupants : occupants[j] \in {Nobody} \cup (0 .. submitted - 1)
  BY <1>1 DEF CudaInv, HostInv, CudaTypeOK
<1>6. submitted \in Value /\ \A v \in 0 .. submitted - 1 : v \in Value
  BY <1>1, <1>3 DEF Value, Step
<1>7. k \in DOMAIN occupants /\ DOMAIN occupants' = DOMAIN occupants
      /\ \A j \in DOMAIN occupants : occupants'[j] = IF j = k THEN submitted ELSE occupants[j]
  BY <1>1, <1>3, <1>5, <1>6
<1>. HIDE DEF m, k
<1>8. m \in 0 .. submitted' /\ m <= executed
  BY <1>1, <1>3, <1>4, <1>5
<1>9. CudaTypeOK'
  <2>1. submitted' \in 0 .. Nodes /\ executed' \in 0 .. submitted' /\ waited' \in 0 .. submitted'
    BY <1>1, <1>3, <1>8
  <2>2. ASSUME NEW j \in DOMAIN occupants' PROVE occupants'[j] \in {Nobody} \cup (0 .. submitted' - 1)
    <3>1. submitted \in 0 .. submitted' - 1 /\ 0 .. submitted - 1 \subseteq 0 .. submitted' - 1
      BY <1>1, <1>3
    <3>. QED
      BY <1>5, <1>7, <3>1
  <2>. QED
    <3>1. in_run' \in BOOLEAN /\ has_output' \in BOOLEAN /\ failed' \in BOOLEAN /\ PlanOK' /\ Complete'
      BY <1>1, <1>2, <1>3 DEF CudaInv, CudaTypeOK
    <3>. QED
      BY <2>1, <2>2, <3>1 DEF CudaTypeOK
<1>10. OccupantsLatest'
  <2>1. ASSUME NEW j \in DOMAIN occupants', occupants'[j] # Nobody PROVE slot[occupants'[j]] = j
    BY <1>5, <1>7, <2>1 DEF OccupantsLatest, k
  <2>2. ASSUME NEW v \in 0 .. submitted' - 1
        PROVE  slot[v] \in DOMAIN occupants' /\ v <= occupants'[slot[v]]
    <3>1. CASE v = submitted
      BY <1>3, <1>7, <3>1 DEF k
    <3>2. CASE v # submitted
      <4>1. v \in 0 .. submitted - 1
        BY <1>1, <1>3, <3>2
      <4>2. slot[v] \in DOMAIN occupants /\ v <= occupants[slot[v]]
        BY <1>5, <4>1 DEF OccupantsLatest
      <4>. QED
        BY <1>3, <1>7, <4>1, <4>2
    <3>. QED
      BY <3>1, <3>2
  <2>. QED
    BY <1>2, <2>1, <2>2 DEF OccupantsLatest
<1>11. HandedOnSafely'
  <2>. SUFFICES ASSUME NEW v \in 0 .. submitted' - 1, NEW w \in 0 .. submitted' - 1,
                       v < w, slot[v] = slot[w]
                PROVE  LastStep(v) < m
    BY <1>1, <1>2 DEF HandedOnSafely
  <2>1. v \in 0 .. submitted - 1 /\ LastStep(v) \in Nat
    <3>1. v \in 0 .. submitted - 1
      BY <1>1, <1>3
    <3>. QED
      BY <1>3, <1>6, <3>1
  <2>2. CASE w = submitted
    BY <1>4, <2>1, <2>2 DEF k
  <2>3. CASE w # submitted
    <3>1. w \in 0 .. submitted - 1
      BY <1>1, <1>3, <2>3
    <3>2. LastStep(v) < waited
      BY <1>5, <2>1, <3>1 DEF HandedOnSafely
    <3>. QED
      BY <1>3, <1>4, <1>8, <2>1, <3>2
  <2>. QED
    BY <2>2, <2>3
<1>12. HostInv'
  BY <1>1, <1>2, <1>3, <1>5, <1>7, <1>8, <1>10, <1>11 DEF HostInv
<1>13. ArenaIntact'
  BY <1>1, <1>2 DEF CudaInv, ArenaIntact, Intact
<1>. QED
  BY <1>2, <1>9, <1>12, <1>13 DEF CudaInv

\* The stream computes a value into bytes that no live value has.
LEMMA ExecuteKeepsInv ==
  ASSUME CudaInv, Execute
  PROVE  CudaInv'
<1>. DEFINE e == executed
            result == IF \A v \in reads[e] : Intact(v) THEN e ELSE Garbage
<1>1. /\ e < submitted /\ executed' = e + 1 /\ UNCHANGED graph /\ UNCHANGED plan
      /\ arena' = [b \in DOMAIN arena |-> IF b \in Region(e) THEN result ELSE arena[b]]
      /\ UNCHANGED <<in_run, has_output, occupants, submitted, waited, failed>>
  BY DEF Execute, progress
<1>2. /\ BufferSize' = BufferSize /\ (Complete' <=> Complete)
      /\ \A v : LastStep(v)' = LastStep(v) /\ Region(v)' = Region(v)
      /\ PlanInv' /\ PlanOK' /\ Topological' /\ capacity' = capacity /\ slot' = slot
  BY <1>1, PlanFixed DEF CudaInv, plan
<1>3. /\ Nodes \in Nat \ {0} /\ PlanOK
      /\ submitted \in 0 .. Nodes /\ waited \in 0 .. submitted /\ executed \in 0 .. submitted
      /\ \A v \in Value : LastStep(v) \in 0 .. Nodes /\ v \in Nat
  BY CudaTypes
<1>4. Complete /\ ~has_output
  <2>1. submitted > 0 /\ e < Nodes
    BY <1>1, <1>3
  <2>. QED
    BY <1>3, <2>1 DEF CudaInv, HostInv
<1>5. CudaTypeOK'
  BY <1>1, <1>2, <1>3 DEF CudaInv, CudaTypeOK
<1>6. HostInv'
  BY <1>1, <1>2, <1>3, <1>4 DEF CudaInv, HostInv, OccupantsLatest, HandedOnSafely
<1>7. DOMAIN arena = 0 .. BufferSize - 1 /\ DOMAIN arena' = DOMAIN arena
  BY <1>1, <1>3 DEF CudaInv, ArenaIntact
<1>8. e \in Value /\ e \in Step
  BY <1>1, <1>3 DEF Value, Step
<1>9. /\ \A v \in Value : Region(v) \subseteq DOMAIN arena
      /\ \A v, w \in Value : v < w /\ w <= LastStep(v) => Region(v) \cap Region(w) = {}
  BY <1>4, <1>7, RegionsApart DEF CudaInv
<1>10. result = e
  <2>. SUFFICES ASSUME NEW v \in reads[e] PROVE Intact(v)
    OBVIOUS
  <2>1. v \in Value /\ v < e /\ e <= LastStep(v)
    BY <1>3, <1>8, LastStepReads DEF CudaInv, Topological, PlanOK
  <2>. QED
    BY <1>1, <1>3, <2>1 DEF CudaInv, ArenaIntact
<1>. HIDE DEF result
<1>11. ASSUME NEW v \in Value, v < e + 1, e + 1 <= LastStep(v)
       PROVE  \A b \in Region(v) : arena'[b] = v
  <2>1. CASE v = e
    BY <1>1, <1>9, <1>10, <2>1
  <2>2. CASE v # e
    <3>1. v < e /\ e <= LastStep(v)
      BY <1>3, <1>8, <1>11, <2>2
    <3>2. \A b \in Region(v) : arena[b] = v
      BY <1>1, <1>3, <3>1 DEF CudaInv, ArenaIntact, Intact
    <3>3. Region(v) \cap Region(e) = {}
      BY <1>8, <1>9, <3>1
    <3>. QED
      BY <1>1, <1>9, <3>2, <3>3
  <2>. QED
    BY <2>1, <2>2
<1>12. ArenaIntact'
  BY <1>1, <1>2, <1>7, <1>11 DEF ArenaIntact, Intact
<1>. QED
  BY <1>2, <1>5, <1>6, <1>12 DEF CudaInv

\* A run that ends or throws, a fault and a stutter leave plan and arena alone.
LEMMA OtherStepsKeepInv ==
  ASSUME CudaInv, Throw \/ EndCudaRun \/ Fault \/ UNCHANGED cuda_vars
  PROVE  CudaInv'
<1>1. /\ UNCHANGED graph /\ UNCHANGED plan /\ UNCHANGED <<occupants, submitted, executed, arena>>
      /\ in_run' => in_run
  BY DEF Throw, EndCudaRun, Fault, cuda_vars, progress, graph, plan, CudaInv, CudaTypeOK
<1>2. /\ BufferSize' = BufferSize /\ (Complete' <=> Complete)
      /\ \A v : LastStep(v)' = LastStep(v) /\ Region(v)' = Region(v)
      /\ PlanInv' /\ PlanOK' /\ Topological' /\ capacity' = capacity /\ slot' = slot
  BY <1>1, PlanFixed DEF CudaInv, plan
<1>3. /\ Nodes \in Nat \ {0}
      /\ submitted \in 0 .. Nodes /\ waited \in 0 .. submitted /\ executed \in 0 .. submitted
      /\ \A v \in Value : LastStep(v) \in 0 .. Nodes /\ v \in Nat
  BY CudaTypes
<1>4. ArenaIntact'
  BY <1>1, <1>2 DEF CudaInv, ArenaIntact, Intact
<1>5. CASE EndCudaRun
  <2>1. /\ in_run /\ submitted = Nodes /\ executed = submitted /\ waited' = submitted
        /\ in_run' = FALSE /\ has_output' = TRUE /\ failed' = failed
    BY <1>5 DEF EndCudaRun
  <2>2. CudaTypeOK'
    BY <1>1, <1>2, <1>3, <2>1 DEF CudaInv, CudaTypeOK
  <2>3. \A v \in 0 .. submitted - 1 : LastStep(v) \in Nat
    BY <1>3 DEF Value, Step
  <2>4. HandedOnSafely'
    BY <1>1, <1>2, <1>3, <2>1, <2>3 DEF CudaInv, HostInv, HandedOnSafely
  <2>5. Complete
    BY <2>1 DEF CudaInv, CudaTypeOK
  <2>6. HostInv'
    BY <1>1, <1>2, <1>3, <2>1, <2>4, <2>5 DEF CudaInv, HostInv, OccupantsLatest
  <2>. QED
    BY <1>2, <1>4, <2>2, <2>6 DEF CudaInv
<1>6. CASE Throw \/ Fault \/ UNCHANGED cuda_vars
  <2>1. UNCHANGED <<waited, has_output>> /\ failed' \in BOOLEAN /\ in_run' \in BOOLEAN
        /\ (has_output => in_run' = in_run \/ ~in_run)
    BY <1>6 DEF Throw, Fault, cuda_vars, progress, CudaInv, CudaTypeOK, HostInv
  <2>2. CudaTypeOK'
    BY <1>1, <1>2, <1>3, <2>1 DEF CudaInv, CudaTypeOK
  <2>3. HostInv'
    BY <1>1, <1>2, <2>1 DEF CudaInv, HostInv, OccupantsLatest, HandedOnSafely
  <2>. QED
    BY <1>2, <1>4, <2>2, <2>3 DEF CudaInv
<1>. QED
  BY <1>5, <1>6

LEMMA CudaInvAlways == CudaSpec => []CudaInv
<1>1. CudaInv /\ [CudaNext]_cuda_vars => CudaInv'
  BY PlanKeepsInv, BeginCudaRunKeepsInv, SubmitKeepsInv, ExecuteKeepsInv, OtherStepsKeepInv DEF CudaNext
<1>. QED
  BY <1>1, CudaInvInit, PTL DEF CudaSpec

------------------------------------------------------------------------------
\* The theorems

\* execution_plan.cpp, CudaExecutionContext::run: whatever the graph and the sizes
\* of its values are, no kernel in flight shares a byte with an earlier value whose
\* writer or a reader of which was not seen to complete, although a slot only
\* remembers its last value; and run never waits for a kernel it has not submitted.
THEOREM ReuseAlwaysSafe == CudaSpec => []ReuseIsSafe
<1>1. ASSUME CudaInv PROVE ReuseIsSafe
  <2>1. /\ Nodes \in Nat \ {0} /\ PlanOK /\ PlanInv
        /\ submitted \in 0 .. Nodes /\ waited \in 0 .. submitted /\ executed \in 0 .. submitted
        /\ \A v \in Value : LastStep(v) \in 0 .. Nodes /\ v \in Nat
    BY <1>1, CudaTypes
  <2>2. ASSUME in_run, NEW k \in executed .. submitted - 1, NEW v \in 0 .. k - 1,
               Region(v) \cap Region(k) # {}, NEW s \in Step, s = v \/ v \in reads[s]
        PROVE  s < waited
    <3>1. /\ v \in Value /\ k \in Value /\ v < k /\ v \in 0 .. submitted - 1 /\ k \in 0 .. submitted - 1
          /\ s \in Nat
      BY <2>1 DEF Value, Step
    <3>2. Complete
      BY <1>1, <2>2 DEF CudaInv, CudaTypeOK
    <3>3. slot[v] = slot[k]
      BY <2>1, <2>2, <3>1, <3>2, SlotsOverlap DEF PlanInv
    <3>4. LastStep(v) < waited
      BY <1>1, <3>1, <3>3 DEF CudaInv, HostInv, HandedOnSafely
    <3>5. s <= LastStep(v)
      BY <2>1, <2>2, <3>1, LastStepReads, LastStepType DEF PlanOK
    <3>. QED
      BY <2>1, <3>1, <3>4, <3>5
  <2>3. in_run /\ submitted < Nodes => ReuseEnd <= submitted
    BY <1>1, <2>1, ReuseEndBound
  <2>. QED
    BY <1>1, <2>2, <2>3 DEF CudaInv, ReuseIsSafe
<1>. QED
  BY <1>1, CudaInvAlways, PTL

\* CudaExecutionContext::output: whatever the graph is, after a run that did not
\* throw the arena holds every graph output, computed from intact values.
THEOREM DeviceOutputsAlwaysIntact == CudaSpec => []DeviceOutputsIntact
<1>1. ASSUME CudaInv PROVE DeviceOutputsIntact
  <2>. SUFFICES ASSUME has_output, NEW v \in outputs PROVE Intact(v)
    BY DEF DeviceOutputsIntact
  <2>1. /\ Nodes \in Nat \ {0} /\ PlanOK
        /\ \A w \in Value : LastStep(w) \in 0 .. Nodes /\ w \in Nat
    BY <1>1, CudaTypes
  <2>2. executed = Nodes /\ submitted = Nodes
    BY <1>1 DEF CudaInv, HostInv
  <2>3. v \in Value /\ LastStep(v) = Nodes
    BY <2>1 DEF LastStep, PlanOK
  <2>4. v < Nodes
    BY <2>1, <2>3 DEF Value, Step
  <2>. QED
    BY <1>1, <2>1, <2>2, <2>3, <2>4 DEF CudaInv, ArenaIntact
<1>. QED
  BY <1>1, CudaInvAlways, PTL

------------------------------------------------------------------------------
\* The CUDA runtime

\* An operation touches what its kind says, and a stage is no younger than it.
WellMade ==
    \A i \in DOMAIN ops :
        /\ ops[i].kind = "upload" => ops[i].from = Host /\ ops[i].to \in Buffers
        /\ ops[i].kind = "copy" => ops[i].from \in Buffers /\ ops[i].to \in Buffers
        /\ ops[i].kind = "download" => ops[i].from \in Buffers /\ ops[i].to = Host
        /\ ops[i].kind = "copy" <=> ops[i].stage = None
        /\ ops[i].stage <= i

StagesMade == ToSet(stages) \subseteq DOMAIN ops

Transfers == {i \in DOMAIN ops : Unfinished(i) /\ ops[i].stage # None}

\* Every lease is that of one unfinished transfer.
LeasesExact ==
    /\ leased = {ops[i].stage : i \in Transfers}
    /\ \A i, j \in Transfers : ops[i].stage = ops[j].stage => i = j

\* The runtime looks after every unfinished operation; one that is queued is
\* unfinished, and its Completion is the client's or submit's.
Tracked ==
    /\ \A i \in DOMAIN ops : Unfinished(i) => i \in pending
    /\ \A i \in ToSet(stream) : Unfinished(i) /\ i \in held \cup ({submitting} \ {None})
    /\ submitting # None => Unfinished(submitting)

\* No error is forgotten: an operation that failed has told the queue, and a dead
\* device will, because somebody still has to look at an operation of its stream.
ErrorsKept ==
    /\ (\E i \in DOMAIN ops : ops[i].status = "failed") => failure
    /\ dead => stream = <<>>
    /\ dead => failure \/ \E i \in pending : Unfinished(i)

Healthy == ~failure /\ ~dead /\ submitting = None

\* What operation op, the i-th, makes of the contents c of the buffers.
Effect(op, i, c) ==
    CASE op.kind = "upload" -> [c EXCEPT ![op.to] = i]
      [] op.kind = "copy" -> [c EXCEPT ![op.to] = c[op.from]]
      [] op.kind = "download" -> c

\* The contents F the stream goes through are those the calls had in mind.
Foresees(F) ==
    /\ F \in [0 .. Len(stream) -> [Buffers -> Payload]]
    /\ F[0] = content
    /\ \A n \in 1 .. Len(stream) :
          /\ F[n] = Effect(ops[stream[n]], stream[n], F[n - 1])
          /\ ops[stream[n]].kind = "download" =>
                F[n - 1][ops[stream[n]].from] = ops[stream[n]].expected
    /\ Healthy => F[Len(stream)] = issued

InOrder == \E F : Foresees(F)

\* A stage holds what its transfer is about until the transfer is terminal.
Staged ==
    /\ \A i \in ToSet(stream) : ops[i].kind = "upload" => staging[ops[i].stage] = i
    /\ ~dead => \A i \in DOMAIN ops \ (ToSet(stream) \cup {submitting}) :
                    Unfinished(i) /\ ops[i].kind = "download" =>
                        staging[ops[i].stage] = ops[i].expected

Delivered ==
    /\ DownloadsInOrder
    /\ \A i \in Op \ DOMAIN ops : host[i] = Untouched

RuntimeInv ==
    /\ RuntimeTypeOK /\ WellMade /\ StagesMade /\ LeasesExact /\ Tracked /\ ErrorsKept
    /\ InOrder /\ Staged /\ Delivered
------------------------------------------------------------------------------
\* What the steps are made of

\* What the types say of an operation.
LEMMA OperationTypes ==
  ASSUME RuntimeInv
  PROVE  /\ MaxOps \in Nat /\ Len(ops) \in Nat /\ Len(ops) <= MaxOps
         /\ DOMAIN ops = 1 .. Len(ops) /\ DOMAIN ops \subseteq Op /\ DOMAIN ops \subseteq Payload
         /\ \A i \in DOMAIN ops : ops[i] \in Operation /\ i # None
         /\ stream \in Seq(DOMAIN ops) /\ ToSet(stream) \subseteq DOMAIN ops
         /\ \A i : Contains(stream, i) <=> i \in ToSet(stream)
         /\ submitting \in {None} \cup DOMAIN ops
<1>1. ops \in Seq(Operation) /\ MaxOps \in Nat /\ Len(ops) <= MaxOps /\ stream \in Seq(DOMAIN ops)
      /\ submitting \in {None} \cup DOMAIN ops
  BY RuntimeAssumption DEF RuntimeInv, RuntimeTypeOK
<1>2. DOMAIN ops = 1 .. Len(ops) /\ Len(ops) \in Nat /\ \A i \in DOMAIN ops : ops[i] \in Operation
  BY <1>1
<1>3. DOMAIN stream = 1 .. Len(stream) /\ \A n \in DOMAIN stream : stream[n] \in DOMAIN ops
  BY <1>1
<1>. QED
  BY <1>1, <1>2, <1>3 DEF Op, Payload, None, ToSet, Contains

\* Settling operations that were passed tells the truth about them, and about
\* them only.
LEMMA SettledFacts ==
  ASSUME RuntimeInv, submitting = None, NEW S \in SUBSET DOMAIN ops,
         \A i \in S : Unfinished(i) => Passed(i)
  PROVE  /\ Settled(S) \in Seq(Operation) /\ Len(Settled(S)) = Len(ops)
         /\ DOMAIN Settled(S) = DOMAIN ops
         /\ \A i \in DOMAIN ops :
               /\ Settled(S)[i].kind = ops[i].kind /\ Settled(S)[i].from = ops[i].from
               /\ Settled(S)[i].to = ops[i].to /\ Settled(S)[i].stage = ops[i].stage
               /\ Settled(S)[i].expected = ops[i].expected
               /\ Settled(S)[i].status = IF i \in S /\ Unfinished(i)
                                         THEN IF dead THEN "failed" ELSE "done"
                                         ELSE ops[i].status
         /\ Unleased(S) = {ops[i].stage : i \in Transfers \ S}
         /\ Published(S) \in [Op -> Payload \cup {Untouched}]
         /\ \A i \in DOMAIN ops : Published(S)[i] =
               IF ops[i].kind = "download" /\ Settled(S)[i].status = "done"
               THEN ops[i].expected ELSE Untouched
         /\ \A i \in Op \ DOMAIN ops : Published(S)[i] = Untouched
         /\ Fails(S) \in BOOLEAN /\ (failure => Fails(S))
         /\ (\E i \in DOMAIN ops : Settled(S)[i].status = "failed") => Fails(S)
         /\ ~Fails(S) => \A i \in S : Settled(S)[i].status = "done"
<1>1. /\ DOMAIN ops = 1 .. Len(ops) /\ Len(ops) \in Nat /\ DOMAIN ops \subseteq Op
      /\ \A i \in DOMAIN ops : ops[i] \in Operation /\ i # None
      /\ \A i : Contains(stream, i) <=> i \in ToSet(stream)
  BY OperationTypes
<1>2. ASSUME NEW i \in DOMAIN ops
      PROVE  /\ Settled(S)[i] \in Operation
             /\ Settled(S)[i].kind = ops[i].kind /\ Settled(S)[i].from = ops[i].from
             /\ Settled(S)[i].to = ops[i].to /\ Settled(S)[i].stage = ops[i].stage
             /\ Settled(S)[i].expected = ops[i].expected
             /\ Settled(S)[i].status = IF i \in S /\ Unfinished(i)
                                       THEN IF dead THEN "failed" ELSE "done"
                                       ELSE ops[i].status
  BY <1>1 DEF Settled, Operation
<1>3. Settled(S) \in Seq(Operation) /\ Len(Settled(S)) = Len(ops) /\ DOMAIN Settled(S) = DOMAIN ops
  <2>1. Settled(S) = [i \in 1 .. Len(ops) |-> Settled(S)[i]]
    BY <1>1 DEF Settled
  <2>2. \A i \in 1 .. Len(ops) : Settled(S)[i] \in Operation
    BY <1>1, <1>2
  <2>. HIDE DEF Operation
  <2>. QED
    BY <1>1, <2>1, <2>2
<1>4. Unleased(S) = {ops[i].stage : i \in Transfers \ S}
  <2>1. leased = {ops[i].stage : i \in Transfers}
        /\ \A i, j \in Transfers : ops[i].stage = ops[j].stage => i = j
    BY DEF RuntimeInv, LeasesExact
  <2>2. ASSUME NEW s \in leased, s \notin {ops[i].stage : i \in {j \in S : Unfinished(j)}}
        PROVE  s \in {ops[i].stage : i \in Transfers \ S}
    <3>1. PICK i \in Transfers : s = ops[i].stage
      BY <2>1, <2>2
    <3>. QED
      BY <2>2, <3>1 DEF Transfers
  <2>3. ASSUME NEW i \in Transfers \ S
        PROVE  ops[i].stage \in leased \ {ops[j].stage : j \in {j \in S : Unfinished(j)}}
    BY <2>1 DEF Transfers
  <2>. QED
    BY <2>2, <2>3 DEF Unleased
<1>5. host \in [Op -> Payload \cup {Untouched}] /\ staging \in [Op -> Payload]
  BY DEF RuntimeInv, RuntimeTypeOK
<1>6. ASSUME NEW i \in S, Unfinished(i), ~dead, ops[i].kind = "download"
      PROVE  staging[ops[i].stage] = ops[i].expected /\ ops[i].stage \in Op
  <2>1. i \notin ToSet(stream) /\ i # submitting
    BY <1>1, <1>6 DEF Passed
  <2>2. ops[i].stage \in Op
    <3>1. ops[i].stage # None /\ ops[i].stage \in 0 .. MaxOps
      BY <1>1, <1>6 DEF RuntimeInv, WellMade, Operation
    <3>. QED
      BY <3>1, RuntimeAssumption DEF Op, None
  <2>. QED
    BY <1>6, <2>1, <2>2 DEF RuntimeInv, Staged
<1>7. \A i \in DOMAIN ops : ops[i].expected \in Payload
  BY <1>1 DEF Operation
<1>8. ASSUME NEW i \in Op
      PROVE  Published(S)[i] = IF i \in S /\ Unfinished(i) /\ ~dead /\ ops[i].kind = "download"
                               THEN ops[i].expected ELSE host[i]
  BY <1>5, <1>6 DEF Published
<1>9. Published(S) \in [Op -> Payload \cup {Untouched}]
  <2>1. Published(S) = [i \in Op |-> Published(S)[i]]
    BY <1>5 DEF Published
  <2>2. \A i \in Op : Published(S)[i] \in Payload \cup {Untouched}
    BY <1>5, <1>7, <1>8
  <2>. QED
    BY <2>1, <2>2
<1>10. ASSUME NEW i \in DOMAIN ops
       PROVE  Published(S)[i] = IF ops[i].kind = "download" /\ Settled(S)[i].status = "done"
                                THEN ops[i].expected ELSE Untouched
  <2>1. host[i] = IF ops[i].kind = "download" /\ ops[i].status = "done"
                  THEN ops[i].expected ELSE Untouched
    BY DEF RuntimeInv, Delivered, DownloadsInOrder
  <2>. QED
    BY <1>1, <1>2, <1>8, <2>1 DEF Unfinished
<1>11. \A i \in Op \ DOMAIN ops : Published(S)[i] = Untouched
  BY <1>8 DEF RuntimeInv, Delivered
<1>12. Fails(S) \in BOOLEAN /\ (failure => Fails(S))
  BY DEF Fails, RuntimeInv, RuntimeTypeOK
<1>13. (\E i \in DOMAIN ops : Settled(S)[i].status = "failed") => Fails(S)
  BY <1>2 DEF Fails, RuntimeInv, ErrorsKept
<1>14. ~Fails(S) => \A i \in S : Settled(S)[i].status = "done"
  <2>. SUFFICES ASSUME ~Fails(S), NEW i \in S PROVE Settled(S)[i].status = "done"
    OBVIOUS
  <2>1. ops[i].status \in {"pending", "done", "failed"}
    BY <1>1 DEF Operation
  <2>. QED
    BY <1>2, <2>1 DEF Fails, Unfinished
<1>. QED
  BY <1>2, <1>3, <1>4, <1>9, <1>10, <1>11, <1>12, <1>13, <1>14

\* The operations there are keep what they were created with.
SameWork ==
    /\ DOMAIN ops \subseteq DOMAIN ops'
    /\ \A i \in DOMAIN ops :
          /\ ops'[i].kind = ops[i].kind /\ ops'[i].from = ops[i].from /\ ops'[i].to = ops[i].to
          /\ ops'[i].stage = ops[i].stage /\ ops'[i].expected = ops[i].expected

LEMMA SameEffect ==
  ASSUME SameWork, NEW i \in DOMAIN ops, NEW c
  PROVE  Effect(ops'[i], i, c) = Effect(ops[i], i, c)
BY DEF SameWork, Effect

\* An effect is a content.
LEMMA EffectType ==
  ASSUME RuntimeInv, NEW i \in DOMAIN ops, NEW c \in [Buffers -> Payload]
  PROVE  Effect(ops[i], i, c) \in [Buffers -> Payload]
<1>1. i \in Payload /\ ops[i] \in Operation
  BY OperationTypes
<1>2. ops[i].kind \in {"upload", "copy", "download"}
  BY <1>1 DEF Operation
<1>3. /\ ops[i].kind = "upload" => ops[i].to \in Buffers
      /\ ops[i].kind = "copy" => ops[i].from \in Buffers /\ ops[i].to \in Buffers
  BY DEF RuntimeInv, WellMade
<1>. QED
  BY <1>1, <1>2, <1>3 DEF Effect

\* Nobody forgets an error while operations are settled, and everything but the
\* operations stays.
LEMMA SettleKeeps ==
  ASSUME RuntimeInv, submitting = None, NEW S \in SUBSET DOMAIN ops,
         \A i \in S : Unfinished(i) => Passed(i),
         ops' = Settled(S), host' = Published(S), leased' = Unleased(S),
         failure' \in BOOLEAN, Fails(S) => failure',
         pending' \subseteq pending, pending \ pending' \subseteq S,
         held' \subseteq held, held \ held' \subseteq S,
         owned' \subseteq Buffers, open' \in BOOLEAN,
         content' \in [Buffers -> Payload], issued' \in [Buffers -> Payload],
         UNCHANGED <<submitting, stages, staging, stream, dead>>
  PROVE  /\ RuntimeTypeOK' /\ WellMade' /\ StagesMade' /\ LeasesExact' /\ Tracked' /\ ErrorsKept'
         /\ Staged' /\ Delivered' /\ SameWork /\ (Healthy' => Healthy)
<1>1. /\ ops' \in Seq(Operation) /\ Len(ops') = Len(ops) /\ DOMAIN ops' = DOMAIN ops
      /\ \A i \in DOMAIN ops :
            /\ ops'[i].kind = ops[i].kind /\ ops'[i].from = ops[i].from /\ ops'[i].to = ops[i].to
            /\ ops'[i].stage = ops[i].stage /\ ops'[i].expected = ops[i].expected
            /\ ops'[i].status = IF i \in S /\ Unfinished(i)
                                THEN IF dead THEN "failed" ELSE "done"
                                ELSE ops[i].status
      /\ leased' = {ops[i].stage : i \in Transfers \ S}
      /\ host' \in [Op -> Payload \cup {Untouched}]
      /\ \A i \in DOMAIN ops : host'[i] =
            IF ops[i].kind = "download" /\ ops'[i].status = "done" THEN ops[i].expected ELSE Untouched
      /\ \A i \in Op \ DOMAIN ops : host'[i] = Untouched
      /\ (\E i \in DOMAIN ops : ops'[i].status = "failed") => failure'
      /\ failure => failure'
  BY SettledFacts
<1>2. /\ \A i \in DOMAIN ops : ops[i] \in Operation /\ i # None
      /\ ToSet(stream) \subseteq DOMAIN ops /\ \A i : Contains(stream, i) <=> i \in ToSet(stream)
      /\ DOMAIN ops \subseteq Op
  BY OperationTypes
<1>3. Transfers' = Transfers \ S
  BY <1>1 DEF Transfers, Unfinished
<1>4. LeasesExact'
  <2>1. leased' = {ops'[i].stage : i \in Transfers \ S}
    BY <1>1 DEF Transfers
  <2>2. \A i, j \in Transfers \ S : ops'[i].stage = ops'[j].stage => i = j
    BY <1>1 DEF Transfers, RuntimeInv, LeasesExact
  <2>. QED
    BY <1>3, <2>1, <2>2 DEF LeasesExact
<1>5. WellMade'
  BY <1>1 DEF RuntimeInv, WellMade
<1>6. StagesMade'
  BY <1>1 DEF RuntimeInv, StagesMade
<1>7. ASSUME NEW i \in DOMAIN ops PROVE Unfinished(i)' <=> Unfinished(i) /\ i \notin S
  BY <1>1, <1>7 DEF Unfinished
<1>8. Tracked'
  <2>1. \A i \in DOMAIN ops' : Unfinished(i)' => i \in pending'
    BY <1>1, <1>7 DEF RuntimeInv, Tracked
  <2>2. ASSUME NEW i \in ToSet(stream) PROVE Unfinished(i)' /\ i \in held'
    <3>1. i \in DOMAIN ops /\ Unfinished(i) /\ i \in held
      BY <1>2, <2>2 DEF RuntimeInv, Tracked
    <3>2. dead => stream = <<>>
      BY DEF RuntimeInv, ErrorsKept
    <3>3. ~dead
      BY <2>2, <3>2 DEF ToSet
    <3>4. i \notin S
      BY <1>2, <2>2, <3>1, <3>3 DEF Passed
    <3>. QED
      BY <1>7, <3>1, <3>4
  <2>. QED
    BY <2>1, <2>2 DEF Tracked
<1>9. ErrorsKept'
  <2>1. ASSUME dead, ~failure' PROVE \E i \in pending' : Unfinished(i)'
    <3>1. PICK i \in pending : Unfinished(i)
      BY <1>1, <2>1 DEF RuntimeInv, ErrorsKept
    <3>2. i \notin S
      BY <2>1, <3>1 DEF Fails
    <3>3. i \in DOMAIN ops
      BY <3>1 DEF RuntimeInv, RuntimeTypeOK
    <3>. QED
      BY <1>7, <3>1, <3>2, <3>3
  <2>. QED
    BY <1>1, <2>1 DEF RuntimeInv, ErrorsKept
<1>10. Staged'
  BY <1>1, <1>2, <1>7 DEF RuntimeInv, Staged
<1>11. Delivered'
  BY <1>1 DEF Delivered, DownloadsInOrder
<1>12. RuntimeTypeOK'
  <2>1. leased' \subseteq Op
    <3>1. leased' \subseteq leased
      BY DEF Unleased
    <3>. QED
      BY <3>1 DEF RuntimeInv, RuntimeTypeOK
  <2>2. pending' \subseteq DOMAIN ops' /\ held' \subseteq DOMAIN ops'
    BY <1>1 DEF RuntimeInv, RuntimeTypeOK
  <2>3. Len(ops') <= MaxOps /\ stream' \in Seq(DOMAIN ops') /\ submitting' \in {None} \cup DOMAIN ops'
    BY <1>1 DEF RuntimeInv, RuntimeTypeOK
  <2>. QED
    BY <1>1, <2>1, <2>2, <2>3 DEF RuntimeInv, RuntimeTypeOK
<1>. QED
  BY <1>1, <1>4, <1>5, <1>6, <1>8, <1>9, <1>10, <1>11, <1>12 DEF SameWork, Healthy

\* Operations drained may be settled.
LEMMA DrainedPassed ==
  ASSUME RuntimeInv
  PROVE  /\ Drained \in SUBSET DOMAIN ops /\ Drained \subseteq pending
         /\ \A i \in Drained : Unfinished(i) => Passed(i)
         /\ ~Fails(Drained) => ~failure /\ ~dead
         /\ ~dead => \A i \in ToSet(stream) : i \notin Drained
<1>1. Drained \in SUBSET DOMAIN ops /\ Drained \subseteq pending
      /\ \A i \in Drained : Unfinished(i) => Passed(i)
  BY DEF RuntimeInv, RuntimeTypeOK, Drained
<1>2. ASSUME ~Fails(Drained) PROVE ~failure /\ ~dead
  BY <1>2 DEF Fails, Drained, Passed, RuntimeInv, ErrorsKept
<1>3. ASSUME ~dead, NEW i \in ToSet(stream) PROVE i \notin Drained
  BY <1>3, OperationTypes DEF Drained, Passed, RuntimeInv, Tracked
<1>. QED
  BY <1>1, <1>2, <1>3

\* The contents foreseen stay as long as the stream and the buffers do.
LEMMA OrderKept ==
  ASSUME RuntimeInv, SameWork, UNCHANGED <<stream, content>>, Healthy' => Healthy /\ issued' = issued
  PROVE  InOrder'
<1>1. PICK F : Foresees(F)
  BY DEF RuntimeInv, InOrder
<1>2. stream \in Seq(DOMAIN ops)
  BY OperationTypes
<1>3. ASSUME NEW n \in 1 .. Len(stream)
      PROVE  /\ stream[n] \in DOMAIN ops /\ Effect(ops'[stream[n]], stream[n], F[n - 1]) = Effect(ops[stream[n]], stream[n], F[n - 1])
             /\ ops'[stream[n]].kind = ops[stream[n]].kind
             /\ ops'[stream[n]].from = ops[stream[n]].from
             /\ ops'[stream[n]].expected = ops[stream[n]].expected
  <2>1. stream[n] \in DOMAIN ops
    BY <1>2
  <2>. QED
    BY <2>1, SameEffect DEF SameWork
<1>4. Foresees(F)'
  <2>1. \A n \in 1 .. Len(stream') :
            /\ F[n] = Effect(ops'[stream'[n]], stream'[n], F[n - 1])
            /\ ops'[stream'[n]].kind = "download" =>
                  F[n - 1][ops'[stream'[n]].from] = ops'[stream'[n]].expected
    BY <1>1, <1>3 DEF Foresees
  <2>2. /\ F \in [0 .. Len(stream') -> [Buffers -> Payload]] /\ F[0] = content'
        /\ Healthy' => F[Len(stream')] = issued'
    BY <1>1 DEF Foresees
  <2>. QED
    BY <2>1, <2>2 DEF Foresees
<1>. QED
  BY <1>4 DEF InOrder
------------------------------------------------------------------------------
\* A new operation

\* The first of some stages is one of them.
LEMMA FirstMember ==
  ASSUME NEW n \in Nat, NEW S \in SUBSET (1 .. n), S # {}
  PROVE  First(S) \in S
<1>1. S \in SUBSET Nat
  OBVIOUS
<1>2. PICK k \in S : \A j \in S : k <= j
  BY <1>1, LeastNatural
<1>. QED
  BY <1>2, Zenon DEF First

\* The stage an operation gets is not leased, and the cache keeps two at most.
LEMMA StageChosen ==
  ASSUME RuntimeInv, submitting = None, NEW size, Len(ops) < MaxOps
  PROVE  LET i    == Len(ops) + 1
             busy == Unleased(Drained)
         IN  /\ StageFor(busy, size, i) \in 1 .. i /\ StageFor(busy, size, i) \notin busy
             /\ CachedStages(busy, size, i) \in Seq(Op)
             /\ IsInjective(CachedStages(busy, size, i)) /\ Len(CachedStages(busy, size, i)) <= 2
             /\ ToSet(CachedStages(busy, size, i)) \subseteq DOMAIN ops \cup {i}
<1>. DEFINE i == Len(ops) + 1
            busy == Unleased(Drained)
            cached == CachedStages(busy, size, i)
<1>1. /\ DOMAIN ops = 1 .. Len(ops) /\ Len(ops) \in Nat /\ MaxOps \in Nat /\ i \in Op
      /\ \A j \in DOMAIN ops : ops[j] \in Operation /\ j # None
  BY OperationTypes DEF Op
<1>2. /\ stages \in Seq(Op) /\ Len(stages) \in Nat /\ DOMAIN stages = 1 .. Len(stages)
      /\ IsInjective(stages) /\ Len(stages) <= 2
      /\ \A k \in DOMAIN stages : stages[k] \in DOMAIN ops
  BY DEF RuntimeInv, RuntimeTypeOK, StagesMade, ToSet
<1>3. i \notin busy
  <2>1. busy = {ops[j].stage : j \in Transfers \ Drained}
    BY DrainedPassed, SettledFacts
  <2>2. \A j \in DOMAIN ops : ops[j].stage <= j /\ ops[j].stage \in 0 .. MaxOps
    BY <1>1 DEF RuntimeInv, WellMade, Operation
  <2>. QED
    BY <1>1, <2>1, <2>2 DEF Transfers
<1>. HIDE DEF i, busy
<1>4. CASE Suitable(busy, size) # {}
  <2>1. Suitable(busy, size) \in SUBSET (1 .. Len(stages))
    BY <1>2 DEF Suitable, FreeStages
  <2>2. First(Suitable(busy, size)) \in Suitable(busy, size)
    BY <1>2, <1>4, <2>1, FirstMember
  <2>3. /\ StageFor(busy, size, i) \in DOMAIN ops /\ StageFor(busy, size, i) \notin busy
        /\ cached = stages
    BY <1>2, <1>4, <2>1, <2>2 DEF StageFor, Suitable, FreeStages, CachedStages
  <2>4. StageFor(busy, size, i) \in 1 .. i
    BY <1>1, <2>3 DEF i
  <2>. QED
    BY <1>2, <2>3, <2>4 DEF i, busy, ToSet
<1>5. CASE Suitable(busy, size) = {}
  <2>1. StageFor(busy, size, i) = i /\ i \in 1 .. i
    BY <1>1, <1>5 DEF StageFor, Op
  <2>2. CASE FreeStages(busy) # {}
    <3>. DEFINE k == First(FreeStages(busy))
    <3>1. FreeStages(busy) \in SUBSET (1 .. Len(stages))
      BY <1>2 DEF FreeStages
    <3>2. k \in 1 .. Len(stages)
      BY <1>2, <2>2, <3>1, FirstMember
    <3>. HIDE DEF k
    <3>3. cached = [stages EXCEPT ![k] = i]
      BY <1>5, <2>2 DEF CachedStages, k
    <3>4. cached \in Seq(Op) /\ Len(cached) = Len(stages) /\ DOMAIN cached = 1 .. Len(stages)
          /\ \A j \in 1 .. Len(stages) : cached[j] = IF j = k THEN i ELSE stages[j]
      BY <1>1, <1>2, <3>2, <3>3
    <3>5. IsInjective(cached)
      BY <1>1, <1>2, <3>4 DEF IsInjective, i
    <3>6. ToSet(cached) \subseteq DOMAIN ops \cup {i}
      BY <1>2, <3>4 DEF ToSet
    <3>. QED
      BY <1>2, <1>3, <2>1, <3>4, <3>5, <3>6 DEF i, busy
  <2>3. CASE FreeStages(busy) = {} /\ CacheHasRoom
    <3>1. cached = Append(stages, i)
      BY <1>5, <2>3 DEF CachedStages
    <3>2. cached \in Seq(Op) /\ Len(cached) = Len(stages) + 1 /\ DOMAIN cached = 1 .. Len(stages) + 1
          /\ \A j \in 1 .. Len(stages) + 1 : cached[j] = IF j = Len(stages) + 1 THEN i ELSE stages[j]
      BY <1>1, <1>2, <3>1
    <3>3. IsInjective(cached)
      BY <1>1, <1>2, <3>2, SMTT(30) DEF IsInjective, i
    <3>4. ToSet(cached) \subseteq DOMAIN ops \cup {i}
      BY <1>2, <3>2 DEF ToSet
    <3>5. Len(cached) <= 2
      BY <1>2, <2>3, <3>2 DEF CacheHasRoom
    <3>. QED
      BY <1>3, <2>1, <3>2, <3>3, <3>4, <3>5 DEF i, busy
  <2>4. CASE FreeStages(busy) = {} /\ ~CacheHasRoom
    <3>1. cached = stages
      BY <1>5, <2>4 DEF CachedStages
    <3>. QED
      BY <1>2, <1>3, <2>1, <3>1 DEF i, busy, ToSet
  <2>. QED
    BY <2>2, <2>3, <2>4
<1>. QED
  BY <1>4, <1>5

LEMMA NewOperation ==
  ASSUME RuntimeInv, submitting = None, ~Fails(Drained), Len(ops) < MaxOps,
         NEW i, i = Len(ops) + 1, NEW kind \in {"upload", "copy", "download"}, NEW from, NEW to, NEW stage,
         kind = "upload" => from = Host /\ to \in Buffers,
         kind = "copy" => from \in Buffers /\ to \in Buffers,
         kind = "download" => from \in Buffers /\ to = Host,
         kind = "copy" <=> stage = None,
         stage \in 0 .. i, stage \notin Unleased(Drained),
         ops' = Append(Settled(Drained), Created(kind, from, to, stage)),
         host' = Published(Drained),
         leased' = Unleased(Drained) \cup ({stage} \ {None}),
         staging' = IF kind = "upload" THEN [staging EXCEPT ![stage] = i] ELSE staging,
         Submitted(i, kind, from, to),
         stages' \in Seq(Op), IsInjective(stages'), Len(stages') <= 2,
         ToSet(stages') \subseteq DOMAIN ops \cup {i},
         UNCHANGED <<failure, owned, open, dead, content>>
  PROVE  RuntimeInv'
<1>. DEFINE S == Drained
            new == Created(kind, from, to, stage)
<1>1. /\ DOMAIN ops = 1 .. Len(ops) /\ Len(ops) \in Nat /\ MaxOps \in Nat /\ DOMAIN ops \subseteq Op
      /\ \A j \in DOMAIN ops : ops[j] \in Operation /\ j # None
      /\ stream \in Seq(DOMAIN ops) /\ ToSet(stream) \subseteq DOMAIN ops
  BY OperationTypes
<1>2. i \in Op /\ i \notin DOMAIN ops /\ i # None /\ i \in Payload /\ i \in Nat /\ DOMAIN ops \subseteq Payload
  BY <1>1 DEF Op, Payload, None
<1>3. /\ S \in SUBSET DOMAIN ops /\ S \subseteq pending
      /\ \A j \in S : Unfinished(j) => Passed(j)
      /\ ~failure /\ ~dead /\ \A j \in ToSet(stream) : j \notin S
  BY DrainedPassed
<1>4. new \in Operation /\ new.kind = kind /\ new.from = from /\ new.to = to /\ new.stage = stage
      /\ new.status = "pending" /\ (kind = "download" => new.expected = issued[from])
  <2>1. issued \in [Buffers -> Payload] /\ Junk \in Payload /\ stage \in 0 .. MaxOps
    BY <1>1 DEF RuntimeInv, RuntimeTypeOK, Junk, Payload
  <2>. QED
    BY <2>1 DEF Created, Operation
<1>. HIDE DEF new, S
<1>5. /\ ops' \in Seq(Operation) /\ Len(ops') = i /\ DOMAIN ops' = DOMAIN ops \cup {i}
      /\ ops'[i] = new
      /\ \A j \in DOMAIN ops :
            /\ ops'[j] = Settled(S)[j] /\ ops'[j].kind = ops[j].kind /\ ops'[j].from = ops[j].from /\ ops'[j].to = ops[j].to
            /\ ops'[j].stage = ops[j].stage /\ ops'[j].expected = ops[j].expected
            /\ ops'[j].status = IF j \in S /\ Unfinished(j) THEN "done" ELSE ops[j].status
  <2>. DEFINE T == Settled(S)
  <2>1. /\ T \in Seq(Operation) /\ Len(T) = Len(ops) /\ DOMAIN T = DOMAIN ops
        /\ \A j \in DOMAIN ops :
              /\ T[j].kind = ops[j].kind /\ T[j].from = ops[j].from /\ T[j].to = ops[j].to
              /\ T[j].stage = ops[j].stage /\ T[j].expected = ops[j].expected
              /\ T[j].status = IF j \in S /\ Unfinished(j)
                               THEN IF dead THEN "failed" ELSE "done" ELSE ops[j].status
    BY <1>3, SettledFacts
  <2>2. ops' = Append(T, new)
    BY DEF S, new
  <2>. HIDE DEF T, Operation
  <2>3. ops' \in Seq(Operation) /\ Len(ops') = i /\ ops'[i] = new /\ \A j \in DOMAIN ops : ops'[j] = T[j]
    BY <1>1, <1>4, <2>1, <2>2
  <2>4. DOMAIN ops' = DOMAIN ops \cup {i}
    BY <1>1, <2>3
  <2>. QED
    BY <1>3, <2>1, <2>3, <2>4 DEF T
<1>6. /\ Unleased(S) = {ops[j].stage : j \in Transfers \ S}
      /\ host' \in [Op -> Payload \cup {Untouched}]
      /\ \A j \in DOMAIN ops : host'[j] =
            IF ops[j].kind = "download" /\ ops'[j].status = "done" THEN ops[j].expected ELSE Untouched
      /\ \A j \in Op \ DOMAIN ops : host'[j] = Untouched
  <2>1. /\ Unleased(S) = {ops[j].stage : j \in Transfers \ S}
        /\ host' \in [Op -> Payload \cup {Untouched}]
        /\ \A j \in DOMAIN ops : host'[j] =
              IF ops[j].kind = "download" /\ Settled(S)[j].status = "done" THEN ops[j].expected ELSE Untouched
        /\ \A j \in Op \ DOMAIN ops : host'[j] = Untouched
    BY <1>3, SettledFacts DEF S
  <2>2. \A j \in DOMAIN ops : Settled(S)[j].status = ops'[j].status
    BY <1>5
  <2>. QED
    BY <2>1, <2>2
<1>7. ASSUME NEW j \in DOMAIN ops PROVE Unfinished(j)' <=> Unfinished(j) /\ j \notin S
  BY <1>5 DEF Unfinished
<1>8. Unfinished(i)'
  BY <1>4, <1>5 DEF Unfinished
<1>9. Transfers' = (Transfers \ S) \cup (IF stage = None THEN {} ELSE {i})
  BY <1>2, <1>4, <1>5, <1>7, <1>8 DEF Transfers
<1>10. /\ pending' = (pending \ S) \cup {i}
       /\ \/ stream' = Append(stream, i) /\ held' = held \cup {i} /\ submitting' = None
             /\ issued' = CASE kind = "upload" -> [issued EXCEPT ![to] = i]
                            [] kind = "copy" -> [issued EXCEPT ![to] = issued[from]]
                            [] OTHER -> issued
          \/ stream' \in {stream, Append(stream, i)} /\ submitting' = i /\ held' = held
             /\ issued' = issued
  BY DEF Submitted, S
<1>11. stream' \in {stream, Append(stream, i)}
       /\ \A j \in ToSet(stream') : j \in ToSet(stream) \/ (j = i /\ stream' = Append(stream, i))
  <2>1. stream' \in {stream, Append(stream, i)}
    BY <1>10
  <2>2. stream \in Seq(DOMAIN ops \cup {i}) /\ i \in DOMAIN ops \cup {i}
    BY <1>1, SMTT(30)
  <2>3. \A j \in ToSet(Append(stream, i)) : j \in ToSet(stream) \/ j = i
    BY <2>2 DEF ToSet
  <2>. QED
    BY <2>1, <2>3
<1>12. WellMade'
  BY <1>4, <1>5 DEF RuntimeInv, WellMade
<1>13. StagesMade'
  BY <1>5 DEF StagesMade
<1>14. LeasesExact'
  <2>1. leased' = {ops[j].stage : j \in Transfers \ S} \cup ({stage} \ {None})
    BY <1>6 DEF S
  <2>2. \A j \in Transfers \ S : j \in DOMAIN ops /\ ops'[j].stage = ops[j].stage /\ ops[j].stage # stage
    BY <1>5, <1>6 DEF Transfers, S
  <2>3. leased' = {ops'[j].stage : j \in Transfers'}
    BY <1>4, <1>5, <1>9, <2>1, <2>2, SMTT(30)
  <2>4. \A j, k \in Transfers' : ops'[j].stage = ops'[k].stage => j = k
    BY <1>4, <1>5, <1>9, <2>2, SMTT(30) DEF RuntimeInv, LeasesExact
  <2>. QED
    BY <2>3, <2>4 DEF LeasesExact
<1>15. Tracked'
  <2>1. \A j \in DOMAIN ops' : Unfinished(j)' => j \in pending'
    BY <1>5, <1>7, <1>10 DEF RuntimeInv, Tracked
  <2>2. ASSUME NEW j \in ToSet(stream')
        PROVE  Unfinished(j)' /\ j \in held' \cup ({submitting'} \ {None})
    <3>1. CASE j \in ToSet(stream)
      <4>1. j \in DOMAIN ops /\ Unfinished(j) /\ j \in held /\ j \notin S
        BY <1>1, <1>3, <3>1 DEF RuntimeInv, Tracked, S
      <4>. QED
        BY <1>7, <1>10, <4>1
    <3>2. CASE j = i
      BY <1>2, <1>8, <1>10, <3>2
    <3>. QED
      BY <1>11, <2>2, <3>1, <3>2
  <2>3. submitting' # None => Unfinished(submitting)'
    <3>1. submitting' # None => submitting' = i
      BY <1>10
    <3>. QED
      BY <1>4, <1>5, <3>1 DEF Unfinished
  <2>. QED
    BY <2>1, <2>2, <2>3 DEF Tracked
<1>16. ErrorsKept'
  <2>1. \A j \in DOMAIN ops' : ops'[j].status # "failed"
    BY <1>3, <1>4, <1>5 DEF RuntimeInv, ErrorsKept
  <2>2. ~dead'
    BY <1>3
  <2>. QED
    BY <2>1, <2>2 DEF ErrorsKept
<1>17. InOrder'
  <2>1. PICK F : Foresees(F)
    BY DEF RuntimeInv, InOrder
  <2>2. /\ F \in [0 .. Len(stream) -> [Buffers -> Payload]] /\ F[0] = content
        /\ F[Len(stream)] = issued /\ Len(stream) \in Nat
        /\ \A n \in 1 .. Len(stream) : stream[n] \in DOMAIN ops
    BY <1>1, <1>3, <2>1, SMTT(30) DEF Foresees, Healthy
  <2>3. \A n \in 1 .. Len(stream) :
            /\ F[n] = Effect(ops'[stream[n]], stream[n], F[n - 1])
            /\ ops'[stream[n]].kind = "download" =>
                  F[n - 1][ops'[stream[n]].from] = ops'[stream[n]].expected
    <3>. TAKE n \in 1 .. Len(stream)
    <3>1. stream[n] \in DOMAIN ops
      BY <2>2
    <3>2. SameWork
      BY <1>5 DEF SameWork
    <3>3. Effect(ops'[stream[n]], stream[n], F[n - 1]) = Effect(ops[stream[n]], stream[n], F[n - 1])
      BY <3>1, <3>2, SameEffect
    <3>. QED
      BY <1>5, <2>1, <3>1, <3>3 DEF Foresees
  <2>4. CASE stream' = stream
    <3>1. ~Healthy'
      <4>1. Len(stream) # Len(Append(stream, i))
        BY <1>1, <2>2
      <4>2. submitting' = i
        BY <1>10, <2>4, <4>1
      <4>. QED
        BY <1>2, <4>2 DEF Healthy
    <3>2. Foresees(F)'
      BY <2>2, <2>3, <2>4, <3>1 DEF Foresees
    <3>. QED
      BY <3>2 DEF InOrder
  <2>5. CASE stream' = Append(stream, i)
    <3>. DEFINE m == Len(stream)
                last == Effect(new, i, issued)
                G == [n \in 0 .. m + 1 |-> IF n = m + 1 THEN last ELSE F[n]]
    <3>1. issued \in [Buffers -> Payload]
      BY DEF RuntimeInv, RuntimeTypeOK
    <3>2. last \in [Buffers -> Payload]
      BY <1>2, <1>4, <3>1 DEF Effect
    <3>3. /\ Len(stream') = m + 1 /\ stream'[m + 1] = i
          /\ \A n \in 1 .. m : stream'[n] = stream[n]
      BY <1>1, <2>2, <2>5
    <3>4. Healthy' => last = issued'
      <4>1. Healthy' => issued' = CASE kind = "upload" -> [issued EXCEPT ![to] = i]
                                    [] kind = "copy" -> [issued EXCEPT ![to] = issued[from]]
                                    [] OTHER -> issued
        BY <1>2, <1>10 DEF Healthy
      <4>. QED
        BY <1>4, <4>1 DEF Effect
    <3>. HIDE DEF last
    <3>5. G \in [0 .. Len(stream') -> [Buffers -> Payload]]
      BY <2>2, <3>2, <3>3
    <3>6. /\ G[0] = F[0] /\ G[m + 1] = last /\ G[m] = issued
          /\ \A n \in 1 .. m : G[n] = F[n] /\ G[n - 1] = F[n - 1]
      BY <2>2
    <3>. HIDE DEF G
    <3>7. ASSUME NEW n \in 1 .. m + 1
          PROVE  /\ G[n] = Effect(ops'[stream'[n]], stream'[n], G[n - 1])
                 /\ ops'[stream'[n]].kind = "download" =>
                       G[n - 1][ops'[stream'[n]].from] = ops'[stream'[n]].expected
      <4>1. CASE n = m + 1
        <5>1. G[n] = last /\ G[n - 1] = issued /\ stream'[n] = i /\ ops'[i] = new
          BY <1>5, <2>2, <3>3, <3>6, <4>1
        <5>. QED
          BY <1>4, <5>1 DEF last
      <4>2. CASE n # m + 1
        <5>1. n \in 1 .. m
          BY <2>2, <4>2
        <5>. QED
          BY <2>3, <3>3, <3>6, <5>1
      <4>. QED
        BY <4>1, <4>2
    <3>8. PICK H : H = G
      OBVIOUS
    <3>9. Foresees(H)'
      BY <2>2, <3>3, <3>4, <3>5, <3>6, <3>7, <3>8 DEF Foresees
    <3>. QED
      BY <3>9 DEF InOrder
  <2>. QED
    BY <1>10, <2>4, <2>5
<1>18. Staged'
  <2>0. /\ staging \in [Op -> Payload] /\ \A j \in DOMAIN ops : ops[j].stage \in 0 .. MaxOps
        /\ stage # None => stage \in Op
    BY <1>1 DEF RuntimeInv, RuntimeTypeOK, Operation, Op, None
  <2>1. ASSUME NEW j \in ToSet(stream'), ops'[j].kind = "upload"
        PROVE  staging'[ops'[j].stage] = j
    <3>1. CASE j \in ToSet(stream)
      <4>1. j \in DOMAIN ops /\ Unfinished(j) /\ j \notin S /\ ops[j].kind = "upload"
        BY <1>1, <1>3, <1>5, <2>1, <3>1 DEF RuntimeInv, Tracked, S
      <4>2. ops[j].stage # None /\ staging[ops[j].stage] = j
        BY <3>1, <4>1 DEF RuntimeInv, WellMade, Staged
      <4>3. ops[j].stage # stage
        BY <1>6, <4>1, <4>2 DEF Transfers, S
      <4>. QED
        BY <1>5, <2>0, <4>1, <4>2, <4>3
    <3>2. CASE j = i
      <4>1. kind = "upload" /\ stage # None
        BY <1>4, <1>5, <2>1, <3>2
      <4>. QED
        BY <1>4, <1>5, <2>0, <3>2, <4>1
    <3>. QED
      BY <1>11, <2>1, <3>1, <3>2
  <2>2. ASSUME NEW j \in DOMAIN ops' \ (ToSet(stream') \cup {submitting'}), Unfinished(j)',
               ops'[j].kind = "download"
        PROVE  staging'[ops'[j].stage] = ops'[j].expected
    <3>1. CASE j = i
      <4>1. submitting' = i \/ stream' = Append(stream, i)
        BY <1>10
      <4>2. i \in ToSet(Append(stream, i))
        <5>1. Append(stream, i)[Len(stream) + 1] = i /\ Len(stream) + 1 \in DOMAIN Append(stream, i)
          BY <1>1
        <5>. QED
          BY <5>1 DEF ToSet
      <4>. QED
        BY <2>2, <3>1, <4>1, <4>2
    <3>2. CASE j # i
      <4>1. j \in DOMAIN ops /\ Unfinished(j) /\ j \notin S
        BY <1>5, <1>7, <2>2, <3>2
      <4>2. j \in pending
        BY <4>1 DEF RuntimeInv, Tracked
      <4>3. Contains(stream, j)
        BY <1>3, <4>1, <4>2 DEF S, Drained, Passed
      <4>4. j \in ToSet(stream)
        BY <4>3, OperationTypes
      <4>5. j \in ToSet(stream')
        <5>1. PICK n \in DOMAIN stream : stream[n] = j
          BY <4>4 DEF ToSet
        <5>2. n \in DOMAIN Append(stream, i) /\ Append(stream, i)[n] = j
          BY <1>1, <5>1
        <5>. QED
          BY <1>11, <5>1, <5>2 DEF ToSet
      <4>. QED
        BY <2>2, <4>5
    <3>. QED
      BY <3>1, <3>2
  <2>. QED
    BY <2>1, <2>2 DEF Staged
<1>19. Delivered'
  <2>1. \A j \in DOMAIN ops' : host'[j] =
            IF ops'[j].kind = "download" /\ ops'[j].status = "done" THEN ops'[j].expected ELSE Untouched
    BY <1>2, <1>4, <1>5, <1>6
  <2>. QED
    BY <1>5, <1>6, <2>1 DEF Delivered, DownloadsInOrder
<1>20. RuntimeTypeOK'
  <2>1. stream' \in Seq(DOMAIN ops')
    <3>1. stream \in Seq(DOMAIN ops \cup {i}) /\ i \in DOMAIN ops \cup {i}
      BY <1>1, SMTT(30)
    <3>2. Append(stream, i) \in Seq(DOMAIN ops \cup {i})
      BY <3>1
    <3>. QED
      BY <1>5, <1>11, <3>1, <3>2
  <2>2. leased' \subseteq Op /\ Len(ops') <= MaxOps
    <3>1. Unleased(Drained) \subseteq Op
      BY DEF RuntimeInv, RuntimeTypeOK, Unleased
    <3>2. {stage} \ {None} \subseteq Op
      BY <1>1, <1>2 DEF Op, None
    <3>. QED
      BY <1>1, <1>5, <3>1, <3>2
  <2>3. pending' \subseteq DOMAIN ops' /\ held' \subseteq DOMAIN ops' /\ submitting' \in {None} \cup DOMAIN ops'
    BY <1>5, <1>10 DEF RuntimeInv, RuntimeTypeOK
  <2>4. staging' \in [Op -> Payload]
    BY <1>2 DEF RuntimeInv, RuntimeTypeOK
  <2>5. issued' \in [Buffers -> Payload]
    <3>1. issued \in [Buffers -> Payload]
      BY DEF RuntimeInv, RuntimeTypeOK
    <3>. QED
      BY <1>2, <1>10, <3>1
  <2>6. content' \in [Buffers -> Payload] /\ failure' \in BOOLEAN /\ owned' \subseteq Buffers /\ open' \in BOOLEAN
        /\ dead' \in BOOLEAN
    BY DEF RuntimeInv, RuntimeTypeOK
  <2>. QED
    BY <1>5, <1>6, <2>1, <2>2, <2>3, <2>4, <2>5, <2>6 DEF RuntimeTypeOK
<1>. QED
  BY <1>12, <1>13, <1>14, <1>15, <1>16, <1>17, <1>18, <1>19, <1>20 DEF RuntimeInv
------------------------------------------------------------------------------
\* The actions

LEMMA RuntimeInvInit == RuntimeInit => RuntimeInv
<1>. SUFFICES ASSUME RuntimeInit PROVE RuntimeInv
  OBVIOUS
<1>1. /\ ops = <<>> /\ stages = <<>> /\ stream = <<>> /\ leased = {} /\ pending = {} /\ held = {}
      /\ DOMAIN ops = {} /\ ToSet(stages) = {} /\ ToSet(stream) = {}
  BY DEF RuntimeInit, ToSet
<1>2. Junk \in Payload /\ MaxOps \in Nat
  BY RuntimeAssumption DEF Junk, Payload
<1>3. RuntimeTypeOK
  <2>1. ops \in Seq(Operation) /\ Len(ops) <= MaxOps /\ stages \in Seq(Op) /\ Len(stages) <= 2
        /\ stream \in Seq(DOMAIN ops) /\ IsInjective(stages)
    BY <1>1, <1>2 DEF IsInjective
  <2>. QED
    BY <1>1, <1>2, <2>1 DEF RuntimeInit, RuntimeTypeOK
<1>4. InOrder
  <2>. DEFINE F == [n \in 0 .. 0 |-> content]
  <2>1. content \in [Buffers -> Payload]
    BY <1>3 DEF RuntimeTypeOK
  <2>2. Foresees(F)
    BY <1>1, <2>1 DEF RuntimeInit, Foresees
  <2>. QED
    BY <2>2 DEF InOrder
<1>5. WellMade /\ StagesMade /\ LeasesExact /\ Tracked /\ ErrorsKept /\ Staged
  BY <1>1 DEF RuntimeInit, WellMade, StagesMade, LeasesExact, Transfers, Tracked, ErrorsKept, Staged
<1>6. Delivered
  BY <1>1 DEF RuntimeInit, Delivered, DownloadsInOrder
<1>. QED
  BY <1>3, <1>4, <1>5, <1>6 DEF RuntimeInv

LEMMA RefusedKeeps ==
  ASSUME RuntimeInv, submitting = None, Refused
  PROVE  RuntimeInv'
<1>1. /\ ops' = Settled(Drained) /\ host' = Published(Drained) /\ leased' = Unleased(Drained)
      /\ failure' = Fails(Drained) /\ pending' = pending \ Drained
      /\ UNCHANGED <<held, owned, open, submitting, stream, dead, content, stages, staging, issued>>
  BY DEF Refused, Settle, client, device
<1>2. /\ Drained \in SUBSET DOMAIN ops /\ \A i \in Drained : Unfinished(i) => Passed(i)
      /\ Fails(Drained) \in BOOLEAN
  BY DrainedPassed, SettledFacts
<1>3. owned \subseteq Buffers /\ open \in BOOLEAN /\ content \in [Buffers -> Payload]
      /\ issued \in [Buffers -> Payload]
  BY DEF RuntimeInv, RuntimeTypeOK
<1>4. /\ RuntimeTypeOK' /\ WellMade' /\ StagesMade' /\ LeasesExact' /\ Tracked' /\ ErrorsKept'
      /\ Staged' /\ Delivered' /\ SameWork /\ (Healthy' => Healthy)
  BY <1>1, <1>2, <1>3, SettleKeeps
<1>5. InOrder'
  BY <1>1, <1>4, OrderKept
<1>. QED
  BY <1>4, <1>5 DEF RuntimeInv

LEMMA TransferKeeps ==
  ASSUME RuntimeInv, NEW b \in owned, Transfer("upload", Host, b) \/ Transfer("download", b, Host)
  PROVE  RuntimeInv'
<1>1. ASSUME NEW kind \in {"upload", "download"}, NEW from, NEW to,
             kind = "upload" => from = Host /\ to \in Buffers,
             kind = "download" => from \in Buffers /\ to = Host,
             Transfer(kind, from, to)
      PROVE  RuntimeInv'
  <2>1. submitting = None /\ Len(ops) < MaxOps
    BY <1>1 DEF Transfer, Calling
  <2>2. PICK i : i = Len(ops) + 1
    OBVIOUS
  <2>3. PICK stage : stage = StageFor(Unleased(Drained), Bytes(from, to), i)
    OBVIOUS
  <2>4. CASE Refused
    BY <2>1, <2>4, RefusedKeeps
  <2>5. CASE /\ ~Fails(Drained)
             /\ ops' = Append(Settled(Drained), Created(kind, from, to, stage))
             /\ host' = Published(Drained)
             /\ stages' = CachedStages(Unleased(Drained), Bytes(from, to), i)
             /\ leased' = Unleased(Drained) \cup {stage}
             /\ staging' = IF kind = "upload" THEN [staging EXCEPT ![stage] = i] ELSE staging
             /\ Submitted(i, kind, from, to)
             /\ UNCHANGED <<failure, owned, open, dead, content>>
    <3>1. /\ stage \in 1 .. i /\ stage \notin Unleased(Drained)
          /\ stages' \in Seq(Op) /\ IsInjective(stages') /\ Len(stages') <= 2
          /\ ToSet(stages') \subseteq DOMAIN ops \cup {i}
      BY <2>1, <2>2, <2>3, <2>5, StageChosen
    <3>2. stage # None /\ stage \in 0 .. i /\ {stage} = {stage} \ {None}
      BY <3>1 DEF None
    <3>3. kind \in {"upload", "copy", "download"} /\ kind # "copy"
      OBVIOUS
    <3>. HIDE DEF None
    <3>. QED
      BY <1>1, <2>1, <2>2, <2>5, <3>1, <3>2, <3>3, NewOperation
  <2>. QED
    BY <1>1, <2>2, <2>3, <2>4, <2>5 DEF Transfer
<1>2. b \in Buffers
  BY DEF RuntimeInv, RuntimeTypeOK
<1>. QED
  BY <1>1, <1>2

LEMMA CopyKeeps ==
  ASSUME RuntimeInv, Copy
  PROVE  RuntimeInv'
<1>1. submitting = None /\ Len(ops) < MaxOps
  BY DEF Copy, Calling
<1>2. PICK from \in owned, to \in owned :
        \/ Refused
        \/ /\ ~Fails(Drained)
           /\ ops' = Append(Settled(Drained), Created("copy", from, to, None))
           /\ host' = Published(Drained) /\ leased' = Unleased(Drained)
           /\ Submitted(Len(ops) + 1, "copy", from, to)
           /\ UNCHANGED <<failure, stages, staging, owned, open, dead, content>>
  BY DEF Copy
<1>3. CASE Refused
  BY <1>1, <1>3, RefusedKeeps
<1>4. CASE ~Refused
  <2>1. PICK i : i = Len(ops) + 1
    OBVIOUS
  <2>2. from \in Buffers /\ to \in Buffers
    BY DEF RuntimeInv, RuntimeTypeOK
  <2>3. /\ stages' \in Seq(Op) /\ IsInjective(stages') /\ Len(stages') <= 2
        /\ ToSet(stages') \subseteq DOMAIN ops \cup {i}
    BY <1>2, <1>4 DEF RuntimeInv, RuntimeTypeOK, StagesMade
  <2>4. None \in 0 .. i /\ None \notin Unleased(Drained) /\ {None} \ {None} = {}
    BY <2>1, OperationTypes DEF None, RuntimeInv, RuntimeTypeOK, Unleased, Op
  <2>5. leased' = Unleased(Drained) \cup ({None} \ {None})
    BY <1>2, <1>4, <2>4
  <2>. QED
    BY <1>1, <1>2, <1>4, <2>1, <2>2, <2>3, <2>4, <2>5, NewOperation
<1>. QED
  BY <1>3, <1>4

LEMMA SubmitThrowsKeeps ==
  ASSUME RuntimeInv, SubmitThrows
  PROVE  RuntimeInv'
<1>. DEFINE s == submitting
<1>1. /\ s # None /\ stream = <<>> /\ ops' = [ops EXCEPT ![s].status = "failed"]
      /\ leased' = leased \ {ops[s].stage} /\ failure' = TRUE /\ submitting' = None
      /\ UNCHANGED <<pending, stages, held, owned, open, stream, dead, content, staging, host, issued>>
  BY DEF SubmitThrows, device
<1>2. /\ DOMAIN ops = 1 .. Len(ops) /\ Len(ops) \in Nat /\ DOMAIN ops \subseteq Op
      /\ \A i \in DOMAIN ops : ops[i] \in Operation /\ i # None
      /\ s \in DOMAIN ops
  BY <1>1, OperationTypes
<1>3. Unfinished(s)
  BY <1>1 DEF RuntimeInv, Tracked
<1>. HIDE DEF s
<1>4. /\ DOMAIN ops' = DOMAIN ops /\ ops'[s].status = "failed"
      /\ \A i \in DOMAIN ops :
            /\ ops'[i].kind = ops[i].kind /\ ops'[i].from = ops[i].from /\ ops'[i].to = ops[i].to
            /\ ops'[i].stage = ops[i].stage /\ ops'[i].expected = ops[i].expected
            /\ i # s => ops'[i] = ops[i]
            /\ ops'[i] \in Operation
  BY <1>1, <1>2 DEF Operation
<1>5. ops' \in Seq(Operation) /\ Len(ops') = Len(ops)
  <2>1. ops' = [i \in 1 .. Len(ops) |-> ops'[i]]
    BY <1>1, <1>2
  <2>2. \A i \in 1 .. Len(ops) : ops'[i] \in Operation
    BY <1>2, <1>4
  <2>. HIDE DEF Operation
  <2>. QED
    BY <1>2, <2>1, <2>2
<1>6. ASSUME NEW i \in DOMAIN ops PROVE Unfinished(i)' <=> Unfinished(i) /\ i # s
  BY <1>4 DEF Unfinished
<1>7. Transfers' = Transfers \ {s}
  BY <1>4, <1>6 DEF Transfers
<1>8. SameWork /\ ~Healthy'
  BY <1>1, <1>4 DEF SameWork, Healthy
<1>9. InOrder'
  BY <1>1, <1>8, OrderKept
<1>10. LeasesExact'
  <2>0. leased \subseteq Op /\ None \notin Op
    BY DEF RuntimeInv, RuntimeTypeOK, Op, None
  <2>1. leased = {ops[i].stage : i \in Transfers}
        /\ \A i, j \in Transfers : ops[i].stage = ops[j].stage => i = j
    BY DEF RuntimeInv, LeasesExact
  <2>2. \A i \in Transfers : i \in DOMAIN ops /\ ops'[i].stage = ops[i].stage
    BY <1>4 DEF Transfers
  <2>3. leased' = {ops[i].stage : i \in Transfers \ {s}}
    <3>1. CASE s \in Transfers
      BY <1>1, <2>1, <3>1 DEF s
    <3>2. CASE s \notin Transfers
      <4>1. ops[s].stage = None
        BY <1>2, <1>3, <3>2 DEF Transfers
      <4>. QED
        BY <1>1, <2>0, <2>1, <3>2, <4>1 DEF s
    <3>. QED
      BY <3>1, <3>2
  <2>. QED
    BY <1>7, <2>1, <2>2, <2>3 DEF LeasesExact
<1>11. WellMade' /\ StagesMade'
  BY <1>1, <1>4 DEF RuntimeInv, WellMade, StagesMade
<1>12. ToSet(stream) = {} /\ ToSet(stream') = {}
  BY <1>1 DEF ToSet
<1>13. Tracked' /\ ErrorsKept'
  BY <1>1, <1>4, <1>6, <1>12 DEF RuntimeInv, Tracked, ErrorsKept
<1>14. Staged'
  BY <1>1, <1>4, <1>6, <1>12 DEF RuntimeInv, Staged, s
<1>15. Delivered'
  <2>1. ops[s].status = "pending"
    BY <1>3 DEF Unfinished
  <2>. QED
    BY <1>1, <1>2, <1>4, <2>1 DEF RuntimeInv, Delivered, DownloadsInOrder
<1>16. RuntimeTypeOK'
  <2>1. leased' \subseteq Op /\ Len(ops') <= MaxOps /\ stream' \in Seq(DOMAIN ops')
        /\ submitting' \in {None} \cup DOMAIN ops'
    BY <1>1, <1>4, <1>5 DEF RuntimeInv, RuntimeTypeOK
  <2>. QED
    BY <1>1, <1>4, <1>5, <2>1 DEF RuntimeInv, RuntimeTypeOK
<1>. QED
  BY <1>9, <1>10, <1>11, <1>13, <1>14, <1>15, <1>16 DEF RuntimeInv

\* A buffer is allocated when no operation in flight knows it.
LEMMA AllocateKeeps ==
  ASSUME RuntimeInv, Allocate
  PROVE  RuntimeInv'
<1>1. submitting = None
  BY DEF Allocate, Calling
<1>2. CASE Refused
  BY <1>1, <1>2, RefusedKeeps
<1>3. ASSUME NEW b \in Buffers \ Alive, ~Fails(Drained), Settle(Drained), pending' = pending \ Drained,
             owned' = owned \cup {b}, content' = [content EXCEPT ![b] = Junk],
             issued' = [issued EXCEPT ![b] = Junk],
             UNCHANGED <<held, open, submitting, stream, dead, stages, staging>>
      PROVE  RuntimeInv'
  <2>1. /\ Drained \in SUBSET DOMAIN ops /\ \A i \in Drained : Unfinished(i) => Passed(i)
        /\ Fails(Drained) \in BOOLEAN
    BY <1>1, DrainedPassed, SettledFacts
  <2>2. /\ owned' \subseteq Buffers /\ open' \in BOOLEAN /\ content' \in [Buffers -> Payload]
        /\ issued' \in [Buffers -> Payload] /\ content \in [Buffers -> Payload] /\ issued \in [Buffers -> Payload]
        /\ Junk \in Payload
    BY <1>3, RuntimeAssumption DEF RuntimeInv, RuntimeTypeOK, Junk, Payload
  <2>3. /\ RuntimeTypeOK' /\ WellMade' /\ StagesMade' /\ LeasesExact' /\ Tracked' /\ ErrorsKept'
        /\ Staged' /\ Delivered' /\ SameWork /\ (Healthy' => Healthy)
    BY <1>1, <1>3, <2>1, <2>2, SettleKeeps DEF Settle
  <2>4. PICK F : Foresees(F)
    BY DEF RuntimeInv, InOrder
  <2>5. /\ F \in [0 .. Len(stream) -> [Buffers -> Payload]] /\ F[0] = content
        /\ stream \in Seq(DOMAIN ops) /\ Len(stream) \in Nat
        /\ Healthy => F[Len(stream)] = issued
    BY <2>4, OperationTypes DEF Foresees
  <2>6. PICK G : G = [n \in 0 .. Len(stream) |-> [F[n] EXCEPT ![b] = Junk]]
    OBVIOUS
  <2>7. /\ G \in [0 .. Len(stream) -> [Buffers -> Payload]] /\ G[0] = content'
        /\ Healthy' => G[Len(stream)] = issued'
    <3>1. \A n \in 0 .. Len(stream) : F[n] \in [Buffers -> Payload]
      BY <2>5
    <3>2. \A f \in [Buffers -> Payload] : [f EXCEPT ![b] = Junk] \in [Buffers -> Payload]
      BY <2>2
    <3>3. G \in [0 .. Len(stream) -> [Buffers -> Payload]]
      BY <2>6, <3>1, <3>2
    <3>4. 0 \in 0 .. Len(stream) /\ Len(stream) \in 0 .. Len(stream)
      BY <2>5
    <3>5. G[0] = [F[0] EXCEPT ![b] = Junk] /\ G[Len(stream)] = [F[Len(stream)] EXCEPT ![b] = Junk]
      BY <2>6, <3>4
    <3>. QED
      BY <1>3, <2>3, <2>5, <3>3, <3>5
  <2>8. ASSUME NEW n \in 1 .. Len(stream)
        PROVE  /\ G[n] = Effect(ops'[stream[n]], stream[n], G[n - 1])
               /\ ops'[stream[n]].kind = "download" =>
                     G[n - 1][ops'[stream[n]].from] = ops'[stream[n]].expected
    <3>. DEFINE i == stream[n]
    <3>1. /\ i \in DOMAIN ops /\ i \in ToSet(stream) /\ n - 1 \in 0 .. Len(stream) /\ n \in 0 .. Len(stream)
          /\ ops[i] \in Operation
      BY <2>5, OperationTypes DEF ToSet
    <3>2. i \in held
      BY <1>1, <3>1 DEF RuntimeInv, Tracked
    <3>3. b # ops[i].from /\ b # ops[i].to
      BY <1>3, <3>1, <3>2, RuntimeAssumption DEF Alive, Retained
    <3>4. /\ F[n] = Effect(ops[i], i, F[n - 1])
          /\ ops[i].kind = "download" => F[n - 1][ops[i].from] = ops[i].expected
      BY <2>4 DEF Foresees
    <3>5. F[n - 1] \in [Buffers -> Payload] /\ F[n] \in [Buffers -> Payload]
          /\ G[n - 1] = [F[n - 1] EXCEPT ![b] = Junk] /\ G[n] = [F[n] EXCEPT ![b] = Junk]
      BY <2>5, <2>6, <3>1
    <3>6. /\ ops[i].kind = "upload" => ops[i].to \in Buffers
          /\ ops[i].kind = "copy" => ops[i].from \in Buffers /\ ops[i].to \in Buffers
          /\ ops[i].kind = "download" => ops[i].from \in Buffers
          /\ ops[i].kind \in {"upload", "copy", "download"}
      BY <3>1 DEF RuntimeInv, WellMade, Operation
    <3>7. Effect(ops'[i], i, G[n - 1]) = Effect(ops[i], i, G[n - 1])
      BY <2>3, <3>1, SameEffect
    <3>. HIDE DEF i
    <3>8. G[n] = Effect(ops[i], i, G[n - 1])
      BY <3>3, <3>4, <3>5, <3>6 DEF Effect
    <3>9. ops[i].kind = "download" => G[n - 1][ops[i].from] = ops[i].expected
      BY <3>3, <3>4, <3>5, <3>6
    <3>. QED
      BY <2>3, <3>1, <3>7, <3>8, <3>9 DEF SameWork, i
  <2>9. Foresees(G)'
    BY <1>3, <2>7, <2>8 DEF Foresees
  <2>. QED
    BY <2>3, <2>9 DEF RuntimeInv, InOrder
<1>. QED
  BY <1>2, <1>3 DEF Allocate, device

\* Settling what the client, a synchronization or the destructor looks at.
LEMMA LookKeeps ==
  ASSUME RuntimeInv, Ready \/ Wait \/ (DrainedAll /\ open' \in BOOLEAN)
  PROVE  RuntimeInv'
<1>1. PICK S \in SUBSET DOMAIN ops :
        /\ submitting = None /\ \A i \in S : Unfinished(i) => Passed(i)
        /\ ops' = Settled(S) /\ host' = Published(S) /\ leased' = Unleased(S)
        /\ failure' \in BOOLEAN /\ (Fails(S) => failure')
        /\ pending' \subseteq pending /\ pending \ pending' \subseteq S
        /\ held' \subseteq held /\ held \ held' \subseteq S
        /\ open' \in BOOLEAN
        /\ UNCHANGED <<owned, content, issued, submitting, stages, staging, stream, dead>>
  <2>0. pending \subseteq DOMAIN ops /\ held \subseteq DOMAIN ops /\ open \in BOOLEAN
        /\ failure \in BOOLEAN /\ dead \in BOOLEAN
    BY DEF RuntimeInv, RuntimeTypeOK
  <2>1. CASE Ready \/ Wait
    <3>1. PICK i \in held : Look(i) /\ held' \subseteq held /\ held \ held' \subseteq {i}
      BY <2>1 DEF Ready, Wait
    <3>2. {i} \in SUBSET DOMAIN ops /\ submitting = None /\ (Unfinished(i) => Passed(i))
      BY <2>0, <3>1 DEF Look
    <3>3. Fails({i}) \in BOOLEAN
      BY <3>2, SettledFacts
    <3>. QED
      BY <2>0, <3>1, <3>2, <3>3 DEF Look, Settle, device
  <2>2. CASE DrainedAll /\ open' \in BOOLEAN
    <3>1. submitting = None /\ stream = <<>>
      BY <2>2 DEF DrainedAll, Calling
    <3>2. \A i \in pending : Passed(i)
      BY <3>1 DEF Passed, Contains
    <3>3. Fails(pending) \in BOOLEAN
      BY <2>0, <3>1, <3>2, SettledFacts
    <3>. QED
      BY <2>0, <2>2, <3>1, <3>2, <3>3 DEF DrainedAll, device
  <2>. QED
    BY <2>1, <2>2
<1>2. owned \subseteq Buffers /\ content \in [Buffers -> Payload] /\ issued \in [Buffers -> Payload]
  BY DEF RuntimeInv, RuntimeTypeOK
<1>3. /\ RuntimeTypeOK' /\ WellMade' /\ StagesMade' /\ LeasesExact' /\ Tracked' /\ ErrorsKept'
      /\ Staged' /\ Delivered' /\ SameWork /\ (Healthy' => Healthy)
  BY <1>1, <1>2, SettleKeeps
<1>4. InOrder'
  BY <1>1, <1>3, OrderKept
<1>. QED
  BY <1>3, <1>4 DEF RuntimeInv

\* The operations, their Completions and the queue of errors are as they were.
LEMMA HostAlone ==
  ASSUME RuntimeInv, UNCHANGED <<ops, pending, failure, stages, leased, submitting, host>>
  PROVE  WellMade' /\ StagesMade' /\ LeasesExact' /\ Delivered'
BY DEF RuntimeInv, WellMade, StagesMade, LeasesExact, Transfers, Unfinished, Delivered, DownloadsInOrder

LEMMA ForgetKeeps ==
  ASSUME RuntimeInv, Forget \/ UNCHANGED runtimeVars
  PROVE  RuntimeInv'
<1>1. /\ owned' \subseteq owned
      /\ UNCHANGED <<ops, pending, failure, stages, leased, submitting, host, held, open, stream,
                     dead, content, staging, issued>>
  BY DEF Forget, runtimeVars, runtime, device, client
<1>2. WellMade' /\ StagesMade' /\ LeasesExact' /\ Delivered'
  BY <1>1, HostAlone
<1>3. RuntimeTypeOK' /\ Tracked' /\ ErrorsKept' /\ Staged'
  BY <1>1 DEF RuntimeInv, RuntimeTypeOK, Tracked, ErrorsKept, Staged, Unfinished
<1>4. SameWork /\ Healthy' = Healthy
  BY <1>1 DEF SameWork, Healthy
<1>5. InOrder'
  BY <1>1, <1>4, OrderKept
<1>. QED
  BY <1>2, <1>3, <1>5 DEF RuntimeInv

LEMMA FaultKeeps ==
  ASSUME RuntimeInv, DeviceFaults
  PROVE  RuntimeInv'
<1>1. /\ stream # <<>> /\ dead' = TRUE /\ stream' = <<>>
      /\ UNCHANGED <<ops, pending, failure, stages, leased, submitting, host, held, owned, open,
                     content, staging, issued>>
  BY DEF DeviceFaults, runtime, client
<1>2. WellMade' /\ StagesMade' /\ LeasesExact' /\ Delivered'
  BY <1>1, HostAlone
<1>3. ToSet(stream') = {} /\ <<>> \in Seq(DOMAIN ops)
  BY <1>1 DEF ToSet
<1>4. RuntimeTypeOK' /\ Tracked' /\ Staged'
  BY <1>1, <1>3 DEF RuntimeInv, RuntimeTypeOK, Tracked, Staged, Unfinished
<1>5. ErrorsKept'
  <2>1. stream[1] \in ToSet(stream)
    BY <1>1, OperationTypes DEF ToSet
  <2>2. stream[1] \in DOMAIN ops /\ Unfinished(stream[1]) /\ stream[1] \in pending
    BY <2>1, OperationTypes DEF RuntimeInv, Tracked
  <2>. QED
    BY <1>1, <2>2 DEF RuntimeInv, ErrorsKept, Unfinished
<1>6. InOrder'
  <2>1. PICK F : F = [n \in 0 .. 0 |-> content]
    OBVIOUS
  <2>2. content \in [Buffers -> Payload] /\ ~Healthy' /\ Len(stream') = 0
    BY <1>1 DEF RuntimeInv, RuntimeTypeOK, Healthy
  <2>3. Foresees(F)'
    BY <1>1, <2>1, <2>2 DEF Foresees
  <2>. QED
    BY <2>3 DEF InOrder
<1>. QED
  BY <1>2, <1>4, <1>5, <1>6 DEF RuntimeInv

\* The oldest operation of the stream happens as it was foreseen.
LEMMA ExecuteKeeps ==
  ASSUME RuntimeInv, DeviceExecutes
  PROVE  RuntimeInv'
<1>0. PICK h : h = Head(stream)
  OBVIOUS
<1>1. /\ stream # <<>> /\ stream' = Tail(stream)
      /\ UNCHANGED <<ops, pending, failure, stages, leased, submitting, host, held, owned, open,
                     dead, issued>>
      /\ CASE ops[h].kind = "upload" ->
                /\ content' = [content EXCEPT ![ops[h].to] = staging[ops[h].stage]]
                /\ staging' = staging
           [] ops[h].kind = "copy" ->
                /\ content' = [content EXCEPT ![ops[h].to] = content[ops[h].from]]
                /\ staging' = staging
           [] ops[h].kind = "download" ->
                /\ staging' = [staging EXCEPT ![ops[h].stage] = content[ops[h].from]]
                /\ content' = content
  BY <1>0 DEF DeviceExecutes, runtime, client
<1>2. /\ stream \in Seq(DOMAIN ops) /\ Len(stream) \in Nat /\ Len(stream) > 0
      /\ h = stream[1] /\ h \in DOMAIN ops /\ h \in ToSet(stream)
      /\ stream' \in Seq(DOMAIN ops) /\ Len(stream') = Len(stream) - 1
      /\ \A n \in 1 .. Len(stream) - 1 : stream'[n] = stream[n + 1]
      /\ ops[h] \in Operation
  BY <1>0, <1>1, OperationTypes DEF ToSet
<1>3. \A i \in ToSet(stream) : i \in ToSet(stream') \/ i = h
  <2>. SUFFICES ASSUME NEW n \in 1 .. Len(stream), n # 1 PROVE stream[n] \in ToSet(stream')
    BY <1>2 DEF ToSet
  <2>1. n - 1 \in 1 .. Len(stream) - 1 /\ stream'[n - 1] = stream[n] /\ n - 1 \in DOMAIN stream'
    BY <1>2
  <2>. QED
    BY <2>1 DEF ToSet
<1>4. ToSet(stream') \subseteq ToSet(stream)
  BY <1>2, SMTT(30) DEF ToSet
<1>5. /\ ops[h].kind \in {"upload", "copy", "download"}
      /\ ops[h].kind = "upload" => ops[h].to \in Buffers
      /\ ops[h].kind = "copy" => ops[h].from \in Buffers /\ ops[h].to \in Buffers
      /\ ops[h].kind = "download" => ops[h].from \in Buffers /\ ops[h].stage # None
      /\ ops[h].kind = "upload" => staging[ops[h].stage] = h
      /\ Unfinished(h)
  BY <1>2 DEF RuntimeInv, WellMade, Operation, Staged, Tracked
<1>6. content' = Effect(ops[h], h, content)
  BY <1>1, <1>5 DEF Effect
<1>7. content \in [Buffers -> Payload] /\ content' \in [Buffers -> Payload] /\ staging \in [Op -> Payload]
  BY <1>2, <1>6, EffectType DEF RuntimeInv, RuntimeTypeOK
<1>8. staging' \in [Op -> Payload]
  BY <1>1, <1>5, <1>7
<1>9. WellMade' /\ StagesMade' /\ LeasesExact' /\ Delivered'
  BY <1>1, HostAlone
<1>10. Tracked' /\ ErrorsKept' /\ RuntimeTypeOK'
  <2>1. Tracked'
    BY <1>1, <1>4 DEF RuntimeInv, Tracked, Unfinished
  <2>2. dead' => stream' = <<>>
    BY <1>1 DEF RuntimeInv, ErrorsKept
  <2>3. ErrorsKept'
    BY <1>1, <2>2 DEF RuntimeInv, ErrorsKept, Unfinished
  <2>. QED
    BY <1>1, <1>2, <1>7, <1>8, <2>1, <2>3 DEF RuntimeInv, RuntimeTypeOK
<1>11. PICK F : Foresees(F)
  BY DEF RuntimeInv, InOrder
<1>12. /\ F \in [0 .. Len(stream) -> [Buffers -> Payload]] /\ F[0] = content
       /\ F[1] = Effect(ops[h], h, F[0])
       /\ ops[h].kind = "download" => F[0][ops[h].from] = ops[h].expected
       /\ Healthy => F[Len(stream)] = issued
  <2>1. 1 \in 1 .. Len(stream) /\ 1 - 1 = 0
    BY <1>2
  <2>. QED
    BY <1>2, <1>11, <2>1 DEF Foresees
<1>13. InOrder'
  <2>1. PICK G : G = [n \in 0 .. Len(stream) - 1 |-> F[n + 1]]
    OBVIOUS
  <2>2. /\ G \in [0 .. Len(stream') -> [Buffers -> Payload]] /\ G[0] = content'
        /\ Healthy' => G[Len(stream')] = issued'
    BY <1>1, <1>2, <1>6, <1>12, <2>1 DEF Healthy
  <2>3. ASSUME NEW n \in 1 .. Len(stream')
        PROVE  /\ G[n] = Effect(ops'[stream'[n]], stream'[n], G[n - 1])
               /\ ops'[stream'[n]].kind = "download" =>
                     G[n - 1][ops'[stream'[n]].from] = ops'[stream'[n]].expected
    <3>1. /\ n + 1 \in 1 .. Len(stream) /\ stream'[n] = stream[n + 1] /\ (n + 1) - 1 = n
          /\ G[n] = F[n + 1] /\ G[n - 1] = F[n]
      BY <1>2, <2>1
    <3>2. /\ F[n + 1] = Effect(ops[stream[n + 1]], stream[n + 1], F[(n + 1) - 1])
          /\ ops[stream[n + 1]].kind = "download" =>
                F[(n + 1) - 1][ops[stream[n + 1]].from] = ops[stream[n + 1]].expected
      BY <1>11, <3>1 DEF Foresees
    <3>. QED
      BY <1>1, <3>1, <3>2
  <2>4. Foresees(G)'
    BY <2>2, <2>3 DEF Foresees
  <2>. QED
    BY <2>4 DEF InOrder
<1>14. Staged'
  <2>1. ASSUME NEW i \in DOMAIN ops, Unfinished(i), ops[i].kind # "copy", i # h
        PROVE  staging'[ops[i].stage] = staging[ops[i].stage]
    <3>1. ops[i].stage # None /\ i \in Transfers
      BY <2>1 DEF RuntimeInv, WellMade, Transfers
    <3>2. CASE ops[h].kind # "download"
      <4>1. staging' = staging
        BY <1>1, <1>5, <3>2
      <4>. QED
        BY <4>1
    <3>3. CASE ops[h].kind = "download"
      <4>1. h \in Transfers
        BY <1>2, <1>5, <3>3 DEF Transfers
      <4>2. ops[i].stage # ops[h].stage
        BY <2>1, <3>1, <4>1 DEF RuntimeInv, LeasesExact
      <4>3. ops[i].stage \in Op
        BY <2>1, <3>1, OperationTypes DEF Operation, Op, None
      <4>4. staging' = [staging EXCEPT ![ops[h].stage] = content[ops[h].from]]
        BY <1>1, <3>3
      <4>. QED
        BY <1>7, <4>2, <4>3, <4>4
    <3>. QED
      BY <3>2, <3>3
  <2>2. ASSUME NEW i \in ToSet(stream'), ops[i].kind = "upload"
        PROVE  staging'[ops[i].stage] = i
    <3>1. i \in ToSet(stream) /\ i \in DOMAIN ops /\ Unfinished(i) /\ staging[ops[i].stage] = i
      BY <1>4, <2>2, OperationTypes DEF RuntimeInv, Tracked, Staged
    <3>2. CASE i = h
      BY <1>1, <2>2, <3>1, <3>2
    <3>3. CASE i # h
      BY <2>1, <2>2, <3>1, <3>3
    <3>. QED
      BY <3>2, <3>3
  <2>3. ASSUME ~dead, NEW i \in DOMAIN ops \ (ToSet(stream') \cup {submitting}), Unfinished(i),
               ops[i].kind = "download"
        PROVE  staging'[ops[i].stage] = ops[i].expected
    <3>1. CASE i = h
      <4>1. ops[h].stage \in Op
        BY <1>2, <1>5, <2>3, <3>1 DEF Operation, Op, None
      <4>. QED
        BY <1>1, <1>7, <1>12, <2>3, <3>1, <4>1
    <3>2. CASE i # h
      <4>1. i \notin ToSet(stream)
        BY <1>3, <2>3, <3>2
      <4>2. staging[ops[i].stage] = ops[i].expected
        BY <2>3, <4>1 DEF RuntimeInv, Staged
      <4>. QED
        BY <2>1, <2>3, <3>2, <4>2
    <3>. QED
      BY <3>1, <3>2
  <2>. QED
    BY <1>1, <2>2, <2>3 DEF Staged, Unfinished
<1>. QED
  BY <1>9, <1>10, <1>13, <1>14 DEF RuntimeInv

LEMMA RuntimeInvNext == RuntimeInv /\ [RuntimeNext]_runtimeVars => RuntimeInv'
<1>. SUFFICES ASSUME RuntimeInv, [RuntimeNext]_runtimeVars PROVE RuntimeInv'
  OBVIOUS
<1>1. CASE Upload \/ Download
  BY <1>1, TransferKeeps DEF Upload, Download
<1>2. CASE Copy
  BY <1>2, CopyKeeps
<1>3. CASE SubmitThrows
  BY <1>3, SubmitThrowsKeeps
<1>4. CASE Allocate
  BY <1>4, AllocateKeeps
<1>5. CASE Ready \/ Wait \/ Synchronize \/ Close
  <2>1. open \in BOOLEAN
    BY DEF RuntimeInv, RuntimeTypeOK
  <2>2. Synchronize \/ Close => DrainedAll /\ open' \in BOOLEAN
    BY <2>1 DEF Synchronize, Close
  <2>3. Ready \/ Wait \/ (DrainedAll /\ open' \in BOOLEAN)
    BY <1>5, <2>2
  <2>. QED
    BY <2>3, LookKeeps
<1>6. CASE Forget \/ UNCHANGED runtimeVars
  BY <1>6, ForgetKeeps
<1>7. CASE DeviceExecutes
  BY <1>7, ExecuteKeeps
<1>8. CASE DeviceFaults
  BY <1>8, FaultKeeps
<1>. QED
  BY <1>1, <1>2, <1>3, <1>4, <1>5, <1>6, <1>7, <1>8 DEF RuntimeNext

LEMMA RuntimeInvAlways == RuntimeSpec => []RuntimeInv
BY RuntimeInvInit, RuntimeInvNext, PTL DEF RuntimeSpec

------------------------------------------------------------------------------
\* The theorems

\* StageLease: whatever the sizes of the buffers are and whoever reuses, replaces or
\* drops a cached stage, two transfers that are not terminal never share one, no
\* lease outlives its transfer, and the cache keeps two stages at most.
THEOREM StagesNeverShared == RuntimeSpec => []StagesNotShared
<1>1. RuntimeInv => StagesNotShared
  BY DEF RuntimeInv, LeasesExact, Transfers, StagesNotShared
<1>. QED
  BY <1>1, RuntimeInvAlways, PTL

\* CompletionState: an operation the stream has still to execute is not terminal,
\* and its Completion retains its buffers, also while submit throws.
THEOREM OperandsAlwaysHeld == RuntimeSpec => []OperandsHeld
<1>1. ASSUME RuntimeInv PROVE OperandsHeld
  <2>. SUFFICES ASSUME NEW i \in ToSet(stream)
                PROVE  Unfinished(i) /\ {ops[i].from, ops[i].to} \subseteq Alive \cup {Host}
    BY DEF OperandsHeld
  <2>1. Unfinished(i) /\ i \in held \cup ({submitting} \ {None})
    BY <1>1 DEF RuntimeInv, Tracked
  <2>. QED
    BY <2>1 DEF Alive, Retained
<1>. QED
  BY <1>1, RuntimeInvAlways, PTL

\* The ordered queue: a download delivers what its buffer contained by the calls
\* before it, however late somebody looks at it, and an operation that did not end
\* well leaves the memory of the host alone.
THEOREM DownloadsAlwaysInOrder == RuntimeSpec => []DownloadsInOrder
<1>1. RuntimeInv => DownloadsInOrder
  BY DEF RuntimeInv, Delivered
<1>. QED
  BY <1>1, RuntimeInvAlways, PTL

\* synchronize: a call that does not throw leaves no operation unfinished, and none
\* of those ever submitted has failed, whoever looked at it before.
THEOREM SynchronizeAlwaysTellsAll == RuntimeSpec => SynchronizeTellsAll
<1>1. ASSUME RuntimeInv, Synchronize, ~failure', NEW i \in DOMAIN ops
      PROVE  ops'[i].status = "done"
  <2>1. /\ submitting = None /\ stream = <<>> /\ ops' = Settled(pending)
        /\ ~Fails(pending) /\ ~dead /\ pending \in SUBSET DOMAIN ops
    BY <1>1 DEF Synchronize, DrainedAll, Calling, RuntimeInv, RuntimeTypeOK
  <2>2. \A j \in pending : Passed(j)
    BY <2>1 DEF Passed, Contains
  <2>3. CASE i \in pending
    BY <1>1, <2>1, <2>2, <2>3, SettledFacts
  <2>4. CASE i \notin pending
    <3>1. ops'[i].status = ops[i].status
      BY <1>1, <2>1, <2>2, <2>4, SettledFacts
    <3>2. ops[i].status # "pending" /\ ops[i].status # "failed"
      BY <1>1, <2>1, <2>4 DEF RuntimeInv, Tracked, Unfinished, ErrorsKept, Fails
    <3>3. ops[i].status \in {"pending", "done", "failed"}
      BY <1>1, OperationTypes DEF Operation
    <3>. QED
      BY <3>1, <3>2, <3>3
  <2>. QED
    BY <2>3, <2>4
<1>2. RuntimeInv => [Synchronize /\ ~failure' => \A i \in DOMAIN ops : ops'[i].status = "done"]_runtimeVars
  BY <1>1
<1>. QED
  BY <1>2, RuntimeInvAlways, PTL DEF SynchronizeTellsAll

------------------------------------------------------------------------------
\* Tensors: shapes

\* A product of naturals is one.
LEMMA ProductType ==
  ASSUME NEW s \in Seq(Nat)
  PROVE  Product(s) \in Nat
<1>. DEFINE m == Len(s)
            S == [n \in 0 .. m |-> Nat]
            move == [n \in 1 .. m |-> [x \in Nat |-> x * s[n]]]
            it == CHOOSE f : f = [n \in 0 .. m |-> IF n = 0 THEN 1 ELSE f[n - 1] * s[n]]
<1>1. m \in Nat /\ \A n \in 1 .. m : s[n] \in Nat
  OBVIOUS
<1>2. \E f : f = [n \in 0 .. m |-> IF n = 0 THEN 1 ELSE f[n - 1] * s[n]]
  <2>1. \A n \in 1 .. m : \A x \in S[n - 1] : move[n][x] \in S[n]
    <3>1. ASSUME NEW n \in 1 .. m, NEW x \in Nat PROVE x * s[n] \in Nat
      BY <1>1
    <3>2. ASSUME NEW n \in 1 .. m PROVE n \in 0 .. m /\ n - 1 \in 0 .. m
      BY <1>1
    <3>3. \A n \in 1 .. m : S[n - 1] = Nat /\ S[n] = Nat
      BY <3>2
    <3>4. \A n \in 1 .. m : \A x \in Nat : move[n][x] = x * s[n]
      OBVIOUS
    <3>. HIDE DEF S, move, m
    <3>5. ASSUME NEW n \in 1 .. m, NEW x \in S[n - 1] PROVE move[n][x] \in S[n]
      <4>1. x \in Nat
        BY <3>3
      <4>2. move[n][x] = x * s[n] /\ x * s[n] \in Nat
        BY <3>1, <3>4, <4>1
      <4>. QED
        BY <3>3, <4>2, Zenon
    <3>. QED
      BY <3>5
  <2>2. 1 \in S[0]
    BY <1>1
  <2>. HIDE DEF S, move, m
  <2>3. PICK f : Orbit(f, m, 1, move) /\ \A n \in 0 .. m : f[n] \in S[n]
    BY <1>1, <2>1, <2>2, OrbitExists
  <2>. USE DEF S, move
  <2>4. ASSUME NEW n \in 0 .. m, n # 0 PROVE move[n][f[n - 1]] = f[n - 1] * s[n]
    <3>1. n \in 1 .. m /\ n - 1 \in 0 .. m
      BY <1>1, <2>4
    <3>2. f[n - 1] \in Nat
      BY <2>3, <3>1
    <3>. QED
      BY <3>1, <3>2
  <2>5. f = [n \in 0 .. m |-> IF n = 0 THEN 1 ELSE move[n][f[n - 1]]]
    BY <2>3 DEF Orbit
  <2>. HIDE DEF S, move
  <2>6. f = [n \in 0 .. m |-> IF n = 0 THEN 1 ELSE f[n - 1] * s[n]]
    BY <2>4, <2>5, Zenon
  <2>. QED
    BY <2>6
<1>3. it = [n \in 0 .. m |-> IF n = 0 THEN 1 ELSE it[n - 1] * s[n]]
  BY <1>2, Zenon
<1>4. Product(s) = it[m]
  BY Zenon DEF Product
<1>. HIDE DEF it, m
<1>. DEFINE X == {n \in 0 .. m : it[n] \in Nat}
<1>5. 0 \in X
  BY <1>1, <1>3
<1>6. ASSUME NEW n \in 1 .. m, n - 1 \in X PROVE n \in X
  <2>1. n \in 0 .. m /\ n # 0 /\ it[n - 1] \in Nat /\ s[n] \in Nat
    BY <1>1, <1>6
  <2>2. it[n] = it[n - 1] * s[n]
    BY <1>3, <2>1
  <2>3. it[n - 1] * s[n] \in Nat
    BY <2>1
  <2>. QED
    BY <2>1, <2>2, <2>3
<1>. HIDE DEF X
<1>7. \A n \in 0 .. m : n \in X
  BY <1>1, <1>5, <1>6, Stepwise
<1>8. m \in X
  BY <1>1, <1>7
<1>. QED
  BY <1>4, <1>8 DEF X

\* A layout made for a shape has it, and no negative extents.
LEMMA LayoutOfShape ==
  ASSUME NEW shape \in Seq(Int), NEW layout \in LayoutOf(shape)
  PROVE  layout.shape = shape /\ shape \in Seq(Nat) /\ Numel(shape) \in Nat
<1>1. \A d \in DOMAIN shape : shape[d] >= 0
  BY Zenon DEF LayoutOf, Only
<1>2. layout = [shape |-> shape, strides |-> ContiguousStrides(shape)]
  BY Zenon DEF LayoutOf, Only
<1>3. shape \in Seq(Nat)
  <2>1. DOMAIN shape = 1 .. Len(shape) /\ Len(shape) \in Nat /\ \A d \in DOMAIN shape : shape[d] \in Nat
    BY <1>1
  <2>2. shape = [d \in 1 .. Len(shape) |-> shape[d]]
    OBVIOUS
  <2>. QED
    BY <2>1, <2>2
<1>. QED
  BY <1>2, <1>3, ProductType DEF Numel

\* So does the one a reshape infers.
LEMMA ReshapedShape ==
  ASSUME NEW old, old.shape \in Seq(Nat), NEW shape \in Seq(Int), NEW layout \in Reshaped(old, shape)
  PROVE  layout.shape \in Seq(Nat)
<1>. DEFINE numel == Numel(old.shape)
            inferred == {d \in DOMAIN shape : shape[d] = -1}
            extents == [d \in DOMAIN shape |-> IF d \in inferred THEN 1 ELSE shape[d]]
            known == Product(extents)
            resolved == [d \in DOMAIN shape |->
                           IF d \in inferred /\ known # 0 THEN numel \div known ELSE shape[d]]
<1>1. numel \in Nat
  BY ProductType DEF Numel
<1>2. PICK s \in ResolveShape(shape, numel) : layout \in LayoutOf(s)
  BY Zenon DEF Reshaped
<1>3. s = resolved /\ \A d \in DOMAIN shape : shape[d] >= -1
  BY <1>2, Zenon DEF ResolveShape, Only
<1>4. DOMAIN shape = 1 .. Len(shape) /\ Len(shape) \in Nat /\ \A d \in DOMAIN shape : shape[d] \in Int
  OBVIOUS
<1>5. known \in Nat
  <2>1. ASSUME NEW d \in 1 .. Len(shape) PROVE extents[d] \in Nat
    <3>1. d \in DOMAIN shape /\ shape[d] \in Int /\ shape[d] >= -1
      BY <1>3, <1>4
    <3>2. extents[d] = IF shape[d] = -1 THEN 1 ELSE shape[d]
      BY <3>1
    <3>. QED
      BY <3>1, <3>2
  <2>2. extents = [d \in 1 .. Len(shape) |-> extents[d]]
    BY <1>4
  <2>. HIDE DEF extents
  <2>3. extents \in Seq(Nat)
    BY <1>4, <2>1, <2>2
  <2>. QED
    BY <2>3, ProductType
<1>6. known # 0 => numel \div known \in Int
  <2>. HIDE DEF known, numel
  <2>. QED
    BY <1>1, <1>5
<1>. HIDE DEF known, numel
<1>7. resolved \in Seq(Int)
  <2>1. \A d \in 1 .. Len(shape) : resolved[d] \in Int
    BY <1>4, <1>6
  <2>2. resolved = [d \in 1 .. Len(shape) |-> resolved[d]]
    BY <1>4
  <2>. HIDE DEF resolved
  <2>. QED
    BY <1>4, <2>1, <2>2
<1>. QED
  BY <1>2, <1>3, <1>7, LayoutOfShape

------------------------------------------------------------------------------
\* Tensors: the arena

IsTensor(r) ==
    /\ r = [layout |-> r.layout, buffer |-> r.buffer, offset |-> r.offset,
            size |-> r.size, depth |-> r.depth]
    /\ r.layout.shape \in Seq(Nat)

TensorsOK ==
    /\ allocator \in [offset : Nat, active : Nat]
    /\ Live \subseteq Slots /\ \A t \in Live : IsTensor(tensors[t])
    /\ DOMAIN buffers \subseteq BufferIds
    /\ \A b \in DOMAIN buffers :
          /\ buffers[b].size \in Nat
          /\ IF buffers[b].size = 0 THEN buffers[b].base = Null ELSE buffers[b].base \in Nat

TensorsInv == TensorsOK /\ BuffersApart

\* What is allocated is aligned, behind all that was, and inside the arena.
LEMMA ArenaGives ==
  ASSUME allocator \in [offset : Nat, active : Nat], NEW size \in Nat, NEW a \in ArenaAllocate(size)
  PROVE  /\ size = 0 => a.base = Null /\ a.arena = allocator
         /\ size # 0 => /\ a.base \in Nat /\ a.base % ArenaAlignment = 0
                        /\ allocator.offset <= a.base /\ a.base + size <= Capacity
                        /\ a.arena = [offset |-> a.base + size, active |-> allocator.active + 1]
<1>. DEFINE A == ArenaAlignment
            n == allocator.offset + A - 1
            q == n \div A
            aligned == q * A
<1>1. A \in Nat \ {0} /\ n \in Nat /\ allocator.offset \in Nat /\ Capacity \in Nat
  BY ArenaAssumption
<1>2. q \in Int /\ A * q <= n /\ n < A * (q + 1)
  BY <1>1
<1>3. q >= 0
  BY <1>1, <1>2
<1>4. aligned \in Nat /\ allocator.offset <= aligned /\ aligned = A * q
  BY <1>1, <1>2, <1>3
<1>5. aligned % A = 0
  <2>. HIDE DEF n, q, A
  <2>1. (A * q) \div A = q
    BY <1>1, <1>2, QuotientUnique
  <2>2. A * q = A * ((A * q) \div A) + ((A * q) % A)
    <3>1. A * q \in Int
      BY <1>1, <1>2
    <3>2. \A x \in Int : x = A * (x \div A) + (x % A)
      BY <1>1
    <3>. QED
      BY <3>1, <3>2
  <2>3. (A * q) % A \in Int
    BY <1>1, <1>2
  <2>. QED
    BY <1>1, <1>2, <1>4, <2>1, <2>2, <2>3
<1>6. CASE size = 0
  <2>1. a = [base |-> Null, arena |-> allocator]
    BY <1>6, Zenon DEF ArenaAllocate
  <2>. QED
    BY <1>6, <2>1
<1>7. CASE size # 0
  <2>1. aligned <= Capacity /\ size <= Capacity - aligned
    BY <1>7, Zenon DEF ArenaAllocate, Only
  <2>2. a = [base |-> aligned, arena |-> [offset |-> aligned + size, active |-> allocator.active + 1]]
    BY <1>7, Zenon DEF ArenaAllocate, Only
  <2>3. a.base = aligned /\ a.arena = [offset |-> aligned + size, active |-> allocator.active + 1]
    BY <2>2
  <2>. HIDE DEF aligned, A
  <2>4. aligned + size <= Capacity
    BY <1>1, <1>4, <2>1
  <2>. QED
    BY <1>4, <1>5, <1>7, <2>3, <2>4 DEF A
<1>. QED
  BY <1>6, <1>7

------------------------------------------------------------------------------
\* Tensors: owners

LEMMA HoldingFinite ==
  ASSUME TensorsInv
  PROVE  /\ IsFiniteSet(Slots) /\ IsFiniteSet(Live) /\ IsFiniteSet(DOMAIN buffers)
         /\ IsFiniteSet(Holding) /\ Cardinality(Holding) \in Nat
         /\ Cardinality(DOMAIN buffers) <= Cardinality(Slots)
<1>1. IsFiniteSet(Slots) /\ IsFiniteSet(Live) /\ Cardinality(Live) <= Cardinality(Slots)
  BY ArenaAssumption, FS_Subset DEF TensorsInv, TensorsOK
<1>. DEFINE f == [t \in Live |-> tensors[t].buffer]
<1>2. f \in Surjection(Live, DOMAIN buffers)
  BY DEF TensorsInv, BuffersApart, Surjection
<1>3. IsFiniteSet(DOMAIN buffers) /\ Cardinality(DOMAIN buffers) <= Cardinality(Live)
  <2>. HIDE DEF f
  <2>. QED
    BY <1>1, <1>2, FS_Surjection
<1>4. Holding \in SUBSET DOMAIN buffers
  BY DEF Holding
<1>5. IsFiniteSet(Holding) /\ Cardinality(Holding) \in Nat
  BY <1>3, <1>4, FS_Subset, FS_CardinalityType
<1>6. Cardinality(DOMAIN buffers) \in Nat /\ Cardinality(Live) \in Nat /\ Cardinality(Slots) \in Nat
  BY <1>1, <1>3, FS_CardinalityType
<1>. QED
  BY <1>1, <1>3, <1>5, <1>6

\* There is always an identifier for one more buffer.
LEMMA FreshBuffer ==
  ASSUME TensorsInv
  PROVE  LET b == CHOOSE i \in BufferIds : i \notin DOMAIN buffers
                                           /\ \A j \in BufferIds : j < i => j \in DOMAIN buffers
         IN  b \in BufferIds /\ b \notin DOMAIN buffers
<1>. DEFINE Free == BufferIds \ DOMAIN buffers
<1>1. BufferIds \in SUBSET Nat /\ Cardinality(BufferIds) = Cardinality(Slots) + 1 /\ IsFiniteSet(BufferIds)
  <2>1. Cardinality(Slots) \in Nat
    BY HoldingFinite, FS_CardinalityType
  <2>2. 1 \in Int /\ Cardinality(Slots) + 1 \in Int /\ ~ (1 > Cardinality(Slots) + 1)
    BY <2>1
  <2>3. IsFiniteSet(1 .. Cardinality(Slots) + 1)
        /\ Cardinality(1 .. Cardinality(Slots) + 1) = (Cardinality(Slots) + 1) - 1 + 1
    BY <2>2, FS_Interval, Zenon
  <2>. QED
    BY <2>1, <2>3 DEF BufferIds
<1>2. Free # {}
  <2>. SUFFICES ASSUME Free = {} PROVE FALSE
    OBVIOUS
  <2>1. DOMAIN buffers = BufferIds
    BY DEF TensorsInv, TensorsOK
  <2>2. Cardinality(Slots) \in Nat /\ Cardinality(BufferIds) <= Cardinality(Slots)
    BY <2>1, HoldingFinite, FS_CardinalityType
  <2>. QED
    BY <1>1, <2>2
<1>3. Free \in SUBSET Nat
  BY <1>1
<1>. HIDE DEF Free
<1>4. PICK i \in Free : \A j \in Free : i <= j
  BY <1>2, <1>3, LeastNatural
<1>. USE DEF Free
<1>5. \A j \in BufferIds : j < i => j \in DOMAIN buffers
  BY <1>1, <1>4
<1>6. i \in BufferIds /\ i \notin DOMAIN buffers
  BY <1>4
<1>. QED
  BY <1>5, <1>6, Zenon

\* What stays when slot s lets go of its buffer: the buffers of the others.
LEMMA DeadBuffers ==
  ASSUME TensorsInv, NEW s
  PROVE  DOMAIN buffers \ Dead(s) = {tensors[t].buffer : t \in Live \ {s}}
<1>1. DOMAIN buffers = {tensors[t].buffer : t \in Live}
  BY DEF TensorsInv, BuffersApart
<1>2. CASE s \in Live /\ LastOwner(s)
  <2>1. Dead(s) = {tensors[s].buffer} /\ \A t \in Live \ {s} : tensors[t].buffer # tensors[s].buffer
    BY <1>2 DEF Dead, LastOwner
  <2>. QED
    BY <1>1, <1>2, <2>1
<1>3. CASE s \in Live /\ ~ LastOwner(s)
  <2>1. Dead(s) = {} /\ \E t \in Live \ {s} : tensors[t].buffer = tensors[s].buffer
    BY <1>3 DEF Dead, LastOwner
  <2>. QED
    BY <1>1, <1>3, <2>1
<1>4. CASE s \notin Live
  <2>1. Dead(s) = {} /\ Live \ {s} = Live
    BY <1>4 DEF Dead
  <2>. QED
    BY <1>1, <2>1
<1>. QED
  BY <1>2, <1>3, <1>4

\* The count follows: whatever was allocated meanwhile, k more or none.
LEMMA ReleaseCounts ==
  ASSUME TensorsInv, NEW s, NEW a \in [offset : Nat, active : Nat], NEW k \in Nat,
         a.active = allocator.active + k
  PROVE  /\ Released(a, s) \in [offset : Nat, active : Nat]
         /\ Released(a, s).offset = a.offset
         /\ Released(a, s).active = Cardinality(Holding \ Dead(s)) + k
<1>1. allocator.active = Cardinality(Holding) /\ Cardinality(Holding) \in Nat /\ IsFiniteSet(Holding)
  BY HoldingFinite DEF TensorsInv, BuffersApart
<1>2. CASE ~ (s \in Live /\ LastOwner(s))
  <2>1. Dead(s) = {} /\ Released(a, s) = a
    BY <1>2 DEF Dead, Released
  <2>2. Holding \ Dead(s) = Holding
    BY <2>1
  <2>. QED
    BY <1>1, <2>1, <2>2
<1>3. CASE s \in Live /\ LastOwner(s)
  <2>. DEFINE b == tensors[s].buffer
  <2>1. Dead(s) = {b} /\ Released(a, s) = ArenaDeallocate(a, buffers[b].base) /\ b \in DOMAIN buffers
    BY <1>3 DEF Dead, Released, TensorsInv, BuffersApart
  <2>. HIDE DEF b
  <2>2. /\ buffers[b].size \in Nat
        /\ IF buffers[b].size = 0 THEN buffers[b].base = Null ELSE buffers[b].base \in Nat
    BY <2>1 DEF TensorsInv, TensorsOK
  <2>3. CASE buffers[b].size = 0
    <3>1. ArenaDeallocate(a, buffers[b].base) = a
      BY <2>2, <2>3 DEF ArenaDeallocate
    <3>2. Holding \ Dead(s) = Holding
      BY <2>1, <2>3 DEF Holding
    <3>. QED
      BY <1>1, <2>1, <3>1, <3>2
  <2>4. CASE buffers[b].size # 0
    <3>1. b \in Holding
      BY <2>1, <2>4 DEF Holding
    <3>2. buffers[b].base \in Nat /\ buffers[b].base + buffers[b].size <= allocator.offset
          /\ allocator.offset <= Capacity /\ allocator.offset \in Nat /\ Capacity \in Nat
      BY <2>2, <2>4, <3>1, ArenaAssumption DEF TensorsInv, TensorsOK, BuffersApart
    <3>3. buffers[b].base \in 0 .. Capacity - 1 /\ buffers[b].base # Null
      BY <2>2, <2>4, <3>2 DEF Null
    <3>4. Cardinality(Holding \ {b}) = Cardinality(Holding) - 1 /\ Cardinality(Holding \ {b}) \in Nat
      BY <1>1, <3>1, FS_RemoveElement, FS_CardinalityType
    <3>5. a.active # 0
      BY <1>1, <3>4
    <3>6. ArenaDeallocate(a, buffers[b].base) = [a EXCEPT !.active = @ - 1]
      BY <3>3, <3>5 DEF ArenaDeallocate
    <3>. HIDE DEF ArenaDeallocate
    <3>7. [a EXCEPT !.active = @ - 1] = [offset |-> a.offset, active |-> a.active - 1]
      OBVIOUS
    <3>8. a.active - 1 = Cardinality(Holding \ {b}) + k
      BY <1>1, <3>4
    <3>. QED
      BY <2>1, <3>4, <3>6, <3>7, <3>8
  <2>. QED
    BY <2>3, <2>4
<1>. QED
  BY <1>2, <1>3

------------------------------------------------------------------------------
\* Tensors: the steps

\* Nothing happens to buffers: the tensors that stay, and new ones, view them.
LEMMA SameBuffers ==
  ASSUME TensorsInv, allocator' = allocator, buffers' = buffers,
         Live' \subseteq Slots, \A t \in Live' : IsTensor(tensors'[t]),
         {tensors'[t].buffer : t \in Live'} = {tensors[t].buffer : t \in Live}
  PROVE  TensorsInv'
<1>1. TensorsOK'
  BY DEF TensorsInv, TensorsOK, IsTensor, Live, BufferIds, Null
<1>2. Holding' = Holding
  BY DEF Holding
<1>3. BuffersApart'
  BY <1>2 DEF TensorsInv, BuffersApart
<1>. QED
  BY <1>1, <1>3 DEF TensorsInv

LEMMA RelayoutKeeps ==
  ASSUME TensorsInv, NEW s \in Live, NEW layout, layout.shape \in Seq(Nat), NEW order,
         Relayout(s, layout, order)
  PROVE  TensorsInv'
<1>1. tensors' = [tensors EXCEPT ![s].layout = layout, ![s].depth = @ + 1]
      /\ allocator' = allocator /\ buffers' = buffers
  BY DEF Relayout
<1>2. Live' = Live /\ \A t \in Live \ {s} : tensors'[t] = tensors[t]
  BY <1>1 DEF Live
<1>3. tensors'[s] = [[tensors[s] EXCEPT !.layout = layout] EXCEPT !.depth = @ + 1]
  BY <1>1 DEF Live
<1>4. tensors[s] = [layout |-> tensors[s].layout, buffer |-> tensors[s].buffer,
                    offset |-> tensors[s].offset, size |-> tensors[s].size, depth |-> tensors[s].depth]
  BY DEF TensorsInv, TensorsOK, IsTensor
<1>5. tensors'[s] = [layout |-> layout, buffer |-> tensors[s].buffer, offset |-> tensors[s].offset,
                     size |-> tensors[s].size, depth |-> tensors[s].depth + 1]
  BY <1>3, <1>4, Zenon
<1>6. tensors'[s].buffer = tensors[s].buffer /\ IsTensor(tensors'[s])
  BY <1>5 DEF IsTensor
<1>7. \A t \in Live : tensors'[t].buffer = tensors[t].buffer /\ IsTensor(tensors'[t])
  BY <1>2, <1>6 DEF TensorsInv, TensorsOK
<1>8. {tensors'[t].buffer : t \in Live'} = {tensors[t].buffer : t \in Live}
  BY <1>2, <1>7
<1>9. Live' \subseteq Slots
  BY <1>2 DEF TensorsInv, TensorsOK
<1>. QED
  BY <1>1, <1>2, <1>7, <1>8, <1>9, SameBuffers

LEMMA AliasKeeps ==
  ASSUME TensorsInv, NEW s \in Slots \ Live, NEW t \in Live, NEW layout, layout.shape \in Seq(Nat),
         NEW offset, NEW size, NEW of, Alias(s, t, layout, offset, size, of)
  PROVE  TensorsInv'
<1>. DEFINE r == [layout |-> layout, buffer |-> tensors[t].buffer, offset |-> offset,
                  size |-> size, depth |-> tensors[t].depth + 1]
<1>1. tensors' = With(tensors, s, r) /\ allocator' = allocator /\ buffers' = buffers
  BY DEF Alias
<1>2. IsTensor(r) /\ r.buffer = tensors[t].buffer
  BY DEF IsTensor
<1>. HIDE DEF r
<1>3. Live' = Live \cup {s} /\ tensors'[s] = r /\ \A u \in Live : tensors'[u] = tensors[u]
  BY <1>1 DEF Live, With
<1>4. {tensors'[u].buffer : u \in Live'} = {tensors[u].buffer : u \in Live}
  BY <1>2, <1>3
<1>5. Live' \subseteq Slots /\ \A u \in Live' : IsTensor(tensors'[u])
  BY <1>2, <1>3 DEF TensorsInv, TensorsOK
<1>. QED
  BY <1>1, <1>4, <1>5, SameBuffers

LEMMA DropKeeps ==
  ASSUME TensorsInv, NEW s, Drop(s)
  PROVE  TensorsInv'
<1>1. Live' = Live \ {s} /\ \A t \in Live' : tensors'[t] = tensors[t]
  BY DEF Drop, Without, Live
<1>2. DOMAIN buffers' = DOMAIN buffers \ Dead(s) /\ \A b \in DOMAIN buffers' : buffers'[b] = buffers[b]
  BY DEF Drop, Without
<1>3. Holding' = Holding \ Dead(s)
  BY <1>2 DEF Holding
<1>4. /\ allocator' \in [offset : Nat, active : Nat] /\ allocator'.offset = allocator.offset
      /\ allocator'.active = Cardinality(Holding \ Dead(s))
  <2>1. allocator \in [offset : Nat, active : Nat] /\ allocator.active = allocator.active + 0
    BY DEF TensorsInv, TensorsOK
  <2>2. Cardinality(Holding \ Dead(s)) \in Nat
    BY HoldingFinite, FS_Subset, FS_CardinalityType
  <2>3. /\ Released(allocator, s) \in [offset : Nat, active : Nat]
        /\ Released(allocator, s).offset = allocator.offset
        /\ Released(allocator, s).active = Cardinality(Holding \ Dead(s)) + 0
    BY <2>1, ReleaseCounts
  <2>. QED
    BY <2>2, <2>3 DEF Drop
<1>5. DOMAIN buffers' = {tensors'[t].buffer : t \in Live'}
  BY <1>1, <1>2, DeadBuffers
<1>6. TensorsOK'
  BY <1>1, <1>2, <1>4 DEF TensorsInv, TensorsOK, IsTensor, BufferIds, Null
<1>7. BuffersApart'
  BY <1>2, <1>3, <1>4, <1>5 DEF TensorsInv, BuffersApart, Holding
<1>. QED
  BY <1>6, <1>7 DEF TensorsInv

LEMMA MaterialiseKeeps ==
  ASSUME TensorsInv, NEW s \in Slots, NEW layout, layout.shape \in Seq(Nat), NEW elements, NEW depth,
         Materialise(s, layout, elements, depth)
  PROVE  TensorsInv'
<1>. DEFINE size == Numel(layout.shape)
            b == CHOOSE i \in BufferIds : i \notin DOMAIN buffers
                                          /\ \A j \in BufferIds : j < i => j \in DOMAIN buffers
            r == [layout |-> layout, buffer |-> b, offset |-> 0, size |-> size, depth |-> depth]
<1>1. size \in Nat
  BY ProductType DEF Numel
<1>2. b \in BufferIds /\ b \notin DOMAIN buffers
  BY FreshBuffer
<1>3. PICK a \in ArenaAllocate(size) :
         /\ allocator' = Released(a.arena, s)
         /\ buffers' = With(Without(buffers, Dead(s)), b, [base |-> a.base, size |-> size])
         /\ tensors' = With(tensors, s, r)
  BY Zenon DEF Materialise
<1>4. IsTensor(r) /\ r.buffer = b
  BY DEF IsTensor
<1>. HIDE DEF r, b, size
<1>5. Live' = Live \cup {s} /\ tensors'[s] = r /\ \A t \in Live \ {s} : tensors'[t] = tensors[t]
  BY <1>3 DEF Live, With
<1>6. /\ DOMAIN buffers' = (DOMAIN buffers \ Dead(s)) \cup {b}
      /\ buffers'[b] = [base |-> a.base, size |-> size]
      /\ \A c \in DOMAIN buffers \ Dead(s) : buffers'[c] = buffers[c]
  BY <1>2, <1>3 DEF With, Without
<1>7. /\ buffers'[b].base = a.base /\ buffers'[b].size = size
  BY <1>6
<1>8. DOMAIN buffers' = {tensors'[t].buffer : t \in Live'}
  <2>1. DOMAIN buffers \ Dead(s) = {tensors[t].buffer : t \in Live \ {s}}
    BY DeadBuffers
  <2>2. {tensors[t].buffer : t \in Live \ {s}} = {tensors'[t].buffer : t \in Live \ {s}}
    BY <1>5
  <2>3. {tensors'[t].buffer : t \in Live'} = {tensors'[t].buffer : t \in Live \ {s}} \cup {b}
    BY <1>4, <1>5
  <2>. QED
    BY <1>6, <2>1, <2>2, <2>3
<1>9. /\ allocator \in [offset : Nat, active : Nat] /\ allocator.offset <= Capacity
      /\ size = 0 => a.base = Null /\ a.arena = allocator
      /\ size # 0 => /\ a.base \in Nat /\ a.base % ArenaAlignment = 0
                     /\ allocator.offset <= a.base /\ a.base + size <= Capacity
                     /\ a.arena = [offset |-> a.base + size, active |-> allocator.active + 1]
  BY <1>1, ArenaGives DEF TensorsInv, TensorsOK, BuffersApart
<1>10. TensorsOK' \/ allocator' \notin [offset : Nat, active : Nat]
  <2>1. Live' \subseteq Slots /\ \A t \in Live' : IsTensor(tensors'[t])
    BY <1>4, <1>5 DEF TensorsInv, TensorsOK
  <2>2. DOMAIN buffers' \subseteq BufferIds
    BY <1>2, <1>6 DEF TensorsInv, TensorsOK
  <2>3. ASSUME NEW c \in DOMAIN buffers'
        PROVE  /\ buffers'[c].size \in Nat
               /\ IF buffers'[c].size = 0 THEN buffers'[c].base = Null ELSE buffers'[c].base \in Nat
    BY <1>1, <1>6, <1>7, <1>9 DEF TensorsInv, TensorsOK
  <2>. QED
    BY <2>1, <2>2, <2>3 DEF TensorsOK, IsTensor, BufferIds, Null
<1>11. IsFiniteSet(Holding \ Dead(s)) /\ Cardinality(Holding \ Dead(s)) \in Nat /\ b \notin Holding
  BY <1>2, HoldingFinite, FS_Subset, FS_CardinalityType DEF Holding
<1>12. CASE size = 0
  <2>1. Holding' = Holding \ Dead(s)
    BY <1>6, <1>7, <1>12 DEF Holding
  <2>2. a.arena = allocator /\ allocator.active = allocator.active + 0
    BY <1>9, <1>12
  <2>3. /\ allocator' \in [offset : Nat, active : Nat] /\ allocator'.offset = allocator.offset
        /\ allocator'.active = Cardinality(Holding \ Dead(s)) + 0
    <3>1. /\ Released(allocator, s) \in [offset : Nat, active : Nat]
          /\ Released(allocator, s).offset = allocator.offset
          /\ Released(allocator, s).active = Cardinality(Holding \ Dead(s)) + 0
      <4>1. allocator \in [offset : Nat, active : Nat] /\ allocator.active = allocator.active + 0
        BY <1>9, <2>2
      <4>. QED
        BY <4>1, ReleaseCounts
    <3>2. allocator' = Released(allocator, s)
      BY <1>3, <2>2, Zenon
    <3>. QED
      BY <3>1, <3>2
  <2>4. \A c \in Holding' : c \in Holding /\ buffers'[c] = buffers[c]
    BY <1>6, <2>1 DEF Holding
  <2>5. allocator'.active = Cardinality(Holding') /\ allocator'.offset <= Capacity
    BY <1>9, <1>11, <2>1, <2>3
  <2>6. BuffersApart'
    BY <1>8, <2>3, <2>4, <2>5 DEF TensorsInv, BuffersApart
  <2>. QED
    BY <1>10, <2>3, <2>6 DEF TensorsInv
<1>13. CASE size # 0
  <2>1. Holding' = (Holding \ Dead(s)) \cup {b}
    BY <1>6, <1>7, <1>13 DEF Holding
  <2>2. /\ a.arena \in [offset : Nat, active : Nat] /\ a.arena.active = allocator.active + 1
        /\ a.arena.offset = a.base + size
    BY <1>1, <1>9, <1>13
  <2>3. /\ allocator' \in [offset : Nat, active : Nat] /\ allocator'.offset = a.base + size
        /\ allocator'.active = Cardinality(Holding \ Dead(s)) + 1
    BY <1>3, <2>2, ReleaseCounts
  <2>4. Cardinality(Holding') = Cardinality(Holding \ Dead(s)) + 1
    BY <1>11, <2>1, FS_AddElement
  <2>5. \A c \in Holding' \ {b} : c \in Holding /\ buffers'[c] = buffers[c]
    BY <1>6, <2>1 DEF Holding
  <2>6. \A c \in Holding : /\ buffers[c].base \in Nat /\ buffers[c].size \in Nat
                           /\ buffers[c].base + buffers[c].size <= allocator.offset
                           /\ buffers[c].base % ArenaAlignment = 0
    BY DEF TensorsInv, TensorsOK, BuffersApart, Holding
  <2>7. ASSUME NEW c \in Holding'
        PROVE  /\ buffers'[c].base % ArenaAlignment = 0
               /\ buffers'[c].base + buffers'[c].size <= allocator'.offset
               /\ c # b => buffers'[c].base + buffers'[c].size <= buffers'[b].base
    <3>1. CASE c = b
      BY <1>1, <1>7, <1>9, <1>13, <2>3, <3>1
    <3>2. CASE c # b
      <4>1. c \in Holding /\ buffers'[c] = buffers[c]
        BY <2>5, <3>2
      <4>2. buffers[c].base + buffers[c].size <= a.base /\ a.base <= a.base + size
        BY <1>1, <1>9, <1>13, <2>6, <4>1
      <4>. QED
        BY <1>1, <1>7, <1>9, <1>13, <2>3, <2>6, <4>1, <4>2
    <3>. QED
      BY <3>1, <3>2
  <2>8. ASSUME NEW c \in Holding', NEW d \in Holding' \ {c}
        PROVE  \/ buffers'[c].base + buffers'[c].size <= buffers'[d].base
               \/ buffers'[d].base + buffers'[d].size <= buffers'[c].base
    <3>1. CASE c = b \/ d = b
      BY <2>7, <3>1
    <3>2. CASE c # b /\ d # b
      BY <2>5, <3>2 DEF TensorsInv, BuffersApart
    <3>. QED
      BY <3>1, <3>2
  <2>9. allocator'.active = Cardinality(Holding') /\ allocator'.offset <= Capacity
    BY <1>9, <1>13, <2>3, <2>4
  <2>10. BuffersApart'
    BY <1>8, <2>7, <2>8, <2>9 DEF BuffersApart
  <2>. QED
    BY <1>10, <2>3, <2>10 DEF TensorsInv
<1>. QED
  BY <1>12, <1>13

LEMMA TensorsInvHolds == TensorsSpec => []TensorsInv
<1>1. TensorsInit => TensorsInv
  <2>. SUFFICES ASSUME TensorsInit PROVE TensorsInv
    OBVIOUS
  <2>1. Live = {} /\ DOMAIN buffers = {} /\ Holding = {}
    BY DEF TensorsInit, Live, Holding
  <2>2. Cardinality({}) = 0 /\ Capacity \in Nat
    BY FS_EmptySet, ArenaAssumption
  <2>. QED
    BY <2>1, <2>2 DEF TensorsInit, TensorsInv, TensorsOK, BuffersApart
<1>2. TensorsInv /\ [TensorsNext]_tensorsVars => TensorsInv'
  <2>. SUFFICES ASSUME TensorsInv, [TensorsNext]_tensorsVars PROVE TensorsInv'
    OBVIOUS
  <2>0. \A t \in Live : t \in Slots /\ tensors[t].layout.shape \in Seq(Nat)
    BY DEF TensorsInv, TensorsOK, IsTensor
  <2>1. CASE ArenaReset
    <3>1. /\ allocator' = [allocator EXCEPT !.offset = 0] /\ allocator.active = 0
          /\ UNCHANGED <<buffers, tensors>>
      BY <2>1 DEF ArenaReset
    <3>2. /\ allocator'.offset = 0 /\ allocator'.active = allocator.active
          /\ allocator' \in [offset : Nat, active : Nat]
      BY <3>1 DEF TensorsInv, TensorsOK
    <3>3. Live' = Live /\ Holding' = Holding
      BY <3>1 DEF Live, Holding
    <3>4. Holding = {}
      BY <3>1, HoldingFinite, FS_EmptySet DEF TensorsInv, BuffersApart
    <3>5. Capacity \in Nat
      BY ArenaAssumption
    <3>6. TensorsOK'
      BY <3>1, <3>2, <3>3 DEF TensorsInv, TensorsOK, IsTensor, BufferIds, Null
    <3>7. BuffersApart'
      <4>1. allocator'.active = Cardinality(Holding')
        BY <3>2, <3>3 DEF TensorsInv, BuffersApart
      <4>2. DOMAIN buffers' = {tensors'[t].buffer : t \in Live'}
        BY <3>1, <3>3 DEF TensorsInv, BuffersApart
      <4>3. allocator'.offset <= Capacity /\ Holding' = {}
        BY <3>2, <3>3, <3>4, <3>5
      <4>. QED
        BY <4>1, <4>2, <4>3, Zenon DEF BuffersApart
    <3>. QED
      BY <3>6, <3>7 DEF TensorsInv
  <2>2. ASSUME NEW s \in Slots, NEW shape \in Shapes, Construct(s, shape) PROVE TensorsInv'
    <3>1. shape \in Seq(Int)
      BY ArenaAssumption
    <3>2. PICK layout \in LayoutOf(shape) :
             Materialise(s, layout, [k \in 0 .. Numel(shape) - 1 |-> k - 2], 0)
      BY <2>2 DEF Construct
    <3>3. layout.shape \in Seq(Nat)
      BY <3>1, LayoutOfShape
    <3>. QED
      BY <3>2, <3>3, MaterialiseKeeps
  <2>3. ASSUME NEW s \in Slots, NEW shape \in ViewShapes, Reshape(s, shape) PROVE TensorsInv'
    <3>1. shape \in Seq(Int) /\ s \in Live
      BY <2>3, ArenaAssumption DEF Reshape
    <3>2. PICK layout \in Reshaped(tensors[s].layout, shape) : Relayout(s, layout, cells[s])
      BY <2>3 DEF Reshape
    <3>3. layout.shape \in Seq(Nat)
      BY <2>0, <3>1, ReshapedShape
    <3>. QED
      BY <3>1, <3>2, <3>3, RelayoutKeeps
  <2>4. ASSUME NEW s \in Slots, NEW p \in Pairs, Transpose(s, p[1], p[2]) PROVE TensorsInv'
    <3>. DEFINE old == tensors[s].layout
    <3>1. s \in Live /\ old.shape \in Seq(Nat)
      BY <2>0, <2>4 DEF Transpose
    <3>2. PICK layout \in Transposed(old, p[1], p[2]) : \E order : Relayout(s, layout, order)
      BY <2>4 DEF Transpose
    <3>3. /\ p[1] \in DOMAIN old.shape /\ p[2] \in DOMAIN old.shape
          /\ layout \in StridedLayout(Swapped(old.shape, p[1], p[2]), Swapped(old.strides, p[1], p[2]))
      BY <3>2 DEF Transposed
    <3>4. layout.shape = Swapped(old.shape, p[1], p[2])
      BY <3>3 DEF StridedLayout, Only
    <3>5. layout.shape \in Seq(Nat)
      <4>. HIDE DEF old
      <4>. QED
        BY <3>1, <3>3, <3>4 DEF Swapped
    <3>. QED
      BY <3>1, <3>2, <3>5, RelayoutKeeps
  <2>5. ASSUME NEW s \in Slots, Contiguous(s) PROVE TensorsInv'
    <3>1. tensors[s].layout.shape \in Seq(Int)
      <4>1. s \in Live
        BY <2>5 DEF Contiguous
      <4>. QED
        BY <2>0, <4>1
    <3>2. PICK layout \in LayoutOf(tensors[s].layout.shape) :
             \E elements, depth : Materialise(s, layout, elements, depth)
      BY <2>5 DEF Contiguous
    <3>3. layout.shape \in Seq(Nat)
      BY <3>1, LayoutOfShape
    <3>. QED
      BY <3>2, <3>3, MaterialiseKeeps
  <2>6. ASSUME NEW s \in Slots, Drop(s) PROVE TensorsInv'
    BY <2>6, DropKeeps
  <2>7. ASSUME NEW s \in Slots, NEW t \in Slots, CopyTensor(s, t) PROVE TensorsInv'
    <3>1. tensors[t].layout.shape \in Seq(Int)
      <4>1. t \in Live
        BY <2>7 DEF CopyTensor
      <4>. QED
        BY <2>0, <4>1
    <3>2. PICK layout \in LayoutOf(tensors[t].layout.shape) :
             \E elements, depth : Materialise(s, layout, elements, depth)
      BY <2>7 DEF CopyTensor
    <3>3. layout.shape \in Seq(Nat)
      BY <3>1, LayoutOfShape
    <3>. QED
      BY <3>2, <3>3, MaterialiseKeeps
  <2>8. ASSUME NEW s \in Slots, NEW t \in Slots, NEW shape \in ViewShapes, View(s, t, shape)
        PROVE  TensorsInv'
    <3>1. shape \in Seq(Int) /\ s \in Slots \ Live /\ t \in Live
      BY <2>8, ArenaAssumption DEF View
    <3>2. PICK layout \in Reshaped(tensors[t].layout, shape) :
             \E offset, size, of : Alias(s, t, layout, offset, size, of)
      BY <2>8 DEF View
    <3>3. layout.shape \in Seq(Nat)
      BY <2>0, <3>1, ReshapedShape
    <3>. QED
      BY <3>1, <3>2, <3>3, AliasKeeps
  <2>9. ASSUME NEW s \in Slots, NEW t \in Slots, NEW shape \in ViewShapes, FromStorage(s, t, shape)
        PROVE  TensorsInv'
    <3>1. shape \in Seq(Int) /\ s \in Slots \ Live /\ t \in Live
      BY <2>9, ArenaAssumption DEF FromStorage
    <3>2. PICK layout \in LayoutOf(shape) : \E offset, size, of : Alias(s, t, layout, offset, size, of)
      BY <2>9 DEF FromStorage
    <3>3. layout.shape \in Seq(Nat)
      BY <3>1, LayoutOfShape
    <3>. QED
      BY <3>1, <3>2, <3>3, AliasKeeps
  <2>10. ASSUME NEW s \in Slots \ Live, NEW t \in Live, NEW d \in DOMAIN tensors[t].layout.shape,
                NEW start, NEW length \in Nat, NEW stride, Strided(s, t, d, start, length, stride)
         PROVE  TensorsInv'
    <3>. DEFINE old == tensors[t].layout
                shape == [old.shape EXCEPT ![d] = length]
    <3>1. PICK layout \in StridedLayout(shape, [old.strides EXCEPT ![d] = @ * stride]) :
             \E offset, size, of : Alias(s, t, layout, offset, size, of)
      BY <2>10, Zenon DEF Strided
    <3>2. layout.shape = shape
      BY <3>1 DEF StridedLayout, Only
    <3>3. shape \in Seq(Nat)
      BY <2>0
    <3>. QED
      BY <3>1, <3>2, <3>3, AliasKeeps
  <2>11. ASSUME NEW s \in Slots, NEW t \in Slots, NEW a \in Narrows, Narrow(s, t, a) PROVE TensorsInv'
    <3>1. a[3] \in Nat
      BY ArenaAssumption
    <3>2. /\ s \in Slots \ Live /\ t \in Live /\ a[1] \in DOMAIN tensors[t].layout.shape
          /\ Strided(s, t, a[1], a[2], a[3], 1)
      BY <2>11 DEF Narrow
    <3>. QED
      BY <2>10, <3>1, <3>2
  <2>12. ASSUME NEW s \in Slots, NEW t \in Slots, NEW a \in Slices, Slice(s, t, a) PROVE TensorsInv'
    <3>. DEFINE length == (a[3] - a[2] + a[4] - 1) \div a[4]
    <3>1. a[2] \in Nat /\ a[3] \in Nat /\ a[4] \in Nat /\ a[4] > 0
      BY ArenaAssumption
    <3>2. /\ s \in Slots \ Live /\ t \in Live /\ a[1] \in DOMAIN tensors[t].layout.shape
          /\ a[2] <= a[3] /\ Strided(s, t, a[1], a[2], length, a[4])
      BY <2>12 DEF Slice
    <3>3. length \in Nat
      <4>1. a[3] - a[2] + a[4] - 1 \in Nat
        BY <3>1, <3>2
      <4>2. \A n \in Nat, k \in Nat \ {0} : n \div k \in Nat
        OBVIOUS
      <4>. QED
        BY <3>1, <4>1, <4>2
    <3>. HIDE DEF length
    <3>. QED
      BY <2>10, <3>2, <3>3
  <2>13. CASE UNCHANGED tensorsVars
    <3>1. allocator' = allocator /\ buffers' = buffers /\ tensors' = tensors /\ Live' = Live
      BY <2>13 DEF tensorsVars, Live
    <3>2. Live' \subseteq Slots /\ \A t \in Live' : IsTensor(tensors'[t])
      BY <3>1 DEF TensorsInv, TensorsOK
    <3>. QED
      BY <3>1, <3>2, SameBuffers
  <2>. QED
    BY <2>1, <2>2, <2>3, <2>4, <2>5, <2>6, <2>7, <2>8, <2>9, <2>11, <2>12, <2>13, Zenon DEF TensorsNext
<1>. QED
  BY <1>1, <1>2, PTL DEF TensorsSpec

\* For every arena, alignment, number of slots and shapes: buffers stay apart.
THEOREM BuffersAlwaysApart == TensorsSpec => []BuffersApart
<1>1. TensorsInv => BuffersApart
  BY DEF TensorsInv
<1>. QED
  BY <1>1, TensorsInvHolds, PTL
================================================================================
