------------------------------ MODULE MemoryPlan ------------------------------
(***************************************************************************)
(* The memory plan of a static graph (src/runtime/memory_plan.cpp).        *)
(*                                                                         *)
(* The plan gives every intermediate value a slot of one buffer; two       *)
(* values may share a slot when their lifetimes do not meet.  The schema   *)
(* of every operator has one output, so the value a node produces is named *)
(* by the node's position in the topological order.  Graph inputs and      *)
(* constants have storage of their own, and size_t overflow, which the     *)
(* code answers with an exception, is out of reach of the sizes here.      *)
(***************************************************************************)
EXTENDS Integers, Sequences, FiniteSets, FiniteSetsExt

CONSTANTS
    Nodes,          \* number of nodes
    Sizes,          \* bound: the sizes in bytes a value may have
    Alignment       \* kDefaultBufferAlignment

ASSUME PlanAssumption ==
    /\ Nodes \in Nat \ {0}
    /\ Sizes \subseteq Nat
    /\ Alignment \in Nat \ {0}

Step == 0 .. Nodes - 1
Value == Step       \* the value each step produces

VARIABLES
    reads,          \* step -> the intermediate values its node reads
    outputs,        \* the intermediate values that are graph outputs
    bytes,          \* value -> its size
    capacity,       \* slot_capacities_
    busy_until,     \* available_after: slot -> last step of its last value
    slot,           \* value_slots: the values planned so far -> their slots
    planned         \* the next value to plan

graph == <<reads, outputs, bytes>>
plan == <<capacity, busy_until, slot, planned>>

------------------------------------------------------------------------------
\* Lifetimes

\* Mutant: a value lives until its last reader, graph output or not.
LastRead(v) == Max({v} \cup {s \in Step : v \in reads[s]})

\* A graph output lives on after the last step.
LastStep(v) ==
    IF v \in outputs THEN Nodes ELSE Max({v} \cup {s \in Step : v \in reads[s]})

\* values_released_after_step
ReleasedAfter(s) == {v \in Value : LastStep(v) = s}

------------------------------------------------------------------------------
\* The constructor of MemoryPlan: values in the order of their first step

\* Mutant: a slot is reused in the step that reads its value for the last time.
ReusableWhileRead(v) == {k \in 1 .. Len(capacity) : busy_until[k] <= v}

\* The slots whose last value is dead before v is produced.
Reusable(v) == {k \in 1 .. Len(capacity) : busy_until[k] < v}

Growth(k, v) == IF bytes[v] > capacity[k] THEN bytes[v] - capacity[k] ELSE 0

\* The reusable slot that grows least, the first of them when they tie.
BestSlots(v) ==
    {k \in Reusable(v) : \A j \in Reusable(v) :
        Growth(k, v) < Growth(j, v) \/ (Growth(k, v) = Growth(j, v) /\ k <= j)}

\* value_slots with v in slot k.
Placed(v, k) == [x \in DOMAIN slot \cup {v} |-> IF x = v THEN k ELSE slot[x]]

PlanValue ==
    /\ planned < Nodes
    /\ \/ /\ BestSlots(planned) = {}
          /\ capacity' = Append(capacity, bytes[planned])
          /\ busy_until' = Append(busy_until, LastStep(planned))
          /\ slot' = Placed(planned, Len(capacity) + 1)
       \/ \E k \in BestSlots(planned) :
          /\ capacity' = [capacity EXCEPT ![k] = Max({@, bytes[planned]})]
          /\ busy_until' = [busy_until EXCEPT ![k] = LastStep(planned)]
          /\ slot' = Placed(planned, k)
    /\ planned' = planned + 1
    /\ UNCHANGED graph

Complete == planned = Nodes

\* Mutant: align_up without the addition.
AlignDown(n) == (n \div Alignment) * Alignment

\* For an alignment that is a power of two, as kDefaultBufferAlignment is.
AlignUp(n) == ((n + Alignment - 1) \div Alignment) * Alignment

\* The end of the first k slots.
End[k \in 0 .. Len(capacity)] == IF k = 0 THEN 0 ELSE AlignUp(End[k - 1]) + capacity[k]

\* slot_offsets
Offsets == [k \in 1 .. Len(capacity) |-> AlignUp(End[k - 1])]

\* The bytes of the buffer a value occupies.
Region(v) == Offsets[slot[v]] .. Offsets[slot[v]] + bytes[v] - 1

\* What is behind the last slot: the size of the buffer.
BufferSize == End[Len(capacity)]

------------------------------------------------------------------------------

\* Any graph in topological order.  A graph has at least one output, but inputs
\* and constants, which have no part in the plan, can be the only ones.
PlanInit ==
    /\ reads \in [Step -> SUBSET Value] /\ \A s \in Step : \A v \in reads[s] : v < s
    /\ outputs \in SUBSET Value
    /\ bytes \in [Value -> Sizes]
    /\ capacity = <<>> /\ busy_until = <<>> /\ slot = <<>>
    /\ planned = 0

------------------------------------------------------------------------------
\* Properties

\* Every value planned so far has one of the slots there are.
PlanOK ==
    /\ reads \in [Step -> SUBSET Value] /\ outputs \subseteq Value
    /\ bytes \in [Value -> Nat]
    /\ capacity \in Seq(Nat) /\ busy_until \in Seq(Nat)
    /\ Len(capacity) = Len(busy_until)
    /\ planned \in 0 .. Nodes
    /\ slot \in [0 .. planned - 1 -> 1 .. Len(capacity)]

\* memory_plan.cpp: two values that are alive at the same step never share a
\* slot, and a slot is large enough for each of its values, however often it was
\* handed on and whatever it grew to on the way.
SlotsSeparateLifetimes ==
    \A v, w \in DOMAIN slot :
        /\ bytes[v] <= capacity[slot[v]]
        /\ v < w /\ slot[v] = slot[w] => LastStep(v) < w

==============================================================================
