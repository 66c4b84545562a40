-------------------------------- MODULE Executor -------------------------------
(***************************************************************************)
(* The run of a graph on the CPU in a buffer laid out by its memory plan   *)
(* (src/runtime/executor.cpp, execution_context.cpp).                      *)
(***************************************************************************)
EXTENDS MemoryPlan

VARIABLES
    running,        \* inside Executor::run
    step,           \* the next step to execute
    values,         \* values_: the intermediate values that are materialized
    buffer          \* planned_buffer_: byte -> the value it holds a part of

vars == <<graph, plan, running, step, values, buffer>>

Nothing == -1       \* the content of a byte no value of this run was written to

------------------------------------------------------------------------------
\* Executor::run with a planned context

\* Inputs are bound, the intermediates of an earlier run are cleared.
BeginRun ==
    /\ Complete /\ ~running
    /\ running' = TRUE
    /\ step' = 0
    /\ values' = {}
    /\ buffer' = [b \in 0 .. BufferSize - 1 |-> Nothing]
    /\ UNCHANGED <<graph, plan>>

\* One node: prepare_output, the operator, release_after_step.
ExecuteNode ==
    /\ running /\ step < Nodes
    /\ buffer' = [b \in DOMAIN buffer |-> IF b \in Region(step) THEN step ELSE buffer[b]]
    /\ values' = (values \cup {step}) \ ReleasedAfter(step)
    /\ step' = step + 1
    /\ UNCHANGED <<graph, plan, running>>

\* The backend does not support the operator, or throws before or after it took
\* the output: what was materialized stays until the next run.
NodeFails ==
    /\ running /\ step < Nodes
    /\ \/ UNCHANGED <<buffer, values>>
       \/ /\ buffer' = [b \in DOMAIN buffer |->
                            IF b \in Region(step) THEN Nothing ELSE buffer[b]]
          /\ values' = values \cup {step}
    /\ running' = FALSE
    /\ UNCHANGED <<graph, plan, step>>

EndRun ==
    /\ running /\ step = Nodes
    /\ running' = FALSE
    /\ UNCHANGED <<graph, plan, step, values, buffer>>

------------------------------------------------------------------------------

Init == PlanInit /\ running = FALSE /\ step = 0 /\ values = {} /\ buffer = <<>>

Next ==
    \/ PlanValue /\ UNCHANGED <<running, step, values, buffer>>
    \/ BeginRun \/ ExecuteNode \/ NodeFails \/ EndRun

Spec == Init /\ [][Next]_vars

------------------------------------------------------------------------------
\* Properties

\* The plan is well formed, and complete before the first run.
TypeOK ==
    /\ PlanOK
    /\ running \in BOOLEAN /\ running => Complete
    /\ step \in 0 .. Nodes /\ values \subseteq Value
    /\ \A b \in DOMAIN buffer : buffer[b] \in Value \cup {Nothing}

\* executor.cpp, release_after_step: when a node runs, every value it reads is
\* materialized and intact in the buffer, and the node does not write into any of
\* them.
OperandsIntact ==
    running /\ step < Nodes =>
        \A v \in reads[step] :
            /\ v \in values
            /\ \A b \in Region(v) : buffer[b] = v
            /\ Region(v) \cap Region(step) = {}

\* ExecutionContext::output: after a run every graph output can be read, untouched
\* by later nodes.
OutputsIntact ==
    running /\ step = Nodes =>
        \A v \in outputs : v \in values /\ \A b \in Region(v) : buffer[b] = v
==============================================================================
