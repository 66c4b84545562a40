----------------------------- MODULE CudaExecution -----------------------------
(***************************************************************************)
(* The run of a prepared CUDA context                                      *)
(* (src/backend/cuda/execution_plan.cpp, CudaExecutionContext::run): the   *)
(* host submits one kernel per node into the arena the memory plan laid    *)
(* out, and waits, before a slot is handed on, for the kernels that used   *)
(* its last value; the stream executes behind it, in order.                *)
(*                                                                         *)
(* What the runtime does with one operation is CudaRuntime's: here a       *)
(* kernel is submitted or refused, and executed or not.  Inputs and        *)
(* constants have device buffers of their own and are left out.            *)
(***************************************************************************)
EXTENDS MemoryPlan

VARIABLES
    in_run,         \* inside run
    has_output,     \* the last run was successful
    occupants,      \* slot -> the last value a kernel was submitted for
    submitted,      \* pending.size(): kernels submitted in this run
    waited,         \* kernels whose completion was waited for
    executed,       \* kernels the stream has executed
    failed,         \* the queue has failed, for good
    arena           \* byte -> the value the device has in it

progress == <<occupants, submitted, waited>>
cuda_vars == <<graph, plan, in_run, has_output, progress, executed, failed, arena>>

Nobody == -1        \* kInvalidValueId
Garbage == -1       \* left by an earlier run, or made of it

------------------------------------------------------------------------------
\* The host

BeginCudaRun ==
    /\ Complete /\ ~in_run
    /\ in_run' = TRUE /\ has_output' = FALSE
    /\ occupants' = [k \in 1 .. Len(capacity) |-> Nobody]
    /\ submitted' = 0 /\ waited' = 0 /\ executed' = 0
    /\ arena' = [b \in 0 .. BufferSize - 1 |-> Garbage]
    /\ UNCHANGED <<graph, plan, failed>>

Previous == occupants[slot[submitted]]

\* Mutant: the last reader itself is not waited for.
UpToLastReader == IF Previous = Nobody THEN 0 ELSE LastStep(Previous)

\* The kernels that must have completed before the next one is submitted.
ReuseEnd == IF Previous = Nobody THEN 0 ELSE LastStep(Previous) + 1

Submit ==
    /\ in_run /\ submitted < Nodes /\ ~failed
    /\ ReuseEnd <= executed
    /\ waited' = Max({waited, ReuseEnd})
    /\ occupants' = [occupants EXCEPT ![slot[submitted]] = submitted]
    /\ submitted' = submitted + 1
    /\ UNCHANGED <<graph, plan, in_run, has_output, executed, failed, arena>>

\* The runtime refuses a kernel, or a completion reports an error.  The completions
\* die with the run, when the stream is through with their kernels.
Throw ==
    /\ in_run
    /\ \/ submitted < Nodes /\ executed = submitted /\ failed' = TRUE
       \/ failed /\ UNCHANGED failed
    /\ in_run' = FALSE
    /\ UNCHANGED <<graph, plan, has_output, progress, executed, arena>>

EndCudaRun ==
    /\ in_run /\ submitted = Nodes /\ executed = submitted /\ ~failed
    /\ waited' = submitted
    /\ in_run' = FALSE /\ has_output' = TRUE
    /\ UNCHANGED <<graph, plan, occupants, submitted, executed, failed, arena>>

------------------------------------------------------------------------------
\* The stream

Intact(v) == \A b \in Region(v) : arena[b] = v

\* A kernel computes its value if all it reads is there.
Execute ==
    /\ executed < submitted /\ ~failed
    /\ LET result == IF \A v \in reads[executed] : Intact(v) THEN executed ELSE Garbage
       IN  arena' = [b \in DOMAIN arena |->
                        IF b \in Region(executed) THEN result ELSE arena[b]]
    /\ executed' = executed + 1
    /\ UNCHANGED <<graph, plan, in_run, has_output, progress, failed>>

\* A kernel faults, and nothing is executed any more.
Fault ==
    /\ executed < submitted /\ ~failed
    /\ failed' = TRUE
    /\ UNCHANGED <<graph, plan, in_run, has_output, progress, executed, arena>>

------------------------------------------------------------------------------

CudaInit ==
    /\ PlanInit
    /\ in_run = FALSE /\ has_output = FALSE
    /\ occupants = <<>> /\ submitted = 0 /\ waited = 0 /\ executed = 0
    /\ failed = FALSE /\ arena = <<>>

Plan ==
    /\ PlanValue
    /\ UNCHANGED <<in_run, has_output, progress, executed, failed, arena>>

CudaNext == Plan \/ BeginCudaRun \/ Submit \/ Throw \/ EndCudaRun \/ Execute \/ Fault

CudaSpec == CudaInit /\ [][CudaNext]_cuda_vars

------------------------------------------------------------------------------
\* Properties

\* The plan and the counters of the run are well formed.
CudaTypeOK ==
    /\ PlanOK
    /\ in_run \in BOOLEAN /\ has_output \in BOOLEAN /\ failed \in BOOLEAN
    /\ in_run => Complete
    /\ \A k \in DOMAIN occupants : occupants[k] \in {Nobody} \cup (0 .. submitted - 1)
    /\ submitted \in 0 .. Nodes /\ waited \in 0 .. submitted /\ executed \in 0 .. submitted

\* "completion-safe slot reuse" (src/backend/cuda/README.md:44): while a kernel is
\* in flight, every kernel that wrote or read an earlier value of its bytes was seen
\* to complete; and run only ever waits for kernels it has submitted.
ReuseIsSafe ==
    /\ CudaTypeOK
    /\ in_run =>
        \A k \in executed .. submitted - 1 : \A v \in 0 .. k - 1 :
            Region(v) \cap Region(k) # {} =>
                \A s \in Step : s = v \/ v \in reads[s] => s < waited
    /\ in_run /\ submitted < Nodes => ReuseEnd <= submitted

\* CudaExecutionContext::output: after a successful run the arena holds every graph
\* output, computed from values nobody had overwritten.
DeviceOutputsIntact == has_output => \A v \in outputs : Intact(v)
==============================================================================
