------------------------------ MODULE CudaRuntime ------------------------------
(***************************************************************************)
(* The CUDA device runtime (src/backend/cuda/cuda_runtime.cpp) with its    *)
(* completions (src/runtime/device/device_runtime.cpp), one client that    *)
(* calls it and the stream that runs behind them.                          *)
(*                                                                         *)
(* Calls return at once; the stream executes what they enqueued, in order. *)
(* A transfer goes through a pinned stage, leased until the operation is   *)
(* terminal: a download reaches its host buffer only when somebody looks   *)
(* at its completion.                                                      *)
(*                                                                         *)
(* A buffer holds one value, and a kernel is represented by a copy.  Every *)
(* download has a host buffer of its own, and what a call refuses before   *)
(* it touches the queue (sizes, foreign buffers, zero bytes), the scratch  *)
(* buffer of overlapping copies and the statistics are left out.  A device *)
(* that cannot even be selected (DeviceGuard) is not distinguished from    *)
(* one whose calls fail.                                                   *)
(***************************************************************************)
EXTENDS Naturals, SequencesExt, FiniteSets

CONSTANTS
    Buffers,        \* device allocations
    Size(_),        \* their sizes in bytes
    MaxOps,         \* bound: operations the client submits
    Host            \* the place a transfer starts from or ends at

ASSUME RuntimeAssumption ==
    /\ \A b \in Buffers : Size(b) \in Nat
    /\ MaxOps \in Nat
    /\ Host \notin Buffers

VARIABLES
    ops,            \* the operations created so far: operation, then its fate
    pending,        \* state->pending: operations the runtime still looks after
    held,           \* operations whose Completion the client has and has not waited for
    submitting,     \* the operation whose enqueueing failed, until submit throws
    failure,        \* queue->failure: the queue reports an error for good
    stages,         \* the cached stages, each named by the operation it was made for
    leased,         \* stages with a lease
    staging,        \* stage -> its content
    owned,          \* buffers the client has a reference to
    open,           \* the runtime object is alive
    stream,         \* operations enqueued and not executed
    dead,           \* the device has faulted
    content,        \* buffer -> what the device finds in it
    host,           \* download -> what its host buffer received
    issued          \* history: buffer -> its content if every call were executed at once

runtime == <<pending, failure, stages, leased>>
client == <<held, owned, open>>
device == <<stream, dead, content>>
runtimeVars == <<ops, runtime, client, submitting, device, staging, host, issued>>

Op == 1 .. MaxOps
None == 0           \* no operation, no stage
Junk == 0           \* what nobody has written; an upload writes its own number
Payload == 0 .. MaxOps
Untouched == MaxOps + 1

Operation == [kind : {"upload", "copy", "download"},
              from : Buffers \cup {Host}, to : Buffers \cup {Host},
              stage : 0 .. MaxOps,
              expected : Payload,   \* history: what a download has to deliver
              status : {"pending", "done", "failed"}]

Bytes(from, to) == IF to = Host THEN Size(from) ELSE Size(to)

\* The device buffers the Completion of i retains.
Retained(i) == {ops[i].from, ops[i].to} \ {Host}

\* While submit throws, the Completion is its own.
Alive == owned \cup UNION {Retained(i) : i \in held \cup ({submitting} \ {None})}

------------------------------------------------------------------------------
\* CudaOperation

Unfinished(i) == ops[i].status = "pending"

\* Mutant: the event is not asked.
SubmittedAtAll(i) == TRUE

\* cudaEventQuery or cudaEventSynchronize answers, if only with an error.
Passed(i) == dead \/ ~Contains(stream, i)

\* wait or ready of the operations in S, which have been passed: a download is
\* published, the lease goes with the callback, an error stays.
Settled(S) ==
    [i \in DOMAIN ops |->
        IF i \in S /\ Unfinished(i)
        THEN [ops[i] EXCEPT !.status = IF dead THEN "failed" ELSE "done"] ELSE ops[i]]

Published(S) ==
    [i \in DOMAIN host |->
        IF i \in S /\ Unfinished(i) /\ ~dead /\ ops[i].kind = "download"
        THEN staging[ops[i].stage] ELSE host[i]]

Unleased(S) == leased \ {ops[i].stage : i \in {j \in S : Unfinished(j)}}

Fails(S) == failure \/ \E i \in S : ops[i].status = "failed" \/ (Unfinished(i) /\ dead)

Settle(S) ==
    /\ ops' = Settled(S) /\ host' = Published(S)
    /\ leased' = Unleased(S) /\ failure' = Fails(S)

\* drain(FALSE) settles what is ready.
Drained == {i \in pending : Unfinished(i) => Passed(i)}

------------------------------------------------------------------------------
\* CudaRuntimeState::lease

\* Mutant: a stage is taken whether or not it is leased.
AnyStage(busy) == DOMAIN stages

FreeStages(busy) == {k \in DOMAIN stages : stages[k] \notin busy}

StageBytes(s) == Bytes(ops[s].from, ops[s].to)

Suitable(busy, bytes) == {k \in FreeStages(busy) : StageBytes(stages[k]) >= bytes}

First(S) == CHOOSE k \in S : \A j \in S : k <= j

\* The stage an operation i gets.
StageFor(busy, bytes, i) ==
    IF Suitable(busy, bytes) = {} THEN i ELSE stages[First(Suitable(busy, bytes))]

CacheHasRoom == Len(stages) < 2

\* A new stage replaces the first free one or joins the cache.
CachedStages(busy, bytes, i) ==
    IF Suitable(busy, bytes) # {} THEN stages
    ELSE IF FreeStages(busy) # {} THEN [stages EXCEPT ![First(FreeStages(busy))] = i]
    ELSE IF CacheHasRoom THEN Append(stages, i) ELSE stages

------------------------------------------------------------------------------
\* Calls of the client.  While one of them blocks, nobody else calls.

Calling == open /\ submitting = None

\* The error of an earlier operation is thrown before anything else is done.
Refused ==
    /\ Fails(Drained)
    /\ Settle(Drained) /\ pending' = pending \ Drained
    /\ UNCHANGED <<client, submitting, device, stages, staging, issued>>

\* submit: the operation is registered, then enqueued; either the event could be
\* recorded or something failed, before or after the work was enqueued.
Submitted(i, kind, from, to) ==
    /\ pending' = (pending \ Drained) \cup {i}
    /\ \/ /\ stream' = Append(stream, i)
          /\ held' = held \cup {i}
          /\ issued' = CASE kind = "upload" -> [issued EXCEPT ![to] = i]
                         [] kind = "copy" -> [issued EXCEPT ![to] = issued[from]]
                         [] OTHER -> issued
          /\ UNCHANGED submitting
       \/ /\ stream' \in {stream, Append(stream, i)}
          /\ submitting' = i
          /\ UNCHANGED <<held, issued>>

Created(kind, from, to, stage) ==
    [kind |-> kind, from |-> from, to |-> to, stage |-> stage, status |-> "pending",
     expected |-> IF kind = "download" THEN issued[from] ELSE Junk]

\* upload and download
Transfer(kind, from, to) ==
    LET i     == Len(ops) + 1
        busy  == Unleased(Drained)
        bytes == Bytes(from, to)
        stage == StageFor(busy, bytes, i)
    IN  /\ Calling /\ Len(ops) < MaxOps
        /\ \/ Refused
           \/ /\ ~Fails(Drained)
              /\ ops' = Append(Settled(Drained), Created(kind, from, to, stage))
              /\ host' = Published(Drained)
              /\ stages' = CachedStages(busy, bytes, i)
              /\ leased' = busy \cup {stage}
              /\ staging' = IF kind = "upload" THEN [staging EXCEPT ![stage] = i] ELSE staging
              /\ Submitted(i, kind, from, to)
              /\ UNCHANGED <<failure, owned, open, dead, content>>

Upload == \E b \in owned : Transfer("upload", Host, b)
Download == \E b \in owned : Transfer("download", b, Host)

\* copy and execute
Copy ==
    /\ Calling /\ Len(ops) < MaxOps
    /\ \E from, to \in owned :
        /\ from # to
        /\ \/ Refused
           \/ /\ ~Fails(Drained)
              /\ ops' = Append(Settled(Drained), Created("copy", from, to, None))
              /\ host' = Published(Drained) /\ leased' = Unleased(Drained)
              /\ Submitted(Len(ops) + 1, "copy", from, to)
              /\ UNCHANGED <<failure, stages, staging, owned, open, dead, content>>

\* Mutant: submit throws without having the stream run dry.
SubmitThrowsAtOnce ==
    /\ submitting # None
    /\ ops' = [ops EXCEPT ![submitting].status = "failed"]
    /\ leased' = leased \ {ops[submitting].stage}
    /\ failure' = TRUE
    /\ submitting' = None
    /\ UNCHANGED <<pending, stages, held, owned, open, device, staging, host, issued>>

\* The catch block of submit, once the stream has run dry; the Completion dies
\* with it.
SubmitThrows ==
    /\ submitting # None /\ stream = <<>>
    /\ ops' = [ops EXCEPT ![submitting].status = "failed"]
    /\ leased' = leased \ {ops[submitting].stage}
    /\ failure' = TRUE
    /\ submitting' = None
    /\ UNCHANGED <<pending, stages, held, owned, open, device, staging, host, issued>>

Allocate ==
    /\ Calling
    /\ \E b \in Buffers \ Alive :
        \/ Refused
        \/ /\ ~Fails(Drained)
           /\ Settle(Drained) /\ pending' = pending \ Drained
           /\ owned' = owned \cup {b}
           /\ content' = [content EXCEPT ![b] = Junk]
           /\ issued' = [issued EXCEPT ![b] = Junk]
           /\ UNCHANGED <<held, open, submitting, stream, dead, stages, staging>>

\* The client drops its reference to a buffer.
Forget ==
    /\ submitting = None
    /\ \E b \in owned : owned' = owned \ {b}
    /\ UNCHANGED <<ops, runtime, held, open, submitting, device, staging, host, issued>>

\* Completion::ready, and wait, which the destructor calls as well.  A Completion
\* that was waited for retains nothing and changes nothing any more.
Look(i) ==
    /\ submitting = None
    /\ Unfinished(i) => Passed(i)
    /\ Settle({i})
    /\ UNCHANGED <<pending, stages, owned, open, submitting, device, staging, issued>>

Ready == \E i \in held : Look(i) /\ UNCHANGED held
Wait == \E i \in held : Look(i) /\ held' = held \ {i}

\* Mutant: what drain catches is not kept.
DrainedQuietly ==
    /\ Calling /\ stream = <<>>
    /\ ops' = Settled(pending) /\ host' = Published(pending)
    /\ leased' = Unleased(pending)
    /\ pending' = {}
    /\ UNCHANGED <<failure, held, owned, submitting, device, stages, staging, issued>>

\* The stream has run dry, everything pending is settled.
DrainedAll ==
    /\ Calling /\ stream = <<>>
    /\ ops' = Settled(pending) /\ host' = Published(pending)
    /\ leased' = Unleased(pending) /\ failure' = (Fails(pending) \/ dead)
    /\ pending' = {}
    /\ UNCHANGED <<held, owned, submitting, device, stages, staging, issued>>

Synchronize == DrainedAll /\ UNCHANGED open

\* ~CudaDeviceRuntime.  Completions and buffers survive it.
Close == DrainedAll /\ open' = FALSE

------------------------------------------------------------------------------
\* The stream

DeviceExecutes ==
    /\ stream # <<>>
    /\ LET op == ops[Head(stream)]
       IN  CASE op.kind = "upload" ->
                  /\ content' = [content EXCEPT ![op.to] = staging[op.stage]]
                  /\ UNCHANGED staging
             [] op.kind = "copy" ->
                  /\ content' = [content EXCEPT ![op.to] = content[op.from]]
                  /\ UNCHANGED staging
             [] op.kind = "download" ->
                  /\ staging' = [staging EXCEPT ![op.stage] = content[op.from]]
                  /\ UNCHANGED content
    /\ stream' = Tail(stream)
    /\ UNCHANGED <<ops, runtime, client, submitting, dead, host, issued>>

\* An operation faults: nothing is executed any more, and every call of the
\* driver reports it.
DeviceFaults ==
    /\ stream # <<>>
    /\ dead' = TRUE /\ stream' = <<>>
    /\ UNCHANGED <<ops, runtime, client, submitting, content, staging, host, issued>>

------------------------------------------------------------------------------

RuntimeInit ==
    /\ ops = <<>> /\ pending = {} /\ held = {} /\ submitting = None
    /\ failure = FALSE /\ stages = <<>> /\ leased = {} /\ staging = [s \in Op |-> Junk]
    /\ owned = {} /\ open = TRUE
    /\ stream = <<>> /\ dead = FALSE
    /\ content = [b \in Buffers |-> Junk] /\ issued = content
    /\ host = [i \in Op |-> Untouched]

RuntimeNext ==
    \/ Upload \/ Download \/ Copy \/ SubmitThrows \/ Allocate \/ Forget
    \/ Ready \/ Wait \/ Synchronize \/ Close
    \/ DeviceExecutes \/ DeviceFaults

RuntimeSpec == RuntimeInit /\ [][RuntimeNext]_runtimeVars

------------------------------------------------------------------------------
\* Properties

\* What the runtime and its client keep is well formed, and the cache holds two
\* stages at most ("unbounded staging cache", cuda_runtime_test.cpp:66).
RuntimeTypeOK ==
    /\ ops \in Seq(Operation) /\ Len(ops) <= MaxOps
    /\ pending \subseteq DOMAIN ops /\ held \subseteq DOMAIN ops
    /\ submitting \in {None} \cup DOMAIN ops /\ failure \in BOOLEAN
    /\ stages \in Seq(Op) /\ IsInjective(stages) /\ Len(stages) <= 2
    /\ leased \subseteq Op /\ staging \in [Op -> Payload]
    /\ owned \subseteq Buffers /\ open \in BOOLEAN
    /\ stream \in Seq(DOMAIN ops) /\ dead \in BOOLEAN
    /\ content \in [Buffers -> Payload] /\ issued \in [Buffers -> Payload]
    /\ host \in [Op -> Payload \cup {Untouched}]

\* StageLease: the leased stages are those of the transfers that are not terminal,
\* one each, so a copy that is still queued, or a download nobody has looked at,
\* never shares its stage; and no lease outlives its transfer, nor does the cache
\* outgrow two stages.
StagesNotShared ==
    LET transfers == {i \in DOMAIN ops : Unfinished(i) /\ ops[i].stage # None}
    IN  /\ RuntimeTypeOK
        /\ leased = {ops[i].stage : i \in transfers}
        /\ \A i, j \in transfers : ops[i].stage = ops[j].stage => i = j

\* device_runtime.h, CompletionState: an operation is terminal only when it can not
\* touch its operands any more, and until then somebody retains them.
OperandsHeld ==
    \A i \in ToSet(stream) :
        Unfinished(i) /\ {ops[i].from, ops[i].to} \subseteq Alive \cup {Host}

\* "One ordered queue per runtime": a download that ends well delivers what its
\* buffer contained by the calls before it, however late it is looked at and
\* whatever was called since; any other one leaves its host buffer alone.
DownloadsInOrder ==
    \A i \in DOMAIN ops :
        host[i] = IF ops[i].kind = "download" /\ ops[i].status = "done"
                  THEN ops[i].expected ELSE Untouched

\* synchronize: when it does not throw, every operation ever submitted has been
\* executed without an error.
SynchronizeTellsAll ==
    [][Synchronize /\ ~failure' => \A i \in DOMAIN ops : ops'[i].status = "done"]_runtimeVars
==============================================================================
