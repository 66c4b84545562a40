# TinyInfer: specifications, model checking, proofs

This directory holds TLA+ specifications of TinyInfer and of MiniPrefix, the
LLM serving engine built beside it, the TLC configurations that check them on
small instances, and proofs the TLA+ proof system (TLAPS) checks for every
instance. Everything is translated from the code; where a model leaves
something out, this file says so.

## 1. Inventory of the system

TinyInfer is a C++17 inference library for static tensor graphs; MiniPrefix
(`miniprefix/`) is a Llama generation engine with a paged, prefix-sharing KV
cache; `examples/` has a serving scheduler and speculative decoding, mostly in
Python. Hardly any of it is multi-threaded. What is hard is long sequences of
legal calls on shared pages and buffers, failures in the middle of an
operation, and, on the GPU backends, work that is still in flight when the
host goes on.

### MiniPrefix

| part | state | operations | correct when |
|---|---|---|---|
| `KvBlockPool` (`kv/paged_kv.cpp`) | free list, a reference counter per page | allocate, reserve, retain, unref, rollback, release | a page is free exactly when nobody holds it |
| `KVManager` (`kv/kv_manager.cpp`) | sequences (block table, tokens), reservations, one open append transaction | reserve_request, create, fork_sequence, reuse_prefix, cache_prefix, prepare_append / copy / commit / rollback, reset, release, clear | a sequence reads its own history whatever shares its pages; a reservation is honoured |
| `ExactPrefixCache` (`kv/prefix_cache.cpp`) | trie of page-sized edges, LRU list of leased nodes, publication hint | reuse, publish, evict_one, clear | every lease is on the list once; a leased page holds the KV of the history it is filed under |
| CPU runner (`backend/cpu/llama_runner.cpp`) | KV payload | append inside a transaction | only private slots are written |
| CUDA runner (`backend/cuda/llama_runner.cu`) | KV payload, device block tables with a dirty flag | the same, asynchronously | a kernel sees the block table of the host |
| `Scheduler` (`scheduler/scheduler.cpp`) | none | admission_count, plan, take_input | batch, budget and chunk limits |
| `Engine` (`engine/engine.cpp`) | waiting and active requests, queued events, failed flag | submit, step, poll_events, cancel, shutdown | tokens once and in order, one terminal event, no leak, nobody waits for ever |
| worker (`apps/`), Python client (`bindings/python/client.py`) | the session's diagnostics; handles and pending ids | line commands | one answer per command, a lost frame closes the session |

The engine calls the runner (`ModelRunner`), the runner the KV manager, which
shares the pool with the prefix cache. The worker's diagnostic commands use
the same runner behind the engine's back. All calls are synchronous.

### TinyInfer

| part | state | operations | correct when |
|---|---|---|---|
| `Graph`, `GraphAnalysis` | nodes, values, interface | add_*, topological_order | an order exists, every value has one producer |
| optimizer passes, `PassManager` | a rewriter per pass | run | the optimized model computes the same outputs |
| `MemoryPlan` | lifetimes, slots, offsets | constructor | values alive together do not overlap |
| `Executor`, `ExecutionContext` | values, one planned buffer | bind_input, run, output | operands and outputs are intact, also after a failed run |
| prepared CPU plan | packed weights | run | as the executor |
| CUDA plan, CUDA runtime, Metal backend | queues, completions, staging buffers | upload, execute, download, wait | a slot is handed on after its readers completed; failures stick |
| device runtime | completions with retained operands | allocate, copy, synchronize | operands outlive the operation |
| tensors, storage, allocators | views of shared buffers, arena offset and count | view, narrow, slice, transpose, contiguous, reset | a view reads the cells it stands for, live buffers do not overlap |
| CPU kernels | none | elementwise, reductions, products, packed products with epilogues | every layout gives what the definition gives |
| ONNX import, operator schemas | the graph under construction | parse, translate, import | a legal file is imported as what it says, any other refused |
| `examples/serving_scheduler` | queues, replays, a paged cache in a worker process | schedule, step, preempt | tokens once, everybody finishes, a planned step fits |
| `examples/speculative_decoding` | a growing token list | propose, verify | what greedy decoding emits |

`PROJECT.json` lists every component with its status, and under `hazards` the
places in the code that are hard to test, each with the properties that would
catch it going wrong.

## 2. Modules

| module | models | role |
|---|---|---|
| `Maps` | `std::lexicographical_compare` | adding to and removing from functions and queues; the order of token sequences |
| `KvBlockPool` | `paged_kv.cpp` | the pool as operators: taking pages, counting leases |
| `KVManager` | `kv_manager.cpp`, `prefix_cache.cpp`, the KV writes of `llama_runner.cpp` | state machine |
| `PrivateHistories` | | what the KV manager promises: abstract specification |
| `PrefixTrie` | `prefix_cache.cpp` | state machine: the trie, its pointers and its hint |
| `PrefixIndex` | | what the trie promises: an LRU map from histories to pages |
| `CudaRunner` | `cuda/llama_runner.cu` of MiniPrefix | state machine, EXTENDS `KVManager` |
| `Engine` | `engine.cpp`, `scheduler.cpp`, the runner's reservations, `diagnostics.cpp` | state machine |
| `GenerationService` | | what the engine promises a client: abstract specification |
| `WorkerSession` | `client.py`, `worker.cpp`, `apps/protocol/` | state machine |
| `MemoryPlan` | `memory_plan.cpp` | the plan: its state, its greedy loop, what it promises |
| `Executor` | `executor.cpp`, `execution_context.cpp` | state machine, EXTENDS `MemoryPlan` |
| `CudaExecution` | `run` in `cuda/execution_plan.cpp` | state machine, EXTENDS `MemoryPlan` |
| `CudaRuntime` | `cuda_runtime.cpp`, the completions of `device_runtime.cpp` | state machine |
| `TensorLayout` | `tensor_layout.cpp`, `tensor_iterator.cpp`, `reduction_iterator.cpp` | operators on layouts |
| `TensorKernels` | `basic_ops.cpp`, `matmul.cpp`, `gemm.cpp`, `matmul_kernel.cpp`, `gemm_epilogue.cpp` | every kernel beside its definition |
| `Tensors` | `tensor.cpp`, `storage.cpp`, `buffer.cpp`, `arena_allocator.cpp` | state machine, EXTENDS `TensorKernels` |
| `OperatorSchema` | `operator_schema.cpp` | operators, EXTENDS `TensorLayout` |
| `ModelGraph` | `graph.cpp`, `graph_analysis.cpp`, `model.cpp` | graphs as records, what they compute as terms |
| `GraphOptimizer` | `graph/optimizer/` | the rewriter, the five passes, the manager's checks |
| `OnnxParser`, `OnnxImporter` | `protobuf_model_parser.cpp`, `operator_registry.cpp`, `onnx_importer.cpp` | from messages to a graph |
| `OnnxWriter` | (external) an exporter's serializer | the messages of a model, in every style |
| `CpuPlan` | `backend/cpu/execution_plan.cpp` | preparation and a run on terms |
| `ModelPipeline` | `OnnxImporter::load`, `PassManager::run`, plan and context | state machine over all of these |
| `PagedKVCache` | `native/paged_kv_cache.h` of the serving example | the cache as operators on a record |
| `ServingWorker` | `tinyinfer_worker.cpp` in paged mode | a worker's step as an operator, EXTENDS `PagedKVCache` |
| `ServingBackend` | `tinyinfer_backend.py`, `backend.py` | work items, commands and answers as operators, EXTENDS `ServingWorker` |
| `DynamicScheduler` | `dynamic_scheduler.py` | state machine, EXTENDS `ServingBackend` |
| `ReservedScheduler` | `scheduler.py`, `kv_cache.py` | state machine, EXTENDS `ServingBackend` |
| `BasicLemmas`, `KVManagerProofs`, `HistoryProofs`, `EngineProofs`, `ExecutionProofs`, `SessionAndTrieProofs`, `ServingCacheProofs`, `ServingProofs` | | proofs |
| `MC*` | | instances for TLC |

### KVManager

`pool`, `sequences`, `reservations` are the members of the same names;
`lease` and `lru` are the prefix index: a map from a token history to the page
leased for it, and the order of the leases. `appends` is the open transaction,
`publishing` the loop of `publish`, which is one action per round because each
round may fail or evict. `payload` is the KV memory. The KV vector of a token
depends on all tokens before it, so a slot holds *the history it encodes*: a
reader who finds anything but its own prefix has read somebody else's KV or
garbage. One action stands for each operation; an append is
`PrepareAppend` (or `PrepareExhausted`, which evicts and fails),
`CopySharedTail`, `WriteToken` for each token, then `Commit` or `Rollback`.
Calls whose guards throw before they change anything are not actions.

Not modelled: the statistics, and the exact page the free list hands out (any
free one). The trie that stores the map is `PrefixTrie`.

### PrefixTrie

A node is an address of `NodeId`; a freed one may be handed out again by the
next allocation, as an allocator does, so a pointer kept too long would show.
`index` has the nodes, the lookup map of leased children (`available`), the
eviction list, the publication hint and the spare node. `publish` is one action
per round, for each round may fail to allocate or evict; `clear` is one
action per node, with the pointer it walks by kept in `clearing`. `reuse`
records what it found. The refinement maps the nodes to the histories spelled on their paths.
Pages only have lease counters here, their holders are `KVManager`'s.

### CudaRunner

Every call of the runner is an action of `KVManager` together with what it does
to `device`, the block tables in device memory, and to `dirty`. An append
uploads the entries it takes for new (`UploadTable`, from `FirstStale` on), then
runs its kernels (`RunKernels`), which find pages by the device table alone and
therefore replace `WriteToken`. Any CUDA call may fail: an append ends in
`RunnerRollback` at any point, a reused prefix in `RunnerReuseFails`, its table
uploaded or not. A stream runs its operations in order and each call waits for
it, so an operation happens when it is enqueued.

Not modelled: the arithmetic of the kernels, weights, workspace, statistics,
and failures of calls before they have changed anything.

### Scheduler and Engine

A step of the engine is a sequence of runner calls, each of which may throw,
so it is a sequence of actions: `BeginStep`, `Admit` / `Reject` for each
candidate, `PlanWork`, then for each scheduled request `Restore`, `Forward`,
`Sample`, `Finish`, and `EndStep`. `Isolate` is the handler for
`KvCapacityError`, `Fatal` the one for everything else, enabled wherever a
runner call is made. A request's tokens are counted, not spelled. The runner is
what `ModelRunner` promises on top of `KVManager`: resident sequences, page
reservations, and `held`, the pages diagnostic sequences have taken. The scheduler
keeps no state between its calls, so it is three operators of the same module:
`AdmissionCount`, `PlanOrder` and `TakeInput`.

### WorkerSession

Three actors: the client object (`mode`, `call`, `ids`, `pending`, `sequences`,
`received`), two pipes (`requests`, `answers`), and the worker, whose loop takes
a line (`Serve...`), keeps its answer in `reply` and writes it (`Flush`).
The engine behind the loop is what `GenerationService` promises: `emitted` is the
stream of each request, `events` the part not polled. `created` and `resident`
are what the diagnostics and the runner think of the diagnostic sequences. The worker
may die between any two of its steps (`Crash`), the caller may be interrupted
while it waits for an answer (`Interrupt`), in the constructor
(`InterruptStart`) or outside a call (`CloseForced`); `close` asks, waits, terminates
and kills (`Receive` of a QUIT, `Forced`, `WaitTimesOut`, `Reap`).
Commands the parser or the engine refuses are the alternatives `Throws`.

Not modelled: an interrupt in the few statements of `_command` and its callers
after the answer was read and before its effects are recorded, which the code does
not guard; a standard error stream that fills its pipe, which a
worker never writes to before it ends; answers cut off by a dying worker (a line
is written at once).

### MemoryPlan, Executor and CudaExecution

The graph is a constant of a behaviour: any `reads`, `outputs` and `bytes` over
a topological order, with one output per node. `PlanValue` is one round of the
constructor's greedy loop; the plan is complete before anything runs.

`Executor` runs the graph on the CPU: `BeginRun`, `ExecuteNode`, `NodeFails`
and `EndRun`, and again. `buffer` says which value each byte belongs to.

`CudaExecution` runs it on a GPU: the host submits a kernel per node (`Submit`),
and waits before a slot is handed on (`ReuseEnd`); the stream executes the
kernels in order at any time after that (`Execute`), or one faults. The host's
waits are guards, since a waiting host does nothing else. `arena` says which
value each byte holds, or `Garbage`: what an earlier run left or what a kernel
computed from operands that were not all there. A run that throws lets go of its
completions, each of which waits for its kernel.

Inputs and constants have storage of their own and are no part of either model;
binding of inputs and outputs and the fallback to the CPU are not modelled. The
prepared CPU plan is `CpuPlan`.

### CudaRuntime

One client calls the runtime, which keeps `pending`, `failure` and the cached
`stages`; the device executes what was enqueued (`stream`). A call is one action,
which begins with what `drain` does to the completions that are ready; a
blocking wait is a guard on the stream, except in `submit`, whose catch block
is an action of its own (`SubmitThrows`), because the stream goes on while it
waits. A completion that was waited for and one that was dropped are the same:
neither retains anything. Buffers hold one value each, a kernel is a copy,
and an upload writes its own number, so any mix-up of stages or buffers
shows in what is downloaded. `issued` and `expected` are history: what the
calls would have done had each been executed at once.

Not modelled: calls that are refused before they touch the queue, the scratch
buffer of an overlapping copy, the statistics, a device that cannot be selected.
The runtime may be closed, after which only completions and buffers are left to
let go, so the run does not check for deadlock.

### Tensors, TensorLayout, TensorKernels

A tensor is a layout over a buffer of an arena; `cells` is a ghost that
says, in logical order, which cell of which buffer each of its elements stands
for, and `contents` what was put there. `allocator` is the arena, which never gives a piece back: it
counts what is active, and `reset` trusts the count. The operations of `Tensor` change layouts; what they
mean for `cells` is written down independently (`narrow` takes a slice, `transpose`
swaps, `contiguous` copies). `TensorKernels` has each kernel as the code
computes it (coalesced dimensions, reduction plans, blocked loops, packing, vector lanes
and tails, epilogues) beside its definition over coordinates; a
read outside a tensor's elements gives a number no element has. Elements are integers:
what is checked is which elements are combined, not rounding.

### ModelGraph to ModelPipeline

Code that may throw gives a set of at most one result. A graph is a record; what it
computes is a term over its inputs and constants (`Terms`), so two graphs agree when
their terms do. The parser reads messages as sequences of fields; `OnnxWriter` writes
them in every style protobuf leaves open and with nine faults. `Legal`
and `Meaning` in `ModelPipeline` say what a file means without the importer's rounds or
the graph's checks. The state machine loads a file, applies passes in any order, prepares
and runs.

Not modelled: numbers beyond 32 bits, names the caller spells like derived output
names (`__onnx_node_0:0`: such a file may be refused), floating-point constant
folding (a folded constant is the term of its node), file I/O. A malformed
attribute without a type reads an empty optional in the code; such files are left out.

### PagedKVCache, ServingWorker, ServingBackend and the schedulers

The worker answers one command after another and the schedule is one loop, so
the worker's operations are operators on a record (`worker`) that the actions
of the schedule apply: a whole STEP command is `Stepped`, which takes over
prefixes item by item, plans and commits the memory, writes the new rows, picks
tokens and publishes snapshots. These are its phases (`EnterBatch`,
`PrepareBatch`, `WriteItem`, `FinishBatch`); each passes on a worker and a flag
`ok`, which an exception clears and after which nothing more is done. An
exception ends the schedule (`Failed`, `CleanedUp`), as in the code.
The actions of `DynamicScheduler` are `Arrive` (the head of the loop: arrivals,
rejections, admission), `Preempt` (one round of the inner loop that makes room),
`Step` and `Finish`; those of `ReservedScheduler` are `Admit`, `RunBatch` and
`EndSchedule`, with the admission loop over the queue as an iteration (`Admission`) and the
logical reservations of `kv_cache.py` beside the worker's physical blocks. The
requests, the queues, the worker and where a schedule stands are kept alike by both and are variables of
`ServingBackend`; the two have different names for the rest, so that one module of proofs can
be about both. Loops are `Iterated`, whose steps are a function on `0 .. Len(q)`.
When requests arrive is left open: each pass of the loop sees any number of new ones.
The decoder has one layer, so a KV slot holds a token and its position. Of the logits
only their order matters: a constant operator `Above` says which of two tokens' is above the other
after attending to a sequence of slots, `Greedy` picks the first token none is above, and
what a request gets alone is computed from it (`Reference`, the worker's own
oracle). A token budget or chunk of `None` is one no step exceeds.

Not modelled: the contiguous layout, `MAX_CONTEXT` and vocabulary bounds,
handles (requests keep their names), traces and statistics, a client that is
interrupted in the middle of a command.

## 3. Runs

| run | what it asks | bounds |
|---|---|---|
| `kv_manager` | do sharing, copy-on-write, eviction and reservations keep every history private and every page counted? | 3 pages of 2 tokens, 2 sequences, 2 index leases, sequences of up to 4 tokens, appends of up to 2 |
| `engine` | are the streams well formed and does every request end? | 3 requests, 4 pages of 2 tokens, batch 2, budget 2, chunk 2 |
| `dynamic_scheduler` | does a schedule that preempts, recomputes and shares prefixes ever fail, mix up memory or tokens, or not end? | 3 requests with one of 2 prompts and 2 output lengths each, 4 blocks of 2, batch 3, budgets 2 and 4, chunk 3 |
| `reserved_scheduler` | does a schedule with reservations ever get stuck, overcommit memory or let anybody pass? | the same requests, memory, batch and budgets; both modes and both policies |
| `cuda_runner` | do kernels ever follow a stale entry of a device table? | 3 pages of 2 tokens, 2 sequences of up to 4 tokens, 1 index lease, appends of up to 2, reservations of 4 |
| `worker_session` | does anything get lost, mixed up or stuck between client and worker? | 2 requests of up to 2 tokens, 1 diagnostic sequence |
| `prefix_trie` | does the trie keep a pointer too long, and does it find what an LRU map would? | 5 node addresses, 2 pages of 2 tokens, 2 leases, 2 histories that share half a page |
| `tensors` | do views, kernels and the arena agree with their definitions? | 2 variables, 14 elements of memory aligned to 4, tensors of 6 or no elements, 2 operations on top of each other (`MaxDepth`), vectors of 2 |
| `model_pipeline` | is what a file says what is computed in the end? | 672 graphs of 3 nodes, 52 of one operator at 4 opsets, 10 that are broken, one rich file in 16 styles with 9 faults; 3 passes (`MaxPasses`) |
| `executor` | does a planned run ever lose an operand or an output? | all graphs of 4 operators, sizes 1 and 3, alignment 2 |
| `cuda_execution` | is a slot handed on while a kernel still uses it? | the same graphs |
| `cuda_runtime` | do stages, retained buffers, downloads and failures stay right with work in flight? | 2 buffers of sizes 1 and 2, 3 operations |

**kv_manager.** `RefsCountLeases`: the counters equal the number of holders
(tables, index, the source a transaction copies). `IndexHoldsItsHistory`: a published page keeps what it was
published for. `ReservationsHonoured`: an append within its reservation can
always be served by evicting. `ImplementsPrivateHistories`: refinement; the
committed view of every sequence is its own history, and an operation changes
one sequence only. Two sequences are enough for one to disturb the other, and a
page that is shared has at most four kinds of holder, all of which occur: two
tables, the index, a transaction. Three pages make eviction, exhaustion and
copy-on-write under pressure happen; histories of the instance (`MCTexts`) agree on a
whole page, in the middle of one, and not at all. Pages and ids are symmetric;
no property is temporal beyond a refinement of the next-state relation.

**prefix_trie.** `PointersStayLive`: whatever is evicted, pruned or cleared, the hint, the
list, the walk of `clear` and the links of live nodes point to live nodes.
`ImplementsPrefixIndex`: refinement; `reuse` finds the longest readable
history, the least recently used one without a successor in use goes first, and a failed
or interrupted publication leaves a map that is still exact. Five addresses for two leases
leave room for a spare node, ancestors without a lease and freed addresses at once.

**cuda_runner.** `DeviceTablesCurrent`: a clean table has the pages of its sequence, and
kernels run only on a table that is up to date. `ImplementsPrivateHistories`: the same
refinement as for the manager, now with the kernels writing and reading by way of the
device. Fork, copy-on-write, eviction in `PrepareExhausted`, reuse whose upload fails and
appends that fail at every point all occur.

**worker_session.** `EverythingArrives`: between two calls of a client in use nothing is
under way, the client knows every request the engine has, and has all its events.
`SequencesAreThere`: no diagnostic is served on a runner that was cleared behind it.
`EveryCallReturns`: liveness. Two requests make an answer carry events of both and one be
cancelled while the other goes on; two tokens give streams of every kind.

**tensors.** `BuffersApart`: live buffers do not overlap and lie in the arena, also after a
reset. `TensorsReadTheirCells`: every element a tensor names is the cell it stands for.
`ElementsAgree` and `ProductsAgree`: on every pair of tensors so reached,
the kernels give what their definitions say and write each output once. Views of
rank up to three, with gaps, zero sizes and broadcasts occur.

**model_pipeline.** `ImportsTheModel`: a file is refused exactly when it breaks the format or
is not legal. `PassesKeepTheModel`: no pass fails, every value that is still mapped
is the number it was. `OnePassIsEnough`: a pass run again finds nothing to do.
`PreparedRunAgrees`: the run of the prepared plan gives each output its value. Three passes of five in any
order cover each pass after each other one, and once in between.

**engine.** `KVMatchesHistory`: what the runner holds is what the open requests
account for. `ReservationsCoverRequests`: a reservation lives as long as its
request and covers its KV. `ImplementsGenerationService`: refinement; tokens
once, in order, one terminal event. `EveryRequestEnds`: liveness. The instance
has a prompt longer than the chunk and the budget, an answer longer than one
step, and a request that can never fit; diagnostics take three of four pages,
so `Wait` with and without active requests happens.

**executor.** `SlotsSeparateLifetimes` is about the plan, `OperandsIntact` and `OutputsIntact` about runs in it. Four operators
allow a slot to be handed on twice and to grow in between; an alignment that does not
divide the sizes makes gaps.

**cuda_execution.** `ReuseIsSafe`: while a kernel is in flight, whoever used its
bytes before was seen to complete, and the host never waits for a kernel it has
not submitted. `OutputsIntact` is about contents: after a successful run the
arena holds every output, computed from operands that were there. Every
distance between host and stream occurs, with faults and refused kernels at
any point and runs repeated on a dirty arena.

**cuda_runtime.** `StagesNotShared`: a stage belongs to one transfer until that
is terminal. `OperandsHeld`: what is in flight is retained by somebody, also
while `submit` throws or after the runtime is gone. `DownloadsInOrder`: a
download delivers what its buffer held by the order of the calls, however late
it is looked at. `SynchronizeTellsAll`: a `synchronize` that does not throw
vouches for every operation ever submitted, also for those whose failure
somebody else has caught. A buffer of the instance is the set of its bytes, hence
`Size <- Cardinality`. The cache keeps two stages, so the third transfer is
the first without a cached one, and two sizes make stages be reused and
replaced.

**dynamic_scheduler.** `BlocksAccounted` and `PrefixesIntact`: counters, free list and contents of
tables and snapshots. `DeliveredAsAlone`: batching, sharing and recomputation
change nothing a request is delivered. `ScheduleEnds`: liveness; since an error ends
the schedule too, it also says that none is reachable, of the scheduler or the
worker: in particular a step that `can_step` admitted is never refused, although
it takes over and evicts snapshots that the plan did not know of. With these bounds a request that can never
fit is rejected, two live tables share a partly filled block within a step, snapshots are
evicted to make room, and a request is preempted in the middle of its replay;
a budget of 2 is below the batch size, so decodes fill it.

**reserved_scheduler.** `ReservationsCoverTables` relates the
logical reservations to the worker's block tables. `OldestFirst` is the strict
FIFO, `ReservedScheduleEnds` liveness with the outcome each policy allows; the "KV
admission deadlock" and the budget errors are therefore unreachable, and the physical
pool never runs out although snapshots hold blocks nobody reserved. Memory for two
short requests or one long one makes the head of the queue wait behind active
requests in both modes.

Each property has a mutant: a variation of one definition, as a plausible bug
would make it, that stands beside the definition (`Mutant:` in its comment)
and under which TLC finds the property violated.

`DeliveredAsAlone` is checked for the dynamic scheduler only: both use the
same worker, and the dynamic one does everything the other does.

### Fairness

The serving schedules are single loops without waiting, so their `Spec`
has weak fairness of the whole next-state relation, written out (`Ended` is where
nothing is enabled) because evaluating `ENABLED` of a whole step is costly.

`EveryRequestEnds` of the engine: `FairSpec` is `Spec /\ WF_vars(Step)`. The
clients of the engine call `step()` while a request is open (`client.events()`
is such a loop), and a step, once begun, runs to its end because the engine is
single-threaded. Nothing is assumed of the client's other calls, of the
diagnostics or of failures: they may happen at any time or never.

`EveryCallReturns` of the worker session: the worker's own steps (`Start`, `Serve`,
`Flush`, `EndOfInput`) and the client's (`Receive`, `ReadEnd`, `Reap`) are weakly fair,
since each is a process running to its next wait; `WaitTimesOut` is, because
`process.wait` has a time limit, and `Killed`, because nothing survives SIGKILL.
No fairness is assumed of crashes, interrupts, new calls, or of a worker heeding
SIGTERM. A command that computes for ever would leave its caller waiting: the client has no
time limit on an answer.

## 4. Proofs

`KVManagerProofs` proves, for every set of pages, ids and tokens and all sizes
(under `ManagerAssumption` and the pool's own assumption, both what the
constructors check, and that the page set is finite):

- `TypeAlwaysOK`: `Spec => []TypeOK`;
- `RefsAlwaysCountLeases`: `Spec => []RefsCountLeases`;
- `ReservationsAlwaysHonoured`: `Spec => []ReservationsHonoured`.

The counters alone are not inductive: that a commit or a rollback removes
exactly the lease it gives back needs to know what an open transaction looks
like. The inductive invariant `IInv` adds `TablesOK` (a sequence with tokens
has pages), `TransactionOK` (an open transaction remembers a block table it can
restore, and the private copy of a shared tail stands at the end of its original
part), `PublishingOK` (the rounds stay within the sequence's pages) and that the set of
leases is finite. Every operation's effect on the pool is one of three lemmas: taking
free pages, retaining pages, dropping leases keeps `Counts`. The proof
that a step preserves `IInv` then has one lemma per action, in which the new
set of leases is shown to be the old one with the action's leases added and
removed. `BasicLemmas` has the facts about cardinalities, sums, queues and maps.

`ReservationsHonoured` needs a budget. `committed_blocks` is a sum over the
reservations and over the tables of everybody without one; `CommittedIs` makes it
one sum over all ids, so that a step that changes one id changes the sum by what it changes
there (`CommittedGrowsBy`). The invariant `RInv` adds to `IInv` that this sum is at most the
pool as long as there is a reservation, and that no table outgrows its
reservation (`BudgetOK`), and that the eviction list has every leased history (`LruOK`).
When the list is evicted from end to end, `LruOK` leaves no lease in the index, so the
counters count the entries of the block tables (`AllLeasesBound`), these are within what is
committed (`TablesWithinCommitted`), and what a request has left of its reservation is free
(`FreePages`). The copy of a shared tail takes one page more than the reservation has left, and
there is one: the tail is a single page that counts in two tables (`BudgetHonours`).

`HistoryProofs` proves, under the same assumptions, what the sharing of pages is for:

- `IndexAlwaysHoldsItsHistory`: `Spec => []IndexHoldsItsHistory`;
- `HistoriesStayPrivate`: `Spec => ImplementsPrivateHistories`, the refinement.

The counters do not tell what a page holds, and what it holds is only safe because of
the counters, so the invariant `HInv` has both: `IInv`; `IndexTrue` (a leased page holds the
last page of its history); `TablesTrue` (the committed block table of each sequence
reads its tokens, at every position); and three conjuncts about an open append:
`AppendShape` (its sizes, and that nothing is written before a shared tail was
copied), `AppendTrue` (the new block table reads the old tokens and what was written
of the input) and `AppendPrivate` (the pages it writes to have one reference). From
the last one and `RefsCountLeases` follows `PrivatePage`: such a page is in no other table, not in
the index, not twice in its own table, and is not the tail that was copied. So a
write disturbs nobody (`ChangedPrivately`), and every other step leaves the pages that
somebody holds as they are (`HeldPagesKeep`). What remains is one lemma per action. The
arithmetic of positions and pages is a section of its own, as is the walk of
`reuse_prefix`: each node it visits leases a page whose history agrees with the prompt as
far as the walk counts (`WalkFollows`). For the refinement, `HInv` makes the abstract store
a function of the tokens alone (`StoreHoldsHistories`), and a step changes at most one
sequence's tokens, or removes sequences.

The second part of `HistoryProofs` proves the same of the manager under the CUDA
runner, whose kernels go by device tables:

- `DeviceTablesAlwaysCurrent`: `RunnerSpec => []DeviceTablesCurrent`;
- `RunnerHistoriesStayPrivate`: `RunnerSpec => ImplementsPrivateHistories`, the refinement;
- `RunnerRefsAlwaysCountLeases`, `RunnerIndexHoldsItsHistory`, `RunnerReservationsHonoured`:
  what the manager promises, `[]RefsCountLeases`, `[]IndexHoldsItsHistory` and
  `[]ReservationsHonoured`, of `RunnerSpec`.

The invariant `DInv` is `IInv`, one device table per sequence, no upload outside an open
append and, for each sequence, `TableKnown`: its device table is current, or is marked
dirty, or is current before the first entry that the open append has yet to upload. The
steps of the manager are the lemmas of `KVManagerProofs`; what is new is which of them change a block
table behind an entry that was uploaded, and that these mark the table dirty.

`RunnerInv` puts `DInv`, `HInv` and `RInv` together, with `CopiedFirst`: the kernels run after
the copy of the shared tail. In such a state a step of the kernels *is* the manager's
`WriteToken` (`KernelsWrite`): the table was uploaded, so `TableKnown` says that it is the block
table, whose length (`AppendShape`) covers every position of the append, so the kernels read and
write the manager's pages (`KernelsFind`). Every other step of the runner is one of the manager's too, but
for the reuse that fails half-way, which only touches the index (`RunnerStep`,
`ReuseFailsState`). So the theorems about the manager carry over.

`ExecutionProofs` proves of runs on the CPU, for every number of operators, every graph over them,
all sizes of values and every alignment (`PlanAssumption`):

- `TypeAlwaysOK`: `Spec => []TypeOK`;
- `SlotsAlwaysSeparateLifetimes`: `Spec => []SlotsSeparateLifetimes`;
- `OperandsAlwaysIntact`: `Spec => []OperandsIntact`;
- `OutputsAlwaysIntact`: `Spec => []OutputsIntact`.

The greedy loop decides by `busy_until` alone, so the inductive invariant
`PlanInv`, where nothing depends on who runs the plan, adds
`SlotsCover`: a slot is as large as each of its values and busy until the last of
them is dead. A value joins a slot only if `busy_until` is before it, hence after
the last step of everything in it, which gives `LifetimesApart`. `LastStepType`
bounds a lifetime, by the maximum of a bounded set of steps (`MaxMember`).

That slots do not overlap in the buffer is a property of `Offsets`, a recursive function
over the slots; it is proved by induction in the form of a least counterexample
(`LeastNatural`, from the well-foundedness of the naturals), as the induction theorems
of the library cannot be used. The invariant of a run, `IntactInv`, then adds that
operators run in topological order and `LiveIntact`: a value that was produced and is not dead
has its producer as the last writer of its bytes.

Its second part proves of the runs of a prepared CUDA context, for the same graphs and
every delay of the stream behind the host, over the same `PlanInv`:

- `ReuseAlwaysSafe`: `CudaSpec => []ReuseIsSafe`;
- `DeviceOutputsAlwaysIntact`: `CudaSpec => []DeviceOutputsIntact`.

A slot remembers only its last value, so that a kernel waits for the readers of that one
alone. The invariant `CudaInv` says why this is enough: the occupant of a slot is the latest of its values
(`OccupantsLatest`), and of any two values of a slot that kernels were submitted for, the last reader
of the earlier one was waited for when the later one was submitted (`HandedOnSafely`). As the plan
gives overlapping bytes only to values of one slot (`SlotsOverlap`), a kernel in flight shares
none with a value that is still read. `ArenaIntact` is `LiveIntact` in the order of the stream: what was computed and
is still to be read is in the arena.

Its third part proves of the CUDA runtime, for all buffers, sizes and numbers of operations:

- `StagesNeverShared`: `RuntimeSpec => []StagesNotShared`;
- `OperandsAlwaysHeld`: `RuntimeSpec => []OperandsHeld`;
- `DownloadsAlwaysInOrder`: `RuntimeSpec => []DownloadsInOrder`;
- `SynchronizeAlwaysTellsAll`: `RuntimeSpec => SynchronizeTellsAll`, an action property.

The four need one invariant, `RuntimeInv`. `LeasesExact`: each lease is that of one unfinished
transfer. `Tracked`: every unfinished operation is pending in the queue, and one that is enqueued
is unfinished and retained by the client or by `submit`. `ErrorsKept`: an operation that failed has told the
queue, and when the device died there is still somebody to find out, so no error gets lost between a
completion that was looked at and a `synchronize`. The order of downloads is about the
future: `InOrder` says that there are contents the stream will go through, from the buffers of now by the
effect of each queued operation (`Foresees`), in which each download finds what was issued for it, and
which end in what the next call will take for granted, as long as nothing has failed.
`Staged` then follows a value from the buffer to the stage, `Delivered` from the stage to the host.

Its last part proves of tensors, for every arena and alignment, any slots, shapes, views and depth
(`ArenaAssumption`, what `narrow` and `slice` check on entry):

- `BuffersAlwaysApart`: `TensorsSpec => []BuffersApart`.

The property is nearly inductive. `TensorsInv` adds what types say (`TensorsOK`): shapes are of naturals, so that the
product of their extents is one (`ProductType`, an induction by way of `OrbitExists`), and a buffer has an address or is
empty and has none. The count is right because letting go of a slot destroys its
buffer exactly when no other slot views it (`DeadBuffers`), and a destroyed buffer was counted exactly when it
owns memory (`ReleaseCounts`): an empty one must not be taken off. `reset` is then safe
as no buffer has an address in the arena. There is always an identifier for one more buffer, since each is some slot's
(`FreshBuffer`).

`EngineProofs` proves, for every set of requests, prompt and output lengths, pool and scheduler
limits (`EngineAssumption`):

- `TypesAlwaysOK`: `Spec => []TypeOK`;
- `KVAlwaysMatchesHistory`: `Spec => []KVMatchesHistory`;
- `ReservationsAlwaysCover`: `Spec => []ReservationsCoverRequests`;
- `AlwaysAGenerationService`: `Spec => ImplementsGenerationService`, the refinement.

A step of the engine is many actions, any of which may fail, so the invariant
`EngineInv` says what holds between them: `QueuesOK` (queues without duplicates, a state for each queued request),
`BatchOK` (the batch and the token budget), `StepOK` (where a step stands, and that whom it
still has to serve is not finished), `ProgressOK` (a waiting request has not begun, an
open one computes its prompt first), `KVOK` and `ReservedOK` (the two properties, with a reservation
for the whole length) and `StreamsOK` (the stream of an open request has its tokens so far, but for
the last one while it is being finished; every other stream is over). Removing requests (`RequestsGone`) and
serving one (`ServedKeeps`) are lemmas of their own, because several actions do little
else. In the refinement an action is an event of one stream (`TokenRefines`), the end
of several by cancellation or error (`AbortsRefine`), or a stutter.

`SessionAndTrieProofs` proves of `WorkerSession`, for every set of request and sequence ids and every bound on tokens:

- `EverythingAlwaysArrives`: `Spec => []EverythingArrives`;
- `SequencesAreAlwaysThere`: `Spec => []SequencesAreThere`.

Both properties speak of the moment between two calls, or of an answer being written; the invariant
`SessionInv` says what holds while a line is on its way. `LineOfCall`: there is one line at most, a
command, or its answer in the worker or in the pipe, and it belongs to the call under way, so that
an interrupted call must close the client or leave nothing behind. `ClientKnows`: until the
worker serves the command, the client knows everything the engine did (`UpToDate`); from then on, it
will once it has read the answer (`UpToDateAfter`): a submitted request has the next number and no
events yet, the events of a step are what the streams have grown by, an error changed nothing. Serving is one lemma
per kind of command; an answer is taken in by `EnteredKnows` and `DeliveredKnows`. `RunnerKnows`: until `quit` or a failure, the runner
has every sequence that the diagnostics created.

And of `PrefixTrie`, for every set of addresses and pages, every page size, every capacity within the
addresses and every set of histories:

- `PointersAlwaysLive`: `TrieSpec => []PointersStayLive`.

`TrieInv` adds what the pointers rest on. `Linked`: the depth of a node is one more than its
parent's, and the hint names one node at each depth, so the one slot `CutHint` looks at is the only one
that can name the node that goes, and every node further on is below it. `Leafy`: a node without
a lease has children, except for the node an operation is working on, which is an argument of the
predicate; `PruneKeeps` shows that the walk up leaves no exception but the protected node, and
removes nothing but unprotected nodes on the way to the root. `Booked`: list, lookup and lease
counters agree with the blocks of the nodes. `PublishOK`: the call of `publish` stands at the depth of its
round, and a hint that goes as far leads to its parent, so appending the new node (`EndRoundKeeps`) makes a path again although evictions
may have cut the hint meanwhile. The ancestors of a node are a chain, and there is only one (`AncestorsAre`, `ChainUnique`).
That `clear` may prune before it moves on is `SuccessorStays`: the next node in preorder is a live node
that is no ancestor, for it lies deeper, or beside an ancestor with a greater edge.

`ServingCacheProofs` and `ServingProofs` prove, for every pool, vocabulary and order of the logits,
every set of prompts and output lengths and every limit of the schedulers (`CacheAssumption`,
`VocabularyAssumption` and `SchedulerAssumption`, which the constructors and the two schedules check on entry):

- `DynamicBlocksAccounted`: `Spec => []BlocksAccounted`;
- `DynamicPrefixesIntact`: `Spec => []PrefixesIntact`;
- `DynamicDeliveredAsAlone`: `Spec => []DeliveredAsAlone`;
- `ReservationsAlwaysCoverTables`: `ReservedSpec => []ReservationsCoverTables`;
- `ReservedOldestFirst`: `ReservedSpec => []OldestFirst`;
- `ReservedPrefixesIntact`, `ReservedDeliveredAsAlone`: `[]PrefixesIntact` and `[]DeliveredAsAlone`
  of `ReservedSpec`.

The first module is about the cache alone. `GoodCaches(known, memory)` are the caches that are
`Accounted` (the counters count the tables and snapshots that name a block, each of which names it once,
and the free list has the others, once each) and `Stored`: in this memory every table leads to the vectors of
the tokens it is known to stand for, and every snapshot to those of its key. Neither is
kept without the other: a block is written only by who holds it alone (`Accounted`), so nobody
else's vectors change (`Stored`). There is a lemma for each operation of `paged_kv_cache.h`:
releasing, reusing, publishing, evicting until there is room, allocating, replacing a shared tail, planning for
many targets. A plan is the difficult part, as it moves nothing until it fits: `PlannedGood`
says that the planned tables are good in the memory that its copies, made one after the other, will leave.

The second is about a worker's step, in its phases: the cache is good between any two (`EnterBatchGood`,
`PrepareBatchGood`, `WriteBatchGood`, `FinishBatchGood`, together `SteppedGood`), each item's history grows by its input, and
the token picked depends on that history alone, because what attention reads is its vectors, whoever
stored them (`ReadIs`). A worker
is `Settled` between commands: its cache is good, its tables are fitted to their
lengths and belong to exactly the states it has. `StepServed` puts this together for any batch a scheduler may
ask for: a step that succeeds delivers to each request the next tokens of what it gets alone.

`DynamicInv` is what the dynamic schedule keeps: `RequestsOK`, `WorkerOK` (the worker is settled, and each history begins
the request's prompt and tokens), `DeliveryOK` (what was delivered begins what the request gets
alone), `CompletedOK`, `Awaited` (who has not arrived is in no queue and has nothing),
`PrefilledOK`, `ReplayOK` (a replay ends where the request had been, at most), `NativeOK`. `ReservedInv` has
the first four, `PrefilledOK` and `ServingOK`, and instead of the queues' disjointness their order:
`Ordered` and `Unresolved` (the three queues are increasing, one before the other, and hold who has no
outcome), from which `OldestFirst` follows since an increasing sequence is known by its
elements; and `Reserving`: exactly the active requests have reserved their worst case,
`used` is the sum, and only who has reserved has a state. A table fits its length, a length is
that of a history, and a history is at most the prompt and what was asked for, so a table fits its
reservation (`TablesCovered`).

Only model-checked: the trie's refinement `ImplementsPrefixIndex`, what tensors read and kernels compute, the model
pipeline, and all liveness: fairness and
`ENABLED` are out of the prover's reach. That no step of a schedule fails is part of that: the
schedules' `ScheduleEnds` and `ReservedScheduleEnds` say so. `ElementsAgree`, `ProductsAgree`
and the four properties of the model pipeline are about recursive definitions over data, whose proofs would
be inductions that need a predicate as a parameter; `TensorsReadTheirCells` is about strides
computed in this way, and `ImplementsPrefixIndex` about the histories that paths spell.

## 5. Not modelled

- The CUDA plan's `bind_input`, `output` and fallback to the CPU, and the Metal backend: their
  waits and slots are those of `CudaExecution`, their transfers those of `CudaRuntime`.
- Validation and binding of inputs in `ExecutionContext` and `CpuExecutionContext`: guards that throw
  before anything changes.
- Backend capabilities and placement (`backend/capability.cpp`): tables, looked up once.
- Reading weights (`model.cpp` of MiniPrefix), formatting, statistics, timing: I/O.
- Speculative decoding: `verify` is one call without state over two fixture
  models; the loop around it is a script.
- Tests, benchmarks, converters and documents.

What further work would add, in this order: that a step of the reserving schedule never fails, as an invariant; inputs and fallback of the CUDA plan.
