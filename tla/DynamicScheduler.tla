--------------------------- MODULE DynamicScheduler ----------------------------
(***************************************************************************)
(* The dynamic schedule of the serving example (schedule_dynamic in        *)
(* examples/serving_scheduler/dynamic_scheduler.py) with its backend and   *)
(* worker: requests are admitted without reserving memory; when a step     *)
(* does not fit, the newest one is preempted and later recomputed, and     *)
(* what was delivered is not delivered again.                              *)
(*                                                                         *)
(* A token budget or a chunk size of None is one that no step exceeds.     *)
(***************************************************************************)
EXTENDS ServingBackend

VARIABLES
    replay,         \* replay: preempted request -> target, progress
    native          \* native: requests the worker has a state for

requestVars == <<prompt, wanted, budget>>
progressVars == <<prefilled, delivered, replay>>
vars == <<requestVars, queueVars, progressVars, native, outcome, worker, at>>

Init == ScheduleBegins /\ replay = <<>> /\ native = {}

------------------------------------------------------------------------------
\* Arrivals and admission

Rejected(r) == NeededBlocks(Request(r)) > Blocks

\* The head of the loop: some of the incoming requests have arrived, at least one
\* when there is nothing else to do.
Arrive ==
    /\ at = "arrivals" /\ incoming \o waiting \o active # <<>>
    /\ \E n \in 0 .. Len(incoming) :
          LET arrived == SubSeq(incoming, 1, n)
              queue == waiting \o Selected(arrived, {r \in Id : ~Rejected(r)})
              admitted == IF MaxBatchSize - Len(active) < Len(queue)
                          THEN MaxBatchSize - Len(active) ELSE Len(queue)
          IN  /\ waiting \o active = <<>> => n >= 1
              /\ incoming' = SubSeq(incoming, n + 1, Len(incoming))
              /\ active' = active \o SubSeq(queue, 1, admitted)
              /\ waiting' = SubSeq(queue, admitted + 1, Len(queue))
              /\ outcome' = [r \in Id |-> IF Contains(arrived, r) /\ Rejected(r)
                                          THEN "rejected" ELSE outcome[r]]
    /\ at' = IF active' = <<>> THEN "arrivals" ELSE "plan"
    /\ UNCHANGED <<requestVars, progressVars, native, worker>>

------------------------------------------------------------------------------
\* Planning a step

Replaying(r) == r \in DOMAIN replay
Decoding(r) == delivered[r] # <<>> /\ ~Replaying(r)
Prefilling(r) == delivered[r] = <<>> /\ ~Replaying(r)

Progress(r) == IF Replaying(r) THEN replay[r].progress ELSE prefilled[r]
Goal(r) == IF Replaying(r) THEN replay[r].target ELSE Len(prompt[r])

Item(r, kind, count) ==
    [id |-> r, kind |-> kind, start |-> Progress(r), count |-> count, target |-> Goal(r)]

Decodes ==
    LET ids == Selected(active, {r \in Id : Decoding(r)})
    IN  [i \in DOMAIN ids |-> Item(ids[i], "decode", 1)]

\* What was admitted before is restored before new prefills are served.
Candidates ==
    Selected(active, {r \in Id : Replaying(r)}) \o Selected(active, {r \in Id : Prefilling(r)})

\* A candidate gets what is left of the budget, at most a chunk.
Allotted(work, r) ==
    LET left  == Remaining(work)
        count == Smallest({Goal(r) - Progress(r), left, ChunkSize})
    IN  IF left = 0 THEN work
        ELSE Append(work, Item(r, IF Replaying(r) THEN "replay" ELSE "prefill", count))

\* make_work, which fails when the decodes alone exceed the budget.
OverBudget == Len(Decodes) > budget
Work == Iterated(Allotted, Decodes, Candidates)

\* can_step
PlannedTargets ==
    [i \in DOMAIN Work |-> [id |-> Work[i].id,
                            length |-> PlannedLength(Request(Work[i].id), Work[i])]]

CanStep == CanAppend(worker.cache, PlannedTargets)

\* What the scheduler and the worker may refuse before a step.
PlanFails ==
    \/ OverBudget \/ Work = <<>> \/ Shrinks(worker.cache, PlannedTargets)
    \/ ~CanStep /\ Len(active) = 1

\* Any error ends the schedule; the worker is cleared.
Failed == at' = "error" /\ worker' = ClearedWorker(worker)

------------------------------------------------------------------------------
\* Preemption

\* cached_length
CachedLength(r) ==
    IF delivered[r] # <<>> THEN Len(prompt[r]) + Len(delivered[r]) - 1 ELSE prefilled[r]

\* waiting.appendleft
Requeued(r) == <<r>> \o waiting

\* Mutant: the oldest request is preempted.
OldestActive == active[1]

Victim == Last(active)

\* "if target": something of the request was cached.
HasCached(r) == CachedLength(r) # 0

Preempt ==
    /\ at = "plan" /\ ~PlanFails /\ ~CanStep
    /\ active' = Selected(active, Id \ {Victim})
    /\ waiting' = Requeued(Victim)
    /\ replay' = IF HasCached(Victim)
                 THEN With(replay, Victim, [target |-> CachedLength(Victim), progress |-> 0])
                 ELSE replay
    /\ native' = native \ {Victim}
    /\ IF Victim \notin native THEN UNCHANGED <<worker, at>>
       ELSE IF Releasable(worker, Victim)
            THEN worker' = ReleasedWorker(worker, Victim) /\ UNCHANGED at
            ELSE Failed
    /\ UNCHANGED <<requestVars, incoming, prefilled, delivered, outcome>>

------------------------------------------------------------------------------
\* A step

\* What the results make of the requests; the finished ones are released.
StepDone(work, tokens, w) ==
    LET now     == Received(delivered, work, tokens)
        through == {r \in Served(work) : Len(now[r]) = wanted[r]}
        caught  == {r \in DOMAIN replay : replay[r].progress + Count(work, r, "replay") = replay[r].target}
        ended   == Selected([i \in DOMAIN work |-> work[i].id], through)
    IN  /\ delivered' = now
        /\ prefilled' = [r \in Id |-> prefilled[r] + Count(work, r, "prefill")]
        /\ replay' = [r \in DOMAIN replay \ caught |->
                         [replay[r] EXCEPT !.progress = @ + Count(work, r, "replay")]]
        /\ native' = (native \cup Served(work)) \ through
        /\ active' = Selected(active, Id \ through)
        /\ outcome' = [r \in Id |-> IF r \in through THEN "completed" ELSE outcome[r]]
        /\ IF \A r \in through : Releasable(w, r)
           THEN worker' = Iterated(ReleasedWorker, w, ended) /\ at' = "arrivals"
           ELSE Failed
        /\ UNCHANGED <<requestVars, incoming, waiting>>

Step ==
    /\ at = "plan" /\ (PlanFails \/ CanStep)
    /\ LET work == Work
           result == Stepped(worker, [i \in DOMAIN work |->
                                         BatchItem(Request(work[i].id), work[i])])
       IN  IF /\ ~PlanFails /\ result.ok
              /\ \A i \in DOMAIN work :
                    Emits(Request(work[i].id), work[i]) <=> result.tokens[i] # NoToken
           THEN StepDone(work, result.tokens, result.worker)
           ELSE /\ Failed
                /\ UNCHANGED <<requestVars, queueVars, progressVars, native, outcome>>

------------------------------------------------------------------------------

\* The loop ends; the worker is cleared.
Finish ==
    /\ at = "arrivals" /\ incoming \o waiting \o active = <<>>
    /\ at' = "done" /\ worker' = ClearedWorker(worker)
    /\ UNCHANGED <<requestVars, queueVars, progressVars, native, outcome>>

Next == Arrive \/ Preempt \/ Step \/ Finish

\* The schedule is one loop that runs on: weak fairness of Next, which is enabled
\* until the schedule has ended.
Fairness == []<>Ended \/ []<><<TRUE>>_vars
Spec == Init /\ [][Next]_vars /\ Fairness

------------------------------------------------------------------------------
\* Properties

\* Every queue, progress record and worker record is what the code keeps there.
TypeOK ==
    /\ {incoming, waiting, active} \subseteq Seq(Id)
    /\ prefilled \in [Id -> Nat] /\ delivered \in [Id -> Seq(Nat \ {0})]
    /\ DOMAIN replay \subseteq Id
    /\ \A r \in DOMAIN replay : replay[r].progress < replay[r].target
    /\ native \subseteq Id
    /\ outcome \in [Id -> {"", "rejected", "completed"}]
    /\ \A r \in DOMAIN worker.states : worker.states[r].history \in Seq(Nat \ {0})
    /\ at \in {"arrivals", "plan", "done", "error"}

\* The scheduler's native set, the worker's states and the cache's tables are about
\* the same requests, and the counters and the free list account for every table
\* and snapshot (dynamic_scheduler.py:120-123, 176-177; paged_kv_cache.h).
BlocksAccounted ==
    /\ TypeOK
    /\ at \in {"arrivals", "plan"} =>
          native = DOMAIN worker.states /\ native = DOMAIN worker.cache.tables
    /\ CountsHolders(worker.cache)

\* Preemption does not go on for ever, and no request whose worst case fits the pool
\* makes the schedule raise: the decodes never exceed the budget, the protected
\* request always fits, a step the worker said it can do it does (with the prefixes
\* it then takes over), worker and scheduler agree on every request's progress, no
\* shared block is written and no recomputed token differs from the one delivered.
\* The schedule ends, with an outcome for every request (dynamic_scheduler.py:63,
\* 88-180; tinyinfer_worker.cpp:92-107, 186; paged_kv_cache.h:110, 149).
ScheduleEnds == <>(at = "done" /\ \A r \in Id : outcome[r] # "")
==============================================================================
