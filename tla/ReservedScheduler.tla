--------------------------- MODULE ReservedScheduler ---------------------------
(***************************************************************************)
(* The reserving schedule of the serving example (_schedule in             *)
(* examples/serving_scheduler/scheduler.py) with its KVCache of block      *)
(* reservations (kv_cache.py), in front of a paged worker as serve         *)
(* (realtime.py) sets it up: a request is admitted when its worst case can *)
(* be reserved, in static cohorts or continuously, and a head of the queue *)
(* that does not fit waits or is rejected.                                 *)
(*                                                                         *)
(* A token budget or a chunk size of None is one that no step exceeds:     *)
(* every prefill is then served whole, in an order that does not matter.   *)
(* In paged serving the capacity is never None.                            *)
(***************************************************************************)
EXTENDS ServingBackend

VARIABLES
    mode,           \* mode: "static" or "continuous"
    policy,         \* kv_policy: "wait" or "reject"
    lastPrefill,    \* last_prefill_id: at most one request
    reservations,   \* KVCache: request -> blocks
    used            \* KVCache: used_blocks

setupVars == <<prompt, wanted, mode, policy, budget>>
servedVars == <<prefilled, delivered, lastPrefill>>
cacheVars == <<reservations, used>>
reservedVars == <<setupVars, queueVars, servedVars, cacheVars, outcome, worker, at>>

ReservedInit ==
    /\ ScheduleBegins
    /\ mode \in {"static", "continuous"} /\ policy \in {"wait", "reject"}
    /\ lastPrefill = {} /\ reservations = <<>> /\ used = 0

\* The end of the schedule, by return or by an error: the worker is cleared and
\* what is reserved is released.
CleanedUp(how) ==
    /\ at' = how /\ worker' = ClearedWorker(worker)
    /\ reservations' = <<>> /\ used' = used - SumFunction(reservations)

------------------------------------------------------------------------------
\* Arrivals and admission

\* KVCache.required_blocks
RequiredBlocks(r) == NeededBlocks(Request(r))

\* KVCache.can_ever_fit
CanEverFit(r) == RequiredBlocks(r) <= Blocks

\* Mutant: only the blocks of the prompt are reserved.
PromptBlocks(r) == BlocksFor(Len(prompt[r]))

\* KVCache.reserve: what the reservation takes.
ReservedBlocks(r) == RequiredBlocks(r)

Fits(state, r) == ReservedBlocks(r) <= Blocks - state.used

\* Mutant: those behind a head that waits may pass it.
Bypassed(state, r) == [state EXCEPT !.waiting = Append(@, r)]

\* "Strict FIFO: no bypass around a temporarily blocked head."
Blocked(state, r) == [state EXCEPT !.waiting = Append(@, r), !.stopped = TRUE]

\* One look at the head of the queue.
AdmitHead(state, r) ==
    IF state.stopped \/ Len(state.active) >= MaxBatchSize
    THEN [state EXCEPT !.waiting = Append(@, r)]
    ELSE IF Fits(state, r)
    THEN [state EXCEPT !.active = Append(@, r), !.used = @ + ReservedBlocks(r),
                       !.reservations = With(@, r, ReservedBlocks(r))]
    ELSE IF policy = "reject" THEN [state EXCEPT !.rejected = @ \cup {r}]
    ELSE Blocked(state, r)

Admission(queue) ==
    Iterated(AdmitHead,
             [active |-> active, waiting |-> <<>>, rejected |-> {},
              reservations |-> reservations, used |-> used,
              stopped |-> mode = "static" /\ active # <<>>],
             queue)

\* The head of the loop.  When nothing is active and the queue's head waits, the
\* schedule raises.
Admit ==
    /\ at = "arrivals" /\ incoming \o waiting \o active # <<>>
    /\ \E n \in 0 .. Len(incoming) :
          LET arrived  == SubSeq(incoming, 1, n)
              admitted == Admission(waiting \o Selected(arrived, {r \in Id : CanEverFit(r)}))
          IN  /\ waiting \o active = <<>> => n >= 1
              /\ incoming' = SubSeq(incoming, n + 1, Len(incoming))
              /\ active' = admitted.active /\ waiting' = admitted.waiting
              /\ outcome' = [r \in Id |->
                    IF Contains(arrived, r) /\ ~CanEverFit(r) THEN "too large"
                    ELSE IF r \in admitted.rejected THEN "unavailable" ELSE outcome[r]]
              /\ IF admitted.active = <<>> /\ admitted.waiting # <<>> THEN CleanedUp("error")
                 ELSE /\ at' = IF admitted.active = <<>> THEN "arrivals" ELSE "work"
                      /\ reservations' = admitted.reservations /\ used' = admitted.used
                      /\ UNCHANGED worker
    /\ UNCHANGED <<setupVars, servedVars>>

------------------------------------------------------------------------------
\* A step

HasOutput(r) == delivered[r] # <<>>
HasNone(r) == delivered[r] = <<>>

WorkItem(r, kind, count) ==
    [id |-> r, kind |-> kind, start |-> prefilled[r], count |-> count, target |-> 0]

DecodeItems ==
    LET ids == Selected(active, {r \in Id : HasOutput(r)})
    IN  [i \in DOMAIN ids |-> WorkItem(ids[i], "decode", 1)]

\* The prefills, from the one after the last served on.
RoundRobin ==
    LET ids == Selected(active, {r \in Id : HasNone(r)})
        start == CHOOSE i \in 0 .. Len(ids) :
                     IF ToSet(ids) \cap lastPrefill = {} THEN i = 0
                     ELSE i > 0 /\ ids[i] \in lastPrefill
    IN  SubSeq(ids, start + 1, Len(ids)) \o SubSeq(ids, 1, start)

\* A prefill gets what is left of the budget, at most a chunk.
AllottedPrefill(work, r) ==
    LET left  == Remaining(work)
        count == Smallest({Len(prompt[r]) - prefilled[r], left, ChunkSize})
    IN  IF left = 0 THEN work ELSE Append(work, WorkItem(r, "prefill", count))

BatchWork == Iterated(AllottedPrefill, DecodeItems, RoundRobin)

\* "decode count exceeds token budget invariant", "failed to make progress"
WorkFails == Len(DecodeItems) > budget \/ BatchWork = <<>>

LastServed(work) ==
    IF work # <<>> /\ Last(work).kind = "prefill" THEN {Last(work).id} ELSE lastPrefill

\* Mutant: a finished request keeps its reservation.
NothingFreed(through) == {}

\* Whose reservations are released after a step.
Freed(through) == through

\* What the results make of the requests; the finished ones release the worker's
\* memory and their reservation.
BatchDone(work, tokens, w) ==
    LET now     == Received(delivered, work, tokens)
        through == {r \in Served(work) : Len(now[r]) = wanted[r]}
        ended   == Selected([i \in DOMAIN work |-> work[i].id], through)
    IN  /\ delivered' = now
        /\ prefilled' = [r \in Id |-> prefilled[r] + Count(work, r, "prefill")]
        /\ lastPrefill' = LastServed(work)
        /\ active' = Selected(active, Id \ through)
        /\ outcome' = [r \in Id |-> IF r \in through THEN "completed" ELSE outcome[r]]
        /\ IF \A r \in through : Releasable(w, r) /\ r \in DOMAIN reservations
           THEN /\ worker' = Iterated(ReleasedWorker, w, ended) /\ at' = "arrivals"
                /\ reservations' = Without(reservations, Freed(through))
                /\ used' = used - SumFunctionOnSet(reservations, Freed(through))
           ELSE CleanedUp("error")
        /\ UNCHANGED <<setupVars, incoming, waiting>>

RunBatch ==
    /\ at = "work"
    /\ LET work == BatchWork
           result == Stepped(worker, [i \in DOMAIN work |->
                                         BatchItem(Request(work[i].id), work[i])])
       IN  IF /\ ~WorkFails /\ result.ok
              /\ \A i \in DOMAIN work :
                    Emits(Request(work[i].id), work[i]) <=> result.tokens[i] # NoToken
           THEN BatchDone(work, result.tokens, result.worker)
           ELSE /\ CleanedUp("error")
                /\ UNCHANGED <<setupVars, queueVars, servedVars, outcome>>

EndSchedule ==
    /\ at = "arrivals" /\ incoming \o waiting \o active = <<>>
    /\ CleanedUp("done")
    /\ UNCHANGED <<setupVars, queueVars, servedVars, outcome>>

ReservedNext == Admit \/ RunBatch \/ EndSchedule

\* The schedule is one loop that runs on: weak fairness of ReservedNext, which is enabled
\* until the schedule has ended.
ReservedFairness == []<>Ended \/ []<><<TRUE>>_reservedVars
ReservedSpec == ReservedInit /\ [][ReservedNext]_reservedVars /\ ReservedFairness

------------------------------------------------------------------------------
\* Properties

\* Every queue, progress record and reservation is what the code keeps there.
ReservedTypeOK ==
    /\ {incoming, waiting, active} \subseteq Seq(Id)
    /\ \A r \in Id : prefilled[r] \in 0 .. Len(prompt[r])
    /\ delivered \in [Id -> Seq(Nat \ {0})]
    /\ lastPrefill \subseteq Id /\ Cardinality(lastPrefill) <= 1
    /\ DOMAIN reservations \subseteq Id /\ used \in 0 .. Blocks
    /\ outcome \in [Id -> {"", "too large", "unavailable", "completed"}]
    /\ at \in {"arrivals", "work", "done", "error"}

\* The reservations are those of the active requests, add up to used_blocks, and
\* cover every block table of the worker; after an error nothing is reserved
\* (kv_cache.py:48-66, scheduler.py:117, 205).
ReservationsCoverTables ==
    /\ ReservedTypeOK
    /\ used = SumFunction(reservations)
    /\ DOMAIN reservations = IF at = "error" THEN {} ELSE ToSet(active)
    /\ \A r \in DOMAIN worker.cache.tables :
          r \in DOMAIN reservations /\ Len(worker.cache.tables[r]) <= reservations[r]

\* Strict FIFO: the active, the waiting and the incoming requests are, in this
\* order, those without an outcome in the order of their arrival: nobody passes a
\* head that waits, in static mode nobody joins a cohort late (scheduler.py:127).
OldestFirst ==
    active \o waiting \o incoming = Selected([i \in Id |-> i], {r \in Id : outcome[r] = ""})

\* The schedule ends, and never raises, with an outcome for every request, and under
\* the wait policy nobody that can fit is rejected: a head that can fit is never
\* stuck in front of an empty cache, decodes alone never exceed the token budget,
\* and the worker's pool never runs out, also while snapshots hold blocks nobody
\* reserved (scheduler.py:96-207; paged_kv_cache.h:110).
ReservedScheduleEnds ==
    <>(/\ at = "done"
       /\ \A r \in Id : outcome[r] \in
             IF ~CanEverFit(r) THEN {"too large"}
             ELSE IF policy = "wait" THEN {"completed"} ELSE {"completed", "unavailable"})
==============================================================================
