-------------------------------- MODULE Engine -------------------------------
(***************************************************************************)
(* The generation engine of MiniPrefix (miniprefix/src/engine/engine.cpp)  *)
(* on top of a bounded model runner: submission, capacity-aware admission, *)
(* chunked prefill, decoding, terminal events, cancellation, shutdown and  *)
(* what happens when a runner call throws.  The scheduler                  *)
(* (miniprefix/src/scheduler/scheduler.cpp) tells it how many requests an  *)
(* iteration admits, in which order it serves the active ones, and how     *)
(* many input tokens each of them gets; it keeps no state of its own.      *)
(*                                                                         *)
(* The engine is single-threaded; a step is a sequence of runner calls,    *)
(* each of which may throw, so a step is a sequence of actions here, and   *)
(* `at` says where it stands.  All other calls happen outside a step.      *)
(*                                                                         *)
(* The runner is what ModelRunner promises (include/miniprefix/model.h) on *)
(* top of KVManager: resident sequences, page reservations, and pages that *)
(* diagnostic sequences hold outside the engine (apps/protocol).           *)
(***************************************************************************)
EXTENDS Naturals, SequencesExt, Maps

CONSTANTS
    MaxBatchSize,   \* most requests active at once
    TokenBudget,    \* input tokens of one iteration
    PrefillChunk,   \* most prompt tokens a request gets in one iteration
    Id,             \* request identifiers
    Prompt,         \* request -> number of prompt tokens, as submit validated it
    MaxNew,         \* request -> its max_new_tokens
    TotalPages,     \* pages of the runner's KV pool
    BlockTokens,    \* tokens per page
    Held            \* bound: the numbers of pages diagnostic sequences may hold

\* What Engine::submit and the constructors of the scheduler and the runner check.
ASSUME EngineAssumption ==
    /\ MaxBatchSize \in Nat \ {0}
    /\ TokenBudget \in Nat \ {0}
    /\ PrefillChunk \in Nat \ {0}
    /\ Prompt \in [Id -> Nat \ {0}]
    /\ MaxNew \in [Id -> Nat \ {0}]
    /\ TotalPages \in Nat \ {0}
    /\ BlockTokens \in Nat \ {0}
    /\ Held \subseteq 0 .. TotalPages /\ 0 \in Held

VARIABLES
    seen,           \* seen_: every id ever submitted
    waiting,        \* waiting_: submitted and not admitted, oldest first
    active,         \* active_: admitted requests
    state,          \* queued or active request -> prefilled, output, resident, finished
    events,         \* events_: request -> its events since the last poll
    delivered,      \* request -> its events the client has polled
    failed,         \* failed_: the engine is poisoned
    at,             \* where step() stands: "outside", "admit", "work" or "sample"
    slots,          \* requests this step may still admit
    order,          \* what is left of plan.order()
    budget,         \* what is left of the plan's token budget
    finish,         \* the finish reason just decided, "" when there is none
    live,           \* runner: resident sequence -> tokens in its KV
    reserved,       \* runner: request -> pages reserved for it
    held            \* runner: pages held by diagnostic sequences

requestVars == <<seen, waiting, active, state>>
eventVars == <<events, delivered>>
stepVars == <<at, slots, order, budget, finish>>
runnerVars == <<live, reserved, held>>
vars == <<requestVars, eventVars, failed, stepVars, runnerVars>>

------------------------------------------------------------------------------
\* The scheduler

AdmissionCount(running, queued) ==
    IF running >= MaxBatchSize THEN 0 ELSE Min({queued, MaxBatchSize - running})

\* SchedulePlan: decoding requests first, each phase in the order of active.
PlanOrder(batch, decoding) ==
    Selected(batch, decoding) \o Selected(batch, ToSet(batch) \ decoding)

\* SchedulePlan::take_input, with something left of the budget.
TakeInput(decoding, unprefilled, remaining) ==
    IF decoding THEN 1 ELSE Min({unprefilled, PrefillChunk, remaining})

------------------------------------------------------------------------------
\* The runner

PagesFor(n) == (n + BlockTokens - 1) \div BlockTokens

\* Mutant: the last prompt token is not counted either.
RequestTokensShort(id) == Prompt[id] + MaxNew[id] - 2

\* The KV a request needs: the final sampled token is never appended.
RequestTokens(id) == Prompt[id] + MaxNew[id] - 1

ReservedPages == SumFunction(reserved)

\* KVManager::reserve_request, as the engine sees it.
Admission(id) ==
    LET pages == PagesFor(RequestTokens(id))
    IN  CASE pages > TotalPages -> "Impossible"
          [] pages <= TotalPages /\ held + ReservedPages + pages > TotalPages -> "Wait"
          [] OTHER -> "Ready"

\* A diagnostic command grows, shares or releases sequences of its own; it
\* cannot take what is reserved.
Diagnose ==
    /\ at = "outside" /\ ~failed
    /\ \E pages \in Held \ {held} : /\ pages <= TotalPages - ReservedPages
                                    /\ held' = pages
    /\ UNCHANGED <<requestVars, eventVars, failed, stepVars, live, reserved>>

------------------------------------------------------------------------------
\* Terminal events

Aborted(reason) == [token |-> 0, reason |-> reason]

\* Mutant: terminal does not look at `finished`.
EvenFinished(ids) == ids

\* Requests that are queued or active and have no terminal event yet.
Unfinished(ids) == {id \in ids : ~state[id].finished}

\* events_ with the same event for every request of ids.
Notified(ids, event) ==
    [id \in Id |-> IF id \in ids THEN Append(events[id], event) ELSE events[id]]

\* state with the requests of ids marked finished and no longer resident.
Finished(ids) ==
    [id \in DOMAIN state |-> IF id \in ids THEN [state[id] EXCEPT !.finished = TRUE,
                                                                 !.resident = FALSE]
                                           ELSE state[id]]

\* Mutant: a request ends without its sequence being released.
TerminalKeepsSequence(ids, event) ==
    /\ live' = live
    /\ reserved' = Without(reserved, ids)
    /\ events' = Notified(ids, event)

\* terminal(), when the runner's release does not throw: the sequences go
\* first, then the reservations, then the events are queued.
Terminal(ids, event) ==
    /\ live' = Without(live, ids)
    /\ reserved' = Without(reserved, ids)
    /\ events' = Notified(ids, event)

\* remove_finished, after the requests of ids ended.
Removed(queue, ids) == Selected(queue, ToSet(queue) \ ids)
Queued == ToSet(waiting) \cup ToSet(active)

------------------------------------------------------------------------------
\* Client calls

Submit(id) ==
    /\ at = "outside" /\ ~failed
    /\ id \notin seen
    /\ seen' = seen \cup {id}
    /\ waiting' = Append(waiting, id)
    /\ state' = With(state, id, [prefilled |-> 0, output |-> 0,
                                resident |-> FALSE, finished |-> FALSE])
    /\ UNCHANGED <<active, eventVars, failed, stepVars, runnerVars>>

\* poll_events moves the queue to the client.
PollEvents ==
    /\ at = "outside"
    /\ \E id \in Id : events[id] # <<>>
    /\ delivered' = [id \in Id |-> delivered[id] \o events[id]]
    /\ events' = [id \in Id |-> <<>>]
    /\ UNCHANGED <<requestVars, failed, stepVars, runnerVars>>

\* cancel: when the runner cannot release the sequence it throws, and nothing
\* has changed.
Cancel(id) ==
    /\ at = "outside"
    /\ id \in Queued
    /\ Terminal({id}, Aborted("Cancelled"))
    /\ waiting' = Removed(waiting, {id})
    /\ active' = Removed(active, {id})
    /\ state' = Without(state, {id})
    /\ UNCHANGED <<seen, delivered, failed, stepVars, held>>

\* shutdown: every request is cancelled, active ones first, and the runner is
\* cleared, unless clear throws.
Shutdown ==
    /\ at = "outside"
    /\ events' = Notified(Queued, Aborted("Cancelled"))
    /\ waiting' = <<>> /\ active' = <<>> /\ state' = <<>>
    /\ \/ live' = <<>> /\ reserved' = <<>> /\ held' = 0
       \/ live' = Without(live, Queued) /\ reserved' = Without(reserved, Queued) /\ held' = held
    /\ UNCHANGED <<seen, delivered, failed, stepVars>>

\* shutdown throws because the runner cannot release the (k+1)-th active
\* request: the first k are gone, the others stay and may be stepped again.
ShutdownFails(k) ==
    LET gone == ToSet(SubSeq(active, 1, k))
    IN  /\ at = "outside"
        /\ k < Len(active) /\ state[active[k + 1]].resident
        /\ Terminal(gone, Aborted("Cancelled"))
        /\ active' = Removed(active, gone)
        /\ state' = Without(state, gone)
        /\ UNCHANGED <<seen, waiting, delivered, failed, stepVars, held>>

------------------------------------------------------------------------------
\* step(): admission

Decoding == {id \in Queued : state[id].output > 0}

BeginStep ==
    /\ at = "outside" /\ ~failed
    /\ Queued # {}
    /\ at' = "admit"
    /\ slots' = AdmissionCount(Len(active), Len(waiting))
    /\ UNCHANGED <<requestVars, eventVars, failed, order, budget, finish, runnerVars>>

Candidate == at = "admit" /\ slots > 0 /\ waiting # <<>>

\* The oldest waiting request gets its reservation and a slot.
Admit ==
    /\ Candidate
    /\ Admission(Head(waiting)) = "Ready"
    /\ reserved' = With(reserved, Head(waiting), PagesFor(RequestTokens(Head(waiting))))
    /\ active' = Append(active, Head(waiting))
    /\ waiting' = Tail(waiting)
    /\ slots' = slots - 1
    /\ UNCHANGED <<seen, state, eventVars, failed, at, order, budget, finish, live, held>>

\* Mutant: the head of the queue waits even when nothing is active.
WaitsAnyway(id) == Admission(id) = "Wait"

\* The head of the queue must wait for an active request to free its pages.
MustWait(id) == Admission(id) = "Wait" /\ active # <<>>

\* It will never fit, or nothing the engine runs can make room: an error event.
Reject ==
    /\ Candidate
    /\ Admission(Head(waiting)) # "Ready" /\ ~MustWait(Head(waiting))
    /\ Terminal({Head(waiting)}, Aborted("Error"))
    /\ state' = Without(state, {Head(waiting)})
    /\ waiting' = Tail(waiting)
    /\ UNCHANGED <<seen, active, delivered, failed, stepVars, held>>

\* Admission is over: plan the work, or return when nothing is active.
PlanWork ==
    /\ at = "admit"
    /\ Candidate => MustWait(Head(waiting))
    /\ IF active = <<>>
       THEN at' = "outside" /\ UNCHANGED <<order, budget>>
       ELSE /\ at' = "work"
            /\ order' = PlanOrder(active, Decoding)
            /\ budget' = TokenBudget
    /\ slots' = 0
    /\ UNCHANGED <<requestVars, eventVars, failed, finish, runnerVars>>

------------------------------------------------------------------------------
\* step(): the work of one iteration

Working == at = "work" /\ order # <<>> /\ budget > 0

\* restore_prefix: create the sequence and reuse a prefix that leaves at least
\* one prompt token to compute (KVManager::reuse_prefix).
Restore ==
    LET id == Head(order)
    IN  /\ Working
        /\ ~state[id].resident
        /\ \E reused \in 0 .. Prompt[id] - 1 :
              /\ live' = With(live, id, reused)
              /\ state' = [state EXCEPT ![id].resident = TRUE, ![id].prefilled = reused]
        /\ UNCHANGED <<seen, waiting, active, eventVars, failed, stepVars, reserved, held>>

\* append: prompt tokens within the chunk and the budget, or the last output
\* token.  The logits of a finished prompt or of a decode step are sampled.
Forward ==
    LET id       == Head(order)
        decoding == state[id].output > 0
        count    == TakeInput(decoding, Prompt[id] - state[id].prefilled, budget)
        prefill  == IF decoding THEN 0 ELSE count
    IN  /\ Working
        /\ state[id].resident
        /\ live' = [live EXCEPT ![id] = @ + count]
        /\ state' = [state EXCEPT ![id].prefilled = @ + prefill]
        /\ budget' = budget - count
        /\ IF state[id].prefilled + prefill < Prompt[id]
           THEN order' = Tail(order) /\ at' = at
           ELSE order' = order /\ at' = "sample"
        /\ UNCHANGED <<seen, waiting, active, eventVars, failed, slots, finish, reserved, held>>

\* Why a request ends after its n-th token, which is the EOS token or not.
FinishReason(id, n, eos) ==
    CASE eos -> "Eos" [] ~eos /\ n = MaxNew[id] -> "Length" [] OTHER -> ""

\* cache_prefix publishes the KV, the next token is sampled: it is queued for
\* the client here unless it is the last one.
Sample ==
    LET id == Head(order)
        n  == state[id].output + 1
    IN  /\ at = "sample" /\ finish = ""
        /\ state' = [state EXCEPT ![id].output = n]
        /\ \E eos \in BOOLEAN :
              IF FinishReason(id, n, eos) = ""
              THEN /\ events' = Notified({id}, [token |-> n, reason |-> ""])
                   /\ order' = Tail(order) /\ at' = "work"
                   /\ UNCHANGED finish
              ELSE /\ finish' = FinishReason(id, n, eos)
                   /\ UNCHANGED <<events, order, at>>
        /\ UNCHANGED <<seen, waiting, active, delivered, failed, slots, budget, runnerVars>>

\* The last token leaves with the terminal event, once the runner released the
\* sequence.
Finish ==
    LET id == Head(order)
    IN  /\ at = "sample" /\ finish # ""
        /\ Terminal({id}, [token |-> state[id].output, reason |-> finish])
        /\ state' = Finished({id})
        /\ order' = Tail(order) /\ at' = "work" /\ finish' = ""
        /\ UNCHANGED <<seen, waiting, active, delivered, failed, slots, budget, held>>

\* A runner call throws KvCapacityError: only this request fails.  The budget
\* of a failed append is spent.
Isolate ==
    LET id    == Head(order)
        count == TakeInput(state[id].output > 0, Prompt[id] - state[id].prefilled, budget)
    IN  /\ Working
        /\ Terminal({id}, Aborted("Error"))
        /\ state' = Finished({id})
        /\ budget' = IF state[id].resident THEN budget - count ELSE budget
        /\ order' = Tail(order)
        /\ UNCHANGED <<seen, waiting, active, delivered, failed, at, slots, finish, held>>

\* The iteration ends with the budget or the plan: remove_finished.
EndStep ==
    LET done == {id \in ToSet(active) : state[id].finished}
    IN  /\ at = "work" /\ (order = <<>> \/ budget = 0)
        /\ active' = Removed(active, done)
        /\ state' = Without(state, done)
        /\ at' = "outside" /\ order' = <<>> /\ budget' = 0
        /\ UNCHANGED <<seen, waiting, eventVars, failed, slots, finish, runnerVars>>

\* Any other exception of a runner call, a failed release included: the engine
\* is poisoned, the runner is cleared if it can be, every request that has no
\* terminal event gets an error, and its reservation is dropped even when its
\* sequence could not be released.
Fatal ==
    /\ Candidate \/ Working \/ at = "sample"
    /\ failed' = TRUE
    /\ \/ live' = <<>> /\ held' = 0
       \/ UNCHANGED <<live, held>>
    /\ reserved' = Without(reserved, Unfinished(Queued))
    /\ events' = Notified(Unfinished(Queued), Aborted("Error"))
    /\ waiting' = <<>> /\ active' = <<>> /\ state' = <<>>
    /\ at' = "outside" /\ slots' = 0 /\ order' = <<>> /\ budget' = 0 /\ finish' = ""
    /\ UNCHANGED <<seen, delivered>>

------------------------------------------------------------------------------

Init ==
    /\ seen = {} /\ waiting = <<>> /\ active = <<>> /\ state = <<>>
    /\ events = [id \in Id |-> <<>>] /\ delivered = events
    /\ failed = FALSE
    /\ at = "outside" /\ slots = 0 /\ order = <<>> /\ budget = 0 /\ finish = ""
    /\ live = <<>> /\ reserved = <<>> /\ held = 0

Step ==
    \/ BeginStep \/ Admit \/ Reject \/ PlanWork
    \/ Restore \/ Forward \/ Sample \/ Finish \/ Isolate \/ EndStep \/ Fatal

Client ==
    \/ \E id \in Id : Submit(id) \/ Cancel(id)
    \/ PollEvents
    \/ Shutdown
    \/ \E k \in 0 .. Len(active) - 1 : ShutdownFails(k)
    \/ Diagnose

Next == Step \/ Client

Spec == Init /\ [][Next]_vars

\* A client that drives the engine calls step() as long as a request is open;
\* a step, once begun, runs to its end.
FairSpec == Spec /\ WF_vars(Step)

------------------------------------------------------------------------------
\* Properties

\* Every queue, counter and table has its type; nothing is queued twice, the
\* batch limit holds, and no request gets more input than the budget has left.
TypeOK ==
    /\ seen \subseteq Id /\ failed \in BOOLEAN
    /\ DOMAIN state = Queued /\ Queued \subseteq seen
    /\ IsInjective(waiting \o active) /\ Len(active) <= MaxBatchSize
    /\ \A id \in Queued :
          state[id] \in [prefilled : 0 .. Prompt[id], output : 0 .. MaxNew[id],
                        resident : BOOLEAN, finished : BOOLEAN]
    /\ at \in {"outside", "admit", "work", "sample"}
    /\ finish \in {"", "Eos", "Length"}
    /\ slots \in 0 .. MaxBatchSize /\ budget \in 0 .. TokenBudget
    /\ ToSet(order) \subseteq ToSet(active)
    /\ held \in 0 .. TotalPages
    /\ \A id \in DOMAIN live : live[id] \in Nat
    /\ \A id \in DOMAIN reserved : reserved[id] \in Nat

\* The runner holds exactly what the open requests account for, through every
\* isolated failure, cancellation, partial shutdown and restart of a step: a
\* resident sequence has the KV of the prompt tokens and of every output token
\* but the last, and nothing else is resident.  Only a failed engine whose
\* runner could not be cleared may leave sequences behind.
KVMatchesHistory ==
    /\ TypeOK
    /\ \A id \in Queued :
          state[id].resident =>
              /\ id \in DOMAIN live
              /\ LET n == state[id].output
                     sampled == at = "sample" /\ finish = "" /\ order # <<>> /\ Head(order) = id
                 IN  live[id] = IF n = 0 THEN state[id].prefilled
                                ELSE Prompt[id] + n - (IF sampled THEN 0 ELSE 1)
    /\ ~failed => DOMAIN live = {id \in Queued : state[id].resident}

\* A reservation lives exactly as long as its request is admitted and open,
\* also across failures, and covers all the KV the request ever has: with what
\* diagnostics hold, the pool never runs out.
ReservationsCoverRequests ==
    /\ DOMAIN reserved = Unfinished(ToSet(active))
    /\ \A id \in DOMAIN reserved :
          id \in DOMAIN live => PagesFor(live[id]) <= reserved[id]
    /\ held + ReservedPages <= TotalPages

\* The streams of the clients: what was polled, then what is still queued.
Streams == [id \in seen |-> delivered[id] \o events[id]]
Service == INSTANCE GenerationService WITH stream <- Streams

\* request.h:29: an output token is emitted exactly once, in order, and a
\* request ends with exactly one terminal event, whichever call or failure ends
\* it.
ImplementsGenerationService == Service!Spec

\* docs/capacity_admission.md: as long as step is called, every submitted request
\* ends, whatever is cancelled, held by diagnostics or fails meanwhile: nobody
\* waits for pages for ever and no prompt starves behind decoding requests.
EveryRequestEnds ==
    \A id \in Id : id \in seen ~> (id \in seen /\ Service!Over(Streams[id]))
==============================================================================
