----------------------------- MODULE WorkerSession -----------------------------
(***************************************************************************)
(* The Python client (miniprefix/bindings/python/client.py), the worker    *)
(* process it starts, and the session loop of that worker                  *)
(* (miniprefix/apps/worker.cpp, apps/protocol): a line is a command, each  *)
(* is answered by one line, over two pipes.  The worker may die and the    *)
(* caller be interrupted at any moment of a call.                          *)
(*                                                                         *)
(* The engine behind the loop is what GenerationService promises: a step   *)
(* carries each open request forward by an event or not at all.  Calls     *)
(* that reach it may throw; an answer carries what the client reads of it. *)
(***************************************************************************)
EXTENDS Naturals, Sequences, FiniteSets, Functions, Maps

CONSTANTS
    Request,    \* the request ids of the caller
    Sequence,   \* its diagnostic sequence ids
    MaxNew      \* tokens a request generates at most

VARIABLES
    mode,       \* of the client: "open", "waiting" or "killing" in close, "closed", "dropped"
    call,       \* the command whose answer the client waits for, and the request it submits
    ids,        \* request -> the handle the worker knows it by
    pending,    \* requests whose terminal event was not received
    sequences,  \* diagnostics: sequence -> its handle
    received,   \* request -> its events
    requests,   \* the pipe to the worker
    answers,    \* the pipe from it
    worker,     \* "starting", "up" or "exited"
    signal,     \* what close sent to the process: "none", "term" or "kill"
    reply,      \* the answer the loop has not written yet, if any
    emitted,    \* handle -> the events the engine ever made for it
    events,     \* events_: handle -> those not polled yet
    failed,     \* the engine is poisoned
    created,    \* created_: the handles the diagnostics created
    resident    \* the diagnostic sequences the runner has

clientVars == <<mode, call, ids, pending, sequences, received>>
engineVars == <<emitted, events, failed>>
runnerVars == <<created, resident>>
vars == <<clientVars, requests, answers, worker, signal, reply, engineVars, runnerVars>>

Command(kind, handle) == [kind |-> kind, handle |-> handle]
Call(command, submitted) ==
    [kind |-> command.kind, handle |-> command.handle, submitted |-> submitted]
NoCall == Call(Command("none", 0), {})
Ready  == Call(Command("ready", 0), {})

Answer(status, carried) == [status |-> status, events |-> carried]
Failure == Answer("ERROR", << >>)

Over(stream) == stream # <<>> /\ stream[Len(stream)].reason # ""

------------------------------------------------------------------------------
\* The client: calls

\* _command: a line is written if the worker still runs.
Send(command, submitted) ==
    /\ mode = "open" /\ call = NoCall
    /\ worker # "exited"
    /\ call' = Call(command, submitted)
    /\ requests' = Append(requests, command)
    /\ UNCHANGED <<mode, ids, pending, received, answers, worker, signal, reply,
                   engineVars, runnerVars>>

\* The handle of a request is known before its id is entered.
Submit(r) ==
    /\ r \notin DOMAIN ids
    /\ Send(Command("submit", Cardinality(DOMAIN ids) + 1), {r})
    /\ UNCHANGED sequences

\* step, and the reads of statistics.
Ask(kind) == Send(Command(kind, 0), {}) /\ UNCHANGED sequences

Cancel(r) ==
    /\ r \in DOMAIN ids
    /\ Send(Command("cancel", ids[r]), {})
    /\ UNCHANGED sequences

\* forward and reuse_prefix enter the sequence before they send anything.
Forward(s) ==
    /\ sequences' = IF s \in DOMAIN sequences THEN sequences
                    ELSE With(sequences, s, Cardinality(DOMAIN sequences) + 1)
    /\ Send(Command("forward", sequences'[s]), {})

\* cache_prefix and release.
Diagnose(kind, s) ==
    /\ s \in DOMAIN sequences
    /\ Send(Command(kind, sequences[s]), {})
    /\ UNCHANGED sequences

\* A submitted request is entered under the handle that was sent.
Entered(r) ==
    /\ ids' = With(ids, r, call.handle)
    /\ pending' = pending \cup {r}
    /\ received' = With(received, r, <<>>)

\* _events: the events of an answer, by the requests they are about.
Delivered(carried) ==
    LET new(r) == IF ids[r] \in DOMAIN carried THEN carried[ids[r]] ELSE <<>>
    IN  /\ received' = [r \in DOMAIN ids |-> received[r] \o new(r)]
        /\ pending' = {r \in pending : ~Over(new(r))}
        /\ UNCHANGED ids

\* The answer is read: an error is raised, any other takes effect.
Receive ==
    /\ mode = "open" /\ call # NoCall /\ answers # <<>>
    /\ answers' = Tail(answers)
    /\ call' = NoCall
    /\ LET ok == Head(answers).status = "OK"
       IN  /\ IF ok /\ call.kind = "submit"
              THEN \E r \in call.submitted : Entered(r)
              ELSE IF ok /\ call.kind \in {"step", "cancel"}
                   THEN Delivered(Head(answers).events)
                   ELSE UNCHANGED <<ids, pending, received>>
           /\ mode' = IF call.kind # "quit" THEN "open" ELSE IF ok THEN "waiting" ELSE "killing"
           /\ signal' = IF call.kind = "quit" /\ ~ok THEN "kill" ELSE signal
    /\ UNCHANGED <<sequences, requests, worker, reply, engineVars, runnerVars>>

------------------------------------------------------------------------------
\* The client: close

\* close(force=True): a process that exited is reaped at once, any other is
\* terminated.
Forced ==
    /\ call' = NoCall
    /\ IF worker = "exited" THEN mode' = "closed" /\ UNCHANGED signal
                            ELSE mode' = "waiting" /\ signal' = "term"
    /\ UNCHANGED <<ids, pending, sequences, received, requests, answers, worker, reply,
                   engineVars, runnerVars>>

\* The pipe ends instead of an answer.
ReadEnd ==
    /\ mode = "open" /\ call # NoCall
    /\ worker = "exited" /\ answers = <<>>
    /\ Forced

\* Mutant: an interrupted call leaves the worker alone.
JustRaises ==
    /\ call' = NoCall
    /\ UNCHANGED <<mode, ids, pending, sequences, received, requests, answers, worker, signal,
                   reply, engineVars, runnerVars>>

\* A caller interrupted in a call gives the worker up: its answer would be
\* taken for that of the next call.
GivesUp == Forced

Interrupt == mode = "open" /\ call \notin {NoCall, Ready} /\ GivesUp

\* __exit__ on an exception of the caller.
CloseForced == mode = "open" /\ call = NoCall /\ Forced

\* An interrupted constructor leaves no object to close: the pipes go with it.
InterruptStart ==
    /\ mode = "open" /\ call = Ready
    /\ mode' = "dropped" /\ call' = NoCall
    /\ UNCHANGED <<ids, pending, sequences, received, requests, answers, worker, signal, reply,
                   engineVars, runnerVars>>

\* Mutant: close waits for the process without a limit.
KeepsWaiting == FALSE /\ UNCHANGED vars

\* Ten seconds pass, or the caller interrupts again: the process is killed.
WaitTimesOut ==
    /\ mode = "waiting" /\ worker # "exited"
    /\ mode' = "killing" /\ signal' = "kill"
    /\ UNCHANGED <<call, ids, pending, sequences, received, requests, answers, worker, reply,
                   engineVars, runnerVars>>

Reap ==
    /\ mode \in {"waiting", "killing"} /\ worker = "exited"
    /\ mode' = "closed"
    /\ UNCHANGED <<call, ids, pending, sequences, received, requests, answers, worker, signal, reply,
                   engineVars, runnerVars>>

------------------------------------------------------------------------------
\* The worker process

\* main: the model is loaded, or it is not.
Start ==
    /\ worker = "starting"
    /\ \/ worker' = "up" /\ answers' = Append(answers, Answer("OK", << >>))
       \/ worker' = "exited" /\ UNCHANGED answers
    /\ UNCHANGED <<clientVars, requests, signal, reply, engineVars, runnerVars>>

\* It dies of what it computes, of a signal, or is killed by the system.
Exits ==
    /\ worker' = "exited" /\ reply' = <<>>
    /\ UNCHANGED <<clientVars, requests, answers, signal, engineVars, runnerVars>>
Crash  == worker # "exited" /\ signal # "kill" /\ Exits
Killed == worker # "exited" /\ signal = "kill" /\ Exits

\* getline finds the end of a pipe nobody writes to.
EndOfInput == worker = "up" /\ mode = "dropped" /\ requests = <<>> /\ reply = <<>> /\ Exits

\* The loop writes its answer; after a QUIT it returns.
Flush ==
    /\ worker = "up" /\ reply # <<>>
    /\ answers' = Append(answers, reply[1].answer)
    /\ reply' = <<>>
    /\ worker' = IF reply[1].last THEN "exited" ELSE worker
    /\ UNCHANGED <<clientVars, requests, signal, engineVars, runnerVars>>

------------------------------------------------------------------------------
\* The session loop

\* What the loop does with the next line.
Serving(command) ==
    /\ worker = "up" /\ reply = <<>>
    /\ requests # <<>> /\ command = Head(requests)
    /\ requests' = Tail(requests)
    /\ UNCHANGED <<clientVars, answers, worker, signal>>

Ends(answer, last) == reply' = <<[answer |-> answer, last |-> last]>>
Replies(answer) == Ends(answer, FALSE)

\* Mutant: the answer to a CANCEL carries no events.
PolledByStep(kind, queue) == IF kind = "step" THEN queue ELSE << >>

\* poll_events: the answers to STEP and CANCEL carry what is queued.
Polled(kind, queue) == IF kind \in {"step", "cancel"} THEN queue ELSE << >>

\* events_ with more, and what an answer leaves of it.
Queued(more) == [h \in DOMAIN emitted |-> events[h] \o more[h]]
Left(queue, polled) == [h \in DOMAIN queue |-> IF h \in DOMAIN polled THEN <<>> ELSE queue[h]]

\* The engine makes events, and the answer takes what it takes of the queue.
Makes(kind, more) ==
    LET polled == Polled(kind, Queued(more))
    IN  /\ emitted' = [h \in DOMAIN emitted |-> emitted[h] \o more[h]]
        /\ events' = Left(Queued(more), polled)
        /\ Replies(Answer("OK", polled))

\* A call that throws: what is queued stays queued.
Throws == Replies(Failure) /\ UNCHANGED <<engineVars, runnerVars>>

Open == {h \in DOMAIN emitted : ~Over(emitted[h])}
End(reason) == <<[token |-> 0, reason |-> reason]>>
ForAll(handles, stream) == [h \in DOMAIN emitted |-> IF h \in handles THEN stream ELSE <<>>]

\* Engine::submit, of a request that is legal or not.
ServeSubmit ==
    \E c \in {Command("submit", h) : h \in 1 .. Cardinality(Request)} :
        /\ Serving(c)
        /\ \/ Throws
           \/ /\ ~failed /\ c.handle \notin DOMAIN emitted
              /\ emitted' = With(emitted, c.handle, <<>>)
              /\ events' = With(events, c.handle, <<>>)
              /\ Replies(Answer("OK", << >>))
              /\ UNCHANGED <<failed, runnerVars>>

\* What one iteration makes of an open request: nothing, a token, its end.
Progress(h) ==
    LET n == Len(emitted[h]) + 1
        next(reason) == <<[token |-> n, reason |-> reason]>>
    IN  IF h \notin Open THEN {<<>>}
        ELSE {<<>>, next("Eos"), next(IF n = MaxNew THEN "Length" ELSE ""), End("Error")}

\* Engine::step.
ServeStep ==
    /\ Serving(Command("step", 0))
    /\ IF failed THEN Throws
       ELSE /\ \E more \in [DOMAIN emitted -> UNION {Progress(h) : h \in DOMAIN emitted}] :
                  /\ \A h \in DOMAIN emitted : more[h] \in Progress(h)
                  /\ Makes("step", more)
            /\ UNCHANGED <<failed, runnerVars>>

\* A step that fails: every request still open ends, the runner is cleared if
\* it can be.  The answer is that of any other step.
ServeStepFails ==
    /\ Serving(Command("step", 0))
    /\ ~failed /\ Open # {}
    /\ failed' = TRUE
    /\ \E more \in [DOMAIN emitted -> UNION {Progress(h) : h \in DOMAIN emitted}] :
          /\ \A h \in DOMAIN emitted : more[h] \in Progress(h)
          /\ Makes("step", [h \in DOMAIN emitted |->
                              IF h \in Open /\ ~Over(more[h]) THEN more[h] \o End("Error") ELSE more[h]])
    /\ resident' \in {{}, resident}
    /\ UNCHANGED created

\* Engine::cancel throws of a request that is over, or cannot be released.
ServeCancel ==
    \E h \in DOMAIN emitted :
        /\ Serving(Command("cancel", h))
        /\ \/ Throws
           \/ /\ h \in Open
              /\ Makes("cancel", ForAll({h}, End("Cancelled")))
              /\ UNCHANGED <<failed, runnerVars>>

\* Mutant: diagnostics are served whatever became of the engine.
NeverRefused(kind) == FALSE

\* Diagnostics share the runner of an engine that failed: they are refused.
Refused(kind) == failed /\ kind \in {"forward", "cache", "release", "clear"}

\* Diagnostics: ensure, forward and reuse.  "missing": the runner does not
\* know the sequence it is asked to append to.
ServeForward ==
    \E h \in 1 .. Cardinality(Sequence) :
        /\ Serving(Command("forward", h))
        /\ IF Refused("forward") THEN Throws
           ELSE /\ UNCHANGED engineVars
                /\ \/ h \notin created /\ Replies(Failure) /\ UNCHANGED runnerVars
                   \/ /\ created' = created \cup {h}
                      /\ resident' = IF h \in created THEN resident ELSE resident \cup {h}
                      /\ \/ Replies(Failure)
                         \/ Replies(Answer(IF h \in resident' THEN "OK" ELSE "missing", << >>))

\* cache and release, of sequences there are and others.
ServeDiagnostic ==
    \E kind \in {"cache", "release"}, h \in 1 .. Cardinality(Sequence) :
        /\ Serving(Command(kind, h))
        /\ \/ Throws
           \/ /\ ~Refused(kind) /\ h \in resident
              /\ Replies(Answer("OK", << >>))
              /\ IF kind = "cache" THEN UNCHANGED runnerVars
                 ELSE created' = created \ {h} /\ resident' = resident \ {h}
              /\ UNCHANGED engineVars

\* clear_prefix and the commands that only read.
ServeOther ==
    \E kind \in {"clear", "query"} :
        /\ Serving(Command(kind, 0))
        /\ \/ kind = "clear" /\ Throws
           \/ /\ ~Refused(kind)
              /\ Replies(Answer("OK", << >>))
              /\ UNCHANGED <<engineVars, runnerVars>>

\* Engine::shutdown: everything is cancelled, for nobody to hear, and the loop
\* ends; or it throws on its way, some of them cancelled, and the loop goes on.
ServeQuit ==
    /\ Serving(Command("quit", 0))
    /\ \E gone \in SUBSET Open :
          LET more == ForAll(gone, End("Cancelled"))
          IN  /\ emitted' = [h \in DOMAIN emitted |-> emitted[h] \o more[h]]
              /\ events' = Queued(more)
              /\ \/ Replies(Failure) /\ UNCHANGED resident
                 \/ gone = Open /\ Replies(Failure) /\ resident' \in SUBSET resident
                 \/ /\ gone = Open
                    /\ Ends(Answer("OK", << >>), TRUE)
                    /\ resident' = {}
    /\ UNCHANGED <<failed, created>>

------------------------------------------------------------------------------

Init ==
    /\ mode = "open" /\ call = Ready
    /\ ids = << >> /\ pending = {} /\ sequences = << >> /\ received = << >>
    /\ requests = <<>> /\ answers = <<>>
    /\ worker = "starting" /\ signal = "none" /\ reply = <<>>
    /\ emitted = << >> /\ events = << >> /\ failed = FALSE
    /\ created = {} /\ resident = {}

Calls ==
    \/ \E r \in Request : Submit(r) \/ Cancel(r)
    \/ \E kind \in {"step", "query", "clear", "quit"} : Ask(kind)
    \/ \E s \in Sequence : Forward(s) \/ Diagnose("cache", s) \/ Diagnose("release", s)

Serve ==
    \/ ServeSubmit \/ ServeStep \/ ServeStepFails \/ ServeCancel
    \/ ServeForward \/ ServeDiagnostic \/ ServeOther \/ ServeQuit

Next ==
    \/ Calls \/ Receive \/ ReadEnd
    \/ Interrupt \/ CloseForced \/ InterruptStart \/ WaitTimesOut \/ Reap
    \/ Start \/ Serve \/ Flush \/ Crash \/ Killed \/ EndOfInput

\* A command ends, its answer is written and read; time passes; nothing
\* survives SIGKILL.  Nobody has to call, interrupt or crash.
Fairness ==
    /\ WF_vars(Start) /\ WF_vars(Serve) /\ WF_vars(Flush) /\ WF_vars(EndOfInput)
    /\ WF_vars(Receive) /\ WF_vars(ReadEnd)
    /\ WF_vars(WaitTimesOut) /\ WF_vars(Reap) /\ WF_vars(Killed)

Spec == Init /\ [][Next]_vars /\ Fairness

------------------------------------------------------------------------------
\* Properties

\* Between two calls nothing is on its way: no answer waits to be taken for
\* another one's, no event was left behind in the worker, and the client has
\* of each request exactly the events the engine made, pending being those
\* without an end.  At no time does a client that calls on know less of a
\* request than its handle.
\* (session.cpp:20, and close in client.py:27)
EverythingArrives ==
    mode = "open" /\ call = NoCall =>
        /\ requests = <<>> /\ answers = <<>> /\ reply = <<>>
        /\ Range(ids) = DOMAIN emitted
        /\ \A h \in DOMAIN events : events[h] = <<>>
        /\ \A r \in DOMAIN ids : received[r] = emitted[ids[r]]
        /\ pending = {r \in DOMAIN ids : ~Over(received[r])}

\* Whatever failed before, a sequence the diagnostics believe to have is one
\* the runner has: forward never asks for one that is gone.  (session.cpp:12)
SequencesAreThere ==
    \A i \in 1 .. Len(reply) : reply[i].answer.status # "missing"

\* Every call returns or raises, and a client that gives up leaves no process
\* behind, however the worker dies, hangs on to a signal or is interrupted.
EveryCallReturns ==
    /\ call # NoCall ~> call = NoCall
    /\ mode \in {"waiting", "killing"} ~> mode = "closed" /\ worker = "exited"
    /\ mode = "dropped" ~> worker = "exited"
==============================================================================
