------------------------- MODULE SessionAndTrieProofs -------------------------
(***************************************************************************)
(* Proofs about WorkerSession, for every set of requests and of sequences: *)
(* every answer reaches the call it belongs to, and the client knows all   *)
(* events the engine made.  And about PrefixTrie, for every set of nodes,  *)
(* pages and histories: no pointer of the trie outlives its node.          *)
(***************************************************************************)
EXTENDS WorkerSession, PrefixTrie, BasicLemmas

------------------------------------------------------------------------------
\* The inductive invariant

\* A pipe with one line in it.
One(q) == q # <<>> /\ q = <<q[1]>>

\* At most one line is on its way: a command, or an answer that is written or read.
OneLine ==
    \/ requests = <<>> /\ reply = <<>> /\ answers = <<>>
    \/ One(requests) /\ reply = <<>> /\ answers = <<>>
    \/ requests = <<>> /\ One(reply) /\ answers = <<>>
    \/ requests = <<>> /\ reply = <<>> /\ One(answers)

\* It belongs to the call under way; before the first answer there is no other call.
LineOfCall ==
    /\ OneLine
    /\ worker = "starting" => requests = <<>> /\ reply = <<>> /\ answers = <<>>
    /\ mode = "open" =>
          /\ worker = "starting" => call = Ready
          /\ requests # <<>> => Head(requests) = Command(call.kind, call.handle)
          /\ call = NoCall => requests = <<>> /\ reply = <<>> /\ answers = <<>>

\* No command will come any more.
Quit == requests = <<>> /\ (mode = "open" => call.kind = "quit")

\* The runner has what the diagnostics created, unless they are refused or over.
RunnerKnows ==
    /\ failed \/ created \subseteq resident \/ Quit
    /\ SequencesAreThere

Reason == {"", "Eos", "Length", "Error", "Cancelled"}
Event == [token : Nat, reason : Reason]

\* Requests are numbered in the order they were accepted.
IdsOK ==
    /\ DOMAIN ids \subseteq Request /\ IsFiniteSet(DOMAIN ids)
    /\ \A r \in DOMAIN ids : ids[r] \in 1 .. Cardinality(DOMAIN ids)
    /\ \A q, r \in DOMAIN ids : ids[q] = ids[r] => q = r
    /\ pending \subseteq DOMAIN ids /\ DOMAIN received = DOMAIN ids
    /\ \A r \in DOMAIN ids : received[r] \in Seq(Event)

EventsOK ==
    /\ DOMAIN events = DOMAIN emitted
    /\ \A h \in DOMAIN emitted : emitted[h] \in Seq(Event) /\ events[h] = <<>>

\* A submission under way is of a new request, under the next number.
CallOK ==
    call.kind = "submit" =>
        \E r \in Request \ DOMAIN ids :
            call.submitted = {r} /\ call.handle = Cardinality(DOMAIN ids) + 1

\* What the client has is what the engine made.
UpToDate ==
    /\ Range(ids) = DOMAIN emitted
    /\ \A r \in DOMAIN ids : received[r] = emitted[ids[r]]
    /\ pending = {r \in DOMAIN ids : ~Over(received[r])}

\* What the client will have once it has read the answer a.
UpToDateAfter(a) ==
    IF a.status = "OK" /\ call.kind = "submit"
    THEN /\ DOMAIN emitted = Range(ids) \cup {call.handle}
         /\ emitted[call.handle] = <<>>
         /\ \A r \in DOMAIN ids : received[r] = emitted[ids[r]]
         /\ pending = {r \in DOMAIN ids : ~Over(received[r])}
    ELSE IF a.status = "OK" /\ call.kind \in {"step", "cancel"}
    THEN /\ DOMAIN emitted = Range(ids) /\ DOMAIN a.events = DOMAIN emitted
         /\ pending = {r \in DOMAIN ids : ~Over(received[r])}
         /\ \A r \in DOMAIN ids :
               /\ a.events[ids[r]] \in Seq(Event)
               /\ emitted[ids[r]] = received[r] \o a.events[ids[r]]
               /\ a.events[ids[r]] # <<>> => r \in pending
    ELSE UpToDate

\* Before a command is served the client knows everything, afterwards its answer does.
ClientKnows ==
    mode = "open" /\ call.kind # "quit" =>
        /\ IdsOK /\ EventsOK /\ CallOK
        /\ call \in {NoCall, Ready} \/ requests # <<>> => UpToDate
        /\ reply # <<>> => UpToDateAfter(reply[1].answer)
        /\ answers # <<>> => UpToDateAfter(answers[1])

SessionInv == LineOfCall /\ RunnerKnows /\ ClientKnows

LEMMA OneFacts ==
  ASSUME NEW x
  PROVE  /\ Append(<<>>, x) = <<x>> /\ Head(<<x>>) = x /\ Tail(<<x>>) = <<>>
         /\ One(<<x>>) /\ <<x>> # <<>> /\ <<x>>[1] = x
  BY DEF One

\* A line that is taken leaves none behind.
LEMMA TakeLine ==
  ASSUME OneLine
  PROVE  /\ requests # <<>> => /\ Tail(requests) = <<>> /\ reply = <<>> /\ answers = <<>>
                               /\ requests = <<Head(requests)>>
         /\ answers # <<>> => /\ Tail(answers) = <<>> /\ requests = <<>> /\ reply = <<>>
                              /\ Head(answers) = answers[1]
         /\ reply # <<>> => One(reply) /\ requests = <<>> /\ answers = <<>>
  BY OneFacts DEF OneLine, One

------------------------------------------------------------------------------
\* Initial states

LEMMA InitKnows ==
  ASSUME Init
  PROVE  SessionInv
<1>1. LineOfCall
  BY DEF Init, LineOfCall, OneLine, NoCall, Ready, Call, Command
<1>2. RunnerKnows
  BY DEF Init, RunnerKnows, SequencesAreThere
<1>3. IdsOK /\ EventsOK
  <2>1. IsFiniteSet(DOMAIN ids)
    BY FS_EmptySet DEF Init
  <2>. QED
    BY <2>1 DEF Init, IdsOK, EventsOK
<1>4. CallOK /\ UpToDate
  <2>1. call.kind # "submit"
    BY DEF Init, Ready, Call, Command
  <2>2. Range(ids) = {} /\ DOMAIN ids = {}
    BY DEF Init, Range
  <2>. QED
    BY <2>1, <2>2 DEF Init, CallOK, UpToDate
<1>. QED
  BY <1>1, <1>2, <1>3, <1>4 DEF SessionInv, ClientKnows, Init

------------------------------------------------------------------------------
\* The worker's steps

\* The command that is served is that of the call, if the client still waits for it.
LEMMA ServedCommand ==
  ASSUME SessionInv, NEW c, Serving(c)
  PROVE  /\ requests # <<>> /\ requests' = <<>> /\ reply = <<>> /\ answers = <<>> /\ answers' = <<>>
         /\ worker = "up" /\ worker' = "up"
         /\ mode = "open" => c.kind = call.kind /\ c.handle = call.handle
         /\ UNCHANGED <<clientVars, mode, call, ids, pending, sequences, received>>
<1>1. requests # <<>> /\ requests' = <<>> /\ reply = <<>> /\ answers = <<>> /\ answers' = <<>>
  BY TakeLine DEF SessionInv, LineOfCall, Serving
<1>2. mode = "open" => c = Command(call.kind, call.handle)
  BY <1>1 DEF SessionInv, LineOfCall, Serving
<1>3. mode = "open" => c.kind = call.kind /\ c.handle = call.handle
  BY <1>2 DEF Command
<1>. QED
  BY <1>1, <1>3 DEF Serving, clientVars

\* Serving a command keeps the invariant if its answer does.
LEMMA Served ==
  ASSUME SessionInv, NEW c, Serving(c), One(reply'), SequencesAreThere',
         mode = "open" /\ call.kind # "quit" => EventsOK' /\ UpToDateAfter(reply[1].answer)',
         failed' \/ created' \subseteq resident' \/ (mode = "open" => call.kind = "quit")
  PROVE  SessionInv'
<1>1. /\ requests # <<>> /\ requests' = <<>> /\ answers' = <<>> /\ worker' = "up"
      /\ mode = "open" => c.kind = call.kind /\ c.handle = call.handle
      /\ UNCHANGED <<mode, call, ids, pending, sequences, received>>
  BY ServedCommand
<1>2. LineOfCall'
  <2>1. mode = "open" => call # NoCall
    BY <1>1 DEF SessionInv, LineOfCall
  <2>. QED
    BY <1>1, <2>1 DEF LineOfCall, OneLine
<1>3. RunnerKnows'
  BY <1>1 DEF RunnerKnows, Quit
<1>4. ClientKnows'
  <2>. SUFFICES ASSUME mode = "open", call.kind # "quit"
                PROVE  IdsOK' /\ CallOK' /\ (call \in {NoCall, Ready} => UpToDate)'
    BY <1>1 DEF ClientKnows
  <2>1. IdsOK /\ CallOK
    BY DEF SessionInv, ClientKnows
  <2>2. IdsOK' /\ CallOK'
    BY <1>1, <2>1 DEF IdsOK, CallOK
  <2>3. call # NoCall
    BY <1>1 DEF SessionInv, LineOfCall
  <2>4. call = Ready => UpToDate'
    <3>. SUFFICES ASSUME call = Ready PROVE UpToDate'
      OBVIOUS
    <3>1. call.kind = "ready" /\ call'.kind = "ready"
      BY <1>1 DEF Ready, Call, Command
    <3>. QED
      BY <3>1 DEF UpToDateAfter
  <2>. QED
    BY <1>1, <2>2, <2>3, <2>4
<1>. QED
  BY <1>2, <1>3, <1>4 DEF SessionInv

\* An answer without an effect for the client leaves it as it was.
LEMMA UpToDateKept ==
  ASSUME SessionInv, NEW c, Serving(c), UNCHANGED engineVars, mode = "open", call.kind # "quit",
         reply'[1].answer.status # "OK" \/ c.kind \notin {"submit", "step", "cancel"}
  PROVE  EventsOK' /\ UpToDateAfter(reply[1].answer)'
<1>1. /\ requests # <<>> /\ c.kind = call.kind
      /\ UNCHANGED <<mode, call, ids, pending, sequences, received>>
  BY ServedCommand
<1>2. EventsOK /\ UpToDate
  BY <1>1 DEF SessionInv, ClientKnows
<1>3. EventsOK' /\ UpToDate'
  BY <1>1, <1>2 DEF EventsOK, UpToDate, engineVars, Range
<1>. QED
  BY <1>1, <1>3 DEF UpToDateAfter

LEMMA ThrowsKeeps ==
  ASSUME SessionInv, NEW c, Serving(c), Throws
  PROVE  SessionInv'
<1>1. reply' = <<[answer |-> Failure, last |-> FALSE]>>
  BY DEF Throws, Replies, Ends
<1>2. One(reply') /\ reply'[1].answer = Failure /\ Len(reply') = 1
  BY <1>1, OneFacts
<1>3. Failure.status = "ERROR"
  BY DEF Failure, Answer
<1>4. SequencesAreThere'
  BY <1>2, <1>3 DEF SequencesAreThere
<1>5. mode = "open" /\ call.kind # "quit" => EventsOK' /\ UpToDateAfter(reply[1].answer)'
  BY <1>2, <1>3, UpToDateKept DEF Throws
<1>6. failed' \/ created' \subseteq resident' \/ (mode = "open" => call.kind = "quit")
  <2>1. requests # <<>>
    BY ServedCommand
  <2>. QED
    BY <2>1 DEF SessionInv, RunnerKnows, Quit, Throws, engineVars, runnerVars
<1>. QED
  BY <1>2, <1>4, <1>5, <1>6, Served

\* The engine's events travel in the answer, all of them.
LEMMA MakesKnows ==
  ASSUME SessionInv, NEW kind \in {"step", "cancel"}, NEW g, Serving(Command(kind, g)),
         NEW more, Makes(kind, more),
         mode = "open" /\ call.kind # "quit" =>
             \A h \in DOMAIN emitted : more[h] \in Seq(Event) /\ (more[h] # <<>> => h \in Open)
  PROVE  /\ One(reply') /\ SequencesAreThere'
         /\ mode = "open" /\ call.kind # "quit" => EventsOK' /\ UpToDateAfter(reply[1].answer)'
<1>. DEFINE queue == Queued(more)
<1>1. Polled(kind, queue) = queue
  BY DEF Polled
<1>2. /\ reply' = <<[answer |-> Answer("OK", queue), last |-> FALSE]>>
      /\ emitted' = [h \in DOMAIN emitted |-> emitted[h] \o more[h]]
      /\ events' = Left(queue, queue)
  BY <1>1 DEF Makes, Replies, Ends
<1>3. DOMAIN queue = DOMAIN emitted /\ \A h \in DOMAIN emitted : queue[h] = events[h] \o more[h]
  BY DEF Queued
<1>. HIDE DEF queue
<1>4. /\ One(reply') /\ Len(reply') = 1
      /\ reply'[1].answer.status = "OK" /\ reply'[1].answer.events = queue
  BY <1>2, OneFacts DEF Answer
<1>5. SequencesAreThere'
  BY <1>4 DEF SequencesAreThere
<1>6. ASSUME mode = "open", call.kind # "quit"
      PROVE  EventsOK' /\ UpToDateAfter(reply[1].answer)'
  <2>1. /\ requests # <<>> /\ Command(kind, g).kind = call.kind
        /\ UNCHANGED <<mode, call, ids, pending, sequences, received>>
    BY <1>6, ServedCommand
  <2>2. call.kind = kind
    BY <2>1 DEF Command
  <2>3. IdsOK /\ EventsOK /\ UpToDate
    BY <1>6, <2>1 DEF SessionInv, ClientKnows
  <2>4. \A h \in DOMAIN emitted : queue[h] = more[h] /\ emitted[h] \o more[h] \in Seq(Event)
    <3>. SUFFICES ASSUME NEW h \in DOMAIN emitted
                  PROVE  queue[h] = more[h] /\ emitted[h] \o more[h] \in Seq(Event)
      OBVIOUS
    <3>1. events[h] = <<>> /\ emitted[h] \in Seq(Event) /\ more[h] \in Seq(Event)
      BY <1>6, <2>3 DEF EventsOK
    <3>2. queue[h] = more[h]
      BY <1>3, <3>1, ConcatEmptySeq
    <3>3. emitted[h] \o more[h] \in Seq(Event)
      BY <3>1, ConcatProperties
    <3>. QED
      BY <3>2, <3>3
  <2>5. EventsOK'
    <3>1. DOMAIN events' = DOMAIN emitted /\ \A h \in DOMAIN emitted : events'[h] = <<>>
      BY <1>2, <1>3 DEF Left
    <3>. QED
      BY <1>2, <2>4, <3>1 DEF EventsOK
  <2>6. DOMAIN emitted' = Range(ids)
    BY <1>2, <2>3 DEF UpToDate
  <2>7. ASSUME NEW r \in DOMAIN ids
        PROVE  /\ queue[ids[r]] \in Seq(Event)
               /\ emitted'[ids[r]] = received[r] \o queue[ids[r]]
               /\ queue[ids[r]] # <<>> => r \in pending
    <3>1. ids[r] \in DOMAIN emitted /\ received[r] = emitted[ids[r]]
      BY <2>3 DEF UpToDate, Range
    <3>2. queue[ids[r]] = more[ids[r]]
      BY <2>4, <3>1
    <3>3. more[ids[r]] # <<>> => ~Over(received[r])
      BY <1>6, <3>1 DEF Open
    <3>. QED
      BY <1>2, <1>6, <2>3, <3>1, <3>2, <3>3 DEF UpToDate
  <2>8. UpToDateAfter(reply[1].answer)'
    <3>1. call'.kind \in {"step", "cancel"} /\ call'.kind # "submit"
      BY <2>1, <2>2
    <3>2. DOMAIN queue = DOMAIN emitted'
      BY <1>2, <1>3
    <3>3. Range(ids') = Range(ids)
      BY <2>1
    <3>4. pending' = {r \in DOMAIN ids' : ~Over(received'[r])}
      BY <2>1, <2>3 DEF UpToDate
    <3>. QED
      BY <1>4, <2>1, <2>6, <2>7, <3>1, <3>2, <3>3, <3>4 DEF UpToDateAfter
  <2>. QED
    BY <2>5, <2>8
<1>. QED
  BY <1>4, <1>5, <1>6

\* What one iteration makes of a request are events, none if it is over.
LEMMA ProgressFacts ==
  ASSUME NEW h \in DOMAIN emitted, emitted[h] \in Seq(Event), NEW s \in Progress(h)
  PROVE  s \in Seq(Event) /\ (s # <<>> => h \in Open)
<1>1. Len(emitted[h]) + 1 \in Nat
  OBVIOUS
<1>2. \A n \in Nat, reason \in Reason : <<[token |-> n, reason |-> reason]>> \in Seq(Event)
  BY DEF Event
<1>3. \A reason \in {"Eos", "", "Length", "Error"} : reason \in Reason
  BY DEF Reason
<1>4. <<>> \in Seq(Event) /\ End("Error") \in Seq(Event)
  <2>1. <<[token |-> 0, reason |-> "Error"]>> \in Seq(Event)
    BY <1>2, <1>3
  <2>. QED
    BY <2>1 DEF End
<1>. QED
  BY <1>1, <1>2, <1>3, <1>4 DEF Progress

\* Serving anything but a diagnostic or the end leaves the runner as it is.
LEMMA RunnerKept ==
  ASSUME SessionInv, NEW c, Serving(c), UNCHANGED runnerVars, failed' = failed
  PROVE  failed' \/ created' \subseteq resident' \/ (mode = "open" => call.kind = "quit")
<1>1. requests # <<>>
  BY ServedCommand
<1>. QED
  BY <1>1 DEF SessionInv, RunnerKnows, Quit, runnerVars

LEMMA ServeSubmitKeeps ==
  ASSUME SessionInv, ServeSubmit
  PROVE  SessionInv'
<1>1. PICK c \in {Command("submit", h) : h \in 1 .. Cardinality(Request)} :
          /\ Serving(c)
          /\ \/ Throws
             \/ /\ ~failed /\ c.handle \notin DOMAIN emitted
                /\ emitted' = With(emitted, c.handle, <<>>)
                /\ events' = With(events, c.handle, <<>>)
                /\ Replies(Answer("OK", << >>))
                /\ UNCHANGED <<failed, runnerVars>>
  BY Zenon DEF ServeSubmit
<1>2. CASE Throws
  BY <1>1, <1>2, ThrowsKeeps
<1>3. CASE ~Throws
  <2>1. /\ ~failed /\ c.handle \notin DOMAIN emitted
        /\ emitted' = With(emitted, c.handle, <<>>)
        /\ events' = With(events, c.handle, <<>>)
        /\ reply' = <<[answer |-> Answer("OK", << >>), last |-> FALSE]>>
        /\ UNCHANGED <<failed, runnerVars>>
    BY <1>1, <1>3 DEF Replies, Ends
  <2>2. One(reply') /\ Len(reply') = 1 /\ reply'[1].answer.status = "OK"
    BY <2>1, OneFacts DEF Answer
  <2>3. SequencesAreThere'
    BY <2>2 DEF SequencesAreThere
  <2>4. ASSUME mode = "open", call.kind # "quit"
        PROVE  EventsOK' /\ UpToDateAfter(reply[1].answer)'
    <3>1. /\ requests # <<>> /\ call.kind = "submit" /\ c.handle = call.handle
          /\ UNCHANGED <<mode, call, ids, pending, sequences, received>>
      BY <1>1, <2>4, ServedCommand DEF Command
    <3>2. EventsOK /\ UpToDate
      BY <2>4, <3>1 DEF SessionInv, ClientKnows
    <3>3. /\ DOMAIN emitted' = DOMAIN emitted \cup {c.handle}
          /\ DOMAIN events' = DOMAIN events \cup {c.handle}
          /\ emitted'[c.handle] = <<>> /\ events'[c.handle] = <<>>
          /\ \A h \in DOMAIN emitted : emitted'[h] = emitted[h]
          /\ \A h \in DOMAIN events : events'[h] = events[h]
      BY <2>1, <3>2 DEF With, EventsOK
    <3>4. EventsOK'
      <4>1. <<>> \in Seq(Event)
        OBVIOUS
      <4>. QED
        BY <3>2, <3>3, <4>1 DEF EventsOK
    <3>5. Range(ids') = DOMAIN emitted /\ \A r \in DOMAIN ids : ids[r] \in DOMAIN emitted
      BY <3>1, <3>2 DEF UpToDate, Range
    <3>. QED
      BY <2>2, <3>1, <3>2, <3>3, <3>4, <3>5 DEF UpToDateAfter, UpToDate
  <2>. QED
    BY <1>1, <2>1, <2>2, <2>3, <2>4, RunnerKept, Served
<1>. QED
  BY <1>2, <1>3

\* While the client waits for an answer the streams are known to be streams of events.
LEMMA StreamsTyped ==
  ASSUME SessionInv, NEW c, Serving(c), mode = "open", call.kind # "quit"
  PROVE  EventsOK
  BY ServedCommand DEF SessionInv, ClientKnows

LEMMA ServeStepKeeps ==
  ASSUME SessionInv, ServeStep
  PROVE  SessionInv'
<1>. DEFINE c == Command("step", 0)
<1>1. Serving(c)
  BY DEF ServeStep
<1>2. CASE failed
  BY <1>1, <1>2, ThrowsKeeps DEF ServeStep
<1>3. CASE ~failed
  <2>1. PICK more \in [DOMAIN emitted -> UNION {Progress(h) : h \in DOMAIN emitted}] :
           /\ \A h \in DOMAIN emitted : more[h] \in Progress(h)
           /\ Makes("step", more)
    BY <1>3, Zenon DEF ServeStep
  <2>2. UNCHANGED <<failed, runnerVars>>
    BY <1>3 DEF ServeStep
  <2>3. mode = "open" /\ call.kind # "quit" =>
             \A h \in DOMAIN emitted : more[h] \in Seq(Event) /\ (more[h] # <<>> => h \in Open)
    BY <1>1, <2>1, StreamsTyped, ProgressFacts DEF EventsOK
  <2>4. /\ One(reply') /\ SequencesAreThere'
        /\ mode = "open" /\ call.kind # "quit" => EventsOK' /\ UpToDateAfter(reply[1].answer)'
    BY <1>1, <2>1, <2>3, MakesKnows
  <2>. QED
    BY <1>1, <2>2, <2>4, RunnerKept, Served
<1>. QED
  BY <1>2, <1>3

LEMMA ServeStepFailsKeeps ==
  ASSUME SessionInv, ServeStepFails
  PROVE  SessionInv'
<1>. DEFINE c == Command("step", 0)
<1>1. Serving(c) /\ failed' = TRUE
  BY DEF ServeStepFails
<1>2. PICK more \in [DOMAIN emitted -> UNION {Progress(h) : h \in DOMAIN emitted}] :
          /\ \A h \in DOMAIN emitted : more[h] \in Progress(h)
          /\ Makes("step", [h \in DOMAIN emitted |->
                              IF h \in Open /\ ~Over(more[h]) THEN more[h] \o End("Error") ELSE more[h]])
  BY Zenon DEF ServeStepFails
<1>. DEFINE ended == [h \in DOMAIN emitted |->
                        IF h \in Open /\ ~Over(more[h]) THEN more[h] \o End("Error") ELSE more[h]]
<1>3. ASSUME mode = "open", call.kind # "quit", NEW h \in DOMAIN emitted
      PROVE  ended[h] \in Seq(Event) /\ (ended[h] # <<>> => h \in Open)
  <2>1. more[h] \in Seq(Event) /\ (more[h] # <<>> => h \in Open)
    BY <1>1, <1>2, <1>3, StreamsTyped, ProgressFacts DEF EventsOK
  <2>2. End("Error") \in Seq(Event)
    BY DEF End, Event, Reason
  <2>3. more[h] \o End("Error") \in Seq(Event)
    BY <2>1, <2>2, ConcatProperties
  <2>. QED
    BY <2>1, <2>3
<1>4. Makes("step", ended)
  BY <1>2
<1>. HIDE DEF ended
<1>5. /\ One(reply') /\ SequencesAreThere'
      /\ mode = "open" /\ call.kind # "quit" => EventsOK' /\ UpToDateAfter(reply[1].answer)'
  BY <1>1, <1>3, <1>4, MakesKnows
<1>. QED
  BY <1>1, <1>5, Served

LEMMA ServeCancelKeeps ==
  ASSUME SessionInv, ServeCancel
  PROVE  SessionInv'
<1>1. PICK g \in DOMAIN emitted :
        /\ Serving(Command("cancel", g))
        /\ \/ Throws
           \/ /\ g \in Open
              /\ Makes("cancel", ForAll({g}, End("Cancelled")))
              /\ UNCHANGED <<failed, runnerVars>>
  BY Zenon DEF ServeCancel
<1>2. CASE Throws
  BY <1>1, <1>2, ThrowsKeeps
<1>3. CASE ~Throws
  <2>. DEFINE more == ForAll({g}, End("Cancelled"))
  <2>1. g \in Open /\ Makes("cancel", more) /\ UNCHANGED <<failed, runnerVars>>
    BY <1>1, <1>3
  <2>2. \A h \in DOMAIN emitted : more[h] \in Seq(Event) /\ (more[h] # <<>> => h \in Open)
    <3>1. End("Cancelled") \in Seq(Event)
      BY DEF End, Event, Reason
    <3>. QED
      BY <2>1, <3>1 DEF ForAll
  <2>. HIDE DEF more
  <2>3. /\ One(reply') /\ SequencesAreThere'
        /\ mode = "open" /\ call.kind # "quit" => EventsOK' /\ UpToDateAfter(reply[1].answer)'
    BY <1>1, <2>1, <2>2, MakesKnows
  <2>. QED
    BY <1>1, <2>1, <2>3, RunnerKept, Served
<1>. QED
  BY <1>2, <1>3

\* The answers to other commands carry nothing the client keeps.
LEMMA QuietAnswer ==
  ASSUME SessionInv, NEW c, Serving(c), UNCHANGED engineVars,
         c.kind \notin {"submit", "step", "cancel"},
         NEW a, Replies(a), a.status # "missing",
         failed' \/ created' \subseteq resident' \/ (mode = "open" => call.kind = "quit")
  PROVE  SessionInv'
<1>1. reply' = <<[answer |-> a, last |-> FALSE]>>
  BY DEF Replies, Ends
<1>2. One(reply') /\ reply'[1].answer = a /\ Len(reply') = 1
  BY <1>1, OneFacts
<1>3. SequencesAreThere'
  BY <1>2 DEF SequencesAreThere
<1>4. mode = "open" /\ call.kind # "quit" => EventsOK' /\ UpToDateAfter(reply[1].answer)'
  BY UpToDateKept
<1>. QED
  BY <1>2, <1>3, <1>4, Served

\* A diagnostic that appends to a sequence it created finds it in the runner.
LEMMA ServeForwardKeeps ==
  ASSUME SessionInv, ServeForward
  PROVE  SessionInv'
<1>1. PICK h \in 1 .. Cardinality(Sequence) :
        /\ Serving(Command("forward", h))
        /\ IF Refused("forward") THEN Throws
           ELSE /\ UNCHANGED engineVars
                /\ \/ h \notin created /\ Replies(Failure) /\ UNCHANGED runnerVars
                   \/ /\ created' = created \cup {h}
                      /\ resident' = IF h \in created THEN resident ELSE resident \cup {h}
                      /\ \/ Replies(Failure)
                         \/ Replies(Answer(IF h \in resident' THEN "OK" ELSE "missing", << >>))
  BY Zenon DEF ServeForward
<1>. DEFINE c == Command("forward", h)
<1>2. c.kind = "forward" /\ Failure.status # "missing"
  BY DEF Command, Failure, Answer
<1>3. CASE Refused("forward")
  BY <1>1, <1>3, ThrowsKeeps
<1>4. CASE ~Refused("forward") /\ UNCHANGED runnerVars /\ Replies(Failure)
  <2>1. UNCHANGED engineVars /\ failed' = failed
    BY <1>1, <1>4 DEF engineVars
  <2>. QED
    BY <1>1, <1>2, <1>4, <2>1, QuietAnswer, RunnerKept
<1>5. CASE /\ ~Refused("forward")
           /\ created' = created \cup {h}
           /\ resident' = IF h \in created THEN resident ELSE resident \cup {h}
  <2>1. UNCHANGED engineVars /\ failed' = failed /\ ~failed
    BY <1>1, <1>5 DEF engineVars, Refused
  <2>2. created \subseteq resident
    <3>1. requests # <<>>
      BY <1>1, ServedCommand
    <3>. QED
      BY <2>1, <3>1 DEF SessionInv, RunnerKnows, Quit
  <2>3. created' \subseteq resident' /\ h \in resident'
    BY <1>5, <2>2
  <2>4. Replies(Failure) \/ Replies(Answer("OK", << >>))
    BY <1>1, <1>5, <2>3 DEF runnerVars
  <2>5. Answer("OK", << >>).status # "missing"
    BY DEF Answer
  <2>. QED
    BY <1>1, <1>2, <2>1, <2>3, <2>4, <2>5, QuietAnswer
<1>. QED
  BY <1>1, <1>3, <1>4, <1>5

LEMMA ServeDiagnosticKeeps ==
  ASSUME SessionInv, ServeDiagnostic
  PROVE  SessionInv'
<1>1. PICK kind \in {"cache", "release"}, h \in 1 .. Cardinality(Sequence) :
        /\ Serving(Command(kind, h))
        /\ \/ Throws
           \/ /\ ~Refused(kind) /\ h \in resident
              /\ Replies(Answer("OK", << >>))
              /\ IF kind = "cache" THEN UNCHANGED runnerVars
                 ELSE created' = created \ {h} /\ resident' = resident \ {h}
              /\ UNCHANGED engineVars
  BY Zenon DEF ServeDiagnostic
<1>2. Command(kind, h).kind = kind /\ Answer("OK", << >>).status # "missing"
  BY DEF Command, Answer
<1>3. CASE Throws
  BY <1>1, <1>3, ThrowsKeeps
<1>4. CASE ~Throws /\ kind = "cache"
  <2>1. UNCHANGED engineVars /\ failed' = failed /\ UNCHANGED runnerVars
    BY <1>1, <1>4 DEF engineVars
  <2>. QED
    BY <1>1, <1>2, <1>4, <2>1, QuietAnswer, RunnerKept
<1>5. CASE ~Throws /\ kind = "release"
  <2>1. UNCHANGED engineVars /\ created' = created \ {h} /\ resident' = resident \ {h}
    BY <1>1, <1>5
  <2>2. failed' \/ created' \subseteq resident' \/ (mode = "open" => call.kind = "quit")
    <3>1. requests # <<>>
      BY <1>1, ServedCommand
    <3>. QED
      BY <2>1, <3>1 DEF SessionInv, RunnerKnows, Quit, engineVars
  <2>. QED
    BY <1>1, <1>2, <1>5, <2>1, <2>2, QuietAnswer
<1>. QED
  BY <1>1, <1>3, <1>4, <1>5

LEMMA ServeOtherKeeps ==
  ASSUME SessionInv, ServeOther
  PROVE  SessionInv'
<1>1. PICK kind \in {"clear", "query"} :
        /\ Serving(Command(kind, 0))
        /\ \/ kind = "clear" /\ Throws
           \/ /\ ~Refused(kind)
              /\ Replies(Answer("OK", << >>))
              /\ UNCHANGED <<engineVars, runnerVars>>
  BY Zenon DEF ServeOther
<1>2. Command(kind, 0).kind = kind /\ Answer("OK", << >>).status # "missing"
  BY DEF Command, Answer
<1>3. CASE Throws
  BY <1>1, <1>3, ThrowsKeeps
<1>4. CASE ~Throws
  <2>1. UNCHANGED engineVars /\ failed' = failed /\ UNCHANGED runnerVars
    BY <1>1, <1>4 DEF engineVars
  <2>. QED
    BY <1>1, <1>2, <1>4, <2>1, QuietAnswer, RunnerKept
<1>. QED
  BY <1>3, <1>4

\* After a QUIT the client asks for nothing more.
LEMMA ServeQuitKeeps ==
  ASSUME SessionInv, ServeQuit
  PROVE  SessionInv'
<1>. DEFINE c == Command("quit", 0)
<1>1. Serving(c) /\ c.kind = "quit"
  BY DEF ServeQuit, Command
<1>2. mode = "open" => call.kind = "quit"
  BY <1>1, ServedCommand
<1>3. \/ reply' = <<[answer |-> Failure, last |-> FALSE]>>
      \/ reply' = <<[answer |-> Answer("OK", << >>), last |-> TRUE]>>
  BY DEF ServeQuit, Replies, Ends
<1>4. One(reply') /\ Len(reply') = 1 /\ reply'[1].answer.status # "missing"
  BY <1>3, OneFacts DEF Failure, Answer
<1>5. SequencesAreThere'
  BY <1>4 DEF SequencesAreThere
<1>. QED
  BY <1>1, <1>2, <1>4, <1>5, Served

------------------------------------------------------------------------------
\* The other steps of the worker process

LEMMA StartKeeps ==
  ASSUME SessionInv, Start
  PROVE  SessionInv'
<1>1. /\ requests = <<>> /\ reply = <<>> /\ answers = <<>>
      /\ UNCHANGED <<mode, call, ids, pending, sequences, received, requests, signal, reply,
                     emitted, events, failed, created, resident>>
      /\ mode = "open" => call = Ready
  BY DEF SessionInv, LineOfCall, Start, clientVars, engineVars, runnerVars
<1>2. \/ worker' = "exited" /\ answers' = <<>>
      \/ worker' = "up" /\ answers' = <<Answer("OK", << >>)>>
  BY <1>1, OneFacts DEF Start
<1>3. Ready # NoCall /\ Ready.kind = "ready"
  BY DEF Ready, NoCall, Call, Command
<1>4. LineOfCall'
  BY <1>1, <1>2, <1>3, OneFacts DEF LineOfCall, OneLine
<1>5. RunnerKnows'
  BY <1>1 DEF SessionInv, RunnerKnows, Quit, SequencesAreThere
<1>6. ClientKnows'
  <2>. SUFFICES ASSUME mode = "open", call.kind # "quit"
                PROVE  IdsOK' /\ EventsOK' /\ CallOK' /\ UpToDate' /\ UpToDateAfter(answers[1])'
    BY <1>1 DEF ClientKnows
  <2>1. IdsOK /\ EventsOK /\ CallOK /\ UpToDate
    BY <1>1 DEF SessionInv, ClientKnows
  <2>2. IdsOK' /\ EventsOK' /\ CallOK' /\ UpToDate'
    BY <1>1, <2>1 DEF IdsOK, EventsOK, CallOK, UpToDate
  <2>. QED
    BY <1>1, <1>3, <2>2 DEF UpToDateAfter
<1>. QED
  BY <1>4, <1>5, <1>6 DEF SessionInv

\* An answer that is written is one that will be read, a lost one will not.
LEMMA FlushKeeps ==
  ASSUME SessionInv, Flush
  PROVE  SessionInv'
<1>1. /\ requests = <<>> /\ answers = <<>> /\ reply # <<>> /\ worker = "up"
      /\ reply' = <<>> /\ answers' = <<reply[1].answer>> /\ worker' # "starting"
      /\ UNCHANGED <<mode, call, ids, pending, sequences, received, requests, signal,
                     emitted, events, failed, created, resident>>
  BY TakeLine, OneFacts DEF SessionInv, LineOfCall, Flush, clientVars, engineVars, runnerVars
<1>2. LineOfCall'
  BY <1>1, OneFacts DEF SessionInv, LineOfCall, OneLine
<1>3. RunnerKnows'
  BY <1>1 DEF SessionInv, RunnerKnows, Quit, SequencesAreThere
<1>4. ClientKnows'
  <2>. SUFFICES ASSUME mode = "open", call.kind # "quit"
                PROVE  /\ IdsOK' /\ EventsOK' /\ CallOK' /\ UpToDateAfter(answers[1])'
                       /\ (call \in {NoCall, Ready} => UpToDate)'
    BY <1>1 DEF ClientKnows
  <2>1. /\ IdsOK /\ EventsOK /\ CallOK /\ UpToDateAfter(reply[1].answer)
        /\ call \in {NoCall, Ready} => UpToDate
    BY <1>1 DEF SessionInv, ClientKnows
  <2>2. IdsOK' /\ EventsOK' /\ CallOK' /\ (call \in {NoCall, Ready} => UpToDate)'
    BY <1>1, <2>1 DEF IdsOK, EventsOK, CallOK, UpToDate
  <2>3. answers'[1] = reply[1].answer
    BY <1>1
  <2>. QED
    BY <1>1, <2>1, <2>2, <2>3 DEF UpToDateAfter, UpToDate
<1>. QED
  BY <1>2, <1>3, <1>4 DEF SessionInv

LEMMA ExitsKeeps ==
  ASSUME SessionInv, Exits
  PROVE  SessionInv'
<1>1. /\ worker' = "exited" /\ reply' = <<>>
      /\ UNCHANGED <<mode, call, ids, pending, sequences, received, requests, answers, signal,
                     emitted, events, failed, created, resident>>
  BY DEF Exits, clientVars, engineVars, runnerVars
<1>2. LineOfCall'
  BY <1>1 DEF SessionInv, LineOfCall, OneLine
<1>3. RunnerKnows'
  BY <1>1 DEF SessionInv, RunnerKnows, Quit, SequencesAreThere
<1>4. ClientKnows'
  BY <1>1 DEF SessionInv, ClientKnows, IdsOK, EventsOK, CallOK, UpToDate, UpToDateAfter
<1>. QED
  BY <1>2, <1>3, <1>4 DEF SessionInv

------------------------------------------------------------------------------
\* The client's steps

\* A command is only sent when nothing is on its way.
LEMMA SendKeeps ==
  ASSUME SessionInv, NEW kind, NEW handle, NEW submitted,
         Send(Command(kind, handle), submitted), kind \notin {"none", "ready"},
         kind = "submit" =>
            \E r \in Request \ DOMAIN ids : submitted = {r} /\ handle = Cardinality(DOMAIN ids) + 1
  PROVE  SessionInv'
<1>1. /\ mode = "open" /\ call = NoCall /\ worker # "exited"
      /\ requests' = Append(requests, Command(kind, handle))
      /\ UNCHANGED <<mode, ids, pending, received, answers, worker, signal, reply,
                     emitted, events, failed, created, resident>>
      /\ call' = Call(Command(kind, handle), submitted)
  BY DEF Send, engineVars, runnerVars
<1>2. NoCall.kind = "none" /\ Ready.kind = "ready"
  BY DEF NoCall, Ready, Call, Command
<1>3. call'.kind = kind /\ call'.handle = handle /\ call'.submitted = submitted
  BY <1>1 DEF Call, Command
<1>4. requests = <<>> /\ answers = <<>> /\ reply = <<>> /\ worker # "starting"
  BY <1>1, <1>2 DEF SessionInv, LineOfCall
<1>5. requests' = <<Command(kind, handle)>>
  BY <1>1, <1>4, OneFacts
<1>6. call' # NoCall /\ call' # Ready
  BY <1>2, <1>3
<1>7. LineOfCall'
  BY <1>1, <1>3, <1>4, <1>5, <1>6, OneFacts DEF LineOfCall, OneLine
<1>8. RunnerKnows'
  <2>1. ~Quit
    BY <1>1, <1>2 DEF Quit
  <2>. QED
    BY <1>1, <2>1 DEF SessionInv, RunnerKnows, SequencesAreThere
<1>9. ClientKnows'
  <2>1. IdsOK /\ EventsOK /\ UpToDate
    BY <1>1, <1>2 DEF SessionInv, ClientKnows
  <2>2. IdsOK' /\ EventsOK' /\ UpToDate'
    BY <1>1, <2>1 DEF IdsOK, EventsOK, UpToDate
  <2>3. CallOK'
    BY <1>1, <1>3 DEF CallOK
  <2>. QED
    BY <1>1, <1>4, <2>2, <2>3 DEF ClientKnows
<1>. QED
  BY <1>7, <1>8, <1>9 DEF SessionInv

LEMMA CallsKeep ==
  ASSUME SessionInv, Calls
  PROVE  SessionInv'
<1>1. ASSUME NEW r \in Request, Submit(r) PROVE SessionInv'
  BY <1>1, SendKeeps DEF Submit
<1>2. ASSUME NEW r \in Request, Cancel(r) PROVE SessionInv'
  BY <1>2, SendKeeps DEF Cancel
<1>3. ASSUME NEW kind \in {"step", "query", "clear", "quit"}, Ask(kind) PROVE SessionInv'
  BY <1>3, SendKeeps DEF Ask
<1>4. ASSUME NEW s \in Sequence, Forward(s) PROVE SessionInv'
  BY <1>4, SendKeeps DEF Forward
<1>5. ASSUME NEW s \in Sequence, NEW kind \in {"cache", "release"}, Diagnose(kind, s)
      PROVE  SessionInv'
  BY <1>5, SendKeeps DEF Diagnose
<1>. QED
  BY <1>1, <1>2, <1>3, <1>4, <1>5 DEF Calls

\* The new request gets the next number.
LEMMA EnteredKnows ==
  ASSUME IdsOK, EventsOK, NEW r \in Request \ DOMAIN ids, Entered(r),
         call.handle = Cardinality(DOMAIN ids) + 1,
         call.kind = "submit", NEW a, a.status = "OK", UpToDateAfter(a), UNCHANGED emitted
  PROVE  IdsOK' /\ UpToDate'
<1>1. /\ DOMAIN ids' = DOMAIN ids \cup {r} /\ ids'[r] = call.handle
      /\ \A q \in DOMAIN ids : ids'[q] = ids[q]
      /\ DOMAIN received' = DOMAIN received \cup {r} /\ received'[r] = <<>>
      /\ \A q \in DOMAIN ids : received'[q] = received[q]
      /\ pending' = pending \cup {r}
  BY DEF Entered, With, IdsOK
<1>2. /\ DOMAIN emitted = Range(ids) \cup {call.handle} /\ emitted[call.handle] = <<>>
      /\ \A q \in DOMAIN ids : received[q] = emitted[ids[q]]
      /\ pending = {q \in DOMAIN ids : ~Over(received[q])}
  BY DEF UpToDateAfter
<1>. DEFINE n == Cardinality(DOMAIN ids)
<1>3. IsFiniteSet(DOMAIN ids') /\ Cardinality(DOMAIN ids') = n + 1 /\ n \in Nat
  BY <1>1, FS_AddElement, FS_CardinalityType DEF IdsOK
<1>. HIDE DEF n
<1>4. IdsOK'
  <2>1. \A q \in DOMAIN ids : ids[q] \in 1 .. n
    BY DEF IdsOK, n
  <2>2. \A q \in DOMAIN ids' : ids'[q] \in 1 .. n + 1
    BY <1>1, <1>3, <2>1 DEF n
  <2>3. \A p, q \in DOMAIN ids' : ids'[p] = ids'[q] => p = q
    BY <1>1, <1>3, <2>1 DEF IdsOK, n
  <2>4. \A q \in DOMAIN ids' : received'[q] \in Seq(Event)
    <3>1. <<>> \in Seq(Event)
      OBVIOUS
    <3>. QED
      BY <1>1, <3>1 DEF IdsOK
  <2>5. DOMAIN ids' \subseteq Request /\ pending' \subseteq DOMAIN ids' /\ DOMAIN received' = DOMAIN ids'
    BY <1>1 DEF IdsOK
  <2>. QED
    BY <1>3, <2>2, <2>3, <2>4, <2>5 DEF IdsOK
<1>5. UpToDate'
  <2>1. Range(ids') = DOMAIN emitted
    BY <1>1, <1>2 DEF Range
  <2>2. \A q \in DOMAIN ids' : received'[q] = emitted[ids'[q]]
    BY <1>1, <1>2
  <2>3. ~Over(received'[r])
    BY <1>1 DEF Over
  <2>4. pending' = {q \in DOMAIN ids' : ~Over(received'[q])}
    BY <1>1, <1>2, <2>3
  <2>. QED
    BY <2>1, <2>2, <2>4 DEF UpToDate
<1>. QED
  BY <1>4, <1>5

\* A stream is over when what came last ended it.
LEMMA OverJoined ==
  ASSUME NEW s \in Seq(Event), NEW t \in Seq(Event)
  PROVE  IF t = <<>> THEN s \o t = s ELSE Over(s \o t) <=> Over(t)
<1>1. t = <<>> => s \o t = s
  BY ConcatEmptySeq
<1>2. ASSUME t # <<>> PROVE Over(s \o t) <=> Over(t)
  <2>1. Len(s \o t) = Len(s) + Len(t) /\ Len(t) \in Nat /\ Len(t) # 0 /\ Len(s) \in Nat
    BY <1>2, ConcatProperties, EmptySeq
  <2>2. (s \o t)[Len(s) + Len(t)] = t[Len(t)]
    BY <2>1, ConcatProperties
  <2>3. s \o t # <<>>
    BY <2>1
  <2>. QED
    BY <1>2, <2>1, <2>2, <2>3 DEF Over
<1>. QED
  BY <1>1, <1>2

\* What is delivered completes the streams; those that end are not pending any more.
LEMMA DeliveredKnows ==
  ASSUME IdsOK, EventsOK, NEW a, a.status = "OK", UpToDateAfter(a), Delivered(a.events),
         call.kind \in {"step", "cancel"}, UNCHANGED emitted
  PROVE  IdsOK' /\ UpToDate'
<1>1. /\ DOMAIN emitted = Range(ids) /\ DOMAIN a.events = DOMAIN emitted
      /\ pending = {r \in DOMAIN ids : ~Over(received[r])}
      /\ \A r \in DOMAIN ids :
            /\ a.events[ids[r]] \in Seq(Event)
            /\ emitted[ids[r]] = received[r] \o a.events[ids[r]]
            /\ a.events[ids[r]] # <<>> => r \in pending
  BY DEF UpToDateAfter
<1>2. \A r \in DOMAIN ids : ids[r] \in DOMAIN a.events
  BY <1>1 DEF Range
<1>3. /\ received' = [r \in DOMAIN ids |-> received[r] \o a.events[ids[r]]]
      /\ pending' = {r \in pending : ~Over(a.events[ids[r]])}
      /\ ids' = ids
  <2>1. pending \subseteq DOMAIN ids
    BY DEF IdsOK
  <2>. QED
    BY <1>2, <2>1 DEF Delivered
<1>4. ASSUME NEW r \in DOMAIN ids
      PROVE  /\ received'[r] \in Seq(Event) /\ received'[r] = emitted[ids[r]]
             /\ r \in pending' <=> ~Over(received'[r])
  <2>1. received[r] \in Seq(Event) /\ a.events[ids[r]] \in Seq(Event)
    BY <1>1 DEF IdsOK
  <2>2. received'[r] = received[r] \o a.events[ids[r]]
    BY <1>3
  <2>3. received'[r] \in Seq(Event)
    BY <2>1, <2>2, ConcatProperties
  <2>4. CASE a.events[ids[r]] = <<>>
    <3>1. received'[r] = received[r] /\ ~Over(a.events[ids[r]])
      BY <2>1, <2>2, <2>4, OverJoined DEF Over
    <3>. QED
      BY <1>1, <1>3, <2>2, <2>3, <3>1
  <2>5. CASE a.events[ids[r]] # <<>>
    <3>1. Over(received'[r]) <=> Over(a.events[ids[r]])
      BY <2>1, <2>2, <2>5, OverJoined
    <3>. QED
      BY <1>1, <1>3, <2>2, <2>3, <2>5, <3>1
  <2>. QED
    BY <2>4, <2>5
<1>5. IdsOK'
  BY <1>1, <1>3, <1>4 DEF IdsOK
<1>6. UpToDate'
  <2>1. pending' = {r \in DOMAIN ids' : ~Over(received'[r])}
    BY <1>1, <1>3, <1>4
  <2>. QED
    BY <1>1, <1>3, <1>4, <2>1 DEF UpToDate
<1>. QED
  BY <1>5, <1>6

LEMMA ReceiveKeeps ==
  ASSUME SessionInv, Receive
  PROVE  SessionInv'
<1>. DEFINE a == answers[1]
<1>1. /\ mode = "open" /\ call # NoCall /\ answers # <<>>
      /\ call' = NoCall
      /\ UNCHANGED <<sequences, requests, worker, reply, emitted, events, failed, created, resident>>
  BY DEF Receive, engineVars, runnerVars
<1>2. requests = <<>> /\ reply = <<>> /\ answers' = <<>> /\ Head(answers) = a
  BY <1>1, TakeLine DEF SessionInv, LineOfCall, Receive
<1>3. worker # "starting"
  BY <1>1 DEF SessionInv, LineOfCall
<1>4. /\ IF a.status = "OK" /\ call.kind = "submit"
         THEN \E r \in call.submitted : Entered(r)
         ELSE IF a.status = "OK" /\ call.kind \in {"step", "cancel"}
              THEN Delivered(a.events)
              ELSE UNCHANGED <<ids, pending, received>>
      /\ call.kind # "quit" <=> mode' = "open"
  BY <1>2 DEF Receive
<1>5. LineOfCall'
  BY <1>1, <1>2, <1>3 DEF LineOfCall, OneLine
<1>6. RunnerKnows'
  BY <1>1, <1>2, <1>4 DEF SessionInv, RunnerKnows, Quit, SequencesAreThere
<1>7. ClientKnows'
  <2>. SUFFICES ASSUME call.kind # "quit"
                PROVE  IdsOK' /\ EventsOK' /\ CallOK' /\ UpToDate'
    BY <1>1, <1>2, <1>4 DEF ClientKnows
  <2>1. IdsOK /\ EventsOK /\ CallOK /\ UpToDateAfter(a)
    BY <1>1 DEF SessionInv, ClientKnows
  <2>2. EventsOK'
    BY <1>1, <2>1 DEF EventsOK
  <2>3. CallOK'
    BY <1>1 DEF CallOK, NoCall, Call, Command
  <2>. HIDE DEF a
  <2>4. CASE a.status = "OK" /\ call.kind = "submit"
    <3>1. PICK r \in Request \ DOMAIN ids :
             call.submitted = {r} /\ call.handle = Cardinality(DOMAIN ids) + 1
      BY <2>1, <2>4 DEF CallOK
    <3>2. Entered(r)
      BY <1>4, <2>4, <3>1
    <3>. QED
      BY <1>1, <2>1, <2>2, <2>3, <2>4, <3>1, <3>2, EnteredKnows
  <2>5. CASE a.status = "OK" /\ call.kind \in {"step", "cancel"}
    BY <1>1, <1>4, <2>1, <2>2, <2>3, <2>5, DeliveredKnows
  <2>6. CASE ~(a.status = "OK" /\ call.kind \in {"submit", "step", "cancel"})
    <3>1. UNCHANGED <<ids, pending, received>> /\ UpToDate
      BY <1>4, <2>1, <2>6 DEF UpToDateAfter
    <3>. QED
      BY <1>1, <2>1, <2>2, <2>3, <3>1 DEF IdsOK, UpToDate
  <2>. QED
    BY <2>4, <2>5, <2>6
<1>. QED
  BY <1>5, <1>6, <1>7 DEF SessionInv

\* A client that gives up expects no answer any more.
LEMMA ClosingKeeps ==
  ASSUME SessionInv, mode' # "open",
         UNCHANGED <<requests, answers, reply, worker, failed, created, resident>>
  PROVE  SessionInv'
<1>1. LineOfCall'
  BY DEF SessionInv, LineOfCall, OneLine
<1>2. RunnerKnows'
  BY DEF SessionInv, RunnerKnows, Quit, SequencesAreThere
<1>. QED
  BY <1>1, <1>2 DEF SessionInv, ClientKnows

LEMMA ForcedKeeps ==
  ASSUME SessionInv, Forced
  PROVE  SessionInv'
  BY ClosingKeeps DEF Forced, engineVars, runnerVars

LEMMA StepKnows ==
  ASSUME SessionInv, [Next]_vars
  PROVE  SessionInv'
<1>1. CASE Calls
  BY <1>1, CallsKeep
<1>2. CASE Receive
  BY <1>2, ReceiveKeeps
<1>3. CASE ReadEnd \/ Interrupt \/ CloseForced
  BY <1>3, ForcedKeeps DEF ReadEnd, Interrupt, CloseForced, GivesUp
<1>4. CASE InterruptStart \/ WaitTimesOut \/ Reap
  BY <1>4, ClosingKeeps DEF InterruptStart, WaitTimesOut, Reap, engineVars, runnerVars
<1>5. CASE Start
  BY <1>5, StartKeeps
<1>6. CASE Serve
  BY <1>6, ServeSubmitKeeps, ServeStepKeeps, ServeStepFailsKeeps, ServeCancelKeeps,
     ServeForwardKeeps, ServeDiagnosticKeeps, ServeOtherKeeps, ServeQuitKeeps DEF Serve
<1>7. CASE Flush
  BY <1>7, FlushKeeps
<1>8. CASE Crash \/ Killed \/ EndOfInput
  BY <1>8, ExitsKeeps DEF Crash, Killed, EndOfInput
<1>9. CASE UNCHANGED vars
  <2>1. UNCHANGED <<mode, call, ids, pending, sequences, received, requests, answers, worker,
                    signal, reply, emitted, events, failed, created, resident>>
    BY <1>9 DEF vars, clientVars, engineVars, runnerVars
  <2>2. LineOfCall'
    BY <2>1 DEF SessionInv, LineOfCall, OneLine
  <2>3. RunnerKnows'
    BY <2>1 DEF SessionInv, RunnerKnows, Quit, SequencesAreThere
  <2>4. ClientKnows'
    BY <2>1 DEF SessionInv, ClientKnows, IdsOK, EventsOK, CallOK, UpToDate, UpToDateAfter
  <2>. QED
    BY <2>2, <2>3, <2>4 DEF SessionInv
<1>. QED
  BY <1>1, <1>2, <1>3, <1>4, <1>5, <1>6, <1>7, <1>8, <1>9 DEF Next

------------------------------------------------------------------------------
\* The theorems

\* Between two calls nothing is on its way and the client has exactly the events the
\* engine made: an answer is never taken for that of another call, whatever dies or
\* is interrupted (close in client.py:27, session.cpp:20).
THEOREM EverythingAlwaysArrives == Spec => []EverythingArrives
<1>1. Init => SessionInv
  BY InitKnows
<1>2. SessionInv /\ [Next]_vars => SessionInv'
  BY StepKnows
<1>3. SessionInv => EverythingArrives
  <2>. SUFFICES ASSUME SessionInv, mode = "open", call = NoCall PROVE EverythingArrives
    BY DEF EverythingArrives
  <2>1. call.kind # "quit"
    BY DEF NoCall, Call, Command
  <2>2. EventsOK /\ UpToDate
    BY <2>1 DEF SessionInv, ClientKnows
  <2>3. requests = <<>> /\ answers = <<>> /\ reply = <<>>
    BY DEF SessionInv, LineOfCall
  <2>. QED
    BY <2>2, <2>3 DEF EverythingArrives, EventsOK, UpToDate
<1>. QED
  BY <1>1, <1>2, <1>3, PTL DEF Spec

\* A sequence the diagnostics created is one the runner has when they ask for it,
\* whatever failed before (session.cpp:12).
THEOREM SequencesAreAlwaysThere == Spec => []SequencesAreThere
<1>1. Init => SessionInv
  BY InitKnows
<1>2. SessionInv /\ [Next]_vars => SessionInv'
  BY StepKnows
<1>3. SessionInv => SequencesAreThere
  BY DEF SessionInv, RunnerKnows
<1>. QED
  BY <1>1, <1>2, <1>3, PTL DEF Spec

------------------------------------------------------------------------------
\* The trie: its invariant

\* A node is free, or a page of a history.
Nodes == [parent : NodeId \cup {Root}, depth : Nat, edge : Seq(Nat), block : Page \cup {None}]

Indexes ==
    [node : [NodeId -> Nodes], available : SUBSET NodeId, list : Seq(NodeId),
     publication : Seq(NodeId), spareNode : SUBSET NodeId, spareAvailable : BOOLEAN,
     leases : [Page -> Nat]]

\* A hint that names live nodes down a path.
HintOK(ix, hint) ==
    \A i \in 1 .. Len(hint) :
        /\ hint[i] \in Live(ix) /\ ix.node[hint[i]].depth = i
        /\ ix.node[hint[i]].parent = IF i = 1 THEN Root ELSE hint[i - 1]

\* Live nodes make a tree, in which the hint is a path.
Linked(ix) ==
    /\ \A n \in Live(ix) : /\ ix.node[n].parent \in Live(ix) \cup {Root}
                           /\ ix.node[n].depth = Depth(ix, ix.node[n].parent) + 1
    /\ ix.spareNode \cap Live(ix) = {}
    /\ HintOK(ix, ix.publication)

\* No leaf is without a lease, but for some.
Leafy(ix, some) == \A n \in Live(ix) \ Held(ix) : Children(ix, n) # {} \/ n \in some

\* The list, the lookup and the leases are of the held nodes; more are in the lookup.
Booked(ix, more) ==
    /\ ToSet(ix.list) = Held(ix) /\ IsInjective(ix.list)
    /\ ix.available = Held(ix) \cup more
    /\ \A p \in Page : ix.leases[p] = Cardinality({n \in Held(ix) : ix.node[n].block = p})

\* The call of publish stands at the depth it has reached, where the hint leads it if it goes as far.
PublishOK(ix, round) ==
    /\ round \in [tokens : Seq(Nat), i : Nat \ {0}, parent : NodeId \cup {Root}]
    /\ round.parent \in Live(ix) \cup {Root} /\ Depth(ix, round.parent) = round.i - 1
    /\ round.i > 1 /\ Len(ix.publication) >= round.i - 1 => ix.publication[round.i - 1] = round.parent

IndexOK(ix, some) == ix \in Indexes /\ Linked(ix) /\ Leafy(ix, some)

TrieInv ==
    /\ IndexOK(index, {}) /\ Booked(index, {})
    /\ clearing \subseteq Live(index)
    /\ publishing # <<>> => /\ clearing = {} /\ publishing = <<publishing[1]>>
                            /\ PublishOK(index, publishing[1])

------------------------------------------------------------------------------
\* The trie: numbers, sequences and order

LEMMA MinMember ==
  ASSUME NEW S \in SUBSET Nat, S # {}
  PROVE  Min(S) \in S /\ \A x \in S : Min(S) <= x
<1>1. PICK x \in S : \A y \in S : x <= y
  BY LeastNatural
<1>. QED
  BY <1>1, Zenon DEF Min

LEMMA MinOfTwo ==
  ASSUME NEW a \in Int, NEW b \in Int
  PROVE  Min({a, b}) \in {a, b} /\ Min({a, b}) <= a /\ Min({a, b}) <= b
<1>1. \E x \in {a, b} : \A y \in {a, b} : x <= y
  BY SMT
<1>2. Min({a, b}) \in {a, b} /\ \A y \in {a, b} : Min({a, b}) <= y
  BY <1>1, Zenon DEF Min
<1>. QED
  BY <1>2

LEMMA LexIrreflexive ==
  ASSUME NEW x \in Seq(Nat)
  PROVE  ~ LexLess(x, x)
<1>. SUFFICES ASSUME LexLess(x, x) PROVE FALSE
  OBVIOUS
<1>1. PICK n \in 0 .. Len(x) : n < Len(x) /\ (n = Len(x) \/ x[n + 1] < x[n + 1])
  BY DEF LexLess
<1>2. Len(x) \in Nat /\ n + 1 \in 1 .. Len(x)
  BY <1>1
<1>3. x[n + 1] \in Nat /\ n # Len(x)
  BY <1>1, <1>2
<1>. QED
  BY <1>1, <1>3

\* A part of a history is one.
LEMMA PartOfHistory ==
  ASSUME NEW T, NEW s \in Seq(T), NEW a \in Nat \ {0}, NEW b \in Int, b <= Len(s)
  PROVE  SubSeq(s, a, b) \in Seq(T)
<1>1. Len(s) \in Nat /\ \A k \in 1 .. Len(s) : s[k] \in T
  OBVIOUS
<1>2. CASE a <= b
  <2>1. SubSeq(s, a, b) = [k \in 1 .. b - a + 1 |-> s[a + k - 1]]
    BY <1>1, <1>2
  <2>2. \A k \in 1 .. b - a + 1 : s[a + k - 1] \in T
    <3>1. \A k \in 1 .. b - a + 1 : a + k - 1 \in 1 .. Len(s)
      BY <1>1, <1>2
    <3>. QED
      BY <1>1, <3>1
  <2>3. b - a + 1 \in Nat
    BY <1>2
  <2>. QED
    BY <2>1, <2>2, <2>3
<1>3. CASE a > b
  <2>1. SubSeq(s, a, b) = <<>>
    BY <1>1, <1>3
  <2>. QED
    BY <2>1
<1>. QED
  BY <1>2, <1>3

LEMMA PrefixIs ==
  ASSUME NEW T, NEW s \in Seq(T), NEW n \in Nat, n <= Len(s)
  PROVE  /\ Prefix(s, n) \in Seq(T) /\ Len(Prefix(s, n)) = n
         /\ \A i \in 1 .. n : Prefix(s, n)[i] = s[i]
BY DEF Prefix

\* An injective sequence is as long as its set is large.
LEMMA ListLength ==
  ASSUME NEW T, NEW q \in Seq(T), IsInjective(q)
  PROVE  IsFiniteSet(ToSet(q)) /\ Cardinality(ToSet(q)) = Len(q)
<1>1. Len(q) \in Nat /\ DOMAIN q = 1 .. Len(q) /\ ToSet(q) = {q[k] : k \in 1 .. Len(q)}
  BY DEF ToSet
<1>2. q \in Bijection(1 .. Len(q), ToSet(q))
  BY <1>1 DEF Bijection, Injection, Surjection, IsInjective
<1>3. IsFiniteSet(1 .. Len(q)) /\ Cardinality(1 .. Len(q)) = Len(q)
  <2>1. 1 \in Int /\ Len(q) \in Int
    BY <1>1
  <2>2. /\ IsFiniteSet(1 .. Len(q))
        /\ Cardinality(1 .. Len(q)) = IF 1 > Len(q) THEN 0 ELSE Len(q) - 1 + 1
    BY <2>1, FS_Interval, Zenon
  <2>. QED
    BY <1>1, <2>2
<1>4. ExistsBijection(1 .. Len(q), ToSet(q))
  BY <1>2 DEF ExistsBijection
<1>. QED
  BY <1>2, <1>3, <1>4, FS_Bijection

\* What is unlinked goes, and nothing else.
LEMMA UnlinkIs ==
  ASSUME NEW list \in Seq(NodeId), IsInjective(list), NEW n \in NodeId
  PROVE  /\ Unlink(list, n) \in Seq(NodeId) /\ IsInjective(Unlink(list, n))
         /\ ToSet(Unlink(list, n)) = ToSet(list) \ {n}
<1>1. ToSet(list) \subseteq NodeId
  BY DEF ToSet
<1>. QED
  BY <1>1, SelectedFacts DEF Unlink

------------------------------------------------------------------------------
\* The trie: ancestors

\* One ancestor at each depth: the nodes from n up, up to a child of the root.
Chain(ix, n, up) ==
    /\ up \in Seq(NodeId) /\ Len(up) = ix.node[n].depth /\ Len(up) \in Nat \ {0} /\ up[1] = n
    /\ \A k \in 1 .. Len(up) : up[k] \in Live(ix) /\ ix.node[up[k]].depth = Len(up) - k + 1
    /\ \A k \in 1 .. Len(up) : ix.node[up[k]].parent = IF k = Len(up) THEN Root ELSE up[k + 1]

LEMMA AncestorsAre ==
  ASSUME NEW ix \in Indexes, Linked(ix), NEW n \in Live(ix)
  PROVE  Chain(ix, n, Ancestors(ix, n))
<1>. DEFINE d == ix.node[n].depth
            m == d - 1
            At(k) == {x \in Live(ix) : ix.node[x].depth = d - k}
            S == [k \in 0 .. m |-> At(k)]
            move == [k \in 1 .. m |-> [x \in NodeId |-> ix.node[x].parent]]
            it == CHOOSE f : f = [k \in 0 .. Depth(ix, n) - 1 |->
                                     IF k = 0 THEN n ELSE ix.node[f[k - 1]].parent]
<1>1. /\ \A x \in Live(ix) : x \in NodeId /\ ix.node[x].depth \in Nat /\ ix.node[x].depth > 0 /\ x # Root
      /\ Root \notin NodeId
  BY TrieAssumption DEF Live, Indexes, Nodes
<1>2. d \in Nat \ {0} /\ m \in Nat /\ Depth(ix, n) = d
  BY <1>1 DEF Depth
<1>3. ASSUME NEW x \in Live(ix)
      PROVE  IF ix.node[x].depth = 1 THEN ix.node[x].parent = Root
             ELSE ix.node[x].parent \in Live(ix) /\ ix.node[ix.node[x].parent].depth = ix.node[x].depth - 1
  <2>1. /\ ix.node[x].parent \in Live(ix) \cup {Root}
        /\ ix.node[x].depth = Depth(ix, ix.node[x].parent) + 1
    BY DEF Linked
  <2>2. CASE ix.node[x].parent = Root
    <3>1. ix.node[x].depth = 1
      BY <2>1, <2>2 DEF Depth
    <3>. QED
      BY <2>2, <3>1
  <2>3. CASE ix.node[x].parent \in Live(ix)
    <3>1. /\ ix.node[x].depth = ix.node[ix.node[x].parent].depth + 1
          /\ ix.node[ix.node[x].parent].depth \in Nat /\ ix.node[ix.node[x].parent].depth > 0
      BY <1>1, <2>1, <2>3 DEF Depth
    <3>. QED
      BY <2>3, <3>1
  <2>. QED
    BY <2>1, <2>2, <2>3
<1>. HIDE DEF d
<1>4. \A k \in 1 .. m : k \in 0 .. m /\ k - 1 \in 0 .. m /\ k # 0
  BY <1>2
<1>5. \A k \in 1 .. m : \A x \in At(k - 1) : ix.node[x].parent \in At(k)
  <2>. SUFFICES ASSUME NEW k \in 1 .. m, NEW x \in At(k - 1) PROVE ix.node[x].parent \in At(k)
    OBVIOUS
  <2>1. x \in Live(ix) /\ ix.node[x].depth = d - (k - 1) /\ ix.node[x].depth # 1
    BY <1>2
  <2>2. ix.node[x].parent \in Live(ix) /\ ix.node[ix.node[x].parent].depth = ix.node[x].depth - 1
    BY <1>3, <2>1
  <2>. QED
    BY <1>2, <2>1, <2>2
<1>6. n \in At(0)
  BY <1>2 DEF d
<1>7. \A k \in 0 .. m : S[k] = At(k)
  OBVIOUS
<1>8. \A k \in 1 .. m : \A x \in S[k - 1] : move[k][x] = ix.node[x].parent /\ move[k][x] \in S[k]
  <2>. SUFFICES ASSUME NEW k \in 1 .. m, NEW x \in S[k - 1]
                PROVE  move[k][x] = ix.node[x].parent /\ move[k][x] \in S[k]
    OBVIOUS
  <2>1. x \in At(k - 1) /\ x \in NodeId
    BY <1>1, <1>4, <1>7
  <2>2. move[k][x] = ix.node[x].parent
    BY <2>1
  <2>3. ix.node[x].parent \in At(k)
    BY <1>5, <2>1
  <2>. HIDE DEF move, S, At
  <2>. QED
    BY <1>4, <1>7, <2>2, <2>3
<1>. HIDE DEF move, At
<1>9. PICK f : Orbit(f, m, n, move) /\ \A k \in 0 .. m : f[k] \in S[k]
  <2>1. n \in S[0]
    BY <1>2, <1>6, <1>7
  <2>2. \A k \in 1 .. m : \A x \in S[k - 1] : move[k][x] \in S[k]
    BY <1>8
  <2>. HIDE DEF S
  <2>. QED
    BY <1>2, <2>1, <2>2, OrbitExists
<1>. HIDE DEF S
<1>10. f = [k \in 0 .. m |-> IF k = 0 THEN n ELSE ix.node[f[k - 1]].parent]
  <2>1. f = [k \in 0 .. m |-> IF k = 0 THEN n ELSE move[k][f[k - 1]]]
    BY <1>9 DEF Orbit
  <2>2. \A k \in 0 .. m : k = 0 \/ k \in 1 .. m
    BY <1>2
  <2>3. \A k \in 0 .. m : k # 0 => move[k][f[k - 1]] = ix.node[f[k - 1]].parent
    BY <1>4, <1>8, <1>9, <2>2
  <2>. QED
    BY <2>1, <2>3, Zenon
<1>11. it = [k \in 0 .. m |-> IF k = 0 THEN n ELSE ix.node[it[k - 1]].parent]
  BY <1>2, <1>10, Zenon
<1>12. Ancestors(ix, n) = [k \in 1 .. d |-> it[k - 1]]
  BY <1>2, Zenon DEF Ancestors
<1>. HIDE DEF it
<1>. DEFINE X == {k \in 0 .. m : it[k] \in At(k)}
<1>13. \A k \in 0 .. m : k \in X
  <2>1. it[0] = n /\ \A k \in 1 .. m : it[k] = ix.node[it[k - 1]].parent
    BY <1>2, <1>4, <1>11
  <2>2. 0 \in X
    BY <1>2, <1>6, <2>1
  <2>3. \A k \in 1 .. m : k - 1 \in X => k \in X
    BY <1>4, <1>5, <2>1
  <2>. HIDE DEF X
  <2>. QED
    BY <1>2, <2>2, <2>3, Stepwise
<1>14. \A k \in 0 .. m : it[k] \in Live(ix) /\ ix.node[it[k]].depth = d - k
  BY <1>13 DEF At
<1>. DEFINE up == Ancestors(ix, n)
<1>15. /\ \A k \in 1 .. d : up[k] = it[k - 1] /\ k - 1 \in 0 .. m
       /\ DOMAIN up = 1 .. d
  BY <1>2, <1>12
<1>16. up \in Seq(NodeId) /\ Len(up) = d
  <2>1. \A k \in 1 .. d : it[k - 1] \in NodeId
    BY <1>1, <1>14, <1>15
  <2>. QED
    BY <1>2, <1>12, <2>1
<1>17. \A k \in 1 .. d : up[k] \in Live(ix) /\ ix.node[up[k]].depth = d - k + 1
  <2>1. \A k \in 1 .. d : d - (k - 1) = d - k + 1
    BY <1>2
  <2>. QED
    BY <1>14, <1>15, <2>1
<1>. HIDE DEF up
<1>18. \A k \in 1 .. d : ix.node[up[k]].parent = IF k = d THEN Root ELSE up[k + 1]
  <2>. SUFFICES ASSUME NEW k \in 1 .. d PROVE ix.node[up[k]].parent = IF k = d THEN Root ELSE up[k + 1]
    OBVIOUS
  <2>1. CASE k = d
    <3>1. ix.node[up[k]].depth = 1
      BY <1>2, <1>17, <2>1
    <3>. QED
      BY <1>3, <1>17, <2>1, <3>1
  <2>2. CASE k # d
    <3>1. k \in 1 .. m /\ k \in 0 .. m /\ k # 0 /\ k + 1 \in 1 .. d /\ (k + 1) - 1 = k
      BY <1>2, <2>2
    <3>2. it[k] = ix.node[it[k - 1]].parent
      BY <1>11, <3>1
    <3>3. up[k] = it[k - 1] /\ up[k + 1] = it[k]
      BY <1>15, <3>1
    <3>. QED
      BY <2>2, <3>2, <3>3
  <2>. QED
    BY <2>1, <2>2
<1>19. up[1] = n
  <2>1. 1 \in 1 .. d /\ 1 - 1 = 0 /\ 0 \in 0 .. m
    BY <1>2
  <2>. QED
    BY <1>11, <1>15, <2>1
<1>. QED
  BY <1>2, <1>16, <1>17, <1>18, <1>19 DEF up, d, Chain

LEMMA ChainUnique ==
  ASSUME NEW ix, NEW n, NEW p, Chain(ix, n, p), NEW q, Chain(ix, n, q)
  PROVE  p = q
<1>. DEFINE X == {k \in 0 .. Len(p) : k = 0 \/ p[k] = q[k]}
<1>1. Len(p) = Len(q) /\ Len(p) \in Nat /\ p[1] = q[1]
  BY DEF Chain
<1>2. ASSUME NEW k \in 1 .. Len(p), k - 1 \in X PROVE k \in X
  <2>1. CASE k = 1
    BY <1>1, <2>1
  <2>2. CASE k # 1
    <3>1. k - 1 \in 1 .. Len(p) /\ k - 1 # Len(p) /\ (k - 1) + 1 = k
      BY <1>1, <2>2
    <3>2. ix.node[p[k - 1]].parent = p[k] /\ ix.node[q[k - 1]].parent = q[k]
      BY <1>1, <3>1 DEF Chain
    <3>3. p[k - 1] = q[k - 1]
      BY <1>2, <3>1
    <3>. QED
      BY <1>1, <3>2, <3>3
  <2>. QED
    BY <2>1, <2>2
<1>3. 0 \in X
  BY <1>1
<1>. HIDE DEF X
<1>4. \A k \in 0 .. Len(p) : k \in X
  BY <1>1, <1>2, <1>3, Stepwise
<1>5. \A k \in 1 .. Len(p) : p[k] = q[k]
  BY <1>1, <1>4 DEF X
<1>6. p \in Seq(NodeId) /\ q \in Seq(NodeId)
  BY DEF Chain
<1>. QED
  BY <1>1, <1>5, <1>6

------------------------------------------------------------------------------
\* The trie: pruning

\* The hint is cut, or not.
HintCutTo(new, old) ==
    /\ new \in Seq(NodeId) /\ Len(new) <= Len(old)
    /\ \A i \in 1 .. Len(new) : new[i] = old[i]

\* Nodes without a lease may have gone, and the hint with them.
Trimmed(r, ix) ==
    /\ r \in Indexes /\ Linked(r)
    /\ r.available = ix.available /\ r.list = ix.list /\ r.leases = ix.leases
    /\ Live(r) \subseteq Live(ix) /\ \A y \in Live(r) : r.node[y] = ix.node[y]
    /\ Held(r) = Held(ix)
    /\ HintCutTo(r.publication, ix.publication)

LEMMA TrimmedTwice ==
  ASSUME NEW ix \in Indexes, NEW r, NEW t, Trimmed(r, ix), Trimmed(t, r)
  PROVE  Trimmed(t, ix)
<1>1. HintCutTo(t.publication, ix.publication)
  <2>1. /\ t.publication \in Seq(NodeId) /\ r.publication \in Seq(NodeId) /\ ix.publication \in Seq(NodeId)
        /\ Len(t.publication) <= Len(r.publication) /\ Len(r.publication) <= Len(ix.publication)
    BY DEF Trimmed, HintCutTo, Indexes
  <2>. QED
    BY <2>1 DEF Trimmed, HintCutTo
<1>2. \A y \in Live(t) : t.node[y] = ix.node[y]
  BY DEF Trimmed
<1>. QED
  BY <1>1, <1>2 DEF Trimmed

LEMMA NoCutHint ==
  ASSUME NEW hint \in Seq(NodeId)
  PROVE  HintCutTo(hint, hint)
BY DEF HintCutTo

\* A hint stays one when it is cut, as long as its nodes do.
LEMMA CutHintOK ==
  ASSUME NEW ix, HintOK(ix, ix.publication), NEW r, NEW hint, HintCutTo(hint, ix.publication),
         ix.publication \in Seq(NodeId),
         \A i \in 1 .. Len(hint) : hint[i] \in Live(r) /\ r.node[hint[i]].depth = ix.node[hint[i]].depth
                                   /\ r.node[hint[i]].parent = ix.node[hint[i]].parent
  PROVE  HintOK(r, hint)
<1>1. /\ Len(hint) \in Nat /\ Len(ix.publication) \in Nat /\ Len(hint) <= Len(ix.publication)
      /\ \A i \in 1 .. Len(hint) : hint[i] = ix.publication[i]
  BY DEF HintCutTo
<1>. SUFFICES ASSUME NEW i \in 1 .. Len(hint)
              PROVE  /\ hint[i] \in Live(r) /\ r.node[hint[i]].depth = i
                     /\ r.node[hint[i]].parent = IF i = 1 THEN Root ELSE hint[i - 1]
  BY DEF HintOK
<1>2. i \in 1 .. Len(ix.publication) /\ (i # 1 => i - 1 \in 1 .. Len(hint))
  BY <1>1
<1>3. /\ ix.node[hint[i]].depth = i
      /\ ix.node[hint[i]].parent = IF i = 1 THEN Root ELSE ix.publication[i - 1]
  BY <1>1, <1>2 DEF HintOK
<1>. QED
  BY <1>1, <1>2, <1>3

LEMMA ExtractKeeps ==
  ASSUME NEW ix \in Indexes, Linked(ix), NEW some, Leafy(ix, some),
         NEW x \in Live(ix), ix.node[x].block = None, Children(ix, x) = {}
  PROVE  /\ Trimmed(Extract(ix, x), ix) /\ Live(Extract(ix, x)) = Live(ix) \ {x}
         /\ Leafy(Extract(ix, x), some \cup {ix.node[x].parent})
<1>. DEFINE r == Extract(ix, x)
            hint == CutHint(ix, x)
<1>1. /\ ix.node \in [NodeId -> Nodes] /\ ix.publication \in Seq(NodeId) /\ x \in NodeId
      /\ ix.node[x].depth \in Nat /\ ix.node[x].depth > 0
  BY DEF Indexes, Live, Nodes
<1>2. FreedNode \in Nodes
  BY DEF FreedNode, Nodes
<1>3. HintCutTo(hint, ix.publication) /\ \A i \in 1 .. Len(hint) : hint[i] # x
  <2>. DEFINE d == ix.node[x].depth
  <2>1. \A i \in 1 .. Len(ix.publication) : ix.publication[i] = x => i = d
    BY DEF Linked, HintOK
  <2>2. CASE d <= Len(ix.publication) /\ ix.publication[d] = x
    <3>1. hint = Prefix(ix.publication, d - 1)
      BY <2>2 DEF CutHint
    <3>2. d - 1 \in Nat /\ d - 1 <= Len(ix.publication)
      BY <1>1, <2>2
    <3>3. /\ hint \in Seq(NodeId) /\ Len(hint) = d - 1
          /\ \A i \in 1 .. d - 1 : hint[i] = ix.publication[i]
      BY <1>1, <3>1, <3>2, PrefixIs
    <3>. HIDE DEF hint
    <3>. QED
      BY <1>1, <2>1, <3>2, <3>3 DEF HintCutTo
  <2>3. CASE ~ (d <= Len(ix.publication) /\ ix.publication[d] = x)
    <3>1. hint = ix.publication
      BY <2>3 DEF CutHint
    <3>2. \A i \in 1 .. Len(ix.publication) : ix.publication[i] # x
      BY <1>1, <2>1, <2>3
    <3>. HIDE DEF hint
    <3>. QED
      BY <1>1, <3>1, <3>2, NoCutHint
  <2>. QED
    BY <2>2, <2>3
<1>. HIDE DEF hint
<1>4. r = [ix EXCEPT !.node = [ix.node EXCEPT ![x] = FreedNode], !.publication = hint, !.spareNode = {x}]
  BY DEF Extract, hint
<1>5. /\ r \in Indexes /\ r.node = [ix.node EXCEPT ![x] = FreedNode]
      /\ r.publication = hint /\ r.spareNode = {x}
      /\ r.available = ix.available /\ r.list = ix.list /\ r.leases = ix.leases
  <2>1. hint \in Seq(NodeId)
    BY <1>3 DEF HintCutTo
  <2>2. [ix.node EXCEPT ![x] = FreedNode] \in [NodeId -> Nodes]
    BY <1>1, <1>2
  <2>. HIDE DEF r
  <2>. QED
    BY <1>1, <1>4, <2>1, <2>2 DEF Indexes
<1>. HIDE DEF r
<1>6. r.node[x] = FreedNode /\ \A y \in NodeId \ {x} : r.node[y] = ix.node[y]
  BY <1>1, <1>5
<1>7. Live(r) = Live(ix) \ {x}
  BY <1>1, <1>6 DEF Live, FreedNode
<1>8. Held(r) = Held(ix)
  BY <1>1, <1>6, <1>7 DEF Held, Live
<1>9. \A y \in Live(r) : y \in NodeId /\ r.node[y] = ix.node[y] /\ ix.node[y].parent # x
  BY <1>6, <1>7 DEF Live, Children
<1>10. Linked(r)
  <2>1. ASSUME NEW y \in Live(r)
        PROVE  /\ r.node[y].parent \in Live(r) \cup {Root}
               /\ r.node[y].depth = Depth(r, r.node[y].parent) + 1
    <3>1. /\ ix.node[y].parent \in Live(ix) \cup {Root} /\ ix.node[y].depth = Depth(ix, ix.node[y].parent) + 1
          /\ r.node[y] = ix.node[y] /\ ix.node[y].parent # x
      BY <1>7, <1>9 DEF Linked
    <3>2. ix.node[y].parent \in Live(r) \cup {Root}
      BY <1>7, <3>1
    <3>3. Depth(r, ix.node[y].parent) = Depth(ix, ix.node[y].parent)
      BY <1>9, <3>2 DEF Depth
    <3>. QED
      BY <3>1, <3>2, <3>3
  <2>2. r.spareNode \cap Live(r) = {}
    BY <1>5, <1>7
  <2>3. \A i \in 1 .. Len(hint) : hint[i] \in Live(ix)
    BY <1>1, <1>3 DEF Linked, HintOK, HintCutTo
  <2>4. \A i \in 1 .. Len(hint) : hint[i] \in Live(r) /\ r.node[hint[i]] = ix.node[hint[i]]
    BY <1>3, <1>7, <1>9, <2>3
  <2>5. HintOK(r, hint)
    BY <1>1, <1>3, <2>4, CutHintOK DEF Linked
  <2>. QED
    BY <1>5, <2>1, <2>2, <2>5 DEF Linked
<1>11. Trimmed(r, ix)
  BY <1>3, <1>5, <1>7, <1>8, <1>9, <1>10 DEF Trimmed
<1>12. Leafy(r, some \cup {ix.node[x].parent})
  <2>. SUFFICES ASSUME NEW y \in Live(r) \ Held(r), y \notin some, y # ix.node[x].parent
                PROVE  Children(r, y) # {}
    BY DEF Leafy
  <2>1. PICK c \in Live(ix) : ix.node[c].parent = y
    BY <1>7, <1>8 DEF Leafy, Children
  <2>2. c \in Live(r) /\ r.node[c].parent = y
    BY <1>7, <1>9, <2>1
  <2>. QED
    BY <2>2 DEF Children
<1>. QED
  BY <1>7, <1>11, <1>12 DEF r

LEMMA PruneSteps ==
  ASSUME NEW ix, NEW n, NEW protected, NEW q, q = Ancestors(ix, n), Len(q) \in Nat
  PROVE  \E f : /\ Prune(ix, n, protected) = f[Len(q)] /\ f[0] = ix
                /\ \A k \in 1 .. Len(q) : f[k] = Pruned(f[k - 1], q[k], protected)
<1>. DEFINE m == Len(q)
            Is(f, k) == f = [j \in 0 .. k |-> IF j = 0 THEN ix ELSE Pruned(f[j - 1], q[j], protected)]
            X == {k \in 0 .. m : \E f : Is(f, k)}
            it == CHOOSE f : Is(f, m)
<1>1. 0 \in X
  <2>. DEFINE start == [j \in 0 .. 0 |-> ix]
  <2>1. Is(start, 0)
    BY SMT
  <2>. HIDE DEF start
  <2>2. \E f : Is(f, 0)
    BY <2>1, Zenon
  <2>3. 0 \in 0 .. m
    OBVIOUS
  <2>. QED
    BY <2>2, <2>3, Zenon
<1>2. ASSUME NEW k \in 1 .. m, k - 1 \in X PROVE k \in X
  <2>1. PICK f : Is(f, k - 1)
    BY <1>2
  <2>. DEFINE g == [j \in 0 .. k |-> IF j < k THEN f[j] ELSE Pruned(f[k - 1], q[k], protected)]
  <2>2. /\ k \in 0 .. m /\ k - 1 \in 0 .. k - 1 /\ k \in 0 .. k /\ k # 0 /\ ~ (k < k)
        /\ \A j \in 0 .. k - 1 : j \in 0 .. k /\ j < k
        /\ \A j \in 0 .. k : j = k \/ j \in 0 .. k - 1
        /\ \A j \in 0 .. k - 1 : j = 0 \/ j - 1 \in 0 .. k - 1
    OBVIOUS
  <2>3. \A j \in 0 .. k - 1 : g[j] = f[j]
    BY <2>2, Zenon
  <2>4. g[k] = Pruned(g[k - 1], q[k], protected)
    <3>1. g[k] = Pruned(f[k - 1], q[k], protected)
      BY <2>2, Zenon
    <3>. QED
      BY <2>2, <2>3, <3>1
  <2>5. \A j \in 0 .. k - 1 : f[j] = IF j = 0 THEN ix ELSE Pruned(f[j - 1], q[j], protected)
    BY <2>1, Zenon
  <2>6. g = [j \in 0 .. k |-> g[j]]
    OBVIOUS
  <2>. HIDE DEF g
  <2>7. ASSUME NEW j \in 0 .. k
        PROVE  g[j] = IF j = 0 THEN ix ELSE Pruned(g[j - 1], q[j], protected)
    <3>1. CASE j = k
      BY <2>2, <2>4, <3>1
    <3>2. CASE j \in 0 .. k - 1
      BY <2>2, <2>3, <2>5, <3>2, Zenon
    <3>. QED
      BY <2>2, <3>1, <3>2
  <2>8. Is(g, k)
    BY <2>6, <2>7, Zenon
  <2>. QED
    BY <2>2, <2>8
<1>. HIDE DEF X
<1>3. m \in X
  <2>1. \A k \in 0 .. m : k \in X
    BY <1>1, <1>2, Stepwise
  <2>. QED
    BY <2>1
<1>4. Is(it, m)
  <2>1. \E f : Is(f, m)
    BY <1>3 DEF X
  <2>. QED
    BY <2>1, Zenon
<1>5. Prune(ix, n, protected) = it[m]
  BY Zenon DEF Prune, Iterated
<1>. HIDE DEF it
<1>6. \A k \in 0 .. m : it[k] = IF k = 0 THEN ix ELSE Pruned(it[k - 1], q[k], protected)
  BY <1>4, Zenon
<1>7. 0 \in 0 .. m /\ \A k \in 1 .. m : k \in 0 .. m /\ k # 0
  OBVIOUS
<1>8. it[0] = ix /\ \A k \in 1 .. m : it[k] = Pruned(it[k - 1], q[k], protected)
  BY <1>6, <1>7, Zenon
<1>. QED
  BY <1>5, <1>8, Zenon

\* From a node that may have become a useless leaf: afterwards none is left.
LEMMA PruneKeeps ==
  ASSUME NEW ix \in Indexes, Linked(ix), NEW n \in Live(ix), NEW protected, Leafy(ix, protected \cup {n})
  PROVE  LET r == Prune(ix, n, protected)
         IN  /\ Trimmed(r, ix) /\ Leafy(r, protected)
             /\ \A y \in Live(ix) : y \in Live(r) \/ (y \notin protected /\ y \in ToSet(Ancestors(ix, n)))
<1>. DEFINE q == Ancestors(ix, n)
            m == Len(q)
            next(k) == IF k < m THEN {q[k + 1]} ELSE {}
<1>1. Chain(ix, n, q)
  BY AncestorsAre
<1>. HIDE DEF q
<1>2. m \in Nat \ {0} /\ q \in Seq(NodeId)
  BY <1>1 DEF Chain
<1>3. PICK f : /\ Prune(ix, n, protected) = f[m] /\ f[0] = ix
               /\ \A k \in 1 .. m : f[k] = Pruned(f[k - 1], q[k], protected)
  BY <1>2, PruneSteps DEF q
<1>. DEFINE Good(k) == /\ Trimmed(f[k], ix) /\ Leafy(f[k], protected \cup next(k))
                       /\ \A y \in Live(ix) : \/ y \in Live(f[k])
                                              \/ (y \notin protected /\ \E j \in 1 .. k : y = q[j])
            X == {k \in 0 .. m : Good(k)}
<1>4. 0 \in X
  <2>1. Trimmed(ix, ix)
    BY NoCutHint DEF Trimmed, Indexes
  <2>2. next(0) = {n}
    BY <1>1, <1>2 DEF Chain
  <2>3. Trimmed(f[0], ix) /\ Leafy(f[0], protected \cup next(0))
    BY <1>3, <2>1, <2>2
  <2>4. \A y \in Live(ix) : y \in Live(f[0])
    BY <1>3
  <2>. HIDE DEF next
  <2>5. Good(0)
    BY <2>3, <2>4
  <2>. HIDE DEF Good
  <2>. QED
    BY <1>2, <2>5
<1>5. ASSUME NEW k \in 1 .. m, k - 1 \in X PROVE k \in X
  <2>. DEFINE g == f[k - 1]
              x == q[k]
  <2>0. Good(k - 1)
    BY <1>5
  <2>. HIDE DEF X
  <2>1. k - 1 < m /\ next(k - 1) = {x}
    BY <1>2
  <2>2. /\ Trimmed(g, ix) /\ Leafy(g, protected \cup {x})
        /\ \A y \in Live(ix) : y \in Live(g) \/ (y \notin protected /\ \E j \in 1 .. k - 1 : y = q[j])
    BY <2>0, <2>1
  <2>3. x \in Live(ix) /\ \A j \in 1 .. k - 1 : x # q[j]
    <3>1. \A j \in 1 .. k - 1 : j \in 1 .. m /\ j # k
      BY <1>2
    <3>2. \A j \in 1 .. m : ix.node[q[j]].depth = m - j + 1
      BY <1>1 DEF Chain
    <3>3. \A j \in 1 .. k - 1 : m - j + 1 # m - k + 1
      BY <1>2
    <3>4. \A j \in 1 .. k - 1 : x # q[j]
      BY <3>1, <3>2, <3>3
    <3>. QED
      BY <1>1, <3>4 DEF Chain
  <2>4. x \in Live(g) /\ g \in Indexes /\ Linked(g) /\ g.node[x] = ix.node[x]
    BY <2>2, <2>3 DEF Trimmed
  <2>5. f[k] = Pruned(g, x, protected)
    BY <1>3
  <2>6. g.node[x].parent \in next(k) \cup {Root} /\ Root \notin Live(g)
    <3>1. g.node[x].parent = IF k = m THEN Root ELSE q[k + 1]
      BY <1>1, <2>4 DEF Chain
    <3>2. Root \notin Live(g)
      BY TrieAssumption DEF Live
    <3>. QED
      BY <1>2, <3>1, <3>2
  <2>. HIDE DEF g, x
  <2>7. CASE Prunable(g, x, protected)
    <3>1. f[k] = Extract(g, x) /\ x \notin protected /\ g.node[x].block = None /\ Children(g, x) = {}
      BY <2>5, <2>7, Zenon DEF Pruned, Prunable
    <3>2. /\ Trimmed(f[k], g) /\ Live(f[k]) = Live(g) \ {x}
          /\ Leafy(f[k], (protected \cup {x}) \cup {g.node[x].parent})
      <4>1. g \in Indexes /\ Linked(g) /\ Leafy(g, protected \cup {x}) /\ x \in Live(g)
        BY <2>2, <2>4
      <4>2. /\ Trimmed(Extract(g, x), g) /\ Live(Extract(g, x)) = Live(g) \ {x}
            /\ Leafy(Extract(g, x), (protected \cup {x}) \cup {g.node[x].parent})
        BY <3>1, <4>1, ExtractKeeps, Zenon
      <4>. QED
        BY <3>1, <4>2, Zenon
    <3>3. Trimmed(f[k], ix)
      BY <2>2, <3>2, TrimmedTwice
    <3>4. Leafy(f[k], protected \cup next(k))
      BY <2>6, <3>2 DEF Leafy
    <3>5. ASSUME NEW y \in Live(ix)
          PROVE  y \in Live(f[k]) \/ (y \notin protected /\ \E j \in 1 .. k : y = q[j])
      <4>1. CASE y = x
        BY <1>2, <3>1, <4>1 DEF x
      <4>2. CASE y # x
        <5>1. \A j \in 1 .. k - 1 : j \in 1 .. k
          BY <1>2
        <5>. QED
          BY <2>2, <3>2, <4>2, <5>1
      <4>. QED
        BY <4>1, <4>2
    <3>6. Good(k)
      BY <3>3, <3>4, <3>5
    <3>. QED
      BY <3>6 DEF X
  <2>8. CASE ~ Prunable(g, x, protected)
    <3>1. f[k] = g /\ (x \in protected \/ g.node[x].block # None \/ Children(g, x) # {})
      BY <2>5, <2>8, Zenon DEF Pruned, Prunable
    <3>2. Leafy(g, protected)
      BY <2>2, <2>4, <3>1 DEF Leafy, Held
    <3>3. Leafy(g, protected \cup next(k))
      BY <3>2 DEF Leafy
    <3>4. \A j \in 1 .. k - 1 : j \in 1 .. k
      BY <1>2
    <3>5. Good(k)
      BY <2>2, <3>1, <3>3, <3>4
    <3>. QED
      BY <3>5 DEF X
  <2>. QED
    BY <2>7, <2>8
<1>. HIDE DEF X
<1>6. m \in X
  <2>1. \A k \in 0 .. m : k \in X
    BY <1>2, <1>4, <1>5, Stepwise
  <2>. QED
    BY <1>2, <2>1
<1>7. Good(m)
  BY <1>6, Zenon DEF X
<1>8. next(m) = {}
  BY <1>2
<1>9. \A j \in 1 .. m : q[j] \in ToSet(q)
  BY <1>2 DEF ToSet
<1>. HIDE DEF next
<1>10. /\ Trimmed(f[m], ix) /\ Leafy(f[m], protected)
       /\ \A y \in Live(ix) : y \in Live(f[m]) \/ (y \notin protected /\ y \in ToSet(q))
  <2>1. protected \cup next(m) = protected
    BY <1>8
  <2>. QED
    BY <1>7, <1>9, <2>1
<1>. QED
  BY <1>3, <1>10 DEF q

------------------------------------------------------------------------------
\* The trie: leases

HeldAt(ix, p) == {n \in Held(ix) : ix.node[n].block = p}

LEMMA HeldFinite ==
  ASSUME NEW ix \in Indexes, NEW more, Booked(ix, more)
  PROVE  /\ IsFiniteSet(Held(ix)) /\ Len(ix.list) = Cardinality(Held(ix))
         /\ \A p \in Page : IsFiniteSet(HeldAt(ix, p)) /\ Cardinality(HeldAt(ix, p)) \in Nat
                            /\ ix.leases[p] = Cardinality(HeldAt(ix, p))
<1>1. ix.list \in Seq(NodeId)
  BY DEF Indexes
<1>2. IsFiniteSet(Held(ix)) /\ Len(ix.list) = Cardinality(Held(ix))
  BY <1>1, ListLength DEF Booked
<1>3. \A p \in Page : HeldAt(ix, p) \in SUBSET Held(ix)
  BY DEF HeldAt
<1>. QED
  BY <1>2, <1>3, FS_Subset, FS_CardinalityType DEF Booked, HeldAt

LEMMA DroppedKeeps ==
  ASSUME NEW ix \in Indexes, Linked(ix), NEW some, Leafy(ix, some), NEW more, Booked(ix, more),
         more \cap Held(ix) = {}, NEW n \in Held(ix)
  PROVE  LET r == Dropped(ix, n)
         IN  /\ r \in Indexes /\ Linked(r) /\ Leafy(r, some \cup {n}) /\ Booked(r, more)
             /\ Live(r) = Live(ix) /\ Held(r) = Held(ix) \ {n} /\ r.publication = ix.publication
             /\ \A y \in NodeId \ {n} : r.node[y] = ix.node[y]
             /\ r.node[n].parent = ix.node[n].parent /\ r.node[n].depth = ix.node[n].depth
             /\ r.node[n].edge = ix.node[n].edge /\ r.node[n].block = None
<1>. DEFINE r == Dropped(ix, n)
            p == ix.node[n].block
<1>1. /\ ix.node \in [NodeId -> Nodes] /\ ix.list \in Seq(NodeId) /\ ix.leases \in [Page -> Nat]
      /\ ix.available \subseteq NodeId
      /\ n \in NodeId /\ n \in Live(ix) /\ p \in Page
  BY DEF Indexes, Held, Live, Nodes
<1>2. /\ Unlink(ix.list, n) \in Seq(NodeId) /\ IsInjective(Unlink(ix.list, n))
      /\ ToSet(Unlink(ix.list, n)) = Held(ix) \ {n}
  BY <1>1, UnlinkIs DEF Booked
<1>3. /\ \A a \in Page : IsFiniteSet(HeldAt(ix, a)) /\ Cardinality(HeldAt(ix, a)) \in Nat
                         /\ ix.leases[a] = Cardinality(HeldAt(ix, a))
      /\ n \in HeldAt(ix, p)
  BY HeldFinite DEF HeldAt
<1>4. Cardinality(HeldAt(ix, p) \ {n}) = ix.leases[p] - 1 /\ ix.leases[p] - 1 \in Nat
  <2>1. IsFiniteSet(HeldAt(ix, p) \ {n}) /\ Cardinality(HeldAt(ix, p) \ {n}) = Cardinality(HeldAt(ix, p)) - 1
    BY <1>1, <1>3, FS_RemoveElement
  <2>2. Cardinality(HeldAt(ix, p) \ {n}) \in Nat
    BY <2>1, FS_CardinalityType
  <2>. QED
    BY <1>1, <1>3, <2>1, <2>2
<1>. DEFINE list == Unlink(ix.list, n)
            leases == [ix.leases EXCEPT ![p] = @ - 1]
            free == [ix.node[n] EXCEPT !.block = None]
            node == [ix.node EXCEPT ![n] = free]
<1>5. r = [ix EXCEPT !.available = ix.available \ {n}, !.spareAvailable = TRUE,
                     !.leases = leases, !.list = list, !.node = node]
  BY DEF Dropped
<1>7. /\ free \in Nodes /\ free.block = None
      /\ free.parent = ix.node[n].parent /\ free.depth = ix.node[n].depth /\ free.edge = ix.node[n].edge
  <2>1. ix.node[n] \in Nodes
    BY <1>1
  <2>. QED
    BY <2>1 DEF Nodes
<1>. HIDE DEF free
<1>14. node \in [NodeId -> Nodes] /\ node[n] = free /\ \A y \in NodeId \ {n} : node[y] = ix.node[y]
  BY <1>1, <1>7
<1>15. leases \in [Page -> Nat]
  BY <1>1, <1>4
<1>. HIDE DEF r, p, list, leases, node
<1>8. r \in Indexes
  BY <1>1, <1>2, <1>5, <1>14, <1>15 DEF Indexes, list
<1>6. /\ r.node = node /\ r.available = ix.available \ {n}
      /\ r.list = list /\ r.publication = ix.publication /\ r.spareNode = ix.spareNode
      /\ r.leases = leases
  BY <1>1, <1>5 DEF Indexes
<1>16. /\ \A y \in NodeId \ {n} : r.node[y] = ix.node[y]
       /\ r.node[n].parent = ix.node[n].parent /\ r.node[n].depth = ix.node[n].depth
       /\ r.node[n].edge = ix.node[n].edge /\ r.node[n].block = None
  BY <1>6, <1>7, <1>14
<1>9. /\ Live(r) = Live(ix)
      /\ \A y \in NodeId : r.node[y].parent = ix.node[y].parent /\ r.node[y].depth = ix.node[y].depth
  BY <1>1, <1>16 DEF Live
<1>10. Held(r) = Held(ix) \ {n}
  BY <1>1, <1>9, <1>16 DEF Held, Live
<1>11. Linked(r)
  <2>1. \A y \in Live(ix) : y \in NodeId /\ ix.node[y].parent \in Live(ix) \cup {Root}
    BY DEF Linked, Live
  <2>2. \A y \in Live(ix) \cup {Root} : Depth(r, y) = Depth(ix, y)
    BY <1>9, <2>1 DEF Depth
  <2>3. \A y \in Live(r) : /\ r.node[y].parent \in Live(r) \cup {Root}
                           /\ r.node[y].depth = Depth(r, r.node[y].parent) + 1
    BY <1>9, <2>1, <2>2 DEF Linked
  <2>4. HintOK(r, r.publication)
    <3>1. HintCutTo(r.publication, ix.publication)
      BY <1>6, <1>8, NoCutHint DEF Indexes
    <3>2. \A i \in 1 .. Len(r.publication) : r.publication[i] \in Live(ix)
      BY <1>6 DEF Linked, HintOK
    <3>3. ix.publication \in Seq(NodeId)
      BY DEF Indexes
    <3>. QED
      BY <1>9, <2>1, <3>1, <3>2, <3>3, CutHintOK DEF Linked
  <2>. QED
    BY <1>6, <1>9, <2>3, <2>4 DEF Linked
<1>12. Leafy(r, some \cup {n})
  <2>1. \A y : Children(r, y) = Children(ix, y)
    BY <1>9 DEF Children, Live
  <2>. QED
    BY <1>9, <1>10, <2>1 DEF Leafy
<1>13. Booked(r, more)
  <2>1. ASSUME NEW a \in Page PROVE r.leases[a] = Cardinality(HeldAt(r, a))
    <3>1. HeldAt(r, a) = IF a = p THEN HeldAt(ix, p) \ {n} ELSE HeldAt(ix, a)
      BY <1>1, <1>10, <1>16 DEF HeldAt, Held, Live, p
    <3>2. r.leases[a] = IF a = p THEN ix.leases[p] - 1 ELSE ix.leases[a]
      BY <1>1, <1>6 DEF leases
    <3>. QED
      BY <1>3, <1>4, <3>1, <3>2
  <2>2. r.available = Held(r) \cup more
    BY <1>6, <1>10 DEF Booked
  <2>. QED
    BY <1>2, <1>6, <1>10, <2>1, <2>2 DEF Booked, HeldAt, list
<1>. QED
  BY <1>6, <1>8, <1>9, <1>10, <1>11, <1>12, <1>13, <1>16 DEF r

\* What is in order: the tree, and the books about it.
InOrder(ix, some, more) == IndexOK(ix, some) /\ Booked(ix, more)

LEMMA TrimmedBooked ==
  ASSUME NEW ix, NEW r, Trimmed(r, ix), NEW more, Booked(ix, more)
  PROVE  Booked(r, more)
<1>1. /\ r.available = ix.available /\ r.list = ix.list /\ r.leases = ix.leases
      /\ Held(r) = Held(ix) /\ \A y \in Held(r) : r.node[y] = ix.node[y]
  BY DEF Trimmed, Held
<1>2. \A p \in Page : HeldAt(r, p) = HeldAt(ix, p)
  BY <1>1 DEF HeldAt
<1>. QED
  BY <1>1, <1>2 DEF Booked, HeldAt

\* What a dropped lease leaves: all but useless nodes on the way up from n.
DroppedTo(r, ix, n, protected) ==
    /\ Live(r) \subseteq Live(ix) /\ Held(r) = Held(ix) \ {n}
    /\ \A y \in Live(r) : /\ r.node[y].parent = ix.node[y].parent
                          /\ r.node[y].depth = ix.node[y].depth
                          /\ r.node[y].edge = ix.node[y].edge
    /\ \A y \in Live(ix) : y \in Live(r) \/ (y \notin protected /\ y \in ToSet(Ancestors(ix, n)))
    /\ HintCutTo(r.publication, ix.publication)

LEMMA DropKeeps ==
  ASSUME NEW ix, NEW protected, NEW more, InOrder(ix, protected, more), more \cap Held(ix) = {},
         NEW n \in Held(ix)
  PROVE  /\ InOrder(DropNode(ix, n, protected), protected, more)
         /\ DroppedTo(DropNode(ix, n, protected), ix, n, protected)
<1>. DEFINE e == Dropped(ix, n)
            r == Prune(e, n, protected)
            q == Ancestors(ix, n)
<1>1. /\ ix \in Indexes /\ Linked(ix) /\ Leafy(ix, protected) /\ Booked(ix, more)
      /\ n \in Live(ix) /\ n \in NodeId
  BY DEF InOrder, IndexOK, Held, Live
<1>2. /\ e \in Indexes /\ Linked(e) /\ Leafy(e, protected \cup {n}) /\ Booked(e, more)
      /\ Live(e) = Live(ix) /\ Held(e) = Held(ix) \ {n} /\ e.publication = ix.publication
      /\ \A y \in NodeId \ {n} : e.node[y] = ix.node[y]
      /\ e.node[n].parent = ix.node[n].parent /\ e.node[n].depth = ix.node[n].depth
      /\ e.node[n].edge = ix.node[n].edge
  BY <1>1, DroppedKeeps
<1>3. Chain(ix, n, q)
  BY <1>1, AncestorsAre
<1>. HIDE DEF e, q
<1>4. \A y \in NodeId : /\ e.node[y].parent = ix.node[y].parent /\ e.node[y].depth = ix.node[y].depth
                         /\ e.node[y].edge = ix.node[y].edge
  BY <1>2
<1>5. Ancestors(e, n) = q
  <2>1. Chain(e, n, Ancestors(e, n))
    BY <1>1, <1>2, AncestorsAre
  <2>2. Chain(e, n, q)
    <3>1. \A k \in 1 .. Len(q) : q[k] \in NodeId
      BY <1>3 DEF Chain, Live
    <3>. QED
      BY <1>1, <1>2, <1>3, <1>4, <3>1 DEF Chain
  <2>. QED
    BY <2>1, <2>2, ChainUnique
<1>6. /\ Trimmed(r, e) /\ Leafy(r, protected)
      /\ \A y \in Live(e) : y \in Live(r) \/ (y \notin protected /\ y \in ToSet(Ancestors(e, n)))
  BY <1>1, <1>2, PruneKeeps
<1>. HIDE DEF r
<1>7. Booked(r, more)
  BY <1>2, <1>6, TrimmedBooked
<1>8. InOrder(r, protected, more)
  BY <1>6, <1>7 DEF InOrder, IndexOK, Trimmed
<1>9. /\ Live(r) \subseteq Live(ix) /\ Held(r) = Held(ix) \ {n}
      /\ \A y \in Live(r) : r.node[y] = e.node[y] /\ y \in NodeId
      /\ HintCutTo(r.publication, ix.publication)
  BY <1>2, <1>6 DEF Trimmed, Live
<1>. QED
  BY <1>2, <1>4, <1>5, <1>6, <1>8, <1>9 DEF DropNode, DroppedTo, r, e, q

------------------------------------------------------------------------------
\* The trie: what leaves the nodes alone

LEMMA SameTree ==
  ASSUME NEW ix, NEW r, r.node = ix.node
  PROVE  /\ Live(r) = Live(ix) /\ Held(r) = Held(ix) /\ \A n : Depth(r, n) = Depth(ix, n)
         /\ \A n : Children(r, n) = Children(ix, n)
         /\ \A p : HeldAt(r, p) = HeldAt(ix, p)
         /\ \A hint : HintOK(r, hint) <=> HintOK(ix, hint)
         /\ \A some : Leafy(r, some) <=> Leafy(ix, some)
<1>1. Live(r) = Live(ix)
  BY DEF Live
<1>2. Held(r) = Held(ix)
  BY <1>1 DEF Held
<1>3. \A n : Children(r, n) = Children(ix, n)
  BY <1>1 DEF Children
<1>. QED
  BY <1>1, <1>2, <1>3 DEF Depth, HeldAt, HintOK, Leafy

\* Another hint, other spares.
LEMMA HintKeeps ==
  ASSUME NEW ix, NEW some, NEW more, InOrder(ix, some, more), NEW hint \in Seq(NodeId), HintOK(ix, hint),
         NEW r, r \in Indexes, r.node = ix.node, r.available = ix.available, r.list = ix.list,
         r.leases = ix.leases, r.publication = hint, r.spareNode \subseteq ix.spareNode
  PROVE  InOrder(r, some, more)
<1>1. /\ Live(r) = Live(ix) /\ Held(r) = Held(ix) /\ \A n : Depth(r, n) = Depth(ix, n)
      /\ \A p : HeldAt(r, p) = HeldAt(ix, p)
      /\ HintOK(r, hint) /\ (Leafy(r, some) <=> Leafy(ix, some))
  BY SameTree
<1>2. Linked(r)
  BY <1>1 DEF Linked, InOrder, IndexOK
<1>3. Booked(r, more)
  BY <1>1 DEF Booked, HeldAt, InOrder
<1>. QED
  BY <1>1, <1>2, <1>3 DEF InOrder, IndexOK

\* A node of the list moves to its end.
LEMMA TouchKeeps ==
  ASSUME NEW ix, NEW some, NEW more, InOrder(ix, some, more), NEW n \in Held(ix)
  PROVE  LET r == Touch(ix, n)
         IN  /\ InOrder(r, some, more) /\ r.node = ix.node /\ r.publication = ix.publication
             /\ r.available = ix.available /\ r.spareNode = ix.spareNode
<1>. DEFINE list == Append(Unlink(ix.list, n), n)
            r == Touch(ix, n)
<1>1. /\ ix \in Indexes /\ ix.list \in Seq(NodeId) /\ ToSet(ix.list) = Held(ix) /\ IsInjective(ix.list)
      /\ n \in NodeId
  BY DEF InOrder, IndexOK, Booked, Indexes, Held, Live
<1>2. /\ Unlink(ix.list, n) \in Seq(NodeId) /\ IsInjective(Unlink(ix.list, n))
      /\ ToSet(Unlink(ix.list, n)) = Held(ix) \ {n}
  BY <1>1, UnlinkIs
<1>3. list \in Seq(NodeId) /\ IsInjective(list) /\ ToSet(list) = Held(ix)
  <2>1. n \notin ToSet(Unlink(ix.list, n))
    BY <1>2
  <2>. DEFINE rest == Unlink(ix.list, n)
  <2>3. rest \in Seq(NodeId) /\ IsInjective(rest) /\ n \notin ToSet(rest)
    BY <1>2, <2>1
  <2>. HIDE DEF rest
  <2>2. /\ Append(rest, n) \in Seq(NodeId) /\ ToSet(Append(rest, n)) = ToSet(rest) \cup {n}
        /\ IsInjective(Append(rest, n))
    BY <1>1, <2>3, AppendQueue
  <2>. QED
    BY <1>2, <2>2 DEF rest
<1>4. r = [ix EXCEPT !.list = list]
  BY DEF Touch
<1>. HIDE DEF list, r
<1>5. r \in Indexes
  BY <1>1, <1>3, <1>4 DEF Indexes
<1>6. /\ r.node = ix.node /\ r.available = ix.available /\ r.list = list /\ r.leases = ix.leases
      /\ r.publication = ix.publication /\ r.spareNode = ix.spareNode
  BY <1>1, <1>4 DEF Indexes
<1>7. /\ Live(r) = Live(ix) /\ Held(r) = Held(ix) /\ \A k : Depth(r, k) = Depth(ix, k)
      /\ \A p : HeldAt(r, p) = HeldAt(ix, p)
      /\ (HintOK(r, ix.publication) <=> HintOK(ix, ix.publication)) /\ (Leafy(r, some) <=> Leafy(ix, some))
  BY <1>6, SameTree
<1>8. Linked(r)
  BY <1>6, <1>7 DEF Linked, InOrder, IndexOK
<1>9. Booked(r, more)
  BY <1>3, <1>6, <1>7 DEF Booked, HeldAt, InOrder
<1>. QED
  BY <1>5, <1>6, <1>7, <1>8, <1>9 DEF InOrder, IndexOK, r

\* The lease of a node that has its lookup entry.
Lent(ix, n, page) == [ix EXCEPT !.leases[page] = @ + 1, !.node[n].block = page, !.list = Append(@, n)]

LEMMA LentKeeps ==
  ASSUME NEW ix, NEW n \in Live(ix) \ Held(ix), InOrder(ix, {n}, {n}), NEW page \in Page
  PROVE  LET r == Lent(ix, n, page)
         IN  /\ InOrder(r, {}, {}) /\ Live(r) = Live(ix) /\ r.publication = ix.publication
             /\ r.node[n].parent = ix.node[n].parent /\ r.node[n].depth = ix.node[n].depth
<1>. DEFINE r == Lent(ix, n, page)
            list == Append(ix.list, n)
            leases == [ix.leases EXCEPT ![page] = @ + 1]
            owner == [ix.node[n] EXCEPT !.block = page]
            node == [ix.node EXCEPT ![n] = owner]
<1>1. /\ ix \in Indexes /\ Linked(ix) /\ Leafy(ix, {n}) /\ Booked(ix, {n})
      /\ ix.node \in [NodeId -> Nodes] /\ ix.list \in Seq(NodeId) /\ ix.leases \in [Page -> Nat]
      /\ n \in NodeId /\ n \in Live(ix) /\ n \notin Held(ix)
      /\ ToSet(ix.list) = Held(ix) /\ IsInjective(ix.list) /\ ix.available = Held(ix) \cup {n}
      /\ page # None
  BY TrieAssumption DEF InOrder, IndexOK, Indexes, Live, Booked
<1>2. list \in Seq(NodeId) /\ IsInjective(list) /\ ToSet(list) = Held(ix) \cup {n}
  <2>1. n \notin ToSet(ix.list)
    BY <1>1
  <2>2. /\ Append(ix.list, n) \in Seq(NodeId) /\ ToSet(Append(ix.list, n)) = ToSet(ix.list) \cup {n}
        /\ IsInjective(Append(ix.list, n))
    BY <1>1, <2>1, AppendQueue
  <2>. QED
    BY <1>1, <2>2
<1>3. r = [ix EXCEPT !.leases = leases, !.node = node, !.list = list]
  BY DEF Lent
<1>4. /\ owner \in Nodes /\ owner.block = page
      /\ owner.parent = ix.node[n].parent /\ owner.depth = ix.node[n].depth
  <2>1. ix.node[n] \in Nodes
    BY <1>1
  <2>. QED
    BY <2>1 DEF Nodes
<1>. HIDE DEF owner
<1>5. node \in [NodeId -> Nodes] /\ node[n] = owner /\ \A y \in NodeId \ {n} : node[y] = ix.node[y]
  BY <1>1, <1>4
<1>6. leases \in [Page -> Nat]
  BY <1>1
<1>7. leases[page] = ix.leases[page] + 1 /\ \A p \in Page \ {page} : leases[p] = ix.leases[p]
  BY <1>1
<1>. HIDE DEF r, list, leases, node
<1>8. r \in Indexes
  BY <1>1, <1>2, <1>3, <1>5, <1>6 DEF Indexes
<1>9. /\ r.node = node /\ r.available = ix.available /\ r.list = list /\ r.leases = leases
      /\ r.publication = ix.publication /\ r.spareNode = ix.spareNode
  BY <1>1, <1>3 DEF Indexes
<1>10. /\ \A y \in NodeId \ {n} : r.node[y] = ix.node[y]
       /\ r.node[n].parent = ix.node[n].parent /\ r.node[n].depth = ix.node[n].depth
       /\ r.node[n].block = page
  BY <1>4, <1>5, <1>9
<1>11. /\ Live(r) = Live(ix)
       /\ \A y \in NodeId : r.node[y].parent = ix.node[y].parent /\ r.node[y].depth = ix.node[y].depth
  BY <1>1, <1>10 DEF Live
<1>12. Held(r) = Held(ix) \cup {n}
  BY <1>1, <1>10, <1>11 DEF Held, Live
<1>13. Linked(r)
  <2>1. \A y \in Live(ix) : y \in NodeId /\ ix.node[y].parent \in Live(ix) \cup {Root}
    BY <1>1 DEF Linked, Live
  <2>2. \A y \in Live(ix) \cup {Root} : Depth(r, y) = Depth(ix, y)
    BY <1>11, <2>1 DEF Depth
  <2>3. \A y \in Live(r) : /\ r.node[y].parent \in Live(r) \cup {Root}
                           /\ r.node[y].depth = Depth(r, r.node[y].parent) + 1
    BY <1>1, <1>11, <2>1, <2>2 DEF Linked
  <2>4. HintOK(r, r.publication)
    <3>1. \A i \in 1 .. Len(r.publication) : r.publication[i] \in Live(ix) /\ r.publication[i] \in NodeId
      BY <1>1, <1>9, <2>1 DEF Linked, HintOK
    <3>. QED
      BY <1>1, <1>9, <1>11, <3>1 DEF Linked, HintOK
  <2>. QED
    BY <1>1, <1>9, <1>11, <2>3, <2>4 DEF Linked
<1>14. Leafy(r, {})
  <2>1. \A y : Children(r, y) = Children(ix, y)
    BY <1>11 DEF Children, Live
  <2>. QED
    BY <1>1, <1>11, <1>12, <2>1 DEF Leafy
<1>15. Booked(r, {})
  <2>1. ASSUME NEW a \in Page PROVE r.leases[a] = Cardinality(HeldAt(r, a))
    <3>1. IsFiniteSet(HeldAt(ix, a)) /\ ix.leases[a] = Cardinality(HeldAt(ix, a)) /\ n \notin HeldAt(ix, a)
      BY <1>1, HeldFinite DEF HeldAt
    <3>2. HeldAt(r, a) = IF a = page THEN HeldAt(ix, a) \cup {n} ELSE HeldAt(ix, a)
      BY <1>1, <1>10, <1>12 DEF HeldAt, Held, Live
    <3>3. Cardinality(HeldAt(ix, a) \cup {n}) = Cardinality(HeldAt(ix, a)) + 1
      BY <3>1, FS_AddElement
    <3>. QED
      BY <1>7, <1>9, <3>1, <3>2, <3>3
  <2>2. r.available = Held(r) \cup {}
    BY <1>1, <1>9, <1>12
  <2>. QED
    BY <1>2, <1>9, <1>12, <2>1, <2>2 DEF Booked, HeldAt
<1>. QED
  BY <1>8, <1>9, <1>10, <1>11, <1>13, <1>14, <1>15 DEF InOrder, IndexOK, r

\* A node with its entry and its lease, at the cost of the oldest lease.
LEMMA LeasedKeeps ==
  ASSUME NEW ix, NEW n \in Live(ix) \ Held(ix), InOrder(ix, {n}, {}), NEW page \in Page
  PROVE  LET r == Leased(ix, n, page)
         IN  /\ InOrder(r, {}, {}) /\ n \in Live(r) /\ HintCutTo(r.publication, ix.publication)
             /\ r.node[n].parent = ix.node[n].parent /\ r.node[n].depth = ix.node[n].depth
             /\ Live(r) \subseteq Live(ix)
<1>. DEFINE e == [ix EXCEPT !.available = @ \cup {n}, !.spareAvailable = FALSE]
            room == IF Len(ix.list) = CacheBlocks THEN DropNode(e, Head(ix.list), {n}) ELSE e
<1>1. /\ ix \in Indexes /\ Linked(ix) /\ Leafy(ix, {n}) /\ Booked(ix, {})
      /\ ix.list \in Seq(NodeId) /\ ToSet(ix.list) = Held(ix) /\ n \in NodeId /\ ix.publication \in Seq(NodeId)
      /\ n \in Live(ix) /\ n \notin Held(ix)
  BY DEF InOrder, IndexOK, Indexes, Live, Booked
<1>2. /\ e \in Indexes /\ e.node = ix.node /\ e.available = ix.available \cup {n}
      /\ e.list = ix.list /\ e.leases = ix.leases /\ e.publication = ix.publication /\ e.spareNode = ix.spareNode
  BY <1>1 DEF Indexes
<1>. HIDE DEF e
<1>3. /\ Live(e) = Live(ix) /\ Held(e) = Held(ix) /\ \A k : Depth(e, k) = Depth(ix, k)
      /\ \A p : HeldAt(e, p) = HeldAt(ix, p)
      /\ HintOK(e, ix.publication) <=> HintOK(ix, ix.publication)
      /\ Leafy(e, {n}) <=> Leafy(ix, {n})
  BY <1>2, SameTree
<1>4. InOrder(e, {n}, {n})
  <2>1. Linked(e)
    BY <1>1, <1>2, <1>3 DEF Linked
  <2>2. Booked(e, {n})
    BY <1>1, <1>2, <1>3 DEF Booked, HeldAt
  <2>. QED
    BY <1>1, <1>2, <1>3, <2>1, <2>2 DEF InOrder, IndexOK
<1>5. /\ InOrder(room, {n}, {n}) /\ n \in Live(room) \ Held(room)
      /\ HintCutTo(room.publication, ix.publication) /\ Live(room) \subseteq Live(ix)
      /\ room.node[n].parent = ix.node[n].parent /\ room.node[n].depth = ix.node[n].depth
  <2>1. CASE Len(ix.list) = CacheBlocks
    <3>. DEFINE h == Head(ix.list)
    <3>1. h \in Held(e)
      <4>1. CacheBlocks > 0
        BY TrieAssumption
      <4>2. 1 \in 1 .. Len(ix.list) /\ Head(ix.list) = ix.list[1]
        BY <1>1, <2>1, <4>1
      <4>. QED
        BY <1>1, <1>3, <4>2 DEF ToSet
    <3>2. {n} \cap Held(e) = {}
      BY <1>1, <1>3
    <3>3. room = DropNode(e, h, {n})
      BY <2>1
    <3>. HIDE DEF room, h
    <3>4. /\ InOrder(room, {n}, {n})
          /\ Live(room) \subseteq Live(e) /\ Held(room) = Held(e) \ {h}
          /\ \A y \in Live(room) : /\ room.node[y].parent = e.node[y].parent
                                   /\ room.node[y].depth = e.node[y].depth
          /\ \A y \in Live(e) : y \in Live(room) \/ y \notin {n}
          /\ HintCutTo(room.publication, e.publication)
      <4>1. InOrder(room, {n}, {n}) /\ DroppedTo(room, e, h, {n})
        BY <1>4, <3>1, <3>2, <3>3, DropKeeps, Zenon
      <4>. QED
        BY <4>1 DEF DroppedTo
    <3>. QED
      BY <1>1, <1>2, <1>3, <3>4
  <2>2. CASE Len(ix.list) # CacheBlocks
    <3>1. room = e
      BY <2>2
    <3>. HIDE DEF room
    <3>. QED
      BY <1>1, <1>2, <1>3, <1>4, <3>1, NoCutHint
  <2>. QED
    BY <2>1, <2>2
<1>6. Leased(ix, n, page) = Lent(room, n, page)
  BY DEF Leased, Lent, e
<1>. HIDE DEF room
<1>7. /\ InOrder(Lent(room, n, page), {}, {}) /\ Live(Lent(room, n, page)) = Live(room)
      /\ Lent(room, n, page).publication = room.publication
      /\ Lent(room, n, page).node[n].parent = room.node[n].parent
      /\ Lent(room, n, page).node[n].depth = room.node[n].depth
  BY <1>5, LentKeeps
<1>. QED
  BY <1>5, <1>6, <1>7

------------------------------------------------------------------------------
\* The trie: a round of publish

LEMMA HintPrefix ==
  ASSUME NEW hint \in Seq(NodeId), NEW k \in Nat
  PROVE  LET cut == Prefix(hint, Min({Len(hint), k}))
         IN  HintCutTo(cut, hint) /\ Len(cut) <= k /\ (Len(hint) <= k => cut = hint)
<1>. DEFINE m == Min({Len(hint), k})
<1>0. Len(hint) \in Int /\ k \in Int /\ Len(hint) \in Nat
  OBVIOUS
<1>1. m \in {Len(hint), k} /\ m <= Len(hint) /\ m <= k /\ Len(hint) \in Nat
  BY <1>0, MinOfTwo, Zenon
<1>. HIDE DEF m
<1>2. m \in Nat /\ m <= Len(hint)
  BY <1>1
<1>3. /\ Prefix(hint, m) \in Seq(NodeId) /\ Len(Prefix(hint, m)) = m
      /\ \A i \in 1 .. m : Prefix(hint, m)[i] = hint[i]
  BY <1>2, PrefixIs
<1>4. ASSUME Len(hint) <= k PROVE Prefix(hint, m) = hint
  <2>1. m = Len(hint)
    BY <1>1, <1>4
  <2>. QED
    BY <1>3, <2>1
<1>. QED
  BY <1>1, <1>3, <1>4 DEF HintCutTo, m

LEMMA EdgeIs ==
  ASSUME TrieInv, publishing # <<>>
  PROVE  Edge \in Seq(Nat)
<1>. DEFINE tokens == publishing[1].tokens
            i == publishing[1].i
            a == (i - 1) * BlockTokens + 1
            b == Min({i * BlockTokens, Len(tokens)})
<1>1. tokens \in Seq(Nat) /\ i \in Nat \ {0} /\ BlockTokens \in Nat
  BY TrieAssumption DEF TrieInv, PublishOK
<1>2. (i - 1) * BlockTokens \in Nat /\ i * BlockTokens \in Nat
  <2>1. i - 1 \in Nat
    BY <1>1
  <2>. QED
    BY <1>1, <2>1
<1>3. a \in Nat \ {0}
  BY <1>2
<1>4. b \in Int /\ b <= Len(tokens)
  <2>1. i * BlockTokens \in Int /\ Len(tokens) \in Int
    BY <1>1, <1>2
  <2>2. b \in {i * BlockTokens, Len(tokens)} /\ b <= Len(tokens)
    BY <2>1, MinOfTwo, Zenon
  <2>. QED
    BY <2>1, <2>2
<1>. HIDE DEF a, b
<1>5. SubSeq(tokens, a, b) \in Seq(Nat)
  BY <1>1, <1>3, <1>4, PartOfHistory
<1>. QED
  BY <1>5 DEF Edge, a, b

LEMMA CheckedKeeps ==
  ASSUME TrieInv, publishing # <<>>
  PROVE  /\ InOrder(Checked, {}, {}) /\ Checked.node = index.node /\ Checked.spareNode = index.spareNode
         /\ HintCutTo(Checked.publication, index.publication)
         /\ Hinted = {} => Len(Checked.publication) <= publishing[1].i - 1
         /\ Hinted # {} => Checked = index
<1>. DEFINE hint == Prefix(index.publication, Min({Len(index.publication), publishing[1].i - 1}))
<1>1. /\ InOrder(index, {}, {}) /\ index \in Indexes /\ index.publication \in Seq(NodeId)
      /\ HintOK(index, index.publication) /\ publishing[1].i - 1 \in Nat
  BY DEF TrieInv, InOrder, IndexOK, Indexes, Linked, PublishOK
<1>2. CASE Hinted # {}
  <2>1. Checked = index
    BY <1>2 DEF Checked
  <2>. QED
    BY <1>1, <1>2, <2>1, NoCutHint
<1>3. CASE Hinted = {}
  <2>1. HintCutTo(hint, index.publication) /\ Len(hint) <= publishing[1].i - 1
    BY <1>1, HintPrefix
  <2>2. Checked = [index EXCEPT !.publication = hint]
    BY <1>3 DEF Checked
  <2>. HIDE DEF hint
  <2>3. hint \in Seq(NodeId)
    BY <2>1 DEF HintCutTo
  <2>4. /\ Checked \in Indexes /\ Checked.node = index.node /\ Checked.available = index.available
        /\ Checked.list = index.list /\ Checked.leases = index.leases /\ Checked.publication = hint
        /\ Checked.spareNode = index.spareNode
    BY <1>1, <2>2, <2>3 DEF Indexes
  <2>5. HintOK(index, hint)
    <3>1. Len(hint) \in Nat /\ Len(index.publication) \in Nat
      BY <1>1, <2>3
    <3>2. \A i \in 1 .. Len(hint) : hint[i] \in Live(index)
      BY <1>1, <2>1, <3>1 DEF HintCutTo, HintOK
    <3>. QED
      BY <1>1, <2>1, <3>2, CutHintOK
  <2>6. InOrder(Checked, {}, {})
    BY <1>1, <2>3, <2>4, <2>5, HintKeeps
  <2>. QED
    BY <1>3, <2>1, <2>4, <2>6
<1>. QED
  BY <1>2, <1>3

LEMMA KnownIs ==
  ASSUME TrieInv, publishing # <<>>, NEW n \in Known
  PROVE  /\ n \in Live(index) /\ index.node[n].parent = publishing[1].parent
         /\ index.node[n].depth = publishing[1].i
         /\ Len(Checked.publication) >= publishing[1].i => Checked.publication[publishing[1].i] = n
<1>1. /\ PublishOK(index, publishing[1]) /\ Linked(index) /\ publishing[1].i \in Nat \ {0}
      /\ Depth(index, publishing[1].parent) = publishing[1].i - 1
      /\ index.publication \in Seq(NodeId)
  BY DEF TrieInv, IndexOK, PublishOK, Indexes
<1>2. Same(n) /\ n \in Live(index)
  <2>1. CASE Hinted # {}
    <3>1. n \in Hinted
      BY <2>1 DEF Known
    <3>2. Same(n) /\ \E k \in DOMAIN index.publication : n = index.publication[k]
      BY <3>1 DEF Hinted
    <3>. QED
      BY <1>1, <3>2 DEF Linked, HintOK
  <2>2. CASE Hinted = {}
    BY <2>2 DEF Known
  <2>. QED
    BY <2>1, <2>2
<1>3. index.node[n].depth = publishing[1].i
  BY <1>1, <1>2 DEF Linked, Same
<1>4. ASSUME Len(Checked.publication) >= publishing[1].i
      PROVE  Checked.publication[publishing[1].i] = n
  <2>1. Len(Checked.publication) \in Nat /\ ~ (Len(Checked.publication) <= publishing[1].i - 1)
    BY <1>1, <1>4, CheckedKeeps DEF HintCutTo
  <2>2. Hinted # {} /\ Checked = index
    BY <2>1, CheckedKeeps
  <2>3. n \in Hinted
    BY <2>2 DEF Known
  <2>4. n = index.publication[publishing[1].i]
    BY <2>3 DEF Hinted
  <2>. QED
    BY <2>2, <2>4
<1>. QED
  BY <1>2, <1>3, <1>4 DEF Same

LEMMA InsertedKeeps ==
  ASSUME TrieInv, publishing # <<>>, NEW n \in NewNodes
  PROVE  /\ InOrder(Inserted(n), {n}, {}) /\ n \in Live(Inserted(n)) \ Held(Inserted(n))
         /\ Inserted(n).node[n].parent = publishing[1].parent /\ Inserted(n).node[n].depth = publishing[1].i
         /\ Inserted(n).publication = Checked.publication
<1>. DEFINE ix == Checked
            d == Depth(index, publishing[1].parent) + 1
            new == [parent |-> publishing[1].parent, depth |-> d, edge |-> Edge, block |-> None]
            node == [ix.node EXCEPT ![n] = new]
            r == Inserted(n)
<1>1. /\ PublishOK(index, publishing[1]) /\ Linked(index) /\ publishing[1].i \in Nat \ {0}
      /\ Depth(index, publishing[1].parent) = publishing[1].i - 1
      /\ publishing[1].parent \in Live(index) \cup {Root}
  BY DEF TrieInv, IndexOK, PublishOK
<1>2. InOrder(ix, {}, {}) /\ ix.node = index.node /\ ix.spareNode = index.spareNode
  BY CheckedKeeps
<1>3. /\ ix \in Indexes /\ Linked(ix) /\ Leafy(ix, {}) /\ Booked(ix, {})
      /\ ix.node \in [NodeId -> Nodes] /\ ix.spareNode \subseteq NodeId /\ ix.publication \in Seq(NodeId)
      /\ HintOK(ix, ix.publication)
  BY <1>2 DEF InOrder, IndexOK, Indexes, Linked
<1>4. /\ Live(ix) = Live(index) /\ \A k : Depth(ix, k) = Depth(index, k)
  BY <1>2, SameTree
<1>5. n \in NodeId /\ n \notin Live(ix) /\ Live(ix) \subseteq NodeId /\ n # Root
  <2>1. index.spareNode \cap Live(index) = {}
    BY <1>1 DEF Linked
  <2>. QED
    BY <1>2, <1>3, <1>4, <2>1, TrieAssumption DEF NewNodes, Live
<1>6. d = publishing[1].i /\ d \in Nat /\ d > 0
  BY <1>1
<1>7. new \in Nodes
  BY <1>1, <1>4, <1>5, <1>6, EdgeIs DEF Nodes
<1>8. r = [ix EXCEPT !.node = node, !.spareNode = {}]
  BY DEF Inserted
<1>9. /\ new.parent = publishing[1].parent /\ new.depth = d /\ new.block = None
  OBVIOUS
<1>. HIDE DEF ix, d, new
<1>10. node \in [NodeId -> Nodes] /\ node[n] = new /\ \A y \in NodeId \ {n} : node[y] = ix.node[y]
  BY <1>3, <1>5, <1>7
<1>. HIDE DEF node, r
<1>11. /\ r \in Indexes /\ r.node = node /\ r.available = ix.available /\ r.list = ix.list
       /\ r.leases = ix.leases /\ r.publication = ix.publication /\ r.spareNode = {}
  BY <1>3, <1>8, <1>10 DEF Indexes
<1>12. /\ \A y \in NodeId \ {n} : r.node[y] = ix.node[y]
       /\ r.node[n].parent = publishing[1].parent /\ r.node[n].depth = d /\ r.node[n].block = None
  BY <1>9, <1>10, <1>11
<1>13. Live(r) = Live(ix) \cup {n}
  BY <1>5, <1>6, <1>12 DEF Live
<1>14. Held(r) = Held(ix) /\ n \notin Held(r)
  BY <1>5, <1>12, <1>13 DEF Held
<1>15. \A y \in Live(ix) \cup {Root} : Depth(r, y) = Depth(ix, y)
  BY <1>5, <1>12 DEF Depth
<1>16. Linked(r)
  <2>1. ASSUME NEW y \in Live(r)
        PROVE  r.node[y].parent \in Live(r) \cup {Root} /\ r.node[y].depth = Depth(r, r.node[y].parent) + 1
    <3>1. CASE y = n
      BY <1>1, <1>4, <1>12, <1>13, <1>15, <3>1 DEF d
    <3>2. CASE y # n
      <4>1. y \in Live(ix) /\ r.node[y] = ix.node[y]
        BY <1>5, <1>12, <1>13, <3>2
      <4>2. ix.node[y].parent \in Live(ix) \cup {Root} /\ ix.node[y].depth = Depth(ix, ix.node[y].parent) + 1
        BY <1>3, <4>1 DEF Linked
      <4>. QED
        BY <1>13, <1>15, <4>1, <4>2
    <3>. QED
      BY <3>1, <3>2
  <2>2. HintOK(r, r.publication)
    <3>1. \A i \in 1 .. Len(ix.publication) : ix.publication[i] \in Live(ix) /\ ix.publication[i] \in NodeId \ {n}
      BY <1>3, <1>5 DEF HintOK
    <3>. QED
      BY <1>3, <1>11, <1>12, <1>13, <3>1 DEF HintOK
  <2>. QED
    BY <1>11, <2>1, <2>2 DEF Linked
<1>17. Leafy(r, {n})
  <2>. SUFFICES ASSUME NEW y \in Live(r) \ Held(r), y # n PROVE Children(r, y) # {}
    BY DEF Leafy
  <2>1. PICK c \in Live(ix) : ix.node[c].parent = y
    BY <1>3, <1>13, <1>14 DEF Leafy, Children
  <2>2. c \in Live(r) /\ r.node[c].parent = y
    BY <1>5, <1>12, <1>13, <2>1
  <2>. QED
    BY <2>2 DEF Children
<1>18. Booked(r, {})
  <2>1. \A p \in Page : HeldAt(r, p) = HeldAt(ix, p)
    BY <1>5, <1>12, <1>14 DEF HeldAt, Held
  <2>. QED
    BY <1>3, <1>11, <1>14, <2>1 DEF Booked, HeldAt
<1>. QED
  BY <1>6, <1>11, <1>12, <1>13, <1>14, <1>16, <1>17, <1>18 DEF InOrder, IndexOK, r, ix

\* A round that ends with its node linked and leased goes on from there.
LEMMA EndRoundKeeps ==
  ASSUME TrieInv, publishing # <<>>, NEW n, NEW r, InOrder(r, {}, {}), n \in Live(r),
         r.node[n].parent = publishing[1].parent, r.node[n].depth = publishing[1].i,
         HintCutTo(r.publication, index.publication),
         Len(r.publication) >= publishing[1].i => r.publication[publishing[1].i] = n,
         EndRound(r, n)
  PROVE  TrieInv'
<1>. DEFINE round == publishing[1]
            i == round.i
            hint == IF Len(r.publication) = i - 1 THEN Append(r.publication, n) ELSE r.publication
            last == i = PublishCount(round.tokens)
            end == IF last THEN Prefix(hint, Min({Len(hint), i})) ELSE hint
<1>1. /\ PublishOK(index, round) /\ round.tokens \in Seq(Nat) /\ i \in Nat \ {0}
      /\ round \in [tokens : Seq(Nat), i : Nat \ {0}, parent : NodeId \cup {Root}]
      /\ Depth(index, round.parent) = i - 1 /\ round.parent \in Live(index) \cup {Root}
      /\ clearing = {} /\ index.publication \in Seq(NodeId)
  BY DEF TrieInv, PublishOK, IndexOK, Indexes
<1>2. /\ r \in Indexes /\ r.publication \in Seq(NodeId) /\ HintOK(r, r.publication) /\ n \in NodeId
      /\ Len(r.publication) \in Nat /\ Len(index.publication) \in Nat
      /\ Len(r.publication) <= Len(index.publication)
  BY <1>1 DEF InOrder, IndexOK, Indexes, Linked, Live, HintCutTo
<1>3. /\ index' = [r EXCEPT !.publication = end]
      /\ publishing' = IF last THEN <<>> ELSE <<[round EXCEPT !.i = @ + 1, !.parent = n]>>
      /\ clearing' = {}
  BY <1>1, Zenon DEF EndRound
<1>4. /\ hint \in Seq(NodeId) /\ HintOK(r, hint) /\ (Len(hint) >= i => hint[i] = n)
  <2>1. CASE Len(r.publication) = i - 1
    <3>1. hint = Append(r.publication, n)
      BY <2>1
    <3>. HIDE DEF hint
    <3>2. /\ hint \in Seq(NodeId) /\ Len(hint) = i /\ hint[i] = n
          /\ \A k \in 1 .. i - 1 : hint[k] = r.publication[k]
      BY <1>1, <1>2, <2>1, <3>1
    <3>3. r.node[n].parent = IF i = 1 THEN Root ELSE hint[i - 1]
      <4>1. CASE i = 1
        <5>1. Depth(index, round.parent) = 0
          BY <1>1, <4>1
        <5>2. round.parent = Root
          BY <1>1, <5>1, TrieAssumption DEF Depth, Live
        <5>. QED
          BY <4>1, <5>2
      <4>2. CASE i # 1
        <5>1. i > 1 /\ Len(index.publication) >= i - 1 /\ i - 1 \in 1 .. i - 1
              /\ i - 1 \in 1 .. Len(r.publication)
          BY <1>1, <1>2, <2>1, <4>2
        <5>2. index.publication[i - 1] = round.parent
          BY <1>1, <5>1 DEF PublishOK
        <5>3. r.publication[i - 1] = index.publication[i - 1]
          BY <5>1 DEF HintCutTo
        <5>. QED
          BY <3>2, <4>2, <5>1, <5>2, <5>3
      <4>. QED
        BY <4>1, <4>2
    <3>4. HintOK(r, hint)
      <4>. SUFFICES ASSUME NEW k \in 1 .. Len(hint)
                    PROVE  /\ hint[k] \in Live(r) /\ r.node[hint[k]].depth = k
                           /\ r.node[hint[k]].parent = IF k = 1 THEN Root ELSE hint[k - 1]
        BY DEF HintOK
      <4>1. CASE k = i
        BY <3>2, <3>3, <4>1
      <4>2. CASE k # i
        <5>1. k \in 1 .. i - 1 /\ k \in 1 .. Len(r.publication) /\ (k # 1 => k - 1 \in 1 .. i - 1)
          BY <1>1, <2>1, <3>2, <4>2
        <5>. QED
          BY <1>2, <3>2, <5>1 DEF HintOK
      <4>. QED
        BY <4>1, <4>2
    <3>. QED
      BY <3>2, <3>4
  <2>2. CASE Len(r.publication) # i - 1
    BY <1>2, <2>2
  <2>. QED
    BY <2>1, <2>2
<1>. HIDE DEF hint, round, i
<1>5. end \in Seq(NodeId) /\ HintOK(r, end) /\ (~ last => end = hint)
  <2>1. CASE last
    <3>1. end = Prefix(hint, Min({Len(hint), i}))
      BY <2>1
    <3>. HIDE DEF end
    <3>2. HintCutTo(end, hint)
      BY <1>1, <1>4, <3>1, HintPrefix
    <3>3. end \in Seq(NodeId) /\ Len(end) \in Nat /\ Len(hint) \in Nat
      BY <1>4, <3>2 DEF HintCutTo
    <3>6. Len(end) <= Len(hint) /\ \A k \in 1 .. Len(end) : end[k] = hint[k]
      BY <3>2 DEF HintCutTo
    <3>7. \A k \in 1 .. Len(end) : k \in 1 .. Len(hint) /\ (k # 1 => k - 1 \in 1 .. Len(end))
      BY <3>3, <3>6
    <3>4. \A k \in 1 .. Len(end) : /\ k \in 1 .. Len(hint) /\ end[k] = hint[k]
                                   /\ k # 1 => end[k - 1] = hint[k - 1]
      BY <3>6, <3>7
    <3>5. HintOK(r, end)
      BY <1>4, <3>4 DEF HintOK
    <3>. QED
      BY <2>1, <3>3, <3>5
  <2>2. CASE ~ last
    BY <1>4, <2>2
  <2>. QED
    BY <2>1, <2>2
<1>. HIDE DEF end
<1>6. /\ index' \in Indexes /\ index'.node = r.node /\ index'.available = r.available
      /\ index'.list = r.list /\ index'.leases = r.leases /\ index'.publication = end
      /\ index'.spareNode = r.spareNode
  BY <1>2, <1>3, <1>5 DEF Indexes
<1>7. InOrder(index', {}, {})
  BY <1>5, <1>6, HintKeeps
<1>8. Live(index') = Live(r) /\ \A k : Depth(index', k) = Depth(r, k)
  BY <1>6, SameTree
<1>9. ASSUME publishing' # <<>>
      PROVE  publishing' = <<publishing'[1]>> /\ PublishOK(index', publishing'[1])
  <2>. DEFINE next == [round EXCEPT !.i = @ + 1, !.parent = n]
  <2>1. ~ last /\ publishing' = <<next>>
    BY <1>3, <1>9
  <2>2. i \in Nat /\ i + 1 \in Nat \ {0} /\ (i + 1) - 1 = i
    <3>1. i \in Nat
      BY <1>1
    <3>. QED
      BY <3>1
  <2>3. next.tokens = round.tokens /\ next.i = i + 1 /\ next.parent = n
    BY <1>1 DEF i
  <2>4. next \in [tokens : Seq(Nat), i : Nat \ {0}, parent : NodeId \cup {Root}]
    BY <1>1, <1>2, <2>2 DEF i
  <2>. HIDE DEF next
  <2>5. Depth(index', n) = i /\ n # Root
    BY <1>2, <1>8, TrieAssumption DEF Depth, i, round
  <2>7. end = hint /\ index'.publication = hint
    BY <1>5, <1>6, <2>1
  <2>8. PublishOK(index', next)
    BY <1>1, <1>2, <1>4, <1>8, <2>2, <2>3, <2>4, <2>5, <2>7 DEF PublishOK
  <2>9. publishing'[1] = next
    BY <2>1
  <2>. QED
    BY <2>1, <2>8, <2>9
<1>. QED
  BY <1>3, <1>7, <1>9 DEF TrieInv, InOrder

------------------------------------------------------------------------------
\* The trie: reuse

WalkStart(ix) == [ix |-> ix, at |-> Root, count |-> 0, blocks |-> <<>>]

LEMMA WalkSteps ==
  ASSUME NEW ix, NEW prompt, NEW q, q = Steps(prompt), Len(q) \in Nat
  PROVE  \E f : /\ Walk(ix, prompt) = f[Len(q)] /\ f[0] = WalkStart(ix)
                /\ \A k \in 1 .. Len(q) : f[k] = Followed(prompt, f[k - 1], q[k])
<1>. DEFINE m == Len(q)
            Is(f, k) == f = [j \in 0 .. k |-> IF j = 0 THEN WalkStart(ix) ELSE Followed(prompt, f[j - 1], q[j])]
            X == {k \in 0 .. m : \E f : Is(f, k)}
            it == CHOOSE f : Is(f, m)
<1>1. 0 \in X
  <2>. DEFINE start == [j \in 0 .. 0 |-> WalkStart(ix)]
  <2>1. Is(start, 0)
    BY SMT
  <2>. HIDE DEF start
  <2>2. \E f : Is(f, 0)
    BY <2>1, Zenon
  <2>3. 0 \in 0 .. m
    OBVIOUS
  <2>. QED
    BY <2>2, <2>3, Zenon
<1>2. ASSUME NEW k \in 1 .. m, k - 1 \in X PROVE k \in X
  <2>1. PICK f : Is(f, k - 1)
    BY <1>2
  <2>. DEFINE g == [j \in 0 .. k |-> IF j < k THEN f[j] ELSE Followed(prompt, f[k - 1], q[k])]
  <2>2. /\ k \in 0 .. m /\ k - 1 \in 0 .. k - 1 /\ k \in 0 .. k /\ k # 0 /\ ~ (k < k)
        /\ \A j \in 0 .. k - 1 : j \in 0 .. k /\ j < k
        /\ \A j \in 0 .. k : j = k \/ j \in 0 .. k - 1
        /\ \A j \in 0 .. k - 1 : j = 0 \/ j - 1 \in 0 .. k - 1
    OBVIOUS
  <2>3. \A j \in 0 .. k - 1 : g[j] = f[j]
    BY <2>2, Zenon
  <2>4. g[k] = Followed(prompt, g[k - 1], q[k])
    <3>1. g[k] = Followed(prompt, f[k - 1], q[k])
      BY <2>2, Zenon
    <3>. QED
      BY <2>2, <2>3, <3>1
  <2>5. \A j \in 0 .. k - 1 : f[j] = IF j = 0 THEN WalkStart(ix) ELSE Followed(prompt, f[j - 1], q[j])
    BY <2>1, Zenon
  <2>6. g = [j \in 0 .. k |-> g[j]]
    OBVIOUS
  <2>. HIDE DEF g
  <2>7. ASSUME NEW j \in 0 .. k
        PROVE  g[j] = IF j = 0 THEN WalkStart(ix) ELSE Followed(prompt, g[j - 1], q[j])
    <3>1. CASE j = k
      BY <2>2, <2>4, <3>1
    <3>2. CASE j \in 0 .. k - 1
      BY <2>2, <2>3, <2>5, <3>2, Zenon
    <3>. QED
      BY <2>2, <3>1, <3>2
  <2>8. Is(g, k)
    BY <2>6, <2>7, Zenon
  <2>. QED
    BY <2>2, <2>8
<1>. HIDE DEF X
<1>3. m \in X
  <2>1. \A k \in 0 .. m : k \in X
    BY <1>1, <1>2, Stepwise
  <2>. QED
    BY <2>1
<1>4. Is(it, m)
  <2>1. \E f : Is(f, m)
    BY <1>3 DEF X
  <2>. QED
    BY <2>1, Zenon
<1>5. Walk(ix, prompt) = it[m]
  BY Zenon DEF Walk, Iterated, WalkStart
<1>. HIDE DEF it
<1>6. \A k \in 0 .. m : it[k] = IF k = 0 THEN WalkStart(ix) ELSE Followed(prompt, it[k - 1], q[k])
  BY <1>4, Zenon
<1>7. 0 \in 0 .. m /\ \A k \in 1 .. m : k \in 0 .. m /\ k # 0
  OBVIOUS
<1>8. it[0] = WalkStart(ix) /\ \A k \in 1 .. m : it[k] = Followed(prompt, it[k - 1], q[k])
  BY <1>6, <1>7, Zenon
<1>. QED
  BY <1>5, <1>8, Zenon


LEMMA WalkKeeps ==
  ASSUME NEW ix, InOrder(ix, {}, {}), NEW prompt \in Seq(Nat)
  PROVE  /\ InOrder(Walk(ix, prompt).ix, {}, {}) /\ Walk(ix, prompt).ix.node = ix.node
         /\ Walk(ix, prompt).ix.publication = ix.publication
<1>. DEFINE q == Steps(prompt)
            m == Len(q)
<1>1. m \in Nat
  BY Len(prompt) \in Nat DEF Steps
<1>. HIDE DEF q
<1>2. PICK f : /\ Walk(ix, prompt) = f[m] /\ f[0] = WalkStart(ix)
               /\ \A k \in 1 .. m : f[k] = Followed(prompt, f[k - 1], q[k])
  BY <1>1, WalkSteps DEF q
<1>. DEFINE Good(r) == InOrder(r, {}, {}) /\ r.node = ix.node /\ r.publication = ix.publication
            X == {k \in 0 .. m : Good(f[k].ix)}
<1>3. 0 \in X
  <2>1. f[0].ix = ix
    BY <1>2 DEF WalkStart
  <2>. QED
    BY <1>1, <2>1
<1>4. ASSUME NEW k \in 1 .. m, k - 1 \in X PROVE k \in X
  <2>. DEFINE acc == f[k - 1]
              limit == Len(prompt) - 1
              query == SubSeq(prompt, acc.count + 1, Min({acc.count + BlockTokens, limit}))
              best == Follow(acc.ix, acc.at, query)
              c == CHOOSE x \in best : TRUE
              stops == acc.count < (q[k] - 1) * BlockTokens \/ acc.count >= limit \/ best = {}
  <2>1. Good(acc.ix)
    BY <1>4
  <2>. HIDE DEF X, Good
  <2>2. f[k] = Followed(prompt, acc, q[k])
    BY <1>2
  <2>3. CASE stops
    <3>1. f[k] = acc
      BY <2>2, <2>3 DEF Followed
    <3>. QED
      BY <2>1, <3>1 DEF X
  <2>4. CASE ~ stops
    <3>1. f[k].ix = Touch(acc.ix, c)
      <4>1. f[k] = [ix |-> Touch(acc.ix, c), at |-> c,
                    count |-> acc.count + Matched(acc.ix.node[c].edge, query),
                    blocks |-> Append(acc.blocks, acc.ix.node[c].block)]
        BY <2>2, <2>4, Zenon DEF Followed
      <4>. HIDE DEF acc, c, query
      <4>. QED
        BY <4>1
    <3>2. c \in best
      BY <2>4
    <3>3. best \subseteq acc.ix.available
      BY DEF Follow, BestChild
    <3>. HIDE DEF acc, best, c
    <3>4. InOrder(acc.ix, {}, {}) /\ acc.ix.available = Held(acc.ix) /\ c \in Held(acc.ix)
      BY <2>1, <3>2, <3>3 DEF Good, InOrder, Booked
    <3>5. /\ InOrder(Touch(acc.ix, c), {}, {}) /\ Touch(acc.ix, c).node = acc.ix.node
          /\ Touch(acc.ix, c).publication = acc.ix.publication
      BY <3>4, TouchKeeps
    <3>6. Good(f[k].ix)
      BY <2>1, <3>1, <3>5 DEF Good
    <3>. QED
      BY <3>6 DEF X
  <2>. QED
    BY <2>3, <2>4
<1>. HIDE DEF X
<1>5. m \in X
  <2>1. \A k \in 0 .. m : k \in X
    BY <1>1, <1>3, <1>4, Stepwise
  <2>. QED
    BY <1>1, <2>1
<1>. QED
  BY <1>2, <1>5 DEF X

------------------------------------------------------------------------------
\* The trie: clear

\* The node clear goes to next does not go with the one it leaves.
LEMMA SuccessorStays ==
  ASSUME NEW ix \in Indexes, Linked(ix), NEW n \in Live(ix), NEW y \in Successor(ix, n)
  PROVE  y \in Live(ix) /\ y \notin ToSet(Ancestors(ix, n))
<1>. DEFINE up == Ancestors(ix, n)
            least(S) == {x \in S : \A z \in S \ {x} : LexLess(ix.node[x].edge, ix.node[z].edge)}
            after(x) == {z \in Children(ix, ix.node[x].parent) : LexLess(ix.node[x].edge, ix.node[z].edge)}
            turns == {i \in DOMAIN up : after(up[i]) # {}}
<1>1. Chain(ix, n, up)
  BY AncestorsAre
<1>2. \/ y \in least(Children(ix, n))
      \/ turns # {} /\ y \in least(after(up[Min(turns)]))
  <2>1. \/ Children(ix, n) # {} /\ Successor(ix, n) = least(Children(ix, n))
        \/ turns = {} /\ Successor(ix, n) = {}
        \/ turns # {} /\ Successor(ix, n) = least(after(up[Min(turns)]))
    BY Zenon DEF Successor
  <2>. HIDE DEF least, turns
  <2>. QED
    BY <2>1
<1>. HIDE DEF up
<1>3. /\ Len(up) \in Nat \ {0} /\ DOMAIN up = 1 .. Len(up) /\ ToSet(up) = {up[k] : k \in 1 .. Len(up)}
      /\ Len(up) = ix.node[n].depth
      /\ \A k \in 1 .. Len(up) : up[k] \in Live(ix) /\ ix.node[up[k]].depth = Len(up) - k + 1
  <2>1. up \in Seq(NodeId)
    BY <1>1 DEF Chain
  <2>2. DOMAIN up = 1 .. Len(up)
    BY <2>1
  <2>3. ToSet(up) = {up[k] : k \in 1 .. Len(up)}
    BY <2>2, Zenon DEF ToSet
  <2>. QED
    BY <1>1, <2>2, <2>3 DEF Chain
<1>4. \A x \in Live(ix) : \A z \in Children(ix, ix.node[x].parent) : ix.node[z].depth = ix.node[x].depth
  BY DEF Children, Linked
<1>5. \A x \in Live(ix) : x # Root /\ ix.node[x].edge \in Seq(Nat) /\ ix.node[x].depth \in Nat
  BY TrieAssumption DEF Live, Indexes, Nodes
<1>6. CASE y \in least(Children(ix, n))
  <2>1. y \in Live(ix) /\ ix.node[y].parent = n
    BY <1>6 DEF Children
  <2>2. ix.node[y].depth = ix.node[n].depth + 1
    BY <1>5, <2>1 DEF Linked, Depth
  <2>3. \A k \in 1 .. Len(up) : Len(up) - k + 1 # Len(up) + 1
    BY <1>3
  <2>4. y \notin ToSet(up)
    BY <1>3, <2>2, <2>3
  <2>. QED
    BY <2>1, <2>4 DEF up
<1>7. CASE turns # {} /\ y \in least(after(up[Min(turns)]))
  <2>. DEFINE i == Min(turns)
              x == up[i]
  <2>1. turns \in SUBSET Nat
    BY <1>3
  <2>2. i \in turns
    BY <1>7, <2>1, MinMember
  <2>. HIDE DEF i
  <2>3. i \in 1 .. Len(up) /\ x \in Live(ix) /\ ix.node[x].depth = Len(up) - i + 1
    BY <1>3, <2>2
  <2>4. y \in Children(ix, ix.node[x].parent) /\ LexLess(ix.node[x].edge, ix.node[y].edge)
    BY <1>7 DEF i
  <2>5. y \in Live(ix) /\ ix.node[y].depth = Len(up) - i + 1
    BY <1>4, <2>3, <2>4 DEF Children
  <2>6. y # x
    BY <1>5, <2>3, <2>4, LexIrreflexive
  <2>7. \A k \in 1 .. Len(up) : Len(up) - k + 1 = Len(up) - i + 1 => k = i
    BY <1>3, <2>3
  <2>8. y \notin ToSet(up)
    BY <1>3, <2>5, <2>6, <2>7
  <2>. QED
    BY <2>5, <2>8 DEF up
<1>. QED
  BY <1>2, <1>6, <1>7 DEF up

LEMMA ForgottenKeeps ==
  ASSUME NEW ix, InOrder(ix, {}, {})
  PROVE  InOrder(Forgotten(ix), {}, {}) /\ Forgotten(ix).node = ix.node
<1>1. /\ Forgotten(ix) \in Indexes /\ Forgotten(ix).node = ix.node
      /\ Forgotten(ix).available = ix.available /\ Forgotten(ix).list = ix.list
      /\ Forgotten(ix).leases = ix.leases /\ Forgotten(ix).publication = <<>>
      /\ Forgotten(ix).spareNode = {}
  <2>1. ix \in Indexes
    BY DEF InOrder, IndexOK
  <2>. DEFINE none == <<>>
  <2>2. Forgotten(ix) = [ix EXCEPT !.publication = none, !.spareNode = {}, !.spareAvailable = FALSE]
    BY DEF Forgotten
  <2>3. none \in Seq(NodeId)
    OBVIOUS
  <2>. HIDE DEF none
  <2>4. Forgotten(ix) \in Indexes
    BY <2>1, <2>2, <2>3 DEF Indexes
  <2>5. /\ Forgotten(ix).node = ix.node
        /\ Forgotten(ix).available = ix.available /\ Forgotten(ix).list = ix.list
        /\ Forgotten(ix).leases = ix.leases /\ Forgotten(ix).publication = none
        /\ Forgotten(ix).spareNode = {}
    BY <2>1, <2>2 DEF Indexes
  <2>. QED
    BY <2>4, <2>5 DEF none
<1>2. <<>> \in Seq(NodeId) /\ HintOK(ix, <<>>)
  BY DEF HintOK
<1>. QED
  BY <1>1, <1>2, HintKeeps

------------------------------------------------------------------------------
\* The trie: every step

LEMMA SubmittedAre == Submitted \subseteq Seq(Nat)
<1>. SUFFICES ASSUME NEW t \in Texts, NEW n \in 1 .. Len(t) PROVE Prefix(t, n) \in Seq(Nat)
  BY DEF Submitted
<1>1. t \in Seq(Nat) /\ n \in Nat /\ n <= Len(t)
  BY TrieAssumption
<1>. QED
  BY <1>1, PrefixIs

LEMMA TrieInvStarts == TrieInit => TrieInv
<1>. SUFFICES ASSUME TrieInit PROVE TrieInv
  OBVIOUS
<1>1. /\ index = NewIndex /\ publishing = <<>> /\ clearing = {}
      /\ index.node = [n \in NodeId |-> FreedNode] /\ index.available = {} /\ index.list = <<>>
      /\ index.publication = <<>> /\ index.spareNode = {} /\ index.leases = [p \in Page |-> 0]
  BY DEF TrieInit, NewIndex
<1>2. Live(index) = {} /\ Held(index) = {}
  BY <1>1 DEF Live, Held, FreedNode
<1>3. index \in Indexes
  <2>1. FreedNode \in Nodes
    BY DEF FreedNode, Nodes
  <2>2. index.node \in [NodeId -> Nodes] /\ index.leases \in [Page -> Nat]
    BY <1>1, <2>1
  <2>. QED
    BY <1>1, <2>2 DEF NewIndex, Indexes
<1>4. Linked(index) /\ Leafy(index, {})
  BY <1>1, <1>2 DEF Linked, Leafy, HintOK
<1>5. Booked(index, {})
  <2>1. ToSet(index.list) = {} /\ IsInjective(index.list)
    BY <1>1 DEF ToSet, IsInjective
  <2>2. \A p \in Page : HeldAt(index, p) = {} /\ index.leases[p] = 0
    BY <1>1, <1>2 DEF HeldAt
  <2>3. \A p \in Page : index.leases[p] = Cardinality(HeldAt(index, p))
    BY <2>2, FS_EmptySet
  <2>. QED
    BY <1>1, <1>2, <2>1, <2>3 DEF Booked, HeldAt
<1>. QED
  BY <1>1, <1>2, <1>3, <1>4, <1>5 DEF TrieInv, IndexOK

\* A call that leaves the index in order and is over.
LEMMA CallEnds ==
  ASSUME InOrder(index', {}, {}), publishing' = <<>>, clearing' \subseteq Live(index')
  PROVE  TrieInv'
BY DEF InOrder, TrieInv

LEMMA ReuseKeeps == ASSUME TrieInv, NEW prompt \in Submitted, Reuse(prompt) PROVE TrieInv'
<1>1. InOrder(index, {}, {}) /\ prompt \in Seq(Nat)
  BY SubmittedAre DEF TrieInv, InOrder
<1>2. /\ publishing' = <<>> /\ clearing' = {} /\ index' = Walk(index, prompt).ix
  BY DEF Reuse, Idle
<1>3. InOrder(index', {}, {})
  BY <1>1, <1>2, WalkKeeps
<1>. QED
  BY <1>2, <1>3, CallEnds

LEMMA PublishStartKeeps == ASSUME TrieInv, NEW tokens \in Submitted, PublishStart(tokens) PROVE TrieInv'
<1>1. /\ clearing' = {} /\ index' = index /\ publishing' = <<[tokens |-> tokens, i |-> 1, parent |-> Root]>>
  BY DEF PublishStart, Idle
<1>2. tokens \in Seq(Nat)
  BY SubmittedAre
<1>. DEFINE round == [tokens |-> tokens, i |-> 1, parent |-> Root]
<1>3. round \in [tokens : Seq(Nat), i : Nat \ {0}, parent : NodeId \cup {Root}] /\ round.i = 1 /\ round.parent = Root
  BY <1>2
<1>4. publishing' = <<round>> /\ publishing'[1] = round
  BY <1>1
<1>. HIDE DEF round
<1>5. PublishOK(index, round)
  BY <1>3 DEF PublishOK, Depth
<1>. QED
  BY <1>1, <1>4, <1>5 DEF TrieInv, IndexOK

LEMMA PublishRoundKeeps == ASSUME TrieInv, NEW page \in Page, PublishRound(page) PROVE TrieInv'
<1>1. publishing # <<>>
  BY DEF PublishRound
<1>2. /\ InOrder(Checked, {}, {}) /\ Checked.node = index.node
      /\ HintCutTo(Checked.publication, index.publication)
      /\ Hinted = {} => Len(Checked.publication) <= publishing[1].i - 1
      /\ index.publication \in Seq(NodeId) /\ publishing[1].i \in Nat \ {0}
  BY <1>1, CheckedKeeps DEF TrieInv, IndexOK, Indexes, PublishOK
<1>. DEFINE d == publishing[1].i
<1>3. ASSUME NEW ix, NEW n, n \in Live(ix) \ Held(ix), InOrder(ix, {n}, {}), ix.publication = Checked.publication,
             ix.node[n].parent = publishing[1].parent, ix.node[n].depth = d,
             Len(Checked.publication) >= d => Checked.publication[d] = n,
             EndRound(Leased(ix, n, page), n)
      PROVE  TrieInv'
  <2>. DEFINE r == Leased(ix, n, page)
  <2>1. /\ InOrder(r, {}, {}) /\ n \in Live(r) /\ HintCutTo(r.publication, Checked.publication)
        /\ r.node[n].parent = publishing[1].parent /\ r.node[n].depth = d
    BY <1>3, LeasedKeeps
  <2>2. EndRound(r, n)
    BY <1>3
  <2>. HIDE DEF r
  <2>3. /\ HintCutTo(r.publication, index.publication)
        /\ Len(r.publication) >= d => r.publication[d] = n
    <3>1. /\ Len(r.publication) \in Nat /\ Len(Checked.publication) \in Nat /\ Len(index.publication) \in Nat
          /\ Len(r.publication) <= Len(Checked.publication)
          /\ Len(Checked.publication) <= Len(index.publication)
          /\ r.publication \in Seq(NodeId)
      BY <1>2, <2>1 DEF HintCutTo
    <3>2. \A k \in 1 .. Len(r.publication) : k \in 1 .. Len(Checked.publication)
      BY <3>1
    <3>3. Len(r.publication) >= d => d \in 1 .. Len(r.publication) /\ Len(Checked.publication) >= d
      BY <1>2, <3>1
    <3>4. \A k \in 1 .. Len(r.publication) : /\ r.publication[k] = Checked.publication[k]
                                             /\ r.publication[k] = index.publication[k]
      BY <1>2, <2>1, <3>2 DEF HintCutTo
    <3>. QED
      BY <1>3, <3>1, <3>3, <3>4 DEF HintCutTo
  <2>. QED
    BY <1>1, <2>1, <2>2, <2>3, EndRoundKeeps
<1>4. ASSUME NEW n \in Known,
             EndRound(IF index.node[n].block # None THEN Touch(Checked, n) ELSE Leased(Checked, n, page), n)
      PROVE  TrieInv'
  <2>1. /\ n \in Live(index) /\ index.node[n].parent = publishing[1].parent /\ index.node[n].depth = d
        /\ Len(Checked.publication) >= d => Checked.publication[d] = n
    BY <1>1, <1>4, KnownIs
  <2>2. Live(Checked) = Live(index) /\ Held(Checked) = Held(index)
    BY <1>2, SameTree
  <2>3. CASE index.node[n].block # None
    <3>1. n \in Held(Checked) /\ EndRound(Touch(Checked, n), n)
      BY <1>4, <2>1, <2>2, <2>3 DEF Held
    <3>. DEFINE r == Touch(Checked, n)
    <3>2. InOrder(r, {}, {}) /\ r.node = Checked.node /\ r.publication = Checked.publication
      BY <1>2, <3>1, TouchKeeps
    <3>3. EndRound(r, n)
      BY <3>1
    <3>. HIDE DEF r
    <3>4. Live(r) = Live(Checked)
      BY <3>2, SameTree
    <3>. QED
      BY <1>1, <1>2, <2>1, <2>2, <3>2, <3>3, <3>4, EndRoundKeeps
  <2>4. CASE index.node[n].block = None
    <3>1. n \in Live(Checked) \ Held(Checked) /\ EndRound(Leased(Checked, n, page), n)
      BY <1>4, <2>1, <2>2, <2>4 DEF Held
    <3>2. InOrder(Checked, {n}, {})
      BY <1>2 DEF InOrder, IndexOK, Leafy
    <3>. QED
      BY <1>2, <1>3, <2>1, <3>1, <3>2
  <2>. QED
    BY <2>3, <2>4
<1>5. ASSUME Known = {}, NEW n \in NewNodes, EndRound(Leased(Inserted(n), n, page), n)
      PROVE  TrieInv'
  <2>1. /\ InOrder(Inserted(n), {n}, {}) /\ n \in Live(Inserted(n)) \ Held(Inserted(n))
        /\ Inserted(n).node[n].parent = publishing[1].parent /\ Inserted(n).node[n].depth = d
        /\ Inserted(n).publication = Checked.publication
    BY <1>1, <1>5, InsertedKeeps
  <2>2. Hinted = {}
    BY <1>5 DEF Known
  <2>3. ~ (Len(Checked.publication) >= d)
    <3>1. Len(Checked.publication) \in Nat
      BY <1>2 DEF HintCutTo
    <3>. QED
      BY <1>2, <2>2, <3>1
  <2>. QED
    BY <1>3, <1>5, <2>1, <2>3
<1>. QED
  BY <1>4, <1>5, Zenon DEF PublishRound

LEMMA FailuresKeep == ASSUME TrieInv, NodeFails \/ EntryFails PROVE TrieInv'
<1>1. publishing # <<>> /\ publishing' = <<>> /\ clearing' = {}
  BY DEF NodeFails, EntryFails, TrieInv
<1>2. InOrder(Checked, {}, {}) /\ Checked.node = index.node
  BY <1>1, CheckedKeeps
<1>3. ASSUME NEW ix, NEW n \in Live(ix), InOrder(ix, {n}, {}), index' = Prune(ix, n, {})
      PROVE  InOrder(index', {}, {})
  <2>1. ix \in Indexes /\ Linked(ix) /\ Leafy(ix, {} \cup {n}) /\ Booked(ix, {})
    <3>1. {} \cup {n} = {n}
      OBVIOUS
    <3>. QED
      BY <1>3, <3>1 DEF InOrder, IndexOK
  <2>2. Trimmed(index', ix) /\ Leafy(index', {})
    BY <1>3, <2>1, PruneKeeps
  <2>3. Booked(index', {})
    BY <2>1, <2>2, TrimmedBooked
  <2>. QED
    BY <2>2, <2>3 DEF InOrder, IndexOK, Trimmed
<1>4. CASE index' = Checked
  BY <1>1, <1>2, <1>4, CallEnds
<1>5. ASSUME NEW n \in Known, index' = Prune(Checked, n, {}) PROVE InOrder(index', {}, {})
  <2>1. n \in Live(Checked)
    BY <1>1, <1>2, <1>5, KnownIs, SameTree
  <2>2. InOrder(Checked, {n}, {})
    BY <1>2 DEF InOrder, IndexOK, Leafy
  <2>. QED
    BY <1>3, <1>5, <2>1, <2>2
<1>6. ASSUME NEW n \in NewNodes, index' = Prune(Inserted(n), n, {}) PROVE InOrder(index', {}, {})
  <2>1. InOrder(Inserted(n), {n}, {}) /\ n \in Live(Inserted(n))
    BY <1>1, <1>6, InsertedKeeps
  <2>. QED
    BY <1>3, <1>6, <2>1
<1>7. index' = Checked \/ InOrder(index', {}, {})
  BY <1>5, <1>6, Zenon DEF NodeFails, EntryFails
<1>. QED
  BY <1>1, <1>4, <1>7, CallEnds

LEMMA EvictOneKeeps == ASSUME TrieInv, EvictOne PROVE TrieInv'
<1>. DEFINE h == Head(index.list)
<1>1. /\ InOrder(index, {}, {}) /\ publishing' = <<>> /\ clearing' = {} /\ index.list # <<>>
      /\ index.list \in Seq(NodeId) /\ ToSet(index.list) = Held(index) /\ index' = DropNode(index, h, {})
  BY DEF EvictOne, Idle, TrieInv, InOrder, IndexOK, Indexes, Booked
<1>2. h \in Held(index)
  <2>1. 1 \in 1 .. Len(index.list) /\ h = index.list[1]
    BY <1>1
  <2>. QED
    BY <1>1, <2>1 DEF ToSet
<1>. HIDE DEF h
<1>3. InOrder(DropNode(index, h, {}), {}, {})
  BY <1>1, <1>2, DropKeeps
<1>. QED
  BY <1>1, <1>3, CallEnds

LEMMA ClearStartKeeps == ASSUME TrieInv, ClearStart PROVE TrieInv'
<1>1. /\ InOrder(index, {}, {}) /\ publishing' = <<>> /\ clearing' = FirstChild(index)
      /\ index' = IF clearing' = {} THEN Forgotten(index) ELSE index
  BY DEF ClearStart, Idle, TrieInv, InOrder
<1>2. clearing' \subseteq Live(index)
  BY <1>1 DEF FirstChild, Children
<1>3. InOrder(index', {}, {}) /\ index'.node = index.node
  BY <1>1, ForgottenKeeps
<1>4. Live(index') = Live(index)
  BY <1>3, SameTree
<1>. QED
  BY <1>1, <1>2, <1>3, <1>4, CallEnds

LEMMA ClearRoundKeeps == ASSUME TrieInv, ClearRound PROVE TrieInv'
<1>1. PICK n \in clearing :
         /\ clearing' = Successor(index, n)
         /\ index' = IF Successor(index, n) = {}
                     THEN Forgotten(IF index.node[n].block # None THEN DropNode(index, n, {}) ELSE index)
                     ELSE IF index.node[n].block # None THEN DropNode(index, n, {}) ELSE index
         /\ UNCHANGED publishing
  BY Zenon DEF ClearRound
<1>. DEFINE left == IF index.node[n].block # None THEN DropNode(index, n, {}) ELSE index
<1>2. /\ InOrder(index, {}, {}) /\ index \in Indexes /\ Linked(index) /\ n \in Live(index)
      /\ publishing' = <<>>
  BY <1>1 DEF TrieInv, InOrder, IndexOK
<1>3. InOrder(left, {}, {}) /\ clearing' \subseteq Live(left)
  <2>1. \A y \in clearing' : y \in Live(index) /\ y \notin ToSet(Ancestors(index, n))
    BY <1>1, <1>2, SuccessorStays
  <2>2. CASE index.node[n].block # None
    <3>1. left = DropNode(index, n, {}) /\ n \in Held(index)
      BY <1>2, <2>2 DEF Held
    <3>. HIDE DEF left
    <3>2. InOrder(left, {}, {}) /\ DroppedTo(left, index, n, {})
      BY <1>2, <3>1, DropKeeps
    <3>. QED
      BY <2>1, <3>2 DEF DroppedTo
  <2>3. CASE index.node[n].block = None
    BY <1>2, <2>1, <2>3
  <2>. QED
    BY <2>2, <2>3
<1>4. index' = IF clearing' = {} THEN Forgotten(left) ELSE left
  BY <1>1, Zenon
<1>. HIDE DEF left
<1>5. InOrder(index', {}, {}) /\ index'.node = left.node
  BY <1>3, <1>4, ForgottenKeeps
<1>6. Live(index') = Live(left)
  BY <1>5, SameTree
<1>. QED
  BY <1>2, <1>3, <1>5, <1>6, CallEnds

LEMMA TrieInvStep == TrieInv /\ [TrieNext]_trieVars => TrieInv'
<1>. SUFFICES ASSUME TrieInv, [TrieNext]_trieVars PROVE TrieInv'
  OBVIOUS
<1>1. CASE \E prompt \in Submitted : Reuse(prompt)
  BY <1>1, ReuseKeeps
<1>2. CASE \E prompt \in Submitted : PublishStart(prompt)
  BY <1>2, PublishStartKeeps
<1>3. CASE \E page \in Page : PublishRound(page)
  BY <1>3, PublishRoundKeeps
<1>4. CASE NodeFails \/ EntryFails
  BY <1>4, FailuresKeep
<1>5. CASE EvictOne
  BY <1>5, EvictOneKeeps
<1>6. CASE ClearStart
  BY <1>6, ClearStartKeeps
<1>7. CASE ClearRound
  BY <1>7, ClearRoundKeeps
<1>8. CASE UNCHANGED trieVars
  <2>1. UNCHANGED <<index, publishing, clearing>>
    BY <1>8 DEF trieVars
  <2>. QED
    BY <2>1 DEF TrieInv, IndexOK
<1>. QED
  BY <1>1, <1>2, <1>3, <1>4, <1>5, <1>6, <1>7, <1>8, Zenon DEF TrieNext

LEMMA TrieInvPointers == TrieInv => PointersStayLive
<1>. SUFFICES ASSUME TrieInv PROVE PointersStayLive
  OBVIOUS
<1>1. /\ index \in Indexes /\ Linked(index) /\ Leafy(index, {}) /\ Booked(index, {})
      /\ clearing \subseteq Live(index)
  BY DEF TrieInv, IndexOK
<1>2. Len(index.list) = Cardinality(Held(index))
  BY <1>1, HeldFinite
<1>3. \A i \in DOMAIN publishing : publishing[i].parent \in Live(index) \cup {Root}
  <2>1. CASE publishing = <<>>
    BY <2>1
  <2>2. CASE publishing # <<>>
    <3>1. publishing = <<publishing[1]>> /\ publishing[1].parent \in Live(index) \cup {Root}
      BY <2>2 DEF TrieInv, PublishOK
    <3>2. \A i \in DOMAIN publishing : i = 1
      BY <3>1
    <3>. QED
      BY <3>1, <3>2
  <2>. QED
    BY <2>1, <2>2
<1>. QED
  BY <1>1, <1>2, <1>3 DEF PointersStayLive, Linked, HintOK, Leafy, Booked

\* Whatever is published, reused, evicted or cleared, and wherever an
\* allocation fails, no pointer outlives its node: prune_from, cut_hint and
\* the walk of clear in prefix_cache.cpp.
THEOREM PointersAlwaysLive == TrieSpec => []PointersStayLive
<1>1. TrieInit => TrieInv
  BY TrieInvStarts
<1>2. TrieInv /\ [TrieNext]_trieVars => TrieInv'
  BY TrieInvStep
<1>3. TrieInv => PointersStayLive
  BY TrieInvPointers
<1>. QED
  BY <1>1, <1>2, <1>3, PTL DEF TrieSpec
================================================================================
