----------------------------- MODULE ServingWorker -----------------------------
(***************************************************************************)
(* The worker process of the serving example in paged mode                 *)
(* (examples/serving_scheduler/tinyinfer_worker.cpp): the request states   *)
(* it keeps over a PagedKVCache and what a STEP or MIXED command does to   *)
(* them, as operators on a worker record.                                  *)
(*                                                                         *)
(* An item of a batch is a BatchItem: id, generated, start, input, prompt, *)
(* budget, capacity, whether it is a replay, and then what the request     *)
(* originally was.  The limits MAX_CONTEXT and V on integers are left out. *)
(***************************************************************************)
EXTENDS PagedKVCache

CONSTANTS
    Vocabulary,     \* V: tokens are 1 .. Vocabulary
    Above(_, _, _)  \* after attending to a sequence of KV vectors, the logit of one
                    \* token is above that of another

ASSUME VocabularyAssumption == Vocabulary \in Nat \ {0}

NoToken == 0        \* -1 in the protocol

\* greedy: the first token whose logit none is above.
Greedy(context) ==
    LET best[t \in 0 .. Vocabulary] ==
            IF t = 0 THEN 1
            ELSE IF Above(context, t, best[t - 1]) THEN t ELSE best[t - 1]
    IN  best[Vocabulary]

NewWorker(sharing) == [sharing |-> sharing, cache |-> NewCache, states |-> <<>>]

\* clear, also what every error does.
ClearedWorker(w) == [w EXCEPT !.cache = Cleared(@), !.states = <<>>]

\* release
ReleasedWorker(w, id) ==
    [w EXCEPT !.cache = Released(@, id), !.states = Without(@, {id})]

StateOf(w, item) ==
    IF item.id \in DOMAIN w.states THEN w.states[item.id]
    ELSE [history |-> <<>>, generated |-> 0, prompt |-> item.prompt,
          budget |-> item.budget, capacity |-> item.capacity, last |-> NoToken]

\* The metadata of a replay is checked when the command is read.
ReplayValid(item) ==
    item.replay =>
        /\ item.original.generated < item.original.budget
        /\ item.original.prompt + item.original.budget <= item.capacity
        /\ item.generated = 0 /\ item.budget = 1
        /\ IF item.original.generated > 0
           THEN /\ item.prompt = item.original.prompt + item.original.generated - 1
                /\ item.original.last # NoToken
           ELSE item.prompt <= item.original.prompt /\ item.original.last = NoToken

\* What prepare demands of an item.
Accepted(w, item) ==
    LET s == StateOf(w, item)
        count == Len(item.input)
        used == Len(s.history)
    IN  /\ item.start <= item.prompt /\ item.prompt + item.budget <= item.capacity
        /\ item.id \notin DOMAIN w.states => item.generated = 0 /\ item.start = 0
        /\ s.generated = item.generated /\ s.prompt = item.prompt /\ s.budget = item.budget
        /\ item.generated < item.budget
        /\ s.capacity = item.capacity /\ item.capacity % BlockSize = 0
        /\ IF item.generated = 0
           THEN item.start = used /\ count >= 1 /\ item.start + count <= item.prompt
           ELSE count = 1 /\ item.input[1] = s.last /\ used = item.prompt + item.generated - 1
        /\ used + count <= item.capacity

\* A request that starts takes over the longest snapshot of its first tokens, and
\* keeps one of them for its logits.
TakesOver(w, item) ==
    w.sharing /\ StateOf(w, item).history = <<>> /\ item.generated = 0 /\ item.start = 0

Entered(w, item) ==
    LET c == IF TakesOver(w, item)
             THEN Reused(w.cache, item.id, item.input, Len(item.input) - 1) ELSE w.cache
        h == IF TakesOver(w, item)
             THEN SubSeq(item.input, 1, Length(c, item.id)) ELSE StateOf(w, item).history
    IN  [w EXCEPT !.cache = c,
                  !.states = With(@, item.id, [StateOf(w, item) EXCEPT !.history = h])]

\* The history of an item that has entered, once its input is appended.
Extended(w, item) ==
    LET h == w.states[item.id].history
        skip == IF item.generated = 0 THEN Len(h) - item.start ELSE 0
    IN  h \o SubSeq(item.input, skip + 1, Len(item.input))

Target(w, item) == [id |-> item.id, length |-> Len(Extended(w, item))]

\* The rows of an item: positions that its history does not hold yet.
Rows(w, item) == Len(w.states[item.id].history) + 1 .. Len(Extended(w, item))

WrittenRows(w, item) ==
    [w EXCEPT !.cache = Written(@, item.id, Rows(w, item), KVOf(Extended(w, item)))]

\* The decoder's pick after the last row of an item.
Pick(w, item) ==
    Greedy(ReadKV(w.cache, w.cache.tables[item.id], Len(Extended(w, item))))

\* An item whose prefill is not through picks nothing.
Picks(w, item) == item.generated > 0 \/ Len(Extended(w, item)) >= item.prompt

\* A replay delivers nothing.
Emitted(w, item) == IF Picks(w, item) /\ ~item.replay THEN Pick(w, item) ELSE NoToken

\* "recomputed token mismatch"
Mismatch(w, item) ==
    /\ item.replay /\ item.original.generated > 0
    /\ Len(Extended(w, item)) = item.prompt
    /\ Pick(w, item) # item.original.last

\* The state after the step; a replay that is through is what it was before.
Advanced(w, item) ==
    LET s == [w.states[item.id] EXCEPT !.history = Extended(w, item)]
    IN  IF item.replay /\ Len(s.history) = item.prompt
        THEN [s EXCEPT !.prompt = item.original.prompt, !.budget = item.original.budget,
                       !.generated = item.original.generated, !.last = item.original.last]
        ELSE IF Picks(w, item) THEN [s EXCEPT !.last = Pick(w, item), !.generated = @ + 1]
        ELSE s

Finished(w, item) ==
    LET s == Advanced(w, item)
    IN  [w EXCEPT !.states[item.id] = s,
                  !.cache = IF w.sharing THEN Published(@, item.id, s.history) ELSE @]

\* step, in the order of the code.  A phase makes of [worker, ok] another one; after
\* a refusal nothing more is done.

\* Items are checked and take over prefixes.
EnterItem(phase, item) ==
    IF /\ phase.ok /\ ReplayValid(item) /\ Accepted(phase.worker, item)
       /\ TakesOver(phase.worker, item) => item.id \notin DOMAIN phase.worker.cache.tables
    THEN [phase EXCEPT !.worker = Entered(@, item)]
    ELSE [phase EXCEPT !.ok = FALSE]

EnterBatch(w, batch) ==
    Iterated(EnterItem,
             [worker |-> w, ok |-> IsInjective([i \in DOMAIN batch |-> batch[i].id])], batch)

\* prepare_append
Targets(w, batch) == [i \in DOMAIN batch |-> Target(w, batch[i])]

PrepareBatch(phase, targets) ==
    LET plan == Planned(phase.worker.cache, targets)
    IN  IF phase.ok /\ ~Shrinks(phase.worker.cache, targets) /\ plan.fits
        THEN [phase EXCEPT !.worker.cache = Committed(plan)]
        ELSE [phase EXCEPT !.ok = FALSE]

\* The rows are written.
WriteItem(phase, item) ==
    IF phase.ok /\ \A n \in Rows(phase.worker, item) : Writable(phase.worker.cache, item.id, n)
    THEN [phase EXCEPT !.worker = WrittenRows(@, item)]
    ELSE [phase EXCEPT !.ok = FALSE]

\* Tokens are picked, states advance and prefixes are published.
FinishItem(phase, item) ==
    IF phase.ok /\ ~Mismatch(phase.worker, item)
    THEN [phase EXCEPT !.worker = Finished(@, item),
                       !.tokens = Append(@, Emitted(phase.worker, item))]
    ELSE [phase EXCEPT !.ok = FALSE]

FinishBatch(phase, batch) ==
    Iterated(FinishItem, [worker |-> phase.worker, ok |-> phase.ok, tokens |-> <<>>], batch)

Cleaned(phase) == IF phase.ok THEN phase ELSE [phase EXCEPT !.worker = ClearedWorker(@)]

Stepped(w, batch) ==
    LET entered == EnterBatch(w, batch)
        targets == IF entered.ok THEN Targets(entered.worker, batch) ELSE <<>>
    IN  Cleaned(FinishBatch(Iterated(WriteItem, PrepareBatch(entered, targets), batch), batch))
==============================================================================
