---------------------------- MODULE ServingBackend ----------------------------
(***************************************************************************)
(* What the serving example's schedulers share: what they keep of their    *)
(* requests, work items (backend.py), and the backend that turns these     *)
(* into commands for the worker (tinyinfer_backend.py) and its answers     *)
(* into tokens.                                                            *)
(*                                                                         *)
(* A request is a record: id, prompt, wanted (its output_tokens) and       *)
(* delivered, the tokens it got so far.  The backend's own list of outputs *)
(* is the scheduler's: the same tokens are appended to both.  A work item  *)
(* is a record: id, kind ("decode", "prefill" or "replay"), start, count   *)
(* and target, the length a replay restores.                               *)
(***************************************************************************)
EXTENDS ServingWorker

CONSTANTS
    Ids,            \* the requests are 1 .. Ids, in the order they arrive
    Prompts,        \* the prompts a request may have
    Outputs,        \* the numbers of output tokens a request may ask for
    MaxBatchSize,   \* max_batch_size
    TokenBudgets,   \* the values token_budget may have
    ChunkSize       \* prefill_chunk_size

Id == 1 .. Ids

ASSUME SchedulerAssumption ==
    /\ Ids \in Nat \ {0} /\ MaxBatchSize \in Nat \ {0} /\ ChunkSize \in Nat \ {0}
    /\ Prompts \subseteq Seq(Nat \ {0}) \ {<<>>}
    /\ Outputs \subseteq Nat \ {0} /\ TokenBudgets \subseteq Nat \ {0}

VARIABLES
    prompt,         \* request -> its prompt
    wanted,         \* request -> output_tokens
    budget,         \* token_budget
    incoming,       \* requests not arrived yet
    waiting,        \* arrived, and not active
    active,         \* admitted, oldest first
    prefilled,      \* request -> prefilled_tokens
    delivered,      \* request -> its tokens
    outcome,        \* request -> how it ended, "" before
    worker,         \* the worker process
    at              \* where the schedule stands

queueVars == <<incoming, waiting, active>>

\* Before anything has arrived.
ScheduleBegins ==
    /\ prompt \in [Id -> Prompts] /\ wanted \in [Id -> Outputs]
    /\ budget \in TokenBudgets
    /\ incoming = [i \in Id |-> i] /\ waiting = <<>> /\ active = <<>>
    /\ prefilled = [r \in Id |-> 0] /\ delivered = [r \in Id |-> <<>>]
    /\ outcome = [r \in Id |-> ""]
    /\ worker \in {NewWorker(sharing) : sharing \in BOOLEAN}
    /\ at = "arrivals"

Ended == at \in {"done", "error"}

Request(r) == [id |-> r, prompt |-> prompt[r], wanted |-> wanted[r], delivered |-> delivered[r]]

------------------------------------------------------------------------------
\* Work items and commands

\* The worst case of a request.
NeededBlocks(req) == BlocksFor(Len(req.prompt) + req.wanted)

\* What a replay recomputes: the last token delivered was never cached.
CachedTokens(req) ==
    IF req.delivered = <<>> THEN req.prompt ELSE req.prompt \o Front(req.delivered)

LastToken(req) == IF req.delivered = <<>> THEN NoToken ELSE Last(req.delivered)

\* step: the item the worker gets.
BatchItem(req, item) ==
    LET replayed == item.kind = "replay"
        section(tokens) == SubSeq(tokens, item.start + 1, item.start + item.count)
    IN  [id |-> req.id, start |-> item.start, replay |-> replayed,
         input |-> CASE item.kind = "replay" -> section(CachedTokens(req))
                     [] item.kind = "prefill" -> section(req.prompt)
                     [] item.kind = "decode" -> <<LastToken(req)>>,
         generated |-> IF item.kind = "decode" THEN Len(req.delivered) ELSE 0,
         prompt |-> IF replayed THEN item.target ELSE Len(req.prompt),
         budget |-> IF replayed THEN 1 ELSE req.wanted,
         capacity |-> NeededBlocks(req) * BlockSize,
         original |-> [prompt |-> Len(req.prompt), budget |-> req.wanted,
                       generated |-> Len(req.delivered), last |-> LastToken(req)]]

\* can_step: how long a table is planned to be.
PlannedLength(req, item) ==
    IF item.kind = "decode" THEN Len(req.prompt) + Len(req.delivered)
    ELSE item.start + item.count

\* emits_token
Emits(req, item) ==
    \/ item.kind = "decode"
    \/ item.kind = "prefill" /\ item.start + item.count = Len(req.prompt)

\* What is left of a token budget, given the work planned so far.
Spent(n, item) == n + item.count
Remaining(work) == budget - Iterated(Spent, 0, work)

Smallest(S) == CHOOSE n \in S : \A m \in S : n <= m

------------------------------------------------------------------------------
\* The answers to a step: every request is served by at most one item.

Served(work) == {item.id : item \in ToSet(work)}
IndexOf(work, id) == CHOOSE i \in DOMAIN work : work[i].id = id

\* Input tokens of one kind that a request was served.
Count(work, id, kind) ==
    IF id \in Served(work) /\ work[IndexOf(work, id)].kind = kind
    THEN work[IndexOf(work, id)].count ELSE 0

\* The tokens of all requests after the step.
Received(had, work, tokens) ==
    [id \in DOMAIN had |-> IF id \in Served(work) /\ tokens[IndexOf(work, id)] # NoToken
                           THEN Append(had[id], tokens[IndexOf(work, id)]) ELSE had[id]]

\* What the worker is asked to release must be there.
Releasable(w, id) == id \in DOMAIN w.states /\ id \in DOMAIN w.cache.tables

------------------------------------------------------------------------------
\* What both schedules promise

\* TinyDecoder::reference: the tokens of a request run alone, without a cache.
Reference(req) ==
    LET tokens[n \in 0 .. req.wanted] ==
            IF n = 0 THEN <<>>
            ELSE Append(tokens[n - 1], Greedy(KVOf(req.prompt \o tokens[n - 1])))
    IN  tokens[req.wanted]

\* Attention reads, through every block table and every snapshot, the vectors of the
\* tokens it stands for.
ReadsItsTokens(w) ==
    LET c == w.cache
    IN  /\ \A id \in DOMAIN c.tables :
              LET h == w.states[id].history
              IN  c.lengths[id] = Len(h) /\ ReadKV(c, c.tables[id], Len(h)) = KVOf(h)
        /\ \A key \in DOMAIN c.prefixes :
              ReadKV(c, c.prefixes[key], Len(key)) = KVOf(key)

\* Attention reads, through every block table and every snapshot, the vectors of
\* the tokens it stands for, whatever was shared, copied, evicted or freed
\* (paged_kv_cache.h).
PrefixesIntact == ReadsItsTokens(worker)

\* Batched, chunked, shared, preempted and recomputed, a request is delivered
\* exactly what it gets alone: no token twice, none left out (test_advanced_serving.py,
\* test_growth_preempts_and_replays_without_duplicate_delivery).
DeliveredAsAlone ==
    \A r \in Id : /\ IsPrefix(delivered[r], Reference(Request(r)))
                  /\ outcome[r] = "completed" <=> delivered[r] = Reference(Request(r))
==============================================================================
