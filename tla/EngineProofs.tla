----------------------------- MODULE EngineProofs ----------------------------
(***************************************************************************)
(* Proofs about the generation engine: its invariants, and that it         *)
(* implements GenerationService, for every set of requests, pool and       *)
(* scheduler.                                                              *)
(***************************************************************************)
EXTENDS Engine, BasicLemmas

\* The requests and their queues.
QueuesOK ==
    /\ seen \subseteq Id /\ failed \in BOOLEAN
    /\ waiting \in Seq(Id) /\ active \in Seq(Id) /\ order \in Seq(Id)
    /\ IsInjective(waiting) /\ IsInjective(active) /\ IsInjective(order)
    /\ \A id \in ToSet(waiting) : id \notin ToSet(active)
    /\ DOMAIN state = Queued /\ Queued \subseteq seen
    /\ \A id \in Queued :
          state[id] \in [prefilled : 0 .. Prompt[id], output : 0 .. MaxNew[id],
                        resident : BOOLEAN, finished : BOOLEAN]
    /\ ToSet(order) \subseteq ToSet(active)
    /\ \A id \in DOMAIN live : live[id] \in Nat

\* The request served is ready to be sampled, or has just got its last token.
Sampling(id) ==
    /\ state[id].resident /\ ~state[id].finished
    /\ state[id].prefilled = Prompt[id]
    /\ finish = "" => state[id].output < MaxNew[id]
    /\ finish # "" => state[id].output > 0
    /\ finish = "Length" => state[id].output = MaxNew[id]

\* What a step may still admit and compute.
BatchOK ==
    /\ slots \in Nat /\ budget \in 0 .. TokenBudget
    /\ slots + Len(active) <= MaxBatchSize
    /\ at # "admit" => slots = 0

\* Where a step stands.
StepOK ==
    /\ at \in {"outside", "admit", "work", "sample"} /\ finish \in {"", "Eos", "Length"}
    /\ at # "sample" => finish = ""
    /\ at \in {"outside", "admit"} =>
          order = <<>> /\ \A id \in Queued : ~state[id].finished
    /\ at = "sample" => order # <<>> /\ Sampling(Head(order))
    /\ \A id \in ToSet(order) : ~state[id].finished
    /\ failed => at = "outside" /\ waiting = <<>> /\ active = <<>>

\* The last token of the request that is served has not been queued yet.
LastToken(id) == at = "sample" /\ finish # "" /\ Head(order) = id

\* A waiting request has not begun; an open one computes its prompt first, and
\* only a resident one has begun.
ProgressOK ==
    /\ \A id \in ToSet(waiting) :
          state[id] = [prefilled |-> 0, output |-> 0, resident |-> FALSE, finished |-> FALSE]
    /\ \A id \in ToSet(active) :
          IF state[id].finished THEN ~state[id].resident
          ELSE /\ ~state[id].resident => state[id].prefilled = 0 /\ state[id].output = 0
               /\ state[id].output > 0 => state[id].prefilled = Prompt[id]
               /\ ~LastToken(id) => state[id].output < MaxNew[id]

\* The tokens in the KV of a resident request.
KVLength(id) ==
    IF state[id].output = 0 THEN state[id].prefilled
    ELSE Prompt[id] + state[id].output
         - (IF at = "sample" /\ finish = "" /\ order # <<>> /\ Head(order) = id THEN 0 ELSE 1)

KVOK ==
    /\ \A id \in Queued : state[id].resident => id \in DOMAIN live /\ live[id] = KVLength(id)
    /\ ~failed => DOMAIN live = {id \in Queued : state[id].resident}

\* Every reservation is for the whole request.
ReservedOK ==
    /\ DOMAIN reserved = Unfinished(ToSet(active))
    /\ \A id \in DOMAIN reserved : reserved[id] = PagesFor(RequestTokens(id))
    /\ held \in Nat /\ held + ReservedPages <= TotalPages

\* The stream of an open request has its tokens so far, every other one is over.
StreamsOK ==
    /\ events \in [Id -> Seq(Service!Event)] /\ delivered \in [Id -> Seq(Service!Event)]
    /\ \A id \in Id \ seen : events[id] = <<>> /\ delivered[id] = <<>>
    /\ \A id \in seen :
          IF id \in Unfinished(Queued)
          THEN /\ ~Service!Over(Streams[id])
               /\ Len(Streams[id]) = IF LastToken(id) THEN state[id].output - 1 ELSE state[id].output
          ELSE Service!Over(Streams[id])

\* The inductive invariant.
EngineInv == QueuesOK /\ BatchOK /\ StepOK /\ ProgressOK /\ KVOK /\ ReservedOK /\ StreamsOK
------------------------------------------------------------------------------
\* Types

LEMMA Constants ==
  /\ MaxBatchSize \in Nat \ {0} /\ TokenBudget \in Nat \ {0} /\ PrefillChunk \in Nat \ {0}
  /\ \A id \in Id : Prompt[id] \in Nat \ {0} /\ MaxNew[id] \in Nat \ {0}
  /\ \A id \in Id : RequestTokens(id) \in Nat
  /\ TotalPages \in Nat \ {0} /\ BlockTokens \in Nat \ {0} /\ Held \subseteq 0 .. TotalPages
BY EngineAssumption DEF RequestTokens

LEMMA QueueTypes ==
  ASSUME QueuesOK
  PROVE  /\ ToSet(waiting) \subseteq Id /\ ToSet(active) \subseteq Id /\ ToSet(order) \subseteq Id
         /\ Len(active) \in Nat /\ Len(waiting) \in Nat
         /\ \A id \in Queued :
               /\ id \in Id
               /\ state[id].prefilled \in 0 .. Prompt[id] /\ state[id].output \in 0 .. MaxNew[id]
               /\ state[id].resident \in BOOLEAN /\ state[id].finished \in BOOLEAN
<1>1. waiting \in Seq(Id) /\ active \in Seq(Id) /\ order \in Seq(Id)
  BY DEF QueuesOK
<1>2. ToSet(waiting) \subseteq Id /\ ToSet(active) \subseteq Id /\ ToSet(order) \subseteq Id
  BY <1>1 DEF ToSet
<1>3. Queued \subseteq Id
  BY <1>2 DEF Queued
<1>. QED
  BY <1>1, <1>2, <1>3 DEF QueuesOK

\* The pages of more tokens are more.
LEMMA PagesForGrows ==
  ASSUME NEW m \in Nat, NEW n \in Nat, m <= n
  PROVE  PagesFor(m) \in Nat /\ PagesFor(n) \in Nat /\ PagesFor(m) <= PagesFor(n)
<1>1. BlockTokens \in Nat \ {0}
  BY Constants
<1>2. ASSUME NEW a \in Nat
      PROVE  /\ a \div BlockTokens \in Nat
             /\ BlockTokens * (a \div BlockTokens) <= a
             /\ a < BlockTokens * (a \div BlockTokens + 1)
  BY <1>1
<1>. DEFINE a == m + BlockTokens - 1
            b == n + BlockTokens - 1
            p == a \div BlockTokens
            q == b \div BlockTokens
<1>3. a \in Nat /\ b \in Nat /\ a <= b
  BY <1>1
<1>. HIDE DEF a, b
<1>4. /\ p \in Nat /\ q \in Nat
      /\ BlockTokens * p <= a /\ a < BlockTokens * (p + 1)
      /\ BlockTokens * q <= b /\ b < BlockTokens * (q + 1)
  BY <1>2, <1>3
<1>. HIDE DEF p, q
<1>5. p <= q
  <2>. SUFFICES ASSUME q + 1 <= p PROVE FALSE
    BY <1>4
  <2>1. BlockTokens * (q + 1) <= BlockTokens * p
    BY <1>1, <1>4
  <2>. QED
    BY <1>1, <1>3, <1>4, <2>1
<1>. QED
  BY <1>4, <1>5 DEF p, q, a, b, PagesFor

LEMMA FiniteQueue ==
  ASSUME NEW T, NEW q \in Seq(T)
  PROVE  IsFiniteSet(ToSet(q))
<1>1. Len(q) \in Nat /\ DOMAIN q = 1 .. Len(q)
  OBVIOUS
<1>2. IsFiniteSet(DOMAIN q)
  BY <1>1, FS_Interval
<1>3. q \in Surjection(DOMAIN q, ToSet(q))
  BY DEF Surjection, ToSet
<1>. QED
  BY <1>2, <1>3, FS_Surjection

\* What the reservations sum up.
LEMMA ReservedTypes ==
  ASSUME QueuesOK, ReservedOK
  PROVE  /\ IsFiniteSet(DOMAIN reserved) /\ ReservedPages \in Nat
         /\ \A id \in DOMAIN reserved : reserved[id] \in Nat
         /\ DOMAIN reserved \subseteq ToSet(active)
<1>1. DOMAIN reserved \subseteq ToSet(active)
  BY DEF ReservedOK, Unfinished
<1>2. IsFiniteSet(DOMAIN reserved)
  BY <1>1, FiniteQueue, FS_Subset DEF QueuesOK
<1>3. \A id \in DOMAIN reserved : reserved[id] \in Nat
  BY <1>1, QueueTypes, Constants, PagesForGrows DEF ReservedOK
<1>4. SumFunctionOnSet(reserved, DOMAIN reserved) \in Nat
  BY <1>2, <1>3, SumFacts
<1>. QED
  BY <1>1, <1>2, <1>3, <1>4 DEF ReservedPages, SumFunction

\* Fewer reservations take fewer pages.
LEMMA FewerReserved ==
  ASSUME QueuesOK, ReservedOK, NEW ids, reserved' = Without(reserved, ids)
  PROVE  ReservedPages' \in Nat /\ ReservedPages' <= ReservedPages
<1>1. /\ SumFunction(reserved) = SumFunction(Without(reserved, ids))
                                 + SumFunctionOnSet(reserved, DOMAIN reserved \cap ids)
      /\ SumFunction(Without(reserved, ids)) \in Nat
      /\ SumFunctionOnSet(reserved, DOMAIN reserved \cap ids) \in Nat
  BY ReservedTypes, SumWithout
<1>. QED
  BY <1>1 DEF ReservedPages

------------------------------------------------------------------------------
\* Streams

LEMMA AppendToConcat ==
  ASSUME NEW S, NEW d \in Seq(S), NEW e \in Seq(S), NEW x \in S
  PROVE  d \o Append(e, x) = Append(d \o e, x)
<1>1. Append(e, x) = e \o <<x>> /\ Append(d \o e, x) = (d \o e) \o <<x>> /\ <<x>> \in Seq(S)
  OBVIOUS
<1>. QED
  BY <1>1, ConcatAssociative

\* The tokens in the stream of an open request.
Emitted(id) == IF LastToken(id) THEN state[id].output - 1 ELSE state[id].output

LEMMA StreamTypes ==
  ASSUME QueuesOK, StreamsOK
  PROVE  /\ DOMAIN Streams = seen /\ seen \subseteq Id
         /\ \A id \in seen : Streams[id] = delivered[id] \o events[id] /\ Streams[id] \in Seq(Service!Event)
         /\ \A id \in Id : delivered[id] \in Seq(Service!Event) /\ events[id] \in Seq(Service!Event)
BY DEF QueuesOK, StreamsOK, Streams

\* An event that ends a stream.
Ending(event) == event \in Service!Event /\ event.reason # ""

\* A stream that grows by an event is over when the event is terminal.
LEMMA OverAppend ==
  ASSUME NEW s \in Seq(Service!Event), NEW event \in Service!Event
  PROVE  /\ Append(s, event) \in Seq(Service!Event) /\ Len(Append(s, event)) = Len(s) + 1
         /\ Service!Over(Append(s, event)) <=> event.reason # ""
<1>1. /\ Append(s, event) \in Seq(Service!Event) /\ Len(Append(s, event)) = Len(s) + 1
      /\ Append(s, event)[Len(s) + 1] = event /\ Append(s, event) # <<>>
  OBVIOUS
<1>. QED
  BY <1>1 DEF Service!Over

LEMMA NotifiedStreams ==
  ASSUME QueuesOK, StreamsOK, NEW ids, NEW event \in Service!Event,
         events' = Notified(ids, event), delivered' = delivered, seen' = seen
  PROVE  /\ events' \in [Id -> Seq(Service!Event)]
         /\ Streams' = [id \in seen |-> IF id \in ids THEN Append(Streams[id], event) ELSE Streams[id]]
         /\ \A id \in Id \ ids : events'[id] = events[id]
<1>1. \A id \in Id : /\ events[id] \in Seq(Service!Event) /\ delivered[id] \in Seq(Service!Event)
                     /\ Append(events[id], event) \in Seq(Service!Event)
  BY StreamTypes
<1>2. \A id \in Id : events'[id] = IF id \in ids THEN Append(events[id], event) ELSE events[id]
  BY DEF Notified
<1>3. events' \in [Id -> Seq(Service!Event)]
  BY <1>1 DEF Notified
<1>4. ASSUME NEW id \in seen
      PROVE  delivered'[id] \o events'[id] = IF id \in ids THEN Append(Streams[id], event) ELSE Streams[id]
  <2>1. id \in Id /\ Streams[id] = delivered[id] \o events[id]
    BY StreamTypes
  <2>2. delivered[id] \o Append(events[id], event) = Append(delivered[id] \o events[id], event)
    <3>1. delivered[id] \in Seq(Service!Event) /\ events[id] \in Seq(Service!Event)
      BY <1>1, <2>1
    <3>. QED
      <4>. HIDE DEF Service!Event
      <4>1. PICK d, e : d = delivered[id] /\ e = events[id]
        OBVIOUS
      <4>2. d \in Seq(Service!Event) /\ e \in Seq(Service!Event) /\ event \in Service!Event
        BY <3>1, <4>1
      <4>3. d \o Append(e, event) = Append(d \o e, event)
        BY <4>2, AppendToConcat
      <4>. QED
        BY <4>1, <4>3
  <2>. QED
    BY <1>2, <2>1, <2>2
<1>5. Streams' = [id \in seen |-> delivered'[id] \o events'[id]]
  BY DEF Streams
<1>. QED
  BY <1>2, <1>3, <1>4, <1>5

\* Requests end with a terminal event; the others keep their tokens.
LEMMA TerminalStreams ==
  ASSUME QueuesOK, StreamsOK, NEW ids \in SUBSET Unfinished(Queued), NEW event, Ending(event),
         events' = Notified(ids, event), delivered' = delivered, seen' = seen,
         Unfinished(Queued)' = Unfinished(Queued) \ ids,
         \A id \in Unfinished(Queued) \ ids : Emitted(id)' = Emitted(id)
  PROVE  StreamsOK'
<1>1. /\ events' \in [Id -> Seq(Service!Event)]
      /\ Streams' = [id \in seen |-> IF id \in ids THEN Append(Streams[id], event) ELSE Streams[id]]
      /\ \A id \in Id \ ids : events'[id] = events[id]
  BY NotifiedStreams DEF Ending
<1>2. ids \subseteq seen
  BY DEF QueuesOK, Unfinished
<1>3. ASSUME NEW id \in Id \ seen' PROVE events'[id] = <<>> /\ delivered'[id] = <<>>
  BY <1>1, <1>2 DEF StreamsOK
<1>4. ASSUME NEW id \in seen'
      PROVE  IF id \in Unfinished(Queued)'
             THEN ~Service!Over(Streams'[id]) /\ Len(Streams'[id]) = Emitted(id)'
             ELSE Service!Over(Streams'[id])
  <2>1. CASE id \in ids
    <3>1. Streams'[id] = Append(Streams[id], event) /\ Streams[id] \in Seq(Service!Event)
      BY <1>1, <1>4, <2>1, StreamTypes
    <3>. QED
      BY <2>1, <3>1, OverAppend DEF Ending
  <2>2. CASE id \notin ids
    <3>1. Streams'[id] = Streams[id]
      BY <1>1, <1>4, <2>2
    <3>. QED
      BY <1>4, <2>2, <3>1 DEF StreamsOK, Emitted
  <2>. QED
    BY <2>1, <2>2
<1>. QED
  BY <1>1, <1>3, <1>4 DEF StreamsOK, Emitted

\* A step that queues no event.
LEMMA QuietStreams ==
  ASSUME QueuesOK, StreamsOK, UNCHANGED <<seen, eventVars>>,
         Unfinished(Queued)' = Unfinished(Queued),
         \A id \in Unfinished(Queued) : Emitted(id)' = Emitted(id)
  PROVE  StreamsOK' /\ Streams' = Streams
<1>1. Streams' = Streams
  BY DEF Streams, eventVars
<1>. QED
  BY <1>1 DEF StreamsOK, Emitted, eventVars
------------------------------------------------------------------------------
\* Requests leave

\* r is what is left of queue q without ids.
Shrunk(q, r, ids) ==
    r \in Seq(Id) /\ IsInjective(r) /\ Len(r) <= Len(q) /\ ToSet(r) = ToSet(q) \ ids

LEMMA RemovedShrinks ==
  ASSUME NEW q \in Seq(Id), IsInjective(q), NEW ids
  PROVE  Shrunk(q, Removed(q, ids), ids)
<1>1. ToSet(q) \cap (ToSet(q) \ ids) = ToSet(q) \ ids
  OBVIOUS
<1>. QED
  BY <1>1, SelectedFacts DEF Shrunk, Removed

LEMMA EmptyQueue ==
  /\ \A T : <<>> \in Seq(T)
  /\ Len(<<>>) = 0 /\ ToSet(<<>>) = {} /\ IsInjective(<<>>) /\ DOMAIN <<>> = {}
  /\ SumFunction(<<>>) = 0
<1>1. DOMAIN <<>> = {} /\ Len(<<>>) = 0 /\ \A T : <<>> \in Seq(T)
  OBVIOUS
<1>2. SumFunctionOnSet(<<>>, {}) = 0
  <2>1. IsFiniteSet({}) /\ \A d \in {} : <<>>[d] \in Nat
    BY FS_EmptySet
  <2>. QED
    BY <2>1, SumFacts
<1>. QED
  BY <1>1, <1>2 DEF ToSet, IsInjective, SumFunction

LEMMA LessFits ==
  ASSUME NEW h \in Nat, NEW m \in Nat, NEW n \in Nat, NEW total \in Nat,
         n <= m, h + m <= total
  PROVE  h + n <= total
OBVIOUS

LEMMA NoMember ==
  ASSUME NEW T, NEW q \in Seq(T), ToSet(q) = {}
  PROVE  q = <<>>
<1>1. \A i \in DOMAIN q : q[i] \in ToSet(q)
  BY DEF ToSet
<1>2. DOMAIN q = {}
  BY <1>1
<1>. QED
  BY <1>2

\* Requests are dropped between two iterations, or while one admits: cancelled,
\* shut down or rejected.
LEMMA RequestsGone ==
  ASSUME EngineInv, at \in {"outside", "admit"},
         NEW ids \in SUBSET Queued, NEW event, Ending(event),
         Shrunk(waiting, waiting', ids), Shrunk(active, active', ids),
         state' = Without(state, ids), events' = Notified(ids, event),
         \/ live' = Without(live, ids) /\ reserved' = Without(reserved, ids) /\ held' = held
         \/ ids = Queued /\ live' = <<>> /\ reserved' = <<>> /\ held' = 0,
         UNCHANGED <<seen, delivered>>, UNCHANGED failed, UNCHANGED stepVars
  PROVE  EngineInv'
<1>0. QueuesOK /\ BatchOK /\ StepOK /\ ProgressOK /\ KVOK /\ ReservedOK /\ StreamsOK
  BY DEF EngineInv
<1>1. /\ at' = at /\ slots' = slots /\ order' = order /\ budget' = budget /\ finish' = finish
      /\ seen' = seen /\ delivered' = delivered /\ failed' = failed
      /\ order = <<>> /\ finish = "" /\ \A id \in Queued : ~state[id].finished
  BY <1>0 DEF StepOK, stepVars
<1>2. /\ Queued' = Queued \ ids /\ DOMAIN state' = Queued'
      /\ ToSet(waiting') = ToSet(waiting) \ ids /\ ToSet(active') = ToSet(active) \ ids
      /\ \A id \in Queued' : state'[id] = state[id]
  BY <1>0 DEF QueuesOK, Queued, Without, Shrunk
<1>3. /\ DOMAIN live' \subseteq DOMAIN live /\ DOMAIN live \ DOMAIN live' \subseteq ids \cup (DOMAIN live \ Queued)
      /\ DOMAIN live' \cap ids = {}
      /\ \A id \in DOMAIN live' : live'[id] = live[id]
  BY EmptyQueue DEF Without
<1>4. QueuesOK'
  <2>1. ToSet(order') = {} /\ order' \in Seq(Id) /\ IsInjective(order')
    BY <1>1, EmptyQueue
  <2>. QED
    BY <1>0, <1>1, <1>2, <1>3, <2>1 DEF QueuesOK, Shrunk
<1>5. BatchOK'
  <2>1. Len(active') \in Nat /\ Len(active) \in Nat /\ Len(active') <= Len(active)
    <3>1. active \in Seq(Id) /\ active' \in Seq(Id) /\ Len(active') <= Len(active)
      BY <1>0 DEF QueuesOK, Shrunk
    <3>. QED
      BY <3>1, LenProperties
  <2>2. slots + Len(active') <= MaxBatchSize
    <3>1. slots \in Nat /\ slots + Len(active) <= MaxBatchSize /\ MaxBatchSize \in Nat
      BY <1>0, Constants DEF BatchOK
    <3>. QED
      BY <2>1, <3>1
  <2>. QED
    BY <1>0, <1>1, <2>2, Zenon DEF BatchOK
<1>6. StepOK'
  <2>1. failed => waiting' = <<>> /\ active' = <<>>
    <3>1. /\ waiting' \in Seq(Id) /\ active' \in Seq(Id)
          /\ failed => ToSet(waiting') = {} /\ ToSet(active') = {}
      BY <1>0, <1>2, EmptyQueue DEF StepOK, Shrunk
    <3>. QED
      BY <3>1, NoMember
  <2>2. ToSet(order') = {}
    BY <1>1, EmptyQueue
  <2>3. \A id \in Queued' : ~state'[id].finished
    BY <1>1, <1>2
  <2>4. at' \in {"outside", "admit"} /\ finish' = "" /\ order' = <<>>
    BY <1>1
  <2>5. failed' => at' = "outside" /\ waiting' = <<>> /\ active' = <<>>
    <3>1. failed => at = "outside"
      BY <1>0 DEF StepOK
    <3>2. failed' = failed /\ at' = at
      BY <1>1
    <3>. QED
      BY <2>1, <3>1, <3>2
  <2>. QED
    BY <2>2, <2>3, <2>4, <2>5 DEF StepOK
<1>7. ProgressOK'
  <2>1. \A id \in Queued : ~LastToken(id) /\ ~LastToken(id)'
    BY <1>0, <1>1 DEF LastToken, StepOK
  <2>. QED
    BY <1>0, <1>2, <2>1 DEF ProgressOK, Queued
<1>8. KVOK'
  <2>1. ASSUME NEW id \in Queued' PROVE KVLength(id)' = KVLength(id)
    BY <1>1, <1>2, <2>1 DEF KVLength
  <2>2. ASSUME NEW id \in Queued', state'[id].resident
        PROVE  id \in DOMAIN live' /\ live'[id] = KVLength(id)'
    <3>1. id \in Queued /\ id \notin ids /\ state[id].resident
      BY <1>2, <2>2
    <3>2. id \in DOMAIN live /\ live[id] = KVLength(id)
      BY <1>0, <3>1 DEF KVOK
    <3>3. id \in DOMAIN live'
      BY <1>3, <3>1, <3>2
    <3>. QED
      BY <1>3, <2>1, <2>2, <3>2, <3>3
  <2>3. ASSUME ~failed' PROVE DOMAIN live' = {id \in Queued' : state'[id].resident}
    <3>1. failed' = failed
      BY <1>1
    <3>2. ~failed
      BY <2>3, <3>1
    <3>3. DOMAIN live = {id \in Queued : state[id].resident}
      BY <1>0, <3>2, Zenon DEF KVOK
    <3>4. DOMAIN live' \subseteq {id \in Queued' : state'[id].resident}
      BY <1>2, <1>3, <3>3
    <3>. QED
      BY <2>2, <3>4
  <2>. QED
    BY <2>2, <2>3 DEF KVOK
<1>9. ReservedOK'
  <2>1. Unfinished(ToSet(active))' = Unfinished(ToSet(active)) \ ids
    BY <1>2 DEF Unfinished, Queued
  <2>2. CASE reserved' = Without(reserved, ids) /\ held' = held
    <3>1. ReservedPages' \in Nat /\ ReservedPages' <= ReservedPages /\ ReservedPages \in Nat
      BY <1>0, <2>2, FewerReserved, ReservedTypes
    <3>2. held' + ReservedPages' <= TotalPages /\ held' \in Nat
      <4>1. held \in Nat /\ held + ReservedPages <= TotalPages /\ TotalPages \in Nat
        BY <1>0, Constants DEF ReservedOK
      <4>2. held + ReservedPages' <= TotalPages
        BY <3>1, <4>1, LessFits, Zenon
      <4>. QED
        BY <2>2, <4>1, <4>2, Zenon
    <3>3. DOMAIN reserved' = DOMAIN reserved \ ids
          /\ \A id \in DOMAIN reserved' : reserved'[id] = reserved[id]
      BY <2>2 DEF Without
    <3>. QED
      BY <1>0, <2>1, <3>2, <3>3 DEF ReservedOK
  <2>3. CASE ids = Queued /\ reserved' = <<>> /\ held' = 0
    <3>1. ReservedPages' = 0 /\ DOMAIN reserved' = {}
      BY <2>3, EmptyQueue DEF ReservedPages
    <3>2. Unfinished(ToSet(active))' = {}
      BY <2>1, <2>3 DEF Unfinished, Queued
    <3>3. held' \in Nat /\ held' + ReservedPages' <= TotalPages
      BY <2>3, <3>1, Constants
    <3>. QED
      BY <3>1, <3>2, <3>3 DEF ReservedOK
  <2>. QED
    BY <2>2, <2>3
<1>10. StreamsOK'
  <2>1. Unfinished(Queued)' = Unfinished(Queued) \ ids /\ ids \in SUBSET Unfinished(Queued)
    BY <1>1, <1>2 DEF Unfinished
  <2>2. \A id \in Unfinished(Queued) \ ids : Emitted(id)' = Emitted(id)
    BY <1>1, <1>2 DEF Emitted, LastToken, Unfinished
  <2>. QED
    BY <1>0, <1>1, <2>1, <2>2, TerminalStreams
<1>. QED
  BY <1>4, <1>5, <1>7, <1>8, <1>9, <1>10, <1>6 DEF EngineInv

\* What every action may use of the invariant.
LEMMA Parts ==
  EngineInv <=> QueuesOK /\ BatchOK /\ StepOK /\ ProgressOK /\ KVOK /\ ReservedOK /\ StreamsOK
BY DEF EngineInv

LEMMA StartsRight == Init => EngineInv
<1>. SUFFICES ASSUME Init PROVE EngineInv
  OBVIOUS
<1>0. /\ seen = {} /\ waiting = <<>> /\ active = <<>> /\ order = <<>> /\ state = <<>>
      /\ live = <<>> /\ reserved = <<>> /\ held = 0 /\ failed = FALSE /\ slots = 0 /\ budget = 0
      /\ at = "outside" /\ finish = "" /\ events = [id \in Id |-> <<>>] /\ delivered = events
  BY DEF Init
<1>1. Queued = {} /\ DOMAIN state = {} /\ DOMAIN live = {} /\ DOMAIN reserved = {}
  BY <1>0, EmptyQueue DEF Queued
<1>2. QueuesOK
  BY <1>0, <1>1, EmptyQueue DEF QueuesOK
<1>3. BatchOK
  <2>1. 0 \in Nat /\ 0 \in 0 .. TokenBudget /\ 0 + 0 <= MaxBatchSize
    BY Constants
  <2>2. slots = 0 /\ budget = 0 /\ Len(active) = 0
    BY <1>0, EmptyQueue
  <2>. QED
    BY <2>1, <2>2, Zenon DEF BatchOK
<1>4. StepOK
  BY <1>0, <1>1, EmptyQueue DEF StepOK
<1>5. ProgressOK
  BY <1>0, EmptyQueue DEF ProgressOK
<1>6. KVOK
  BY <1>1 DEF KVOK
<1>7. ReservedOK
  <2>1. ReservedPages = 0
    BY <1>0, EmptyQueue DEF ReservedPages
  <2>2. DOMAIN reserved = Unfinished(ToSet(active))
    BY <1>0, <1>1, EmptyQueue DEF Unfinished
  <2>3. 0 \in Nat /\ 0 + 0 <= TotalPages
    BY Constants
  <2>4. held = 0
    BY <1>0
  <2>5. \A id \in DOMAIN reserved : reserved[id] = PagesFor(RequestTokens(id))
    BY <1>1
  <2>. QED
    BY <2>1, <2>2, <2>3, <2>4, <2>5, Zenon DEF ReservedOK
<1>8. StreamsOK
  BY <1>0, EmptyQueue DEF StreamsOK
<1>. QED
  BY <1>2, <1>3, <1>4, <1>5, <1>6, <1>7, <1>8, Parts

LEMMA SubmitKeeps ==
  ASSUME EngineInv, NEW id \in Id, Submit(id)
  PROVE  EngineInv'
<1>0. QueuesOK /\ BatchOK /\ StepOK /\ ProgressOK /\ KVOK /\ ReservedOK /\ StreamsOK
  BY Parts
<1>1. /\ at' = at /\ slots' = slots /\ order' = order /\ budget' = budget /\ finish' = finish
      /\ active' = active /\ events' = events /\ delivered' = delivered /\ failed' = failed
      /\ live' = live /\ reserved' = reserved /\ held' = held
  BY DEF Submit, eventVars, stepVars, runnerVars
<1>2. at = "outside" /\ order = <<>> /\ finish = "" /\ ~failed /\ id \notin seen /\ seen' = seen \cup {id}
  BY <1>0 DEF Submit, StepOK
<1>. DEFINE new == [prefilled |-> 0, output |-> 0, resident |-> FALSE, finished |-> FALSE]
<1>3. id \notin Queued /\ id \notin ToSet(waiting) /\ id \notin ToSet(active)
  BY <1>0, <1>2 DEF QueuesOK, Queued
<1>4. waiting' \in Seq(Id) /\ IsInjective(waiting') /\ ToSet(waiting') = ToSet(waiting) \cup {id}
  BY <1>0, <1>3, AppendQueue DEF QueuesOK, Submit
<1>5. /\ Queued' = Queued \cup {id} /\ DOMAIN state' = Queued'
      /\ state'[id] = new /\ \A i \in Queued : state'[i] = state[i]
  BY <1>0, <1>1, <1>3, <1>4 DEF QueuesOK, Queued, Submit, With
<1>6. state'[id].output = 0 /\ ~state'[id].finished
  BY <1>5
<1>7. QueuesOK'
  <2>1. new \in [prefilled : 0 .. Prompt[id], output : 0 .. MaxNew[id], resident : BOOLEAN, finished : BOOLEAN]
    BY Constants
  <2>2. \A i \in Queued' : state'[i] \in [prefilled : 0 .. Prompt[i], output : 0 .. MaxNew[i],
                                        resident : BOOLEAN, finished : BOOLEAN]
    BY <1>0, <1>5, <2>1 DEF QueuesOK
  <2>. HIDE DEF new
  <2>. QED
    BY <1>0, <1>1, <1>2, <1>3, <1>4, <1>5, <2>2 DEF QueuesOK
<1>8. BatchOK'
  BY <1>0, <1>1, Zenon DEF BatchOK
<1>9. StepOK'
  <2>1. ToSet(order') = {}
    BY <1>1, <1>2, EmptyQueue
  <2>2. \A i \in Queued : ~state[i].finished
    BY <1>0, <1>2 DEF StepOK
  <2>3. \A i \in Queued' : ~state'[i].finished
    BY <1>5, <1>6, <2>2
  <2>. QED
    BY <1>1, <1>2, <2>1, <2>3 DEF StepOK
<1>10. ProgressOK'
  <2>1. \A i \in Id : ~LastToken(i) /\ ~LastToken(i)'
    BY <1>1, <1>2 DEF LastToken
  <2>2. ToSet(active) \subseteq Id /\ ToSet(waiting) \subseteq Queued /\ ToSet(active) \subseteq Queued
    BY <1>0, QueueTypes DEF Queued
  <2>. QED
    BY <1>0, <1>1, <1>4, <1>5, <2>1, <2>2 DEF ProgressOK
<1>11. KVOK'
  <2>1. \A i \in Queued : KVLength(i)' = KVLength(i)
    BY <1>1, <1>2, <1>5 DEF KVLength
  <2>2. {i \in Queued' : state'[i].resident} = {i \in Queued : state[i].resident}
    BY <1>3, <1>5
  <2>. QED
    BY <1>0, <1>1, <1>5, <2>1, <2>2 DEF KVOK
<1>12. ReservedOK'
  <2>1. Unfinished(ToSet(active))' = Unfinished(ToSet(active))
    BY <1>1, <1>5 DEF Unfinished, Queued
  <2>2. ReservedPages' = ReservedPages
    BY <1>1 DEF ReservedPages
  <2>. QED
    BY <1>0, <1>1, <2>1, <2>2, Zenon DEF ReservedOK
<1>13. StreamsOK'
  <2>1. Streams' = [i \in seen \cup {id} |-> delivered[i] \o events[i]] /\ Streams = [i \in seen |-> delivered[i] \o events[i]]
    BY <1>1, <1>2 DEF Streams
  <2>2. Streams'[id] = <<>> /\ \A i \in seen : Streams'[i] = Streams[i]
    <3>1. delivered[id] = <<>> /\ events[id] = <<>>
      BY <1>0, <1>2 DEF StreamsOK
    <3>2. Streams'[id] = delivered[id] \o events[id]
      BY <2>1
    <3>3. Streams'[id] = <<>>
      BY <3>1, <3>2
    <3>. QED
      BY <2>1, <3>3
  <2>3. Unfinished(Queued)' = Unfinished(Queued) \cup {id}
    BY <1>5 DEF Unfinished
  <2>4. \A i \in Queued' : ~LastToken(i) /\ ~LastToken(i)'
    BY <1>1, <1>2 DEF LastToken
  <2>5. ASSUME NEW i \in seen'
        PROVE  IF i \in Unfinished(Queued)'
               THEN ~Service!Over(Streams'[i]) /\ Len(Streams'[i]) = state'[i].output
               ELSE Service!Over(Streams'[i])
    <3>1. CASE i = id
      <4>1. Streams'[i] = <<>> /\ i \in Unfinished(Queued)' /\ state'[i].output = 0
        BY <1>6, <2>2, <2>3, <3>1
      <4>2. ~Service!Over(<<>>)
        BY DEF Service!Over
      <4>. QED
        BY <4>1, <4>2, EmptyQueue
    <3>2. CASE i # id
      <4>1. i \in seen /\ Streams'[i] = Streams[i] /\ (i \in Unfinished(Queued)' <=> i \in Unfinished(Queued))
        BY <1>2, <2>2, <2>3, <3>2
      <4>2. i \in Unfinished(Queued) => ~LastToken(i) /\ state'[i] = state[i]
        BY <1>5, <2>4 DEF Unfinished
      <4>. QED
        BY <1>0, <4>1, <4>2 DEF StreamsOK
    <3>. QED
      BY <3>1, <3>2
  <2>6. \A i \in Unfinished(Queued)' : ~LastToken(i)'
    BY <1>5, <2>3, <2>4 DEF Unfinished
  <2>. QED
    BY <1>0, <1>1, <1>2, <2>5, <2>6 DEF StreamsOK
<1>. QED
  BY <1>7, <1>8, <1>9, <1>10, <1>11, <1>12, <1>13 DEF EngineInv

\* The parts of the invariant that say nothing of events.
Steady == QueuesOK /\ BatchOK /\ StepOK /\ ProgressOK /\ KVOK /\ ReservedOK

steadyVars == <<requestVars, failed, stepVars, runnerVars>>

LEMMA SteadyStays ==
  ASSUME Steady, UNCHANGED steadyVars
  PROVE  Steady' /\ Unfinished(Queued)' = Unfinished(Queued) /\ \A id \in Queued : Emitted(id)' = Emitted(id)
<1>0. QueuesOK /\ BatchOK /\ StepOK /\ ProgressOK /\ KVOK /\ ReservedOK
  BY DEF Steady
<1>1. /\ seen' = seen /\ waiting' = waiting /\ active' = active /\ state' = state /\ failed' = failed
      /\ at' = at /\ slots' = slots /\ order' = order /\ budget' = budget /\ finish' = finish
      /\ live' = live /\ reserved' = reserved /\ held' = held
  BY DEF steadyVars, requestVars, stepVars, runnerVars
<1>2. Queued' = Queued /\ ReservedPages' = ReservedPages
      /\ Unfinished(Queued)' = Unfinished(Queued) /\ Unfinished(ToSet(active))' = Unfinished(ToSet(active))
  BY <1>1 DEF Queued, ReservedPages, Unfinished
<1>3. QueuesOK'
  BY <1>0, <1>1, <1>2 DEF QueuesOK
<1>4. BatchOK'
  BY <1>0, <1>1, Zenon DEF BatchOK
<1>5. StepOK'
  BY <1>0, <1>1, <1>2 DEF StepOK, Sampling
<1>6. ProgressOK'
  BY <1>0, <1>1 DEF ProgressOK, LastToken
<1>7. KVOK'
  BY <1>0, <1>1, <1>2 DEF KVOK, KVLength
<1>8. ReservedOK'
  BY <1>0, <1>1, <1>2, Zenon DEF ReservedOK
<1>9. \A id \in Queued : Emitted(id)' = Emitted(id)
  BY <1>1 DEF Emitted, LastToken
<1>. QED
  BY <1>2, <1>3, <1>4, <1>5, <1>6, <1>7, <1>8, <1>9 DEF Steady

LEMMA UnchangedKeeps ==
  ASSUME EngineInv, UNCHANGED vars
  PROVE  EngineInv'
<1>1. UNCHANGED steadyVars /\ UNCHANGED <<seen, eventVars>>
  BY DEF vars, steadyVars, requestVars, eventVars, stepVars, runnerVars
<1>2. Steady' /\ Unfinished(Queued)' = Unfinished(Queued) /\ \A id \in Queued : Emitted(id)' = Emitted(id)
  BY <1>1, SteadyStays, Parts DEF Steady
<1>3. StreamsOK'
  BY <1>1, <1>2, QuietStreams, Parts DEF Unfinished
<1>. QED
  BY <1>2, <1>3 DEF EngineInv, Steady

LEMMA PollEventsKeeps ==
  ASSUME EngineInv, PollEvents
  PROVE  EngineInv' /\ Streams' = Streams
<1>0. QueuesOK /\ StreamsOK
  BY Parts
<1>1. UNCHANGED steadyVars /\ seen' = seen
  BY DEF PollEvents, steadyVars, requestVars
<1>2. Steady' /\ Unfinished(Queued)' = Unfinished(Queued) /\ \A id \in Queued : Emitted(id)' = Emitted(id)
  BY <1>1, SteadyStays, Parts DEF Steady
<1>. DEFINE S == Seq(Service!Event)
<1>3. /\ delivered' = [id \in Id |-> delivered[id] \o events[id]]
      /\ events' = [id \in Id |-> <<>>]
  BY DEF PollEvents
<1>4. \A id \in Id : delivered[id] \in S /\ events[id] \in S
  BY <1>0 DEF StreamsOK
<1>5. \A d, e \in S : d \o e \in S /\ (d \o e) \o <<>> = d \o e
  <2>. HIDE DEF Service!Event
  <2>. QED
    OBVIOUS
<1>6. /\ delivered' \in [Id -> S] /\ events' \in [Id -> S]
      /\ \A id \in Id : delivered'[id] = delivered[id] \o events[id] /\ events'[id] = <<>>
  <2>. HIDE DEF S
  <2>1. <<>> \in S
    BY EmptyQueue DEF S
  <2>2. \A id \in Id : delivered[id] \o events[id] \in S
    BY <1>4, <1>5
  <2>. QED
    BY <1>3, <2>1, <2>2
<1>7. Streams' = Streams
  <2>1. seen \subseteq Id
    BY <1>0 DEF QueuesOK
  <2>2. \A id \in seen : delivered'[id] \o events'[id] = delivered[id] \o events[id]
    <3>. HIDE DEF S
    <3>. TAKE id \in seen
    <3>1. delivered[id] \in S /\ events[id] \in S /\ id \in Id
      BY <1>4, <2>1
    <3>2. (delivered[id] \o events[id]) \o <<>> = delivered[id] \o events[id]
      BY <1>5, <3>1, Zenon
    <3>. QED
      BY <1>6, <3>1, <3>2, Zenon
  <2>. QED
    BY <1>1, <2>2 DEF Streams
<1>8. \A id \in Id \ seen' : delivered'[id] = <<>> /\ events'[id] = <<>>
  <2>1. <<>> \o <<>> = <<>>
    OBVIOUS
  <2>2. \A id \in Id \ seen : delivered[id] = <<>> /\ events[id] = <<>>
    BY <1>0 DEF StreamsOK
  <2>. QED
    BY <1>1, <1>6, <2>1, <2>2
<1>9. \A id \in seen' : IF id \in Unfinished(Queued)'
                        THEN ~Service!Over(Streams'[id]) /\ Len(Streams'[id]) = Emitted(id)'
                        ELSE Service!Over(Streams'[id])
  <2>1. \A id \in seen : IF id \in Unfinished(Queued)
                         THEN ~Service!Over(Streams[id]) /\ Len(Streams[id]) = Emitted(id)
                         ELSE Service!Over(Streams[id])
    BY <1>0 DEF StreamsOK, Emitted
  <2>2. \A id \in Unfinished(Queued) : Emitted(id)' = Emitted(id)
    BY <1>2 DEF Unfinished
  <2>3. Unfinished(Queued)' = Unfinished(Queued)
    BY <1>2
  <2>. HIDE DEF S
  <2>. QED
    BY <1>1, <1>7, <2>1, <2>2, <2>3, Zenon
<1>10. StreamsOK'
  BY <1>6, <1>8, <1>9 DEF StreamsOK, Emitted
<1>. QED
  BY <1>2, <1>7, <1>10 DEF EngineInv, Steady

LEMMA DiagnoseKeeps ==
  ASSUME EngineInv, Diagnose
  PROVE  EngineInv' /\ Streams' = Streams
<1>0. QueuesOK /\ BatchOK /\ StepOK /\ ProgressOK /\ KVOK /\ ReservedOK /\ StreamsOK
  BY Parts
<1>1. /\ seen' = seen /\ waiting' = waiting /\ active' = active /\ state' = state /\ failed' = failed
      /\ at' = at /\ slots' = slots /\ order' = order /\ budget' = budget /\ finish' = finish
      /\ live' = live /\ reserved' = reserved /\ UNCHANGED <<seen, eventVars>>
  BY DEF Diagnose, requestVars, stepVars
<1>2. Queued' = Queued /\ Unfinished(Queued)' = Unfinished(Queued)
      /\ Unfinished(ToSet(active))' = Unfinished(ToSet(active))
  BY <1>1 DEF Queued, Unfinished
<1>3. QueuesOK'
  BY <1>0, <1>1, <1>2 DEF QueuesOK
<1>4. BatchOK'
  BY <1>0, <1>1, Zenon DEF BatchOK
<1>5. StepOK'
  BY <1>0, <1>1, <1>2 DEF StepOK, Sampling
<1>6. ProgressOK'
  BY <1>0, <1>1 DEF ProgressOK, LastToken
<1>7. KVOK'
  BY <1>0, <1>1, <1>2 DEF KVOK, KVLength
<1>8. ReservedOK'
  <2>1. PICK pages \in Held : pages <= TotalPages - ReservedPages /\ held' = pages
    BY DEF Diagnose
  <2>2. pages \in Nat /\ ReservedPages \in Nat /\ TotalPages \in Nat
    BY <1>0, ReservedTypes, Constants
  <2>3. pages + ReservedPages <= TotalPages
    BY <2>1, <2>2
  <2>4. ReservedPages' = ReservedPages
    BY <1>1 DEF ReservedPages
  <2>. QED
    BY <1>0, <1>1, <1>2, <2>1, <2>2, <2>3, <2>4, Zenon DEF ReservedOK
<1>9. StreamsOK' /\ Streams' = Streams
  <2>1. \A id \in Unfinished(Queued) : Emitted(id)' = Emitted(id)
    BY <1>1 DEF Emitted, LastToken
  <2>. QED
    BY <1>0, <1>1, <1>2, <2>1, QuietStreams
<1>. QED
  BY <1>3, <1>4, <1>5, <1>6, <1>7, <1>8, <1>9 DEF EngineInv

LEMMA AbortedEnds ==
  Ending(Aborted("Cancelled")) /\ Ending(Aborted("Error"))
BY DEF Ending, Aborted, Service!Event

\* The open requests are those of the queues when no iteration is at work.
LEMMA OpenOutside ==
  ASSUME EngineInv, at \in {"outside", "admit"}
  PROVE  Unfinished(Queued) = Queued
BY Parts DEF Unfinished, StepOK

LEMMA CancelKeeps ==
  ASSUME EngineInv, NEW id \in Id, Cancel(id)
  PROVE  EngineInv'
<1>0. QueuesOK
  BY Parts
<1>1. /\ at = "outside" /\ {id} \in SUBSET Queued
      /\ live' = Without(live, {id}) /\ reserved' = Without(reserved, {id})
      /\ events' = Notified({id}, Aborted("Cancelled")) /\ state' = Without(state, {id})
      /\ UNCHANGED <<seen, delivered>> /\ UNCHANGED failed /\ UNCHANGED stepVars /\ held' = held
  BY DEF Cancel, Terminal
<1>2. Shrunk(waiting, waiting', {id}) /\ Shrunk(active, active', {id})
  BY <1>0, RemovedShrinks DEF Cancel, QueuesOK
<1>. QED
  BY <1>1, <1>2, AbortedEnds, RequestsGone

LEMMA ShutdownKeeps ==
  ASSUME EngineInv, Shutdown
  PROVE  EngineInv'
<1>0. QueuesOK
  BY Parts
<1>1. /\ at = "outside" /\ events' = Notified(Queued, Aborted("Cancelled")) /\ state' = <<>>
      /\ waiting' = <<>> /\ active' = <<>>
      /\ \/ live' = <<>> /\ reserved' = <<>> /\ held' = 0
         \/ live' = Without(live, Queued) /\ reserved' = Without(reserved, Queued) /\ held' = held
      /\ UNCHANGED <<seen, delivered>> /\ UNCHANGED failed /\ UNCHANGED stepVars
  BY DEF Shutdown
<1>2. Shrunk(waiting, waiting', Queued) /\ Shrunk(active, active', Queued)
  BY <1>0, <1>1, EmptyQueue, QueueTypes DEF Shrunk, Queued
<1>3. state' = Without(state, Queued)
  <2>1. DOMAIN Without(state, Queued) = {}
    BY <1>0 DEF Without, QueuesOK
  <2>2. Without(state, Queued) = [x \in {} |-> state[x]] /\ <<>> = [x \in {} |-> state[x]]
    BY <1>0 DEF Without, QueuesOK
  <2>. QED
    BY <1>1, <2>2
<1>. QED
  BY <1>1, <1>2, <1>3, AbortedEnds, RequestsGone

LEMMA ShutdownFailsKeeps ==
  ASSUME EngineInv, NEW k \in 0 .. Len(active) - 1, ShutdownFails(k)
  PROVE  EngineInv' /\ ToSet(SubSeq(active, 1, k)) \in SUBSET Queued
<1>0. QueuesOK
  BY Parts
<1>. DEFINE gone == ToSet(SubSeq(active, 1, k))
<1>1. /\ at = "outside" /\ state' = Without(state, gone) /\ waiting' = waiting
      /\ live' = Without(live, gone) /\ reserved' = Without(reserved, gone) /\ held' = held
      /\ events' = Notified(gone, Aborted("Cancelled")) /\ active' = Removed(active, gone)
      /\ UNCHANGED <<seen, delivered>> /\ UNCHANGED failed /\ UNCHANGED stepVars
  BY DEF ShutdownFails, Terminal
<1>2. gone \subseteq ToSet(active)
  <2>1. active \in Seq(Id) /\ k \in Nat /\ k <= Len(active)
    BY <1>0 DEF QueuesOK
  <2>2. \A i \in 1 .. k : SubSeq(active, 1, k)[i] = active[i] /\ i \in DOMAIN active
    BY <2>1
  <2>3. DOMAIN SubSeq(active, 1, k) = 1 .. k
    BY <2>1
  <2>. QED
    BY <2>2, <2>3 DEF ToSet
<1>. HIDE DEF gone
<1>3. gone \in SUBSET Queued /\ gone \cap ToSet(waiting) = {}
  BY <1>0, <1>2 DEF Queued, QueuesOK
<1>4. Shrunk(active, active', gone)
  BY <1>0, <1>1, RemovedShrinks DEF QueuesOK
<1>5. Shrunk(waiting, waiting', gone)
  <2>1. waiting \in Seq(Id) /\ IsInjective(waiting) /\ Len(waiting) \in Nat
    BY <1>0 DEF QueuesOK
  <2>. QED
    BY <1>1, <1>3, <2>1 DEF Shrunk
<1>. QED
  BY <1>1, <1>3, <1>4, <1>5, AbortedEnds, RequestsGone DEF gone

LEMMA RejectKeeps ==
  ASSUME EngineInv, Reject
  PROVE  EngineInv' /\ Head(waiting) \in Queued
<1>0. QueuesOK
  BY Parts
<1>. DEFINE ids == {Head(waiting)}
<1>1. /\ at = "admit" /\ waiting # <<>> /\ waiting' = Tail(waiting) /\ active' = active
      /\ live' = Without(live, ids) /\ reserved' = Without(reserved, ids) /\ held' = held
      /\ events' = Notified(ids, Aborted("Error")) /\ state' = Without(state, ids)
      /\ UNCHANGED <<seen, delivered>> /\ UNCHANGED failed /\ UNCHANGED stepVars
  BY DEF Reject, Candidate, Terminal
<1>2. waiting \in Seq(Id) /\ IsInjective(waiting) /\ active \in Seq(Id) /\ IsInjective(active)
      /\ Len(active) \in Nat /\ Len(waiting) \in Nat
  BY <1>0, QueueTypes DEF QueuesOK
<1>3. Head(waiting) \in ToSet(waiting)
  BY <1>1, <1>2, TailQueue
<1>4. Head(waiting) \in Queued /\ Head(waiting) \notin ToSet(active)
  BY <1>0, <1>3 DEF QueuesOK, Queued
<1>5. Shrunk(waiting, waiting', ids)
  <2>1. /\ Tail(waiting) \in Seq(Id) /\ Len(Tail(waiting)) = Len(waiting) - 1 /\ IsInjective(Tail(waiting))
        /\ ToSet(Tail(waiting)) \subseteq ToSet(waiting) /\ Head(waiting) \notin ToSet(Tail(waiting))
        /\ ToSet(waiting) \subseteq ToSet(Tail(waiting)) \cup {Head(waiting)}
    BY <1>1, <1>2, TailQueue
  <2>2. Len(Tail(waiting)) <= Len(waiting)
    BY <1>2, <2>1
  <2>. QED
    BY <1>1, <2>1, <2>2 DEF Shrunk
<1>6. Shrunk(active, active', ids)
  BY <1>1, <1>2, <1>4 DEF Shrunk
<1>7. ids \in SUBSET Queued
  BY <1>4
<1>. HIDE DEF ids
<1>8. EngineInv'
  BY <1>1, <1>5, <1>6, <1>7, AbortedEnds, RequestsGone
<1>. QED
  BY <1>4, <1>8

------------------------------------------------------------------------------
\* A step begins, admits and plans

LEMMA Least ==
  ASSUME NEW S \in SUBSET Int, S # {}, NEW m \in S, \A x \in S : m <= x
  PROVE  Min(S) = m
<1>. DEFINE low(x) == x \in S /\ \A y \in S : x <= y
<1>1. low(m)
  OBVIOUS
<1>2. Min(S) = CHOOSE x : low(x)
  BY Zenon DEF Min
<1>3. low(CHOOSE x : low(x))
  <2>. HIDE DEF low
  <2>. QED
    BY <1>1, Zenon
<1>4. low(Min(S))
  BY <1>2, <1>3, Zenon
<1>5. Min(S) \in Int /\ m \in Int /\ Min(S) <= m /\ m <= Min(S)
  BY <1>1, <1>4
<1>. QED
  BY <1>5

LEMMA AdmissionCountFits ==
  ASSUME NEW running \in Nat, NEW queued \in Nat, running <= MaxBatchSize
  PROVE  AdmissionCount(running, queued) \in Nat /\ AdmissionCount(running, queued) + running <= MaxBatchSize
<1>1. MaxBatchSize \in Nat
  BY Constants
<1>2. CASE running >= MaxBatchSize
  BY <1>1, <1>2 DEF AdmissionCount
<1>3. CASE running < MaxBatchSize
  <2>. DEFINE free == MaxBatchSize - running
  <2>1. free \in Nat
    BY <1>1, <1>3
  <2>2. CASE queued <= free
    <3>1. Min({queued, free}) = queued
      BY <2>1, <2>2, Least
    <3>. QED
      BY <1>1, <1>3, <2>2, <3>1 DEF AdmissionCount
  <2>3. CASE free < queued
    <3>1. Min({queued, free}) = free
      BY <2>1, <2>3, Least
    <3>. QED
      BY <1>1, <1>3, <2>3, <3>1 DEF AdmissionCount
  <2>. QED
    BY <2>1, <2>2, <2>3
<1>. QED
  BY <1>1, <1>2, <1>3

LEMMA BeginStepKeeps ==
  ASSUME EngineInv, BeginStep
  PROVE  EngineInv' /\ Streams' = Streams
<1>0. QueuesOK /\ BatchOK /\ StepOK /\ ProgressOK /\ KVOK /\ ReservedOK /\ StreamsOK
  BY Parts
<1>1. /\ seen' = seen /\ waiting' = waiting /\ active' = active /\ state' = state /\ failed' = failed
      /\ order' = order /\ budget' = budget /\ finish' = finish
      /\ live' = live /\ reserved' = reserved /\ held' = held /\ UNCHANGED <<seen, eventVars>>
  BY DEF BeginStep, requestVars, runnerVars
<1>2. /\ at = "outside" /\ at' = "admit" /\ ~failed /\ order = <<>>
      /\ slots' = AdmissionCount(Len(active), Len(waiting)) /\ finish = ""
  BY <1>0 DEF BeginStep, StepOK
<1>3. Queued' = Queued /\ ReservedPages' = ReservedPages
      /\ Unfinished(Queued)' = Unfinished(Queued) /\ Unfinished(ToSet(active))' = Unfinished(ToSet(active))
  BY <1>1 DEF Queued, ReservedPages, Unfinished
<1>4. QueuesOK'
  BY <1>0, <1>1, <1>3 DEF QueuesOK
<1>5. BatchOK'
  <2>1. Len(active) \in Nat /\ Len(waiting) \in Nat
    BY <1>0, QueueTypes
  <2>2. Len(active) <= MaxBatchSize
    BY <1>0, <2>1, Constants DEF BatchOK
  <2>3. AdmissionCount(Len(active), Len(waiting)) \in Nat
        /\ AdmissionCount(Len(active), Len(waiting)) + Len(active) <= MaxBatchSize
    BY <2>1, <2>2, AdmissionCountFits
  <2>4. budget \in 0 .. TokenBudget
    BY <1>0 DEF BatchOK
  <2>. QED
    BY <1>1, <1>2, <2>3, <2>4, Zenon DEF BatchOK
<1>6. StepOK'
  BY <1>0, <1>1, <1>2, <1>3 DEF StepOK
<1>7. ProgressOK'
  BY <1>0, <1>1, <1>2 DEF ProgressOK, LastToken
<1>8. KVOK'
  BY <1>0, <1>1, <1>2, <1>3 DEF KVOK, KVLength
<1>9. ReservedOK'
  BY <1>0, <1>1, <1>3, Zenon DEF ReservedOK
<1>10. StreamsOK' /\ Streams' = Streams
  <2>1. \A id \in Unfinished(Queued) : Emitted(id)' = Emitted(id)
    BY <1>1, <1>2 DEF Emitted, LastToken
  <2>. QED
    BY <1>0, <1>1, <1>3, <2>1, QuietStreams
<1>. QED
  BY <1>4, <1>5, <1>6, <1>7, <1>8, <1>9, <1>10 DEF EngineInv

LEMMA PlanWorkKeeps ==
  ASSUME EngineInv, PlanWork
  PROVE  EngineInv' /\ Streams' = Streams
<1>0. QueuesOK /\ BatchOK /\ StepOK /\ ProgressOK /\ KVOK /\ ReservedOK /\ StreamsOK
  BY Parts
<1>1. /\ seen' = seen /\ waiting' = waiting /\ active' = active /\ state' = state /\ failed' = failed
      /\ finish' = finish /\ live' = live /\ reserved' = reserved /\ held' = held /\ slots' = 0
      /\ UNCHANGED <<seen, eventVars>>
  BY DEF PlanWork, requestVars, runnerVars
<1>2. /\ at = "admit" /\ at' \in {"outside", "work"} /\ ~failed /\ order = <<>> /\ finish = ""
      /\ at' = "outside" => order' = order
      /\ budget' = TokenBudget \/ budget' = budget
      /\ order' = order \/ order' = PlanOrder(active, Decoding)
      /\ \A id \in Queued : ~state[id].finished
  BY <1>0 DEF PlanWork, StepOK
<1>3. Queued' = Queued /\ ReservedPages' = ReservedPages
      /\ Unfinished(Queued)' = Unfinished(Queued) /\ Unfinished(ToSet(active))' = Unfinished(ToSet(active))
  BY <1>1 DEF Queued, ReservedPages, Unfinished
<1>4. order' \in Seq(Id) /\ IsInjective(order') /\ ToSet(order') \subseteq ToSet(active)
  <2>. DEFINE first == Selected(active, Decoding)
              then == Selected(active, ToSet(active) \ Decoding)
  <2>1. active \in Seq(Id) /\ IsInjective(active)
    BY <1>0 DEF QueuesOK
  <2>2. /\ first \in Seq(Id) /\ IsInjective(first) /\ ToSet(first) = ToSet(active) \cap Decoding
        /\ then \in Seq(Id) /\ IsInjective(then)
        /\ ToSet(then) = ToSet(active) \cap (ToSet(active) \ Decoding)
    BY <2>1, SelectedFacts
  <2>3. PlanOrder(active, Decoding) = first \o then
    BY DEF PlanOrder
  <2>. HIDE DEF first, then
  <2>4. /\ first \o then \in Seq(Id) /\ IsInjective(first \o then)
        /\ ToSet(first \o then) = ToSet(first) \cup ToSet(then)
    BY <2>2, JoinQueues
  <2>5. CASE order' = PlanOrder(active, Decoding)
    BY <2>2, <2>3, <2>4, <2>5
  <2>6. CASE order' = order
    BY <1>2, <2>6, EmptyQueue
  <2>. QED
    BY <1>2, <2>5, <2>6
<1>5. QueuesOK'
  BY <1>0, <1>1, <1>3, <1>4 DEF QueuesOK
<1>6. BatchOK'
  <2>1. Len(active) \in Nat
    BY <1>0, QueueTypes
  <2>2. 0 + Len(active) <= MaxBatchSize /\ 0 \in Nat
    BY <1>0, <2>1, Constants DEF BatchOK
  <2>3. budget \in 0 .. TokenBudget /\ TokenBudget \in 0 .. TokenBudget
    BY <1>0, Constants DEF BatchOK
  <2>4. budget' \in 0 .. TokenBudget
    BY <1>2, <2>3
  <2>. QED
    BY <1>1, <2>2, <2>4, Zenon DEF BatchOK
<1>7. StepOK'
  <2>1. \A id \in ToSet(order') : ~state'[id].finished
    BY <1>0, <1>1, <1>2, <1>4 DEF Queued
  <2>. QED
    BY <1>0, <1>1, <1>2, <1>3, <2>1 DEF StepOK
<1>8. ProgressOK'
  BY <1>0, <1>1, <1>2 DEF ProgressOK, LastToken
<1>9. KVOK'
  BY <1>0, <1>1, <1>2, <1>3 DEF KVOK, KVLength
<1>10. ReservedOK'
  BY <1>0, <1>1, <1>3, Zenon DEF ReservedOK
<1>11. StreamsOK' /\ Streams' = Streams
  <2>1. \A id \in Unfinished(Queued) : Emitted(id)' = Emitted(id)
    BY <1>1, <1>2 DEF Emitted, LastToken
  <2>. QED
    BY <1>0, <1>1, <1>3, <2>1, QuietStreams
<1>. QED
  BY <1>5, <1>6, <1>7, <1>8, <1>9, <1>10, <1>11 DEF EngineInv

LEMMA AdmitKeeps ==
  ASSUME EngineInv, Admit
  PROVE  EngineInv' /\ Streams' = Streams
<1>0. QueuesOK /\ BatchOK /\ StepOK /\ ProgressOK /\ KVOK /\ ReservedOK /\ StreamsOK
  BY Parts
<1>1. /\ seen' = seen /\ state' = state /\ failed' = failed /\ at' = at
      /\ finish' = finish /\ live' = live /\ held' = held /\ order' = order /\ budget' = budget
      /\ UNCHANGED <<seen, eventVars>>
  BY DEF Admit
<1>. DEFINE id == Head(waiting)
<1>2. /\ at = "admit" /\ ~failed /\ order = <<>> /\ finish = "" /\ waiting # <<>>
      /\ \A i \in Queued : ~state[i].finished
      /\ waiting' = Tail(waiting) /\ active' = Append(active, id)
      /\ Admission(id) = "Ready" /\ reserved' = With(reserved, id, PagesFor(RequestTokens(id)))
  BY <1>0 DEF Admit, Candidate, StepOK
<1>3. /\ id \in Id /\ id \in ToSet(waiting) /\ id \notin ToSet(active)
      /\ waiting' \in Seq(Id) /\ IsInjective(waiting') /\ ToSet(waiting') = ToSet(waiting) \ {id}
  <2>1. waiting \in Seq(Id) /\ IsInjective(waiting)
    BY <1>0 DEF QueuesOK
  <2>2. /\ id \in ToSet(waiting) /\ id \in Id /\ Tail(waiting) \in Seq(Id) /\ IsInjective(Tail(waiting))
        /\ ToSet(Tail(waiting)) \subseteq ToSet(waiting) /\ ToSet(waiting) \subseteq ToSet(Tail(waiting)) \cup {id}
        /\ id \notin ToSet(Tail(waiting))
    BY <1>2, <2>1, TailQueue
  <2>. QED
    BY <1>0, <1>2, <2>2 DEF QueuesOK
<1>. HIDE DEF id
<1>4. /\ active' \in Seq(Id) /\ IsInjective(active') /\ ToSet(active') = ToSet(active) \cup {id}
      /\ Len(active') = Len(active) + 1
  <2>1. active \in Seq(Id) /\ IsInjective(active)
    BY <1>0 DEF QueuesOK
  <2>2. /\ Append(active, id) \in Seq(Id) /\ Len(Append(active, id)) = Len(active) + 1
        /\ ToSet(Append(active, id)) = ToSet(active) \cup {id} /\ IsInjective(Append(active, id))
    BY <1>3, <2>1, AppendQueue
  <2>. QED
    BY <1>2, <2>2, Zenon
<1>5. Queued' = Queued /\ Unfinished(Queued)' = Unfinished(Queued) /\ id \in Queued
  BY <1>1, <1>3, <1>4 DEF Queued, Unfinished
<1>6. QueuesOK'
  BY <1>0, <1>1, <1>2, <1>3, <1>4, <1>5, EmptyQueue DEF QueuesOK
<1>7. BatchOK'
  <2>1. Len(active) \in Nat
    BY <1>0, QueueTypes
  <2>2. slots \in Nat /\ slots > 0 /\ slots' = slots - 1
    BY <1>0 DEF BatchOK, Admit, Candidate
  <2>3. slots - 1 \in Nat /\ (slots - 1) + (Len(active) + 1) <= MaxBatchSize
    BY <1>0, <2>1, <2>2, Constants DEF BatchOK
  <2>4. budget \in 0 .. TokenBudget
    BY <1>0 DEF BatchOK
  <2>. QED
    BY <1>1, <1>2, <1>4, <2>2, <2>3, <2>4, Zenon DEF BatchOK
<1>8. StepOK'
  BY <1>0, <1>1, <1>2, <1>5, EmptyQueue DEF StepOK
<1>9. ProgressOK'
  <2>1. ~LastToken(id) /\ \A i \in ToSet(active) : ~LastToken(i) /\ ~LastToken(i)'
    BY <1>1, <1>2 DEF LastToken
  <2>2. state[id] = [prefilled |-> 0, output |-> 0, resident |-> FALSE, finished |-> FALSE] /\ MaxNew[id] > 0
    BY <1>0, <1>3, Constants DEF ProgressOK
  <2>3. ~state[id].finished /\ state[id].prefilled = 0 /\ state[id].output = 0
    BY <2>2
  <2>. QED
    BY <1>0, <1>1, <1>3, <1>4, <2>1, <2>2, <2>3 DEF ProgressOK
<1>10. KVOK'
  BY <1>0, <1>1, <1>2, <1>5 DEF KVOK, KVLength
<1>11. ReservedOK'
  <2>. DEFINE pages == PagesFor(RequestTokens(id))
  <2>1. Unfinished(ToSet(active))' = Unfinished(ToSet(active)) \cup {id} /\ id \notin DOMAIN reserved
    BY <1>0, <1>1, <1>2, <1>3, <1>4, <1>5 DEF Unfinished, ReservedOK
  <2>2. pages \in Nat
    BY <1>3, Constants, PagesForGrows
  <2>3. ReservedPages' = ReservedPages + pages /\ ReservedPages \in Nat
    <3>. HIDE DEF pages
    <3>1. SumFunction(With(reserved, id, pages)) = SumFunction(reserved) + pages /\ SumFunction(reserved) \in Nat
      BY <1>0, <2>1, <2>2, ReservedTypes, SumWith
    <3>2. reserved' = With(reserved, id, pages)
      BY <1>2 DEF pages
    <3>. QED
      BY <3>1, <3>2 DEF ReservedPages
  <2>4. held + ReservedPages + pages <= TotalPages
    <3>1. held \in Nat /\ TotalPages \in Nat
      BY <1>0, Constants DEF ReservedOK
    <3>. SUFFICES ASSUME held + ReservedPages + pages > TotalPages PROVE FALSE
      BY <2>2, <2>3, <3>1
    <3>2. CASE pages > TotalPages
      <4>1. Admission(id) = "Impossible"
        BY <2>2, <3>1, <3>2 DEF Admission
      <4>. QED
        BY <1>2, <4>1
    <3>3. CASE pages <= TotalPages
      <4>1. Admission(id) = "Wait"
        BY <3>1, <3>3, <2>2 DEF Admission
      <4>. QED
        BY <1>2, <4>1
    <3>. QED
      BY <2>2, <3>1, <3>2, <3>3
  <2>5. held + (ReservedPages + pages) <= TotalPages
    BY <1>0, <2>2, <2>3, <2>4, Constants DEF ReservedOK
  <2>6. DOMAIN reserved' = DOMAIN reserved \cup {id} /\ reserved'[id] = pages
        /\ \A i \in DOMAIN reserved : reserved'[i] = reserved[i]
    BY <1>2, <2>1 DEF With
  <2>7. held' + ReservedPages' <= TotalPages /\ held' \in Nat
    BY <1>0, <1>1, <2>3, <2>5, Zenon DEF ReservedOK
  <2>. QED
    BY <1>0, <2>1, <2>6, <2>7 DEF ReservedOK
<1>12. StreamsOK' /\ Streams' = Streams
  <2>1. \A i \in Unfinished(Queued) : Emitted(i)' = Emitted(i)
    BY <1>1, <1>2 DEF Emitted, LastToken
  <2>. QED
    BY <1>0, <1>1, <1>5, <2>1, QuietStreams
<1>. QED
  BY <1>6, <1>7, <1>8, <1>9, <1>10, <1>11, <1>12 DEF EngineInv

------------------------------------------------------------------------------
\* The work on a request

\* The request id at the head of the plan goes on: r is its state, n the length
\* of its KV and b the budget afterwards.
Serves(id, r, b, n) ==
    /\ at \in {"work", "sample"} /\ order # <<>> /\ id = Head(order)
    /\ r \in [prefilled : 0 .. Prompt[id], output : 0 .. MaxNew[id],
              resident : BOOLEAN, finished : BOOLEAN]
    /\ r.resident /\ ~r.finished /\ (r.output > 0 => r.prefilled = Prompt[id])
    /\ state' = [state EXCEPT ![id] = r]
    /\ \/ order' = order /\ at' \in {"work", "sample"}
       \/ order' = Tail(order) /\ at' = "work"
    /\ at' = "work" => finish' = "" /\ r.output < MaxNew[id]
    /\ at' = "sample" => Sampling(id)'
    /\ finish' \in {"", "Eos", "Length"}
    /\ b \in 0 .. TokenBudget /\ budget' = b
    /\ n \in Nat /\ n = KVLength(id)'
    /\ DOMAIN live' = DOMAIN live \cup {id} /\ live'[id] = n
    /\ \A i \in DOMAIN live \ {id} : live'[i] = live[i]
    /\ seen' = seen /\ waiting' = waiting /\ active' = active /\ failed' = failed
    /\ slots' = slots /\ reserved' = reserved /\ held' = held

LEMMA ServedKeeps ==
  ASSUME Steady, NEW id, NEW r, NEW b, NEW n, Serves(id, r, b, n)
  PROVE  /\ Steady' /\ Unfinished(Queued)' = Unfinished(Queued) /\ id \in Unfinished(Queued)
         /\ \A i \in Queued \ {id} : Emitted(i)' = Emitted(i)
<1>0. QueuesOK /\ BatchOK /\ StepOK /\ ProgressOK /\ KVOK /\ ReservedOK
  BY DEF Steady
<1>1. /\ seen' = seen /\ waiting' = waiting /\ active' = active /\ slots' = slots
      /\ reserved' = reserved /\ held' = held
      /\ at \in {"work", "sample"} /\ at' \in {"work", "sample"}
  BY DEF Serves
<1>2. ~failed /\ ~failed'
  <2>1. failed' = failed /\ at # "outside"
    BY DEF Serves
  <2>. QED
    BY <1>0, <2>1 DEF StepOK
<1>3. /\ order # <<>> /\ id = Head(order)
      /\ r \in [prefilled : 0 .. Prompt[id], output : 0 .. MaxNew[id],
                resident : BOOLEAN, finished : BOOLEAN]
      /\ r.resident /\ ~r.finished /\ (r.output > 0 => r.prefilled = Prompt[id])
  BY DEF Serves
<1>4. /\ state' = [state EXCEPT ![id] = r]
      /\ order' = order \/ (order' = Tail(order) /\ at' = "work")
      /\ at' = "work" => finish' = "" /\ r.output < MaxNew[id]
      /\ at' = "sample" => Sampling(id)'
      /\ finish' \in {"", "Eos", "Length"}
  BY DEF Serves
<1>5. /\ n \in Nat /\ n = KVLength(id)' /\ DOMAIN live' = DOMAIN live \cup {id} /\ live'[id] = n
      /\ \A i \in DOMAIN live \ {id} : live'[i] = live[i]
  BY DEF Serves
<1>6. at' = "sample" => order' = order
  BY <1>4
<1>7. /\ id \in ToSet(order) /\ id \in ToSet(active) /\ id \in Queued /\ id \in Id /\ ~state[id].finished
      /\ order' \in Seq(Id) /\ IsInjective(order') /\ ToSet(order') \subseteq ToSet(order)
      /\ order' # order => id \notin ToSet(order')
  <2>1. order \in Seq(Id) /\ IsInjective(order) /\ ToSet(order) \subseteq ToSet(active)
    BY <1>0 DEF QueuesOK
  <2>2. /\ Head(order) \in ToSet(order) /\ Head(order) \in Id /\ Tail(order) \in Seq(Id)
        /\ ToSet(Tail(order)) \subseteq ToSet(order)
        /\ IsInjective(Tail(order)) /\ Head(order) \notin ToSet(Tail(order))
    BY <1>3, <2>1, TailQueue
  <2>3. ~state[id].finished
    BY <1>0, <1>3, <2>2 DEF StepOK
  <2>. QED
    BY <1>3, <1>4, <2>1, <2>2, <2>3 DEF Queued
<1>8. /\ Queued' = Queued /\ DOMAIN state = Queued /\ DOMAIN state' = Queued /\ state'[id] = r
      /\ \A i \in Queued \ {id} : state'[i] = state[i]
  BY <1>0, <1>1, <1>7, <1>4 DEF Queued, QueuesOK
<1>9. /\ Unfinished(Queued)' = Unfinished(Queued) /\ id \in Unfinished(Queued)
      /\ Unfinished(ToSet(active))' = Unfinished(ToSet(active))
  BY <1>1, <1>7, <1>8, <1>3 DEF Unfinished, Queued
<1>10. \A i \in Queued \ {id} : ~LastToken(i) /\ ~LastToken(i)'
  BY <1>3, <1>6 DEF LastToken
<1>11. QueuesOK'
  <2>1. \A i \in Queued' : state'[i] \in [prefilled : 0 .. Prompt[i], output : 0 .. MaxNew[i],
                                        resident : BOOLEAN, finished : BOOLEAN]
    BY <1>0, <1>8, <1>3 DEF QueuesOK
  <2>2. \A i \in DOMAIN live' : live'[i] \in Nat
    BY <1>0, <1>5 DEF QueuesOK
  <2>3. ToSet(order') \subseteq ToSet(active)
    BY <1>0, <1>7 DEF QueuesOK
  <2>4. /\ seen' \subseteq Id /\ waiting' \in Seq(Id) /\ active' \in Seq(Id)
        /\ IsInjective(waiting') /\ IsInjective(active')
        /\ \A i \in ToSet(waiting') : i \notin ToSet(active')
    BY <1>0, <1>1 DEF QueuesOK
  <2>5. DOMAIN state' = Queued' /\ Queued' \subseteq seen' /\ ToSet(order') \subseteq ToSet(active')
    BY <1>0, <1>1, <1>8, <2>3 DEF QueuesOK
  <2>6. failed' \in BOOLEAN
    <3>1. failed \in BOOLEAN
      BY <1>0 DEF QueuesOK
    <3>2. failed' = failed
      BY DEF Serves
    <3>. QED
      BY <3>1, <3>2, Zenon
  <2>. QED
    BY <1>7, <2>1, <2>2, <2>4, <2>5, <2>6, Zenon DEF QueuesOK
<1>12. BatchOK'
  <2>1. slots = 0 /\ slots \in Nat /\ slots + Len(active) <= MaxBatchSize
    BY <1>0, <1>1 DEF BatchOK
  <2>2. budget' \in 0 .. TokenBudget
    BY DEF Serves
  <2>. QED
    BY <1>1, <2>1, <2>2, Zenon DEF BatchOK
<1>13. StepOK'
  <2>1. \A i \in ToSet(order') : ~state'[i].finished
    BY <1>0, <1>7, <1>8, <1>3 DEF StepOK, QueuesOK, Queued
  <2>2. at' = "sample" => order' # <<>> /\ Sampling(Head(order))'
    BY <1>3, <1>4, <1>6
  <2>3. at' # "sample" => finish' = ""
    BY <1>1, <1>4
  <2>4. at' \in {"outside", "admit", "work", "sample"} /\ at' \notin {"outside", "admit"}
    BY <1>1
  <2>. QED
    BY <1>2, <1>4, <2>1, <2>2, <2>3, <2>4, Zenon DEF StepOK
<1>14. ProgressOK'
  <2>1. id \notin ToSet(waiting)
    BY <1>0, <1>7 DEF QueuesOK
  <2>2. ~LastToken(id)' => r.output < MaxNew[id]
    <3>1. CASE at' = "work"
      BY <1>4, <3>1
    <3>2. CASE at' = "sample"
      BY <1>8, <1>3, <1>4, <1>6, <3>2 DEF LastToken, Sampling
    <3>. QED
      BY <1>1, <3>1, <3>2
  <2>3. ASSUME NEW i \in ToSet(active)
        PROVE  IF state'[i].finished THEN ~state'[i].resident
               ELSE /\ ~state'[i].resident => state'[i].prefilled = 0 /\ state'[i].output = 0
                    /\ state'[i].output > 0 => state'[i].prefilled = Prompt[i]
                    /\ ~LastToken(i)' => state'[i].output < MaxNew[i]
    <3>1. CASE i = id
      BY <1>8, <1>3, <2>2, <3>1
    <3>2. CASE i # id
      <4>1. state'[i] = state[i] /\ ~LastToken(i) /\ ~LastToken(i)'
        BY <1>8, <1>10, <3>2 DEF Queued
      <4>. QED
        BY <1>0, <4>1 DEF ProgressOK
    <3>. QED
      BY <3>1, <3>2
  <2>4. \A i \in ToSet(waiting) : state'[i] = state[i]
    BY <1>8, <2>1 DEF Queued
  <2>. QED
    BY <1>0, <1>1, <2>3, <2>4 DEF ProgressOK
<1>15. KVOK'
  <2>1. ASSUME NEW i \in Queued \ {id} PROVE KVLength(i)' = KVLength(i)
    <3>1. ~(at = "sample" /\ finish = "" /\ order # <<>> /\ Head(order) = i)
      BY <1>3
    <3>2. ~(at' = "sample" /\ finish' = "" /\ order' # <<>> /\ Head(order') = i)
      BY <1>3, <1>6
    <3>3. state'[i] = state[i]
      BY <1>8
    <3>4. KVLength(i) = IF state[i].output = 0 THEN state[i].prefilled ELSE Prompt[i] + state[i].output - 1
      BY <3>1, Zenon DEF KVLength
    <3>5. KVLength(i)' = IF state'[i].output = 0 THEN state'[i].prefilled ELSE Prompt[i] + state'[i].output - 1
      BY <3>2 DEF KVLength
    <3>. QED
      BY <3>3, <3>4, <3>5
  <2>2. ASSUME NEW i \in Queued, state'[i].resident
        PROVE  i \in DOMAIN live' /\ live'[i] = KVLength(i)'
    <3>1. CASE i = id
      BY <1>5, <3>1
    <3>2. CASE i # id
      BY <1>0, <1>8, <1>5, <2>1, <2>2, <3>2 DEF KVOK
    <3>. QED
      BY <3>1, <3>2
  <2>3. DOMAIN live' = {i \in Queued : state'[i].resident}
    <3>1. DOMAIN live = {i \in Queued : state[i].resident}
      BY <1>0, <1>2 DEF KVOK
    <3>. QED
      BY <1>7, <1>8, <1>3, <1>5, <3>1
  <2>. QED
    BY <1>8, <2>2, <2>3 DEF KVOK
<1>16. ReservedOK'
  <2>1. ReservedPages' = ReservedPages
    BY <1>1 DEF ReservedPages
  <2>. QED
    BY <1>0, <1>1, <1>9, <2>1, Zenon DEF ReservedOK
<1>17. \A i \in Queued \ {id} : Emitted(i)' = Emitted(i)
  BY <1>8, <1>10 DEF Emitted
<1>. QED
  BY <1>9, <1>11, <1>12, <1>13, <1>14, <1>15, <1>16, <1>17 DEF Steady

\* What an action on the head of the plan finds.
LEMMA AtHead ==
  ASSUME EngineInv, at \in {"work", "sample"}, order # <<>>
  PROVE  /\ Head(order) \in Id /\ Head(order) \in Queued /\ Head(order) \in ToSet(active)
         /\ ~failed /\ DOMAIN state = Queued /\ ~state[Head(order)].finished
         /\ state[Head(order)] \in [prefilled : 0 .. Prompt[Head(order)], output : 0 .. MaxNew[Head(order)],
                                  resident : BOOLEAN, finished : BOOLEAN]
         /\ Prompt[Head(order)] \in Nat \ {0} /\ MaxNew[Head(order)] \in Nat \ {0}
<1>1. QueuesOK /\ StepOK
  BY Parts
<1>2. order \in Seq(Id) /\ ToSet(order) \subseteq ToSet(active)
  BY <1>1 DEF QueuesOK
<1>3. Head(order) \in Id /\ Head(order) \in ToSet(order)
  BY <1>2, TailQueue
<1>4. Head(order) \in ToSet(active) /\ Head(order) \in Queued
  BY <1>2, <1>3 DEF Queued
<1>5. ~failed /\ ~state[Head(order)].finished
  BY <1>1, <1>3 DEF StepOK
<1>6. /\ DOMAIN state = Queued
      /\ state[Head(order)] \in [prefilled : 0 .. Prompt[Head(order)], output : 0 .. MaxNew[Head(order)],
                               resident : BOOLEAN, finished : BOOLEAN]
  BY <1>1, <1>4 DEF QueuesOK
<1>. QED
  BY <1>3, <1>4, <1>5, <1>6, Constants

LEMMA RestoreKeeps ==
  ASSUME EngineInv, Restore
  PROVE  EngineInv' /\ Streams' = Streams
<1>0. QueuesOK /\ BatchOK /\ StepOK /\ ProgressOK /\ KVOK /\ ReservedOK /\ StreamsOK
  BY Parts
<1>1. PICK id : id = Head(order)
  OBVIOUS
<1>2. /\ at = "work" /\ at' = at /\ order # <<>> /\ order' = order /\ finish' = finish
      /\ seen' = seen /\ waiting' = waiting /\ active' = active /\ failed' = failed
      /\ reserved' = reserved /\ held' = held /\ ~state[id].resident
      /\ slots' = slots /\ budget' = budget /\ UNCHANGED <<seen, eventVars>>
  BY <1>1 DEF Restore, Working, stepVars
<1>3. PICK reused \in 0 .. Prompt[id] - 1 :
         /\ live' = With(live, id, reused)
         /\ state' = [state EXCEPT ![id].resident = TRUE, ![id].prefilled = reused]
  BY <1>1 DEF Restore
<1>4. /\ id \in Id /\ id \in Queued /\ id \in ToSet(active) /\ DOMAIN state = Queued /\ ~state[id].finished
      /\ state[id] \in [prefilled : 0 .. Prompt[id], output : 0 .. MaxNew[id], resident : BOOLEAN, finished : BOOLEAN]
      /\ finish = ""
  BY <1>0, <1>2, <1>1, AtHead DEF StepOK
<1>5. Prompt[id] \in Nat \ {0} /\ MaxNew[id] \in Nat \ {0}
  BY <1>4, Constants
<1>6. state[id].prefilled = 0 /\ state[id].output = 0
  BY <1>0, <1>2, <1>4 DEF ProgressOK
<1>. DEFINE r == [state[id] EXCEPT !.resident = TRUE, !.prefilled = reused]
<1>7. /\ r \in [prefilled : 0 .. Prompt[id], output : 0 .. MaxNew[id], resident : BOOLEAN, finished : BOOLEAN]
      /\ r.resident /\ ~r.finished /\ r.output = 0 /\ r.prefilled = reused
      /\ state' = [state EXCEPT ![id] = r] /\ state'[id] = r /\ reused \in Nat
  <2>1. reused \in 0 .. Prompt[id] /\ reused \in Nat
    BY <1>5
  <2>2. r \in [prefilled : 0 .. Prompt[id], output : 0 .. MaxNew[id], resident : BOOLEAN, finished : BOOLEAN]
    BY <1>4, <2>1
  <2>3. r.resident /\ r.finished = state[id].finished /\ r.output = state[id].output /\ r.prefilled = reused
    BY <1>4
  <2>4. state' = [state EXCEPT ![id] = r] /\ state'[id] = r
    BY <1>3, <1>4
  <2>. HIDE DEF r
  <2>. QED
    BY <1>4, <1>6, <2>1, <2>2, <2>3, <2>4
<1>. HIDE DEF r
<1>8. reused = KVLength(id)'
  <2>1. state'[id].output = 0 /\ state'[id].prefilled = reused
    BY <1>7, Zenon
  <2>. QED
    BY <2>1, Zenon DEF KVLength
<1>9. /\ DOMAIN live' = DOMAIN live \cup {id} /\ live'[id] = reused
      /\ \A i \in DOMAIN live \ {id} : live'[i] = live[i]
  BY <1>3 DEF With
<1>10. Serves(id, r, budget, reused)
  <2>1. budget \in 0 .. TokenBudget
    BY <1>0 DEF BatchOK
  <2>2. r.output < MaxNew[id] /\ (r.output > 0 => r.prefilled = Prompt[id])
    <3>1. 0 < MaxNew[id] /\ ~(0 > 0)
      BY <1>5
    <3>. QED
      BY <1>7, <3>1, Zenon
  <2>3. at' = "work" /\ at' # "sample" /\ finish' = "" /\ finish' \in {"", "Eos", "Length"}
    BY <1>2, <1>4
  <2>4. at \in {"work", "sample"} /\ at' \in {"work", "sample"} /\ id = Head(order)
    BY <1>2, <1>1
  <2>. QED
    BY <1>2, <1>7, <1>8, <1>9, <2>1, <2>2, <2>3, <2>4, Zenon DEF Serves
<1>11. Steady' /\ Unfinished(Queued)' = Unfinished(Queued) /\ \A i \in Queued \ {id} : Emitted(i)' = Emitted(i)
  BY <1>0, <1>10, ServedKeeps DEF Steady
<1>12. Emitted(id)' = Emitted(id)
  <2>1. ~LastToken(id) /\ ~LastToken(id)'
    BY <1>2 DEF LastToken
  <2>2. state'[id].output = state[id].output
    BY <1>6, <1>7, Zenon
  <2>. QED
    BY <2>1, <2>2, Zenon DEF Emitted
<1>13. StreamsOK' /\ Streams' = Streams
  <2>1. \A i \in Unfinished(Queued) : Emitted(i)' = Emitted(i)
    BY <1>11, <1>12, Zenon DEF Unfinished
  <2>. QED
    BY <1>0, <1>2, <1>11, <2>1, QuietStreams
<1>. QED
  BY <1>11, <1>13 DEF EngineInv, Steady

\* A request gets no more input than it lacks or the budget has left.
LEMMA TakeInputFits ==
  ASSUME NEW lacking \in Nat, NEW remaining \in Nat
  PROVE  /\ TakeInput(FALSE, lacking, remaining) \in Nat
         /\ TakeInput(FALSE, lacking, remaining) <= lacking
         /\ TakeInput(FALSE, lacking, remaining) <= remaining
<1>. DEFINE S == {lacking, PrefillChunk, remaining}
<1>1. S \in SUBSET Nat /\ S # {} /\ S \in SUBSET Int
  BY Constants
<1>. HIDE DEF S
<1>2. PICK m \in S : \A x \in S : m <= x
  BY <1>1, LeastNatural
<1>3. Min(S) = m
  BY <1>1, <1>2, Least
<1>4. m \in Nat /\ m <= lacking /\ m <= remaining
  BY <1>1, <1>2 DEF S
<1>5. TakeInput(FALSE, lacking, remaining) = Min(S)
  BY DEF TakeInput, S
<1>. QED
  BY <1>3, <1>4, <1>5

LEMMA ForwardKeeps ==
  ASSUME EngineInv, Forward
  PROVE  EngineInv' /\ Streams' = Streams
<1>0. QueuesOK /\ BatchOK /\ StepOK /\ ProgressOK /\ KVOK /\ ReservedOK /\ StreamsOK
  BY Parts
<1>1. PICK id : id = Head(order)
  OBVIOUS
<1>2. /\ at = "work" /\ order # <<>> /\ budget > 0
      /\ seen' = seen /\ waiting' = waiting /\ active' = active /\ failed' = failed
      /\ slots' = slots /\ reserved' = reserved /\ held' = held /\ finish' = finish
      /\ state[id].resident /\ UNCHANGED <<seen, eventVars>>
  BY <1>1 DEF Forward, Working
<1>3. PICK count, prefill :
         /\ count = TakeInput(state[id].output > 0, Prompt[id] - state[id].prefilled, budget)
         /\ prefill = IF state[id].output > 0 THEN 0 ELSE count
  OBVIOUS
<1>4. /\ live' = [live EXCEPT ![id] = @ + count]
      /\ state' = [state EXCEPT ![id].prefilled = @ + prefill]
      /\ budget' = budget - count
      /\ IF state[id].prefilled + prefill < Prompt[id]
         THEN order' = Tail(order) /\ at' = at
         ELSE order' = order /\ at' = "sample"
  BY <1>1, <1>3 DEF Forward
<1>5. /\ id \in Id /\ id \in Queued /\ id \in ToSet(active) /\ DOMAIN state = Queued /\ ~state[id].finished
      /\ state[id] \in [prefilled : 0 .. Prompt[id], output : 0 .. MaxNew[id], resident : BOOLEAN, finished : BOOLEAN]
      /\ finish = ""
  BY <1>0, <1>1, <1>2, AtHead DEF StepOK
<1>6. Prompt[id] \in Nat \ {0} /\ MaxNew[id] \in Nat \ {0}
  BY <1>5, Constants
<1>7. PICK p, o : p = state[id].prefilled /\ o = state[id].output
  OBVIOUS
<1>8. p \in 0 .. Prompt[id] /\ o \in 0 .. MaxNew[id] /\ p \in Nat /\ o \in Nat /\ budget \in Nat
  <2>1. p \in 0 .. Prompt[id] /\ o \in 0 .. MaxNew[id]
    BY <1>5, <1>7
  <2>2. budget \in 0 .. TokenBudget /\ TokenBudget \in Nat
    BY <1>0, Constants DEF BatchOK
  <2>. QED
    BY <1>6, <2>1, <2>2
<1>9. o < MaxNew[id] /\ (o > 0 => p = Prompt[id])
  <2>1. ~LastToken(id)
    BY <1>2 DEF LastToken
  <2>. QED
    BY <1>0, <1>5, <1>7, <2>1 DEF ProgressOK
<1>10. /\ count \in Nat /\ prefill \in Nat /\ p + prefill \in 0 .. Prompt[id] /\ budget - count \in 0 .. TokenBudget
       /\ (o > 0 => p + prefill = Prompt[id] /\ count = 1) /\ (o = 0 => prefill = count)
  <2>1. budget \in 0 .. TokenBudget /\ TokenBudget \in Nat
    BY <1>0, Constants DEF BatchOK
  <2>2. CASE o > 0
    <3>1. count = TakeInput(TRUE, Prompt[id] - p, budget) /\ prefill = 0
      BY <1>3, <1>7, <2>2
    <3>2. count = 1
      BY <3>1 DEF TakeInput
    <3>3. p + 0 = Prompt[id] /\ p + 0 \in 0 .. Prompt[id] /\ budget - 1 \in 0 .. TokenBudget
      BY <1>2, <1>6, <1>8, <1>9, <2>1, <2>2
    <3>4. 1 \in Nat /\ 0 \in Nat /\ o # 0
      BY <1>8, <2>2
    <3>. QED
      BY <3>1, <3>2, <3>3, <3>4, Zenon
  <2>3. CASE ~(o > 0)
    <3>0. (o > 0) = FALSE
      BY <1>8, <2>3
    <3>1. count = TakeInput(FALSE, Prompt[id] - p, budget) /\ prefill = count
      BY <1>3, <1>7, <3>0, Zenon
    <3>2. Prompt[id] - p \in Nat
      BY <1>6, <1>8
    <3>3. count \in Nat /\ count <= Prompt[id] - p /\ count <= budget
      BY <1>8, <3>1, <3>2, TakeInputFits
    <3>4. p + count \in 0 .. Prompt[id] /\ budget - count \in 0 .. TokenBudget
      BY <1>6, <1>8, <2>1, <3>3
    <3>. QED
      BY <2>3, <3>1, <3>3, <3>4, Zenon
  <2>. QED
    BY <2>2, <2>3
<1>. DEFINE r == [state[id] EXCEPT !.prefilled = p + prefill]
<1>11. /\ r \in [prefilled : 0 .. Prompt[id], output : 0 .. MaxNew[id], resident : BOOLEAN, finished : BOOLEAN]
       /\ r.resident /\ ~r.finished /\ r.output = o /\ r.prefilled = p + prefill
       /\ state' = [state EXCEPT ![id] = r] /\ state'[id] = r
  <2>1. r \in [prefilled : 0 .. Prompt[id], output : 0 .. MaxNew[id], resident : BOOLEAN, finished : BOOLEAN]
    BY <1>5, <1>10
  <2>2. r.resident /\ ~r.finished /\ r.output = state[id].output /\ r.prefilled = p + prefill
    BY <1>2, <1>5
  <2>3. state' = [state EXCEPT ![id] = r] /\ state'[id] = r
    BY <1>4, <1>5, <1>7
  <2>. HIDE DEF r
  <2>. QED
    BY <1>7, <2>1, <2>2, <2>3, Zenon
<1>. HIDE DEF r
<1>12. PICK v : v = live[id]
  OBVIOUS
<1>13. v \in Nat /\ id \in DOMAIN live /\ v = IF o = 0 THEN p ELSE Prompt[id] + o - 1
  <2>1. id \in DOMAIN live /\ live[id] = KVLength(id)
    BY <1>0, <1>2, <1>5 DEF KVOK
  <2>2. KVLength(id) = IF o = 0 THEN p ELSE Prompt[id] + o - 1
    BY <1>2, <1>7 DEF KVLength
  <2>3. live[id] \in Nat
    BY <1>0, <2>1 DEF QueuesOK
  <2>. QED
    BY <1>12, <2>1, <2>2, <2>3, Zenon
<1>14. /\ DOMAIN live' = DOMAIN live \cup {id} /\ live'[id] = v + count
       /\ \A i \in DOMAIN live \ {id} : live'[i] = live[i]
  BY <1>4, <1>12, <1>13
<1>15. v + count \in Nat /\ v + count = KVLength(id)'
  <2>1. v + count \in Nat
    BY <1>10, <1>13
  <2>2. CASE o = 0
    <3>1. v + count = p + prefill
      BY <1>8, <1>10, <1>13, <2>2
    <3>2. state'[id].output = 0 /\ state'[id].prefilled = p + prefill
      BY <1>11, <2>2, Zenon
    <3>3. KVLength(id)' = state'[id].prefilled
      BY <3>2, Zenon DEF KVLength
    <3>. QED
      BY <2>1, <3>1, <3>2, <3>3, Zenon
  <2>3. CASE o # 0
    <3>1. o > 0 /\ p + prefill = Prompt[id] /\ count = 1
      BY <1>8, <1>10, <2>3
    <3>2. at' = "sample" /\ order' = order
      BY <1>4, <1>6, <1>7, <3>1
    <3>3. KVLength(id)' = Prompt[id] + state'[id].output - 0
      <4>1. state'[id].output # 0
        BY <1>11, <2>3, Zenon
      <4>2. at' = "sample" /\ finish' = "" /\ order' # <<>> /\ Head(order') = id
        BY <1>1, <1>2, <1>5, <3>2
      <4>. QED
        BY <4>1, <4>2, Zenon DEF KVLength
    <3>4. KVLength(id)' = Prompt[id] + o - 0
      BY <1>11, <3>3, Zenon
    <3>5. v + count = Prompt[id] + o - 0
      BY <1>6, <1>8, <1>13, <2>3, <3>1
    <3>. QED
      BY <2>1, <3>4, <3>5, Zenon
  <2>. QED
    BY <2>2, <2>3
<1>16. PICK b : b = budget - count
  OBVIOUS
<1>17. Serves(id, r, b, v + count)
  <2>1. b \in 0 .. TokenBudget /\ budget' = b
    BY <1>4, <1>10, <1>16, Zenon
  <2>2. r.output < MaxNew[id] /\ (r.output > 0 => r.prefilled = Prompt[id])
    BY <1>9, <1>10, <1>11, Zenon
  <2>3. at' = "work" => finish' = ""
    BY <1>2, <1>5
  <2>4. finish' = "" /\ finish' \in {"", "Eos", "Length"}
    BY <1>2, <1>5
  <2>5. at' = "sample" => Sampling(id)'
    <3>. SUFFICES ASSUME at' = "sample" PROVE Sampling(id)'
      OBVIOUS
    <3>1. ~(p + prefill < Prompt[id])
      BY <1>2, <1>4, <1>7
    <3>2. p + prefill = Prompt[id]
      BY <1>6, <1>10, <3>1
    <3>3. state'[id].prefilled = Prompt[id] /\ state'[id].output < MaxNew[id] /\ state'[id].resident /\ ~state'[id].finished
      BY <1>9, <1>11, <3>2, Zenon
    <3>. QED
      BY <2>4, <3>3, Zenon DEF Sampling
  <2>6. /\ at \in {"work", "sample"}
        /\ (order' = order /\ at' \in {"work", "sample"}) \/ (order' = Tail(order) /\ at' = "work")
    BY <1>2, <1>4
  <2>. QED
    BY <1>1, <1>2, <1>11, <1>14, <1>15, <2>1, <2>2, <2>3, <2>4, <2>5, <2>6, Zenon DEF Serves
<1>18. Steady' /\ Unfinished(Queued)' = Unfinished(Queued) /\ \A i \in Queued \ {id} : Emitted(i)' = Emitted(i)
  BY <1>0, <1>17, ServedKeeps DEF Steady
<1>19. Emitted(id)' = Emitted(id)
  <2>1. ~LastToken(id) /\ ~LastToken(id)'
    BY <1>2, <1>5 DEF LastToken
  <2>2. state'[id].output = state[id].output
    BY <1>7, <1>11, Zenon
  <2>. QED
    BY <2>1, <2>2, Zenon DEF Emitted
<1>20. StreamsOK' /\ Streams' = Streams
  <2>1. \A i \in Unfinished(Queued) : Emitted(i)' = Emitted(i)
    BY <1>18, <1>19, Zenon DEF Unfinished
  <2>. QED
    BY <1>0, <1>2, <1>18, <2>1, QuietStreams
<1>. QED
  BY <1>18, <1>20 DEF EngineInv, Steady

LEMMA SampleKeeps ==
  ASSUME EngineInv, Sample
  PROVE  /\ EngineInv'
         /\ \/ UNCHANGED <<seen, eventVars>>
            \/ \E id \in Unfinished(Queued) :
                  /\ UNCHANGED <<seen, delivered>> /\ Emitted(id) = state[id].output
                  /\ state[id].output + 1 < MaxNew[id]
                  /\ events' = Notified({id}, [token |-> state[id].output + 1, reason |-> ""])
<1>0. QueuesOK /\ BatchOK /\ StepOK /\ ProgressOK /\ KVOK /\ ReservedOK /\ StreamsOK
  BY Parts
<1>1. PICK id : id = Head(order)
  OBVIOUS
<1>2. /\ at = "sample" /\ finish = ""
      /\ seen' = seen /\ waiting' = waiting /\ active' = active /\ failed' = failed
      /\ slots' = slots /\ reserved' = reserved /\ held' = held /\ live' = live
      /\ delivered' = delivered
  BY DEF Sample, runnerVars
<1>3. order # <<>> /\ Sampling(id)
  BY <1>0, <1>1, <1>2 DEF StepOK
<1>4. /\ id \in Id /\ id \in Queued /\ DOMAIN state = Queued /\ ~state[id].finished
      /\ state[id] \in [prefilled : 0 .. Prompt[id], output : 0 .. MaxNew[id], resident : BOOLEAN, finished : BOOLEAN]
  BY <1>1, <1>2, <1>3, AtHead
<1>5. Prompt[id] \in Nat \ {0} /\ MaxNew[id] \in Nat \ {0}
  BY <1>4, Constants
<1>6. PICK o : o = state[id].output
  OBVIOUS
<1>7. o \in Nat /\ o < MaxNew[id] /\ o + 1 \in 0 .. MaxNew[id] /\ o + 1 > 0 /\ o + 1 # 0
      /\ (o + 1 # MaxNew[id] => o + 1 < MaxNew[id])
  <2>1. o \in 0 .. MaxNew[id]
    BY <1>4, <1>6
  <2>2. o < MaxNew[id]
    BY <1>2, <1>3, <1>6 DEF Sampling
  <2>. QED
    BY <1>5, <2>1, <2>2
<1>8. state' = [state EXCEPT ![id].output = o + 1]
  BY <1>1, <1>6 DEF Sample
<1>9. PICK eos \in BOOLEAN :
         IF FinishReason(id, o + 1, eos) = ""
         THEN /\ events' = Notified({id}, [token |-> o + 1, reason |-> ""])
              /\ order' = Tail(order) /\ at' = "work" /\ finish' = finish
         ELSE /\ finish' = FinishReason(id, o + 1, eos)
              /\ events' = events /\ order' = order /\ at' = at
  <2>1. \E eos \in BOOLEAN :
          IF FinishReason(id, o + 1, eos) = ""
          THEN /\ events' = Notified({id}, [token |-> o + 1, reason |-> ""])
               /\ order' = Tail(order) /\ at' = "work" /\ finish' = finish
          ELSE /\ finish' = FinishReason(id, o + 1, eos)
               /\ events' = events /\ order' = order /\ at' = at
    BY <1>1, <1>6 DEF Sample
  <2>. QED
    BY <2>1
<1>10. /\ FinishReason(id, o + 1, eos) \in {"", "Eos", "Length"}
       /\ FinishReason(id, o + 1, eos) = "Length" => o + 1 = MaxNew[id]
       /\ FinishReason(id, o + 1, eos) = "" => o + 1 # MaxNew[id]
  BY DEF FinishReason
<1>. DEFINE r == [state[id] EXCEPT !.output = o + 1]
<1>11. /\ r \in [prefilled : 0 .. Prompt[id], output : 0 .. MaxNew[id], resident : BOOLEAN, finished : BOOLEAN]
       /\ r.resident /\ ~r.finished /\ r.output = o + 1 /\ r.prefilled = Prompt[id]
       /\ state' = [state EXCEPT ![id] = r] /\ state'[id] = r
  <2>1. r \in [prefilled : 0 .. Prompt[id], output : 0 .. MaxNew[id], resident : BOOLEAN, finished : BOOLEAN]
    BY <1>4, <1>7
  <2>2. r.resident = state[id].resident /\ r.finished = state[id].finished
        /\ r.output = o + 1 /\ r.prefilled = state[id].prefilled
    BY <1>4
  <2>3. state' = [state EXCEPT ![id] = r] /\ state'[id] = r
    BY <1>4, <1>8
  <2>4. state[id].resident /\ ~state[id].finished /\ state[id].prefilled = Prompt[id]
    BY <1>3 DEF Sampling
  <2>. HIDE DEF r
  <2>. QED
    BY <2>1, <2>2, <2>3, <2>4, Zenon
<1>. HIDE DEF r
<1>12. PICK v : v = live[id]
  OBVIOUS
<1>13. v \in Nat /\ id \in DOMAIN live /\ v = Prompt[id] + o
  <2>1. id \in DOMAIN live /\ live[id] = KVLength(id)
    BY <1>0, <1>3, <1>4 DEF KVOK, Sampling
  <2>2. KVLength(id) = IF o = 0 THEN state[id].prefilled ELSE Prompt[id] + o - 0
    <3>1. at = "sample" /\ finish = "" /\ order # <<>> /\ Head(order) = id
      BY <1>1, <1>2, <1>3
    <3>. QED
      BY <1>6, <3>1, Zenon DEF KVLength
  <2>3. state[id].prefilled = Prompt[id]
    BY <1>3 DEF Sampling
  <2>4. v = IF o = 0 THEN Prompt[id] ELSE Prompt[id] + o - 0
    BY <1>12, <2>1, <2>2, <2>3, Zenon
  <2>. QED
    BY <1>5, <1>7, <2>1, <2>4
<1>14. /\ finish' \in {"", "Eos", "Length"}
       /\ \/ order' = order /\ at' = "sample" /\ finish' # ""
          \/ order' = Tail(order) /\ at' = "work" /\ finish' = "" /\ o + 1 < MaxNew[id]
       /\ finish' = "Length" => o + 1 = MaxNew[id]
  <2>1. CASE FinishReason(id, o + 1, eos) = ""
    <3>1. o + 1 < MaxNew[id]
      BY <1>7, <1>10, <2>1, Zenon
    <3>. QED
      BY <1>2, <1>9, <2>1, <3>1
  <2>2. CASE FinishReason(id, o + 1, eos) # ""
    BY <1>2, <1>9, <1>10, <2>2
  <2>. QED
    BY <2>1, <2>2
<1>15. v = KVLength(id)'
  <2>1. state'[id].output # 0 /\ state'[id].output = o + 1
    BY <1>7, <1>11, Zenon
  <2>2. ~(at' = "sample" /\ finish' = "" /\ order' # <<>> /\ Head(order') = id)
    BY <1>14
  <2>3. KVLength(id)' = Prompt[id] + (o + 1) - 1
    BY <2>1, <2>2, Zenon DEF KVLength
  <2>4. v = Prompt[id] + (o + 1) - 1
    BY <1>5, <1>7, <1>13
  <2>. QED
    BY <2>3, <2>4, Zenon
<1>16. Serves(id, r, budget, v)
  <2>1. budget \in 0 .. TokenBudget
    BY <1>0 DEF BatchOK
  <2>2. budget' = budget
    BY DEF Sample
  <2>3. at' = "work" => finish' = "" /\ r.output < MaxNew[id]
    BY <1>11, <1>14, Zenon
  <2>4. at' = "sample" => Sampling(id)'
    <3>. SUFFICES ASSUME at' = "sample" PROVE Sampling(id)'
      OBVIOUS
    <3>1. finish' # ""
      BY <1>14
    <3>2. /\ state'[id].prefilled = Prompt[id] /\ state'[id].resident /\ ~state'[id].finished
          /\ state'[id].output > 0 /\ (finish' = "Length" => state'[id].output = MaxNew[id])
      BY <1>7, <1>11, <1>14, Zenon
    <3>. QED
      BY <3>1, <3>2, Zenon DEF Sampling
  <2>5. /\ at \in {"work", "sample"}
        /\ (order' = order /\ at' \in {"work", "sample"}) \/ (order' = Tail(order) /\ at' = "work")
    BY <1>2, <1>14
  <2>6. /\ DOMAIN live' = DOMAIN live \cup {id} /\ live'[id] = v
        /\ \A i \in DOMAIN live \ {id} : live'[i] = live[i]
    BY <1>2, <1>12, <1>13
  <2>. QED
    BY <1>1, <1>2, <1>3, <1>11, <1>13, <1>14, <1>15, <2>1, <2>2, <2>3, <2>4, <2>5, <2>6, Zenon DEF Serves
<1>17. /\ Steady' /\ Unfinished(Queued)' = Unfinished(Queued) /\ id \in Unfinished(Queued)
       /\ \A i \in Queued \ {id} : Emitted(i)' = Emitted(i)
  BY <1>0, <1>16, ServedKeeps DEF Steady
<1>18. Emitted(id) = state[id].output
  <2>1. ~LastToken(id)
    BY <1>2 DEF LastToken
  <2>. QED
    BY <2>1, Zenon DEF Emitted
<1>19. CASE at' = "sample"
  <2>1. events' = events /\ UNCHANGED <<seen, eventVars>>
    <3>1. events' = events
      BY <1>9, <1>19
    <3>. QED
      BY <1>2, <3>1 DEF eventVars
  <2>2. Emitted(id)' = Emitted(id)
    <3>1. LastToken(id)'
      BY <1>1, <1>14, <1>19 DEF LastToken
    <3>2. Emitted(id)' = state'[id].output - 1
      BY <3>1, Zenon DEF Emitted
    <3>3. Emitted(id)' = (o + 1) - 1
      BY <1>11, <3>2, Zenon
    <3>4. (o + 1) - 1 = o
      BY <1>7
    <3>. QED
      BY <1>6, <1>18, <3>3, <3>4, Zenon
  <2>3. \A i \in Unfinished(Queued) : Emitted(i)' = Emitted(i)
    BY <1>17, <2>2, Zenon DEF Unfinished
  <2>4. StreamsOK'
    BY <1>0, <1>17, <2>1, <2>3, QuietStreams
  <2>. QED
    BY <1>17, <2>1, <2>4 DEF EngineInv, Steady
<1>20. CASE at' = "work"
  <2>. DEFINE event == [token |-> o + 1, reason |-> ""]
  <2>1. events' = Notified({id}, event) /\ o + 1 < MaxNew[id]
    BY <1>2, <1>9, <1>14, <1>20
  <2>2. event \in Service!Event /\ event.reason = ""
    BY <1>7 DEF Service!Event
  <2>. HIDE DEF event
  <2>3. /\ events' \in [Id -> Seq(Service!Event)]
        /\ Streams' = [i \in seen |-> IF i \in {id} THEN Append(Streams[i], event) ELSE Streams[i]]
        /\ \A i \in Id \ {id} : events'[i] = events[i]
    BY <1>0, <1>2, <2>1, <2>2, NotifiedStreams
  <2>4. id \in seen
    BY <1>0, <1>4 DEF QueuesOK
  <2>5. Emitted(id)' = o + 1
    <3>1. ~LastToken(id)'
      BY <1>20 DEF LastToken
    <3>2. Emitted(id)' = state'[id].output
      BY <3>1, Zenon DEF Emitted
    <3>. QED
      BY <1>11, <3>2, Zenon
  <2>6. ASSUME NEW i \in seen'
        PROVE  IF i \in Unfinished(Queued)'
               THEN ~Service!Over(Streams'[i]) /\ Len(Streams'[i]) = Emitted(i)'
               ELSE Service!Over(Streams'[i])
    <3>0. IF i \in Unfinished(Queued)
          THEN ~Service!Over(Streams[i]) /\ Len(Streams[i]) = Emitted(i)
          ELSE Service!Over(Streams[i])
      BY <1>0, <1>2, <2>6 DEF StreamsOK, Emitted
    <3>1. CASE i = id
      <4>1. Streams'[i] = Append(Streams[i], event) /\ Streams[i] \in Seq(Service!Event)
        BY <1>0, <2>3, <2>4, <3>1, StreamTypes
      <4>2. Len(Streams[i]) = o
        BY <1>6, <1>17, <1>18, <3>0, <3>1, Zenon
      <4>3. ~Service!Over(Append(Streams[i], event)) /\ Len(Append(Streams[i], event)) = Len(Streams[i]) + 1
        BY <2>2, <4>1, OverAppend
      <4>. QED
        BY <1>17, <2>5, <3>1, <4>1, <4>2, <4>3, Zenon
    <3>2. CASE i # id
      <4>1. Streams'[i] = Streams[i]
        BY <1>2, <2>3, <2>6, <3>2
      <4>2. i \in Unfinished(Queued) => Emitted(i)' = Emitted(i)
        BY <1>17, <3>2 DEF Unfinished
      <4>. QED
        BY <1>17, <3>0, <4>1, <4>2, Zenon
    <3>. QED
      BY <3>1, <3>2
  <2>7. \A i \in Id \ seen' : events'[i] = <<>> /\ delivered'[i] = <<>>
    BY <1>0, <1>2, <2>3, <2>4 DEF StreamsOK
  <2>8. delivered' \in [Id -> Seq(Service!Event)]
    BY <1>0, <1>2 DEF StreamsOK
  <2>9. StreamsOK'
    BY <2>3, <2>6, <2>7, <2>8, Zenon DEF StreamsOK, Emitted
  <2>10. \E i \in Unfinished(Queued) :
            /\ UNCHANGED <<seen, delivered>> /\ Emitted(i) = state[i].output
            /\ state[i].output + 1 < MaxNew[i]
            /\ events' = Notified({i}, [token |-> state[i].output + 1, reason |-> ""])
    <3>1. UNCHANGED <<seen, delivered>>
      BY <1>2
    <3>. QED
      BY <1>6, <1>17, <1>18, <2>1, <3>1, Zenon DEF event
  <2>. QED
    BY <1>17, <2>9, <2>10 DEF EngineInv, Steady
<1>. QED
  BY <1>14, <1>19, <1>20

\* The request id at the head of the plan ends with an event; b is the budget
\* afterwards.
Ends(id, event, b) ==
    /\ at \in {"work", "sample"} /\ order # <<>> /\ id = Head(order)
    /\ state' = Finished({id}) /\ order' = Tail(order) /\ at' = "work" /\ finish' = ""
    /\ live' = Without(live, {id}) /\ reserved' = Without(reserved, {id})
    /\ events' = Notified({id}, event) /\ Ending(event)
    /\ b \in 0 .. TokenBudget /\ budget' = b
    /\ seen' = seen /\ waiting' = waiting /\ active' = active /\ delivered' = delivered
    /\ failed' = failed /\ slots' = slots /\ held' = held

LEMMA EndsKeeps ==
  ASSUME EngineInv, NEW id, NEW event, NEW b, Ends(id, event, b)
  PROVE  EngineInv' /\ id \in Unfinished(Queued)
<1>0. QueuesOK /\ BatchOK /\ StepOK /\ ProgressOK /\ KVOK /\ ReservedOK /\ StreamsOK
  BY Parts
<1>1. /\ at \in {"work", "sample"} /\ order # <<>> /\ id = Head(order)
      /\ order' = Tail(order) /\ at' = "work" /\ finish' = ""
      /\ seen' = seen /\ waiting' = waiting /\ active' = active /\ delivered' = delivered
      /\ slots' = slots /\ held' = held
      /\ live' = Without(live, {id}) /\ reserved' = Without(reserved, {id})
  BY DEF Ends
<1>2. /\ id \in Id /\ id \in Queued /\ id \in ToSet(active) /\ ~failed /\ DOMAIN state = Queued
      /\ ~state[id].finished
      /\ state[id] \in [prefilled : 0 .. Prompt[id], output : 0 .. MaxNew[id], resident : BOOLEAN, finished : BOOLEAN]
  BY <1>1, AtHead
<1>. DEFINE r == [state[id] EXCEPT !.finished = TRUE, !.resident = FALSE]
<1>3. /\ r \in [prefilled : 0 .. Prompt[id], output : 0 .. MaxNew[id], resident : BOOLEAN, finished : BOOLEAN]
      /\ ~r.resident /\ r.finished
  BY <1>2
<1>4. /\ Queued' = Queued /\ DOMAIN state' = Queued /\ state'[id] = r
      /\ \A i \in Queued \ {id} : state'[i] = state[i]
  <2>1. state' = Finished({id})
    BY DEF Ends
  <2>. QED
    BY <1>1, <1>2, <2>1 DEF Queued, Finished
<1>. HIDE DEF r
<1>5. Unfinished(Queued)' = Unfinished(Queued) \ {id} /\ id \in Unfinished(Queued)
      /\ Unfinished(ToSet(active))' = Unfinished(ToSet(active)) \ {id}
  BY <1>1, <1>2, <1>3, <1>4 DEF Unfinished, Queued
<1>6. /\ order' \in Seq(Id) /\ IsInjective(order') /\ ToSet(order') \subseteq ToSet(order) \ {id}
  <2>1. order \in Seq(Id) /\ IsInjective(order)
    BY <1>0 DEF QueuesOK
  <2>. QED
    BY <1>1, <2>1, TailQueue, ZenonT(30)
<1>7. ~failed' /\ failed' \in BOOLEAN
  <2>1. failed \in BOOLEAN /\ failed' = failed
    BY <1>0 DEF QueuesOK, Ends
  <2>. QED
    BY <1>2, <2>1
<1>8. DOMAIN live' = DOMAIN live \ {id} /\ \A i \in DOMAIN live' : live'[i] = live[i]
  BY <1>1 DEF Without
<1>9. QueuesOK'
  <2>1. \A i \in Queued' : state'[i] \in [prefilled : 0 .. Prompt[i], output : 0 .. MaxNew[i],
                                        resident : BOOLEAN, finished : BOOLEAN]
    BY <1>0, <1>3, <1>4 DEF QueuesOK
  <2>2. /\ seen' \subseteq Id /\ waiting' \in Seq(Id) /\ active' \in Seq(Id)
        /\ IsInjective(waiting') /\ IsInjective(active')
        /\ \A i \in ToSet(waiting') : i \notin ToSet(active')
    BY <1>0, <1>1 DEF QueuesOK
  <2>3. DOMAIN state' = Queued' /\ Queued' \subseteq seen' /\ ToSet(order') \subseteq ToSet(active')
    BY <1>0, <1>1, <1>4, <1>6 DEF QueuesOK
  <2>4. \A i \in DOMAIN live' : live'[i] \in Nat
    BY <1>0, <1>8 DEF QueuesOK
  <2>. QED
    BY <1>6, <1>7, <2>1, <2>2, <2>3, <2>4, Zenon DEF QueuesOK
<1>10. BatchOK'
  <2>1. slots = 0 /\ slots \in Nat /\ slots + Len(active) <= MaxBatchSize
    BY <1>0, <1>1 DEF BatchOK
  <2>2. budget' \in 0 .. TokenBudget
    BY DEF Ends
  <2>. QED
    BY <1>1, <2>1, <2>2, Zenon DEF BatchOK
<1>11. StepOK'
  <2>1. \A i \in ToSet(order') : ~state'[i].finished
    BY <1>0, <1>4, <1>6 DEF StepOK, QueuesOK, Queued
  <2>2. at' \in {"outside", "admit", "work", "sample"} /\ at' \notin {"outside", "admit"}
        /\ at' # "sample" /\ finish' = "" /\ finish' \in {"", "Eos", "Length"}
    BY <1>1
  <2>. QED
    BY <1>7, <2>1, <2>2, Zenon DEF StepOK
<1>12. \A i \in Queued \ {id} : ~LastToken(i) /\ ~LastToken(i)'
  BY <1>1 DEF LastToken
<1>13. ProgressOK'
  <2>1. id \notin ToSet(waiting)
    BY <1>0, <1>2 DEF QueuesOK
  <2>2. ASSUME NEW i \in ToSet(active)
        PROVE  IF state'[i].finished THEN ~state'[i].resident
               ELSE /\ ~state'[i].resident => state'[i].prefilled = 0 /\ state'[i].output = 0
                    /\ state'[i].output > 0 => state'[i].prefilled = Prompt[i]
                    /\ ~LastToken(i)' => state'[i].output < MaxNew[i]
    <3>1. CASE i = id
      BY <1>3, <1>4, <3>1
    <3>2. CASE i # id
      <4>1. state'[i] = state[i] /\ ~LastToken(i) /\ ~LastToken(i)'
        BY <1>4, <1>12, <3>2 DEF Queued
      <4>. QED
        BY <1>0, <4>1 DEF ProgressOK
    <3>. QED
      BY <3>1, <3>2
  <2>3. \A i \in ToSet(waiting) : state'[i] = state[i]
    BY <1>4, <2>1 DEF Queued
  <2>. QED
    BY <1>0, <1>1, <2>2, <2>3 DEF ProgressOK
<1>14. KVOK'
  <2>1. ASSUME NEW i \in Queued \ {id} PROVE KVLength(i)' = KVLength(i)
    <3>1. ~(at = "sample" /\ finish = "" /\ order # <<>> /\ Head(order) = i)
      BY <1>1
    <3>2. ~(at' = "sample" /\ finish' = "" /\ order' # <<>> /\ Head(order') = i)
      BY <1>1
    <3>3. state'[i] = state[i]
      BY <1>4
    <3>4. KVLength(i) = IF state[i].output = 0 THEN state[i].prefilled ELSE Prompt[i] + state[i].output - 1
      BY <3>1, Zenon DEF KVLength
    <3>5. KVLength(i)' = IF state'[i].output = 0 THEN state'[i].prefilled ELSE Prompt[i] + state'[i].output - 1
      BY <3>2 DEF KVLength
    <3>. QED
      BY <3>3, <3>4, <3>5
  <2>2. ASSUME NEW i \in Queued, state'[i].resident
        PROVE  i \in DOMAIN live' /\ live'[i] = KVLength(i)'
    <3>1. i # id
      BY <1>3, <1>4, <2>2
    <3>2. state[i].resident
      BY <1>4, <2>2, <3>1
    <3>3. i \in DOMAIN live /\ live[i] = KVLength(i)
      BY <1>0, <3>2 DEF KVOK
    <3>. QED
      BY <1>8, <2>1, <3>1, <3>3
  <2>3. DOMAIN live' = {i \in Queued : state'[i].resident}
    <3>1. DOMAIN live = {i \in Queued : state[i].resident}
      BY <1>0, <1>2 DEF KVOK
    <3>. QED
      BY <1>3, <1>4, <1>8, <3>1
  <2>. QED
    BY <1>4, <2>2, <2>3 DEF KVOK
<1>15. ReservedOK'
  <2>1. ReservedPages' \in Nat /\ ReservedPages' <= ReservedPages /\ ReservedPages \in Nat
    BY <1>0, <1>1, FewerReserved, ReservedTypes
  <2>2. held \in Nat /\ held + ReservedPages <= TotalPages /\ TotalPages \in Nat
    BY <1>0, Constants DEF ReservedOK
  <2>3. held + ReservedPages' <= TotalPages
    BY <2>1, <2>2, LessFits, Zenon
  <2>4. held' + ReservedPages' <= TotalPages /\ held' \in Nat
    BY <1>1, <2>2, <2>3, Zenon
  <2>5. DOMAIN reserved' = DOMAIN reserved \ {id} /\ \A i \in DOMAIN reserved' : reserved'[i] = reserved[i]
    BY <1>1 DEF Without
  <2>. QED
    BY <1>0, <1>5, <2>4, <2>5 DEF ReservedOK
<1>16. StreamsOK'
  <2>1. \A i \in Unfinished(Queued) \ {id} : Emitted(i)' = Emitted(i)
    BY <1>4, <1>12 DEF Emitted, Unfinished
  <2>2. {id} \in SUBSET Unfinished(Queued) /\ Ending(event) /\ events' = Notified({id}, event)
    BY <1>5 DEF Ends
  <2>. QED
    BY <1>0, <1>1, <1>5, <2>1, <2>2, TerminalStreams
<1>. QED
  BY <1>5, <1>9, <1>10, <1>11, <1>13, <1>14, <1>15, <1>16 DEF EngineInv

LEMMA FinishKeeps ==
  ASSUME EngineInv, Finish
  PROVE  /\ EngineInv'
         /\ \E id \in Unfinished(Queued) :
               /\ UNCHANGED <<seen, delivered>> /\ Emitted(id) = state[id].output - 1 /\ state[id].output > 0
               /\ finish \in {"Eos", "Length"} /\ (finish = "Length" => state[id].output = MaxNew[id])
               /\ events' = Notified({id}, [token |-> state[id].output, reason |-> finish])
<1>0. BatchOK /\ StepOK /\ QueuesOK
  BY Parts
<1>1. PICK id : id = Head(order)
  OBVIOUS
<1>2. at = "sample" /\ finish # ""
  BY DEF Finish
<1>3. order # <<>> /\ Sampling(id) /\ finish \in {"Eos", "Length"}
  BY <1>0, <1>1, <1>2 DEF StepOK
<1>4. id \in Queued /\ state[id].output \in Nat /\ state[id].output > 0
      /\ (finish = "Length" => state[id].output = MaxNew[id])
  <2>1. id \in Queued /\ id \in Id
    BY <1>1, <1>2, <1>3, AtHead
  <2>2. state[id].output \in 0 .. MaxNew[id] /\ MaxNew[id] \in Nat
    BY <1>0, <2>1, QueueTypes, Constants
  <2>3. state[id].output > 0 /\ (finish = "Length" => state[id].output = MaxNew[id])
    BY <1>2, <1>3 DEF Sampling
  <2>. QED
    BY <2>1, <2>2, <2>3
<1>. DEFINE event == [token |-> state[id].output, reason |-> finish]
<1>5. Ending(event)
  BY <1>2, <1>3, <1>4 DEF Ending, Service!Event
<1>6. events' = Notified({id}, event)
  BY <1>1 DEF Finish, Terminal
<1>. HIDE DEF event
<1>7. Ends(id, event, budget)
  <2>1. budget \in 0 .. TokenBudget
    BY <1>0 DEF BatchOK
  <2>2. /\ state' = Finished({id}) /\ order' = Tail(order) /\ at' = "work" /\ finish' = ""
        /\ live' = Without(live, {id}) /\ reserved' = Without(reserved, {id}) /\ budget' = budget
        /\ seen' = seen /\ waiting' = waiting /\ active' = active /\ delivered' = delivered
        /\ failed' = failed /\ slots' = slots /\ held' = held
    BY <1>1 DEF Finish, Terminal
  <2>3. at \in {"work", "sample"}
    BY <1>2
  <2>. QED
    BY <1>1, <1>3, <1>5, <1>6, <2>1, <2>2, <2>3, Zenon DEF Ends
<1>8. EngineInv' /\ id \in Unfinished(Queued)
  BY <1>7, EndsKeeps
<1>9. Emitted(id) = state[id].output - 1
  <2>1. LastToken(id)
    BY <1>1, <1>2 DEF LastToken
  <2>. QED
    BY <2>1, Zenon DEF Emitted
<1>10. UNCHANGED <<seen, delivered>>
  BY DEF Finish
<1>. QED
  BY <1>3, <1>4, <1>6, <1>8, <1>9, <1>10, Zenon DEF event

LEMMA IsolateKeeps ==
  ASSUME EngineInv, Isolate
  PROVE  /\ EngineInv'
         /\ \E id \in Unfinished(Queued) :
               UNCHANGED <<seen, delivered>> /\ events' = Notified({id}, Aborted("Error"))
<1>0. BatchOK /\ StepOK /\ QueuesOK
  BY Parts
<1>1. PICK id : id = Head(order)
  OBVIOUS
<1>2. at = "work" /\ order # <<>> /\ budget > 0
  BY DEF Isolate, Working
<1>3. PICK count : count = TakeInput(state[id].output > 0, Prompt[id] - state[id].prefilled, budget)
  OBVIOUS
<1>4. budget \in 0 .. TokenBudget /\ budget \in Nat
  BY <1>0, Constants DEF BatchOK
<1>5. budget - count \in 0 .. TokenBudget
  <2>1. TokenBudget \in Nat
    BY Constants
  <2>2. count \in Nat /\ count <= budget
    <3>1. CASE state[id].output > 0
      <4>1. count = 1
        BY <1>3, <3>1 DEF TakeInput
      <4>2. 1 \in Nat /\ 1 <= budget
        BY <1>2, <1>4
      <4>. QED
        BY <4>1, <4>2, Zenon
    <3>2. CASE ~(state[id].output > 0)
      <4>1. id \in Queued /\ id \in Id
        BY <1>1, <1>2, AtHead
      <4>2. state[id].prefilled \in 0 .. Prompt[id] /\ state[id].output \in Nat /\ Prompt[id] \in Nat
        BY <1>0, <4>1, QueueTypes, Constants
      <4>3. Prompt[id] - state[id].prefilled \in Nat /\ (state[id].output > 0) = FALSE
        BY <3>2, <4>2
      <4>4. count = TakeInput(FALSE, Prompt[id] - state[id].prefilled, budget)
        BY <1>3, <4>3, Zenon
      <4>. QED
        BY <1>4, <4>3, <4>4, TakeInputFits
    <3>. QED
      BY <3>1, <3>2
  <2>. QED
    BY <1>4, <2>1, <2>2
<1>6. PICK b : b = IF state[id].resident THEN budget - count ELSE budget
  OBVIOUS
<1>7. b \in 0 .. TokenBudget
  BY <1>4, <1>5, <1>6
<1>8. events' = Notified({id}, Aborted("Error"))
  BY <1>1 DEF Isolate, Terminal
<1>9. Ends(id, Aborted("Error"), b)
  <2>1. /\ state' = Finished({id}) /\ order' = Tail(order) /\ at' = at /\ finish' = finish
        /\ live' = Without(live, {id}) /\ reserved' = Without(reserved, {id})
        /\ seen' = seen /\ waiting' = waiting /\ active' = active /\ delivered' = delivered
        /\ failed' = failed /\ slots' = slots /\ held' = held
    BY <1>1 DEF Isolate, Terminal
  <2>2. budget' = b
    BY <1>1, <1>3, <1>6 DEF Isolate
  <2>3. at' = "work" /\ finish' = "" /\ at \in {"work", "sample"}
    BY <1>0, <1>2, <2>1 DEF StepOK
  <2>. QED
    BY <1>1, <1>2, <1>7, <1>8, <2>1, <2>2, <2>3, AbortedEnds, Zenon DEF Ends
<1>10. UNCHANGED <<seen, delivered>>
  BY DEF Isolate
<1>. QED
  BY <1>8, <1>9, <1>10, EndsKeeps

LEMMA EndStepKeeps ==
  ASSUME EngineInv, EndStep
  PROVE  EngineInv' /\ Streams' = Streams
<1>0. QueuesOK /\ BatchOK /\ StepOK /\ ProgressOK /\ KVOK /\ ReservedOK /\ StreamsOK
  BY Parts
<1>1. PICK done : done = {id \in ToSet(active) : state[id].finished}
  OBVIOUS
<1>2. /\ at = "work" /\ at' = "outside" /\ order' = <<>> /\ finish' = finish /\ slots' = slots
      /\ seen' = seen /\ waiting' = waiting /\ live' = live /\ reserved' = reserved /\ held' = held
      /\ active' = Removed(active, done) /\ state' = Without(state, done)
      /\ UNCHANGED <<seen, eventVars>>
  BY <1>1 DEF EndStep, runnerVars
<1>3. finish = "" /\ ~failed /\ slots = 0
  BY <1>0, <1>2 DEF StepOK, BatchOK
<1>4. ~failed' /\ failed' \in BOOLEAN
  <2>1. failed \in BOOLEAN /\ failed' = failed
    BY <1>0 DEF QueuesOK, EndStep
  <2>. QED
    BY <1>3, <2>1
<1>5. active' \in Seq(Id) /\ IsInjective(active') /\ Len(active') <= Len(active) /\ ToSet(active') = ToSet(active) \ done
  BY <1>0, <1>2, RemovedShrinks DEF QueuesOK, Shrunk
<1>6. /\ Queued' = Queued \ done /\ DOMAIN state' = Queued' /\ \A id \in Queued' : state'[id] = state[id]
      /\ \A id \in Queued' : ~state'[id].finished
  <2>1. done \cap ToSet(waiting) = {} /\ \A id \in ToSet(waiting) : ~state[id].finished
    BY <1>0, <1>1 DEF QueuesOK, ProgressOK
  <2>. QED
    BY <1>0, <1>1, <1>2, <1>5, <2>1 DEF Queued, QueuesOK, Without
<1>7. /\ Unfinished(Queued)' = Unfinished(Queued)
      /\ Unfinished(ToSet(active))' = Unfinished(ToSet(active))
  BY <1>1, <1>5, <1>6 DEF Unfinished, Queued
<1>8. QueuesOK'
  <2>1. <<>> \in Seq(Id) /\ IsInjective(<<>>) /\ ToSet(<<>>) = {}
    BY EmptyQueue
  <2>2. \A i \in Queued' : state'[i] \in [prefilled : 0 .. Prompt[i], output : 0 .. MaxNew[i],
                                        resident : BOOLEAN, finished : BOOLEAN]
    BY <1>0, <1>6 DEF QueuesOK
  <2>3. order' \in Seq(Id) /\ IsInjective(order') /\ ToSet(order') = {}
    BY <1>2, <2>1, Zenon
  <2>. QED
    BY <1>0, <1>2, <1>4, <1>5, <1>6, <2>2, <2>3 DEF QueuesOK
<1>9. BatchOK'
  <2>1. Len(active) \in Nat /\ Len(active') \in Nat
    BY <1>0, <1>5, LenProperties DEF QueuesOK
  <2>2. 0 \in Nat /\ 0 + Len(active') <= MaxBatchSize /\ 0 \in 0 .. TokenBudget
    <3>1. Len(active) <= MaxBatchSize
      BY <1>0, <2>1, Constants DEF BatchOK
    <3>2. Len(active') <= Len(active)
      BY <1>5
    <3>. QED
      BY <2>1, <3>1, <3>2, Constants
  <2>3. slots' = 0 /\ budget' = 0
    BY <1>2, <1>3, Zenon DEF EndStep
  <2>. QED
    BY <2>2, <2>3, Zenon DEF BatchOK
<1>10. StepOK'
  <2>1. ToSet(order') = {} /\ finish' = ""
    BY <1>2, <1>3, EmptyQueue
  <2>. QED
    BY <1>2, <1>4, <1>6, <2>1 DEF StepOK
<1>11. \A id \in Id : ~LastToken(id) /\ ~LastToken(id)'
  BY <1>2, <1>3 DEF LastToken
<1>12. ProgressOK'
  <2>1. ToSet(active') \subseteq Id /\ ToSet(active') \subseteq ToSet(active) /\ ToSet(waiting) \subseteq Queued' /\ ToSet(active') \subseteq Queued'
    BY <1>0, <1>2, <1>5, QueueTypes DEF Queued
  <2>. QED
    BY <1>0, <1>2, <1>6, <1>11, <2>1 DEF ProgressOK
<1>13. KVOK'
  <2>1. ASSUME NEW i \in Queued' PROVE KVLength(i)' = KVLength(i)
    <3>1. state'[i] = state[i]
      BY <1>6
    <3>2. KVLength(i) = IF state[i].output = 0 THEN state[i].prefilled ELSE Prompt[i] + state[i].output - 1
      BY <1>2 DEF KVLength
    <3>3. KVLength(i)' = IF state'[i].output = 0 THEN state'[i].prefilled ELSE Prompt[i] + state'[i].output - 1
      BY <1>2 DEF KVLength
    <3>. QED
      BY <3>1, <3>2, <3>3
  <2>2. ASSUME NEW i \in Queued', state'[i].resident
        PROVE  i \in DOMAIN live' /\ live'[i] = KVLength(i)'
    <3>1. i \in Queued /\ state[i].resident
      BY <1>6, <2>2
    <3>. QED
      BY <1>0, <1>2, <2>1, <3>1 DEF KVOK
  <2>3. DOMAIN live' = {i \in Queued' : state'[i].resident}
    <3>1. DOMAIN live = {i \in Queued : state[i].resident}
      BY <1>0, <1>3 DEF KVOK
    <3>2. \A i \in done : ~state[i].resident
      BY <1>0, <1>1 DEF ProgressOK
    <3>. QED
      BY <1>2, <1>6, <3>1, <3>2
  <2>. QED
    BY <2>2, <2>3 DEF KVOK
<1>14. ReservedOK'
  <2>1. ReservedPages' = ReservedPages
    BY <1>2 DEF ReservedPages
  <2>. QED
    BY <1>0, <1>2, <1>7, <2>1, Zenon DEF ReservedOK
<1>15. StreamsOK' /\ Streams' = Streams
  <2>1. Unfinished(Queued) \subseteq Queued' /\ Unfinished(Queued) \subseteq Id
    BY <1>0, <1>1, <1>6, QueueTypes DEF Unfinished, Queued
  <2>2. \A i \in Unfinished(Queued) : Emitted(i)' = Emitted(i)
    BY <1>6, <1>11, <2>1 DEF Emitted
  <2>. QED
    BY <1>0, <1>2, <1>7, <2>2, QuietStreams
<1>. QED
  BY <1>8, <1>9, <1>10, <1>12, <1>13, <1>14, <1>15 DEF EngineInv

LEMMA FatalKeeps ==
  ASSUME EngineInv, Fatal
  PROVE  EngineInv'
<1>0. QueuesOK /\ BatchOK /\ StepOK /\ ProgressOK /\ KVOK /\ ReservedOK /\ StreamsOK
  BY Parts
<1>1. /\ failed' = TRUE /\ waiting' = <<>> /\ active' = <<>> /\ state' = <<>> /\ at' = "outside"
      /\ order' = <<>> /\ finish' = "" /\ seen' = seen /\ delivered' = delivered
      /\ live' = <<>> \/ live' = live
      /\ reserved' = Without(reserved, Unfinished(Queued))
      /\ events' = Notified(Unfinished(Queued), Aborted("Error"))
  BY DEF Fatal
<1>2. /\ waiting' \in Seq(Id) /\ active' \in Seq(Id) /\ order' \in Seq(Id)
      /\ IsInjective(waiting') /\ IsInjective(active') /\ IsInjective(order')
      /\ ToSet(waiting') = {} /\ ToSet(active') = {} /\ ToSet(order') = {}
      /\ DOMAIN state' = {} /\ Len(active') = 0
  BY <1>1, EmptyQueue
<1>3. Queued' = {} /\ Unfinished(Queued)' = {} /\ Unfinished(ToSet(active))' = {}
  BY <1>2 DEF Queued, Unfinished
<1>4. QueuesOK'
  <2>1. \A i \in DOMAIN live' : live'[i] \in Nat
    <3>1. CASE live' = <<>>
      BY <3>1, EmptyQueue
    <3>2. CASE live' = live
      BY <1>0, <3>2 DEF QueuesOK
    <3>. QED
      BY <1>1, <3>1, <3>2
  <2>2. failed' \in BOOLEAN /\ seen' \subseteq Id
    BY <1>0, <1>1 DEF QueuesOK
  <2>. QED
    BY <1>2, <1>3, <2>1, <2>2 DEF QueuesOK
<1>5. BatchOK'
  <2>1. slots' = 0 /\ budget' = 0
    BY DEF Fatal
  <2>2. 0 \in Nat /\ 0 \in 0 .. TokenBudget /\ 0 + 0 <= MaxBatchSize
    BY Constants
  <2>. QED
    BY <1>2, <2>1, <2>2, Zenon DEF BatchOK
<1>6. StepOK'
  BY <1>1, <1>2, <1>3 DEF StepOK
<1>7. ProgressOK'
  BY <1>2 DEF ProgressOK
<1>8. KVOK'
  BY <1>1, <1>3 DEF KVOK
<1>9. ReservedOK'
  <2>1. ReservedPages' \in Nat /\ ReservedPages' <= ReservedPages /\ ReservedPages \in Nat
    BY <1>0, <1>1, FewerReserved, ReservedTypes
  <2>2. held \in Nat /\ held + ReservedPages <= TotalPages /\ TotalPages \in Nat
    BY <1>0, Constants DEF ReservedOK
  <2>3. held + ReservedPages' <= TotalPages /\ 0 + ReservedPages' <= TotalPages /\ 0 \in Nat
    <3>1. 0 + ReservedPages <= TotalPages
      BY <2>1, <2>2
    <3>. QED
      BY <2>1, <2>2, <3>1, LessFits, Zenon
  <2>4. held' = 0 \/ held' = held
    BY DEF Fatal
  <2>5. held' + ReservedPages' <= TotalPages /\ held' \in Nat
    BY <2>2, <2>3, <2>4, Zenon
  <2>6. DOMAIN reserved' = {}
    BY <1>0, <1>1 DEF Without, ReservedOK, Unfinished, Queued
  <2>. QED
    BY <1>3, <2>5, <2>6 DEF ReservedOK
<1>10. StreamsOK'
  <2>1. Unfinished(Queued)' = Unfinished(Queued) \ Unfinished(Queued)
    BY <1>3
  <2>2. \A i \in Unfinished(Queued) \ Unfinished(Queued) : Emitted(i)' = Emitted(i)
    OBVIOUS
  <2>. QED
    BY <1>0, <1>1, <2>1, <2>2, AbortedEnds, TerminalStreams
<1>. QED
  BY <1>4, <1>5, <1>6, <1>7, <1>8, <1>9, <1>10 DEF EngineInv

------------------------------------------------------------------------------
\* The invariants

LEMMA NextKeeps ==
  EngineInv /\ [Next]_vars => EngineInv'
<1>. SUFFICES ASSUME EngineInv, [Next]_vars PROVE EngineInv'
  OBVIOUS
<1>1. CASE UNCHANGED vars
  BY <1>1, UnchangedKeeps
<1>2. CASE Step
  BY <1>2, BeginStepKeeps, AdmitKeeps, RejectKeeps, PlanWorkKeeps, RestoreKeeps, ForwardKeeps,
     SampleKeeps, FinishKeeps, IsolateKeeps, EndStepKeeps, FatalKeeps DEF Step
<1>3. CASE Client
  <2>1. ASSUME NEW id \in Id, Submit(id) \/ Cancel(id) PROVE EngineInv'
    BY <2>1, SubmitKeeps, CancelKeeps
  <2>2. ASSUME NEW k \in 0 .. Len(active) - 1, ShutdownFails(k) PROVE EngineInv'
    BY <2>2, ShutdownFailsKeeps
  <2>. QED
    BY <1>3, <2>1, <2>2, PollEventsKeeps, ShutdownKeeps, DiagnoseKeeps DEF Client
<1>. QED
  BY <1>1, <1>2, <1>3 DEF Next

LEMMA EngineAlwaysInv == Spec => []EngineInv
<1>1. Init => EngineInv
  BY StartsRight
<1>. QED
  BY <1>1, NextKeeps, PTL DEF Spec

\* Every queue, counter and table of the engine keeps its type, whichever call
\* or failure of the runner comes: nothing is queued twice and the batch limit
\* holds.
THEOREM TypesAlwaysOK == Spec => []TypeOK
<1>1. EngineInv => TypeOK
  <2>. SUFFICES ASSUME EngineInv PROVE TypeOK
    OBVIOUS
  <2>0. QueuesOK /\ BatchOK /\ StepOK /\ ReservedOK
    BY Parts
  <2>1. IsInjective(waiting \o active)
    BY <2>0, JoinQueues DEF QueuesOK
  <2>2. Len(active) \in Nat
    BY <2>0, QueueTypes
  <2>3. Len(active) <= MaxBatchSize /\ slots \in 0 .. MaxBatchSize /\ budget \in 0 .. TokenBudget
    BY <2>0, <2>2, Constants DEF BatchOK
  <2>4. held \in 0 .. TotalPages
    BY <2>0, ReservedTypes, Constants DEF ReservedOK
  <2>5. \A id \in DOMAIN reserved : reserved[id] \in Nat
    BY <2>0, ReservedTypes
  <2>6. /\ seen \subseteq Id /\ failed \in BOOLEAN /\ DOMAIN state = Queued /\ Queued \subseteq seen
        /\ ToSet(order) \subseteq ToSet(active)
        /\ \A id \in Queued :
              state[id] \in [prefilled : 0 .. Prompt[id], output : 0 .. MaxNew[id],
                            resident : BOOLEAN, finished : BOOLEAN]
        /\ \A id \in DOMAIN live : live[id] \in Nat
    BY <2>0 DEF QueuesOK
  <2>7. at \in {"outside", "admit", "work", "sample"} /\ finish \in {"", "Eos", "Length"}
    BY <2>0 DEF StepOK
  <2>. QED
    BY <2>1, <2>3, <2>4, <2>5, <2>6, <2>7, Zenon DEF TypeOK
<1>. QED
  BY <1>1, EngineAlwaysInv, PTL

\* The runner holds exactly the KV the open requests account for, for every set
\* of requests and pool, through isolated failures, cancellation and shutdown.
THEOREM KVAlwaysMatchesHistory == Spec => []KVMatchesHistory
<1>1. EngineInv /\ TypeOK => KVMatchesHistory
  BY Parts DEF KVOK, KVLength, KVMatchesHistory
<1>. QED
  BY <1>1, EngineAlwaysInv, TypesAlwaysOK, PTL

\* The reservations of the admitted requests cover all the KV they ever have,
\* and fit the pool with what diagnostics hold.
THEOREM ReservationsAlwaysCover == Spec => []ReservationsCoverRequests
<1>1. EngineInv => ReservationsCoverRequests
  <2>. SUFFICES ASSUME EngineInv PROVE ReservationsCoverRequests
    OBVIOUS
  <2>0. QueuesOK /\ StepOK /\ ProgressOK /\ KVOK /\ ReservedOK
    BY Parts
  <2>1. ASSUME NEW id \in DOMAIN reserved, id \in DOMAIN live PROVE PagesFor(live[id]) <= reserved[id]
    <3>1. id \in ToSet(active) /\ id \in Queued /\ id \in Id
      BY <2>0, ReservedTypes, QueueTypes DEF Queued
    <3>2. ~failed
      BY <2>0, <3>1, EmptyQueue DEF StepOK
    <3>3. state[id].resident /\ live[id] = KVLength(id)
      BY <2>0, <2>1, <3>1, <3>2 DEF KVOK
    <3>4. ~state[id].finished
      BY <2>0 DEF ReservedOK, Unfinished
    <3>5. PICK p, o, v : p = state[id].prefilled /\ o = state[id].output /\ v = live[id]
      OBVIOUS
    <3>6. p \in 0 .. Prompt[id] /\ o \in 0 .. MaxNew[id] /\ v \in Nat
      BY <2>0, <2>1, <3>1, <3>5, QueueTypes DEF QueuesOK
    <3>7. Prompt[id] \in Nat \ {0} /\ MaxNew[id] \in Nat \ {0}
      BY <3>1, Constants
    <3>8. v <= RequestTokens(id)
      <4>. DEFINE now == at = "sample" /\ finish = "" /\ order # <<>> /\ Head(order) = id
      <4>1. v = IF o = 0 THEN p ELSE Prompt[id] + o - (IF now THEN 0 ELSE 1)
        BY <3>3, <3>5, Zenon DEF KVLength
      <4>2. now => o < MaxNew[id]
        BY <2>0, <3>5 DEF StepOK, Sampling
      <4>. HIDE DEF now
      <4>. QED
        BY <3>6, <3>7, <4>1, <4>2 DEF RequestTokens
    <3>9. PagesFor(v) <= PagesFor(RequestTokens(id))
      BY <3>1, <3>6, <3>8, Constants, PagesForGrows
    <3>. QED
      BY <2>0, <3>5, <3>9, Zenon DEF ReservedOK
  <2>. QED
    BY <2>0, <2>1 DEF ReservedOK, ReservationsCoverRequests
<1>. QED
  BY <1>1, EngineAlwaysInv, PTL

------------------------------------------------------------------------------
\* Refinement

\* The streams that may still grow are those of the open requests.
LEMMA OpenStreams ==
  ASSUME EngineInv
  PROVE  /\ DOMAIN Streams = seen /\ Service!Open = Unfinished(Queued)
         /\ \A id \in Unfinished(Queued) : Len(Streams[id]) = Emitted(id)
<1>1. QueuesOK /\ StreamsOK
  BY Parts
<1>2. Unfinished(Queued) \subseteq seen
  BY <1>1 DEF Unfinished, QueuesOK
<1>3. DOMAIN Streams = seen
  BY <1>1, StreamTypes
<1>4. \A id \in seen : IF id \in Unfinished(Queued)
                      THEN ~Service!Over(Streams[id]) /\ Len(Streams[id]) = Emitted(id)
                      ELSE Service!Over(Streams[id])
  BY <1>1 DEF StreamsOK, Emitted
<1>5. Service!Open = {id \in DOMAIN Streams : ~Service!Over(Streams[id])}
  BY DEF Service!Open
<1>. QED
  BY <1>2, <1>3, <1>4, <1>5

\* Requests that end with a cancellation or an error are aborted.
LEMMA AbortsRefine ==
  ASSUME EngineInv, NEW ids \in SUBSET Unfinished(Queued), NEW reason \in {"Cancelled", "Error"},
         events' = Notified(ids, Aborted(reason)), UNCHANGED <<seen, delivered>>
  PROVE  Service!Next
<1>1. QueuesOK /\ StreamsOK
  BY Parts
<1>2. Aborted(reason) = [token |-> Service!None, reason |-> reason] /\ Aborted(reason) \in Service!Event
  BY DEF Aborted, Service!None, Service!Event
<1>3. Streams' = [id \in seen |-> IF id \in ids THEN Append(Streams[id], Aborted(reason)) ELSE Streams[id]]
  BY <1>1, <1>2, NotifiedStreams
<1>4. Service!Abort(ids, reason)
  BY <1>2, <1>3, OpenStreams, Zenon DEF Service!Abort
<1>. QED
  BY <1>4, OpenStreams DEF Service!Next

\* The next token of an open request is emitted.
LEMMA TokenRefines ==
  ASSUME EngineInv, NEW id \in Unfinished(Queued), NEW n \in Nat, n = Emitted(id) + 1,
         NEW reason \in {"", "Eos", "Length"},
         reason = "" => n < MaxNew[id], reason = "Length" => n = MaxNew[id], reason = "Eos" => n <= MaxNew[id],
         events' = Notified({id}, [token |-> n, reason |-> reason]), UNCHANGED <<seen, delivered>>
  PROVE  Service!Next
<1>1. QueuesOK /\ StreamsOK
  BY Parts
<1>. DEFINE event == [token |-> n, reason |-> reason]
<1>2. event \in Service!Event
  BY DEF Service!Event
<1>3. Streams' = [i \in seen |-> IF i \in {id} THEN Append(Streams[i], event) ELSE Streams[i]]
  <2>1. events' = Notified({id}, event)
    OBVIOUS
  <2>. HIDE DEF event
  <2>. QED
    BY <1>1, <1>2, <2>1, NotifiedStreams, ZenonT(30)
<1>4. DOMAIN Streams = seen /\ id \in Service!Open /\ Len(Streams[id]) + 1 = n
  BY OpenStreams
<1>5. Streams' = [Streams EXCEPT ![id] = Append(@, event)]
  <2>1. Streams = [i \in seen |-> Streams[i]]
    BY <1>4 DEF Streams
  <2>. HIDE DEF event
  <2>. QED
    BY <1>3, <1>4, <2>1
<1>6. Service!Extend(id, event)
  BY <1>5 DEF Service!Extend
<1>7. Service!Emit(id)
  BY <1>4, <1>6 DEF Service!Emit
<1>. QED
  BY <1>4, <1>7 DEF Service!Next

LEMMA SubmitRefines ==
  ASSUME EngineInv, NEW id \in Id, Submit(id)
  PROVE  Service!Next
<1>1. /\ id \notin seen /\ seen' = seen \cup {id} /\ delivered' = delivered /\ events' = events
  BY DEF Submit, eventVars
<1>2. delivered[id] \o events[id] = <<>>
  <2>1. delivered[id] = <<>> /\ events[id] = <<>>
    BY <1>1, Parts DEF StreamsOK
  <2>. QED
    BY <2>1
<1>3. Streams' = [i \in seen \cup {id} |-> IF i = id THEN <<>> ELSE Streams[i]]
  BY <1>1, <1>2 DEF Streams
<1>4. Service!Submit(id)
  BY <1>1, <1>3, OpenStreams, Zenon DEF Service!Submit
<1>. QED
  BY <1>4 DEF Service!Next

LEMMA StepRefines ==
  ASSUME EngineInv, [Next]_vars
  PROVE  Service!Next \/ Streams' = Streams
<1>0. QueuesOK
  BY Parts
<1>1. CASE UNCHANGED vars
  BY <1>1 DEF vars, requestVars, eventVars, Streams
<1>2. CASE BeginStep \/ Admit \/ PlanWork \/ Restore \/ Forward \/ EndStep \/ PollEvents \/ Diagnose
  BY <1>2, BeginStepKeeps, AdmitKeeps, PlanWorkKeeps, RestoreKeeps, ForwardKeeps, EndStepKeeps,
     PollEventsKeeps, DiagnoseKeeps
<1>3. CASE \E id \in Id : Submit(id)
  BY <1>3, SubmitRefines
<1>4. CASE \E id \in Id : Cancel(id)
  <2>1. PICK id \in Id : Cancel(id)
    BY <1>4
  <2>2. {id} \in SUBSET Unfinished(Queued) /\ events' = Notified({id}, Aborted("Cancelled")) /\ UNCHANGED <<seen, delivered>>
    BY <2>1, OpenOutside DEF Cancel, Terminal
  <2>. QED
    BY <2>2, AbortsRefine
<1>5. CASE Shutdown
  <2>1. Queued \in SUBSET Unfinished(Queued) /\ events' = Notified(Queued, Aborted("Cancelled")) /\ UNCHANGED <<seen, delivered>>
    BY <1>5, OpenOutside DEF Shutdown
  <2>. QED
    BY <2>1, AbortsRefine
<1>6. CASE \E k \in 0 .. Len(active) - 1 : ShutdownFails(k)
  <2>1. PICK k \in 0 .. Len(active) - 1 : ShutdownFails(k)
    BY <1>6
  <2>2. PICK gone : gone = ToSet(SubSeq(active, 1, k))
    OBVIOUS
  <2>3. at = "outside" /\ events' = Notified(gone, Aborted("Cancelled")) /\ UNCHANGED <<seen, delivered>>
    BY <2>1, <2>2 DEF ShutdownFails, Terminal
  <2>4. gone \in SUBSET Unfinished(Queued)
    BY <2>1, <2>2, <2>3, ShutdownFailsKeeps, OpenOutside
  <2>. QED
    BY <2>3, <2>4, AbortsRefine
<1>7. CASE Reject
  <2>1. PICK id : id = Head(waiting)
    OBVIOUS
  <2>2. {id} \in SUBSET Unfinished(Queued)
    BY <1>7, <2>1, RejectKeeps, OpenOutside DEF Reject, Candidate
  <2>3. events' = Notified({id}, Aborted("Error")) /\ UNCHANGED <<seen, delivered>>
    BY <1>7, <2>1 DEF Reject, Terminal
  <2>. QED
    BY <2>2, <2>3, AbortsRefine
<1>8. CASE Isolate
  <2>1. PICK id \in Unfinished(Queued) : UNCHANGED <<seen, delivered>> /\ events' = Notified({id}, Aborted("Error"))
    BY <1>8, IsolateKeeps
  <2>2. {id} \in SUBSET Unfinished(Queued)
    OBVIOUS
  <2>. QED
    BY <2>1, <2>2, AbortsRefine
<1>9. CASE Fatal
  <2>1. Unfinished(Queued) \in SUBSET Unfinished(Queued) /\ UNCHANGED <<seen, delivered>>
        /\ events' = Notified(Unfinished(Queued), Aborted("Error"))
    BY <1>9 DEF Fatal
  <2>. QED
    BY <2>1, AbortsRefine
<1>10. CASE Sample
  <2>1. CASE UNCHANGED <<seen, eventVars>>
    BY <2>1 DEF eventVars, Streams
  <2>2. CASE \E id \in Unfinished(Queued) :
                /\ UNCHANGED <<seen, delivered>> /\ Emitted(id) = state[id].output
                /\ state[id].output + 1 < MaxNew[id]
                /\ events' = Notified({id}, [token |-> state[id].output + 1, reason |-> ""])
    <3>1. PICK id \in Unfinished(Queued) :
                /\ UNCHANGED <<seen, delivered>> /\ Emitted(id) = state[id].output
                /\ state[id].output + 1 < MaxNew[id]
                /\ events' = Notified({id}, [token |-> state[id].output + 1, reason |-> ""])
      BY <2>2
    <3>2. PICK n : n = state[id].output + 1
      OBVIOUS
    <3>3. id \in Queued /\ id \in Id
      BY <1>0, QueueTypes DEF Unfinished
    <3>4. state[id].output \in 0 .. MaxNew[id] /\ MaxNew[id] \in Nat
      BY <1>0, <3>3, QueueTypes, Constants
    <3>5. n \in Nat
      BY <3>2, <3>4
    <3>6. n = Emitted(id) + 1 /\ n < MaxNew[id] /\ UNCHANGED <<seen, delivered>>
          /\ events' = Notified({id}, [token |-> n, reason |-> ""])
      BY <3>1, <3>2, Zenon
    <3>. QED
      BY <3>5, <3>6, TokenRefines
  <2>. QED
    BY <1>10, <2>1, <2>2, SampleKeeps
<1>11. CASE Finish
  <2>1. PICK id \in Unfinished(Queued) :
               /\ UNCHANGED <<seen, delivered>> /\ Emitted(id) = state[id].output - 1 /\ state[id].output > 0
               /\ finish \in {"Eos", "Length"} /\ (finish = "Length" => state[id].output = MaxNew[id])
               /\ events' = Notified({id}, [token |-> state[id].output, reason |-> finish])
    BY <1>11, FinishKeeps
  <2>2. PICK n, reason : n = state[id].output /\ reason = finish
    OBVIOUS
  <2>3. id \in Queued /\ id \in Id
    BY <1>0, QueueTypes DEF Unfinished
  <2>4. n \in 0 .. MaxNew[id] /\ MaxNew[id] \in Nat
    BY <1>0, <2>2, <2>3, QueueTypes, Constants
  <2>5. n \in Nat /\ n <= MaxNew[id] /\ n = (n - 1) + 1
    BY <2>4
  <2>6. n = Emitted(id) + 1
    BY <2>1, <2>2, <2>5, Zenon
  <2>7. /\ reason \in {"", "Eos", "Length"} /\ reason # "" /\ (reason = "Length" => n = MaxNew[id])
        /\ events' = Notified({id}, [token |-> n, reason |-> reason]) /\ UNCHANGED <<seen, delivered>>
    BY <2>1, <2>2
  <2>. QED
    BY <2>5, <2>6, <2>7, TokenRefines
<1>. QED
  BY <1>1, <1>2, <1>3, <1>4, <1>5, <1>6, <1>7, <1>8, <1>9, <1>10, <1>11 DEF Next, Step, Client

\* Whatever the runner does, the clients see a generation service: every output
\* token once and in order, exactly one terminal event, nothing after it.
THEOREM AlwaysAGenerationService == Spec => ImplementsGenerationService
<1>1. Init => Service!Init
  <2>. SUFFICES ASSUME Init PROVE Streams = <<>>
    BY DEF Service!Init
  <2>1. seen = {}
    BY DEF Init
  <2>2. Streams = [id \in {} |-> delivered[id] \o events[id]] /\ <<>> = [id \in {} |-> delivered[id] \o events[id]]
    BY <2>1 DEF Streams
  <2>. QED
    BY <2>2
<1>2. EngineInv /\ [Next]_vars => [Service!Next]_Streams
  BY StepRefines
<1>. QED
  BY <1>1, <1>2, EngineAlwaysInv, PTL DEF Spec, ImplementsGenerationService, Service!Spec
==============================================================================
