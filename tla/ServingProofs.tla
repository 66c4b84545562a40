----------------------------- MODULE ServingProofs -----------------------------
(***************************************************************************)
(* Proofs about the serving example, for every pool, vocabulary and model, *)
(* every set of requests and every limit of the schedulers: a step of the  *)
(* worker that succeeds computes what each request gets alone, and so both *)
(* schedules serve every request as if it were alone, the reserving one in *)
(* the order of arrival and within its reservations.                       *)
(***************************************************************************)
EXTENDS DynamicScheduler, ReservedScheduler, ServingCacheProofs

------------------------------------------------------------------------------
\* The worker

Token == Nat \ {0}
Originals == [prompt : Nat, budget : Nat, generated : Nat, last : Nat]

BatchItems == [id : Nat, start : Nat, replay : BOOLEAN, input : Seq(Token), generated : Nat,
               prompt : Nat, budget : Nat, capacity : Nat, original : Originals]

States == [history : Seq(Token), generated : Nat, prompt : Nat, budget : Nat,
           capacity : Nat, last : Nat]

Workers == [sharing : BOOLEAN, cache : Caches, states : PartialMaps(Nat, States)]

\* What the tables are known to hold.
HistoriesOf(states) == [id \in DOMAIN states |-> states[id].history]

\* The cache holds the histories, and nothing else has a table.
Sound(w) ==
    /\ w.cache \in GoodCaches(HistoriesOf(w.states), w.cache.memory) /\ Fitted(w.cache)
    /\ \A id \in DOMAIN w.states : Length(w.cache, id) = Len(w.states[id].history)

\* Between commands, every state has a table.
Settled == {w \in Workers : Sound(w) /\ DOMAIN w.cache.tables = DOMAIN w.states}

\* The history of a request once an item is through.
After(w, item) == StateOf(w, item).history \o item.input

\* An item has entered: what is still to be written leads to the history after it.
Ready(w, item, after) ==
    /\ item.id \in DOMAIN w.states
    /\ Extended(w, item) = after
    /\ Len(w.states[item.id].history) < Len(after)
    /\ \A n \in 1 .. Len(w.states[item.id].history) : after[n] = w.states[item.id].history[n]

LEMMA WorkerFields ==
  ASSUME NEW w \in Workers
  PROVE  /\ w.sharing \in BOOLEAN /\ w.cache \in Caches /\ w.states \in PartialMaps(Nat, States)
         /\ DOMAIN w.states \subseteq Nat
         /\ \A id \in DOMAIN w.states : w.states[id] \in States /\ w.states[id].history \in Seq(Token)
         /\ HistoriesOf(w.states) \in PartialMaps(Nat, Seq(Nat))
         /\ DOMAIN HistoriesOf(w.states) = DOMAIN w.states
<1>1. w.sharing \in BOOLEAN /\ w.cache \in Caches /\ w.states \in PartialMaps(Nat, States)
  BY DEF Workers
<1>2. DOMAIN w.states \subseteq Nat /\ w.states \in [DOMAIN w.states -> States]
  BY <1>1, MapsAre
<1>3. \A id \in DOMAIN w.states : w.states[id] \in States /\ w.states[id].history \in Seq(Token)
  BY <1>2 DEF States
<1>4. Seq(Token) \subseteq Seq(Nat)
  BY DEF Token
<1>5. /\ DOMAIN HistoriesOf(w.states) = DOMAIN w.states
      /\ HistoriesOf(w.states) \in [DOMAIN w.states -> Seq(Nat)]
  BY <1>3, <1>4 DEF HistoriesOf
<1>6. HistoriesOf(w.states) \in PartialMaps(Nat, Seq(Nat))
  BY <1>2, <1>5, MapsAre
<1>. QED
  BY <1>1, <1>2, <1>3, <1>5, <1>6

\* One item's state is set.
LEMMA StatesWith ==
  ASSUME NEW old \in PartialMaps(Nat, States), NEW id \in Nat, NEW s \in States
  PROVE  /\ With(old, id, s) \in PartialMaps(Nat, States)
         /\ DOMAIN With(old, id, s) = DOMAIN old \cup {id}
         /\ With(old, id, s)[id] = s
         /\ \A x \in DOMAIN old \ {id} : With(old, id, s)[x] = old[x]
         /\ HistoriesOf(With(old, id, s)) = With(HistoriesOf(old), id, s.history)
<1>. DEFINE states == With(old, id, s)
<1>1. states \in PartialMaps(Nat, States)
  BY MapsWith
<1>2. DOMAIN states = DOMAIN old \cup {id} /\ states[id] = s
      /\ \A x \in DOMAIN old \ {id} : states[x] = old[x]
  BY DEF With
<1>3. HistoriesOf(states) = With(HistoriesOf(old), id, s.history)
  <2>1. DOMAIN HistoriesOf(states) = DOMAIN With(HistoriesOf(old), id, s.history)
    BY <1>2 DEF HistoriesOf, With
  <2>2. \A x \in DOMAIN states : HistoriesOf(states)[x] = With(HistoriesOf(old), id, s.history)[x]
    BY <1>2 DEF HistoriesOf, With
  <2>. QED
    BY <2>1, <2>2 DEF HistoriesOf, With
<1>. QED
  BY <1>1, <1>2, <1>3

LEMMA StateOfType ==
  ASSUME NEW w \in Workers, NEW item \in BatchItems
  PROVE  /\ StateOf(w, item) \in States /\ StateOf(w, item).history \in Seq(Token)
         /\ item.id \in Nat /\ item.input \in Seq(Token) /\ item.start \in Nat
         /\ After(w, item) \in Seq(Token) /\ After(w, item) \in Seq(Nat)
<1>1. item.id \in Nat /\ item.input \in Seq(Token) /\ item.start \in Nat
      /\ item.prompt \in Nat /\ item.budget \in Nat /\ item.capacity \in Nat
  BY DEF BatchItems
<1>2. StateOf(w, item) \in States
  <2>1. CASE item.id \in DOMAIN w.states
    BY <2>1, WorkerFields DEF StateOf
  <2>2. CASE item.id \notin DOMAIN w.states
    <3>1. StateOf(w, item) = [history |-> <<>>, generated |-> 0, prompt |-> item.prompt,
                              budget |-> item.budget, capacity |-> item.capacity, last |-> NoToken]
      BY <2>2 DEF StateOf
    <3>2. <<>> \in Seq(Token)
      OBVIOUS
    <3>. QED
      BY <1>1, <3>1, <3>2 DEF States, NoToken
  <2>. QED
    BY <2>1, <2>2
<1>3. StateOf(w, item).history \in Seq(Token)
  BY <1>2 DEF States
<1>4. After(w, item) \in Seq(Token)
  BY <1>1, <1>3 DEF After
<1>5. Seq(Token) \subseteq Seq(Nat)
  BY DEF Token
<1>. QED
  BY <1>1, <1>2, <1>3, <1>4, <1>5

\* An accepted item enters.
LEMMA EnteredGood ==
  ASSUME NEW w \in Workers, Sound(w), NEW item \in BatchItems, Accepted(w, item),
         TakesOver(w, item) => item.id \notin DOMAIN w.cache.tables,
         NEW v, v = Entered(w, item)
  PROVE  /\ v \in Workers /\ Sound(v) /\ v.sharing = w.sharing
         /\ DOMAIN v.states = DOMAIN w.states \cup {item.id}
         /\ \A x \in DOMAIN w.states \ {item.id} : v.states[x] = w.states[x]
         /\ DOMAIN w.cache.tables \subseteq DOMAIN v.cache.tables
         /\ Ready(v, item, After(w, item))
<1>. DEFINE id == item.id
            s == StateOf(w, item)
            c == IF TakesOver(w, item)
                 THEN Reused(w.cache, item.id, item.input, Len(item.input) - 1) ELSE w.cache
            h == IF TakesOver(w, item)
                 THEN SubSeq(item.input, 1, Length(c, item.id)) ELSE StateOf(w, item).history
            t == [s EXCEPT !.history = h]
            states == With(w.states, id, t)
            known == HistoriesOf(w.states)
            after == After(w, item)
<1>1. v = [w EXCEPT !.cache = c, !.states = states]
  BY Zenon DEF Entered
<1>2. /\ s \in States /\ s.history \in Seq(Token) /\ id \in Nat /\ item.input \in Seq(Token)
      /\ item.start \in Nat /\ after \in Seq(Token) /\ after = s.history \o item.input
  BY StateOfType DEF After
<1>3. /\ Len(item.input) >= 1 /\ (item.generated = 0 => item.start = Len(s.history))
  BY DEF Accepted
<1>4. /\ w.cache \in GoodCaches(known, w.cache.memory) /\ Fitted(w.cache)
      /\ \A x \in DOMAIN w.states : Length(w.cache, x) = Len(w.states[x].history)
      /\ w.cache \in Caches /\ DOMAIN w.cache.tables \subseteq DOMAIN w.states
      /\ DOMAIN known = DOMAIN w.states /\ known \in PartialMaps(Nat, Seq(Nat))
      /\ DOMAIN w.states \subseteq Nat
      /\ \A x \in DOMAIN w.states : w.states[x].history \in Seq(Token) /\ w.states[x] \in States
  BY WorkerFields DEF Sound, GoodCaches, Stored
<1>5. /\ c \in GoodCaches(With(known, id, h), c.memory) /\ Fitted(c) /\ c \in Caches
      /\ Length(c, id) = Len(h) /\ \A x \in Nat : x # id => Length(c, x) = Length(w.cache, x)
      /\ DOMAIN w.cache.tables \subseteq DOMAIN c.tables
      /\ h \in Seq(Token) /\ Len(h) < Len(after) /\ \A n \in 1 .. Len(h) : after[n] = h[n]
      /\ h \o SubSeq(item.input, (IF item.generated = 0 THEN Len(h) - item.start ELSE 0) + 1, Len(item.input)) = after
  <2>1. CASE TakesOver(w, item)
    <3>1. /\ id \notin DOMAIN w.cache.tables /\ item.generated = 0 /\ item.start = 0 /\ s.history = <<>>
      BY <2>1 DEF TakesOver
    <3>. DEFINE input == item.input
                d == Reused(w.cache, id, input, Len(input) - 1)
    <3>2. c = d /\ h = SubSeq(input, 1, Length(d, id))
      BY <2>1
    <3>3. input \in Seq(Nat) /\ Len(input) - 1 \in Nat /\ Len(input) \in Nat /\ input \in Seq(Token)
      <4>1. Seq(Token) \subseteq Seq(Nat)
        BY DEF Token
      <4>. QED
        BY <1>2, <1>3, <4>1
    <3>4. after = input
      BY <1>2, <3>1
    <3>. HIDE DEF c, h, input, after
    <3>5. /\ d \in GoodCaches(With(known, id, SubSeq(input, 1, Length(d, id))), w.cache.memory) /\ Fitted(d)
          /\ Length(d, id) \in Nat /\ Length(d, id) <= Len(input) - 1
          /\ DOMAIN w.cache.tables \subseteq DOMAIN d.tables
          /\ \A other \in Nat : other # id => Length(d, other) = Length(w.cache, other)
          /\ d.memory = w.cache.memory
      <4>. DEFINE old == w.cache
                  memory == w.cache.memory
                  most == Len(input) - 1
      <4>1. old \in GoodCaches(known, memory) /\ Fitted(old) /\ id \in Nat \ DOMAIN old.tables
            /\ most \in Nat /\ d = Reused(old, id, input, most)
        BY <1>2, <1>4, <3>1, <3>3
      <4>. HIDE DEF old, memory, most, d, known, id
      <4>2. /\ d \in GoodCaches(With(known, id, SubSeq(input, 1, Length(d, id))), memory) /\ Fitted(d)
            /\ Length(d, id) \in Nat /\ Length(d, id) <= most
            /\ DOMAIN old.tables \subseteq DOMAIN d.tables
            /\ \A other \in Nat : other # id => Length(d, other) = Length(old, other)
            /\ d.memory = old.memory
        BY <3>3, <4>1, ReusedGood, SMTT(30)
      <4>. QED
        BY <4>2 DEF old, memory, most
    <3>. HIDE DEF d, known, id
    <3>6. d \in Caches
      BY <3>5 DEF GoodCaches
    <3>. DEFINE l == Length(d, id)
    <3>7. l \in Nat /\ l <= Len(input) - 1 /\ h = SubSeq(input, 1, l)
      BY <3>2, <3>5
    <3>. HIDE DEF l
    <3>8. h \in Seq(Token) /\ Len(h) = l /\ l < Len(input) /\ \A n \in 1 .. l : input[n] = h[n]
      BY <3>3, <3>7
    <3>9. h \o SubSeq(input, l + 1, Len(input)) = input
      BY <3>3, <3>7, SMTT(30)
    <3>10. (IF item.generated = 0 THEN Len(h) - item.start ELSE 0) + 1 = l + 1
      BY <3>1, <3>7, <3>8
    <3>11. c \in GoodCaches(With(known, id, h), c.memory)
      BY <3>2, <3>5
    <3>12. Len(h) = Length(c, id)
      BY <3>2, <3>8 DEF l
    <3>. QED
      BY <3>2, <3>4, <3>5, <3>6, <3>8, <3>9, <3>10, <3>11, <3>12 DEF input
  <2>2. CASE ~TakesOver(w, item)
    <3>1. c = w.cache /\ h = s.history
      BY <2>2
    <3>. HIDE DEF c, h
    <3>2. With(known, id, h) = known \/ (id \notin DOMAIN w.states /\ h = <<>>)
      <4>1. CASE id \in DOMAIN w.states
        <5>1. h = known[id]
          BY <3>1, <4>1 DEF StateOf, HistoriesOf
        <5>2. known \in [DOMAIN known -> Seq(Nat)]
          BY <1>4, MapsAre
        <5>3. With(known, id, h) = known
          <6>. HIDE DEF known, id
          <6>1. id \in DOMAIN known
            BY <1>4, <4>1 DEF known, id
          <6>. QED
            BY <5>1, <5>2, <6>1 DEF With
        <5>. QED
          BY <5>3
      <4>2. CASE id \notin DOMAIN w.states
        BY <3>1, <4>2 DEF StateOf
      <4>. QED
        BY <4>1, <4>2
    <3>3. c \in GoodCaches(With(known, id, h), c.memory)
      <4>1. CASE With(known, id, h) = known
        BY <1>4, <3>1, <4>1
      <4>2. CASE id \notin DOMAIN w.states /\ h = <<>>
        <5>1. id \in Nat \ DOMAIN w.cache.tables
          BY <1>2, <1>4, <4>2
        <5>. HIDE DEF known, id
        <5>2. w.cache \in GoodCaches(With(known, id, <<>>), w.cache.memory)
          BY <1>4, <5>1, NothingStored
        <5>. QED
          BY <3>1, <4>2, <5>2
      <4>. QED
        BY <3>2, <4>1, <4>2
    <3>4. Length(c, id) = Len(h)
      <4>1. CASE id \in DOMAIN w.states
        BY <1>4, <3>1, <4>1 DEF StateOf
      <4>2. CASE id \notin DOMAIN w.states
        <5>1. h = <<>>
          BY <3>1, <4>2 DEF StateOf
        <5>2. id \notin DOMAIN c.lengths
          BY <1>4, <3>1, <4>2 DEF Fitted
        <5>. QED
          BY <5>1, <5>2 DEF Length
      <4>. QED
        BY <4>1, <4>2
    <3>5. (IF item.generated = 0 THEN Len(h) - item.start ELSE 0) + 1 = 1
      <4>1. Len(h) \in Nat
        BY <1>2, <3>1
      <4>. QED
        BY <1>3, <3>1, <4>1
    <3>. DEFINE input == item.input
    <3>6. input \in Seq(Token) /\ h \in Seq(Token) /\ after = h \o input /\ Len(input) >= 1
      BY <1>2, <1>3, <3>1
    <3>. HIDE DEF input, after
    <3>7. SubSeq(input, 1, Len(input)) = input
      BY <3>6
    <3>8. Len(h) < Len(after) /\ \A n \in 1 .. Len(h) : after[n] = h[n]
      BY <3>6
    <3>. HIDE DEF known, id
    <3>. QED
      BY <1>4, <3>1, <3>3, <3>4, <3>5, <3>6, <3>7, <3>8 DEF input
  <2>. QED
    BY <2>1, <2>2
<1>. HIDE DEF c, h
<1>6. t \in States /\ t.history = h
  BY <1>2, <1>5 DEF States
<1>. HIDE DEF t
<1>7. /\ states \in PartialMaps(Nat, States) /\ DOMAIN states = DOMAIN w.states \cup {id}
      /\ states[id] = t /\ \A x \in DOMAIN w.states \ {id} : states[x] = w.states[x]
      /\ HistoriesOf(states) = With(known, id, h)
  <2>. DEFINE old == w.states
  <2>1. old \in PartialMaps(Nat, States) /\ id \in Nat /\ states = With(old, id, t) /\ known = HistoriesOf(old)
    BY <1>2, WorkerFields
  <2>. HIDE DEF old, id, known, states
  <2>2. /\ states \in PartialMaps(Nat, States) /\ DOMAIN states = DOMAIN old \cup {id}
        /\ states[id] = t /\ \A x \in DOMAIN old \ {id} : states[x] = old[x]
        /\ HistoriesOf(states) = With(known, id, t.history)
    <3>1. t \in States /\ old \in PartialMaps(Nat, States) /\ id \in Nat
      BY <1>6, <2>1
    <3>2. With(old, id, t) \in PartialMaps(Nat, States)
      BY <3>1, StatesWith
    <3>3. DOMAIN With(old, id, t) = DOMAIN old \cup {id}
      BY <3>1, StatesWith
    <3>4. With(old, id, t)[id] = t /\ \A x \in DOMAIN old \ {id} : With(old, id, t)[x] = old[x]
      BY DEF With
    <3>5. HistoriesOf(With(old, id, t)) = With(HistoriesOf(old), id, t.history)
      BY <3>1, StatesWith, ZenonT(60)
    <3>. QED
      BY <2>1, <3>2, <3>3, <3>4, <3>5
  <2>. QED
    BY <1>6, <2>2 DEF old
<1>. HIDE DEF states, known
<1>8. v \in Workers /\ v.sharing = w.sharing /\ v.cache = c /\ v.states = states
  BY <1>1, <1>5, <1>7 DEF Workers
<1>9. Sound(v)
  <2>1. \A x \in DOMAIN states : Length(c, x) = Len(states[x].history)
    BY <1>4, <1>5, <1>6, <1>7
  <2>. QED
    BY <1>5, <1>7, <1>8, <2>1 DEF Sound
<1>10. Ready(v, item, after)
  <2>1. v.states[item.id].history = h /\ item.id \in DOMAIN v.states
    BY <1>6, <1>7, <1>8
  <2>2. Extended(v, item) = after
    BY <1>5, <2>1 DEF Extended
  <2>. HIDE DEF after
  <2>. QED
    BY <1>5, <2>1, <2>2 DEF Ready
<1>. QED
  BY <1>5, <1>7, <1>8, <1>9, <1>10

------------------------------------------------------------------------------
\* A batch enters

Batches == Seq(BatchItems)
IdsOf(batch, n) == {batch[i].id : i \in 1 .. n}
Distinct(batch) == \A i, j \in 1 .. Len(batch) : batch[i].id = batch[j].id => i = j

Entrances == [worker : Workers, ok : BOOLEAN]

\* What holds of w2 when the first n items have entered w.
EnteredUpTo(w, w2, batch, n) ==
    /\ Sound(w2) /\ w2.sharing = w.sharing
    /\ DOMAIN w2.states = DOMAIN w.states \cup IdsOf(batch, n)
    /\ \A x \in DOMAIN w.states : x \notin IdsOf(batch, n) => w2.states[x] = w.states[x]
    /\ DOMAIN w.cache.tables \subseteq DOMAIN w2.cache.tables
    /\ \A i \in 1 .. Len(batch) : i <= n =>
          Ready(w2, batch[i], After(w, batch[i])) /\ Accepted(w, batch[i]) /\ ReplayValid(batch[i])

LEMMA SameState ==
  ASSUME NEW v, NEW w, NEW item, StateOf(v, item) = StateOf(w, item),
         item.id \in DOMAIN v.states <=> item.id \in DOMAIN w.states
  PROVE  (Accepted(v, item) <=> Accepted(w, item)) /\ After(v, item) = After(w, item)
  BY DEF Accepted, After

LEMMA StillReady ==
  ASSUME NEW v, NEW w, NEW item, NEW after, Ready(v, item, after),
         item.id \in DOMAIN w.states, w.states[item.id] = v.states[item.id]
  PROVE  Ready(w, item, after)
  BY DEF Ready, Extended

LEMMA IdsGrow ==
  ASSUME NEW batch \in Batches, NEW n \in 1 .. Len(batch)
  PROVE  /\ IdsOf(batch, n) = IdsOf(batch, n - 1) \cup {batch[n].id} /\ batch[n].id \in Nat
         /\ \A i \in 1 .. Len(batch) : /\ batch[i].id \in Nat
                                       /\ i <= n => i <= n - 1 \/ i = n
                                       /\ i <= n - 1 => i <= n /\ i # n /\ batch[i].id \in IdsOf(batch, n - 1)
         /\ IdsOf(batch, 0) = {}
         /\ Distinct(batch) => /\ batch[n].id \notin IdsOf(batch, n - 1)
                               /\ \A i \in 1 .. Len(batch) : i # n => batch[i].id # batch[n].id
<1>1. Len(batch) \in Nat /\ n \in Nat /\ \A i \in 1 .. Len(batch) : batch[i] \in BatchItems
  BY DEF Batches
<1>2. \A i \in 1 .. Len(batch) : batch[i].id \in Nat
  BY <1>1 DEF BatchItems
<1>3. 1 .. n = (1 .. n - 1) \cup {n}
  BY <1>1
<1>4. IdsOf(batch, n) = IdsOf(batch, n - 1) \cup {batch[n].id}
  BY <1>3 DEF IdsOf
<1>5. \A i \in 1 .. Len(batch) : (i <= n => i <= n - 1 \/ i = n) /\ (i <= n - 1 => i <= n /\ i # n /\ i \in 1 .. n - 1)
  BY <1>1
<1>6. \A i \in 1 .. n - 1 : i \in 1 .. Len(batch) /\ i # n
  BY <1>1
<1>7. ASSUME Distinct(batch)
      PROVE  /\ batch[n].id \notin IdsOf(batch, n - 1)
             /\ \A i \in 1 .. Len(batch) : i # n => batch[i].id # batch[n].id
  BY <1>6, <1>7 DEF Distinct, IdsOf
<1>8. IdsOf(batch, 0) = {}
  BY DEF IdsOf
<1>. QED
  BY <1>2, <1>4, <1>5, <1>7, <1>8 DEF IdsOf

LEMMA EnterBatchGood ==
  ASSUME NEW w \in Settled, NEW batch \in Batches, NEW p, p = EnterBatch(w, batch)
  PROVE  /\ p \in Entrances
         /\ p.ok => Distinct(batch) /\ EnteredUpTo(w, p.worker, batch, Len(batch))
<1>. DEFINE N == Len(batch)
            start == [worker |-> w, ok |-> IsInjective([i \in DOMAIN batch |-> batch[i].id])]
            Enter(n) == {q \in Entrances : q.ok => Distinct(batch) /\ EnteredUpTo(w, q.worker, batch, n)}
            it == CHOOSE h : h = [n \in 0 .. Len(batch) |->
                                     IF n = 0 THEN start ELSE EnterItem(h[n - 1], batch[n])]
<1>1. p = it[N]
  BY Zenon DEF EnterBatch, Iterated
<1>2. N \in Nat /\ \A n \in 1 .. N : batch[n] \in BatchItems
  BY DEF Batches
<1>3. start \in Enter(0)
  <2>1. w \in Workers /\ Sound(w)
    BY DEF Settled
  <2>2. start.ok \in BOOLEAN /\ (start.ok => Distinct(batch))
    <3>1. DOMAIN batch = 1 .. N
      BY DEF Batches
    <3>. DEFINE ids == [i \in DOMAIN batch |-> batch[i].id]
    <3>2. DOMAIN ids = 1 .. N /\ \A i \in 1 .. N : ids[i] = batch[i].id
      BY <3>1
    <3>3. start.ok = IsInjective(ids)
      OBVIOUS
    <3>. HIDE DEF ids, start
    <3>. QED
      BY <3>2, <3>3 DEF IsInjective, Distinct
  <2>3. start \in Entrances /\ start.worker = w
    BY <2>1, <2>2 DEF Entrances
  <2>. HIDE DEF start
  <2>4. EnteredUpTo(w, w, batch, 0)
    BY <1>2, <2>1 DEF EnteredUpTo, IdsOf
  <2>. QED
    BY <2>2, <2>3, <2>4
<1>4. ASSUME NEW n \in 1 .. N, NEW q \in Enter(n - 1) PROVE EnterItem(q, batch[n]) \in Enter(n)
  <2>. DEFINE item == batch[n]
              u == q.worker
              r == EnterItem(q, item)
              v == Entered(u, item)
  <2>1. q \in Entrances /\ u \in Workers /\ item \in BatchItems
    BY <1>2 DEF Entrances
  <2>2. CASE /\ q.ok /\ ReplayValid(item) /\ Accepted(u, item)
             /\ TakesOver(u, item) => item.id \notin DOMAIN u.cache.tables
    <3>1. r = [q EXCEPT !.worker = v]
      BY <2>2, Zenon DEF EnterItem
    <3>2. Distinct(batch) /\ EnteredUpTo(w, u, batch, n - 1)
      BY <2>2
    <3>. HIDE DEF item, r, v, u, N, Enter
    <3>3. /\ v \in Workers /\ Sound(v) /\ v.sharing = u.sharing
          /\ DOMAIN v.states = DOMAIN u.states \cup {item.id}
          /\ \A x \in DOMAIN u.states \ {item.id} : v.states[x] = u.states[x]
          /\ DOMAIN u.cache.tables \subseteq DOMAIN v.cache.tables
          /\ Ready(v, item, After(u, item))
      <4>1. Sound(u)
        BY <3>2 DEF EnteredUpTo
      <4>. QED
        BY <2>1, <2>2, <4>1, EnteredGood DEF v
    <3>4. r \in Entrances /\ r.worker = v /\ r.ok
      BY <2>1, <2>2, <3>1, <3>3 DEF Entrances
    <3>5. /\ IdsOf(batch, n) = IdsOf(batch, n - 1) \cup {item.id} /\ item.id \in Nat
          /\ \A i \in 1 .. N : /\ i <= n => i <= n - 1 \/ i = n
                               /\ i <= n - 1 => i # n /\ batch[i].id \in IdsOf(batch, n - 1)
          /\ item.id \notin IdsOf(batch, n - 1)
          /\ \A i \in 1 .. N : i # n => batch[i].id # item.id
      BY <3>2, IdsGrow DEF N, item
    <3>6. /\ u.sharing = w.sharing
          /\ DOMAIN u.states = DOMAIN w.states \cup IdsOf(batch, n - 1)
          /\ \A x \in DOMAIN w.states : x \notin IdsOf(batch, n - 1) => u.states[x] = w.states[x]
          /\ DOMAIN w.cache.tables \subseteq DOMAIN u.cache.tables
          /\ \A i \in 1 .. N : i <= n - 1 =>
                Ready(u, batch[i], After(w, batch[i])) /\ Accepted(w, batch[i]) /\ ReplayValid(batch[i])
      BY <3>2 DEF EnteredUpTo, N
    <3>7. (Accepted(u, item) <=> Accepted(w, item)) /\ After(u, item) = After(w, item)
      <4>1. item.id \in DOMAIN u.states <=> item.id \in DOMAIN w.states
        BY <3>5, <3>6
      <4>2. StateOf(u, item) = StateOf(w, item)
        BY <3>5, <3>6, <4>1 DEF StateOf
      <4>. QED
        BY <4>1, <4>2, SameState
    <3>8. ASSUME NEW i \in 1 .. N, i <= n
          PROVE  Ready(v, batch[i], After(w, batch[i])) /\ Accepted(w, batch[i]) /\ ReplayValid(batch[i])
      <4>1. CASE i = n
        BY <2>2, <3>3, <3>7, <4>1 DEF item
      <4>2. CASE i # n
        <5>1. i <= n - 1 /\ batch[i].id # item.id
          BY <3>5, <3>8, <4>2
        <5>2. Ready(u, batch[i], After(w, batch[i])) /\ Accepted(w, batch[i]) /\ ReplayValid(batch[i])
          BY <3>6, <5>1
        <5>3. batch[i].id \in DOMAIN u.states
          BY <5>2 DEF Ready
        <5>4. batch[i].id \in DOMAIN v.states /\ v.states[batch[i].id] = u.states[batch[i].id]
          BY <3>3, <5>1, <5>3
        <5>. QED
          BY <5>2, <5>4, StillReady
      <4>. QED
        BY <4>1, <4>2
    <3>9. \A x \in DOMAIN w.states : x \notin IdsOf(batch, n) => v.states[x] = w.states[x]
      BY <3>3, <3>5, <3>6
    <3>10. EnteredUpTo(w, v, batch, n)
      BY <3>3, <3>5, <3>6, <3>8, <3>9 DEF EnteredUpTo, N
    <3>. QED
      BY <3>2, <3>4, <3>10 DEF Enter, item, r
  <2>3. CASE ~ (/\ q.ok /\ ReplayValid(item) /\ Accepted(u, item)
                /\ TakesOver(u, item) => item.id \notin DOMAIN u.cache.tables)
    <3>1. r = [q EXCEPT !.ok = FALSE]
      BY <2>3, Zenon DEF EnterItem
    <3>. HIDE DEF item, u, r
    <3>2. r \in Entrances /\ ~r.ok
      BY <2>1, <3>1 DEF Entrances
    <3>. QED
      BY <3>2 DEF r, item
  <2>. QED
    BY <2>2, <2>3
<1>5. N = Len(batch)
  OBVIOUS
<1>. HIDE DEF start, N
<1>. DEFINE S == [n \in 0 .. N |-> Enter(n)]
            move == [n \in 1 .. N |-> [q \in Entrances |-> EnterItem(q, batch[n])]]
<1>6. /\ \A n \in 0 .. N : S[n] = Enter(n)
      /\ \A n \in 0 .. N : Enter(n) \subseteq Entrances
      /\ 0 \in 0 .. N /\ N \in 0 .. N
      /\ \A n \in 1 .. N : n \in 0 .. N /\ n - 1 \in 0 .. N /\ n # 0
      /\ \A n \in 0 .. N : n = 0 \/ n \in 1 .. N
  BY <1>2
<1>. HIDE DEF S, Enter
<1>7. \A n \in 1 .. N : \A q \in S[n - 1] : move[n][q] = EnterItem(q, batch[n]) /\ move[n][q] \in S[n]
  BY <1>4, <1>6
<1>. HIDE DEF move
<1>8. PICK f : Orbit(f, N, start, move) /\ \A n \in 0 .. N : f[n] \in S[n]
  <2>1. start \in S[0] /\ \A n \in 1 .. N : \A d \in S[n - 1] : move[n][d] \in S[n]
    BY <1>3, <1>6, <1>7
  <2>. QED
    BY <1>2, <2>1, OrbitExists
<1>9. f = [n \in 0 .. N |-> IF n = 0 THEN start ELSE EnterItem(f[n - 1], batch[n])]
  <2>1. f = [n \in 0 .. N |-> IF n = 0 THEN start ELSE move[n][f[n - 1]]]
    BY <1>8 DEF Orbit
  <2>2. \A n \in 0 .. N : n # 0 => move[n][f[n - 1]] = EnterItem(f[n - 1], batch[n])
    BY <1>6, <1>7, <1>8
  <2>. QED
    BY <2>1, <2>2, Zenon
<1>10. it = [n \in 0 .. N |-> IF n = 0 THEN start ELSE EnterItem(it[n - 1], batch[n])]
  BY <1>5, <1>9, Zenon
<1>. HIDE DEF it
<1>11. it[0] = start /\ \A n \in 1 .. N : it[n] = EnterItem(it[n - 1], batch[n])
  <2>1. \A n \in 0 .. N : it[n] = IF n = 0 THEN start ELSE EnterItem(it[n - 1], batch[n])
    BY <1>10, Zenon
  <2>. QED
    BY <1>6, <2>1, Zenon
<1>. DEFINE X == {n \in 0 .. N : it[n] \in Enter(n)}
<1>12. \A n \in 0 .. N : n \in X
  <2>1. 0 \in X
    BY <1>3, <1>6, <1>11
  <2>2. \A n \in 1 .. N : n - 1 \in X => n \in X
    BY <1>4, <1>6, <1>11
  <2>. HIDE DEF X
  <2>. QED
    BY <1>2, <2>1, <2>2, Stepwise
<1>13. it[N] \in Enter(N)
  BY <1>6, <1>12
<1>14. p \in Enter(N)
  BY <1>1, <1>13
<1>. QED
  BY <1>5, <1>14 DEF Enter

------------------------------------------------------------------------------
\* A batch is prepared

\* w is the worker before the step, w2 once everything has entered, w3 once there is
\* a table for every position.
PreparedFor(w, w2, w3, batch) ==
    /\ w3.sharing = w2.sharing /\ w3.states = w2.states
    /\ w3.cache \in GoodCaches(HistoriesOf(w2.states), w3.cache.memory) /\ Fitted(w3.cache)
    /\ DOMAIN w3.cache.tables = DOMAIN w2.states
    /\ \A i \in 1 .. Len(batch) : Length(w3.cache, batch[i].id) = Len(After(w, batch[i]))
    /\ \A x \in DOMAIN w2.states : x \notin IdsOf(batch, Len(batch)) =>
          Length(w3.cache, x) = Len(w2.states[x].history)

LEMMA ReadyLengths ==
  ASSUME NEW w \in Workers, NEW v \in Workers, NEW item \in BatchItems,
         NEW after, after = After(w, item), Ready(v, item, after)
  PROVE  /\ item.id \in DOMAIN v.states
         /\ Len(v.states[item.id].history) \in Nat /\ Len(after) \in Nat \ {0}
         /\ Len(v.states[item.id].history) <= Len(after)
         /\ Target(v, item) = [id |-> item.id, length |-> Len(after)]
         /\ Target(v, item) \in TargetsOf
<1>. DEFINE h == v.states[item.id].history
<1>1. item.id \in DOMAIN v.states /\ Len(h) < Len(after) /\ Extended(v, item) = after
  BY DEF Ready
<1>2. h \in Seq(Token) /\ after \in Seq(Nat) /\ item.id \in Nat
  BY <1>1, WorkerFields, StateOfType
<1>3. Target(v, item) = [id |-> item.id, length |-> Len(after)]
  BY <1>1 DEF Target
<1>. HIDE DEF h
<1>4. Len(h) \in Nat /\ Len(after) \in Nat \ {0} /\ Len(h) <= Len(after)
  BY <1>1, <1>2
<1>. QED
  BY <1>1, <1>2, <1>3, <1>4 DEF h, TargetsOf

LEMMA PrepareBatchGood ==
  ASSUME NEW w \in Settled, NEW batch \in Batches, Distinct(batch),
         NEW p \in Entrances, p.ok, EnteredUpTo(w, p.worker, batch, Len(batch)),
         NEW r, r = PrepareBatch(p, Targets(p.worker, batch))
  PROVE  /\ r \in Entrances
         /\ r.ok => PreparedFor(w, p.worker, r.worker, batch)
<1>. DEFINE N == Len(batch)
            w2 == p.worker
            c == w2.cache
            known == HistoriesOf(w2.states)
            targets == Targets(w2, batch)
            plan == Planned(c, targets)
            d == Committed(plan)
            ids == IdsOf(batch, N)
<1>1. /\ w2 \in Workers /\ N \in Nat /\ \A i \in 1 .. N : batch[i] \in BatchItems /\ batch[i].id \in Nat
      /\ DOMAIN batch = 1 .. N
  <2>1. w2 \in Workers /\ N \in Nat /\ DOMAIN batch = 1 .. N /\ \A i \in 1 .. N : batch[i] \in BatchItems
    BY DEF Entrances, Batches
  <2>. QED
    BY <2>1 DEF BatchItems
<1>2. /\ Sound(w2) /\ DOMAIN w2.states = DOMAIN w.states \cup ids
      /\ DOMAIN w.cache.tables \subseteq DOMAIN c.tables
      /\ \A i \in 1 .. N : Ready(w2, batch[i], After(w, batch[i]))
  <2>1. \A i \in 1 .. N : i <= N
    BY <1>1
  <2>. QED
    BY <2>1 DEF EnteredUpTo
<1>3. /\ c \in GoodCaches(known, c.memory) /\ Fitted(c) /\ c \in Caches
      /\ DOMAIN known = DOMAIN w2.states /\ DOMAIN c.tables \subseteq DOMAIN w2.states
      /\ \A x \in DOMAIN w2.states : Length(c, x) = Len(w2.states[x].history) /\ x \in Nat
  BY <1>1, <1>2, WorkerFields DEF Sound, GoodCaches, Stored
<1>4. /\ DOMAIN w.cache.tables = DOMAIN w.states /\ w \in Workers
  BY DEF Settled
<1>5. \A i \in 1 .. N : /\ batch[i].id \in DOMAIN w2.states
                        /\ Len(w2.states[batch[i].id].history) \in Nat /\ Len(After(w, batch[i])) \in Nat
                        /\ Len(w2.states[batch[i].id].history) <= Len(After(w, batch[i]))
                        /\ Target(w2, batch[i]) = [id |-> batch[i].id, length |-> Len(After(w, batch[i]))]
                        /\ Target(w2, batch[i]) \in TargetsOf
  BY <1>1, <1>2, <1>4, ReadyLengths
<1>6. /\ Len(targets) = N /\ targets \in Seq(TargetsOf)
      /\ \A i \in 1 .. N : targets[i].id = batch[i].id /\ targets[i].length = Len(After(w, batch[i]))
  <2>1. targets = [i \in 1 .. N |-> Target(w2, batch[i])]
    BY <1>1 DEF Targets
  <2>. HIDE DEF targets, w2, N
  <2>2. targets \in [1 .. N -> TargetsOf] /\ \A i \in 1 .. N : targets[i] = Target(w2, batch[i])
    BY <1>5, <2>1
  <2>. QED
    BY <1>1, <1>5, <2>2
<1>. HIDE DEF targets, ids
<1>7. /\ \A i, j \in 1 .. N : targets[i].id = targets[j].id => i = j
      /\ \A i \in 1 .. N : targets[i].id \in DOMAIN known /\ Length(c, targets[i].id) <= targets[i].length
  <2>1. \A i, j \in 1 .. N : targets[i].id = targets[j].id => i = j
    BY <1>6 DEF Distinct
  <2>2. ASSUME NEW i \in 1 .. N
        PROVE  targets[i].id \in DOMAIN known /\ Length(c, targets[i].id) <= targets[i].length
    <3>1. Length(c, batch[i].id) = Len(w2.states[batch[i].id].history)
      BY <1>3, <1>5
    <3>. HIDE DEF c, known, w2
    <3>. QED
      BY <1>3, <1>5, <1>6, <3>1
  <2>. QED
    BY <2>1, <2>2
<1>8. /\ plan \in Plans
      /\ plan.fits =>
           /\ plan.cache \in GoodCaches(known, Resolved(plan.cache.memory, plan.copies)) /\ Fitted(plan.cache)
           /\ DOMAIN plan.cache.tables = DOMAIN c.tables \cup {targets[i].id : i \in 1 .. N}
           /\ \A i \in 1 .. N : Length(plan.cache, targets[i].id) = targets[i].length
           /\ \A x \in Nat : x \notin {targets[i].id : i \in 1 .. N} =>
                 Length(plan.cache, x) = Length(c, x)
  <2>. HIDE DEF known, c, plan, N
  <2>1. /\ \A i, j \in 1 .. Len(targets) : targets[i].id = targets[j].id => i = j
        /\ \A i \in 1 .. Len(targets) : /\ targets[i].id \in DOMAIN known
                                        /\ Length(c, targets[i].id) <= targets[i].length
    BY <1>6, <1>7
  <2>2. plan = Planned(c, targets) /\ c \in GoodCaches(known, c.memory) /\ Fitted(c) /\ targets \in Seq(TargetsOf)
    BY <1>3, <1>6 DEF plan
  <2>3. plan \in Plans
    BY <2>1, <2>2, PlannedGood
  <2>4. plan.fits => plan.cache \in GoodCaches(known, Resolved(plan.cache.memory, plan.copies))
    BY <2>1, <2>2, PlannedGood
  <2>5. plan.fits => Fitted(plan.cache)
    BY <2>1, <2>2, PlannedGood
  <2>6. plan.fits => DOMAIN plan.cache.tables = DOMAIN c.tables \cup {targets[i].id : i \in 1 .. Len(targets)}
    BY <2>1, <2>2, PlannedGood, SMTT(30)
  <2>7. plan.fits => \A i \in 1 .. Len(targets) : Length(plan.cache, targets[i].id) = targets[i].length
    BY <2>1, <2>2, PlannedGood
  <2>8. plan.fits => \A x \in Nat : x \notin {targets[i].id : i \in 1 .. Len(targets)} =>
                        Length(plan.cache, x) = Length(c, x)
    BY <2>1, <2>2, PlannedGood
  <2>. QED
    BY <1>6, <2>3, <2>7, <2>8, <2>4, <2>5, <2>6
<1>9. {targets[i].id : i \in 1 .. N} = ids
  BY <1>6 DEF ids, IdsOf
<1>10. CASE ~Shrinks(c, targets) /\ plan.fits
  <2>1. r = [p EXCEPT !.worker.cache = d]
    BY <1>10, Zenon DEF PrepareBatch, targets
  <2>. HIDE DEF plan
  <2>2. /\ d \in GoodCaches(known, d.memory) /\ Fitted(d)
        /\ d.lengths = plan.cache.lengths /\ d.tables = plan.cache.tables
    <3>. HIDE DEF known
    <3>1. Fitted(plan.cache) /\ plan.cache \in GoodCaches(known, Resolved(plan.cache.memory, plan.copies))
      BY <1>8, <1>10
    <3>. QED
      BY <1>8, <3>1, CommittedGood
  <2>. HIDE DEF d, c
  <2>3. d \in Caches
    BY <2>2 DEF GoodCaches
  <2>4. r \in Entrances /\ r.worker = [w2 EXCEPT !.cache = d] /\ r.worker.cache = d
        /\ r.worker.states = w2.states /\ r.worker.sharing = w2.sharing
    <3>1. [w2 EXCEPT !.cache = d] \in Workers
      BY <1>1, <2>3 DEF Workers
    <3>2. r = [p EXCEPT !.worker = [w2 EXCEPT !.cache = d]]
      BY <2>1 DEF Entrances
    <3>. QED
      BY <1>1, <2>3, <3>1, <3>2 DEF Entrances, Workers
  <2>5. \A x : Length(d, x) = Length(plan.cache, x)
    BY <2>2 DEF Length
  <2>6. DOMAIN d.tables = DOMAIN w2.states
    <3>1. DOMAIN d.tables = DOMAIN c.tables \cup ids
      BY <1>8, <1>9, <1>10, <2>2
    <3>. QED
      BY <1>2, <1>3, <1>4, <3>1 DEF c
  <2>7. \A i \in 1 .. N : Length(d, batch[i].id) = Len(After(w, batch[i]))
    BY <1>6, <1>8, <1>10, <2>5
  <2>8. \A x \in DOMAIN w2.states : x \notin ids => Length(d, x) = Len(w2.states[x].history)
    BY <1>3, <1>8, <1>9, <1>10, <2>5
  <2>9. PreparedFor(w, w2, r.worker, batch)
    BY <2>2, <2>4, <2>6, <2>7, <2>8 DEF PreparedFor, known, ids, N
  <2>. QED
    BY <2>4, <2>9
<1>11. CASE ~(~Shrinks(c, targets) /\ plan.fits)
  <2>1. r = [p EXCEPT !.ok = FALSE]
    BY <1>11, Zenon DEF PrepareBatch, targets
  <2>2. r \in Entrances /\ ~r.ok
    BY <2>1 DEF Entrances
  <2>. QED
    BY <2>2
<1>. QED
  BY <1>10, <1>11

------------------------------------------------------------------------------
\* A batch is written

ItemOf(batch, id) == batch[CHOOSE i \in 1 .. Len(batch) : batch[i].id = id]

\* What the tables hold once the rows of the first n items are written.
KnownAfter(w, states, batch, n) ==
    [id \in DOMAIN states |-> IF id \in IdsOf(batch, n) THEN After(w, ItemOf(batch, id))
                              ELSE states[id].history]

\* w3 is the worker before the first row is written, v after the rows of n items.
WrittenUpTo(w, w3, v, batch, n) ==
    /\ v.sharing = w3.sharing /\ v.states = w3.states
    /\ v.cache.tables = w3.cache.tables /\ v.cache.lengths = w3.cache.lengths
    /\ v.cache \in GoodCaches(KnownAfter(w, w3.states, batch, n), v.cache.memory)

LEMMA KnownGrows ==
  ASSUME NEW w, NEW states, NEW batch \in Batches, Distinct(batch), NEW n \in 1 .. Len(batch),
         batch[n].id \in DOMAIN states
  PROVE  /\ KnownAfter(w, states, batch, n)
               = With(KnownAfter(w, states, batch, n - 1), batch[n].id, After(w, batch[n]))
         /\ KnownAfter(w, states, batch, 0) = HistoriesOf(states)
         /\ ItemOf(batch, batch[n].id) = batch[n]
<1>1. /\ IdsOf(batch, n) = IdsOf(batch, n - 1) \cup {batch[n].id}
      /\ batch[n].id \notin IdsOf(batch, n - 1) /\ IdsOf(batch, 0) = {}
  BY IdsGrow
<1>2. ItemOf(batch, batch[n].id) = batch[n]
  BY DEF ItemOf, Distinct
<1>3. KnownAfter(w, states, batch, 0) = HistoriesOf(states)
  BY <1>1 DEF KnownAfter, HistoriesOf
<1>4. KnownAfter(w, states, batch, n)
         = With(KnownAfter(w, states, batch, n - 1), batch[n].id, After(w, batch[n]))
  <2>. DEFINE f == KnownAfter(w, states, batch, n)
              g == With(KnownAfter(w, states, batch, n - 1), batch[n].id, After(w, batch[n]))
  <2>1. DOMAIN f = DOMAIN states /\ DOMAIN g = DOMAIN states
        /\ f = [id \in DOMAIN f |-> f[id]] /\ g = [id \in DOMAIN g |-> g[id]]
    BY DEF KnownAfter, With
  <2>2. \A id \in DOMAIN states : f[id] = g[id]
    BY <1>1, <1>2 DEF KnownAfter, With
  <2>. HIDE DEF f, g
  <2>3. f = g
    BY <2>1, <2>2
  <2>. QED
    BY <2>3 DEF f, g
<1>. QED
  BY <1>2, <1>3, <1>4

LEMMA WriteBatchGood ==
  ASSUME NEW w \in Settled, NEW batch \in Batches, NEW w2 \in Workers, NEW p \in Entrances,
         p.ok => /\ Distinct(batch) /\ EnteredUpTo(w, w2, batch, Len(batch))
                 /\ PreparedFor(w, w2, p.worker, batch),
         NEW r, r = Iterated(WriteItem, p, batch)
  PROVE  /\ r \in Entrances
         /\ r.ok => p.ok /\ WrittenUpTo(w, p.worker, r.worker, batch, Len(batch))
<1>. DEFINE N == Len(batch)
            w3 == p.worker
            K(n) == KnownAfter(w, w2.states, batch, n)
            Write(n) == {q \in Entrances : q.ok => p.ok /\ WrittenUpTo(w, w3, q.worker, batch, n)}
            it == CHOOSE h : h = [n \in 0 .. Len(batch) |->
                                     IF n = 0 THEN p ELSE WriteItem(h[n - 1], batch[n])]
<1>1. r = it[N]
  BY Zenon DEF Iterated
<1>2. /\ N \in Nat /\ \A n \in 1 .. N : batch[n] \in BatchItems
      /\ w \in Workers /\ w3 \in Workers
  BY DEF Batches, Settled, Entrances
<1>3. p \in Write(0)
  <2>1. IdsOf(batch, 0) = {}
    BY DEF IdsOf
  <2>2. KnownAfter(w, w3.states, batch, 0) = HistoriesOf(w3.states)
    BY <2>1 DEF KnownAfter, HistoriesOf
  <2>3. p.ok => WrittenUpTo(w, w3, w3, batch, 0)
    BY <2>2 DEF WrittenUpTo, PreparedFor
  <2>. QED
    BY <2>3
<1>4. ASSUME NEW n \in 1 .. N, NEW q \in Write(n - 1) PROVE WriteItem(q, batch[n]) \in Write(n)
  <2>. DEFINE item == batch[n]
              id == item.id
              u == q.worker
              x == WriteItem(q, item)
              v == WrittenRows(u, item)
  <2>1. q \in Entrances /\ u \in Workers /\ item \in BatchItems
    BY <1>2 DEF Entrances
  <2>2. CASE q.ok /\ \A i \in Rows(u, item) : Writable(u.cache, item.id, i)
    <3>1. x = [q EXCEPT !.worker = v]
      BY <2>2, Zenon DEF WriteItem
    <3>2. /\ WrittenUpTo(w, w3, u, batch, n - 1) /\ PreparedFor(w, w2, w3, batch) /\ p.ok
          /\ Distinct(batch) /\ EnteredUpTo(w, w2, batch, Len(batch))
      BY <2>2
    <3>. DEFINE after == After(w, item)
                h == w2.states[id].history
                c == u.cache
                known == K(n - 1)
                d == Written(c, id, Len(h) + 1 .. Len(after), KVOf(after))
    <3>3. Ready(w2, item, after)
      <4>1. n <= N
        BY <1>2
      <4>. QED
        BY <3>2, <4>1 DEF EnteredUpTo
    <3>4. /\ u.states = w2.states /\ u.sharing = w2.sharing /\ w3.states = w2.states
          /\ c \in GoodCaches(known, c.memory)
          /\ c.tables = w3.cache.tables /\ c.lengths = w3.cache.lengths
      BY <3>2 DEF WrittenUpTo, PreparedFor
    <3>5. /\ id \in DOMAIN w2.states /\ Extended(w2, item) = after
          /\ \A i \in 1 .. Len(h) : after[i] = h[i]
      BY <3>3 DEF Ready
    <3>6. after \in Seq(Nat) /\ Len(h) \in Nat /\ Len(after) \in Nat /\ Len(h) <= Len(after)
      <4>1. after \in Seq(Nat)
        BY <1>2, <2>1, StateOfType
      <4>. QED
        BY <1>2, <2>1, <3>3, <4>1, ReadyLengths
    <3>7. Rows(u, item) = Len(h) + 1 .. Len(after) /\ Extended(u, item) = after
      BY <3>4, <3>5 DEF Rows, Extended
    <3>8. v = [u EXCEPT !.cache = d]
      <4>. HIDE DEF after, h, id
      <4>. QED
        BY <3>7, Zenon DEF WrittenRows, id
    <3>9. K(n) = With(known, id, after) /\ known[id] = h
      <4>. DEFINE states == w2.states
      <4>1. batch[n].id \in DOMAIN states /\ n \in 1 .. Len(batch)
        BY <3>5
      <4>. HIDE DEF states
      <4>2. KnownAfter(w, states, batch, n)
                 = With(KnownAfter(w, states, batch, n - 1), batch[n].id, After(w, batch[n]))
        BY <3>2, <4>1, KnownGrows
      <4>3. KnownAfter(w, states, batch, n - 1)[batch[n].id] = states[batch[n].id].history
        <5>1. batch[n].id \notin IdsOf(batch, n - 1)
          BY <3>2, <4>1, IdsGrow
        <5>. QED
          BY <4>1, <5>1 DEF KnownAfter
      <4>. QED
        BY <4>2, <4>3 DEF states
    <3>10. /\ id \in DOMAIN c.tables /\ BlocksFor(Len(after)) <= Len(c.tables[id])
      <4>1. id \in DOMAIN w3.cache.tables /\ Len(w3.cache.tables[id]) = BlocksFor(w3.cache.lengths[id])
            /\ id \in DOMAIN w3.cache.lengths
        BY <3>2, <3>5 DEF PreparedFor, Fitted
      <4>2. Length(w3.cache, id) = Len(after)
        BY <3>2 DEF PreparedFor
      <4>3. w3.cache.lengths[id] = Len(after)
        BY <4>1, <4>2 DEF Length
      <4>4. BlocksFor(Len(after)) \in Nat
        BY <3>6, BlocksEnough
      <4>. HIDE DEF after
      <4>. QED
        BY <3>4, <4>1, <4>3, <4>4
    <3>11. \A i \in Len(h) + 1 .. Len(after) : Writable(c, id, i)
      BY <2>2, <3>7
    <3>. HIDE DEF after, h, K, w3, id, d
    <3>12. d \in GoodCaches(With(known, id, after), d.memory) /\ d.lengths = c.lengths /\ d.tables = c.tables
      <4>. DEFINE old == Len(h)
      <4>1. /\ old = Len(known[id]) /\ old <= Len(after) /\ \A i \in 1 .. old : after[i] = known[id][i]
            /\ d = Written(c, id, old + 1 .. Len(after), KVOf(after))
            /\ \A i \in old + 1 .. Len(after) : Writable(c, id, i)
        BY <3>5, <3>6, <3>9, <3>11 DEF d
      <4>2. c \in GoodCaches(known, c.memory)
        BY <3>4
      <4>. HIDE DEF old, known, c
      <4>3. d \in GoodCaches(With(known, id, after), d.memory)
        BY <3>6, <3>10, <4>1, <4>2, WrittenGood
      <4>4. d.lengths = c.lengths /\ d.tables = c.tables
        <5>1. c \in Caches
          BY <4>2 DEF GoodCaches
        <5>. QED
          BY <4>1, <5>1 DEF Written, Caches
      <4>. QED
        BY <4>3, <4>4
    <3>. HIDE DEF known, c
    <3>13. d \in Caches
      BY <3>12 DEF GoodCaches
    <3>. HIDE DEF v
    <3>14. v \in Workers /\ v.cache = d /\ v.states = u.states /\ v.sharing = u.sharing
      BY <2>1, <3>8, <3>13 DEF Workers
    <3>. HIDE DEF x, u
    <3>15. x \in Entrances /\ x.worker = v /\ x.ok
      BY <2>1, <2>2, <3>1, <3>14 DEF Entrances
    <3>16. v.cache \in GoodCaches(K(n), v.cache.memory)
      BY <3>9, <3>12, <3>14
    <3>17. WrittenUpTo(w, w3, v, batch, n)
      <4>1. K(n) = KnownAfter(w, w3.states, batch, n)
        BY <3>4 DEF K
      <4>2. v.sharing = w3.sharing /\ v.states = w3.states
        BY <3>2, <3>14 DEF WrittenUpTo, u
      <4>3. v.cache.tables = w3.cache.tables /\ v.cache.lengths = w3.cache.lengths
        BY <3>4, <3>12, <3>14
      <4>. QED
        BY <3>16, <4>1, <4>2, <4>3 DEF WrittenUpTo
    <3>. QED
      BY <3>2, <3>15, <3>17 DEF x
  <2>3. CASE ~ (q.ok /\ \A i \in Rows(u, item) : Writable(u.cache, item.id, i))
    <3>1. x = [q EXCEPT !.ok = FALSE]
      BY <2>3, Zenon DEF WriteItem
    <3>. HIDE DEF item, u, x
    <3>2. x \in Entrances /\ ~x.ok
      BY <2>1, <3>1 DEF Entrances
    <3>. QED
      BY <3>2 DEF x, item
  <2>. QED
    BY <2>2, <2>3
<1>5. N = Len(batch)
  OBVIOUS
<1>. HIDE DEF N, w3, K
<1>. DEFINE S == [n \in 0 .. N |-> Write(n)]
            move == [n \in 1 .. N |-> [q \in Entrances |-> WriteItem(q, batch[n])]]
<1>6. /\ \A n \in 0 .. N : S[n] = Write(n)
      /\ \A n \in 0 .. N : Write(n) \subseteq Entrances
      /\ 0 \in 0 .. N /\ N \in 0 .. N
      /\ \A n \in 1 .. N : n \in 0 .. N /\ n - 1 \in 0 .. N /\ n # 0
      /\ \A n \in 0 .. N : n = 0 \/ n \in 1 .. N
  BY <1>2
<1>. HIDE DEF S, Write
<1>7. \A n \in 1 .. N : \A q \in S[n - 1] : move[n][q] = WriteItem(q, batch[n]) /\ move[n][q] \in S[n]
  BY <1>4, <1>6
<1>. HIDE DEF move
<1>8. PICK f : Orbit(f, N, p, move) /\ \A n \in 0 .. N : f[n] \in S[n]
  <2>1. p \in S[0] /\ \A n \in 1 .. N : \A d \in S[n - 1] : move[n][d] \in S[n]
    BY <1>3, <1>6, <1>7
  <2>. QED
    BY <1>2, <2>1, OrbitExists
<1>9. f = [n \in 0 .. N |-> IF n = 0 THEN p ELSE WriteItem(f[n - 1], batch[n])]
  <2>1. f = [n \in 0 .. N |-> IF n = 0 THEN p ELSE move[n][f[n - 1]]]
    BY <1>8 DEF Orbit
  <2>2. \A n \in 0 .. N : n # 0 => move[n][f[n - 1]] = WriteItem(f[n - 1], batch[n])
    BY <1>6, <1>7, <1>8
  <2>. QED
    BY <2>1, <2>2, Zenon
<1>10. it = [n \in 0 .. N |-> IF n = 0 THEN p ELSE WriteItem(it[n - 1], batch[n])]
  BY <1>5, <1>9, Zenon
<1>. HIDE DEF it
<1>11. it[0] = p /\ \A n \in 1 .. N : it[n] = WriteItem(it[n - 1], batch[n])
  <2>1. \A n \in 0 .. N : it[n] = IF n = 0 THEN p ELSE WriteItem(it[n - 1], batch[n])
    BY <1>10, Zenon
  <2>. QED
    BY <1>6, <2>1, Zenon
<1>. DEFINE X == {n \in 0 .. N : it[n] \in Write(n)}
<1>12. \A n \in 0 .. N : n \in X
  <2>1. 0 \in X
    BY <1>3, <1>6, <1>11
  <2>2. \A n \in 1 .. N : n - 1 \in X => n \in X
    BY <1>4, <1>6, <1>11
  <2>. HIDE DEF X
  <2>. QED
    BY <1>2, <2>1, <2>2, Stepwise
<1>13. it[N] \in Write(N)
  BY <1>6, <1>12
<1>14. r \in Write(N)
  BY <1>1, <1>13
<1>. QED
  BY <1>5, <1>14 DEF Write, w3

------------------------------------------------------------------------------
\* Tokens are picked

LEMMA GreedyType ==
  ASSUME NEW context
  PROVE  Greedy(context) \in 1 .. Vocabulary
<1>. DEFINE V == Vocabulary
            pick(b, t) == IF Above(context, t, b) THEN t ELSE b
            Token1(n) == 1 .. V
            it == CHOOSE h : h = [t \in 0 .. Vocabulary |->
                                     IF t = 0 THEN 1
                                     ELSE IF Above(context, t, h[t - 1]) THEN t ELSE h[t - 1]]
<1>1. Greedy(context) = it[V]
  BY Zenon DEF Greedy
<1>2. V \in Nat /\ V >= 1
  BY VocabularyAssumption
<1>. HIDE DEF V
<1>3. 1 \in Token1(0)
  BY <1>2
<1>4. ASSUME NEW n \in 1 .. V, NEW q \in Token1(n - 1) PROVE pick(q, n) \in Token1(n)
  OBVIOUS
<1>5. V = Vocabulary
  BY DEF V
<1>. DEFINE S == [n \in 0 .. V |-> Token1(n)]
            move == [n \in 1 .. V |-> [q \in Nat |-> pick(q, n)]]
<1>6. /\ \A n \in 0 .. V : S[n] = Token1(n)
      /\ \A n \in 0 .. V : Token1(n) \subseteq Nat
      /\ 0 \in 0 .. V /\ V \in 0 .. V
      /\ \A n \in 1 .. V : n \in 0 .. V /\ n - 1 \in 0 .. V /\ n # 0
      /\ \A n \in 0 .. V : n = 0 \/ n \in 1 .. V
  BY <1>2
<1>. HIDE DEF S, Token1
<1>7. \A n \in 1 .. V : \A q \in S[n - 1] : move[n][q] = pick(q, n) /\ move[n][q] \in S[n]
  BY <1>4, <1>6
<1>. HIDE DEF move
<1>8. PICK f : Orbit(f, V, 1, move) /\ \A n \in 0 .. V : f[n] \in S[n]
  <2>1. 1 \in S[0] /\ \A n \in 1 .. V : \A d \in S[n - 1] : move[n][d] \in S[n]
    BY <1>3, <1>6, <1>7
  <2>. QED
    BY <1>2, <2>1, OrbitExists
<1>9. f = [n \in 0 .. V |-> IF n = 0 THEN 1 ELSE pick(f[n - 1], n)]
  <2>1. f = [n \in 0 .. V |-> IF n = 0 THEN 1 ELSE move[n][f[n - 1]]]
    BY <1>8 DEF Orbit
  <2>2. \A n \in 0 .. V : n # 0 => move[n][f[n - 1]] = pick(f[n - 1], n)
    BY <1>6, <1>7, <1>8
  <2>. QED
    BY <2>1, <2>2, Zenon
<1>10. it = [n \in 0 .. V |-> IF n = 0 THEN 1 ELSE pick(it[n - 1], n)]
  BY <1>5, <1>9, Zenon
<1>. HIDE DEF it
<1>11. it[0] = 1 /\ \A n \in 1 .. V : it[n] = pick(it[n - 1], n)
  <2>1. \A n \in 0 .. V : it[n] = IF n = 0 THEN 1 ELSE pick(it[n - 1], n)
    BY <1>10, Zenon
  <2>. QED
    BY <1>6, <2>1, Zenon
<1>. DEFINE X == {n \in 0 .. V : it[n] \in Token1(n)}
<1>12. \A n \in 0 .. V : n \in X
  <2>1. 0 \in X
    BY <1>3, <1>6, <1>11
  <2>2. \A n \in 1 .. V : n - 1 \in X => n \in X
    BY <1>4, <1>6, <1>11
  <2>. HIDE DEF X
  <2>. QED
    BY <1>2, <2>1, <2>2, Stepwise
<1>13. it[V] \in Token1(V)
  BY <1>6, <1>12
<1>. QED
  BY <1>1, <1>13 DEF Token1, V

LEMMA ReadIs ==
  ASSUME NEW c, NEW m, NEW tokens \in Seq(Nat), ReadsAs(c.memory, m, tokens)
  PROVE  ReadKV(c, m, Len(tokens)) = KVOf(tokens)
<1>1. ASSUME NEW i \in 1 .. Len(tokens)
      PROVE  c.memory[BlockAt(m, i)][SlotAt(i)] = [token |-> tokens[i], at |-> i]
  <2>1. i \in Nat \ {0}
    OBVIOUS
  <2>2. BlockAt(m, i) = m[BlocksFor(i)]
    BY <2>1, PositionOf
  <2>. QED
    BY <2>2 DEF ReadsAs
<1>. QED
  BY <1>1, Zenon DEF ReadKV, KVOf

Finishes == [worker : Workers, ok : BOOLEAN, tokens : Seq(Nat)]

\* w4 is the worker once every row is written, v once n items are through.
FinishedUpTo(w, w4, v, tokens, batch, n) ==
    /\ v.sharing = w4.sharing
    /\ v.cache.tables = w4.cache.tables /\ v.cache.lengths = w4.cache.lengths
    /\ v.cache \in GoodCaches(KnownAfter(w, w4.states, batch, Len(batch)), v.cache.memory)
    /\ DOMAIN v.states = DOMAIN w4.states
    /\ \A x \in DOMAIN w4.states : x \notin IdsOf(batch, n) => v.states[x] = w4.states[x]
    /\ Len(tokens) = n
    /\ \A i \in 1 .. Len(batch) : i <= n =>
          /\ v.states[batch[i].id].history = After(w, batch[i])
          /\ tokens[i] \in {NoToken, Greedy(KVOf(After(w, batch[i])))}

\* One item is through.
LEMMA AdvancedIs ==
  ASSUME NEW u \in Workers, NEW item \in BatchItems, item.id \in DOMAIN u.states,
         NEW after \in Seq(Token), Extended(u, item) = after
  PROVE  Advanced(u, item) \in States /\ Advanced(u, item).history = after
<1>. DEFINE s == [u.states[item.id] EXCEPT !.history = after]
            a == Advanced(u, item)
<1>1. s \in States /\ s.history = after /\ s.generated \in Nat
  <2>1. u.states[item.id] \in States
    BY WorkerFields
  <2>. QED
    BY <2>1 DEF States
<1>2. Pick(u, item) \in Nat
  <2>1. Pick(u, item) \in 1 .. Vocabulary
    BY GreedyType DEF Pick
  <2>. QED
    BY <2>1
<1>3. item.original \in Originals
  BY DEF BatchItems
<1>. HIDE DEF s
<1>4. \/ a = [s EXCEPT !.prompt = item.original.prompt, !.budget = item.original.budget,
                       !.generated = item.original.generated, !.last = item.original.last]
      \/ a = [s EXCEPT !.last = Pick(u, item), !.generated = s.generated + 1]
      \/ a = s
  BY Zenon DEF Advanced, s
<1>. HIDE DEF a
<1>5. a \in States /\ a.history = after
  <2>1. CASE a = [s EXCEPT !.prompt = item.original.prompt, !.budget = item.original.budget,
                           !.generated = item.original.generated, !.last = item.original.last]
    BY <1>1, <1>3, <2>1 DEF States, Originals
  <2>2. CASE a = [s EXCEPT !.last = Pick(u, item), !.generated = s.generated + 1]
    <3>. DEFINE g == s.generated + 1
                t == Pick(u, item)
    <3>1. g \in Nat /\ t \in Nat /\ a = [s EXCEPT !.last = t, !.generated = g]
      BY <1>1, <1>2, <2>2
    <3>. HIDE DEF g, t
    <3>. QED
      BY <1>1, <3>1 DEF States
  <2>3. CASE a = s
    BY <1>1, <2>3
  <2>. QED
    BY <1>4, <2>1, <2>2, <2>3
<1>. QED
  BY <1>5 DEF a

LEMMA FinishBatchGood ==
  ASSUME NEW w \in Settled, NEW batch \in Batches, NEW w2 \in Workers, NEW p \in Entrances,
         p.ok => /\ Distinct(batch) /\ EnteredUpTo(w, w2, batch, Len(batch))
                 /\ p.worker.states = w2.states /\ DOMAIN p.worker.cache.tables = DOMAIN w2.states
                 /\ p.worker.cache \in GoodCaches(KnownAfter(w, w2.states, batch, Len(batch)),
                                                  p.worker.cache.memory),
         NEW r, r = FinishBatch(p, batch)
  PROVE  /\ r \in Finishes
         /\ r.ok => p.ok /\ FinishedUpTo(w, p.worker, r.worker, r.tokens, batch, Len(batch))
<1>. DEFINE N == Len(batch)
            w4 == p.worker
            K == KnownAfter(w, w4.states, batch, Len(batch))
            start == [worker |-> p.worker, ok |-> p.ok, tokens |-> <<>>]
            Finish1(n) == {q \in Finishes : q.ok => p.ok /\ FinishedUpTo(w, w4, q.worker, q.tokens, batch, n)}
            it == CHOOSE h : h = [n \in 0 .. Len(batch) |->
                                     IF n = 0 THEN start ELSE FinishItem(h[n - 1], batch[n])]
<1>1. r = it[N]
  BY Zenon DEF FinishBatch, Iterated
<1>2. /\ N \in Nat /\ \A n \in 1 .. N : batch[n] \in BatchItems
      /\ w \in Workers /\ w4 \in Workers
  BY DEF Batches, Settled, Entrances
<1>3. start \in Finish1(0)
  <2>1. IdsOf(batch, 0) = {} /\ \A i \in 1 .. N : ~(i <= 0)
    BY <1>2 DEF IdsOf
  <2>2. p.ok => FinishedUpTo(w, w4, w4, <<>>, batch, 0)
    BY <2>1 DEF FinishedUpTo
  <2>3. start.worker = w4 /\ start.tokens = <<>> /\ start.ok = p.ok
    OBVIOUS
  <2>4. start \in Finishes
    <3>1. <<>> \in Seq(Nat) /\ p.ok \in BOOLEAN
      BY DEF Entrances
    <3>. QED
      BY <1>2, <3>1 DEF Finishes
  <2>. HIDE DEF start
  <2>. QED
    BY <2>2, <2>3, <2>4
<1>4. ASSUME NEW n \in 1 .. N, NEW q \in Finish1(n - 1) PROVE FinishItem(q, batch[n]) \in Finish1(n)
  <2>. DEFINE item == batch[n]
              id == item.id
              u == q.worker
              x == FinishItem(q, item)
              v == Finished(u, item)
              e == Emitted(u, item)
              tokens == Append(q.tokens, e)
  <2>1. q \in Finishes /\ u \in Workers /\ item \in BatchItems /\ q.tokens \in Seq(Nat)
    BY <1>2 DEF Finishes
  <2>2. CASE q.ok /\ ~Mismatch(u, item)
    <3>1. x = [q EXCEPT !.worker = v, !.tokens = tokens]
      BY <2>2, Zenon DEF FinishItem
    <3>2. /\ FinishedUpTo(w, w4, u, q.tokens, batch, n - 1) /\ p.ok
          /\ Distinct(batch) /\ EnteredUpTo(w, w2, batch, Len(batch))
      BY <2>2
    <3>. DEFINE after == After(w, item)
                s == Advanced(u, item)
                c == u.cache
                d == IF u.sharing THEN Published(c, id, s.history) ELSE c
                states == [u.states EXCEPT ![id] = s]
    <3>3. /\ IdsOf(batch, n) = IdsOf(batch, n - 1) \cup {id}
          /\ id \notin IdsOf(batch, n - 1) /\ n \in Nat
          /\ \A i \in 1 .. N : /\ i <= n => i <= n - 1 \/ i = n
                               /\ i # n => batch[i].id # id
      BY <1>2, <3>2, IdsGrow
    <3>4. /\ Ready(w2, item, after) /\ n <= N
      <4>1. n <= N
        BY <1>2
      <4>. QED
        BY <3>2, <4>1 DEF EnteredUpTo
    <3>5. /\ id \in DOMAIN w2.states /\ id \in DOMAIN w4.states /\ id \in DOMAIN w4.cache.tables
          /\ w4.states = w2.states
      BY <3>2, <3>4 DEF Ready
    <3>6. /\ v = [u EXCEPT !.states = states, !.cache = d]
      BY <2>1, Zenon DEF Finished
    <3>. HIDE DEF K, w4
    <3>7. /\ u.sharing = w4.sharing
          /\ c.tables = w4.cache.tables /\ c.lengths = w4.cache.lengths
          /\ c \in GoodCaches(K, c.memory)
          /\ DOMAIN u.states = DOMAIN w4.states
          /\ \A y \in DOMAIN w4.states : y \notin IdsOf(batch, n - 1) => u.states[y] = w4.states[y]
          /\ Len(q.tokens) = n - 1
          /\ \A i \in 1 .. N : i <= n - 1 =>
                /\ u.states[batch[i].id].history = After(w, batch[i])
                /\ q.tokens[i] \in {NoToken, Greedy(KVOf(After(w, batch[i])))}
      BY <3>2 DEF FinishedUpTo, K
    <3>8. u.states[id] = w2.states[id] /\ id \in DOMAIN u.states
      BY <3>3, <3>5, <3>7
    <3>9. Extended(u, item) = after /\ after \in Seq(Token) /\ after \in Seq(Nat)
      <4>1. Extended(w2, item) = after
        BY <3>4 DEF Ready
      <4>2. Extended(u, item) = Extended(w2, item)
        BY <3>8 DEF Extended
      <4>. QED
        BY <1>2, <2>1, <4>1, <4>2, StateOfType
    <3>10. s \in States /\ s.history = after
      <4>. HIDE DEF after, s, u, item
      <4>. QED
        BY <2>1, <3>8, <3>9, AdvancedIs DEF s, id
    <3>11. K[id] = after
      <4>1. ItemOf(batch, id) = item
        BY <3>2 DEF ItemOf, Distinct
      <4>2. id \in IdsOf(batch, Len(batch))
        BY DEF IdsOf
      <4>. QED
        BY <3>5, <4>1, <4>2 DEF K, KnownAfter
    <3>12. d \in GoodCaches(K, d.memory) /\ d.lengths = c.lengths /\ d.tables = c.tables
      <4>1. CASE u.sharing
        <5>1. d = Published(c, id, after) /\ id \in DOMAIN c.tables
          BY <3>5, <3>7, <3>10, <4>1
        <5>. DEFINE memory == c.memory
        <5>2. c \in GoodCaches(K, memory)
          BY <3>7
        <5>. HIDE DEF d, memory, c, after, id
        <5>3. d \in GoodCaches(K, memory)
          BY <3>11, <5>1, <5>2, PublishedGood
        <5>4. d.lengths = c.lengths
          BY <3>11, <5>1, <5>2, PublishedGood
        <5>5. d.tables = c.tables
          BY <3>11, <5>1, <5>2, PublishedGood
        <5>6. d.memory = c.memory
          BY <3>11, <5>1, <5>2, PublishedGood
        <5>. QED
          BY <5>3, <5>4, <5>5, <5>6 DEF memory
      <4>2. CASE ~u.sharing
        <5>1. d = c
          BY <4>2
        <5>. HIDE DEF d
        <5>. QED
          BY <3>7, <5>1
      <4>. QED
        BY <4>1, <4>2
    <3>13. e \in {NoToken, Greedy(KVOf(after))} /\ e \in Nat
      <4>1. e \in {NoToken, Pick(u, item)}
        BY DEF Emitted
      <4>2. Pick(u, item) = Greedy(KVOf(after))
        <5>1. c \in Caches /\ Stored(c, c.memory, K) /\ id \in DOMAIN K /\ Table(c, id) = c.tables[id]
          BY <3>5, <3>7 DEF GoodCaches, K, KnownAfter, Table
        <5>2. ReadsAs(c.memory, c.tables[id], after)
          BY <3>11, <5>1 DEF Stored
        <5>. HIDE DEF c, after
        <5>3. ReadKV(c, c.tables[id], Len(after)) = KVOf(after)
          BY <3>9, <5>2, ReadIs
        <5>. QED
          BY <3>9, <5>3 DEF Pick, c
      <4>3. Greedy(KVOf(after)) \in Nat
        <5>1. Greedy(KVOf(after)) \in 1 .. Vocabulary
          BY GreedyType
        <5>. QED
          BY <5>1
      <4>. QED
        BY <4>1, <4>2, <4>3 DEF NoToken
    <3>. HIDE DEF e
    <3>14. tokens \in Seq(Nat) /\ Len(tokens) = n /\ tokens[n] = e
           /\ \A i \in 1 .. n - 1 : tokens[i] = q.tokens[i]
      BY <2>1, <3>3, <3>7, <3>13
    <3>15. d \in Caches
      BY <3>12 DEF GoodCaches
    <3>16. /\ states \in PartialMaps(Nat, States) /\ DOMAIN states = DOMAIN u.states
           /\ states[id] = s /\ \A y \in DOMAIN u.states \ {id} : states[y] = u.states[y]
      <4>. HIDE DEF s
      <4>1. u.states \in PartialMaps(Nat, States)
        BY <2>1, WorkerFields
      <4>2. u.states \in [DOMAIN u.states -> States] /\ DOMAIN u.states \subseteq Nat
        BY <4>1, MapsAre
      <4>3. states \in [DOMAIN u.states -> States] /\ DOMAIN states = DOMAIN u.states
        BY <3>8, <3>10, <4>2
      <4>4. states \in PartialMaps(Nat, States)
        BY <4>2, <4>3, MapsAre
      <4>. QED
        BY <3>8, <4>3, <4>4
    <3>. HIDE DEF d, states, v, tokens
    <3>17. v \in Workers /\ v.sharing = u.sharing /\ v.cache = d /\ v.states = states
      BY <2>1, <3>6, <3>15, <3>16 DEF Workers
    <3>. HIDE DEF x, u
    <3>18. x \in Finishes /\ x.worker = v /\ x.tokens = tokens /\ x.ok
      BY <2>1, <2>2, <3>1, <3>14, <3>17 DEF Finishes
    <3>. HIDE DEF s, after, item
    <3>19. \A y \in DOMAIN w4.states : y \notin IdsOf(batch, n) => states[y] = w4.states[y]
      BY <3>3, <3>7, <3>16
    <3>20. ASSUME NEW i \in 1 .. N, i <= n
           PROVE  /\ states[batch[i].id].history = After(w, batch[i])
                  /\ tokens[i] \in {NoToken, Greedy(KVOf(After(w, batch[i])))}
      <4>1. CASE i = n
        <5>1. states[batch[i].id].history = after
          BY <3>10, <3>16, <4>1 DEF id, item
        <5>. QED
          BY <3>13, <3>14, <4>1, <5>1 DEF after, item
      <4>2. CASE i # n
        <5>1. i <= n - 1 /\ i \in 1 .. n - 1 /\ batch[i].id # id
          BY <3>3, <3>20, <4>2
        <5>2. batch[i].id \in DOMAIN u.states
          <6>1. Ready(w2, batch[i], After(w, batch[i]))
            <7>1. i <= Len(batch)
              BY <1>2
            <7>. QED
              BY <3>2, <7>1 DEF EnteredUpTo
          <6>. QED
            BY <3>5, <3>7, <6>1 DEF Ready
        <5>3. states[batch[i].id] = u.states[batch[i].id] /\ tokens[i] = q.tokens[i]
          BY <3>14, <3>16, <5>1, <5>2
        <5>. QED
          BY <3>7, <5>1, <5>3
      <4>. QED
        BY <4>1, <4>2
    <3>21. FinishedUpTo(w, w4, v, tokens, batch, n)
      BY <3>7, <3>12, <3>14, <3>16, <3>17, <3>19, <3>20 DEF FinishedUpTo, K
    <3>. QED
      BY <3>2, <3>18, <3>21 DEF x, item
  <2>3. CASE ~ (q.ok /\ ~Mismatch(u, item))
    <3>1. x = [q EXCEPT !.ok = FALSE]
      BY <2>3, Zenon DEF FinishItem
    <3>. HIDE DEF item, u, x
    <3>2. x \in Finishes /\ ~x.ok
      BY <2>1, <3>1 DEF Finishes
    <3>. QED
      BY <3>2 DEF x, item
  <2>. QED
    BY <2>2, <2>3
<1>5. N = Len(batch)
  OBVIOUS
<1>. HIDE DEF N, w4, K, start
<1>. DEFINE S == [n \in 0 .. N |-> Finish1(n)]
            move == [n \in 1 .. N |-> [q \in Finishes |-> FinishItem(q, batch[n])]]
<1>6. /\ \A n \in 0 .. N : S[n] = Finish1(n)
      /\ \A n \in 0 .. N : Finish1(n) \subseteq Finishes
      /\ 0 \in 0 .. N /\ N \in 0 .. N
      /\ \A n \in 1 .. N : n \in 0 .. N /\ n - 1 \in 0 .. N /\ n # 0
      /\ \A n \in 0 .. N : n = 0 \/ n \in 1 .. N
  BY <1>2
<1>. HIDE DEF S, Finish1
<1>7. \A n \in 1 .. N : \A q \in S[n - 1] : move[n][q] = FinishItem(q, batch[n]) /\ move[n][q] \in S[n]
  BY <1>4, <1>6
<1>. HIDE DEF move
<1>8. PICK f : Orbit(f, N, start, move) /\ \A n \in 0 .. N : f[n] \in S[n]
  <2>1. start \in S[0] /\ \A n \in 1 .. N : \A d \in S[n - 1] : move[n][d] \in S[n]
    BY <1>3, <1>6, <1>7
  <2>. QED
    BY <1>2, <2>1, OrbitExists
<1>9. f = [n \in 0 .. N |-> IF n = 0 THEN start ELSE FinishItem(f[n - 1], batch[n])]
  <2>1. f = [n \in 0 .. N |-> IF n = 0 THEN start ELSE move[n][f[n - 1]]]
    BY <1>8 DEF Orbit
  <2>2. \A n \in 0 .. N : n # 0 => move[n][f[n - 1]] = FinishItem(f[n - 1], batch[n])
    BY <1>6, <1>7, <1>8
  <2>. QED
    BY <2>1, <2>2, Zenon
<1>10. it = [n \in 0 .. N |-> IF n = 0 THEN start ELSE FinishItem(it[n - 1], batch[n])]
  BY <1>5, <1>9, Zenon
<1>. HIDE DEF it
<1>11. it[0] = start /\ \A n \in 1 .. N : it[n] = FinishItem(it[n - 1], batch[n])
  <2>1. \A n \in 0 .. N : it[n] = IF n = 0 THEN start ELSE FinishItem(it[n - 1], batch[n])
    BY <1>10, Zenon
  <2>. QED
    BY <1>6, <2>1, Zenon
<1>. DEFINE X == {n \in 0 .. N : it[n] \in Finish1(n)}
<1>12. \A n \in 0 .. N : n \in X
  <2>1. 0 \in X
    BY <1>3, <1>6, <1>11
  <2>2. \A n \in 1 .. N : n - 1 \in X => n \in X
    BY <1>4, <1>6, <1>11
  <2>. HIDE DEF X
  <2>. QED
    BY <1>2, <2>1, <2>2, Stepwise
<1>13. it[N] \in Finish1(N)
  BY <1>6, <1>12
<1>14. r \in Finish1(N)
  BY <1>1, <1>13
<1>. QED
  BY <1>5, <1>14 DEF Finish1, w4

------------------------------------------------------------------------------
\* A whole step

\* What a step that succeeds makes of the worker w.
SteppedTo(w, v, tokens, batch) ==
    /\ v \in Settled /\ v.sharing = w.sharing
    /\ DOMAIN v.states = DOMAIN w.states \cup IdsOf(batch, Len(batch))
    /\ \A x \in DOMAIN w.states : x \notin IdsOf(batch, Len(batch)) => v.states[x] = w.states[x]
    /\ tokens \in Seq(Nat) /\ Len(tokens) = Len(batch)
    /\ \A i \in 1 .. Len(batch) :
          /\ Accepted(w, batch[i]) /\ ReplayValid(batch[i])
          /\ v.states[batch[i].id].history = After(w, batch[i])
          /\ tokens[i] \in {NoToken, Greedy(KVOf(After(w, batch[i])))}

LEMMA SteppedGood ==
  ASSUME NEW w \in Settled, NEW batch \in Batches, NEW r, r = Stepped(w, batch), r.ok
  PROVE  Distinct(batch) /\ SteppedTo(w, r.worker, r.tokens, batch)
<1>. DEFINE N == Len(batch)
            p == EnterBatch(w, batch)
            targets == IF p.ok THEN Targets(p.worker, batch) ELSE <<>>
            q == PrepareBatch(p, targets)
            x == Iterated(WriteItem, q, batch)
            f == FinishBatch(x, batch)
            w2 == p.worker
            w3 == q.worker
            w4 == x.worker
            v == f.worker
            K == KnownAfter(w, w2.states, batch, N)
<1>1. r = Cleaned(f)
  BY Zenon DEF Stepped
<1>2. /\ p \in Entrances
      /\ p.ok => Distinct(batch) /\ EnteredUpTo(w, w2, batch, N)
  <2>. HIDE DEF p
  <2>1. p = EnterBatch(w, batch)
    BY DEF p
  <2>. QED
    BY <2>1, EnterBatchGood
<1>. HIDE DEF p
<1>3. q \in Entrances /\ (q.ok => p.ok /\ PreparedFor(w, w2, w3, batch))
  <2>1. CASE p.ok
    <3>1. q = PrepareBatch(p, Targets(p.worker, batch))
      BY <2>1
    <3>. HIDE DEF q
    <3>. QED
      BY <1>2, <2>1, <3>1, PrepareBatchGood
  <2>2. CASE ~p.ok
    <3>1. q = [p EXCEPT !.ok = FALSE]
      BY <2>2, Zenon DEF PrepareBatch
    <3>. HIDE DEF q
    <3>. QED
      BY <1>2, <3>1 DEF Entrances
  <2>. QED
    BY <2>1, <2>2
<1>. HIDE DEF q
<1>4. w2 \in Workers /\ w \in Workers /\ w3 \in Workers
  BY <1>2, <1>3 DEF Entrances, Settled
<1>5. x \in Entrances /\ (x.ok => q.ok /\ WrittenUpTo(w, w3, w4, batch, N))
  <2>. HIDE DEF x, w2
  <2>1. x = Iterated(WriteItem, q, batch)
    BY Zenon DEF x
  <2>. QED
    BY <1>2, <1>3, <1>4, <2>1, WriteBatchGood
<1>. HIDE DEF x
<1>6. ASSUME x.ok
      PROVE  /\ p.ok /\ Distinct(batch) /\ EnteredUpTo(w, w2, batch, N) /\ PreparedFor(w, w2, w3, batch)
             /\ w3.states = w2.states /\ w4.states = w2.states /\ w4.sharing = w.sharing
             /\ DOMAIN w4.cache.tables = DOMAIN w2.states
             /\ w4.cache.tables = w3.cache.tables /\ w4.cache.lengths = w3.cache.lengths
             /\ w4.cache \in GoodCaches(K, w4.cache.memory)
  <2>1. /\ p.ok /\ Distinct(batch) /\ EnteredUpTo(w, w2, batch, N) /\ PreparedFor(w, w2, w3, batch)
        /\ WrittenUpTo(w, w3, w4, batch, N)
    BY <1>2, <1>3, <1>5, <1>6
  <2>. HIDE DEF w2, w3, w4, N
  <2>2. w3.states = w2.states /\ w3.sharing = w.sharing /\ DOMAIN w3.cache.tables = DOMAIN w2.states
    BY <2>1 DEF EnteredUpTo, PreparedFor
  <2>. QED
    BY <2>1, <2>2 DEF WrittenUpTo
<1>7. f \in Finishes /\ (f.ok => x.ok /\ FinishedUpTo(w, w4, v, f.tokens, batch, N))
  <2>. HIDE DEF f
  <2>1. f = FinishBatch(x, batch)
    BY DEF f
  <2>2. x.ok => /\ Distinct(batch) /\ EnteredUpTo(w, w2, batch, Len(batch))
                /\ w4.states = w2.states /\ DOMAIN w4.cache.tables = DOMAIN w2.states
                /\ w4.cache \in GoodCaches(KnownAfter(w, w2.states, batch, Len(batch)), w4.cache.memory)
    BY <1>6
  <2>. HIDE DEF w2, K
  <2>. QED
    BY <1>4, <1>5, <2>1, <2>2, FinishBatchGood
<1>. HIDE DEF f
<1>8. f.ok /\ r = f
  <2>1. ~f.ok => r = [f EXCEPT !.worker = ClearedWorker(@)]
    BY <1>1, Zenon DEF Cleaned
  <2>2. ~f.ok => ~r.ok
    BY <1>7, <2>1 DEF Finishes
  <2>3. f.ok
    BY <2>2
  <2>. QED
    BY <1>1, <2>3, Zenon DEF Cleaned
<1>9. /\ p.ok /\ Distinct(batch) /\ EnteredUpTo(w, w2, batch, N) /\ PreparedFor(w, w2, w3, batch)
      /\ w3.states = w2.states /\ w4.states = w2.states /\ w4.sharing = w.sharing
      /\ DOMAIN w4.cache.tables = DOMAIN w2.states
      /\ w4.cache.tables = w3.cache.tables /\ w4.cache.lengths = w3.cache.lengths
      /\ FinishedUpTo(w, w4, v, f.tokens, batch, N) /\ f \in Finishes /\ v \in Workers
  BY <1>6, <1>7, <1>8 DEF Finishes
<1>. HIDE DEF w2, w3, w4, v
<1>10. /\ v.sharing = w.sharing /\ DOMAIN v.states = DOMAIN w2.states
       /\ v.cache.tables = w3.cache.tables /\ v.cache.lengths = w3.cache.lengths
       /\ v.cache \in GoodCaches(K, v.cache.memory)
       /\ \A y \in DOMAIN w2.states : y \notin IdsOf(batch, N) => v.states[y] = w2.states[y]
       /\ Len(f.tokens) = N
  BY <1>9 DEF FinishedUpTo
<1>11. /\ N \in Nat /\ \A i \in 1 .. N : i <= N
  BY DEF Batches
<1>12. \A i \in 1 .. N : /\ v.states[batch[i].id].history = After(w, batch[i])
                         /\ f.tokens[i] \in {NoToken, Greedy(KVOf(After(w, batch[i])))}
                         /\ Accepted(w, batch[i]) /\ ReplayValid(batch[i])
  <2>1. \A i \in 1 .. N : /\ v.states[batch[i].id].history = After(w, batch[i])
                          /\ f.tokens[i] \in {NoToken, Greedy(KVOf(After(w, batch[i])))}
    BY <1>9, <1>11 DEF FinishedUpTo
  <2>2. \A i \in 1 .. N : Accepted(w, batch[i]) /\ ReplayValid(batch[i])
    BY <1>9, <1>11 DEF EnteredUpTo
  <2>. QED
    BY <2>1, <2>2
<1>13. /\ DOMAIN w2.states = DOMAIN w.states \cup IdsOf(batch, N)
       /\ \A y \in DOMAIN w.states : y \notin IdsOf(batch, N) => w2.states[y] = w.states[y]
  BY <1>9 DEF EnteredUpTo
<1>14. \A y \in IdsOf(batch, N) : \E i \in 1 .. N : y = batch[i].id /\ ItemOf(batch, y) = batch[i]
  BY <1>9 DEF IdsOf, ItemOf, Distinct
<1>15. HistoriesOf(v.states) = K
  <2>1. \A y \in DOMAIN v.states : v.states[y].history = K[y]
    <3>. TAKE y \in DOMAIN v.states
    <3>1. CASE y \in IdsOf(batch, N)
      <4>1. PICK i \in 1 .. N : y = batch[i].id /\ ItemOf(batch, y) = batch[i]
        BY <1>14, <3>1
      <4>2. K[y] = After(w, batch[i])
        BY <1>10, <3>1, <4>1 DEF K, KnownAfter
      <4>. QED
        BY <1>12, <4>1, <4>2
    <3>2. CASE y \notin IdsOf(batch, N)
      BY <1>10, <3>2 DEF K, KnownAfter
    <3>. QED
      BY <3>1, <3>2
  <2>2. K = [y \in DOMAIN v.states |-> K[y]]
    BY <1>10 DEF K, KnownAfter
  <2>. HIDE DEF K
  <2>. QED
    BY <2>1, <2>2, Zenon DEF HistoriesOf
<1>16. /\ Fitted(v.cache) /\ DOMAIN v.cache.tables = DOMAIN v.states
       /\ \A y : Length(v.cache, y) = Length(w3.cache, y)
       /\ \A i \in 1 .. N : Length(w3.cache, batch[i].id) = Len(After(w, batch[i]))
       /\ \A y \in DOMAIN w2.states : y \notin IdsOf(batch, N) =>
             Length(w3.cache, y) = Len(w2.states[y].history)
  <2>1. /\ Fitted(w3.cache) /\ DOMAIN w3.cache.tables = DOMAIN w2.states
        /\ \A i \in 1 .. N : Length(w3.cache, batch[i].id) = Len(After(w, batch[i]))
        /\ \A y \in DOMAIN w2.states : y \notin IdsOf(batch, N) =>
              Length(w3.cache, y) = Len(w2.states[y].history)
    BY <1>9 DEF PreparedFor
  <2>2. v.cache.tables = w3.cache.tables /\ v.cache.lengths = w3.cache.lengths
        /\ DOMAIN v.states = DOMAIN w2.states
    BY <1>10
  <2>3. \A y : Length(v.cache, y) = Length(w3.cache, y)
    BY <2>2, Zenon DEF Length
  <2>4. Fitted(v.cache)
    BY <2>1, <2>2, <2>3, Zenon DEF Fitted
  <2>5. DOMAIN v.cache.tables = DOMAIN v.states
    BY <2>1, <2>2, Zenon
  <2>6. \A i \in 1 .. N : Length(w3.cache, batch[i].id) = Len(After(w, batch[i]))
    BY <2>1, Zenon
  <2>7. \A y \in DOMAIN w2.states : y \notin IdsOf(batch, N) =>
             Length(w3.cache, y) = Len(w2.states[y].history)
    BY <2>1, Zenon
  <2>. QED
    BY <2>3, <2>4, <2>5, <2>6, <2>7, Zenon
<1>17. ASSUME NEW y \in DOMAIN v.states PROVE Length(v.cache, y) = Len(v.states[y].history)
  <2>1. CASE y \in IdsOf(batch, N)
    <3>1. PICK i \in 1 .. N : y = batch[i].id
      BY <1>14, <2>1
    <3>. QED
      BY <1>12, <1>16, <3>1
  <2>2. CASE y \notin IdsOf(batch, N)
    BY <1>10, <1>16, <2>2
  <2>. QED
    BY <2>1, <2>2
<1>18. v \in Settled
  <2>1. Sound(v)
    <3>. HIDE DEF K
    <3>. QED
      BY <1>10, <1>15, <1>16, <1>17 DEF Sound
  <2>. QED
    BY <1>9, <1>16, <2>1 DEF Settled
<1>19. \A y \in DOMAIN w.states : y \notin IdsOf(batch, N) => v.states[y] = w.states[y]
  BY <1>10, <1>13
<1>20. f.tokens \in Seq(Nat)
  BY <1>9 DEF Finishes
<1>21. SteppedTo(w, v, f.tokens, batch)
  BY <1>10, <1>12, <1>13, <1>18, <1>19, <1>20 DEF SteppedTo
<1>. QED
  BY <1>8, <1>9, <1>21 DEF v

------------------------------------------------------------------------------
\* Release, clear and start

LEMMA ReleasedSettled ==
  ASSUME NEW w \in Settled, NEW id \in DOMAIN w.states, NEW v, v = ReleasedWorker(w, id)
  PROVE  v \in Settled /\ v.states = Without(w.states, {id}) /\ v.sharing = w.sharing
<1>. DEFINE c == w.cache
            d == Released(c, id)
            known == HistoriesOf(w.states)
            states == Without(w.states, {id})
<1>1. v = [w EXCEPT !.cache = d, !.states = states]
  BY Zenon DEF ReleasedWorker
<1>2. /\ w \in Workers /\ c \in GoodCaches(known, c.memory) /\ Fitted(c) /\ id \in DOMAIN c.tables
      /\ DOMAIN c.tables = DOMAIN w.states
      /\ \A x \in DOMAIN w.states : Length(c, x) = Len(w.states[x].history)
  BY DEF Settled, Sound
<1>3. /\ d \in GoodCaches(Without(known, {id}), c.memory) /\ Fitted(d)
      /\ d.tables = Without(c.tables, {id}) /\ d.lengths = Without(c.lengths, {id})
      /\ d.memory = c.memory
  <2>. DEFINE memory == c.memory
  <2>1. c \in GoodCaches(known, memory) /\ Fitted(c) /\ id \in DOMAIN c.tables
    BY <1>2
  <2>. HIDE DEF c, d, known, memory
  <2>2. /\ Released(c, id) \in GoodCaches(Without(known, {id}), memory) /\ Fitted(Released(c, id))
        /\ Released(c, id).tables = Without(c.tables, {id})
        /\ Released(c, id).lengths = Without(c.lengths, {id})
        /\ Released(c, id).memory = c.memory
    BY <2>1, ReleasedGood
  <2>. QED
    BY <2>2 DEF d, memory
<1>. HIDE DEF d
<1>4. states \in PartialMaps(Nat, States)
  BY <1>2, WorkerFields, MapsWithout
<1>. HIDE DEF states
<1>5. v.cache = d /\ v.states = states /\ v.sharing = w.sharing /\ v \in Workers
  <2>1. d \in Caches
    BY <1>3 DEF GoodCaches
  <2>. QED
    BY <1>1, <1>2, <1>4, <2>1 DEF Workers
<1>6. DOMAIN states = DOMAIN w.states \ {id} /\ \A x \in DOMAIN states : states[x] = w.states[x]
  BY DEF states, Without
<1>7. HistoriesOf(states) = Without(known, {id})
  <2>1. DOMAIN known = DOMAIN w.states /\ \A x \in DOMAIN w.states : known[x] = w.states[x].history
    BY DEF HistoriesOf
  <2>2. Without(known, {id}) = [x \in DOMAIN w.states \ {id} |-> known[x]]
    BY <2>1 DEF Without
  <2>3. HistoriesOf(states) = [x \in DOMAIN w.states \ {id} |-> states[x].history]
    BY <1>6 DEF HistoriesOf
  <2>4. \A x \in DOMAIN w.states \ {id} : known[x] = states[x].history
    BY <1>6, <2>1
  <2>. QED
    BY <2>2, <2>3, <2>4, Zenon
<1>8. ASSUME NEW x \in DOMAIN states PROVE Length(d, x) = Len(states[x].history)
  <2>1. x \in DOMAIN w.states /\ x # id /\ states[x] = w.states[x]
    BY <1>6
  <2>2. x \in DOMAIN c.lengths
    BY <1>2, <2>1 DEF Fitted
  <2>3. Length(d, x) = Length(c, x)
    BY <1>3, <2>1, <2>2 DEF Length, Without
  <2>. QED
    BY <1>2, <2>1, <2>3
<1>9. DOMAIN d.tables = DOMAIN states
  BY <1>2, <1>3, <1>6 DEF Without
<1>10. Sound(v)
  BY <1>3, <1>5, <1>7, <1>8 DEF Sound
<1>. QED
  BY <1>5, <1>9, <1>10 DEF Settled, states

AllReleased(w, ids) == Iterated(ReleasedWorker, w, ids)

LEMMA ReleasedAll ==
  ASSUME NEW w \in Settled, NEW ids \in Seq(Nat),
         \A i, j \in 1 .. Len(ids) : ids[i] = ids[j] => i = j,
         \A i \in 1 .. Len(ids) : ids[i] \in DOMAIN w.states,
         NEW v, v = AllReleased(w, ids)
  PROVE  /\ v \in Settled /\ v.sharing = w.sharing
         /\ DOMAIN v.states = DOMAIN w.states \ ToSet(ids)
         /\ \A x \in DOMAIN v.states : v.states[x] = w.states[x]
<1>. DEFINE N == Len(ids)
            Left(n) == {q \in Settled : /\ q.sharing = w.sharing
                                        /\ DOMAIN q.states = DOMAIN w.states \ {ids[i] : i \in 1 .. n}
                                        /\ \A x \in DOMAIN q.states : q.states[x] = w.states[x]}
            it == CHOOSE h : h = [n \in 0 .. Len(ids) |->
                                     IF n = 0 THEN w ELSE ReleasedWorker(h[n - 1], ids[n])]
<1>1. v = it[N]
  BY Zenon DEF AllReleased, Iterated
<1>2. N \in Nat
  OBVIOUS
<1>3. w \in Left(0)
  OBVIOUS
<1>4. ASSUME NEW n \in 1 .. N, NEW q \in Left(n - 1) PROVE ReleasedWorker(q, ids[n]) \in Left(n)
  <2>. DEFINE u == ReleasedWorker(q, ids[n])
              id == ids[n]
  <2>1. 1 .. n = (1 .. n - 1) \cup {n} /\ n \notin 1 .. n - 1 /\ 1 .. n - 1 \subseteq 1 .. N
    BY <1>2
  <2>2. {ids[i] : i \in 1 .. n} = {ids[i] : i \in 1 .. n - 1} \cup {id} /\ id \notin {ids[i] : i \in 1 .. n - 1}
    BY <2>1
  <2>3. q \in Settled /\ id \in DOMAIN q.states
    BY <2>2
  <2>4. u \in Settled /\ u.states = Without(q.states, {id}) /\ u.sharing = q.sharing
    <3>1. u = ReleasedWorker(q, id)
      OBVIOUS
    <3>. HIDE DEF u, id
    <3>. QED
      BY <2>3, <3>1, ReleasedSettled, ZenonT(60)
  <2>. HIDE DEF u
  <2>5. DOMAIN u.states = DOMAIN q.states \ {id} /\ \A x \in DOMAIN u.states : u.states[x] = q.states[x]
    BY <2>4 DEF Without
  <2>6. u \in Left(n)
    BY <2>2, <2>4, <2>5
  <2>. QED
    BY <2>6 DEF u
<1>5. N = Len(ids)
  OBVIOUS
<1>. HIDE DEF N
<1>. DEFINE S == [n \in 0 .. N |-> Left(n)]
            move == [n \in 1 .. N |-> [q \in Settled |-> ReleasedWorker(q, ids[n])]]
<1>6. /\ \A n \in 0 .. N : S[n] = Left(n)
      /\ \A n \in 0 .. N : Left(n) \subseteq Settled
      /\ 0 \in 0 .. N /\ N \in 0 .. N
      /\ \A n \in 1 .. N : n \in 0 .. N /\ n - 1 \in 0 .. N /\ n # 0
      /\ \A n \in 0 .. N : n = 0 \/ n \in 1 .. N
  BY <1>2
<1>. HIDE DEF S, Left
<1>7. \A n \in 1 .. N : \A q \in S[n - 1] : move[n][q] = ReleasedWorker(q, ids[n]) /\ move[n][q] \in S[n]
  BY <1>4, <1>6
<1>. HIDE DEF move
<1>8. PICK f : Orbit(f, N, w, move) /\ \A n \in 0 .. N : f[n] \in S[n]
  <2>1. w \in S[0] /\ \A n \in 1 .. N : \A d \in S[n - 1] : move[n][d] \in S[n]
    BY <1>3, <1>6, <1>7
  <2>. QED
    BY <1>2, <2>1, OrbitExists
<1>9. f = [n \in 0 .. N |-> IF n = 0 THEN w ELSE ReleasedWorker(f[n - 1], ids[n])]
  <2>1. f = [n \in 0 .. N |-> IF n = 0 THEN w ELSE move[n][f[n - 1]]]
    BY <1>8 DEF Orbit
  <2>2. \A n \in 0 .. N : n # 0 => move[n][f[n - 1]] = ReleasedWorker(f[n - 1], ids[n])
    BY <1>6, <1>7, <1>8
  <2>. QED
    BY <2>1, <2>2, Zenon
<1>10. it = [n \in 0 .. N |-> IF n = 0 THEN w ELSE ReleasedWorker(it[n - 1], ids[n])]
  BY <1>5, <1>9, Zenon
<1>. HIDE DEF it
<1>11. it[0] = w /\ \A n \in 1 .. N : it[n] = ReleasedWorker(it[n - 1], ids[n])
  <2>1. \A n \in 0 .. N : it[n] = IF n = 0 THEN w ELSE ReleasedWorker(it[n - 1], ids[n])
    BY <1>10, Zenon
  <2>. QED
    BY <1>6, <2>1, Zenon
<1>. DEFINE X == {n \in 0 .. N : it[n] \in Left(n)}
<1>12. \A n \in 0 .. N : n \in X
  <2>1. 0 \in X
    BY <1>3, <1>6, <1>11
  <2>2. \A n \in 1 .. N : n - 1 \in X => n \in X
    BY <1>4, <1>6, <1>11
  <2>. HIDE DEF X
  <2>. QED
    BY <1>2, <2>1, <2>2, Stepwise
<1>13. it[N] \in Left(N)
  BY <1>6, <1>12
<1>14. v \in Left(N)
  BY <1>1, <1>13
<1>15. {ids[i] : i \in 1 .. N} = ToSet(ids)
  BY <1>5 DEF ToSet
<1>. QED
  BY <1>5, <1>14, <1>15 DEF Left

\* What a worker without requests is.
EmptyWorkers(memory) ==
    [sharing : BOOLEAN, cache : {[NewCache EXCEPT !.memory = memory]}, states : {<<>>}]

LEMMA EmptySettled ==
  ASSUME NEW memory \in Memories, NEW v \in EmptyWorkers(memory)
  PROVE  v \in Settled /\ DOMAIN v.states = {}
<1>. DEFINE d == [NewCache EXCEPT !.memory = memory]
            none == <<>>
            A == PartialMaps(Nat, States)
<1>1. d \in GoodCaches(<<>>, memory) /\ Fitted(d) /\ d.tables = <<>> /\ d.memory = memory
  BY ClearedGood DEF NewCache
<1>2. none \in A /\ DOMAIN none = {} /\ none = <<>>
  BY MapsEmpty
<1>3. v \in [sharing : BOOLEAN, cache : {d}, states : {none}]
  BY DEF EmptyWorkers
<1>. HIDE DEF d, none, A
<1>4. v.cache = d /\ v.states = none /\ d \in Caches
  BY <1>1, <1>3 DEF GoodCaches
<1>5. v \in [sharing : BOOLEAN, cache : Caches, states : A]
  BY <1>2, <1>3, <1>4
<1>6. v \in Workers
  BY <1>5 DEF A, Workers
<1>7. HistoriesOf(none) = <<>>
  BY <1>2 DEF HistoriesOf
<1>8. v.cache \in GoodCaches(HistoriesOf(v.states), v.cache.memory) /\ Fitted(v.cache)
  BY <1>1, <1>4, <1>7
<1>9. DOMAIN v.cache.tables = DOMAIN v.states /\ DOMAIN v.states = {}
  BY <1>1, <1>2, <1>4
<1>. QED
  BY <1>6, <1>8, <1>9 DEF Settled, Sound

LEMMA ClearedSettled ==
  ASSUME NEW w \in Workers
  PROVE  ClearedWorker(w) \in Settled /\ DOMAIN ClearedWorker(w).states = {}
<1>. DEFINE m == w.cache.memory
            d == [NewCache EXCEPT !.memory = m]
            none == <<>>
            A == PartialMaps(Nat, States)
<1>1. m \in Memories
  BY WorkerFields, CacheFields
<1>2. ClearedWorker(w) = [w EXCEPT !.cache = d, !.states = none]
  BY Zenon DEF ClearedWorker, Cleared
<1>3. w \in [sharing : BOOLEAN, cache : Caches, states : A]
  BY DEF Workers
<1>. HIDE DEF d, none, A, m
<1>4. ClearedWorker(w) \in [sharing : BOOLEAN, cache : {d}, states : {none}]
  BY <1>2, <1>3
<1>5. ClearedWorker(w) \in EmptyWorkers(m)
  BY <1>4 DEF EmptyWorkers, d, none
<1>. QED
  BY <1>1, <1>5, EmptySettled

LEMMA NewSettled ==
  ASSUME NEW sharing \in BOOLEAN
  PROVE  NewWorker(sharing) \in Settled /\ DOMAIN NewWorker(sharing).states = {}
<1>. DEFINE m == NewCache.memory
<1>1. m \in Memories
  BY CacheAssumption DEF NewCache, Memories, Vectors, Junk, Slot
<1>2. NewCache = [NewCache EXCEPT !.memory = m]
  BY DEF NewCache
<1>3. NewWorker(sharing) = [sharing |-> sharing, cache |-> [NewCache EXCEPT !.memory = m], states |-> <<>>]
  BY <1>2, Zenon DEF NewWorker
<1>. HIDE DEF m
<1>4. NewWorker(sharing) \in EmptyWorkers(m)
  BY <1>3 DEF EmptyWorkers
<1>. QED
  BY <1>1, <1>4, EmptySettled

------------------------------------------------------------------------------
\* Work items

LEMMA SmallestIs ==
  ASSUME NEW S \in SUBSET Nat, S # {}
  PROVE  Smallest(S) \in S /\ \A m \in S : Smallest(S) <= m
<1>1. \E n \in S : \A m \in S : n <= m
  BY LeastNatural
<1>. QED
  BY <1>1 DEF Smallest

Kinds == {"decode", "prefill", "replay"}
WorkItems == [id : Nat, kind : Kinds, start : Nat, count : Nat, target : Nat]

\* What some work takes of the token budget.
LEMMA SpentSteps ==
  ASSUME NEW work \in Seq(WorkItems)
  PROVE  \E f : /\ Iterated(Spent, 0, work) = f[Len(work)] /\ f[0] = 0
                /\ \A n \in 1 .. Len(work) : f[n] = f[n - 1] + work[n].count
                /\ \A n \in 0 .. Len(work) : f[n] \in Nat
<1>. DEFINE N == Len(work)
            Totals(n) == Nat
            it == CHOOSE h : h = [n \in 0 .. Len(work) |->
                                     IF n = 0 THEN 0 ELSE Spent(h[n - 1], work[n])]
<1>1. Iterated(Spent, 0, work) = it[N]
  BY Zenon DEF Iterated
<1>2. N \in Nat /\ \A n \in 1 .. N : work[n] \in WorkItems
  OBVIOUS
<1>3. 0 \in Totals(0)
  OBVIOUS
<1>4. ASSUME NEW n \in 1 .. N, NEW q \in Totals(n - 1) PROVE Spent(q, work[n]) \in Totals(n)
  BY <1>2, SMTT(30) DEF Spent, WorkItems
<1>5. N = Len(work)
  OBVIOUS
<1>. HIDE DEF N
<1>. DEFINE S == [n \in 0 .. N |-> Totals(n)]
            move == [n \in 1 .. N |-> [q \in Nat |-> Spent(q, work[n])]]
<1>6. /\ \A n \in 0 .. N : S[n] = Totals(n)
      /\ \A n \in 0 .. N : Totals(n) \subseteq Nat
      /\ 0 \in 0 .. N /\ N \in 0 .. N
      /\ \A n \in 1 .. N : n \in 0 .. N /\ n - 1 \in 0 .. N /\ n # 0
      /\ \A n \in 0 .. N : n = 0 \/ n \in 1 .. N
  BY <1>2
<1>. HIDE DEF S, Totals
<1>7. \A n \in 1 .. N : \A q \in S[n - 1] : move[n][q] = Spent(q, work[n]) /\ move[n][q] \in S[n]
  BY <1>4, <1>6
<1>. HIDE DEF move
<1>8. PICK f : Orbit(f, N, 0, move) /\ \A n \in 0 .. N : f[n] \in S[n]
  <2>1. 0 \in S[0] /\ \A n \in 1 .. N : \A d \in S[n - 1] : move[n][d] \in S[n]
    BY <1>3, <1>6, <1>7
  <2>. QED
    BY <1>2, <2>1, OrbitExists
<1>9. f = [n \in 0 .. N |-> IF n = 0 THEN 0 ELSE Spent(f[n - 1], work[n])]
  <2>1. f = [n \in 0 .. N |-> IF n = 0 THEN 0 ELSE move[n][f[n - 1]]]
    BY <1>8 DEF Orbit
  <2>2. \A n \in 0 .. N : n # 0 => move[n][f[n - 1]] = Spent(f[n - 1], work[n])
    BY <1>6, <1>7, <1>8
  <2>. QED
    BY <2>1, <2>2, Zenon
<1>10. it = [n \in 0 .. N |-> IF n = 0 THEN 0 ELSE Spent(it[n - 1], work[n])]
  BY <1>5, <1>9, Zenon
<1>. HIDE DEF it
<1>11. it[0] = 0 /\ \A n \in 1 .. N : it[n] = Spent(it[n - 1], work[n])
  <2>1. \A n \in 0 .. N : it[n] = IF n = 0 THEN 0 ELSE Spent(it[n - 1], work[n])
    BY <1>10, Zenon
  <2>. QED
    BY <1>6, <2>1, Zenon
<1>. DEFINE X == {n \in 0 .. N : it[n] \in Totals(n)}
<1>12. \A n \in 0 .. N : n \in X
  <2>1. 0 \in X
    BY <1>3, <1>6, <1>11
  <2>2. \A n \in 1 .. N : n - 1 \in X => n \in X
    BY <1>4, <1>6, <1>11
  <2>. HIDE DEF X
  <2>. QED
    BY <1>2, <2>1, <2>2, Stepwise
<1>13. it[N] \in Totals(N)
  BY <1>6, <1>12
<1>14. \A n \in 1 .. N : it[n] = it[n - 1] + work[n].count
  BY <1>11 DEF Spent
<1>15. \A n \in 0 .. N : it[n] \in Nat
  BY <1>12 DEF Totals
<1>16. /\ Iterated(Spent, 0, work) = it[Len(work)] /\ it[0] = 0
       /\ \A n \in 1 .. Len(work) : it[n] = it[n - 1] + work[n].count
       /\ \A n \in 0 .. Len(work) : it[n] \in Nat
  BY <1>1, <1>5, <1>14, <1>15, <1>11
<1>. QED
  BY <1>16

LEMMA SpentMore ==
  ASSUME NEW work \in Seq(WorkItems), NEW item \in WorkItems
  PROVE  /\ Iterated(Spent, 0, work) \in Nat
         /\ Iterated(Spent, 0, Append(work, item)) = Iterated(Spent, 0, work) + item.count
<1>. DEFINE more == Append(work, item)
            N == Len(work)
            a == Iterated(Spent, 0, work)
            b == Iterated(Spent, 0, more)
<1>1. PICK f : /\ a = f[N] /\ f[0] = 0
               /\ \A n \in 1 .. N : f[n] = f[n - 1] + work[n].count
               /\ \A n \in 0 .. N : f[n] \in Nat
  BY SpentSteps, Zenon
<1>2. /\ more \in Seq(WorkItems) /\ Len(more) = N + 1 /\ N \in Nat /\ more[N + 1] = item
      /\ \A n \in 1 .. N : more[n] = work[n]
  OBVIOUS
<1>3. b = Iterated(Spent, 0, more)
  OBVIOUS
<1>. HIDE DEF more, N, a, b
<1>4. PICK g : /\ b = g[Len(more)] /\ g[0] = 0
               /\ \A n \in 1 .. Len(more) : g[n] = g[n - 1] + more[n].count
               /\ \A n \in 0 .. Len(more) : g[n] \in Nat
  BY <1>2, <1>3, SpentSteps, Zenon
<1>. DEFINE X == {n \in 0 .. N : g[n] = f[n]}
<1>5. \A n \in 0 .. N : n \in X
  <2>1. 0 \in X
    BY <1>1, <1>2, <1>4
  <2>2. \A n \in 1 .. N : n - 1 \in X => n \in X
    <3>1. \A n \in 1 .. N : n \in 1 .. Len(more) /\ n \in 0 .. N
      BY <1>2
    <3>2. \A n \in 1 .. N : g[n] = g[n - 1] + work[n].count
      BY <1>2, <1>4, <3>1
    <3>. QED
      BY <1>1, <3>1, <3>2
  <2>. HIDE DEF X
  <2>. QED
    BY <1>2, <2>1, <2>2, Stepwise
<1>6. N \in 0 .. N /\ N + 1 \in 1 .. Len(more) /\ (N + 1) - 1 = N
  BY <1>2
<1>7. g[N + 1] = g[N] + item.count
  BY <1>2, <1>4, <1>6
<1>8. g[N] = f[N]
  BY <1>5, <1>6
<1>9. a \in Nat /\ b = a + item.count
  BY <1>1, <1>2, <1>4, <1>6, <1>7, <1>8
<1>. QED
  BY <1>9 DEF a, b, more

\* Decodes take a token each.
LEMMA SpentOnes ==
  ASSUME NEW work \in Seq(WorkItems), \A n \in 1 .. Len(work) : work[n].count = 1
  PROVE  Iterated(Spent, 0, work) = Len(work)
<1>. DEFINE N == Len(work)
            a == Iterated(Spent, 0, work)
<1>1. PICK f : /\ a = f[N] /\ f[0] = 0
               /\ \A n \in 1 .. N : f[n] = f[n - 1] + work[n].count
               /\ \A n \in 0 .. N : f[n] \in Nat
  BY SpentSteps, Zenon
<1>2. N \in Nat
  OBVIOUS
<1>. HIDE DEF a
<1>. DEFINE X == {n \in 0 .. N : f[n] = n}
<1>3. \A n \in 0 .. N : n \in X
  <2>1. 0 \in X
    BY <1>1, <1>2
  <2>2. \A n \in 1 .. N : n - 1 \in X => n \in X
    BY <1>1, <1>2
  <2>. HIDE DEF X, N
  <2>. QED
    BY <1>2, <2>1, <2>2, Stepwise
<1>4. a = N
  BY <1>1, <1>2, <1>3
<1>. QED
  BY <1>4 DEF a

------------------------------------------------------------------------------
\* Requests and what the worker is asked about them

RequestsOK ==
    /\ prompt \in [Id -> Seq(Token) \ {<<>>}] /\ wanted \in [Id -> Token] /\ budget \in Token
    /\ delivered \in [Id -> Seq(Token)] /\ prefilled \in [Id -> Nat]
    /\ incoming \in Seq(Id) /\ waiting \in Seq(Id) /\ active \in Seq(Id)

\* A work item the backend can make a command of.
Servable(item) ==
    /\ item \in WorkItems /\ item.id \in ToSet(active)
    /\ item.kind = "decode" => delivered[item.id] # <<>>
    /\ item.kind = "prefill" => /\ delivered[item.id] = <<>>
                                /\ item.start + item.count <= Len(prompt[item.id])
    /\ item.kind = "replay" => /\ item.start + item.count <= item.target
                               /\ item.target <= Len(CachedTokens(Request(item.id)))

\* h begins f.
Begins(h, f) == Len(h) <= Len(f) /\ \A n \in 1 .. Len(h) : h[n] = f[n]

LEMMA RequestIs ==
  ASSUME RequestsOK, NEW r \in Id
  PROVE  /\ Request(r).id = r /\ Request(r).prompt = prompt[r] /\ Request(r).wanted = wanted[r]
         /\ Request(r).delivered = delivered[r]
         /\ prompt[r] \in Seq(Token) /\ Len(prompt[r]) \in Nat \ {0} /\ wanted[r] \in Token
         /\ delivered[r] \in Seq(Token) /\ Len(delivered[r]) \in Nat
         /\ CachedTokens(Request(r)) \in Seq(Token)
         /\ CachedTokens(Request(r)) = IF delivered[r] = <<>> THEN prompt[r]
                                       ELSE prompt[r] \o Front(delivered[r])
         /\ LastToken(Request(r)) \in Nat
         /\ delivered[r] # <<>> => LastToken(Request(r)) = Last(delivered[r])
                                   /\ Last(delivered[r]) \in Token
         /\ Len(CachedTokens(Request(r))) = IF delivered[r] = <<>> THEN Len(prompt[r])
                                            ELSE Len(prompt[r]) + Len(delivered[r]) - 1
<1>. DEFINE p == prompt[r]
            d == delivered[r]
<1>1. p \in Seq(Token) /\ p # <<>> /\ wanted[r] \in Token /\ d \in Seq(Token)
  BY DEF RequestsOK
<1>2. /\ Request(r).id = r /\ Request(r).prompt = p /\ Request(r).wanted = wanted[r]
      /\ Request(r).delivered = d
  BY DEF Request
<1>3. CachedTokens(Request(r)) = IF d = <<>> THEN p ELSE p \o Front(d)
  BY <1>2 DEF CachedTokens
<1>4. LastToken(Request(r)) = IF d = <<>> THEN NoToken ELSE Last(d)
  BY <1>2 DEF LastToken
<1>. HIDE DEF p, d
<1>5. ASSUME d # <<>>
      PROVE  /\ Last(d) \in Token /\ p \o Front(d) \in Seq(Token)
             /\ Len(p \o Front(d)) = Len(p) + Len(d) - 1
  <2>1. Len(d) \in Nat \ {0}
    BY <1>1, <1>5
  <2>2. Last(d) \in Token
    BY <1>1, <2>1 DEF Last
  <2>3. Front(d) \in Seq(Token) /\ Len(Front(d)) = Len(d) - 1
    <3>1. Front(d) = SubSeq(d, 1, Len(d) - 1)
      BY DEF Front
    <3>. DEFINE l == Len(d) - 1
    <3>2. l \in Nat /\ l <= Len(d) /\ Front(d) = SubSeq(d, 1, l)
      BY <2>1, <3>1
    <3>. HIDE DEF l
    <3>3. Front(d) \in Seq(Token) /\ Len(Front(d)) = l
      BY <1>1, <3>2
    <3>. QED
      BY <3>3 DEF l
  <2>. QED
    BY <1>1, <2>2, <2>3
<1>6. Len(p) \in Nat \ {0} /\ Len(d) \in Nat
  BY <1>1
<1>7. NoToken \in Nat /\ Token \subseteq Nat
  BY DEF NoToken, Token
<1>. QED
  BY <1>1, <1>2, <1>3, <1>4, <1>5, <1>6, <1>7 DEF p, d

\* A section of a sequence.
Section(tokens, item) == SubSeq(tokens, item.start + 1, item.start + item.count)

LEMMA SectionIs ==
  ASSUME NEW tokens \in Seq(Token), NEW item \in WorkItems, item.start + item.count <= Len(tokens)
  PROVE  /\ Section(tokens, item) \in Seq(Token) /\ Len(Section(tokens, item)) = item.count
         /\ \A n \in 1 .. item.count : Section(tokens, item)[n] = tokens[item.start + n]
<1>1. item.start \in Nat /\ item.count \in Nat
  BY DEF WorkItems
<1>. DEFINE a == item.start
            b == item.count
<1>2. a \in Nat /\ b \in Nat /\ a + b <= Len(tokens)
  BY <1>1
<1>. HIDE DEF a, b
<1>3. /\ SubSeq(tokens, a + 1, a + b) \in Seq(Token) /\ Len(SubSeq(tokens, a + 1, a + b)) = b
      /\ \A n \in 1 .. b : SubSeq(tokens, a + 1, a + b)[n] = tokens[a + n]
  <2>1. SubSeq(tokens, a + 1, a + b) = [i \in 1 .. b |-> tokens[a + i]]
    BY <1>2
  <2>2. \A i \in 1 .. b : a + i \in 1 .. Len(tokens)
    BY <1>2
  <2>. QED
    BY <1>2, <2>1, <2>2
<1>. QED
  BY <1>3 DEF a, b, Section

\* What a command says of a work item.
Commands(b, item) ==
    /\ b.id = item.id /\ b.start = item.start
    /\ b.replay <=> item.kind = "replay"
    /\ item.kind = "decode" => /\ b.generated = Len(delivered[item.id])
                               /\ b.input = <<Last(delivered[item.id])>>
    /\ item.kind # "decode" => b.generated = 0
    /\ item.kind # "replay" => b.prompt = Len(prompt[item.id]) /\ b.budget = wanted[item.id]
    /\ item.kind = "prefill" => b.input = Section(prompt[item.id], item)
    /\ item.kind = "replay" => b.input = Section(CachedTokens(Request(item.id)), item)
    /\ b.capacity = NeededBlocks(Request(item.id)) * BlockSize
    /\ b.original.budget = wanted[item.id] /\ b.original.generated = Len(delivered[item.id])

LEMMA BatchItemIs ==
  ASSUME RequestsOK, NEW item, Servable(item), NEW b, b = BatchItem(Request(item.id), item)
  PROVE  b \in BatchItems /\ Commands(b, item)
<1>. DEFINE r == item.id
            req == Request(item.id)
            p == prompt[r]
            d == delivered[r]
            cached == CachedTokens(req)
            last == LastToken(req)
            input == CASE item.kind = "replay" -> Section(cached, item)
                       [] item.kind = "prefill" -> Section(p, item)
                       [] item.kind = "decode" -> <<last>>
            generated == IF item.kind = "decode" THEN Len(d) ELSE 0
            limit == IF item.kind = "replay" THEN item.target ELSE Len(p)
            most == IF item.kind = "replay" THEN 1 ELSE wanted[r]
            capacity == NeededBlocks(req) * BlockSize
            original == [prompt |-> Len(p), budget |-> wanted[r], generated |-> Len(d), last |-> last]
<1>1. /\ item \in WorkItems /\ r \in Id /\ r \in Nat
      /\ item.kind \in Kinds /\ item.start \in Nat /\ item.count \in Nat /\ item.target \in Nat
  <2>1. item \in WorkItems /\ r \in ToSet(active)
    BY DEF Servable
  <2>2. active \in Seq(Id)
    BY DEF RequestsOK
  <2>3. r \in Id
    BY <2>1, <2>2 DEF ToSet
  <2>4. r \in Nat
    BY <2>1 DEF WorkItems
  <2>5. item.kind \in Kinds /\ item.start \in Nat /\ item.count \in Nat /\ item.target \in Nat
    BY <2>1 DEF WorkItems
  <2>. QED
    BY <2>1, <2>3, <2>4, <2>5
<1>2. /\ req.id = r /\ req.prompt = p /\ req.wanted = wanted[r] /\ req.delivered = d
      /\ p \in Seq(Token) /\ Len(p) \in Nat /\ wanted[r] \in Token /\ wanted[r] \in Nat
      /\ d \in Seq(Token) /\ Len(d) \in Nat /\ cached \in Seq(Token) /\ last \in Nat
      /\ d # <<>> => last = Last(d) /\ Last(d) \in Token
  BY <1>1, RequestIs DEF Token
<1>3. /\ item.kind = "replay" => Section(cached, item) \in Seq(Token)
      /\ item.kind = "prefill" => Section(p, item) \in Seq(Token)
      /\ item.kind = "decode" => <<last>> \in Seq(Token) /\ last = Last(d)
  <2>1. item.kind = "replay" => item.start + item.count <= Len(cached)
    BY <1>1, <1>2 DEF Servable
  <2>2. item.kind = "prefill" => item.start + item.count <= Len(p)
    BY DEF Servable
  <2>3. item.kind = "decode" => d # <<>>
    BY DEF Servable
  <2>. HIDE DEF cached, p, d, last
  <2>. QED
    BY <1>1, <1>2, <2>1, <2>2, <2>3, SectionIs
<1>4. capacity \in Nat
  <2>. DEFINE m == Len(p) + wanted[r]
  <2>1. m \in Nat
    BY <1>2
  <2>2. NeededBlocks(req) = BlocksFor(m)
    BY <1>2 DEF NeededBlocks
  <2>. HIDE DEF m
  <2>3. BlocksFor(m) \in Nat /\ BlockSize \in Nat
    BY <2>1, BlocksEnough, CacheAssumption
  <2>. QED
    BY <2>2, <2>3
<1>5. b = [id |-> r, start |-> item.start, replay |-> item.kind = "replay", input |-> input,
           generated |-> generated, prompt |-> limit, budget |-> most, capacity |-> capacity,
           original |-> original]
  <2>. HIDE DEF req
  <2>1. req.id = r /\ req.prompt = p /\ req.wanted = wanted[r] /\ req.delivered = d
    BY <1>2
  <2>. HIDE DEF p, d, r
  <2>2. b = BatchItem(req, item)
    BY DEF req
  <2>. QED
    BY <2>1, <2>2, Zenon DEF BatchItem, Section
<1>6. input \in Seq(Token)
  <2>. HIDE DEF cached, p, last
  <2>. QED
    BY <1>1, <1>3 DEF Kinds
<1>7. /\ item.kind = "replay" => input = Section(cached, item)
      /\ item.kind = "prefill" => input = Section(p, item)
      /\ item.kind = "decode" => input = <<Last(d)>>
  BY <1>3
<1>8. generated \in Nat /\ limit \in Nat /\ most \in Nat /\ original \in Originals
  BY <1>1, <1>2 DEF Originals
<1>9. /\ item.kind = "decode" => generated = Len(d)
      /\ item.kind # "decode" => generated = 0
      /\ item.kind # "replay" => limit = Len(p) /\ most = wanted[r]
      /\ original.budget = wanted[r] /\ original.generated = Len(d)
  OBVIOUS
<1>. HIDE DEF input, generated, limit, most, capacity, original, p, d, r, cached, last
<1>. DEFINE replayed == item.kind = "replay"
<1>10. /\ b = [id |-> r, start |-> item.start, replay |-> replayed, input |-> input,
                generated |-> generated, prompt |-> limit, budget |-> most, capacity |-> capacity,
                original |-> original]
       /\ replayed \in BOOLEAN
  BY <1>5
<1>. HIDE DEF replayed
<1>11. /\ b.id = r /\ b.start = item.start /\ b.replay = replayed /\ b.input = input
       /\ b.generated = generated /\ b.prompt = limit /\ b.budget = most /\ b.capacity = capacity
       /\ b.original = original /\ b \in BatchItems
  BY <1>1, <1>4, <1>6, <1>8, <1>10 DEF BatchItems
<1>12. b.replay <=> item.kind = "replay"
  BY <1>11 DEF replayed
<1>13. /\ item.kind = "decode" => b.generated = Len(d) /\ b.input = <<Last(d)>>
       /\ item.kind # "decode" => b.generated = 0
       /\ item.kind # "replay" => b.prompt = Len(p) /\ b.budget = wanted[r]
       /\ item.kind = "prefill" => b.input = Section(p, item)
       /\ item.kind = "replay" => b.input = Section(cached, item)
       /\ b.capacity = capacity /\ b.original.budget = wanted[r] /\ b.original.generated = Len(d)
  BY <1>7, <1>9, <1>11
<1>. QED
  BY <1>11, <1>12, <1>13 DEF Commands, p, d, r, cached, capacity, req

------------------------------------------------------------------------------
\* What a step serves a request

\* A section that goes on where a history ends.
LEMMA SectionGoesOn ==
  ASSUME NEW f \in Seq(Token), NEW h \in Seq(Token), Begins(h, f),
         NEW tokens \in Seq(Token), Begins(tokens, f), NEW item \in WorkItems,
         item.start = Len(h), item.start + item.count <= Len(tokens)
  PROVE  /\ Begins(h \o Section(tokens, item), f)
         /\ Len(h \o Section(tokens, item)) = item.start + item.count
<1>. DEFINE s == Section(tokens, item)
            a == item.start
            b == item.count
            g == h \o s
<1>1. a \in Nat /\ b \in Nat /\ a = Len(h) /\ a + b <= Len(tokens) /\ Len(tokens) \in Nat
  BY DEF WorkItems
<1>2. s \in Seq(Token) /\ Len(s) = b /\ \A n \in 1 .. b : s[n] = tokens[a + n]
  BY SectionIs
<1>. HIDE DEF s, a, b
<1>3. /\ Len(g) = a + b /\ \A n \in 1 .. a : g[n] = h[n]
      /\ \A n \in 1 .. a + b : n > a => n - a \in 1 .. b /\ g[n] = s[n - a] /\ a + (n - a) = n
  <2>1. /\ g = h \o s /\ Len(g) = Len(h) + Len(s)
        /\ \A n \in 1 .. Len(h) : g[n] = h[n]
        /\ \A n \in 1 .. Len(h) + Len(s) : n > Len(h) => g[n] = s[n - Len(h)]
    <3>1. s \in Seq(Token)
      BY <1>2
    <3>. QED
      BY <3>1
  <2>. HIDE DEF g
  <2>2. \A n \in 1 .. a + b : n > a => n - a \in 1 .. b /\ a + (n - a) = n
    BY <1>1
  <2>. QED
    BY <1>1, <1>2, <2>1, <2>2
<1>. HIDE DEF g
<1>4. Len(f) \in Nat /\ Len(tokens) <= Len(f) /\ \A n \in 1 .. Len(tokens) : tokens[n] = f[n]
  BY DEF Begins
<1>5. \A n \in 1 .. a : h[n] = f[n]
  BY <1>1 DEF Begins
<1>6. ASSUME NEW n \in 1 .. a + b PROVE g[n] = f[n]
  <2>1. CASE n <= a
    <3>1. n \in 1 .. a
      BY <1>1, <2>1
    <3>. QED
      BY <1>3, <1>5, <3>1
  <2>2. CASE n > a
    <3>1. n - a \in 1 .. b /\ g[n] = s[n - a] /\ a + (n - a) = n
      BY <1>3, <2>2
    <3>2. g[n] = tokens[n]
      BY <1>2, <3>1
    <3>3. n \in 1 .. Len(tokens)
      BY <1>1
    <3>. QED
      BY <1>4, <3>2, <3>3
  <2>. QED
    BY <1>1, <2>1, <2>2
<1>7. Len(g) <= Len(f)
  BY <1>1, <1>3, <1>4
<1>8. Begins(g, f)
  BY <1>3, <1>6, <1>7 DEF Begins
<1>. QED
  BY <1>3, <1>8 DEF g, s, a, b

\* What a request was asked and what it got, and what of it is cached at most.
LEMMA AllTokens ==
  ASSUME NEW p \in Seq(Token), NEW d \in Seq(Token)
  PROVE  /\ p \o d \in Seq(Token) /\ Len(p \o d) = Len(p) + Len(d) /\ Begins(p, p \o d)
         /\ d = <<>> => p \o d = p
         /\ d # <<>> => Begins(p \o Front(d), p \o d) /\ (p \o d)[Len(p) + Len(d)] = Last(d)
<1>1. Len(p) \in Nat /\ Len(d) \in Nat
  OBVIOUS
<1>2. /\ p \o d \in Seq(Token) /\ Len(p \o d) = Len(p) + Len(d)
      /\ \A n \in 1 .. Len(p) : (p \o d)[n] = p[n]
      /\ \A n \in 1 .. Len(p) + Len(d) : n > Len(p) => (p \o d)[n] = d[n - Len(p)]
  OBVIOUS
<1>3. Begins(p, p \o d)
  BY <1>1, <1>2 DEF Begins
<1>4. d = <<>> => p \o d = p
  OBVIOUS
<1>5. ASSUME d # <<>>
      PROVE  Begins(p \o Front(d), p \o d) /\ (p \o d)[Len(p) + Len(d)] = Last(d)
  <2>. DEFINE l == Len(d) - 1
              e == Front(d)
  <2>1. l \in Nat /\ Len(d) = l + 1 /\ Last(d) = d[l + 1]
    BY <1>1, <1>5 DEF Last
  <2>2. e = SubSeq(d, 1, l)
    BY DEF Front
  <2>. HIDE DEF l, e
  <2>3. e \in Seq(Token) /\ Len(e) = l /\ \A n \in 1 .. l : e[n] = d[n]
    BY <2>1, <2>2
  <2>4. /\ Len(p \o e) = Len(p) + l
        /\ \A n \in 1 .. Len(p) : (p \o e)[n] = p[n]
        /\ \A n \in 1 .. Len(p) + l : n > Len(p) => (p \o e)[n] = e[n - Len(p)] /\ n - Len(p) \in 1 .. l
    BY <1>1, <2>1, <2>3
  <2>5. ASSUME NEW n \in 1 .. Len(p) + l PROVE (p \o e)[n] = (p \o d)[n]
    <3>1. n \in 1 .. Len(p) + Len(d) /\ (n \in 1 .. Len(p) \/ n > Len(p))
      BY <1>1, <2>1
    <3>2. CASE n \in 1 .. Len(p)
      BY <1>2, <2>4, <3>2
    <3>3. CASE n > Len(p)
      BY <1>2, <2>3, <2>4, <3>1, <3>3
    <3>. QED
      BY <3>1, <3>2, <3>3
  <2>6. Len(p \o e) <= Len(p \o d)
    BY <1>1, <1>2, <2>1, <2>4
  <2>7. Begins(p \o e, p \o d)
    BY <2>4, <2>5, <2>6 DEF Begins
  <2>8. (p \o d)[Len(p) + Len(d)] = d[Len(d)]
    <3>. DEFINE n == Len(p) + Len(d)
    <3>1. n \in 1 .. Len(p) + Len(d) /\ n > Len(p) /\ n - Len(p) = Len(d)
      BY <1>1, <2>1
    <3>. HIDE DEF n
    <3>2. (p \o d)[n] = d[n - Len(p)]
      BY <1>2, <3>1
    <3>. QED
      BY <3>1, <3>2 DEF n
  <2>. QED
    BY <2>1, <2>7, <2>8 DEF e
<1>. QED
  BY <1>2, <1>3, <1>4, <1>5

LEMMA ServedAfter ==
  ASSUME RequestsOK, NEW item, Servable(item), NEW b, b = BatchItem(Request(item.id), item),
         NEW w \in Workers, Accepted(w, b), ReplayValid(b),
         b.id \in DOMAIN w.states =>
            Begins(w.states[b.id].history, prompt[item.id] \o delivered[item.id])
  PROVE  /\ Begins(After(w, b), prompt[item.id] \o delivered[item.id])
         /\ Len(delivered[item.id]) < wanted[item.id]
         /\ Emits(Request(item.id), item) => After(w, b) = prompt[item.id] \o delivered[item.id]
<1>. DEFINE r == item.id
            p == prompt[r]
            d == delivered[r]
            f == p \o d
            h == StateOf(w, b).history
            cached == CachedTokens(Request(r))
<1>1. item \in WorkItems /\ r \in Id
  <2>1. item \in WorkItems /\ r \in ToSet(active) /\ active \in Seq(Id)
    BY DEF Servable, RequestsOK
  <2>. QED
    BY <2>1 DEF ToSet
<1>2. /\ p \in Seq(Token) /\ Len(p) \in Nat \ {0} /\ wanted[r] \in Token /\ d \in Seq(Token)
      /\ Len(d) \in Nat /\ cached \in Seq(Token) /\ Request(r).prompt = p
      /\ cached = IF d = <<>> THEN p ELSE p \o Front(d)
      /\ d # <<>> => Last(d) \in Token
  BY <1>1, RequestIs
<1>3. /\ b \in BatchItems /\ b.id = r /\ b.start = item.start
      /\ b.replay <=> item.kind = "replay"
      /\ item.kind = "decode" => b.generated = Len(d) /\ b.input = <<Last(d)>>
      /\ item.kind # "decode" => b.generated = 0
      /\ item.kind # "replay" => b.prompt = Len(p) /\ b.budget = wanted[r]
      /\ item.kind = "prefill" => b.input = Section(p, item)
      /\ item.kind = "replay" => b.input = Section(cached, item)
      /\ b.original.budget = wanted[r] /\ b.original.generated = Len(d)
  <2>1. b \in BatchItems /\ Commands(b, item)
    BY BatchItemIs
  <2>. QED
    BY <2>1 DEF Commands
<1>4. h \in Seq(Token) /\ After(w, b) = h \o b.input
  BY <1>3, StateOfType DEF After
<1>5. f \in Seq(Token) /\ Len(f) = Len(p) + Len(d) /\ Begins(p, f)
      /\ (d = <<>> => f = p)
      /\ (d # <<>> => Begins(p \o Front(d), f) /\ f[Len(p) + Len(d)] = Last(d))
  BY <1>2, AllTokens
<1>6. Begins(h, f)
  <2>1. CASE b.id \in DOMAIN w.states
    BY <1>3, <2>1 DEF StateOf
  <2>2. CASE b.id \notin DOMAIN w.states
    <3>1. h = <<>>
      BY <2>2 DEF StateOf
    <3>. HIDE DEF h, f, p, d
    <3>2. Len(f) \in Nat
      BY <1>2, <1>5
    <3>3. Len(h) = 0
      BY <3>1
    <3>. QED
      BY <3>2, <3>3 DEF Begins
  <2>. QED
    BY <2>1, <2>2
<1>. HIDE DEF f, h, cached
<1>7. Begins(cached, f) /\ (item.kind = "replay" => item.start + item.count <= Len(cached))
      /\ (item.kind = "prefill" => d = <<>> /\ item.start + item.count <= Len(p))
      /\ (item.kind = "decode" => d # <<>>)
  <2>1. cached \in Seq(Token)
    BY <1>2 DEF cached
  <2>2. item.start \in Nat /\ item.count \in Nat /\ item.target \in Nat /\ Len(cached) \in Nat
    <3>1. Len(cached) \in Nat
      BY <2>1
    <3>. QED
      BY <1>1, <3>1 DEF WorkItems
  <2>3. item.kind = "replay" => item.start + item.count <= item.target /\ item.target <= Len(cached)
    BY DEF Servable, cached
  <2>4. /\ item.kind = "prefill" => d = <<>> /\ item.start + item.count <= Len(p)
        /\ item.kind = "decode" => d # <<>>
    BY DEF Servable
  <2>5. Begins(cached, f)
    BY <1>2, <1>5
  <2>. QED
    BY <2>2, <2>3, <2>4, <2>5
<1>8. /\ b.generated = 0 => b.start = Len(h)
      /\ b.generated # 0 => Len(b.input) = 1 /\ Len(h) = b.prompt + b.generated - 1
      /\ b.generated < b.budget
  BY DEF Accepted, h
<1>9. Emits(Request(r), item) <=> item.kind = "decode" \/ (item.kind = "prefill" /\ item.start + item.count = Len(p))
  BY <1>2 DEF Emits
<1>. HIDE DEF p, d
<1>10. CASE item.kind = "decode"
  <2>. DEFINE last == Last(d)
  <2>1. Len(d) # 0 /\ b.generated = Len(d) /\ b.input = <<last>> /\ b.prompt = Len(p) /\ b.budget = wanted[r]
        /\ last \in Token /\ f[Len(p) + Len(d)] = last
    BY <1>2, <1>3, <1>5, <1>7, <1>10
  <2>. HIDE DEF last
  <2>2. Len(h) = Len(p) + Len(d) - 1 /\ Len(d) < wanted[r]
    BY <1>8, <2>1
  <2>. DEFINE g == h \o <<last>>
              l == Len(p) + Len(d) - 1
  <2>3. l \in Nat /\ Len(h) = l /\ Len(f) = l + 1 /\ f[l + 1] = last
    <3>1. Len(p) + Len(d) = l + 1 /\ l \in Nat
      BY <1>2
    <3>. HIDE DEF l
    <3>. QED
      BY <1>5, <2>1, <2>2, <3>1 DEF l
  <2>. HIDE DEF l
  <2>4. /\ g \in Seq(Token) /\ Len(g) = l + 1 /\ g[l + 1] = last
        /\ \A n \in 1 .. l + 1 : n = l + 1 \/ (n \in 1 .. Len(h) /\ g[n] = h[n])
    <3>1. /\ g \in Seq(Token) /\ Len(g) = Len(h) + 1 /\ g[Len(h) + 1] = last
          /\ \A n \in 1 .. Len(h) : g[n] = h[n]
      BY <1>4, <2>1
    <3>. HIDE DEF g
    <3>2. \A n \in 1 .. l + 1 : n = l + 1 \/ n \in 1 .. l
      BY <2>3
    <3>. QED
      BY <2>3, <3>1, <3>2
  <2>. HIDE DEF g
  <2>5. \A n \in 1 .. Len(h) : h[n] = f[n]
    BY <1>6 DEF Begins
  <2>6. \A n \in 1 .. l + 1 : g[n] = f[n]
    BY <2>3, <2>4, <2>5
  <2>7. g = f
    BY <1>5, <2>3, <2>4, <2>6
  <2>8. After(w, b) = f
    BY <1>4, <2>1, <2>7 DEF g
  <2>9. Begins(f, f)
    BY <1>5 DEF Begins
  <2>. QED
    BY <2>2, <2>8, <2>9 DEF f, p, d
<1>11. CASE item.kind = "prefill"
  <2>1. b.generated = 0 /\ b.start = Len(h) /\ b.input = Section(p, item) /\ d = <<>> /\ f = p
        /\ item.start = Len(h) /\ item.start + item.count <= Len(p) /\ b.budget = wanted[r]
    BY <1>3, <1>5, <1>7, <1>8, <1>11
  <2>2. Begins(h \o Section(p, item), f) /\ Len(h \o Section(p, item)) = item.start + item.count
    BY <1>1, <1>2, <1>4, <1>5, <1>6, <2>1, SectionGoesOn
  <2>3. After(w, b) = h \o Section(p, item) /\ Begins(After(w, b), f)
    BY <1>4, <2>1, <2>2
  <2>. DEFINE g == After(w, b)
  <2>4. g \in Seq(Token)
    BY <1>3, StateOfType
  <2>5. ASSUME Emits(Request(r), item) PROVE g = f
    <3>1. Len(g) = Len(f)
      BY <1>9, <1>11, <2>1, <2>2, <2>3, <2>5
    <3>2. \A n \in 1 .. Len(g) : g[n] = f[n]
      BY <2>3 DEF Begins
    <3>. HIDE DEF g
    <3>. QED
      BY <1>5, <2>4, <3>1, <3>2
  <2>6. Len(d) < wanted[r]
    BY <1>3, <1>8, <2>1
  <2>. QED
    BY <2>3, <2>5, <2>6 DEF f, p, d
<1>12. CASE item.kind = "replay"
  <2>1. b.generated = 0 /\ b.start = Len(h) /\ b.input = Section(cached, item)
        /\ item.start = Len(h) /\ item.start + item.count <= Len(cached)
    BY <1>3, <1>7, <1>8, <1>12
  <2>2. Begins(h \o Section(cached, item), f)
    BY <1>1, <1>2, <1>4, <1>5, <1>6, <1>7, <2>1, SectionGoesOn
  <2>3. Begins(After(w, b), f)
    BY <1>4, <2>1, <2>2
  <2>4. b.replay /\ b.original.generated < b.original.budget
    BY <1>3, <1>12 DEF ReplayValid
  <2>5. Len(d) < wanted[r] /\ ~Emits(Request(r), item)
    BY <1>3, <1>9, <1>12, <2>4
  <2>. QED
    BY <2>3, <2>5 DEF f, p, d
<1>. QED
  BY <1>1, <1>10, <1>11, <1>12 DEF WorkItems, Kinds

------------------------------------------------------------------------------
\* What a step delivers

\* Every token of d is the decoder's pick after p and the tokens before it.
AsAlone(p, d) == \A n \in 1 .. Len(d) : d[n] = Greedy(KVOf(p \o SubSeq(d, 1, n - 1)))

LEMMA Concatenated ==
  ASSUME NEW p \in Seq(Token), NEW d \in Seq(Token)
  PROVE  /\ Len(p \o d) = Len(p) + Len(d) /\ p \o d \in Seq(Token)
         /\ \A n \in 1 .. Len(p) : (p \o d)[n] = p[n]
         /\ \A n \in 1 .. Len(p) + Len(d) : n > Len(p) => (p \o d)[n] = d[n - Len(p)]
  OBVIOUS

LEMMA AppendAlone ==
  ASSUME NEW p \in Seq(Token), NEW d \in Seq(Token), AsAlone(p, d),
         NEW t, t = Greedy(KVOf(p \o d)), NEW e, e = Append(d, t)
  PROVE  /\ e \in Seq(Token) /\ Len(e) = Len(d) + 1 /\ AsAlone(p, e)
         /\ \A h \in Seq(Token) : Begins(h, p \o d) => Begins(h, p \o e)
<1>1. t \in Token
  BY GreedyType, VocabularyAssumption DEF Token
<1>. DEFINE m == Len(d)
<1>2. /\ m \in Nat /\ e \in Seq(Token) /\ Len(e) = m + 1 /\ e[m + 1] = t
      /\ \A n \in 1 .. m : e[n] = d[n]
  BY <1>1
<1>. HIDE DEF m
<1>3. ASSUME NEW k \in 0 .. m PROVE SubSeq(e, 1, k) = SubSeq(d, 1, k)
  <2>1. SubSeq(e, 1, k) = [i \in 1 .. k |-> e[i]] /\ SubSeq(d, 1, k) = [i \in 1 .. k |-> d[i]]
    BY <1>2 DEF m
  <2>2. \A i \in 1 .. k : e[i] = d[i]
    BY <1>2
  <2>. QED
    BY <2>1, <2>2
<1>4. SubSeq(d, 1, m) = d
  BY DEF m
<1>5. ASSUME NEW n \in 1 .. m + 1 PROVE e[n] = Greedy(KVOf(p \o SubSeq(e, 1, n - 1)))
  <2>1. n - 1 \in 0 .. m /\ (n = m + 1 \/ n \in 1 .. m)
    BY <1>2
  <2>2. CASE n = m + 1
    <3>1. n - 1 = m
      BY <1>2, <2>2
    <3>2. SubSeq(e, 1, n - 1) = d
      BY <1>3, <1>4, <2>1, <3>1
    <3>. QED
      BY <1>2, <2>2, <3>2
  <2>3. CASE n \in 1 .. m
    <3>1. d[n] = Greedy(KVOf(p \o SubSeq(d, 1, n - 1)))
      BY <2>3 DEF AsAlone, m
    <3>2. SubSeq(e, 1, n - 1) = SubSeq(d, 1, n - 1)
      BY <1>3, <2>1
    <3>3. e[n] = d[n]
      BY <1>2, <2>3
    <3>. QED
      BY <3>1, <3>2, <3>3
  <2>. QED
    BY <2>1, <2>2, <2>3
<1>6. AsAlone(p, e)
  BY <1>2, <1>5 DEF AsAlone
<1>7. ASSUME NEW h \in Seq(Token), Begins(h, p \o d) PROVE Begins(h, p \o e)
  <2>. DEFINE l == Len(p)
  <2>1. /\ l \in Nat /\ Len(p \o d) = l + m /\ Len(p \o e) = l + (m + 1)
        /\ \A n \in 1 .. l + m : (p \o e)[n] = (p \o d)[n]
    <3>1. /\ Len(p \o d) = Len(p) + Len(d)
          /\ \A n \in 1 .. Len(p) : (p \o d)[n] = p[n]
          /\ \A n \in 1 .. Len(p) + Len(d) : n > Len(p) => (p \o d)[n] = d[n - Len(p)]
      OBVIOUS
    <3>2. /\ Len(p \o e) = Len(p) + Len(e)
          /\ \A n \in 1 .. Len(p) : (p \o e)[n] = p[n]
          /\ \A n \in 1 .. Len(p) + Len(e) : n > Len(p) => (p \o e)[n] = e[n - Len(p)]
      BY <1>2, Concatenated
    <3>3. l \in Nat
      OBVIOUS
    <3>4. ASSUME NEW n \in 1 .. l + m PROVE (p \o e)[n] = (p \o d)[n]
      <4>. HIDE DEF l
      <4>1. n \in 1 .. l \/ (n > l /\ n - l \in 1 .. m)
        BY <1>2, <3>3
      <4>2. n \in 1 .. l + Len(e) /\ n \in 1 .. l + Len(d)
        BY <1>2, <3>3 DEF m
      <4>. QED
        BY <1>2, <3>1, <3>2, <4>1, <4>2 DEF l
    <3>. QED
      BY <1>2, <3>1, <3>2, <3>3, <3>4 DEF m
  <2>. HIDE DEF l
  <2>2. Len(h) \in Nat /\ Len(h) <= l + m /\ \A n \in 1 .. Len(h) : h[n] = (p \o d)[n]
    BY <2>1, <1>7 DEF Begins
  <2>3. Len(h) <= Len(p \o e) /\ \A n \in 1 .. Len(h) : n \in 1 .. l + m
    BY <1>2, <2>1, <2>2
  <2>. QED
    BY <2>1, <2>2, <2>3 DEF Begins
<1>. QED
  BY <1>2, <1>6, <1>7 DEF m

WorkerOK ==
    /\ worker \in Settled /\ DOMAIN worker.states \subseteq Id
    /\ \A r \in DOMAIN worker.states : Begins(worker.states[r].history, prompt[r] \o delivered[r])

DeliveryOK == \A r \in Id : Len(delivered[r]) <= wanted[r] /\ AsAlone(prompt[r], delivered[r])

\* What a step leaves that succeeds.
ServedWell(work, w, now) ==
    /\ \A i, j \in 1 .. Len(work) : work[i].id = work[j].id => i = j
    /\ w \in Settled /\ DOMAIN w.states = DOMAIN worker.states \cup Served(work)
    /\ Served(work) \subseteq ToSet(active)
    /\ now \in [Id -> Seq(Token)]
    /\ \A x \in Id : Len(now[x]) <= wanted[x] /\ AsAlone(prompt[x], now[x])
    /\ \A x \in DOMAIN w.states : Begins(w.states[x].history, prompt[x] \o now[x])
    /\ \A x \in Id : x \notin Served(work) => now[x] = delivered[x]
    /\ \A x \in Served(work) : Len(delivered[x]) < wanted[x]
    /\ \A i \in 1 .. Len(work) : work[i].kind = "replay" => now[work[i].id] = delivered[work[i].id]

\* One request's answer.
LEMMA IndexIs ==
  ASSUME NEW work \in Seq(WorkItems), \A i, j \in 1 .. Len(work) : work[i].id = work[j].id => i = j,
         NEW i \in 1 .. Len(work)
  PROVE  IndexOf(work, work[i].id) = i /\ work[i].id \in Served(work)
<1>1. DOMAIN work = 1 .. Len(work)
  OBVIOUS
<1>. DEFINE id == work[i].id
<1>2. IndexOf(work, id) = CHOOSE k \in DOMAIN work : work[k].id = id
  BY DEF IndexOf
<1>3. (CHOOSE k \in DOMAIN work : work[k].id = id) = i
  BY <1>1
<1>4. id \in Served(work)
  BY <1>1 DEF Served, ToSet
<1>. QED
  BY <1>2, <1>3, <1>4

LEMMA ServedIs ==
  ASSUME NEW work \in Seq(WorkItems)
  PROVE  Served(work) = {work[i].id : i \in 1 .. Len(work)}
<1>1. DOMAIN work = 1 .. Len(work)
  OBVIOUS
<1>. QED
  BY <1>1 DEF Served, ToSet

\* A step that succeeds, and delivers tokens where it should, serves well.
LEMMA StepServed ==
  ASSUME RequestsOK, WorkerOK, DeliveryOK,
         NEW work \in Seq(WorkItems), \A i \in 1 .. Len(work) : Servable(work[i]),
         NEW batch, batch = [i \in DOMAIN work |-> BatchItem(Request(work[i].id), work[i])],
         NEW r, r = Stepped(worker, batch), r.ok,
         \A i \in DOMAIN work : Emits(Request(work[i].id), work[i]) <=> r.tokens[i] # NoToken,
         NEW now, now = Received(delivered, work, r.tokens)
  PROVE  ServedWell(work, r.worker, now)
<1>. DEFINE N == Len(work)
            w == r.worker
            ids == Served(work)
            id(i) == work[i].id
            all(x) == prompt[x] \o delivered[x]
<1>1. N \in Nat /\ DOMAIN work = 1 .. N /\ \A i \in 1 .. N : work[i] \in WorkItems
  OBVIOUS
<1>2. /\ worker \in Settled /\ worker \in Workers /\ DOMAIN worker.states \subseteq Id
      /\ \A x \in DOMAIN worker.states : Begins(worker.states[x].history, all(x))
  BY DEF WorkerOK, Settled
<1>3. \A i \in 1 .. N : /\ batch[i] = BatchItem(Request(work[i].id), work[i])
                        /\ batch[i] \in BatchItems /\ Commands(batch[i], work[i]) /\ batch[i].id = id(i)
  <2>1. \A i \in 1 .. N : batch[i] = BatchItem(Request(work[i].id), work[i])
    BY <1>1
  <2>2. \A i \in 1 .. N : batch[i] \in BatchItems /\ Commands(batch[i], work[i])
    BY <2>1, BatchItemIs
  <2>. QED
    BY <2>1, <2>2 DEF Commands
<1>4. batch \in Batches /\ Len(batch) = N
  <2>1. DOMAIN batch = 1 .. N
    BY <1>1
  <2>2. batch \in [1 .. N -> BatchItems]
    BY <1>1, <1>3
  <2>. QED
    BY <1>1, <2>1, <2>2 DEF Batches
<1>5. Distinct(batch) /\ SteppedTo(worker, w, r.tokens, batch)
  BY <1>2, <1>4, SteppedGood
<1>6. \A i, j \in 1 .. N : id(i) = id(j) => i = j
  BY <1>3, <1>4, <1>5 DEF Distinct
<1>7. IdsOf(batch, N) = ids
  <2>1. ids = {work[i].id : i \in 1 .. N}
    BY ServedIs
  <2>. QED
    BY <1>3, <2>1 DEF IdsOf
<1>8. /\ w \in Settled /\ DOMAIN w.states = DOMAIN worker.states \cup ids
      /\ \A x \in DOMAIN worker.states : x \notin ids => w.states[x] = worker.states[x]
      /\ r.tokens \in Seq(Nat) /\ Len(r.tokens) = N
      /\ \A i \in 1 .. N : /\ Accepted(worker, batch[i]) /\ ReplayValid(batch[i])
                           /\ w.states[id(i)].history = After(worker, batch[i])
                           /\ r.tokens[i] \in {NoToken, Greedy(KVOf(After(worker, batch[i])))}
  <2>1. /\ w \in Settled /\ DOMAIN w.states = DOMAIN worker.states \cup IdsOf(batch, N)
        /\ \A x \in DOMAIN worker.states : x \notin IdsOf(batch, N) => w.states[x] = worker.states[x]
        /\ r.tokens \in Seq(Nat) /\ Len(r.tokens) = N
        /\ \A i \in 1 .. N : /\ Accepted(worker, batch[i]) /\ ReplayValid(batch[i])
                             /\ w.states[batch[i].id].history = After(worker, batch[i])
                             /\ r.tokens[i] \in {NoToken, Greedy(KVOf(After(worker, batch[i])))}
    <3>. HIDE DEF w, N
    <3>. QED
      BY <1>4, <1>5 DEF SteppedTo
  <2>. HIDE DEF w, N, ids
  <2>. QED
    <3>1. /\ w \in Settled /\ DOMAIN w.states = DOMAIN worker.states \cup ids
          /\ \A x \in DOMAIN worker.states : x \notin ids => w.states[x] = worker.states[x]
          /\ r.tokens \in Seq(Nat) /\ Len(r.tokens) = N
      BY <1>7, <2>1
    <3>2. ASSUME NEW i \in 1 .. N
          PROVE  /\ Accepted(worker, batch[i]) /\ ReplayValid(batch[i])
                 /\ w.states[id(i)].history = After(worker, batch[i])
                 /\ r.tokens[i] \in {NoToken, Greedy(KVOf(After(worker, batch[i])))}
      BY <1>3, <2>1
    <3>. QED
      BY <3>1, <3>2
<1>9. \A i \in 1 .. N : id(i) \in Id /\ id(i) \in ToSet(active)
  <2>1. \A i \in 1 .. N : id(i) \in ToSet(active)
    BY DEF Servable
  <2>2. ToSet(active) \subseteq Id
    BY DEF RequestsOK, ToSet
  <2>. QED
    BY <2>1, <2>2
<1>10. ids \subseteq ToSet(active) /\ ids \subseteq Id
  <2>1. ids = {work[i].id : i \in 1 .. N}
    BY ServedIs
  <2>. QED
    BY <1>9, <2>1
<1>11. \A x \in Id : prompt[x] \in Seq(Token) /\ delivered[x] \in Seq(Token) /\ wanted[x] \in Nat
  BY DEF RequestsOK, Token
<1>12. ASSUME NEW i \in 1 .. N
       PROVE  /\ Begins(After(worker, batch[i]), all(id(i)))
              /\ Len(delivered[id(i)]) < wanted[id(i)]
              /\ r.tokens[i] # NoToken => /\ r.tokens[i] = Greedy(KVOf(all(id(i))))
                                          /\ work[i].kind # "replay"
  <2>. DEFINE item == work[i]
              b == batch[i]
  <2>1. /\ Servable(item) /\ b = BatchItem(Request(item.id), item) /\ b.id = item.id
        /\ Accepted(worker, b) /\ ReplayValid(b)
    BY <1>3, <1>8
  <2>2. b.id \in DOMAIN worker.states =>
           Begins(worker.states[b.id].history, prompt[item.id] \o delivered[item.id])
    BY <1>2, <2>1
  <2>. HIDE DEF item, b
  <2>3. /\ Begins(After(worker, b), prompt[item.id] \o delivered[item.id])
        /\ Len(delivered[item.id]) < wanted[item.id]
        /\ Emits(Request(item.id), item) => After(worker, b) = prompt[item.id] \o delivered[item.id]
    BY <1>2, <2>1, <2>2, ServedAfter
  <2>4. r.tokens[i] # NoToken => Emits(Request(item.id), item)
    BY <1>1 DEF item
  <2>5. Emits(Request(item.id), item) => item.kind # "replay"
    BY DEF Emits
  <2>6. r.tokens[i] # NoToken => r.tokens[i] = Greedy(KVOf(After(worker, b)))
    BY <1>8 DEF b
  <2>. QED
    BY <2>3, <2>4, <2>5, <2>6 DEF item, b
<1>13. ASSUME NEW i \in 1 .. N
       PROVE  now[id(i)] = IF r.tokens[i] # NoToken THEN Append(delivered[id(i)], r.tokens[i])
                           ELSE delivered[id(i)]
  <2>1. IndexOf(work, id(i)) = i /\ id(i) \in Served(work)
    BY <1>6, IndexIs
  <2>2. id(i) \in DOMAIN delivered
    BY <1>9 DEF RequestsOK
  <2>. QED
    BY <2>1, <2>2 DEF Received
<1>14. DOMAIN now = Id /\ \A x \in Id : x \notin ids => now[x] = delivered[x]
  <2>1. DOMAIN delivered = Id
    BY DEF RequestsOK
  <2>. QED
    BY <2>1 DEF Received
<1>15. ASSUME NEW x \in Id
       PROVE  /\ now[x] \in Seq(Token) /\ Len(now[x]) <= wanted[x] /\ AsAlone(prompt[x], now[x])
              /\ \A h \in Seq(Token) : Begins(h, all(x)) => Begins(h, prompt[x] \o now[x])
  <2>1. Len(delivered[x]) <= wanted[x] /\ AsAlone(prompt[x], delivered[x])
    BY DEF DeliveryOK
  <2>2. CASE now[x] = delivered[x]
    BY <1>11, <2>1, <2>2
  <2>3. CASE now[x] # delivered[x]
    <3>1. PICK i \in 1 .. N : x = id(i) /\ r.tokens[i] # NoToken
      <4>1. x \in ids
        BY <1>14, <2>3
      <4>2. PICK i \in 1 .. N : x = id(i)
        BY <4>1, ServedIs
      <4>. QED
        BY <1>13, <2>3, <4>2
    <3>2. now[x] = Append(delivered[x], r.tokens[i]) /\ Len(delivered[x]) < wanted[x]
          /\ r.tokens[i] = Greedy(KVOf(prompt[x] \o delivered[x]))
      BY <1>12, <1>13, <3>1
    <3>. DEFINE p == prompt[x]
                d == delivered[x]
                t == r.tokens[i]
                e == now[x]
    <3>3. p \in Seq(Token) /\ d \in Seq(Token) /\ AsAlone(p, d) /\ t = Greedy(KVOf(p \o d)) /\ e = Append(d, t)
      BY <1>11, <2>1, <3>2
    <3>. HIDE DEF p, d, t, e
    <3>4. /\ e \in Seq(Token) /\ Len(e) = Len(d) + 1 /\ AsAlone(p, e)
          /\ \A h \in Seq(Token) : Begins(h, p \o d) => Begins(h, p \o e)
      BY <3>3, AppendAlone
    <3>5. Len(e) <= wanted[x]
      <4>1. Len(d) \in Nat /\ wanted[x] \in Nat /\ Len(d) < wanted[x]
        BY <1>11, <3>2, <3>3, SMTT(30) DEF d
      <4>. QED
        BY <3>4, <4>1
    <3>. QED
      BY <3>4, <3>5 DEF p, d, e
  <2>. QED
    BY <2>2, <2>3
<1>16. now \in [Id -> Seq(Token)]
  <2>1. now = [x \in Id |-> now[x]]
    BY <1>14 DEF Received
  <2>. QED
    BY <1>15, <2>1
<1>17. ASSUME NEW x \in DOMAIN w.states PROVE Begins(w.states[x].history, prompt[x] \o now[x])
  <2>1. x \in Id /\ w.states[x].history \in Seq(Token)
    <3>1. w \in Workers
      BY <1>8 DEF Settled
    <3>. QED
      BY <1>2, <1>8, <1>10, <3>1, WorkerFields
  <2>2. Begins(w.states[x].history, all(x))
    <3>1. CASE x \in ids
      <4>1. PICK i \in 1 .. N : x = id(i)
        BY <3>1, ServedIs
      <4>. QED
        BY <1>8, <1>12, <4>1
    <3>2. CASE x \notin ids
      BY <1>2, <1>8, <3>2
    <3>. QED
      BY <3>1, <3>2
  <2>. QED
    BY <1>15, <2>1, <2>2
<1>18. \A x \in ids : Len(delivered[x]) < wanted[x]
  BY <1>12, ServedIs
<1>19. \A i \in 1 .. N : work[i].kind = "replay" => now[id(i)] = delivered[id(i)]
  BY <1>12, <1>13
<1>. QED
  BY <1>6, <1>8, <1>10, <1>14, <1>15, <1>16, <1>17, <1>18, <1>19 DEF ServedWell

\* The requests that are through, in the order of the work, are released.
Leaving(work, through) == Selected([i \in DOMAIN work |-> work[i].id], through)

LEMMA EndedGood ==
  ASSUME NEW work \in Seq(WorkItems), \A i, j \in 1 .. Len(work) : work[i].id = work[j].id => i = j,
         NEW w \in Settled, Served(work) \subseteq DOMAIN w.states,
         NEW through \in SUBSET Served(work),
         NEW v, v = AllReleased(w, Leaving(work, through))
  PROVE  /\ v \in Settled /\ DOMAIN v.states = DOMAIN w.states \ through
         /\ \A x \in DOMAIN v.states : v.states[x] = w.states[x]
<1>. DEFINE q == [i \in DOMAIN work |-> work[i].id]
            ids == Selected(q, through)
<1>1. DOMAIN work = 1 .. Len(work) /\ Len(work) \in Nat /\ \A i \in 1 .. Len(work) : work[i].id \in Nat
  <2>1. DOMAIN work = 1 .. Len(work) /\ Len(work) \in Nat
    OBVIOUS
  <2>2. \A i \in 1 .. Len(work) : work[i] \in WorkItems
    OBVIOUS
  <2>. QED
    BY <2>1, <2>2 DEF WorkItems
<1>2. q \in Seq(Nat) /\ IsInjective(q) /\ ToSet(q) = Served(work)
  <2>1. q \in [1 .. Len(work) -> Nat] /\ DOMAIN q = 1 .. Len(work)
        /\ \A i \in 1 .. Len(work) : q[i] = work[i].id
    BY <1>1
  <2>. HIDE DEF q
  <2>2. q \in Seq(Nat)
    BY <1>1, <2>1
  <2>3. IsInjective(q)
    BY <2>1 DEF IsInjective
  <2>4. ToSet(q) = Served(work)
    BY <2>1, ServedIs DEF ToSet
  <2>. QED
    BY <2>2, <2>3, <2>4
<1>. HIDE DEF q
<1>3. ids \in Seq(Nat) /\ ToSet(ids) = ToSet(q) \cap through /\ IsInjective(ids)
  BY <1>2, SelectedFacts
<1>4. v = AllReleased(w, ids)
  BY DEF q, Leaving
<1>. HIDE DEF ids
<1>5. DOMAIN ids = 1 .. Len(ids)
  BY <1>3
<1>6. ToSet(ids) = through
  BY <1>2, <1>3
<1>7. /\ \A i, j \in 1 .. Len(ids) : ids[i] = ids[j] => i = j
      /\ \A i \in 1 .. Len(ids) : ids[i] \in DOMAIN w.states
  <2>1. \A i \in 1 .. Len(ids) : ids[i] \in ToSet(ids)
    BY <1>5 DEF ToSet
  <2>. QED
    BY <1>3, <1>5, <1>6, <2>1 DEF IsInjective
<1>8. /\ v \in Settled
      /\ DOMAIN v.states = DOMAIN w.states \ ToSet(ids)
      /\ \A x \in DOMAIN v.states : v.states[x] = w.states[x]
  <2>1. w \in Settled /\ ids \in Seq(Nat)
    BY <1>3
  <2>2. v \in Settled
    BY <1>4, <1>7, <2>1, ReleasedAll
  <2>3. DOMAIN v.states = DOMAIN w.states \ ToSet(ids)
    BY <1>4, <1>7, <2>1, ReleasedAll
  <2>4. \A x \in DOMAIN v.states : v.states[x] = w.states[x]
    BY <1>4, <1>7, <2>1, ReleasedAll
  <2>. QED
    BY <2>2, <2>3, <2>4
<1>. QED
  BY <1>6, <1>8

------------------------------------------------------------------------------
\* The dynamic schedule's work

\* Who is still to arrive has neither been queued nor served.
Awaited ==
    /\ IsInjective(incoming)
    /\ \A r \in ToSet(incoming) :
          r \notin ToSet(waiting) /\ r \notin ToSet(active) /\ delivered[r] = <<>>

Replays == [target : Nat, progress : Nat]

\* A replay is under way, and does not reach beyond what was cached.
ReplayOK ==
    /\ DOMAIN replay \subseteq Id
    /\ \A r \in DOMAIN replay : /\ replay[r] \in Replays /\ replay[r].progress < replay[r].target
                                /\ replay[r].target <= Len(CachedTokens(Request(r)))

PrefilledOK == \A r \in Id : prefilled[r] <= Len(prompt[r])

\* An item the dynamic schedule plans.
Workable(item) ==
    /\ Servable(item) /\ (item.kind = "replay" <=> item.id \in DOMAIN replay)
    /\ item.start = Progress(item.id) /\ item.target = Goal(item.id)

LEMMA ProgressIs ==
  ASSUME RequestsOK, ReplayOK, PrefilledOK, NEW r \in Id
  PROVE  /\ Progress(r) \in Nat /\ Goal(r) \in Nat /\ Progress(r) <= Goal(r)
         /\ r \in DOMAIN replay => Goal(r) <= Len(CachedTokens(Request(r)))
                                   /\ Progress(r) = replay[r].progress /\ Goal(r) = replay[r].target
         /\ r \notin DOMAIN replay => Goal(r) = Len(prompt[r]) /\ Progress(r) = prefilled[r]
<1>1. prefilled[r] \in Nat /\ Len(prompt[r]) \in Nat /\ prefilled[r] <= Len(prompt[r])
  <2>1. prefilled[r] \in Nat /\ prompt[r] \in Seq(Token)
    BY DEF RequestsOK
  <2>2. Len(prompt[r]) \in Nat
    BY <2>1
  <2>. QED
    BY <2>1, <2>2 DEF PrefilledOK
<1>2. CASE r \in DOMAIN replay
  <2>1. /\ replay[r].target \in Nat /\ replay[r].progress \in Nat
        /\ replay[r].progress < replay[r].target
        /\ replay[r].target <= Len(CachedTokens(Request(r)))
    BY <1>2 DEF ReplayOK, Replays
  <2>2. Progress(r) = replay[r].progress /\ Goal(r) = replay[r].target
    BY <1>2 DEF Progress, Goal, Replaying
  <2>. QED
    BY <1>2, <2>1, <2>2
<1>3. CASE r \notin DOMAIN replay
  <2>1. Progress(r) = prefilled[r] /\ Goal(r) = Len(prompt[r])
    BY <1>3 DEF Progress, Goal, Replaying
  <2>. QED
    BY <1>1, <1>3, <2>1
<1>. QED
  BY <1>2, <1>3

\* Allotting a number of tokens to an active request.
LEMMA ItemIs ==
  ASSUME RequestsOK, ReplayOK, PrefilledOK, NEW r \in ToSet(active), NEW kind \in Kinds,
         NEW count \in Nat, NEW item, item = Item(r, kind, count),
         kind = "replay" <=> r \in DOMAIN replay,
         kind = "decode" => delivered[r] # <<>>,
         kind # "decode" => count <= Goal(r) - Progress(r),
         kind = "prefill" => delivered[r] = <<>>
  PROVE  Workable(item) /\ item \in WorkItems /\ item.count = count /\ item.id = r
<1>1. r \in Id /\ r \in Nat
  <2>1. active \in Seq(Id)
    BY DEF RequestsOK
  <2>. QED
    BY <2>1, SchedulerAssumption DEF ToSet, Id
<1>2. /\ Progress(r) \in Nat /\ Goal(r) \in Nat /\ Progress(r) <= Goal(r)
      /\ r \in DOMAIN replay => Goal(r) <= Len(CachedTokens(Request(r)))
      /\ r \notin DOMAIN replay => Goal(r) = Len(prompt[r])
  BY <1>1, ProgressIs
<1>. DEFINE a == Progress(r)
            g == Goal(r)
<1>3. item = [id |-> r, kind |-> kind, start |-> a, count |-> count, target |-> g]
  BY DEF Item
<1>4. a \in Nat /\ g \in Nat /\ a <= g /\ (kind # "decode" => count <= g - a)
  BY <1>2
<1>. HIDE DEF a, g
<1>5. /\ item.id = r /\ item.kind = kind /\ item.start = a /\ item.count = count /\ item.target = g
      /\ item \in WorkItems
  BY <1>1, <1>3, <1>4 DEF WorkItems
<1>6. kind # "decode" => a + count <= g
  BY <1>4
<1>7. Servable(item)
  <2>1. kind = "prefill" => g = Len(prompt[r])
    BY <1>2 DEF g
  <2>2. kind = "replay" => g <= Len(CachedTokens(Request(r)))
    BY <1>2 DEF g
  <2>. QED
    BY <1>5, <1>6, <2>1, <2>2 DEF Servable
<1>. QED
  BY <1>5, <1>7 DEF Workable, a, g

LEMMA DecodesAre ==
  ASSUME RequestsOK, ReplayOK, PrefilledOK
  PROVE  /\ Decodes \in Seq(WorkItems)
         /\ \A i \in 1 .. Len(Decodes) : Workable(Decodes[i]) /\ Decodes[i].count = 1
<1>. DEFINE S == {r \in Id : Decoding(r)}
            ids == Selected(active, S)
<1>1. ids \in Seq(Id) /\ ToSet(ids) = ToSet(active) \cap S
  <2>1. active \in Seq(Id)
    BY DEF RequestsOK
  <2>. HIDE DEF S
  <2>. QED
    BY <2>1, SelectedFacts
<1>2. Decodes = [i \in DOMAIN ids |-> Item(ids[i], "decode", 1)]
  BY DEF Decodes
<1>3. DOMAIN ids = 1 .. Len(ids) /\ Len(ids) \in Nat /\ \A i \in 1 .. Len(ids) : ids[i] \in ToSet(ids)
  <2>1. DOMAIN ids = 1 .. Len(ids) /\ Len(ids) \in Nat
    BY <1>1
  <2>. HIDE DEF ids
  <2>. QED
    BY <2>1 DEF ToSet
<1>. HIDE DEF ids
<1>4. ASSUME NEW i \in 1 .. Len(ids)
      PROVE  /\ Workable(Item(ids[i], "decode", 1)) /\ Item(ids[i], "decode", 1) \in WorkItems
             /\ Item(ids[i], "decode", 1).count = 1
  <2>. DEFINE r == ids[i]
  <2>1. r \in ToSet(active) /\ delivered[r] # <<>> /\ r \notin DOMAIN replay
    BY <1>1, <1>3 DEF Decoding, Replaying
  <2>2. "decode" \in Kinds /\ 1 \in Nat
    BY DEF Kinds
  <2>. HIDE DEF r
  <2>. DEFINE item == Item(r, "decode", 1)
  <2>3. Workable(item) /\ item \in WorkItems /\ item.count = 1
    <3>1. item = Item(r, "decode", 1)
      OBVIOUS
    <3>. HIDE DEF item
    <3>. QED
      BY <2>1, <2>2, <3>1, ItemIs
  <2>. QED
    BY <2>3 DEF r
<1>5. /\ DOMAIN Decodes = 1 .. Len(ids)
      /\ \A i \in 1 .. Len(ids) : Decodes[i] = Item(ids[i], "decode", 1)
      /\ Decodes \in [1 .. Len(ids) -> WorkItems]
  BY <1>2, <1>3, <1>4
<1>6. Decodes \in Seq(WorkItems) /\ Len(Decodes) = Len(ids)
  BY <1>3, <1>5
<1>. QED
  BY <1>4, <1>5, <1>6

LEMMA CandidatesAre ==
  ASSUME RequestsOK
  PROVE  /\ Candidates \in Seq(Id)
         /\ \A i \in 1 .. Len(Candidates) :
               /\ Candidates[i] \in ToSet(active)
               /\ Candidates[i] \notin DOMAIN replay => delivered[Candidates[i]] = <<>>
<1>. DEFINE A == {r \in Id : Replaying(r)}
            B == {r \in Id : Prefilling(r)}
            a == Selected(active, A)
            b == Selected(active, B)
<1>1. active \in Seq(Id)
  BY DEF RequestsOK
<1>. HIDE DEF A, B
<1>2. /\ a \in Seq(Id) /\ ToSet(a) = ToSet(active) \cap A
      /\ b \in Seq(Id) /\ ToSet(b) = ToSet(active) \cap B
  BY <1>1, SelectedFacts
<1>3. Candidates = a \o b
  BY DEF Candidates, A, B
<1>. HIDE DEF a, b
<1>4. ToSet(a \o b) = ToSet(a) \cup ToSet(b) /\ a \o b \in Seq(Id)
  BY <1>2, JoinQueues
<1>5. \A i \in 1 .. Len(a \o b) : (a \o b)[i] \in ToSet(a \o b)
  <2>1. DOMAIN (a \o b) = 1 .. Len(a \o b)
    BY <1>4
  <2>. QED
    BY <2>1 DEF ToSet
<1>6. ASSUME NEW r \in ToSet(a) \cup ToSet(b)
      PROVE  r \in ToSet(active) /\ (r \notin DOMAIN replay => delivered[r] = <<>>)
  BY <1>2 DEF A, B, Replaying, Prefilling
<1>. QED
  BY <1>3, <1>4, <1>5, <1>6

\* The work is planned item by item.
LEMMA WorkGood ==
  ASSUME RequestsOK, ReplayOK, PrefilledOK, ~OverBudget
  PROVE  Work \in Seq(WorkItems) /\ \A i \in 1 .. Len(Work) : Workable(Work[i])
<1>. DEFINE q == Candidates
            N == Len(q)
            start == Decodes
            Works == {work \in Seq(WorkItems) : /\ Remaining(work) \in Nat
                                                /\ \A i \in 1 .. Len(work) : Workable(work[i])}
            Parts(n) == Works
            it == CHOOSE h : h = [n \in 0 .. Len(Candidates) |->
                                     IF n = 0 THEN Decodes ELSE Allotted(h[n - 1], Candidates[n])]
<1>1. Work = it[N]
  BY Zenon DEF Work, Iterated
<1>2. N \in Nat /\ \A n \in 1 .. N : q[n] \in ToSet(active) /\ (q[n] \notin DOMAIN replay => delivered[q[n]] = <<>>)
  BY CandidatesAre
<1>3. start \in Parts(0)
  <2>1. /\ Decodes \in Seq(WorkItems)
        /\ \A i \in 1 .. Len(Decodes) : Workable(Decodes[i]) /\ Decodes[i].count = 1
    BY DecodesAre
  <2>2. Iterated(Spent, 0, Decodes) = Len(Decodes)
    BY <2>1, SpentOnes
  <2>3. budget \in Nat /\ Len(Decodes) \in Nat /\ Len(Decodes) <= budget
    <3>1. budget \in Nat /\ Len(Decodes) \in Nat
      BY <2>1 DEF RequestsOK, Token
    <3>. QED
      BY <3>1 DEF OverBudget
  <2>4. Remaining(Decodes) \in Nat
    BY <2>2, <2>3 DEF Remaining
  <2>. QED
    BY <2>1, <2>4
<1>4. ASSUME NEW n \in 1 .. N, NEW work \in Parts(n - 1) PROVE Allotted(work, q[n]) \in Parts(n)
  <2>. DEFINE r == q[n]
              left == Remaining(work)
              count == Smallest({Goal(r) - Progress(r), left, ChunkSize})
              kind == IF Replaying(r) THEN "replay" ELSE "prefill"
              item == Item(r, kind, count)
  <2>1. Allotted(work, r) = IF left = 0 THEN work ELSE Append(work, item)
    BY DEF Allotted
  <2>2. /\ r \in ToSet(active) /\ (r \notin DOMAIN replay => delivered[r] = <<>>)
        /\ work \in Seq(WorkItems) /\ left \in Nat /\ \A i \in 1 .. Len(work) : Workable(work[i])
    BY <1>2
  <2>3. CASE left = 0
    BY <2>1, <2>3
  <2>4. CASE left # 0
    <3>1. r \in Id
      <4>1. active \in Seq(Id)
        BY DEF RequestsOK
      <4>. QED
        BY <2>2, <4>1 DEF ToSet
    <3>. DEFINE rest == Goal(r) - Progress(r)
                S == {rest, left, ChunkSize}
    <3>2. rest \in Nat
      <4>1. Progress(r) \in Nat /\ Goal(r) \in Nat /\ Progress(r) <= Goal(r)
        BY <3>1, ProgressIs
      <4>. QED
        BY <4>1
    <3>3. S \in SUBSET Nat /\ S # {}
      BY <2>2, <3>2, SchedulerAssumption
    <3>4. count = Smallest(S)
      OBVIOUS
    <3>. HIDE DEF count
    <3>5. count \in Nat /\ count <= rest /\ count <= left
      <4>1. count \in S /\ \A m \in S : count <= m
        <5>. HIDE DEF S
        <5>. QED
          BY <3>3, <3>4, SmallestIs
      <4>. QED
        BY <3>3, <4>1
    <3>6. kind \in Kinds /\ (kind = "replay" <=> r \in DOMAIN replay) /\ kind # "decode"
          /\ (kind = "prefill" => delivered[r] = <<>>)
      BY <2>2 DEF Kinds, Replaying
    <3>7. item = Item(r, kind, count)
      OBVIOUS
    <3>. HIDE DEF kind, item
    <3>8. Workable(item) /\ item \in WorkItems /\ item.count = count
      <4>. HIDE DEF r, S
      <4>. QED
        BY <2>2, <3>5, <3>6, <3>7, ItemIs
    <3>. DEFINE more == Append(work, item)
    <3>9. Iterated(Spent, 0, work) \in Nat /\ Iterated(Spent, 0, more) = Iterated(Spent, 0, work) + item.count
      BY <2>2, <3>8, SpentMore
    <3>10. Remaining(more) \in Nat
      <4>. DEFINE a == Iterated(Spent, 0, work)
                  b == Iterated(Spent, 0, more)
      <4>1. a \in Nat /\ b = a + count
        BY <3>8, <3>9
      <4>2. left = budget - a /\ Remaining(more) = budget - b /\ budget \in Nat
        BY DEF Remaining, RequestsOK, Token
      <4>. HIDE DEF a, b, left
      <4>. QED
        BY <2>2, <3>5, <4>1, <4>2
    <3>11. /\ more \in Seq(WorkItems) /\ Len(more) = Len(work) + 1 /\ Len(work) \in Nat
           /\ more[Len(work) + 1] = item /\ \A i \in 1 .. Len(work) : more[i] = work[i]
      BY <2>2, <3>8
    <3>12. \A i \in 1 .. Len(more) : Workable(more[i])
      <4>. HIDE DEF more
      <4>1. \A i \in 1 .. Len(more) : i \in 1 .. Len(work) \/ i = Len(work) + 1
        BY <3>11
      <4>. QED
        BY <2>2, <3>8, <3>11, <4>1
    <3>13. Allotted(work, r) = more
      BY <2>1, <2>4
    <3>. HIDE DEF more
    <3>14. more \in Works
      BY <3>10, <3>11, <3>12
    <3>. QED
      BY <3>13, <3>14
  <2>. QED
    BY <2>3, <2>4
<1>5. N = Len(Candidates) /\ q = Candidates /\ start = Decodes
  OBVIOUS
<1>6. Works \subseteq Seq(WorkItems)
  OBVIOUS
<1>. HIDE DEF N, q, start, Works
<1>. DEFINE S == [n \in 0 .. N |-> Parts(n)]
            move == [n \in 1 .. N |-> [work \in Works |-> Allotted(work, q[n])]]
<1>7. /\ \A n \in 0 .. N : S[n] = Parts(n)
      /\ \A n \in 0 .. N : Parts(n) \subseteq Works
      /\ 0 \in 0 .. N /\ N \in 0 .. N
      /\ \A n \in 1 .. N : n \in 0 .. N /\ n - 1 \in 0 .. N /\ n # 0
      /\ \A n \in 0 .. N : n = 0 \/ n \in 1 .. N
  BY <1>2 DEF Works
<1>. HIDE DEF S, Parts
<1>8. \A n \in 1 .. N : \A work \in S[n - 1] : move[n][work] = Allotted(work, q[n]) /\ move[n][work] \in S[n]
  BY <1>4, <1>7
<1>. HIDE DEF move
<1>9. PICK f : Orbit(f, N, start, move) /\ \A n \in 0 .. N : f[n] \in S[n]
  <2>1. start \in S[0] /\ \A n \in 1 .. N : \A d \in S[n - 1] : move[n][d] \in S[n]
    BY <1>3, <1>7, <1>8
  <2>. QED
    BY <1>2, <2>1, OrbitExists
<1>10. f = [n \in 0 .. N |-> IF n = 0 THEN start ELSE Allotted(f[n - 1], q[n])]
  <2>1. f = [n \in 0 .. N |-> IF n = 0 THEN start ELSE move[n][f[n - 1]]]
    BY <1>9 DEF Orbit
  <2>2. \A n \in 0 .. N : n # 0 => move[n][f[n - 1]] = Allotted(f[n - 1], q[n])
    BY <1>7, <1>8, <1>9
  <2>. QED
    BY <2>1, <2>2, Zenon
<1>11. it = [n \in 0 .. N |-> IF n = 0 THEN start ELSE Allotted(it[n - 1], q[n])]
  BY <1>5, <1>10, Zenon
<1>. HIDE DEF it
<1>12. it[0] = start /\ \A n \in 1 .. N : it[n] = Allotted(it[n - 1], q[n])
  <2>1. \A n \in 0 .. N : it[n] = IF n = 0 THEN start ELSE Allotted(it[n - 1], q[n])
    BY <1>11, Zenon
  <2>. QED
    BY <1>7, <2>1, Zenon
<1>. DEFINE X == {n \in 0 .. N : it[n] \in Parts(n)}
<1>13. \A n \in 0 .. N : n \in X
  <2>1. 0 \in X
    BY <1>3, <1>7, <1>12
  <2>2. \A n \in 1 .. N : n - 1 \in X => n \in X
    BY <1>4, <1>7, <1>12
  <2>. HIDE DEF X
  <2>. QED
    BY <1>2, <2>1, <2>2, Stepwise
<1>14. it[N] \in Parts(N)
  BY <1>7, <1>13
<1>15. Work \in Works
  BY <1>1, <1>14 DEF Parts
<1>. QED
  BY <1>15 DEF Works

------------------------------------------------------------------------------
\* Parts of queues

LEMMA PartQueue ==
  ASSUME NEW T, NEW q \in Seq(T), NEW a \in Nat, NEW b \in Nat, b <= Len(q),
         NEW s, s = SubSeq(q, a + 1, b)
  PROVE  /\ s \in Seq(T) /\ Len(s) = IF a <= b THEN b - a ELSE 0
         /\ \A i \in 1 .. Len(s) : s[i] = q[a + i] /\ a + i \in a + 1 .. b
<1>1. DOMAIN q = 1 .. Len(q) /\ Len(q) \in Nat
  OBVIOUS
<1>2. CASE a <= b
  <2>. DEFINE l == b - a
  <2>1. l \in Nat /\ a + l = b
    BY <1>2
  <2>2. s = [i \in 1 .. l |-> q[a + i]]
    BY <1>1, <2>1
  <2>. HIDE DEF l
  <2>3. \A i \in 1 .. l : a + i \in a + 1 .. b /\ a + i \in 1 .. Len(q)
    BY <1>1, <2>1
  <2>4. s \in Seq(T) /\ DOMAIN s = 1 .. l /\ Len(s) = l /\ \A i \in 1 .. l : s[i] = q[a + i]
    BY <1>1, <2>1, <2>2, <2>3
  <2>. QED
    BY <1>2, <2>3, <2>4 DEF l
<1>3. CASE a > b
  <2>1. s = <<>>
    BY <1>1, <1>3
  <2>2. Len(s) = 0 /\ s \in Seq(T)
    BY <2>1
  <2>. QED
    BY <1>3, <2>2
<1>. QED
  BY <1>2, <1>3

\* Its elements, once each when the queue has them once each.
LEMMA PartOnce ==
  ASSUME NEW T, NEW q \in Seq(T), NEW a \in Nat, NEW b \in Nat, b <= Len(q),
         NEW s, s = SubSeq(q, a + 1, b)
  PROVE  /\ ToSet(s) \subseteq ToSet(q)
         /\ IsInjective(q) => IsInjective(s)
<1>1. DOMAIN q = 1 .. Len(q) /\ Len(q) \in Nat
  OBVIOUS
<1>2. s \in Seq(T)
  BY PartQueue
<1>3. DOMAIN s = 1 .. Len(s) /\ Len(s) \in Nat
  BY <1>2
<1>4. \A i \in 1 .. Len(s) : s[i] = q[a + i] /\ a + i \in a + 1 .. b
  BY PartQueue
<1>5. \A i \in 1 .. Len(s) : a + i \in DOMAIN q
  BY <1>1, <1>3, <1>4
<1>6. ToSet(s) \subseteq ToSet(q)
  BY <1>3, <1>4, <1>5 DEF ToSet
<1>7. ASSUME IsInjective(q) PROVE IsInjective(s)
  <2>. SUFFICES ASSUME NEW i \in 1 .. Len(s), NEW j \in 1 .. Len(s), s[i] = s[j] PROVE i = j
    BY <1>3 DEF IsInjective
  <2>1. a + i = a + j
    BY <1>4, <1>5, <1>7 DEF IsInjective
  <2>. QED
    BY <1>3, <2>1
<1>. QED
  BY <1>6, <1>7

\* A queue without repetitions, cut in two.
LEMMA CutQueue ==
  ASSUME NEW T, NEW q \in Seq(T), IsInjective(q), NEW n \in 0 .. Len(q),
         NEW s, s = SubSeq(q, 1, n), NEW t, t = SubSeq(q, n + 1, Len(q)), NEW x \in ToSet(t)
  PROVE  x \notin ToSet(s)
<1>. SUFFICES ASSUME x \in ToSet(s) PROVE FALSE
  OBVIOUS
<1>. DEFINE l == Len(q)
            z == 0
<1>1. l \in Nat /\ n \in Nat /\ n <= l /\ DOMAIN q = 1 .. l /\ l <= Len(q)
  OBVIOUS
<1>2. z \in Nat /\ z + 1 = 1 /\ z = 0
  OBVIOUS
<1>3. s = SubSeq(q, z + 1, n) /\ t = SubSeq(q, n + 1, l)
  BY <1>2
<1>. HIDE DEF z, l
<1>4. s \in Seq(T) /\ \A i \in 1 .. Len(s) : s[i] = q[z + i] /\ z + i \in z + 1 .. n
  BY <1>1, <1>2, <1>3, PartQueue
<1>5. t \in Seq(T) /\ \A i \in 1 .. Len(t) : t[i] = q[n + i] /\ n + i \in n + 1 .. l
  BY <1>1, <1>3, PartQueue
<1>6. PICK i \in 1 .. Len(s) : x = s[i]
  <2>1. DOMAIN s = 1 .. Len(s)
    BY <1>4
  <2>. QED
    BY <2>1 DEF ToSet
<1>7. PICK j \in 1 .. Len(t) : x = t[j]
  <2>1. DOMAIN t = 1 .. Len(t)
    BY <1>5
  <2>. QED
    BY <2>1 DEF ToSet
<1>8. q[z + i] = q[n + j] /\ z + i <= n /\ n + j > n /\ z + i \in 1 .. l /\ n + j \in 1 .. l
  BY <1>1, <1>2, <1>4, <1>5, <1>6, <1>7
<1>9. z + i # n + j
  BY <1>1, <1>2, <1>8
<1>. QED
  BY <1>1, <1>8, <1>9 DEF IsInjective

\* An empty queue.
LEMMA EmptyQueue ==
  ASSUME NEW T
  PROVE  <<>> \in Seq(T) /\ ToSet(<<>>) = {} /\ Len(<<>>) = 0 /\ IsInjective(<<>>)
<1>1. DOMAIN <<>> = {}
  OBVIOUS
<1>. QED
  BY <1>1 DEF ToSet, IsInjective

------------------------------------------------------------------------------
\* The invariant of the dynamic schedule

CompletedOK == \A r \in Id : outcome[r] = "completed" <=> Len(delivered[r]) = wanted[r]

NativeOK ==
    /\ native \subseteq Id /\ at \in {"arrivals", "plan", "done", "error"}
    /\ at \in {"arrivals", "plan"} => native = DOMAIN worker.states
    /\ outcome \in [Id -> {"", "rejected", "completed"}]

DynamicInv ==
    /\ RequestsOK /\ WorkerOK /\ DeliveryOK /\ CompletedOK
    /\ Awaited /\ PrefilledOK /\ ReplayOK /\ NativeOK /\ Len(active) <= MaxBatchSize

\* Before anything has arrived, in either schedule.
LEMMA BeginsWell ==
  ASSUME ScheduleBegins
  PROVE  /\ RequestsOK /\ WorkerOK /\ DeliveryOK /\ CompletedOK /\ Awaited /\ PrefilledOK
         /\ DOMAIN worker.states = {} /\ Len(active) <= MaxBatchSize
<1>1. Id = 1 .. Ids /\ Ids \in Nat
  BY SchedulerAssumption DEF Id
<1>2. /\ prompt \in [Id -> Seq(Token) \ {<<>>}] /\ wanted \in [Id -> Token] /\ budget \in Token
  BY SchedulerAssumption DEF ScheduleBegins, Token
<1>3. incoming \in Seq(Id) /\ IsInjective(incoming)
  <2>1. incoming = [i \in Id |-> i]
    BY DEF ScheduleBegins
  <2>2. incoming \in [1 .. Ids -> Id] /\ DOMAIN incoming = 1 .. Ids /\ \A i \in 1 .. Ids : incoming[i] = i
    BY <1>1, <2>1
  <2>. QED
    BY <1>1, <2>2 DEF IsInjective
<1>4. /\ delivered \in [Id -> Seq(Token)] /\ prefilled \in [Id -> Nat]
      /\ \A r \in Id : delivered[r] = <<>> /\ prefilled[r] = 0 /\ outcome[r] = ""
  <2>1. delivered = [r \in Id |-> <<>>] /\ prefilled = [r \in Id |-> 0] /\ outcome = [r \in Id |-> ""]
    BY DEF ScheduleBegins
  <2>2. <<>> \in Seq(Token)
    OBVIOUS
  <2>. QED
    BY <2>1, <2>2
<1>5. waiting \in Seq(Id) /\ active \in Seq(Id) /\ ToSet(waiting) = {} /\ ToSet(active) = {}
  <2>1. waiting = <<>> /\ active = <<>>
    BY DEF ScheduleBegins
  <2>. QED
    BY <2>1, EmptyQueue
<1>6. worker \in Settled /\ DOMAIN worker.states = {}
  <2>1. PICK sharing \in BOOLEAN : worker = NewWorker(sharing)
    BY DEF ScheduleBegins
  <2>. QED
    BY <2>1, NewSettled
<1>7. RequestsOK
  BY <1>2, <1>3, <1>4, <1>5 DEF RequestsOK
<1>8. WorkerOK
  BY <1>6 DEF WorkerOK
<1>9. \A r \in Id : Len(delivered[r]) = 0 /\ wanted[r] \in Nat /\ wanted[r] # 0 /\ Len(prompt[r]) \in Nat
  <2>1. \A r \in Id : wanted[r] \in Nat /\ wanted[r] # 0 /\ prompt[r] \in Seq(Token)
    BY <1>2 DEF Token
  <2>2. ASSUME NEW r \in Id PROVE Len(delivered[r]) = 0
    <3>1. delivered[r] = <<>>
      BY <1>4
    <3>. QED
      BY <3>1, EmptyQueue
  <2>3. \A r \in Id : Len(prompt[r]) \in Nat
    BY <2>1
  <2>. QED
    BY <2>1, <2>2, <2>3
<1>10. DeliveryOK
  BY <1>9 DEF DeliveryOK, AsAlone
<1>11. CompletedOK
  BY <1>4, <1>9 DEF CompletedOK
<1>12. Awaited
  <2>1. ToSet(incoming) \subseteq Id
    BY <1>3 DEF ToSet
  <2>. QED
    BY <1>3, <1>4, <1>5, <2>1 DEF Awaited
<1>13. PrefilledOK
  <2>1. \A r \in Id : prefilled[r] = 0 /\ Len(prompt[r]) \in Nat
    BY <1>4, <1>9
  <2>. QED
    BY <2>1 DEF PrefilledOK
<1>14. Len(active) <= MaxBatchSize
  <2>1. active = <<>>
    BY DEF ScheduleBegins
  <2>2. Len(active) = 0
    BY <2>1, EmptyQueue
  <2>. QED
    BY <2>2, SchedulerAssumption
<1>. QED
  BY <1>6, <1>7, <1>8, <1>10, <1>11, <1>12, <1>13, <1>14

LEMMA DynamicInvInit == Init => DynamicInv
<1>. SUFFICES ASSUME Init PROVE DynamicInv
  OBVIOUS
<1>1. /\ RequestsOK /\ WorkerOK /\ DeliveryOK /\ CompletedOK /\ Awaited /\ PrefilledOK
      /\ DOMAIN worker.states = {} /\ Len(active) <= MaxBatchSize
  BY BeginsWell DEF Init
<1>2. ReplayOK
  <2>1. DOMAIN replay = {}
    BY DEF Init
  <2>. QED
    BY <2>1 DEF ReplayOK
<1>3. NativeOK
  BY <1>1 DEF Init, NativeOK, ScheduleBegins
<1>. QED
  BY <1>1, <1>2, <1>3 DEF DynamicInv

------------------------------------------------------------------------------
\* What leaves the dynamic schedule's invariant as it is

\* Some of the incoming requests arrive.
LEMMA ArrivedQueues ==
  ASSUME RequestsOK, Awaited, NEW n \in 0 .. Len(incoming),
         NEW arrived, arrived = SubSeq(incoming, 1, n),
         NEW left, left = SubSeq(incoming, n + 1, Len(incoming))
  PROVE  /\ arrived \in Seq(Id) /\ ToSet(arrived) \subseteq ToSet(incoming) /\ IsInjective(arrived)
         /\ left \in Seq(Id) /\ ToSet(left) \subseteq ToSet(incoming) /\ IsInjective(left)
         /\ \A x \in ToSet(left) : x \notin ToSet(arrived)
<1>. DEFINE l == Len(incoming)
            z == 0
<1>1. incoming \in Seq(Id) /\ IsInjective(incoming)
  BY DEF RequestsOK, Awaited
<1>2. l \in Nat /\ n \in Nat /\ n <= l /\ l <= l /\ z \in Nat /\ z + 1 = 1
  BY <1>1
<1>3. arrived = SubSeq(incoming, z + 1, n) /\ left = SubSeq(incoming, n + 1, l)
  BY <1>2
<1>4. n <= Len(incoming) /\ l <= Len(incoming)
  BY <1>2
<1>. HIDE DEF z, l
<1>5. arrived \in Seq(Id)
  BY <1>1, <1>2, <1>3, <1>4, PartQueue
<1>6. ToSet(arrived) \subseteq ToSet(incoming) /\ IsInjective(arrived)
  BY <1>1, <1>2, <1>3, <1>4, PartOnce
<1>7. left \in Seq(Id)
  BY <1>1, <1>2, <1>3, <1>4, PartQueue
<1>8. ToSet(left) \subseteq ToSet(incoming) /\ IsInjective(left)
  BY <1>1, <1>2, <1>3, <1>4, PartOnce
<1>9. \A x \in ToSet(left) : x \notin ToSet(arrived)
  BY <1>1, CutQueue
<1>. QED
  BY <1>5, <1>6, <1>7, <1>8, <1>9

\* A queue is cut: what it is made of.
LEMMA CutParts ==
  ASSUME NEW T, NEW q \in Seq(T), NEW k \in Nat, k <= Len(q)
  PROVE  /\ SubSeq(q, 1, k) \in Seq(T) /\ ToSet(SubSeq(q, 1, k)) \subseteq ToSet(q)
         /\ SubSeq(q, k + 1, Len(q)) \in Seq(T) /\ ToSet(SubSeq(q, k + 1, Len(q))) \subseteq ToSet(q)
<1>. DEFINE l == Len(q)
            z == 0
            s == SubSeq(q, z + 1, k)
            t == SubSeq(q, k + 1, l)
<1>1. l \in Nat /\ l <= Len(q) /\ z \in Nat /\ s = SubSeq(q, 1, k) /\ t = SubSeq(q, k + 1, Len(q))
  OBVIOUS
<1>2. s = SubSeq(q, z + 1, k) /\ t = SubSeq(q, k + 1, l)
  OBVIOUS
<1>. HIDE DEF l, z, s, t
<1>3. s \in Seq(T)
  BY <1>1, <1>2, PartQueue
<1>4. ToSet(s) \subseteq ToSet(q)
  BY <1>1, <1>2, PartOnce
<1>5. t \in Seq(T)
  BY <1>1, <1>2, PartQueue
<1>6. ToSet(t) \subseteq ToSet(q)
  BY <1>1, <1>2, PartOnce
<1>. QED
  BY <1>1, <1>3, <1>4, <1>5, <1>6

LEMMA ArrivesWell ==
  ASSUME DynamicInv, Arrive
  PROVE  DynamicInv'
<1>. USE DEF DynamicInv
<1>1. PICK n \in 0 .. Len(incoming) :
         LET arrived == SubSeq(incoming, 1, n)
             queue == waiting \o Selected(arrived, {r \in Id : ~Rejected(r)})
             admitted == IF MaxBatchSize - Len(active) < Len(queue)
                         THEN MaxBatchSize - Len(active) ELSE Len(queue)
         IN  /\ incoming' = SubSeq(incoming, n + 1, Len(incoming))
             /\ active' = active \o SubSeq(queue, 1, admitted)
             /\ waiting' = SubSeq(queue, admitted + 1, Len(queue))
             /\ outcome' = [r \in Id |-> IF Contains(arrived, r) /\ Rejected(r)
                                         THEN "rejected" ELSE outcome[r]]
  BY DEF Arrive
<1>. DEFINE arrived == SubSeq(incoming, 1, n)
            left == SubSeq(incoming, n + 1, Len(incoming))
            S == {r \in Id : ~Rejected(r)}
            queue == waiting \o Selected(arrived, S)
            k == IF MaxBatchSize - Len(active) < Len(queue) THEN MaxBatchSize - Len(active) ELSE Len(queue)
            in == SubSeq(queue, 1, k)
            out == SubSeq(queue, k + 1, Len(queue))
<1>2. /\ incoming' = left /\ active' = active \o in /\ waiting' = out
      /\ outcome' = [r \in Id |-> IF Contains(arrived, r) /\ Rejected(r) THEN "rejected" ELSE outcome[r]]
  BY <1>1
<1>3. /\ at = "arrivals" /\ at' \in {"arrivals", "plan"}
      /\ UNCHANGED <<prompt, wanted, budget, prefilled, delivered, replay, native, worker>>
  BY DEF Arrive, requestVars, progressVars
<1>4. /\ arrived \in Seq(Id) /\ ToSet(arrived) \subseteq ToSet(incoming)
      /\ left \in Seq(Id) /\ ToSet(left) \subseteq ToSet(incoming) /\ IsInjective(left)
      /\ \A x \in ToSet(left) : x \notin ToSet(arrived)
  BY ArrivedQueues
<1>5. waiting \in Seq(Id) /\ active \in Seq(Id)
  BY DEF RequestsOK
<1>. HIDE DEF arrived, left, S
<1>6. Selected(arrived, S) \in Seq(Id) /\ ToSet(Selected(arrived, S)) \subseteq ToSet(arrived)
  BY <1>4, SelectedFacts
<1>7. queue \in Seq(Id) /\ ToSet(queue) = ToSet(waiting) \cup ToSet(Selected(arrived, S))
  BY <1>5, <1>6, JoinQueues
<1>. HIDE DEF queue
<1>8. k \in Nat /\ k <= Len(queue) /\ Len(active) + k <= MaxBatchSize
  <2>1. Len(active) \in Nat /\ Len(queue) \in Nat /\ MaxBatchSize \in Nat /\ Len(active) <= MaxBatchSize
    BY <1>5, <1>7, SchedulerAssumption
  <2>. QED
    BY <2>1
<1>. HIDE DEF k
<1>9. /\ in \in Seq(Id) /\ ToSet(in) \subseteq ToSet(queue)
      /\ out \in Seq(Id) /\ ToSet(out) \subseteq ToSet(queue)
  BY <1>7, <1>8, CutParts
<1>10. Len(in) = k
  <2>. DEFINE z == 0
  <2>1. z \in Nat /\ in = SubSeq(queue, z + 1, k) /\ z <= k /\ k - z = k
    BY <1>8
  <2>. HIDE DEF z, in
  <2>. QED
    BY <1>7, <1>8, <2>1, PartQueue
<1>. HIDE DEF in, out
<1>11. /\ active \o in \in Seq(Id) /\ Len(active \o in) = Len(active) + Len(in)
       /\ ToSet(active \o in) = ToSet(active) \cup ToSet(in)
  BY <1>5, <1>9, JoinQueues
<1>12. RequestsOK'
  BY <1>2, <1>3, <1>4, <1>9, <1>11 DEF RequestsOK
<1>13. WorkerOK'
  BY <1>3 DEF WorkerOK
<1>14. DeliveryOK'
  BY <1>3 DEF DeliveryOK
<1>15. Awaited'
  <2>1. ASSUME NEW x \in ToSet(left)
        PROVE  x \notin ToSet(out) /\ x \notin ToSet(active \o in) /\ delivered[x] = <<>>
    BY <1>4, <1>6, <1>7, <1>9, <1>11 DEF Awaited
  <2>. QED
    BY <1>2, <1>3, <1>4, <2>1 DEF Awaited
<1>16. CompletedOK'
  <2>. SUFFICES ASSUME NEW r \in Id PROVE outcome'[r] = "completed" <=> Len(delivered[r]) = wanted[r]
    BY <1>3 DEF CompletedOK
  <2>1. CASE Contains(arrived, r) /\ Rejected(r)
    <3>1. r \in ToSet(incoming)
      BY <1>4, <2>1, ContainsIs
    <3>2. delivered[r] = <<>> /\ wanted[r] \in Nat \ {0}
      BY <3>1 DEF Awaited, RequestsOK, Token
    <3>3. Len(delivered[r]) = 0
      BY <3>2, EmptyQueue
    <3>. QED
      BY <1>2, <2>1, <3>2, <3>3
  <2>2. CASE ~(Contains(arrived, r) /\ Rejected(r))
    BY <1>2, <2>2 DEF CompletedOK
  <2>. QED
    BY <2>1, <2>2
<1>17. PrefilledOK'
  BY <1>3 DEF PrefilledOK
<1>18. ReplayOK'
  BY <1>3 DEF ReplayOK, CachedTokens, Request
<1>19. NativeOK'
  <2>1. outcome' \in [Id -> {"", "rejected", "completed"}]
    BY <1>2 DEF NativeOK
  <2>. QED
    BY <1>3, <2>1 DEF NativeOK
<1>20. Len(active') <= MaxBatchSize
  BY <1>2, <1>8, <1>10, <1>11
<1>. QED
  BY <1>12, <1>13, <1>14, <1>15, <1>16, <1>17, <1>18, <1>19, <1>20

LEMMA FinishesWell ==
  ASSUME DynamicInv, Finish
  PROVE  DynamicInv'
<1>. USE DEF DynamicInv
<1>1. UNCHANGED <<prompt, wanted, budget, incoming, waiting, active, prefilled, delivered, replay, native, outcome>>
  BY DEF Finish, requestVars, queueVars, progressVars
<1>2. at' = "done" /\ worker' = ClearedWorker(worker)
  BY DEF Finish
<1>3. worker' \in Settled /\ DOMAIN worker'.states = {}
  <2>1. worker \in Workers
    BY DEF WorkerOK, Settled
  <2>. QED
    BY <1>2, <2>1, ClearedSettled
<1>4. RequestsOK' /\ PrefilledOK'
  BY <1>1 DEF RequestsOK, PrefilledOK
<1>5. WorkerOK'
  BY <1>3 DEF WorkerOK
<1>6. DeliveryOK' /\ CompletedOK' /\ Awaited'
  BY <1>1 DEF DeliveryOK, CompletedOK, Awaited
<1>7. ReplayOK'
  BY <1>1 DEF ReplayOK, CachedTokens, Request
<1>8. NativeOK'
  BY <1>1, <1>2 DEF NativeOK
<1>. QED
  BY <1>1, <1>4, <1>5, <1>6, <1>7, <1>8

\* A step that fails.
LEMMA FailsWell ==
  ASSUME DynamicInv, Failed, UNCHANGED <<requestVars, queueVars, progressVars, native, outcome>>
  PROVE  DynamicInv'
<1>. USE DEF DynamicInv
<1>1. /\ UNCHANGED <<prompt, wanted, budget, incoming, waiting, active>>
      /\ UNCHANGED <<prefilled, delivered, replay, native, outcome>>
      /\ at' = "error" /\ worker' = ClearedWorker(worker)
  BY DEF Failed, requestVars, queueVars, progressVars
<1>2. worker' \in Settled /\ DOMAIN worker'.states = {}
  <2>1. worker \in Workers
    BY DEF WorkerOK, Settled
  <2>. QED
    BY <1>1, <2>1, ClearedSettled
<1>3. RequestsOK' /\ PrefilledOK'
  BY <1>1 DEF RequestsOK, PrefilledOK
<1>4. WorkerOK'
  BY <1>2 DEF WorkerOK
<1>5. DeliveryOK' /\ CompletedOK' /\ Awaited'
  BY <1>1 DEF DeliveryOK, CompletedOK, Awaited
<1>6. ReplayOK'
  BY <1>1 DEF ReplayOK, CachedTokens, Request
<1>7. NativeOK'
  BY <1>1 DEF NativeOK
<1>. QED
  BY <1>1, <1>3, <1>4, <1>5, <1>6, <1>7

------------------------------------------------------------------------------
\* Preemption

LEMMA VictimIs ==
  ASSUME RequestsOK, ReplayOK, PrefilledOK, ~PlanFails
  PROVE  Victim \in ToSet(active) /\ Victim \in Id
<1>1. Work \in Seq(WorkItems) /\ \A i \in 1 .. Len(Work) : Workable(Work[i])
  BY WorkGood DEF PlanFails
<1>2. Work # <<>>
  BY DEF PlanFails
<1>. HIDE DEF Work
<1>3. 1 \in 1 .. Len(Work)
  BY <1>1, <1>2
<1>4. Work[1].id \in ToSet(active)
  BY <1>1, <1>3 DEF Workable, Servable
<1>5. active \in Seq(Id) /\ active # <<>>
  <2>1. ToSet(<<>>) = {}
    BY EmptyQueue
  <2>. QED
    BY <1>4, <2>1 DEF RequestsOK
<1>6. Len(active) \in DOMAIN active /\ active[Len(active)] \in Id /\ Victim = active[Len(active)]
  BY <1>5 DEF Victim, Last
<1>. QED
  BY <1>6 DEF ToSet

\* What is to be replayed was cached.
LEMMA CachedLengthIs ==
  ASSUME RequestsOK, PrefilledOK, NEW r \in Id
  PROVE  CachedLength(r) \in Nat /\ CachedLength(r) <= Len(CachedTokens(Request(r)))
<1>1. /\ Len(prompt[r]) \in Nat /\ Len(delivered[r]) \in Nat /\ delivered[r] \in Seq(Token)
      /\ Len(CachedTokens(Request(r))) = IF delivered[r] = <<>> THEN Len(prompt[r])
                                         ELSE Len(prompt[r]) + Len(delivered[r]) - 1
  BY RequestIs
<1>2. delivered[r] # <<>> => Len(delivered[r]) > 0
  BY <1>1
<1>3. prefilled[r] \in Nat /\ prefilled[r] <= Len(prompt[r])
  BY DEF RequestsOK, PrefilledOK
<1>. DEFINE d == delivered[r]
            c == Len(CachedTokens(Request(r)))
<1>4. CachedLength(r) = IF d # <<>> THEN Len(prompt[r]) + Len(d) - 1 ELSE prefilled[r]
  BY DEF CachedLength
<1>. HIDE DEF c, d
<1>5. c = IF d = <<>> THEN Len(prompt[r]) ELSE Len(prompt[r]) + Len(d) - 1
  BY <1>1 DEF c, d
<1>6. CachedLength(r) \in Nat /\ CachedLength(r) <= c
  <2>1. Len(prompt[r]) \in Nat /\ Len(d) \in Nat /\ (d # <<>> => Len(d) > 0)
    BY <1>1, <1>2 DEF d
  <2>2. CASE d = <<>>
    BY <1>3, <1>4, <1>5, <2>2
  <2>3. CASE d # <<>>
    BY <1>4, <1>5, <2>1, <2>3
  <2>. QED
    BY <2>2, <2>3
<1>. QED
  BY <1>6 DEF c

LEMMA PreemptsWell ==
  ASSUME DynamicInv, Preempt
  PROVE  DynamicInv'
<1>. USE DEF DynamicInv
<1>. DEFINE v == Victim
            target == CachedLength(v)
            entry == [target |-> target, progress |-> 0]
<1>1. /\ at = "plan" /\ ~PlanFails
      /\ active' = Selected(active, Id \ {v}) /\ waiting' = <<v>> \o waiting
      /\ replay' = IF HasCached(v) THEN With(replay, v, entry) ELSE replay
      /\ native' = native \ {v}
      /\ \/ v \notin native /\ worker' = worker /\ at' = at
         \/ v \in native /\ worker' = ReleasedWorker(worker, v) /\ at' = at
         \/ at' = "error" /\ worker' = ClearedWorker(worker)
      /\ UNCHANGED <<prompt, wanted, budget, incoming, prefilled, delivered, outcome>>
  BY DEF Preempt, Failed, Requeued, requestVars
<1>2. v \in ToSet(active) /\ v \in Id
  BY <1>1, VictimIs
<1>3. target \in Nat /\ target <= Len(CachedTokens(Request(v))) /\ (HasCached(v) <=> target # 0)
  BY <1>2, CachedLengthIs DEF HasCached
<1>. HIDE DEF v, target
<1>4. active \in Seq(Id) /\ waiting \in Seq(Id) /\ Len(active) <= MaxBatchSize
  BY DEF RequestsOK
<1>5. /\ active' \in Seq(Id) /\ Len(active') <= Len(active)
      /\ ToSet(active') = ToSet(active) \cap (Id \ {v})
  BY <1>1, <1>4, SelectedFacts
<1>6. Len(active') <= MaxBatchSize
  BY <1>4, <1>5, SchedulerAssumption
<1>7. waiting' \in Seq(Id) /\ ToSet(waiting') = {v} \cup ToSet(waiting)
  <2>1. <<v>> \in Seq(Id) /\ DOMAIN <<v>> = {1} /\ <<v>>[1] = v
    BY <1>2
  <2>2. ToSet(<<v>>) = {v}
    BY <2>1 DEF ToSet
  <2>. DEFINE p == <<v>>
  <2>3. p \in Seq(Id) /\ ToSet(p) = {v} /\ waiting' = p \o waiting
    BY <1>1, <2>1, <2>2
  <2>. HIDE DEF p
  <2>4. p \o waiting \in Seq(Id) /\ ToSet(p \o waiting) = ToSet(p) \cup ToSet(waiting)
    BY <1>4, <2>3, JoinQueues
  <2>. QED
    BY <2>3, <2>4
<1>8. RequestsOK'
  BY <1>1, <1>5, <1>7 DEF RequestsOK
<1>9. native = DOMAIN worker.states
  BY <1>1 DEF NativeOK
<1>10. worker' \in Settled /\ (at' = at => DOMAIN worker'.states = DOMAIN worker.states \ {v})
       /\ DOMAIN worker'.states \subseteq DOMAIN worker.states
       /\ \A r \in DOMAIN worker'.states : worker'.states[r] = worker.states[r]
  <2>1. worker \in Settled
    BY DEF WorkerOK
  <2>2. CASE v \notin native /\ worker' = worker
    BY <1>9, <2>1, <2>2
  <2>3. CASE v \in native /\ worker' = ReleasedWorker(worker, v)
    <3>1. v \in DOMAIN worker.states
      BY <1>9, <2>3
    <3>2. worker' \in Settled /\ worker'.states = Without(worker.states, {v})
      BY <2>1, <2>3, <3>1, ReleasedSettled
    <3>. QED
      BY <3>2 DEF Without
  <2>4. CASE at' = "error" /\ worker' = ClearedWorker(worker)
    <3>1. worker' \in Settled /\ DOMAIN worker'.states = {}
      <4>1. worker \in Workers
        BY <2>1 DEF Settled
      <4>. QED
        BY <2>4, <4>1, ClearedSettled
    <3>. QED
      BY <1>1, <2>4, <3>1
  <2>. QED
    BY <1>1, <2>2, <2>3, <2>4
<1>11. WorkerOK'
  BY <1>1, <1>10 DEF WorkerOK
<1>12. DeliveryOK' /\ CompletedOK' /\ PrefilledOK'
  BY <1>1 DEF DeliveryOK, CompletedOK, PrefilledOK
<1>13. Awaited'
  BY <1>1, <1>2, <1>5, <1>7 DEF Awaited
<1>14. ReplayOK'
  <2>1. \A r : CachedTokens(Request(r))' = CachedTokens(Request(r))
    BY <1>1 DEF CachedTokens, Request
  <2>2. CASE ~HasCached(v)
    <3>1. replay' = replay
      BY <1>1, <2>2
    <3>. QED
      BY <2>1, <3>1 DEF ReplayOK
  <2>3. CASE HasCached(v)
    <3>1. replay' = With(replay, v, entry)
      BY <1>1, <2>3
    <3>2. entry \in Replays /\ entry.progress < entry.target /\ entry.target = target
      BY <1>3, <2>3 DEF Replays
    <3>. HIDE DEF entry
    <3>3. /\ DOMAIN replay' = DOMAIN replay \cup {v}
          /\ \A r \in DOMAIN replay' : replay'[r] = IF r = v THEN entry ELSE replay[r]
      BY <3>1 DEF With
    <3>4. DOMAIN replay' \subseteq Id
      BY <1>2, <3>3 DEF ReplayOK
    <3>5. ASSUME NEW r \in DOMAIN replay'
          PROVE  /\ replay'[r] \in Replays /\ replay'[r].progress < replay'[r].target
                 /\ replay'[r].target <= Len(CachedTokens(Request(r)))
      <4>1. CASE r = v
        BY <1>3, <3>2, <3>3, <4>1
      <4>2. CASE r # v
        BY <3>3, <4>2 DEF ReplayOK
      <4>. QED
        BY <4>1, <4>2
    <3>. QED
      BY <2>1, <3>4, <3>5 DEF ReplayOK
  <2>. QED
    BY <2>2, <2>3
<1>15. NativeOK'
  BY <1>1, <1>9, <1>10 DEF NativeOK
<1>. QED
  BY <1>6, <1>8, <1>11, <1>12, <1>13, <1>14, <1>15

------------------------------------------------------------------------------
\* A step

\* What a request is counted is what its item was given.
LEMMA CountIs ==
  ASSUME NEW work \in Seq(WorkItems),
         \A i, j \in 1 .. Len(work) : work[i].id = work[j].id => i = j,
         NEW r, NEW kind, NEW n, n = Count(work, r, kind)
  PROVE  \/ n = 0
         \/ \E i \in 1 .. Len(work) : work[i].id = r /\ work[i].kind = kind /\ n = work[i].count
<1>1. CASE r \in Served(work) /\ work[IndexOf(work, r)].kind = kind
  <2>1. PICK i \in 1 .. Len(work) : work[i].id = r
    BY <1>1, ServedIs
  <2>2. IndexOf(work, r) = i
    BY <2>1, IndexIs
  <2>. QED
    BY <1>1, <2>1, <2>2 DEF Count
<1>2. CASE ~(r \in Served(work) /\ work[IndexOf(work, r)].kind = kind)
  <2>1. Count(work, r, kind) = 0
    BY <1>2, Zenon DEF Count
  <2>. QED
    BY <2>1
<1>. QED
  BY <1>1, <1>2

\* Who has got all of its tokens.
Through(work, now) == {r \in Served(work) : Len(now[r]) = wanted[r]}

\* What both schedules make of a step: the worker, the deliveries, who is through.
LEMMA ThroughIs ==
  ASSUME RequestsOK, CompletedOK, NEW work \in Seq(WorkItems), NEW w, NEW now,
         ServedWell(work, w, now),
         NEW through, through = Through(work, now),
         NEW marks, marks = [r \in Id |-> IF r \in through THEN "completed" ELSE outcome[r]]
  PROVE  /\ through \in SUBSET Served(work) /\ through \subseteq Id
         /\ \A r \in Id : marks[r] = "completed" <=> Len(now[r]) = wanted[r]
<1>1. active \in Seq(Id)
  BY DEF RequestsOK
<1>2. Served(work) \subseteq Id /\ through \subseteq Served(work)
  BY <1>1 DEF ServedWell, Through, ToSet
<1>3. ASSUME NEW r \in Id PROVE marks[r] = "completed" <=> Len(now[r]) = wanted[r]
  <2>1. CASE r \in through
    BY <2>1 DEF Through
  <2>2. CASE r \notin Served(work)
    <3>1. now[r] = delivered[r] /\ marks[r] = outcome[r]
      BY <1>2, <2>2 DEF ServedWell
    <3>. QED
      BY <3>1 DEF CompletedOK
  <2>3. CASE r \in Served(work) /\ r \notin through
    <3>1. Len(now[r]) # wanted[r] /\ marks[r] = outcome[r]
      BY <2>3 DEF Through
    <3>2. Len(delivered[r]) < wanted[r]
      BY <2>3 DEF ServedWell
    <3>3. Len(delivered[r]) \in Nat /\ wanted[r] \in Nat
      BY RequestIs DEF Token
    <3>4. Len(delivered[r]) # wanted[r]
      BY <3>2, <3>3
    <3>. QED
      BY <3>1, <3>4 DEF CompletedOK
  <2>. QED
    BY <2>1, <2>2, <2>3
<1>. QED
  BY <1>2, <1>3

\* No prompt is prefilled beyond its end.
LEMMA PrefilledMore ==
  ASSUME RequestsOK, PrefilledOK, NEW work \in Seq(WorkItems),
         \A i, j \in 1 .. Len(work) : work[i].id = work[j].id => i = j,
         \A i \in 1 .. Len(work) : /\ Servable(work[i])
                                   /\ work[i].kind = "prefill" => work[i].start = prefilled[work[i].id],
         NEW r \in Id, NEW n, n = prefilled[r] + Count(work, r, "prefill")
  PROVE  n \in Nat /\ n <= Len(prompt[r])
<1>1. prefilled[r] \in Nat /\ Len(prompt[r]) \in Nat /\ prefilled[r] <= Len(prompt[r])
  <2>1. Len(prompt[r]) \in Nat
    BY RequestIs
  <2>. QED
    BY <2>1 DEF RequestsOK, PrefilledOK
<1>2. CASE Count(work, r, "prefill") = 0
  BY <1>1, <1>2
<1>3. CASE \E i \in 1 .. Len(work) :
             work[i].id = r /\ work[i].kind = "prefill" /\ Count(work, r, "prefill") = work[i].count
  <2>1. PICK i \in 1 .. Len(work) :
             work[i].id = r /\ work[i].kind = "prefill" /\ Count(work, r, "prefill") = work[i].count
    BY <1>3
  <2>2. work[i].start = prefilled[r] /\ work[i].start + work[i].count <= Len(prompt[r])
    BY <2>1 DEF Servable
  <2>3. work[i].count \in Nat
    <3>1. work[i] \in WorkItems
      OBVIOUS
    <3>. QED
      BY <3>1 DEF WorkItems
  <2>. QED
    BY <1>1, <2>1, <2>2, <2>3
<1>. QED
  BY <1>2, <1>3, CountIs

LEMMA StepsWell ==
  ASSUME DynamicInv, at = "plan", ~PlanFails,
         NEW work, work = Work,
         NEW result,
         result = Stepped(worker, [i \in DOMAIN work |-> BatchItem(Request(work[i].id), work[i])]),
         result.ok,
         \A i \in DOMAIN work : Emits(Request(work[i].id), work[i]) <=> result.tokens[i] # NoToken,
         StepDone(work, result.tokens, result.worker)
  PROVE  DynamicInv'
<1>. USE DEF DynamicInv
<1>. DEFINE now == Received(delivered, work, result.tokens)
            w == result.worker
            through == Through(work, now)
            more(r) == Count(work, r, "replay")
            caught == {r \in DOMAIN replay : replay[r].progress + more(r) = replay[r].target}
            ended == Leaving(work, through)
<1>1. work \in Seq(WorkItems) /\ \A i \in 1 .. Len(work) : Workable(work[i])
  BY WorkGood DEF PlanFails
<1>2. \A i \in 1 .. Len(work) : Servable(work[i])
  BY <1>1 DEF Workable
<1>3. ServedWell(work, w, now)
  <2>. DEFINE batch == [i \in DOMAIN work |-> BatchItem(Request(work[i].id), work[i])]
  <2>1. batch = [i \in DOMAIN work |-> BatchItem(Request(work[i].id), work[i])] /\ result = Stepped(worker, batch)
    OBVIOUS
  <2>. HIDE DEF batch
  <2>. QED
    BY <1>1, <1>2, <2>1, StepServed
<1>4. /\ delivered' = now
      /\ prefilled' = [r \in Id |-> prefilled[r] + Count(work, r, "prefill")]
      /\ replay' = [r \in DOMAIN replay \ caught |-> [replay[r] EXCEPT !.progress = replay[r].progress + more(r)]]
      /\ native' = (native \cup Served(work)) \ through
      /\ active' = Selected(active, Id \ through)
      /\ outcome' = [r \in Id |-> IF r \in through THEN "completed" ELSE outcome[r]]
      /\ \/ worker' = AllReleased(w, ended) /\ at' = "arrivals"
         \/ at' = "error" /\ worker' = ClearedWorker(worker)
      /\ UNCHANGED <<prompt, wanted, budget, incoming, waiting>>
  BY Zenon DEF StepDone, Failed, requestVars, AllReleased, Through, Leaving
<1>. HIDE DEF now, w, caught, ended, through, more
<1>5. /\ \A i, j \in 1 .. Len(work) : work[i].id = work[j].id => i = j
      /\ w \in Settled /\ DOMAIN w.states = DOMAIN worker.states \cup Served(work)
      /\ Served(work) \subseteq ToSet(active) /\ now \in [Id -> Seq(Token)]
      /\ \A x \in Id : Len(now[x]) <= wanted[x] /\ AsAlone(prompt[x], now[x])
      /\ \A x \in DOMAIN w.states : Begins(w.states[x].history, prompt[x] \o now[x])
      /\ \A x \in Id : x \notin Served(work) => now[x] = delivered[x]
      /\ \A i \in 1 .. Len(work) : work[i].kind = "replay" => now[work[i].id] = delivered[work[i].id]
  BY <1>3 DEF ServedWell
<1>6. /\ through \in SUBSET Served(work) /\ through \subseteq Id
      /\ \A r \in Id : outcome'[r] = "completed" <=> Len(now[r]) = wanted[r]
  BY <1>1, <1>3, <1>4, ThroughIs DEF through
<1>7. active \in Seq(Id) /\ Len(active) <= MaxBatchSize /\ MaxBatchSize \in Nat
  BY SchedulerAssumption DEF RequestsOK
<1>8. active' \in Seq(Id) /\ Len(active') <= Len(active) /\ ToSet(active') \subseteq ToSet(active)
  BY <1>4, <1>7, SelectedFacts
<1>9. Len(active') <= MaxBatchSize
  BY <1>7, <1>8
<1>10. prefilled' \in [Id -> Nat] /\ \A r \in Id : prefilled'[r] <= Len(prompt[r])
  <2>1. ASSUME NEW i \in 1 .. Len(work), work[i].kind = "prefill" PROVE work[i].start = prefilled[work[i].id]
    <3>1. work[i].id \in Id /\ work[i].id \notin DOMAIN replay /\ work[i].start = Progress(work[i].id)
      <4>1. work[i].id \in ToSet(active)
        BY <1>2 DEF Servable
      <4>2. work[i].id \in Id
        BY <1>7, <4>1 DEF ToSet
      <4>. QED
        BY <1>1, <2>1, <4>2 DEF Workable
    <3>. QED
      BY <3>1, ProgressIs
  <2>2. \A r \in Id : prefilled'[r] \in Nat /\ prefilled'[r] <= Len(prompt[r])
    BY <1>1, <1>2, <1>4, <1>5, <2>1, PrefilledMore, ZenonT(60)
  <2>. QED
    BY <1>4, <2>2
<1>11. RequestsOK' /\ PrefilledOK'
  BY <1>4, <1>5, <1>8, <1>10 DEF RequestsOK, PrefilledOK
<1>12. worker' \in Settled /\ (at' = "arrivals" => DOMAIN worker'.states = DOMAIN w.states \ through)
       /\ DOMAIN worker'.states \subseteq DOMAIN w.states
       /\ \A r \in DOMAIN worker'.states : worker'.states[r] = w.states[r]
  <2>1. CASE worker' = AllReleased(w, ended) /\ at' = "arrivals"
    <3>1. /\ worker' \in Settled /\ DOMAIN worker'.states = DOMAIN w.states \ through
          /\ \A x \in DOMAIN worker'.states : worker'.states[x] = w.states[x]
      <4>1. worker' = AllReleased(w, Leaving(work, through))
        BY <2>1 DEF ended
      <4>2. Served(work) \subseteq DOMAIN w.states
        BY <1>5
      <4>. QED
        BY <1>1, <1>5, <1>6, <4>1, <4>2, EndedGood
    <3>. QED
      BY <3>1
  <2>2. CASE at' = "error" /\ worker' = ClearedWorker(worker)
    <3>1. worker \in Workers
      BY DEF WorkerOK, Settled
    <3>. QED
      BY <2>2, <3>1, ClearedSettled
  <2>. QED
    BY <1>4, <2>1, <2>2
<1>13. WorkerOK'
  <2>1. DOMAIN w.states \subseteq Id
    <3>1. ToSet(active) \subseteq Id
      BY <1>7 DEF ToSet
    <3>. QED
      BY <1>5, <3>1 DEF WorkerOK
  <2>. QED
    BY <1>4, <1>5, <1>12, <2>1 DEF WorkerOK
<1>14. DeliveryOK' /\ CompletedOK'
  BY <1>4, <1>5, <1>6 DEF DeliveryOK, CompletedOK
<1>15. Awaited'
  <2>1. ASSUME NEW r \in ToSet(incoming) PROVE now[r] = delivered[r]
    <3>1. r \in Id
      BY DEF RequestsOK, ToSet
    <3>2. r \notin Served(work)
      BY <1>5, <2>1 DEF Awaited
    <3>. QED
      BY <1>5, <3>1, <3>2
  <2>. QED
    BY <1>4, <1>8, <2>1 DEF Awaited
<1>16. ReplayOK'
  <2>1. DOMAIN replay' = DOMAIN replay \ caught /\ DOMAIN replay' \subseteq Id
    BY <1>4 DEF ReplayOK
  <2>2. ASSUME NEW r \in DOMAIN replay'
        PROVE  /\ replay'[r] \in Replays /\ replay'[r].progress < replay'[r].target
               /\ replay'[r].target <= Len(CachedTokens(Request(r))')
    <3>1. /\ r \in DOMAIN replay /\ r \in Id /\ replay[r] \in Replays
          /\ replay[r].target <= Len(CachedTokens(Request(r))) /\ replay[r].progress < replay[r].target
      BY <2>1 DEF ReplayOK
    <3>2. replay'[r] = [replay[r] EXCEPT !.progress = replay[r].progress + more(r)]
      BY <1>4, <2>1
    <3>3. replay[r].progress + more(r) # replay[r].target
      BY <2>1, <3>1 DEF caught
    <3>4. now[r] = delivered[r]
      <4>1. CASE r \notin Served(work)
        BY <1>5, <3>1, <4>1
      <4>2. CASE r \in Served(work)
        <5>1. PICK i \in 1 .. Len(work) : work[i].id = r
          BY <1>1, <4>2, ServedIs
        <5>2. work[i].kind = "replay"
          BY <1>1, <3>1, <5>1 DEF Workable
        <5>. QED
          BY <1>5, <5>1, <5>2
      <4>. QED
        BY <4>1, <4>2
    <3>5. CachedTokens(Request(r))' = CachedTokens(Request(r))
      BY <1>4, <3>4 DEF CachedTokens, Request
    <3>6. more(r) \in Nat /\ replay[r].progress + more(r) <= replay[r].target
      <4>1. CASE more(r) = 0
        BY <3>1, <4>1 DEF Replays
      <4>2. CASE \E i \in 1 .. Len(work) :
                   work[i].id = r /\ work[i].kind = "replay" /\ more(r) = work[i].count
        <5>1. PICK i \in 1 .. Len(work) :
                   work[i].id = r /\ work[i].kind = "replay" /\ more(r) = work[i].count
          BY <4>2
        <5>2. /\ work[i].start = Progress(r) /\ work[i].target = Goal(r)
              /\ work[i].start + work[i].count <= work[i].target
          BY <1>1, <5>1 DEF Workable, Servable
        <5>3. Progress(r) = replay[r].progress /\ Goal(r) = replay[r].target
          BY <3>1, ProgressIs
        <5>4. work[i].count \in Nat
          <6>1. work[i] \in WorkItems
            BY <1>1
          <6>. QED
            BY <6>1 DEF WorkItems
        <5>. QED
          BY <5>1, <5>2, <5>3, <5>4
      <4>3. \/ more(r) = 0
            \/ \E i \in 1 .. Len(work) :
                   work[i].id = r /\ work[i].kind = "replay" /\ more(r) = work[i].count
        <5>. DEFINE m == more(r)
        <5>1. m = Count(work, r, "replay")
          BY DEF more
        <5>. HIDE DEF m
        <5>2. m = 0 \/ \E i \in 1 .. Len(work) :
                           work[i].id = r /\ work[i].kind = "replay" /\ m = work[i].count
          <6>1. work \in Seq(WorkItems) /\ \A i, j \in 1 .. Len(work) : work[i].id = work[j].id => i = j
            BY <1>1, <1>5
          <6>. QED
            BY <5>1, <6>1, CountIs
        <5>. QED
          BY <5>2 DEF m
      <4>. QED
        BY <4>1, <4>2, <4>3
    <3>. QED
      BY <3>1, <3>2, <3>3, <3>5, <3>6 DEF Replays
  <2>. QED
    BY <2>1, <2>2 DEF ReplayOK
<1>17. NativeOK'
  <2>1. native = DOMAIN worker.states /\ native \subseteq Id
    BY DEF NativeOK
  <2>2. native' \subseteq Id /\ (at' = "arrivals" => native' = DOMAIN worker'.states)
    <3>1. Served(work) \subseteq Id
      BY <1>5, <1>7 DEF ToSet
    <3>. QED
      BY <1>4, <1>5, <1>12, <2>1, <3>1
  <2>3. outcome' \in [Id -> {"", "rejected", "completed"}]
    BY <1>4 DEF NativeOK
  <2>. QED
    BY <1>4, <2>2, <2>3 DEF NativeOK
<1>. QED
  BY <1>9, <1>11, <1>13, <1>14, <1>15, <1>16, <1>17

------------------------------------------------------------------------------
\* What the schedules promise

\* The worker reads its tokens.
LEMMA SettledReads ==
  ASSUME NEW w \in Settled
  PROVE  ReadsItsTokens(w)
<1>. DEFINE c == w.cache
            known == HistoriesOf(w.states)
<1>1. /\ w \in Workers /\ c \in GoodCaches(known, c.memory) /\ Fitted(c)
      /\ DOMAIN c.tables = DOMAIN w.states
      /\ \A id \in DOMAIN w.states : Length(c, id) = Len(w.states[id].history)
  BY DEF Settled, Sound
<1>2. \A id \in DOMAIN w.states : w.states[id].history \in Seq(Nat)
  <2>1. \A id \in DOMAIN w.states : w.states[id].history \in Seq(Token)
    BY <1>1, WorkerFields
  <2>2. Seq(Token) \subseteq Seq(Nat)
    BY DEF Token
  <2>. QED
    BY <2>1, <2>2
<1>3. c \in Caches /\ Stored(c, c.memory, known) /\ DOMAIN c.lengths = DOMAIN c.tables
  BY <1>1 DEF GoodCaches, Fitted
<1>. HIDE DEF c
<1>4. DOMAIN c.prefixes \subseteq Seq(Nat)
  BY <1>3, CacheFields
<1>5. ASSUME NEW id \in DOMAIN c.tables, NEW h, h = w.states[id].history
      PROVE  c.lengths[id] = Len(h) /\ ReadKV(c, c.tables[id], Len(h)) = KVOf(h)
  <2>1. known[id] = h /\ id \in DOMAIN known /\ h \in Seq(Nat)
    BY <1>1, <1>2, <1>5 DEF HistoriesOf
  <2>2. ReadsAs(c.memory, c.tables[id], h)
    <3>1. ReadsAs(c.memory, Table(c, id), known[id])
      BY <1>3, <2>1 DEF Stored
    <3>. QED
      BY <2>1, <3>1 DEF Table
  <2>3. c.lengths[id] = Len(h)
    BY <1>1, <1>3, <1>5 DEF Length
  <2>. QED
    BY <2>1, <2>2, <2>3, ReadIs
<1>6. ASSUME NEW key \in DOMAIN c.prefixes
      PROVE  ReadKV(c, c.prefixes[key], Len(key)) = KVOf(key)
  <2>1. key \in Seq(Nat) /\ ReadsAs(c.memory, c.prefixes[key], key)
    BY <1>3, <1>4 DEF Stored
  <2>. QED
    BY <2>1, ReadIs
<1>7. ReadsItsTokens(w) <=>
         /\ \A id \in DOMAIN c.tables :
               LET h == w.states[id].history
               IN  c.lengths[id] = Len(h) /\ ReadKV(c, c.tables[id], Len(h)) = KVOf(h)
         /\ \A key \in DOMAIN c.prefixes :
               ReadKV(c, c.prefixes[key], Len(key)) = KVOf(key)
  BY Zenon DEF ReadsItsTokens, c
<1>. QED
  BY <1>5, <1>6, <1>7

\* The tokens of a request run alone are its only ones.
LEMMA AloneUnique ==
  ASSUME NEW p, NEW d \in Seq(Token), NEW e \in Seq(Token),
         AsAlone(p, d), AsAlone(p, e), Len(d) <= Len(e)
  PROVE  IsPrefix(d, e) /\ (Len(d) = Len(e) => d = e)
<1>. DEFINE l == Len(d)
            X == {n \in 0 .. l : \A k \in 1 .. n : d[k] = e[k]}
<1>1. l \in Nat /\ Len(e) \in Nat /\ l <= Len(e)
  OBVIOUS
<1>2. 0 \in X
  BY <1>1
<1>3. ASSUME NEW n \in 1 .. l, n - 1 \in X PROVE n \in X
  <2>1. \A k \in 1 .. n - 1 : d[k] = e[k]
    BY <1>3
  <2>2. SubSeq(d, 1, n - 1) = SubSeq(e, 1, n - 1)
    <3>1. \A s \in Seq(Token) : n - 1 <= Len(s) => SubSeq(s, 1, n - 1) = [k \in 1 .. n - 1 |-> s[k]]
      BY <1>1
    <3>2. n - 1 <= Len(d) /\ n - 1 <= Len(e)
      BY <1>1
    <3>. QED
      BY <2>1, <3>1, <3>2
  <2>3. d[n] = e[n]
    <3>1. n \in 1 .. Len(d) /\ n \in 1 .. Len(e)
      BY <1>1
    <3>. QED
      BY <2>2, <3>1 DEF AsAlone
  <2>. QED
    BY <1>1, <2>1, <2>3
<1>. HIDE DEF X
<1>4. \A n \in 0 .. l : n \in X
  BY <1>1, <1>2, <1>3, Stepwise
<1>5. \A k \in 1 .. l : d[k] = e[k]
  <2>1. l \in X
    BY <1>1, <1>4
  <2>. QED
    BY <2>1 DEF X
<1>6. SubSeq(d, 1, l) = SubSeq(e, 1, l)
  BY <1>1, <1>5
<1>. QED
  BY <1>1, <1>5, <1>6 DEF IsPrefix

LEMMA ReferenceIs ==
  ASSUME NEW req, req.prompt \in Seq(Token), req.wanted \in Nat
  PROVE  /\ Reference(req) \in Seq(Token) /\ Len(Reference(req)) = req.wanted
         /\ AsAlone(req.prompt, Reference(req))
<1>. DEFINE p == req.prompt
            N == req.wanted
            more(d) == Append(d, Greedy(KVOf(p \o d)))
            Alone(n) == {d \in Seq(Token) : Len(d) = n /\ AsAlone(p, d)}
            it == CHOOSE h : h = [n \in 0 .. req.wanted |->
                     IF n = 0 THEN <<>> ELSE Append(h[n - 1], Greedy(KVOf(req.prompt \o h[n - 1])))]
<1>1. Reference(req) = it[N]
  BY Zenon DEF Reference
<1>2. N \in Nat
  OBVIOUS
<1>3. <<>> \in Alone(0)
  <2>1. <<>> \in Seq(Token) /\ Len(<<>>) = 0
    BY EmptyQueue
  <2>2. AsAlone(p, <<>>)
    BY <2>1 DEF AsAlone
  <2>. QED
    BY <2>1, <2>2
<1>4. ASSUME NEW n \in 1 .. N, NEW d \in Alone(n - 1) PROVE more(d) \in Alone(n)
  <2>. DEFINE t == Greedy(KVOf(p \o d))
              e == Append(d, t)
  <2>1. d \in Seq(Token) /\ AsAlone(p, d) /\ Len(d) = n - 1 /\ p \in Seq(Token)
    OBVIOUS
  <2>. HIDE DEF p
  <2>2. t = Greedy(KVOf(p \o d)) /\ e = Append(d, t)
    OBVIOUS
  <2>. HIDE DEF t, e, Alone
  <2>3. e \in Seq(Token) /\ Len(e) = Len(d) + 1 /\ AsAlone(p, e)
    BY <2>1, <2>2, AppendAlone
  <2>4. Len(e) = n
    BY <2>1, <2>3
  <2>5. e \in Alone(n)
    BY <2>3, <2>4 DEF Alone
  <2>. QED
    BY <2>5 DEF e, t
<1>5. p = req.prompt /\ N = req.wanted
  OBVIOUS
<1>. HIDE DEF p, N
<1>. DEFINE S == [n \in 0 .. N |-> Alone(n)]
            move == [n \in 1 .. N |-> [q \in Seq(Token) |-> more(q)]]
<1>6. /\ \A n \in 0 .. N : S[n] = Alone(n)
      /\ \A n \in 0 .. N : Alone(n) \subseteq Seq(Token)
      /\ 0 \in 0 .. N /\ N \in 0 .. N
      /\ \A n \in 1 .. N : n \in 0 .. N /\ n - 1 \in 0 .. N /\ n # 0
      /\ \A n \in 0 .. N : n = 0 \/ n \in 1 .. N
  BY <1>2
<1>. HIDE DEF S, Alone
<1>7. \A n \in 1 .. N : \A q \in S[n - 1] : move[n][q] = more(q) /\ move[n][q] \in S[n]
  BY <1>4, <1>6
<1>. HIDE DEF move
<1>8. PICK f : Orbit(f, N, <<>>, move) /\ \A n \in 0 .. N : f[n] \in S[n]
  <2>1. <<>> \in S[0] /\ \A n \in 1 .. N : \A d \in S[n - 1] : move[n][d] \in S[n]
    BY <1>3, <1>6, <1>7
  <2>. QED
    BY <1>2, <2>1, OrbitExists
<1>9. f = [n \in 0 .. N |-> IF n = 0 THEN <<>> ELSE more(f[n - 1])]
  <2>1. f = [n \in 0 .. N |-> IF n = 0 THEN <<>> ELSE move[n][f[n - 1]]]
    BY <1>8 DEF Orbit
  <2>2. \A n \in 0 .. N : n # 0 => move[n][f[n - 1]] = more(f[n - 1])
    BY <1>6, <1>7, <1>8
  <2>. QED
    BY <2>1, <2>2, Zenon
<1>10. it = [n \in 0 .. N |-> IF n = 0 THEN <<>> ELSE more(it[n - 1])]
  BY <1>5, <1>9, Zenon
<1>. HIDE DEF it
<1>11. it[0] = <<>> /\ \A n \in 1 .. N : it[n] = more(it[n - 1])
  <2>1. \A n \in 0 .. N : it[n] = IF n = 0 THEN <<>> ELSE more(it[n - 1])
    BY <1>10, Zenon
  <2>. QED
    BY <1>6, <2>1, Zenon
<1>. DEFINE X == {n \in 0 .. N : it[n] \in Alone(n)}
<1>12. \A n \in 0 .. N : n \in X
  <2>1. 0 \in X
    BY <1>3, <1>6, <1>11
  <2>2. \A n \in 1 .. N : n - 1 \in X => n \in X
    BY <1>4, <1>6, <1>11
  <2>. HIDE DEF X
  <2>. QED
    BY <1>2, <2>1, <2>2, Stepwise
<1>13. it[N] \in Alone(N)
  BY <1>6, <1>12
<1>. QED
  BY <1>1, <1>5, <1>13 DEF Alone

\* The invariants give the promises.
LEMMA ServedAsAlone ==
  ASSUME RequestsOK, DeliveryOK, CompletedOK, NEW r \in Id
  PROVE  /\ IsPrefix(delivered[r], Reference(Request(r)))
         /\ outcome[r] = "completed" <=> delivered[r] = Reference(Request(r))
<1>. DEFINE d == delivered[r]
            e == Reference(Request(r))
            p == prompt[r]
<1>1. d \in Seq(Token) /\ p \in Seq(Token) /\ wanted[r] \in Nat
  BY RequestIs DEF Token
<1>2. Request(r).prompt = p /\ Request(r).wanted = wanted[r]
  BY RequestIs
<1>3. e \in Seq(Token) /\ Len(e) = wanted[r] /\ AsAlone(p, e)
  <2>. DEFINE req == Request(r)
  <2>1. req.prompt = p /\ req.wanted = wanted[r] /\ e = Reference(req)
    BY <1>2
  <2>. HIDE DEF req, e, p
  <2>2. req.prompt \in Seq(Token) /\ req.wanted \in Nat
    BY <1>1, <2>1
  <2>. QED
    BY <2>1, <2>2, ReferenceIs
<1>4. Len(d) <= wanted[r] /\ AsAlone(p, d) /\ (outcome[r] = "completed" <=> Len(d) = wanted[r])
  BY DEF DeliveryOK, CompletedOK
<1>. HIDE DEF d, e, p
<1>5. IsPrefix(d, e) /\ (Len(d) = Len(e) => d = e)
  BY <1>1, <1>3, <1>4, AloneUnique
<1>6. outcome[r] = "completed" <=> d = e
  BY <1>3, <1>4, <1>5
<1>. QED
  BY <1>5, <1>6 DEF d, e

------------------------------------------------------------------------------
\* The dynamic schedule

LEMMA DynamicInvNext == DynamicInv /\ [Next]_vars => DynamicInv'
<1>. SUFFICES ASSUME DynamicInv, [Next]_vars PROVE DynamicInv'
  OBVIOUS
<1>1. CASE Arrive
  BY <1>1, ArrivesWell
<1>2. CASE Preempt
  BY <1>2, PreemptsWell
<1>3. CASE Step
  <2>. DEFINE work == Work
              result == Stepped(worker, [i \in DOMAIN work |-> BatchItem(Request(work[i].id), work[i])])
  <2>1. /\ at = "plan"
        /\ \/ /\ ~PlanFails /\ result.ok
              /\ \A i \in DOMAIN work :
                    Emits(Request(work[i].id), work[i]) <=> result.tokens[i] # NoToken
              /\ StepDone(work, result.tokens, result.worker)
           \/ Failed /\ UNCHANGED <<requestVars, queueVars, progressVars, native, outcome>>
    BY <1>3, Zenon DEF Step
  <2>2. work = Work /\ result = Stepped(worker, [i \in DOMAIN work |-> BatchItem(Request(work[i].id), work[i])])
    OBVIOUS
  <2>. HIDE DEF work, result
  <2>3. CASE /\ ~PlanFails /\ result.ok
             /\ \A i \in DOMAIN work :
                   Emits(Request(work[i].id), work[i]) <=> result.tokens[i] # NoToken
             /\ StepDone(work, result.tokens, result.worker)
    BY <2>1, <2>2, <2>3, StepsWell
  <2>4. CASE Failed /\ UNCHANGED <<requestVars, queueVars, progressVars, native, outcome>>
    BY <2>4, FailsWell
  <2>. QED
    BY <2>1, <2>3, <2>4
<1>4. CASE Finish
  BY <1>4, FinishesWell
<1>5. CASE UNCHANGED vars
  <2>1. /\ UNCHANGED <<prompt, wanted, budget, incoming, waiting, active, prefilled, delivered>>
        /\ UNCHANGED <<replay, native, outcome, worker, at>>
    BY <1>5 DEF vars, requestVars, queueVars, progressVars
  <2>2. RequestsOK' /\ PrefilledOK'
    BY <2>1 DEF DynamicInv, RequestsOK, PrefilledOK
  <2>3. WorkerOK' /\ DeliveryOK' /\ CompletedOK' /\ Awaited' /\ NativeOK'
    BY <2>1 DEF DynamicInv, WorkerOK, DeliveryOK, CompletedOK, Awaited, NativeOK
  <2>4. ReplayOK'
    BY <2>1 DEF DynamicInv, ReplayOK, CachedTokens, Request
  <2>. QED
    BY <2>1, <2>2, <2>3, <2>4 DEF DynamicInv
<1>. QED
  BY <1>1, <1>2, <1>3, <1>4, <1>5 DEF Next

LEMMA DynamicInvAlways == Spec => []DynamicInv
<1>1. Init => DynamicInv
  BY DynamicInvInit
<1>2. DynamicInv /\ [Next]_vars => DynamicInv'
  BY DynamicInvNext
<1>. QED
  BY <1>1, <1>2, PTL DEF Spec

\* Whatever prepare_append, reuse_prefix, publish_prefix and release share, copy, evict
\* or free, the cache's counters and free list account for its tables and snapshots, and
\* schedule_dynamic, the worker and its cache agree on who has a state, also after a
\* preemption and after an error.
THEOREM DynamicBlocksAccounted == Spec => []BlocksAccounted
<1>1. ASSUME DynamicInv PROVE BlocksAccounted
  <2>1. worker \in Settled /\ DOMAIN worker.states \subseteq Id
    BY <1>1 DEF DynamicInv, WorkerOK
  <2>2. /\ worker \in Workers /\ DOMAIN worker.cache.tables = DOMAIN worker.states
        /\ CountsHolders(worker.cache)
    BY <2>1 DEF Settled, Sound, GoodCaches, Accounted
  <2>3. \A r \in DOMAIN worker.states : worker.states[r].history \in Seq(Nat \ {0})
    BY <2>2, WorkerFields DEF Token
  <2>4. /\ {incoming, waiting, active} \subseteq Seq(Id)
        /\ prefilled \in [Id -> Nat] /\ delivered \in [Id -> Seq(Nat \ {0})]
    BY <1>1 DEF DynamicInv, RequestsOK, Token
  <2>5. DOMAIN replay \subseteq Id /\ \A r \in DOMAIN replay : replay[r].progress < replay[r].target
    BY <1>1 DEF DynamicInv, ReplayOK
  <2>6. /\ native \subseteq Id /\ outcome \in [Id -> {"", "rejected", "completed"}]
        /\ at \in {"arrivals", "plan", "done", "error"}
        /\ at \in {"arrivals", "plan"} => native = DOMAIN worker.states
    BY <1>1 DEF DynamicInv, NativeOK
  <2>7. TypeOK
    BY <2>3, <2>4, <2>5, <2>6 DEF TypeOK
  <2>. QED
    BY <2>2, <2>6, <2>7 DEF BlocksAccounted
<1>. QED
  BY <1>1, DynamicInvAlways, PTL

\* gather_attention reads the vectors of the tokens of the request it is called for, and
\* a snapshot those of its prefix: no block is written through while another table or
\* snapshot leads to it, after any steps, copies, preemptions and failures.
THEOREM DynamicPrefixesIntact == Spec => []PrefixesIntact
<1>1. ASSUME DynamicInv PROVE PrefixesIntact
  BY <1>1, SettledReads DEF DynamicInv, WorkerOK, PrefixesIntact
<1>. QED
  BY <1>1, DynamicInvAlways, PTL

\* schedule_dynamic delivers to a request what TinyDecoder::reference computes for it
\* alone, however it was batched, chunked, shared, preempted and recomputed, and
\* completes it exactly when it has all of it.
THEOREM DynamicDeliveredAsAlone == Spec => []DeliveredAsAlone
<1>1. ASSUME DynamicInv PROVE DeliveredAsAlone
  BY <1>1, ServedAsAlone DEF DynamicInv, DeliveredAsAlone
<1>. QED
  BY <1>1, DynamicInvAlways, PTL

------------------------------------------------------------------------------
\* The reserving schedule's work

\* An item it plans.
Batchable(item) ==
    Servable(item) /\ item.kind # "replay" /\ item.start = prefilled[item.id]

LEMMA WorkItemIs ==
  ASSUME RequestsOK, PrefilledOK, NEW r \in ToSet(active), NEW kind \in {"decode", "prefill"},
         NEW count \in Nat, NEW item, item = WorkItem(r, kind, count),
         kind = "decode" => delivered[r] # <<>>,
         kind = "prefill" => delivered[r] = <<>> /\ count <= Len(prompt[r]) - prefilled[r]
  PROVE  Batchable(item) /\ item \in WorkItems /\ item.count = count /\ item.id = r
<1>1. r \in Id /\ r \in Nat
  <2>1. active \in Seq(Id)
    BY DEF RequestsOK
  <2>. QED
    BY <2>1, SchedulerAssumption DEF ToSet, Id
<1>. DEFINE a == prefilled[r]
            g == Len(prompt[r])
<1>2. a \in Nat /\ g \in Nat /\ a <= g /\ (kind = "prefill" => count <= g - a)
  <2>1. g \in Nat
    BY <1>1, RequestIs
  <2>. QED
    BY <1>1, <2>1 DEF RequestsOK, PrefilledOK
<1>3. item = [id |-> r, kind |-> kind, start |-> a, count |-> count, target |-> 0]
  BY DEF WorkItem
<1>4. a = prefilled[r] /\ g = Len(prompt[r])
  OBVIOUS
<1>. HIDE DEF a, g
<1>5. /\ item.id = r /\ item.kind = kind /\ item.start = a /\ item.count = count
      /\ item \in WorkItems /\ kind # "replay"
  BY <1>1, <1>2, <1>3 DEF WorkItems, Kinds
<1>6. kind = "prefill" => a + count <= g
  BY <1>2
<1>7. Servable(item)
  BY <1>4, <1>5, <1>6 DEF Servable
<1>. QED
  BY <1>4, <1>5, <1>7 DEF Batchable

LEMMA DecodeItemsAre ==
  ASSUME RequestsOK, PrefilledOK
  PROVE  /\ DecodeItems \in Seq(WorkItems)
         /\ \A i \in 1 .. Len(DecodeItems) : Batchable(DecodeItems[i]) /\ DecodeItems[i].count = 1
<1>. DEFINE S == {r \in Id : HasOutput(r)}
            ids == Selected(active, S)
<1>1. ids \in Seq(Id) /\ ToSet(ids) = ToSet(active) \cap S
  <2>1. active \in Seq(Id)
    BY DEF RequestsOK
  <2>. HIDE DEF S
  <2>. QED
    BY <2>1, SelectedFacts
<1>2. DecodeItems = [i \in DOMAIN ids |-> WorkItem(ids[i], "decode", 1)]
  BY DEF DecodeItems
<1>3. DOMAIN ids = 1 .. Len(ids) /\ Len(ids) \in Nat /\ \A i \in 1 .. Len(ids) : ids[i] \in ToSet(ids)
  <2>1. DOMAIN ids = 1 .. Len(ids) /\ Len(ids) \in Nat
    BY <1>1
  <2>. HIDE DEF ids
  <2>. QED
    BY <2>1 DEF ToSet
<1>. HIDE DEF ids
<1>4. ASSUME NEW i \in 1 .. Len(ids)
      PROVE  /\ Batchable(WorkItem(ids[i], "decode", 1)) /\ WorkItem(ids[i], "decode", 1) \in WorkItems
             /\ WorkItem(ids[i], "decode", 1).count = 1
  <2>. DEFINE r == ids[i]
  <2>1. r \in ToSet(active) /\ delivered[r] # <<>>
    BY <1>1, <1>3 DEF HasOutput
  <2>2. "decode" \in {"decode", "prefill"} /\ 1 \in Nat
    OBVIOUS
  <2>. HIDE DEF r
  <2>. DEFINE item == WorkItem(r, "decode", 1)
  <2>3. Batchable(item) /\ item \in WorkItems /\ item.count = 1
    <3>1. item = WorkItem(r, "decode", 1)
      OBVIOUS
    <3>. HIDE DEF item
    <3>. QED
      BY <2>1, <2>2, <3>1, WorkItemIs
  <2>. QED
    BY <2>3 DEF r
<1>5. /\ DOMAIN DecodeItems = 1 .. Len(ids)
      /\ \A i \in 1 .. Len(ids) : DecodeItems[i] = WorkItem(ids[i], "decode", 1)
      /\ DecodeItems \in [1 .. Len(ids) -> WorkItems]
  BY <1>2, <1>3, <1>4
<1>6. DecodeItems \in Seq(WorkItems) /\ Len(DecodeItems) = Len(ids)
  BY <1>3, <1>5
<1>. QED
  BY <1>4, <1>5, <1>6

LEMMA RoundRobinIs ==
  ASSUME RequestsOK
  PROVE  /\ RoundRobin \in Seq(Id)
         /\ \A i \in 1 .. Len(RoundRobin) :
               RoundRobin[i] \in ToSet(active) /\ delivered[RoundRobin[i]] = <<>>
<1>. DEFINE S == {r \in Id : HasNone(r)}
            ids == Selected(active, S)
            first(i) == IF ToSet(ids) \cap lastPrefill = {} THEN i = 0
                        ELSE i > 0 /\ ids[i] \in lastPrefill
            start == CHOOSE i \in 0 .. Len(ids) : first(i)
<1>1. ids \in Seq(Id) /\ ToSet(ids) = ToSet(active) \cap S
  <2>1. active \in Seq(Id)
    BY DEF RequestsOK
  <2>. HIDE DEF S
  <2>. QED
    BY <2>1, SelectedFacts
<1>2. RoundRobin = SubSeq(ids, start + 1, Len(ids)) \o SubSeq(ids, 1, start)
  BY DEF RoundRobin
<1>. HIDE DEF ids
<1>3. start \in 0 .. Len(ids)
  <2>1. \E i \in 0 .. Len(ids) : first(i)
    <3>1. CASE ToSet(ids) \cap lastPrefill = {}
      <4>1. 0 \in 0 .. Len(ids)
        BY <1>1
      <4>. QED
        BY <3>1, <4>1
    <3>2. CASE ToSet(ids) \cap lastPrefill # {}
      <4>1. DOMAIN ids = 1 .. Len(ids)
        BY <1>1
      <4>2. PICK i \in 1 .. Len(ids) : ids[i] \in lastPrefill
        BY <3>2, <4>1 DEF ToSet
      <4>3. i \in 0 .. Len(ids) /\ i > 0
        BY <4>1, <4>2
      <4>. QED
        BY <3>2, <4>2, <4>3
    <3>. QED
      BY <3>1, <3>2
  <2>. HIDE DEF first
  <2>. QED
    BY <2>1
<1>. HIDE DEF start
<1>. DEFINE p == SubSeq(ids, start + 1, Len(ids))
            q == SubSeq(ids, 1, start)
<1>4. /\ q \in Seq(Id) /\ ToSet(q) \subseteq ToSet(ids)
      /\ p \in Seq(Id) /\ ToSet(p) \subseteq ToSet(ids)
  <2>1. start \in Nat /\ start <= Len(ids)
    BY <1>1, <1>3
  <2>. QED
    BY <1>1, <2>1, CutParts
<1>. HIDE DEF p, q
<1>5. p \o q \in Seq(Id) /\ ToSet(p \o q) = ToSet(p) \cup ToSet(q)
  BY <1>4, JoinQueues
<1>6. RoundRobin = p \o q
  BY <1>2 DEF p, q
<1>7. \A i \in 1 .. Len(p \o q) : (p \o q)[i] \in ToSet(p \o q)
  <2>1. DOMAIN (p \o q) = 1 .. Len(p \o q)
    BY <1>5
  <2>. QED
    BY <2>1 DEF ToSet
<1>8. ASSUME NEW r \in ToSet(ids) PROVE r \in ToSet(active) /\ delivered[r] = <<>>
  BY <1>1 DEF HasNone
<1>. QED
  BY <1>4, <1>5, <1>6, <1>7, <1>8

LEMMA BatchWorkGood ==
  ASSUME RequestsOK, PrefilledOK, ~(Len(DecodeItems) > budget)
  PROVE  BatchWork \in Seq(WorkItems) /\ \A i \in 1 .. Len(BatchWork) : Batchable(BatchWork[i])
<1>. DEFINE q == RoundRobin
            N == Len(q)
            start == DecodeItems
            Works == {work \in Seq(WorkItems) : /\ Remaining(work) \in Nat
                                                /\ \A i \in 1 .. Len(work) : Batchable(work[i])}
            Parts(n) == Works
            it == CHOOSE h : h = [n \in 0 .. Len(RoundRobin) |->
                                     IF n = 0 THEN DecodeItems ELSE AllottedPrefill(h[n - 1], RoundRobin[n])]
<1>1. BatchWork = it[N]
  BY Zenon DEF BatchWork, Iterated
<1>2. N \in Nat /\ \A n \in 1 .. N : q[n] \in ToSet(active) /\ delivered[q[n]] = <<>>
  BY RoundRobinIs
<1>3. start \in Parts(0)
  <2>1. /\ DecodeItems \in Seq(WorkItems)
        /\ \A i \in 1 .. Len(DecodeItems) : Batchable(DecodeItems[i]) /\ DecodeItems[i].count = 1
    BY DecodeItemsAre
  <2>2. Iterated(Spent, 0, DecodeItems) = Len(DecodeItems)
    BY <2>1, SpentOnes
  <2>3. budget \in Nat /\ Len(DecodeItems) \in Nat /\ Len(DecodeItems) <= budget
    <3>1. budget \in Nat /\ Len(DecodeItems) \in Nat
      BY <2>1 DEF RequestsOK, Token
    <3>. QED
      BY <3>1
  <2>4. Remaining(DecodeItems) \in Nat
    BY <2>2, <2>3 DEF Remaining
  <2>. QED
    BY <2>1, <2>4
<1>4. ASSUME NEW n \in 1 .. N, NEW work \in Parts(n - 1) PROVE AllottedPrefill(work, q[n]) \in Parts(n)
  <2>. DEFINE r == q[n]
              left == Remaining(work)
              count == Smallest({Len(prompt[r]) - prefilled[r], left, ChunkSize})
              item == WorkItem(r, "prefill", count)
  <2>1. AllottedPrefill(work, r) = IF left = 0 THEN work ELSE Append(work, item)
    BY DEF AllottedPrefill
  <2>2. /\ r \in ToSet(active) /\ delivered[r] = <<>>
        /\ work \in Seq(WorkItems) /\ left \in Nat /\ \A i \in 1 .. Len(work) : Batchable(work[i])
    BY <1>2
  <2>3. CASE left = 0
    BY <2>1, <2>3
  <2>4. CASE left # 0
    <3>1. r \in Id
      <4>1. active \in Seq(Id)
        BY DEF RequestsOK
      <4>. QED
        BY <2>2, <4>1 DEF ToSet
    <3>. DEFINE rest == Len(prompt[r]) - prefilled[r]
                S == {rest, left, ChunkSize}
    <3>2. rest \in Nat
      <4>1. Len(prompt[r]) \in Nat
        BY <3>1, RequestIs
      <4>. QED
        BY <3>1, <4>1 DEF RequestsOK, PrefilledOK
    <3>3. S \in SUBSET Nat /\ S # {}
      BY <2>2, <3>2, SchedulerAssumption
    <3>4. count = Smallest(S)
      OBVIOUS
    <3>. HIDE DEF count
    <3>5. count \in Nat /\ count <= rest /\ count <= left
      <4>1. count \in S /\ \A m \in S : count <= m
        <5>. HIDE DEF S
        <5>. QED
          BY <3>3, <3>4, SmallestIs
      <4>. QED
        BY <3>3, <4>1
    <3>6. delivered[r] = <<>> /\ count <= Len(prompt[r]) - prefilled[r] /\ "prefill" \in {"decode", "prefill"}
      BY <2>2, <3>5
    <3>7. item = WorkItem(r, "prefill", count)
      OBVIOUS
    <3>. HIDE DEF item
    <3>8. Batchable(item) /\ item \in WorkItems /\ item.count = count
      <4>. HIDE DEF r, S
      <4>. QED
        BY <2>2, <3>5, <3>6, <3>7, WorkItemIs
    <3>. DEFINE more == Append(work, item)
    <3>9. Iterated(Spent, 0, work) \in Nat /\ Iterated(Spent, 0, more) = Iterated(Spent, 0, work) + item.count
      BY <2>2, <3>8, SpentMore
    <3>10. Remaining(more) \in Nat
      <4>. DEFINE a == Iterated(Spent, 0, work)
                  b == Iterated(Spent, 0, more)
      <4>1. a \in Nat /\ b = a + count
        BY <3>8, <3>9
      <4>2. left = budget - a /\ Remaining(more) = budget - b /\ budget \in Nat
        BY DEF Remaining, RequestsOK, Token
      <4>. HIDE DEF a, b, left
      <4>. QED
        BY <2>2, <3>5, <4>1, <4>2
    <3>11. /\ more \in Seq(WorkItems) /\ Len(more) = Len(work) + 1 /\ Len(work) \in Nat
           /\ more[Len(work) + 1] = item /\ \A i \in 1 .. Len(work) : more[i] = work[i]
      BY <2>2, <3>8
    <3>12. \A i \in 1 .. Len(more) : Batchable(more[i])
      <4>. HIDE DEF more
      <4>1. \A i \in 1 .. Len(more) : i \in 1 .. Len(work) \/ i = Len(work) + 1
        BY <3>11
      <4>. QED
        BY <2>2, <3>8, <3>11, <4>1
    <3>13. AllottedPrefill(work, r) = more
      BY <2>1, <2>4
    <3>. HIDE DEF more
    <3>14. more \in Works
      BY <3>10, <3>11, <3>12
    <3>. QED
      BY <3>13, <3>14
  <2>. QED
    BY <2>3, <2>4
<1>5. N = Len(RoundRobin) /\ q = RoundRobin /\ start = DecodeItems
  OBVIOUS
<1>6. Works \subseteq Seq(WorkItems)
  OBVIOUS
<1>. HIDE DEF N, q, start, Works
<1>. DEFINE S == [n \in 0 .. N |-> Parts(n)]
            move == [n \in 1 .. N |-> [work \in Works |-> AllottedPrefill(work, q[n])]]
<1>7. /\ \A n \in 0 .. N : S[n] = Parts(n)
      /\ \A n \in 0 .. N : Parts(n) \subseteq Works
      /\ 0 \in 0 .. N /\ N \in 0 .. N
      /\ \A n \in 1 .. N : n \in 0 .. N /\ n - 1 \in 0 .. N /\ n # 0
      /\ \A n \in 0 .. N : n = 0 \/ n \in 1 .. N
  BY <1>2 DEF Works
<1>. HIDE DEF S, Parts
<1>8. \A n \in 1 .. N : \A work \in S[n - 1] : move[n][work] = AllottedPrefill(work, q[n]) /\ move[n][work] \in S[n]
  BY <1>4, <1>7
<1>. HIDE DEF move
<1>9. PICK f : Orbit(f, N, start, move) /\ \A n \in 0 .. N : f[n] \in S[n]
  <2>1. start \in S[0] /\ \A n \in 1 .. N : \A d \in S[n - 1] : move[n][d] \in S[n]
    BY <1>3, <1>7, <1>8
  <2>. QED
    BY <1>2, <2>1, OrbitExists
<1>10. f = [n \in 0 .. N |-> IF n = 0 THEN start ELSE AllottedPrefill(f[n - 1], q[n])]
  <2>1. f = [n \in 0 .. N |-> IF n = 0 THEN start ELSE move[n][f[n - 1]]]
    BY <1>9 DEF Orbit
  <2>2. \A n \in 0 .. N : n # 0 => move[n][f[n - 1]] = AllottedPrefill(f[n - 1], q[n])
    BY <1>7, <1>8, <1>9
  <2>. QED
    BY <2>1, <2>2, Zenon
<1>11. it = [n \in 0 .. N |-> IF n = 0 THEN start ELSE AllottedPrefill(it[n - 1], q[n])]
  BY <1>5, <1>10, Zenon
<1>. HIDE DEF it
<1>12. it[0] = start /\ \A n \in 1 .. N : it[n] = AllottedPrefill(it[n - 1], q[n])
  <2>1. \A n \in 0 .. N : it[n] = IF n = 0 THEN start ELSE AllottedPrefill(it[n - 1], q[n])
    BY <1>11, Zenon
  <2>. QED
    BY <1>7, <2>1, Zenon
<1>. DEFINE X == {n \in 0 .. N : it[n] \in Parts(n)}
<1>13. \A n \in 0 .. N : n \in X
  <2>1. 0 \in X
    BY <1>3, <1>7, <1>12
  <2>2. \A n \in 1 .. N : n - 1 \in X => n \in X
    BY <1>4, <1>7, <1>12
  <2>. HIDE DEF X
  <2>. QED
    BY <1>2, <2>1, <2>2, Stepwise
<1>14. it[N] \in Parts(N)
  BY <1>7, <1>13
<1>15. BatchWork \in Works
  BY <1>1, <1>14 DEF Parts
<1>. QED
  BY <1>15 DEF Works

------------------------------------------------------------------------------
\* Queues in order

Increasing(q) == \A i, j \in 1 .. Len(q) : i < j => q[i] < q[j]

\* Everything in p is before everything in q.
Before(p, q) == \A x \in ToSet(p) : \A y \in ToSet(q) : x < y

\* What a queue is: its entries by position.
LEMMA QueueIs ==
  ASSUME NEW T, NEW q \in Seq(T)
  PROVE  /\ DOMAIN q = 1 .. Len(q) /\ Len(q) \in Nat
         /\ \A i \in 1 .. Len(q) : q[i] \in ToSet(q) /\ q[i] \in T
         /\ \A x \in ToSet(q) : \E i \in 1 .. Len(q) : x = q[i]
         /\ ToSet(q) \subseteq T
<1>1. DOMAIN q = 1 .. Len(q) /\ Len(q) \in Nat /\ \A i \in 1 .. Len(q) : q[i] \in T
  OBVIOUS
<1>. QED
  BY <1>1 DEF ToSet

LEMMA SameQueue ==
  ASSUME NEW T, NEW p \in Seq(T), NEW q \in Seq(T), Len(p) = Len(q),
         \A i \in 1 .. Len(q) : p[i] = q[i]
  PROVE  p = q
  OBVIOUS

\* In order, nothing is there twice.
LEMMA IncreasingOnce ==
  ASSUME NEW q \in Seq(Nat), Increasing(q)
  PROVE  IsInjective(q)
<1>. SUFFICES ASSUME NEW i \in 1 .. Len(q), NEW j \in 1 .. Len(q), q[i] = q[j] PROVE i = j
  BY QueueIs DEF IsInjective
<1>1. q[i] \in Nat /\ q[j] \in Nat
  BY QueueIs
<1>2. ~(i < j) /\ ~(j < i)
  BY <1>1 DEF Increasing
<1>. QED
  BY <1>2

\* A queue in order is no longer than another one of the same entries, and begins it.
LEMMA IncreasingBegins ==
  ASSUME NEW p \in Seq(Nat), NEW q \in Seq(Nat), Increasing(p), Increasing(q), ToSet(p) = ToSet(q)
  PROVE  Len(p) <= Len(q) /\ \A i \in 1 .. Len(p) : p[i] = q[i]
<1>. DEFINE l == Len(p)
            X == {n \in 0 .. l : n <= Len(q) /\ \A k \in 1 .. n : p[k] = q[k]}
<1>1. l \in Nat /\ Len(q) \in Nat /\ l = Len(p)
  OBVIOUS
<1>2. (\A i \in 1 .. l : p[i] \in Nat) /\ \A j \in 1 .. Len(q) : q[j] \in Nat
  BY QueueIs
<1>3. \A i \in 1 .. l : \E j \in 1 .. Len(q) : p[i] = q[j]
  <2>. TAKE i \in 1 .. l
  <2>1. p[i] \in ToSet(q)
    BY QueueIs
  <2>. QED
    BY <2>1, QueueIs
<1>4. \A j \in 1 .. Len(q) : \E i \in 1 .. l : q[j] = p[i]
  <2>. TAKE j \in 1 .. Len(q)
  <2>1. q[j] \in ToSet(p)
    BY QueueIs
  <2>. QED
    BY <2>1, QueueIs
<1>5. 0 \in X
  BY <1>1
<1>. HIDE DEF l
<1>6. ASSUME NEW n \in 1 .. l, n - 1 \in X PROVE n \in X
  <2>1. n - 1 <= Len(q) /\ \A k \in 1 .. n - 1 : p[k] = q[k]
    BY <1>6
  <2>2. PICK j \in 1 .. Len(q) : p[n] = q[j]
    BY <1>3
  <2>3. ~(j < n)
    <3>. SUFFICES ASSUME j < n PROVE FALSE
      OBVIOUS
    <3>1. j \in 1 .. n - 1 /\ j \in 1 .. l
      BY <1>1
    <3>2. p[j] < p[n]
      BY <1>1, <3>1 DEF Increasing
    <3>3. p[j] = q[j] /\ p[j] \in Nat
      BY <1>2, <2>1, <3>1
    <3>. QED
      BY <2>2, <3>2, <3>3
  <2>4. n <= Len(q) /\ n \in 1 .. Len(q)
    BY <1>1, <2>3
  <2>5. PICK i \in 1 .. l : q[n] = p[i]
    BY <1>4, <2>4
  <2>6. ~(i < n)
    <3>. SUFFICES ASSUME i < n PROVE FALSE
      OBVIOUS
    <3>1. i \in 1 .. n - 1 /\ i \in 1 .. Len(q)
      BY <1>1, <2>4
    <3>2. q[i] < q[n]
      BY <2>4, <3>1 DEF Increasing
    <3>3. p[i] = q[i] /\ q[i] \in Nat
      BY <1>2, <2>1, <3>1
    <3>. QED
      BY <2>5, <3>2, <3>3
  <2>7. p[n] = q[n]
    <3>1. n = j \/ n < j
      BY <2>3
    <3>2. n = i \/ n < i
      BY <2>6
    <3>3. n < j => q[n] < q[j]
      BY <2>4 DEF Increasing
    <3>4. n < i => p[n] < p[i]
      BY <1>1 DEF Increasing
    <3>5. p[n] \in Nat /\ q[n] \in Nat
      BY <1>2, <2>4
    <3>. QED
      BY <2>2, <2>5, <3>1, <3>2, <3>3, <3>4, <3>5
  <2>8. \A k \in 1 .. n : p[k] = q[k]
    <3>1. \A k \in 1 .. n : k = n \/ k \in 1 .. n - 1
      OBVIOUS
    <3>. QED
      BY <2>1, <2>7, <3>1
  <2>. QED
    BY <1>1, <2>4, <2>8
<1>. HIDE DEF X
<1>7. \A n \in 0 .. l : n \in X
  BY <1>1, <1>5, <1>6, Stepwise
<1>8. l \in X
  BY <1>1, <1>7
<1>. QED
  BY <1>1, <1>8 DEF X

\* Queues in order of the same entries are the same.
LEMMA IncreasingSame ==
  ASSUME NEW p \in Seq(Nat), NEW q \in Seq(Nat), Increasing(p), Increasing(q), ToSet(p) = ToSet(q)
  PROVE  p = q
<1>1. Len(p) <= Len(q) /\ \A i \in 1 .. Len(p) : p[i] = q[i]
  BY IncreasingBegins
<1>2. Len(q) <= Len(p)
  BY IncreasingBegins
<1>3. Len(p) \in Nat /\ Len(q) \in Nat
  OBVIOUS
<1>. QED
  BY <1>1, <1>2, <1>3

LEMMA IncreasingAppend ==
  ASSUME NEW q \in Seq(Nat), Increasing(q), NEW x \in Nat, \A y \in ToSet(q) : y < x
  PROVE  Increasing(Append(q, x))
<1>1. /\ Len(q) \in Nat /\ Len(Append(q, x)) = Len(q) + 1 /\ Append(q, x)[Len(q) + 1] = x
      /\ \A i \in 1 .. Len(q) : Append(q, x)[i] = q[i] /\ q[i] < x
  BY QueueIs
<1>. QED
  BY <1>1 DEF Increasing

LEMMA IncreasingJoin ==
  ASSUME NEW p \in Seq(Nat), NEW q \in Seq(Nat)
  PROVE  Increasing(p \o q) <=> Increasing(p) /\ Increasing(q) /\ Before(p, q)
<1>. DEFINE l == Len(p)
            m == Len(q)
            s == p \o q
<1>1. /\ l \in Nat /\ m \in Nat /\ Len(s) = l + m
      /\ \A i \in 1 .. l : s[i] = p[i]
      /\ \A i \in 1 .. m : s[l + i] = q[i]
      /\ \A i \in 1 .. l + m : i \in 1 .. l \/ (i - l \in 1 .. m /\ s[i] = q[i - l] /\ i = l + (i - l))
  <2>1. l \in Nat /\ m \in Nat /\ Len(s) = l + m
    OBVIOUS
  <2>2. \A i \in 1 .. l + m : s[i] = IF i <= l THEN p[i] ELSE q[i - l]
    BY ConcatProperties
  <2>. HIDE DEF l, m, s
  <2>. QED
    BY <2>1, <2>2
<1>. HIDE DEF s
<1>2. ASSUME Increasing(s) PROVE Increasing(p) /\ Increasing(q) /\ Before(p, q)
  <2>1. Increasing(p)
    BY <1>1, <1>2 DEF Increasing
  <2>2. ASSUME NEW i \in 1 .. m, NEW j \in 1 .. m, i < j PROVE q[i] < q[j]
    <3>1. l + i \in 1 .. l + m /\ l + j \in 1 .. l + m /\ l + i < l + j
      BY <1>1, <2>2
    <3>2. s[l + i] < s[l + j]
      BY <1>1, <1>2, <3>1 DEF Increasing
    <3>. QED
      BY <1>1, <3>2
  <2>3. ASSUME NEW x \in ToSet(p), NEW y \in ToSet(q) PROVE x < y
    <3>1. PICK i \in 1 .. l : x = p[i]
      BY QueueIs
    <3>2. PICK j \in 1 .. m : y = q[j]
      BY QueueIs
    <3>3. i \in 1 .. l + m /\ l + j \in 1 .. l + m /\ i < l + j
      BY <1>1
    <3>4. s[i] < s[l + j]
      BY <1>1, <1>2, <3>3 DEF Increasing
    <3>. QED
      BY <1>1, <3>1, <3>2, <3>4
  <2>. QED
    BY <2>1, <2>2, <2>3 DEF Increasing, Before
<1>3. ASSUME Increasing(p), Increasing(q), Before(p, q) PROVE Increasing(s)
  <2>. SUFFICES ASSUME NEW i \in 1 .. l + m, NEW j \in 1 .. l + m, i < j PROVE s[i] < s[j]
    BY <1>1 DEF Increasing
  <2>1. CASE j \in 1 .. l
    BY <1>1, <1>3, <2>1 DEF Increasing
  <2>2. CASE i \in 1 .. l /\ j \notin 1 .. l
    <3>1. s[i] = p[i] /\ p[i] \in ToSet(p)
      BY <1>1, <2>2, QueueIs
    <3>2. s[j] = q[j - l] /\ q[j - l] \in ToSet(q)
      BY <1>1, <2>2, QueueIs
    <3>. QED
      BY <1>3, <3>1, <3>2 DEF Before
  <2>3. CASE i \notin 1 .. l /\ j \notin 1 .. l
    <3>1. i - l \in 1 .. m /\ j - l \in 1 .. m /\ i - l < j - l /\ s[i] = q[i - l] /\ s[j] = q[j - l]
      BY <1>1, <2>3
    <3>. QED
      BY <1>3, <3>1 DEF Increasing
  <2>. QED
    BY <1>1, <2>1, <2>2, <2>3
<1>. QED
  BY <1>2, <1>3 DEF s

\* Joined makes one queue of two.
Joined(s, t, q) == q = s \o t

\* A queue cut in two, which is in order when both parts are.
LEMMA CutJoined ==
  ASSUME NEW q \in Seq(Nat), NEW n \in 0 .. Len(q),
         NEW s, s = SubSeq(q, 1, n), NEW t, t = SubSeq(q, n + 1, Len(q))
  PROVE  s \in Seq(Nat) /\ t \in Seq(Nat) /\ Joined(s, t, q)
<1>1. s \in Seq(Nat) /\ t \in Seq(Nat)
  BY CutParts
<1>2. q = s \o t
  <2>. DEFINE l == Len(q)
              z == 0
  <2>1. l \in Nat /\ n \in Nat /\ n <= l /\ z \in Nat /\ l <= Len(q)
    OBVIOUS
  <2>2. s = SubSeq(q, z + 1, n) /\ t = SubSeq(q, n + 1, l) /\ z <= n /\ n - z = n
    OBVIOUS
  <2>3. \A i \in 1 .. n : z + i = i
    OBVIOUS
  <2>. HIDE DEF l, z
  <2>4. Len(s) = n /\ \A i \in 1 .. n : s[i] = q[i]
    <3>1. Len(s) = n /\ \A i \in 1 .. Len(s) : s[i] = q[z + i]
      BY <2>1, <2>2, PartQueue DEF l
    <3>. QED
      BY <2>3, <3>1
  <2>5. Len(t) = l - n
    BY <2>1, <2>2, PartQueue
  <2>6. \A i \in 1 .. Len(t) : t[i] = q[n + i]
    BY <2>1, <2>2, PartQueue
  <2>. DEFINE u == s \o t
  <2>7. u \in Seq(Nat) /\ Len(u) = Len(s) + Len(t)
    BY <1>1
  <2>8. \A i \in 1 .. Len(s) + Len(t) : u[i] = IF i <= Len(s) THEN s[i] ELSE t[i - Len(s)]
    BY <1>1, ConcatProperties
  <2>. HIDE DEF u
  <2>9. Len(u) = l
    BY <2>1, <2>4, <2>5, <2>7
  <2>10. ASSUME NEW i \in 1 .. l PROVE u[i] = q[i]
    <3>1. i \in 1 .. Len(s) + Len(t)
      BY <2>7, <2>9
    <3>2. CASE i <= n
      <4>1. u[i] = IF i <= Len(s) THEN s[i] ELSE t[i - Len(s)]
        BY <2>8, <3>1
      <4>2. i \in 1 .. n /\ u[i] = s[i]
        BY <2>1, <2>4, <3>2, <4>1
      <4>. QED
        BY <2>4, <4>2
    <3>3. CASE ~(i <= n)
      <4>1. u[i] = t[i - n]
        BY <2>1, <2>4, <2>8, <3>1, <3>3
      <4>2. i - n \in 1 .. Len(t) /\ n + (i - n) = i
        BY <2>1, <2>5, <3>3
      <4>3. t[i - n] = q[n + (i - n)]
        BY <2>6, <4>2
      <4>. QED
        BY <4>1, <4>2, <4>3
    <3>. QED
      BY <3>2, <3>3
  <2>11. Len(q) = l
    BY DEF l
  <2>12. u = q
    BY <2>7, <2>9, <2>10, <2>11, SameQueue
  <2>. QED
    BY <2>12 DEF u
<1>. QED
  BY <1>1, <1>2 DEF Joined

LEMMA IncreasingParts ==
  ASSUME NEW s \in Seq(Nat), NEW t \in Seq(Nat), NEW q, Joined(s, t, q), Increasing(q)
  PROVE  /\ ToSet(q) = ToSet(s) \cup ToSet(t)
         /\ Increasing(s) /\ Increasing(t) /\ Before(s, t)
<1>1. q = s \o t
  BY DEF Joined
<1>2. ToSet(s \o t) = ToSet(s) \cup ToSet(t)
  BY JoinQueues
<1>3. Increasing(s \o t) <=> Increasing(s) /\ Increasing(t) /\ Before(s, t)
  BY IncreasingJoin
<1>. QED
  BY <1>1, <1>2, <1>3

\* Selecting keeps the order.
LEMMA IncreasingSelected ==
  ASSUME NEW q \in Seq(Nat), Increasing(q), NEW S
  PROVE  Increasing(Selected(q, S))
<1>. DEFINE l == Len(q)
<1>1. PICK f : Selects(f, q, S, Nat, l) /\ Selected(q, S) = f[l]
  BY SelectedIs
<1>2. /\ l \in Nat /\ f \in [0 .. l -> Seq(Nat)] /\ f[0] = <<>>
      /\ \A k \in 1 .. l : f[k] = IF q[k] \in S THEN Append(f[k - 1], q[k]) ELSE f[k - 1]
  BY <1>1 DEF Selects
<1>. DEFINE X == {n \in 0 .. l : Increasing(f[n]) /\ \A y \in ToSet(f[n]) : \E i \in 1 .. n : y = q[i]}
<1>3. 0 \in X
  <2>1. ToSet(<<>>) = {} /\ Len(<<>>) = 0
    BY EmptyQueue
  <2>. QED
    BY <1>2, <2>1 DEF Increasing
<1>. HIDE DEF l
<1>4. ASSUME NEW n \in 1 .. l, n - 1 \in X PROVE n \in X
  <2>. DEFINE g == f[n - 1]
  <2>1. n - 1 \in 0 .. l /\ n \in 0 .. l
    BY <1>2
  <2>2. g \in Seq(Nat) /\ Increasing(g) /\ \A y \in ToSet(g) : \E i \in 1 .. n - 1 : y = q[i]
    BY <1>2, <1>4, <2>1
  <2>3. f[n] = IF q[n] \in S THEN Append(g, q[n]) ELSE g
    BY <1>2
  <2>. HIDE DEF g
  <2>4. \A y \in ToSet(g) : y < q[n] /\ \E i \in 1 .. n : y = q[i]
    <3>. TAKE y \in ToSet(g)
    <3>1. PICK i \in 1 .. n - 1 : y = q[i]
      BY <2>2
    <3>2. i < n /\ i \in 1 .. n /\ i \in 1 .. l
      BY <1>2
    <3>3. q[i] < q[n]
      BY <3>2 DEF Increasing, l
    <3>. QED
      BY <3>1, <3>2, <3>3
  <2>5. q[n] \in Nat
    BY QueueIs DEF l
  <2>. DEFINE h == Append(g, q[n])
  <2>6. Increasing(h) /\ ToSet(h) = ToSet(g) \cup {q[n]}
    BY <2>2, <2>4, <2>5, IncreasingAppend, AppendQueue, SMTT(30)
  <2>. HIDE DEF h
  <2>7. \A y \in ToSet(h) : \E i \in 1 .. n : y = q[i]
    <3>. TAKE y \in ToSet(h)
    <3>1. CASE y \in ToSet(g)
      BY <2>4, <3>1
    <3>2. CASE y = q[n]
      <4>1. n \in 1 .. n
        OBVIOUS
      <4>. QED
        BY <3>2, <4>1
    <3>. QED
      BY <2>6, <3>1, <3>2
  <2>8. f[n] = h \/ f[n] = g
    BY <2>3 DEF h
  <2>9. CASE f[n] = g
    BY <2>1, <2>2, <2>4, <2>9
  <2>10. CASE f[n] = h
    BY <2>1, <2>6, <2>7, <2>10
  <2>. QED
    BY <2>8, <2>9, <2>10
<1>. HIDE DEF X
<1>5. \A n \in 0 .. l : n \in X
  BY <1>2, <1>3, <1>4, Stepwise
<1>6. l \in X
  BY <1>2, <1>5
<1>. QED
  BY <1>1, <1>6 DEF X

------------------------------------------------------------------------------
\* Admission

Admissions == [active : Seq(Id), waiting : Seq(Id), rejected : SUBSET Id,
               reservations : PartialMaps(Id, Nat), used : Nat, stopped : BOOLEAN]

\* Exactly these requests have reserved their worst case.
Booked(m, n, S) ==
    /\ m \in PartialMaps(Id, Nat) /\ DOMAIN m = S
    /\ \A r \in S : m[r] = RequiredBlocks(r)
    /\ n = SumFunction(m) /\ n \in 0 .. Blocks

\* Those of P have been looked at, in order.
LookedAt(st, P) ==
    /\ Increasing(st.active) /\ Increasing(st.waiting) /\ Before(st.active, st.waiting)
    /\ ToSet(active) \subseteq ToSet(st.active)
    /\ ToSet(st.active) \cup ToSet(st.waiting) \cup st.rejected = ToSet(active) \cup P
    /\ st.rejected \subseteq P
    /\ st.rejected \cap ToSet(st.active) = {} /\ st.rejected \cap ToSet(st.waiting) = {}
    /\ st.waiting = <<>> \/ st.stopped \/ Len(st.active) >= MaxBatchSize
    /\ Booked(st.reservations, st.used, ToSet(st.active))

\* The worst case of a request is a number.
LEMMA RequiredIs ==
  ASSUME RequestsOK, NEW r \in Id
  PROVE  /\ RequiredBlocks(r) \in Nat
         /\ RequiredBlocks(r) = BlocksFor(Len(prompt[r]) + wanted[r])
         /\ NeededBlocks(Request(r)) = BlocksFor(Len(prompt[r]) + wanted[r])
<1>1. Len(prompt[r]) \in Nat /\ wanted[r] \in Nat
  BY RequestIs DEF Token
<1>2. Request(r).prompt = prompt[r] /\ Request(r).wanted = wanted[r]
  BY RequestIs
<1>3. BlocksFor(Len(prompt[r]) + wanted[r]) \in Nat
  BY <1>1, BlocksEnough, SMTT(30)
<1>. QED
  BY <1>2, <1>3, Zenon DEF RequiredBlocks, NeededBlocks

\* What a queue holds is finite.
LEMMA QueueFinite ==
  ASSUME NEW T, NEW q \in Seq(T)
  PROVE  IsFiniteSet(ToSet(q))
<1>1. Len(q) \in Nat /\ DOMAIN q = 1 .. Len(q)
  OBVIOUS
<1>2. IsFiniteSet(DOMAIN q)
  BY <1>1, FS_Interval
<1>3. q \in Surjection(DOMAIN q, ToSet(q))
  BY DEF Surjection, ToSet
<1>. QED
  BY <1>2, <1>3, FS_Surjection

\* Requests are numbers, in the order of their arrival.
LEMMA IdsAreNumbers ==
  ASSUME NEW q \in Seq(Id)
  PROVE  q \in Seq(Nat) /\ Id \subseteq Nat
<1>1. Id \subseteq Nat
  BY SchedulerAssumption DEF Id
<1>2. \A i \in 1 .. Len(q) : q[i] \in Nat
  BY <1>1, QueueIs
<1>3. q \in Seq(Nat)
  BY <1>2
<1>. QED
  BY <1>1, <1>3

\* One more reservation.
LEMMA BookedMore ==
  ASSUME RequestsOK, NEW m, NEW n, NEW S, IsFiniteSet(S), Booked(m, n, S),
         NEW r \in Id, r \notin S, n + RequiredBlocks(r) <= Blocks
  PROVE  Booked(With(m, r, RequiredBlocks(r)), n + RequiredBlocks(r), S \cup {r})
<1>. DEFINE k == RequiredBlocks(r)
            f == With(m, r, k)
<1>1. /\ m \in PartialMaps(Id, Nat) /\ DOMAIN m = S /\ \A x \in S : m[x] = RequiredBlocks(x)
      /\ n = SumFunction(m) /\ n \in 0 .. Blocks /\ k \in Nat
  BY RequiredIs DEF Booked
<1>. HIDE DEF k
<1>2. m \in [S -> Nat] /\ S \subseteq Id
  BY <1>1, MapsAre
<1>3. f \in PartialMaps(Id, Nat)
  BY <1>1, MapsWith
<1>4. DOMAIN f = S \cup {r} /\ \A x \in S \cup {r} : f[x] = IF x = r THEN k ELSE m[x]
  BY <1>1 DEF With
<1>5. \A x \in S \cup {r} : f[x] = RequiredBlocks(x)
  BY <1>1, <1>4 DEF k
<1>6. SumFunction(f) = SumFunction(m) + k
  <2>1. \A x \in DOMAIN m : m[x] \in Nat
    BY <1>1, <1>2
  <2>. QED
    BY <1>1, <2>1, SumWith
<1>. HIDE DEF f
<1>7. n + k \in 0 .. Blocks
  BY <1>1, CacheAssumption DEF k
<1>. QED
  BY <1>1, <1>3, <1>4, <1>5, <1>6, <1>7 DEF Booked, k, f

LEMMA AdmitHeadGood ==
  ASSUME RequestsOK, NEW st \in Admissions, NEW P \in SUBSET Id, LookedAt(st, P),
         NEW r \in Id, \A x \in ToSet(active) \cup P : x < r,
         NEW v, v = AdmitHead(st, r)
  PROVE  v \in Admissions /\ LookedAt(v, P \cup {r})
<1>. DEFINE a == st.active
            w == st.waiting
<1>1. /\ a \in Seq(Id) /\ w \in Seq(Id) /\ st.rejected \in SUBSET Id
      /\ st.reservations \in PartialMaps(Id, Nat) /\ st.used \in Nat /\ st.stopped \in BOOLEAN
  BY DEF Admissions
<1>. HIDE DEF a, w
<1>2. /\ Increasing(a) /\ Increasing(w) /\ Before(a, w)
      /\ ToSet(active) \subseteq ToSet(a)
      /\ ToSet(a) \cup ToSet(w) \cup st.rejected = ToSet(active) \cup P
      /\ st.rejected \subseteq P
      /\ st.rejected \cap ToSet(a) = {} /\ st.rejected \cap ToSet(w) = {}
      /\ w = <<>> \/ st.stopped \/ Len(a) >= MaxBatchSize
      /\ Booked(st.reservations, st.used, ToSet(a))
  BY DEF LookedAt, a, w
<1>3. /\ \A x \in ToSet(a) : x < r
      /\ \A x \in ToSet(w) : x < r
      /\ \A x \in st.rejected : x < r
  BY <1>2
<1>4. a \in Seq(Nat) /\ w \in Seq(Nat) /\ r \in Nat /\ Id \subseteq Nat
  BY <1>1, IdsAreNumbers
<1>5. r \notin ToSet(a) /\ r \notin ToSet(w) /\ r \notin st.rejected
  BY <1>3, <1>4
<1>. DEFINE a1 == Append(a, r)
            w1 == Append(w, r)
<1>6. a1 \in Seq(Id) /\ ToSet(a1) = ToSet(a) \cup {r} /\ Increasing(a1)
  BY <1>1, <1>2, <1>3, <1>4, AppendQueue, IncreasingAppend
<1>7. w1 \in Seq(Id) /\ ToSet(w1) = ToSet(w) \cup {r} /\ Increasing(w1)
  BY <1>1, <1>2, <1>3, <1>4, AppendQueue, IncreasingAppend
<1>8. v = IF st.stopped \/ Len(a) >= MaxBatchSize THEN [st EXCEPT !.waiting = w1]
          ELSE IF Fits(st, r)
          THEN [st EXCEPT !.active = a1, !.used = st.used + ReservedBlocks(r),
                          !.reservations = With(st.reservations, r, ReservedBlocks(r))]
          ELSE IF policy = "reject" THEN [st EXCEPT !.rejected = st.rejected \cup {r}]
          ELSE [st EXCEPT !.waiting = w1, !.stopped = TRUE]
  BY Zenon DEF AdmitHead, Blocked, a, w
<1>. HIDE DEF a1, w1
<1>9. ASSUME v.active = a, v.waiting = w1, v.rejected = st.rejected, v.reservations = st.reservations,
             v.used = st.used, v.stopped \/ Len(a) >= MaxBatchSize
      PROVE  LookedAt(v, P \cup {r})
  <2>1. Before(a, w1)
    BY <1>2, <1>3, <1>7 DEF Before
  <2>. QED
    BY <1>2, <1>5, <1>7, <1>9, <2>1 DEF LookedAt
<1>10. CASE st.stopped \/ Len(a) >= MaxBatchSize
  <2>1. v = [st EXCEPT !.waiting = w1]
    BY <1>8, <1>10
  <2>2. /\ v.active = a /\ v.waiting = w1 /\ v.rejected = st.rejected
        /\ v.reservations = st.reservations /\ v.used = st.used /\ v.stopped = st.stopped
        /\ v \in Admissions
    BY <1>7, <2>1 DEF Admissions, a
  <2>. QED
    BY <1>9, <1>10, <2>2
<1>11. CASE ~(st.stopped \/ Len(a) >= MaxBatchSize) /\ Fits(st, r)
  <2>. DEFINE k == RequiredBlocks(r)
              m == With(st.reservations, r, k)
              n == st.used + k
  <2>1. k \in Nat /\ k <= Blocks - st.used
    BY <1>11, RequiredIs DEF Fits, ReservedBlocks
  <2>2. w = <<>>
    BY <1>2, <1>11
  <2>3. v = [st EXCEPT !.active = a1, !.used = n, !.reservations = m]
    BY <1>8, <1>11 DEF ReservedBlocks
  <2>4. n <= Blocks
    BY <1>1, <2>1, CacheAssumption
  <2>5. Booked(m, n, ToSet(a) \cup {r})
    <3>1. IsFiniteSet(ToSet(a))
      BY <1>1, QueueFinite
    <3>. QED
      BY <1>2, <1>5, <2>4, <3>1, BookedMore
  <2>6. m \in PartialMaps(Id, Nat) /\ n \in Nat
    BY <1>1, <2>1, <2>5 DEF Booked
  <2>. HIDE DEF m, n
  <2>7. /\ v.active = a1 /\ v.waiting = w /\ v.rejected = st.rejected
        /\ v.reservations = m /\ v.used = n
        /\ v \in Admissions
    BY <1>6, <2>3, <2>6 DEF Admissions, w
  <2>8. ToSet(w) = {} /\ Before(a1, w)
    BY <2>2, EmptyQueue DEF Before
  <2>. QED
    BY <1>2, <1>5, <1>6, <2>2, <2>5, <2>7, <2>8 DEF LookedAt
<1>12. CASE ~(st.stopped \/ Len(a) >= MaxBatchSize) /\ ~Fits(st, r) /\ policy = "reject"
  <2>1. v = [st EXCEPT !.rejected = st.rejected \cup {r}]
    BY <1>8, <1>12
  <2>2. /\ v.active = a /\ v.waiting = w /\ v.rejected = st.rejected \cup {r}
        /\ v.reservations = st.reservations /\ v.used = st.used /\ v.stopped = st.stopped
        /\ v \in Admissions
    BY <2>1 DEF Admissions, a, w
  <2>. QED
    BY <1>2, <1>5, <2>2 DEF LookedAt
<1>13. CASE ~(st.stopped \/ Len(a) >= MaxBatchSize) /\ ~Fits(st, r) /\ policy # "reject"
  <2>1. v = [st EXCEPT !.waiting = w1, !.stopped = TRUE]
    BY <1>8, <1>13
  <2>2. /\ v.active = a /\ v.waiting = w1 /\ v.rejected = st.rejected
        /\ v.reservations = st.reservations /\ v.used = st.used /\ v.stopped = TRUE
        /\ v \in Admissions
    BY <1>7, <2>1 DEF Admissions, a
  <2>. QED
    BY <1>9, <2>2
<1>. QED
  BY <1>10, <1>11, <1>12, <1>13

------------------------------------------------------------------------------
\* One look after the other

\* The first n of a queue.
Firsts(q, n) == {q[i] : i \in 1 .. n}

LEMMA FirstsAre ==
  ASSUME NEW T, NEW q \in Seq(T)
  PROVE  /\ Firsts(q, 0) = {} /\ Firsts(q, Len(q)) = ToSet(q)
         /\ \A n \in 1 .. Len(q) : Firsts(q, n) = Firsts(q, n - 1) \cup {q[n]}
         /\ \A n \in 0 .. Len(q) : Firsts(q, n) \subseteq ToSet(q)
<1>1. DOMAIN q = 1 .. Len(q) /\ Len(q) \in Nat
  BY QueueIs
<1>2. Firsts(q, 0) = {}
  BY DEF Firsts
<1>3. Firsts(q, Len(q)) = ToSet(q)
  BY <1>1 DEF Firsts, ToSet
<1>4. ASSUME NEW n \in 1 .. Len(q) PROVE Firsts(q, n) = Firsts(q, n - 1) \cup {q[n]}
  <2>1. 1 .. n = 1 .. n - 1 \cup {n}
    BY <1>1
  <2>. QED
    BY <2>1 DEF Firsts
<1>5. ASSUME NEW n \in 0 .. Len(q) PROVE Firsts(q, n) \subseteq ToSet(q)
  <2>1. 1 .. n \subseteq DOMAIN q
    BY <1>1
  <2>. QED
    BY <2>1 DEF Firsts, ToSet
<1>. QED
  BY <1>2, <1>3, <1>4, <1>5

LEMMA AdmissionGood ==
  ASSUME RequestsOK, NEW queue \in Seq(Id), Increasing(active), Increasing(queue),
         Before(active, queue), Booked(reservations, used, ToSet(active)),
         NEW v, v = Admission(queue)
  PROVE  v \in Admissions /\ LookedAt(v, ToSet(queue))
<1>. DEFINE N == Len(queue)
            start == [active |-> active, waiting |-> <<>>, rejected |-> {},
                      reservations |-> reservations, used |-> used,
                      stopped |-> mode = "static" /\ active # <<>>]
            Parts(n) == {st \in Admissions : LookedAt(st, Firsts(queue, n))}
            it == CHOOSE h : h = [n \in 0 .. Len(queue) |->
                     IF n = 0 THEN [active |-> active, waiting |-> <<>>, rejected |-> {},
                                    reservations |-> reservations, used |-> used,
                                    stopped |-> mode = "static" /\ active # <<>>]
                     ELSE AdmitHead(h[n - 1], queue[n])]
<1>1. v = it[N]
  BY Zenon DEF Admission, Iterated
<1>2. N \in Nat
  OBVIOUS
<1>3. start \in Parts(0)
  <2>1. active \in Seq(Id) /\ <<>> \in Seq(Id) /\ ToSet(<<>>) = {} /\ Len(<<>>) = 0
    BY EmptyQueue DEF RequestsOK
  <2>2. reservations \in PartialMaps(Id, Nat) /\ used \in Nat
    <3>1. used \in 0 .. Blocks
      BY DEF Booked
    <3>2. used \in Nat
      BY <3>1, CacheAssumption
    <3>. QED
      BY <3>2 DEF Booked
  <2>3. start \in Admissions
    BY <2>1, <2>2 DEF Admissions
  <2>4. Increasing(<<>>) /\ Before(active, <<>>)
    BY <2>1 DEF Increasing, Before
  <2>5. LookedAt(start, {})
    BY <2>1, <2>4 DEF LookedAt
  <2>6. Firsts(queue, 0) = {}
    BY FirstsAre
  <2>. HIDE DEF start
  <2>. QED
    BY <2>3, <2>5, <2>6
<1>4. ASSUME NEW n \in 1 .. N, NEW st \in Parts(n - 1) PROVE AdmitHead(st, queue[n]) \in Parts(n)
  <2>. DEFINE P == Firsts(queue, n - 1)
              r == queue[n]
              u == AdmitHead(st, r)
  <2>1. st \in Admissions /\ LookedAt(st, P)
    OBVIOUS
  <2>2. n - 1 \in 0 .. Len(queue)
    BY <1>2
  <2>3. P \subseteq ToSet(queue) /\ Firsts(queue, n) = P \cup {r} /\ r \in ToSet(queue) /\ ToSet(queue) \subseteq Id
    BY <2>2, FirstsAre, QueueIs
  <2>4. P \in SUBSET Id /\ r \in Id
    BY <2>3
  <2>5. \A x \in P : x < r
    <3>. TAKE x \in P
    <3>1. PICK i \in 1 .. n - 1 : x = queue[i]
      BY DEF Firsts
    <3>2. i \in 1 .. Len(queue) /\ n \in 1 .. Len(queue) /\ i < n
      BY <1>2, <2>2
    <3>. QED
      BY <3>1, <3>2 DEF Increasing
  <2>6. \A x \in ToSet(active) : x < r
    BY <2>3 DEF Before
  <2>7. u = AdmitHead(st, r)
    OBVIOUS
  <2>. HIDE DEF P, r, u
  <2>8. u \in Admissions /\ LookedAt(u, P \cup {r})
    BY <2>1, <2>4, <2>5, <2>6, <2>7, AdmitHeadGood
  <2>9. u \in Parts(n)
    BY <2>3, <2>8
  <2>. QED
    BY <2>9 DEF u, r
<1>5. /\ N = Len(queue)
      /\ start = [active |-> active, waiting |-> <<>>, rejected |-> {},
                  reservations |-> reservations, used |-> used,
                  stopped |-> mode = "static" /\ active # <<>>]
  OBVIOUS
<1>. HIDE DEF N, start
<1>. DEFINE S == [n \in 0 .. N |-> Parts(n)]
            move == [n \in 1 .. N |-> [st \in Admissions |-> AdmitHead(st, queue[n])]]
<1>6. /\ \A n \in 0 .. N : S[n] = Parts(n)
      /\ \A n \in 0 .. N : Parts(n) \subseteq Admissions
      /\ 0 \in 0 .. N /\ N \in 0 .. N
      /\ \A n \in 1 .. N : n \in 0 .. N /\ n - 1 \in 0 .. N /\ n # 0
      /\ \A n \in 0 .. N : n = 0 \/ n \in 1 .. N
  BY <1>2
<1>. HIDE DEF S, Parts
<1>7. \A n \in 1 .. N : \A st \in S[n - 1] : move[n][st] = AdmitHead(st, queue[n]) /\ move[n][st] \in S[n]
  BY <1>4, <1>6
<1>. HIDE DEF move
<1>8. PICK f : Orbit(f, N, start, move) /\ \A n \in 0 .. N : f[n] \in S[n]
  <2>1. start \in S[0] /\ \A n \in 1 .. N : \A d \in S[n - 1] : move[n][d] \in S[n]
    BY <1>3, <1>6, <1>7
  <2>. QED
    BY <1>2, <2>1, OrbitExists
<1>9. f = [n \in 0 .. N |-> IF n = 0 THEN start ELSE AdmitHead(f[n - 1], queue[n])]
  <2>1. f = [n \in 0 .. N |-> IF n = 0 THEN start ELSE move[n][f[n - 1]]]
    BY <1>8 DEF Orbit
  <2>2. \A n \in 0 .. N : n # 0 => move[n][f[n - 1]] = AdmitHead(f[n - 1], queue[n])
    BY <1>6, <1>7, <1>8
  <2>. QED
    BY <2>1, <2>2, Zenon
<1>10. it = [n \in 0 .. N |-> IF n = 0 THEN start ELSE AdmitHead(it[n - 1], queue[n])]
  BY <1>5, <1>9, Zenon
<1>. HIDE DEF it
<1>11. it[0] = start /\ \A n \in 1 .. N : it[n] = AdmitHead(it[n - 1], queue[n])
  <2>1. \A n \in 0 .. N : it[n] = IF n = 0 THEN start ELSE AdmitHead(it[n - 1], queue[n])
    BY <1>10, Zenon
  <2>. QED
    BY <1>6, <2>1, Zenon
<1>. DEFINE X == {n \in 0 .. N : it[n] \in Parts(n)}
<1>12. \A n \in 0 .. N : n \in X
  <2>1. 0 \in X
    BY <1>3, <1>6, <1>11
  <2>2. \A n \in 1 .. N : n - 1 \in X => n \in X
    BY <1>4, <1>6, <1>11
  <2>. HIDE DEF X
  <2>. QED
    BY <1>2, <2>1, <2>2, Stepwise
<1>13. it[N] \in Parts(N)
  BY <1>6, <1>12
<1>14. Firsts(queue, N) = ToSet(queue)
  BY <1>5, FirstsAre
<1>. QED
  BY <1>1, <1>14, <1>13 DEF Parts

------------------------------------------------------------------------------
\* The invariant of the reserving schedule

\* The queues stand in the order of arrival, one behind the other.
Ordered ==
    /\ Increasing(active) /\ Increasing(waiting) /\ Increasing(incoming)
    /\ Before(active, waiting) /\ Before(active, incoming) /\ Before(waiting, incoming)

\* They hold the requests without an outcome.
Unresolved ==
    ToSet(active) \cup ToSet(waiting) \cup ToSet(incoming) = {r \in Id : outcome[r] = ""}

\* Exactly the active requests have reserved, and only who has reserved has a state.
Reserving ==
    /\ Booked(reservations, used, IF at = "error" THEN {} ELSE ToSet(active))
    /\ DOMAIN worker.states \subseteq DOMAIN reservations

ServingOK ==
    /\ lastPrefill \in SUBSET Id /\ (lastPrefill = {} \/ \E r \in Id : lastPrefill = {r})
    /\ outcome \in [Id -> {"", "too large", "unavailable", "completed"}]
    /\ at \in {"arrivals", "work", "done", "error"}

ReservedInv ==
    /\ RequestsOK /\ WorkerOK /\ DeliveryOK /\ CompletedOK /\ PrefilledOK
    /\ Ordered /\ Unresolved /\ Reserving /\ ServingOK

\* Nothing is reserved.
LEMMA NothingBooked == Booked(<<>>, 0, {})
<1>1. DOMAIN <<>> = {}
  OBVIOUS
<1>2. <<>> \in [{} -> Nat]
  BY <1>1
<1>3. <<>> \in PartialMaps(Id, Nat)
  BY <1>2, MapsAre
<1>4. SumFunction(<<>>) = 0
  <2>. DEFINE m == <<>>
  <2>1. DOMAIN m = {} /\ IsFiniteSet({}) /\ \A d \in {} : m[d] \in Nat
    BY <1>1, FS_EmptySet
  <2>. HIDE DEF m
  <2>2. SumFunctionOnSet(m, {}) = 0
    BY <2>1, SumFacts
  <2>3. SumFunction(m) = 0
    BY <2>1, <2>2, Zenon DEF SumFunction
  <2>. QED
    BY <2>3 DEF m
<1>5. 0 \in 0 .. Blocks
  BY CacheAssumption
<1>. QED
  BY <1>1, <1>3, <1>4, <1>5 DEF Booked

LEMMA ReservedInvInit == ReservedInit => ReservedInv
<1>. SUFFICES ASSUME ReservedInit PROVE ReservedInv
  OBVIOUS
<1>1. ScheduleBegins /\ lastPrefill = {} /\ reservations = <<>> /\ used = 0
  BY DEF ReservedInit
<1>2. /\ RequestsOK /\ WorkerOK /\ DeliveryOK /\ CompletedOK /\ PrefilledOK /\ DOMAIN worker.states = {}
  BY <1>1, BeginsWell
<1>3. /\ incoming = [i \in Id |-> i] /\ waiting = <<>> /\ active = <<>>
      /\ outcome = [r \in Id |-> ""] /\ at = "arrivals"
  BY <1>1 DEF ScheduleBegins
<1>4. ToSet(<<>>) = {} /\ Len(<<>>) = 0
  BY EmptyQueue
<1>5. Len(incoming) = Ids /\ DOMAIN incoming = Id /\ Ids \in Nat /\ Id = 1 .. Ids /\ \A i \in Id : incoming[i] = i
  <2>1. Id = 1 .. Ids /\ Ids \in Nat
    BY SchedulerAssumption DEF Id
  <2>2. DOMAIN incoming = 1 .. Ids /\ \A i \in 1 .. Ids : incoming[i] = i
    BY <1>3, <2>1
  <2>3. Len(incoming) = Ids
    BY <2>1, <2>2
  <2>. QED
    BY <2>1, <2>2, <2>3
<1>6. Ordered
  <2>1. Increasing(active) /\ Increasing(waiting)
    <3>1. Increasing(<<>>)
      BY <1>4 DEF Increasing
    <3>. QED
      BY <1>3, <3>1
  <2>2. Increasing(incoming)
    BY <1>5 DEF Increasing
  <2>3. Before(active, waiting) /\ Before(active, incoming) /\ Before(waiting, incoming)
    BY <1>3, <1>4 DEF Before
  <2>. QED
    BY <2>1, <2>2, <2>3 DEF Ordered
<1>7. Unresolved
  <2>1. ToSet(incoming) = Id
    BY <1>5 DEF ToSet
  <2>. QED
    BY <1>3, <1>4, <2>1 DEF Unresolved
<1>8. Reserving
  BY <1>1, <1>2, <1>3, <1>4, NothingBooked DEF Reserving
<1>9. ServingOK
  BY <1>1, <1>3 DEF ServingOK
<1>. QED
  BY <1>2, <1>6, <1>7, <1>8, <1>9 DEF ReservedInv

\* After the end of the schedule.
LEMMA CleanedUpWell ==
  ASSUME WorkerOK, Reserving, at # "error", NEW how, CleanedUp(how)
  PROVE  /\ WorkerOK' /\ at' = how /\ Booked(reservations', used', {})
         /\ DOMAIN worker'.states = {}
<1>1. /\ at' = how /\ worker' = ClearedWorker(worker)
      /\ reservations' = <<>> /\ used' = used - SumFunction(reservations)
  BY DEF CleanedUp
<1>2. worker' \in Settled /\ DOMAIN worker'.states = {}
  <2>1. worker \in Workers
    BY DEF WorkerOK, Settled
  <2>. QED
    BY <1>1, <2>1, ClearedSettled
<1>3. used = SumFunction(reservations) /\ used \in Nat
  <2>1. used \in 0 .. Blocks /\ used = SumFunction(reservations)
    BY DEF Reserving, Booked
  <2>. QED
    BY <2>1, CacheAssumption
<1>4. used' = 0
  BY <1>1, <1>3
<1>5. WorkerOK'
  BY <1>2 DEF WorkerOK
<1>6. Booked(reservations', used', {})
  BY <1>1, <1>4, NothingBooked
<1>. QED
  BY <1>1, <1>2, <1>5, <1>6

\* What a request needs does not change.
LEMMA ReservingNext ==
  ASSUME UNCHANGED <<prompt, wanted>>,
         Booked(reservations', used', IF at' = "error" THEN {} ELSE ToSet(active')),
         DOMAIN worker'.states \subseteq DOMAIN reservations'
  PROVE  Reserving'
<1>1. ASSUME NEW r PROVE RequiredBlocks(r)' = RequiredBlocks(r)
  BY DEF RequiredBlocks, NeededBlocks, Request
<1>. QED
  BY <1>1 DEF Reserving, Booked

\* Those that arrive, and those that do not yet.
LEMMA ArrivedParts ==
  ASSUME RequestsOK, Ordered, NEW n \in 0 .. Len(incoming),
         NEW arrived, arrived = SubSeq(incoming, 1, n),
         NEW left, left = SubSeq(incoming, n + 1, Len(incoming))
  PROVE  /\ arrived \in Seq(Id) /\ left \in Seq(Id)
         /\ ToSet(incoming) = ToSet(arrived) \cup ToSet(left)
         /\ Increasing(arrived) /\ Increasing(left) /\ Before(arrived, left)
<1>. DEFINE q == incoming
<1>1. q \in Seq(Id) /\ Increasing(q)
  BY DEF RequestsOK, Ordered
<1>2. n \in 0 .. Len(q) /\ arrived = SubSeq(q, 1, n) /\ left = SubSeq(q, n + 1, Len(q))
  OBVIOUS
<1>. HIDE DEF q
<1>3. q \in Seq(Nat)
  BY <1>1, IdsAreNumbers
<1>4. arrived \in Seq(Nat) /\ left \in Seq(Nat) /\ Joined(arrived, left, q)
  BY <1>2, <1>3, CutJoined
<1>5. arrived \in Seq(Id) /\ left \in Seq(Id)
  <2>1. n \in Nat /\ n <= Len(q)
    BY <1>2, <1>3
  <2>. QED
    BY <1>1, <1>2, <2>1, CutParts
<1>6. /\ ToSet(q) = ToSet(arrived) \cup ToSet(left)
      /\ Increasing(arrived) /\ Increasing(left) /\ Before(arrived, left)
  BY <1>1, <1>4, IncreasingParts
<1>. QED
  BY <1>5, <1>6 DEF q

\* What is looked at then: who waits, and those of S that arrive.
Queued(queue, arrived, S) == ToSet(queue) = ToSet(waiting) \cup (ToSet(arrived) \cap S)

LEMMA ArrivedInOrder ==
  ASSUME RequestsOK, Ordered, NEW arrived \in Seq(Id), NEW left \in Seq(Id), NEW S,
         ToSet(incoming) = ToSet(arrived) \cup ToSet(left),
         Increasing(arrived), Before(arrived, left),
         NEW queue, queue = waiting \o Selected(arrived, S)
  PROVE  /\ queue \in Seq(Id) /\ Increasing(queue)
         /\ Before(active, queue) /\ Before(queue, left)
         /\ Queued(queue, arrived, S)
<1>. DEFINE fit == Selected(arrived, S)
            w == waiting
<1>1. w \in Seq(Id) /\ Increasing(w)
  BY DEF RequestsOK, Ordered
<1>2. fit \in Seq(Id) /\ ToSet(fit) = ToSet(arrived) \cap S
  BY SelectedFacts
<1>3. Increasing(fit)
  <2>1. arrived \in Seq(Nat)
    BY IdsAreNumbers
  <2>. QED
    BY <2>1, IncreasingSelected
<1>4. queue = w \o fit
  OBVIOUS
<1>5. Before(w, fit)
  BY <1>2 DEF Ordered, Before
<1>. HIDE DEF fit, w
<1>6. fit \in Seq(Nat) /\ w \in Seq(Nat)
  BY <1>1, <1>2, IdsAreNumbers
<1>. DEFINE q == w \o fit
<1>7. q \in Seq(Id) /\ ToSet(q) = ToSet(w) \cup ToSet(fit)
  BY <1>1, <1>2, JoinQueues
<1>8. Increasing(q)
  BY <1>1, <1>3, <1>5, <1>6, IncreasingJoin
<1>9. queue = q
  BY <1>4
<1>. HIDE DEF q
<1>10. queue \in Seq(Id) /\ Increasing(queue) /\ Queued(queue, arrived, S)
  BY <1>2, <1>7, <1>8, <1>9 DEF w, Queued
<1>11. Before(active, queue) /\ Before(queue, left)
  <2>1. /\ Before(active, waiting) /\ Before(active, incoming) /\ Before(waiting, incoming)
        /\ ToSet(left) \subseteq ToSet(incoming) /\ ToSet(arrived) \subseteq ToSet(incoming)
    BY DEF Ordered
  <2>. QED
    BY <1>10, <2>1 DEF Before, Queued
<1>. QED
  BY <1>10, <1>11

LEMMA AdmitsWell ==
  ASSUME ReservedInv, Admit
  PROVE  ReservedInv'
<1>. USE DEF ReservedInv
<1>. DEFINE S == {r \in Id : CanEverFit(r)}
<1>1. PICK n \in 0 .. Len(incoming) :
         LET arrived  == SubSeq(incoming, 1, n)
             admitted == Admission(waiting \o Selected(arrived, S))
         IN  /\ incoming' = SubSeq(incoming, n + 1, Len(incoming))
             /\ active' = admitted.active /\ waiting' = admitted.waiting
             /\ outcome' = [r \in Id |->
                   IF Contains(arrived, r) /\ ~CanEverFit(r) THEN "too large"
                   ELSE IF r \in admitted.rejected THEN "unavailable" ELSE outcome[r]]
             /\ IF admitted.active = <<>> /\ admitted.waiting # <<>> THEN CleanedUp("error")
                ELSE /\ at' = IF admitted.active = <<>> THEN "arrivals" ELSE "work"
                     /\ reservations' = admitted.reservations /\ used' = admitted.used
                     /\ UNCHANGED worker
  BY DEF Admit
<1>. DEFINE arrived == SubSeq(incoming, 1, n)
            left == SubSeq(incoming, n + 1, Len(incoming))
            queue == waiting \o Selected(arrived, S)
            v == Admission(queue)
<1>2. /\ incoming' = left /\ active' = v.active /\ waiting' = v.waiting
      /\ outcome' = [r \in Id |->
            IF Contains(arrived, r) /\ ~CanEverFit(r) THEN "too large"
            ELSE IF r \in v.rejected THEN "unavailable" ELSE outcome[r]]
      /\ \/ CleanedUp("error")
         \/ /\ at' \in {"arrivals", "work"} /\ UNCHANGED worker
            /\ reservations' = v.reservations /\ used' = v.used
  BY <1>1
<1>3. /\ at = "arrivals"
      /\ UNCHANGED <<prompt, wanted, budget, prefilled, delivered, lastPrefill>>
  BY DEF Admit, setupVars, servedVars
<1>4. /\ arrived = SubSeq(incoming, 1, n) /\ left = SubSeq(incoming, n + 1, Len(incoming))
      /\ queue = waiting \o Selected(arrived, S) /\ v = Admission(queue)
      /\ \A r \in Id : r \in S <=> CanEverFit(r)
  OBVIOUS
<1>. HIDE DEF arrived, left, queue, v, S
<1>5. /\ arrived \in Seq(Id) /\ left \in Seq(Id) /\ queue \in Seq(Id)
      /\ ToSet(incoming) = ToSet(arrived) \cup ToSet(left)
      /\ Before(arrived, left)
      /\ Increasing(left) /\ Increasing(queue)
      /\ Before(active, queue) /\ Before(queue, left)
      /\ ToSet(queue) = ToSet(waiting) \cup (ToSet(arrived) \cap S)
  <2>1. /\ arrived \in Seq(Id) /\ left \in Seq(Id)
        /\ ToSet(incoming) = ToSet(arrived) \cup ToSet(left)
        /\ Increasing(arrived) /\ Increasing(left) /\ Before(arrived, left)
    BY <1>4, ArrivedParts
  <2>2. /\ queue \in Seq(Id) /\ Increasing(queue)
        /\ Before(active, queue) /\ Before(queue, left)
        /\ Queued(queue, arrived, S)
    <3>1. queue \in Seq(Id) /\ Increasing(queue)
      BY <1>4, <2>1, ArrivedInOrder
    <3>2. Before(active, queue) /\ Before(queue, left)
      BY <1>4, <2>1, ArrivedInOrder
    <3>3. Queued(queue, arrived, S)
      BY <1>4, <2>1, ArrivedInOrder
    <3>. QED
      BY <3>1, <3>2, <3>3
  <2>. QED
    BY <2>1, <2>2 DEF Queued
<1>6. Booked(reservations, used, ToSet(active)) /\ DOMAIN reservations = ToSet(active)
  BY <1>3 DEF Reserving, Booked
<1>7. v \in Admissions /\ LookedAt(v, ToSet(queue))
  BY <1>4, <1>5, <1>6, AdmissionGood DEF Ordered
<1>8. v.active \in Seq(Id) /\ v.waiting \in Seq(Id) /\ v.rejected \in SUBSET Id
  BY <1>7 DEF Admissions
<1>9. /\ Increasing(v.active) /\ Increasing(v.waiting) /\ Before(v.active, v.waiting)
      /\ ToSet(active) \subseteq ToSet(v.active)
      /\ ToSet(v.active) \cup ToSet(v.waiting) \cup v.rejected = ToSet(active) \cup ToSet(queue)
      /\ v.rejected \subseteq ToSet(queue)
      /\ v.rejected \cap ToSet(v.active) = {} /\ v.rejected \cap ToSet(v.waiting) = {}
      /\ Booked(v.reservations, v.used, ToSet(v.active))
  BY <1>7 DEF LookedAt
<1>10. RequestsOK'
  BY <1>2, <1>3, <1>5, <1>8 DEF RequestsOK
<1>11. DeliveryOK' /\ PrefilledOK'
  BY <1>3 DEF DeliveryOK, PrefilledOK
<1>12. Ordered'
  <2>1. Before(v.active, left) /\ Before(v.waiting, left)
    <3>1. Before(active, left)
      BY <1>5 DEF Ordered, Before
    <3>. QED
      BY <1>5, <1>9, <3>1 DEF Before
  <2>. QED
    BY <1>2, <1>5, <1>9, <2>1 DEF Ordered
<1>13. Unresolved'
  <2>. SUFFICES ASSUME NEW r \in Id
                PROVE  r \in ToSet(v.active) \cup ToSet(v.waiting) \cup ToSet(left) <=> outcome'[r] = ""
    <3>1. ToSet(v.active) \cup ToSet(v.waiting) \cup ToSet(left) \subseteq Id
      BY <1>5, <1>8, QueueIs
    <3>. QED
      BY <1>2, <3>1 DEF Unresolved
  <2>1. Contains(arrived, r) <=> r \in ToSet(arrived)
    BY <1>5, ContainsIs
  <2>2. outcome'[r] = IF r \in ToSet(arrived) /\ r \notin S THEN "too large"
                      ELSE IF r \in v.rejected THEN "unavailable" ELSE outcome[r]
    BY <1>2, <1>4, <2>1
  <2>3. r \in ToSet(active) \cup ToSet(waiting) \cup ToSet(arrived) \cup ToSet(left) <=> outcome[r] = ""
    BY <1>5 DEF Unresolved
  <2>4. ASSUME r \in ToSet(arrived) PROVE r \notin ToSet(active) /\ r \notin ToSet(waiting) /\ r \notin ToSet(left)
    <3>1. r \in ToSet(incoming) /\ r \in Nat
      BY <1>5, <2>4, SchedulerAssumption DEF Id
    <3>2. ~(r < r)
      BY <3>1
    <3>. QED
      BY <1>5, <2>4, <3>1, <3>2 DEF Ordered, Before
  <2>5. ASSUME r \in ToSet(left) PROVE r \notin ToSet(queue)
    <3>1. ~(r < r)
      <4>1. r \in Nat
        BY SchedulerAssumption DEF Id
      <4>. QED
        BY <4>1
    <3>. QED
      BY <1>5, <2>5, <3>1 DEF Before
  <2>6. "too large" # "" /\ "unavailable" # ""
    OBVIOUS
  <2>. QED
    BY <1>5, <1>9, <2>2, <2>3, <2>4, <2>5, <2>6
<1>14. ServingOK'
  <2>1. outcome' \in [Id -> {"", "too large", "unavailable", "completed"}]
    BY <1>2 DEF ServingOK
  <2>2. at' \in {"arrivals", "work", "done", "error"}
    BY <1>2 DEF CleanedUp
  <2>. QED
    BY <1>3, <2>1, <2>2 DEF ServingOK
<1>15. CompletedOK'
  <2>. SUFFICES ASSUME NEW r \in Id PROVE outcome'[r] = "completed" <=> Len(delivered[r]) = wanted[r]
    BY <1>3 DEF CompletedOK
  <2>1. Contains(arrived, r) <=> r \in ToSet(arrived)
    BY <1>5, ContainsIs
  <2>2. outcome[r] = "completed" <=> Len(delivered[r]) = wanted[r]
    BY DEF CompletedOK
  <2>3. outcome'[r] = outcome[r] \/ (outcome'[r] \in {"too large", "unavailable"} /\ r \in ToSet(arrived) \cup ToSet(queue))
    BY <1>2, <1>9, <2>1
  <2>4. CASE outcome'[r] = outcome[r]
    BY <2>2, <2>4
  <2>5. CASE outcome'[r] \in {"too large", "unavailable"} /\ r \in ToSet(arrived) \cup ToSet(queue)
    <3>1. outcome[r] = ""
      BY <1>5, <2>5 DEF Unresolved
    <3>. QED
      BY <2>2, <2>5, <3>1
  <2>. QED
    BY <2>3, <2>4, <2>5
<1>16. CASE CleanedUp("error")
  <2>1. /\ WorkerOK' /\ at' = "error" /\ Booked(reservations', used', {})
        /\ DOMAIN worker'.states = {}
    BY <1>3, <1>16, CleanedUpWell
  <2>2. Reserving'
    BY <1>3, <2>1, ReservingNext
  <2>. QED
    BY <1>10, <1>11, <1>12, <1>13, <1>14, <1>15, <2>1, <2>2
<1>17. CASE /\ at' \in {"arrivals", "work"} /\ UNCHANGED worker
            /\ reservations' = v.reservations /\ used' = v.used
  <2>1. WorkerOK'
    BY <1>3, <1>17 DEF WorkerOK
  <2>2. DOMAIN worker.states \subseteq ToSet(active)
    BY <1>6 DEF Reserving
  <2>3. DOMAIN v.reservations = ToSet(v.active)
    BY <1>9 DEF Booked
  <2>4. Reserving'
    BY <1>2, <1>3, <1>9, <1>17, <2>2, <2>3, ReservingNext
  <2>. QED
    BY <1>10, <1>11, <1>12, <1>13, <1>14, <1>15, <2>1, <2>4
<1>. QED
  BY <1>2, <1>16, <1>17

------------------------------------------------------------------------------
\* A step of the reserving schedule

\* Reservations that are released.
LEMMA BookedLess ==
  ASSUME NEW m, NEW n, NEW S, IsFiniteSet(S), Booked(m, n, S), NEW T \in SUBSET S
  PROVE  Booked(Without(m, T), n - SumFunctionOnSet(m, T), S \ T)
<1>. DEFINE f == Without(m, T)
            k == SumFunctionOnSet(m, T)
<1>1. /\ m \in PartialMaps(Id, Nat) /\ DOMAIN m = S /\ \A x \in S : m[x] = RequiredBlocks(x)
      /\ n = SumFunction(m) /\ n \in 0 .. Blocks
  BY DEF Booked
<1>2. m \in [S -> Nat] /\ S \subseteq Id
  BY <1>1, MapsAre
<1>3. DOMAIN f = S \ T /\ \A x \in S \ T : f[x] = m[x]
  BY <1>1 DEF Without
<1>4. f \in PartialMaps(Id, Nat)
  BY <1>1, MapsWithout
<1>5. /\ SumFunction(m) = SumFunction(f) + SumFunctionOnSet(m, S \cap T)
      /\ SumFunction(f) \in Nat /\ SumFunctionOnSet(m, S \cap T) \in Nat
  <2>1. \A x \in DOMAIN m : m[x] \in Nat
    BY <1>1, <1>2
  <2>. QED
    BY <1>1, <2>1, SumWithout
<1>6. S \cap T = T
  OBVIOUS
<1>7. n = SumFunction(f) + k /\ SumFunction(f) \in Nat /\ k \in Nat
  BY <1>1, <1>5, <1>6
<1>. HIDE DEF f, k
<1>8. n - k = SumFunction(f) /\ n - k \in 0 .. Blocks
  BY <1>1, <1>7, CacheAssumption
<1>. QED
  BY <1>1, <1>3, <1>4, <1>8 DEF Booked, f, k

LEMMA BatchesWell ==
  ASSUME ReservedInv, at = "work", ~WorkFails,
         NEW work, work = BatchWork,
         NEW result,
         result = Stepped(worker, [i \in DOMAIN work |-> BatchItem(Request(work[i].id), work[i])]),
         result.ok,
         \A i \in DOMAIN work : Emits(Request(work[i].id), work[i]) <=> result.tokens[i] # NoToken,
         BatchDone(work, result.tokens, result.worker)
  PROVE  ReservedInv'
<1>. USE DEF ReservedInv
<1>. DEFINE now == Received(delivered, work, result.tokens)
            w == result.worker
            through == Through(work, now)
            ended == Leaving(work, through)
<1>1. work \in Seq(WorkItems) /\ \A i \in 1 .. Len(work) : Batchable(work[i])
  BY BatchWorkGood DEF WorkFails
<1>2. \A i \in 1 .. Len(work) : Servable(work[i]) /\ work[i].start = prefilled[work[i].id]
  BY <1>1 DEF Batchable
<1>3. ServedWell(work, w, now)
  <2>. DEFINE batch == [i \in DOMAIN work |-> BatchItem(Request(work[i].id), work[i])]
  <2>1. batch = [i \in DOMAIN work |-> BatchItem(Request(work[i].id), work[i])] /\ result = Stepped(worker, batch)
    OBVIOUS
  <2>. HIDE DEF batch
  <2>. QED
    BY <1>1, <1>2, <2>1, StepServed
<1>4. /\ delivered' = now
      /\ prefilled' = [r \in Id |-> prefilled[r] + Count(work, r, "prefill")]
      /\ lastPrefill' = LastServed(work)
      /\ active' = Selected(active, Id \ through)
      /\ outcome' = [r \in Id |-> IF r \in through THEN "completed" ELSE outcome[r]]
      /\ \/ /\ worker' = AllReleased(w, ended) /\ at' = "arrivals"
            /\ reservations' = Without(reservations, through)
            /\ used' = used - SumFunctionOnSet(reservations, through)
         \/ CleanedUp("error")
      /\ UNCHANGED <<prompt, wanted, mode, policy, budget, incoming, waiting>>
  BY Zenon DEF BatchDone, Freed, setupVars, AllReleased, Through, Leaving
<1>. HIDE DEF now, w, ended, through
<1>5. /\ \A i, j \in 1 .. Len(work) : work[i].id = work[j].id => i = j
      /\ w \in Settled /\ DOMAIN w.states = DOMAIN worker.states \cup Served(work)
      /\ Served(work) \subseteq ToSet(active) /\ now \in [Id -> Seq(Token)]
      /\ \A x \in Id : Len(now[x]) <= wanted[x] /\ AsAlone(prompt[x], now[x])
      /\ \A x \in DOMAIN w.states : Begins(w.states[x].history, prompt[x] \o now[x])
  BY <1>3 DEF ServedWell
<1>6. through \in SUBSET Served(work)
  BY DEF through, Through
<1>7. active \in Seq(Id) /\ active \in Seq(Nat) /\ ToSet(active) \subseteq Id
  <2>1. active \in Seq(Id)
    BY DEF RequestsOK
  <2>. QED
    BY <2>1, IdsAreNumbers, QueueIs
<1>8. active' \in Seq(Id) /\ ToSet(active') = ToSet(active) \ through
  <2>1. active' \in Seq(Id) /\ ToSet(active') = ToSet(active) \cap (Id \ through)
    BY <1>4, <1>7, SelectedFacts
  <2>. QED
    BY <1>7, <2>1
<1>9. prefilled' \in [Id -> Nat] /\ \A r \in Id : prefilled'[r] <= Len(prompt[r])
  <2>1. \A r \in Id : prefilled'[r] \in Nat /\ prefilled'[r] <= Len(prompt[r])
    BY <1>1, <1>2, <1>4, <1>5, PrefilledMore
  <2>. QED
    BY <1>4, <2>1
<1>10. RequestsOK' /\ PrefilledOK'
  BY <1>4, <1>5, <1>8, <1>9 DEF RequestsOK, PrefilledOK
<1>11. DeliveryOK' /\ CompletedOK'
  <2>1. \A r \in Id : outcome'[r] = "completed" <=> Len(now[r]) = wanted[r]
    <3>. DEFINE marks == outcome'
    <3>1. marks = [r \in Id |-> IF r \in through THEN "completed" ELSE outcome[r]]
      BY <1>4
    <3>2. through = Through(work, now)
      BY DEF through
    <3>. HIDE DEF marks
    <3>3. \A r \in Id : marks[r] = "completed" <=> Len(now[r]) = wanted[r]
      BY <1>1, <1>3, <3>1, <3>2, ThroughIs
    <3>. QED
      BY <3>3 DEF marks
  <2>. QED
    BY <1>4, <1>5, <2>1 DEF DeliveryOK, CompletedOK
<1>12. Ordered'
  <2>1. Increasing(active')
    BY <1>4, <1>7, IncreasingSelected DEF Ordered
  <2>2. Before(active', waiting) /\ Before(active', incoming)
    BY <1>8 DEF Ordered, Before
  <2>. QED
    BY <1>4, <2>1, <2>2 DEF Ordered
<1>13. Unresolved'
  <2>. SUFFICES ASSUME NEW r \in Id
                PROVE  r \in ToSet(active') \cup ToSet(waiting) \cup ToSet(incoming) <=> outcome'[r] = ""
    <3>1. waiting \in Seq(Id) /\ incoming \in Seq(Id)
      BY DEF RequestsOK
    <3>2. ToSet(active') \cup ToSet(waiting) \cup ToSet(incoming) \subseteq Id
      BY <1>8, <3>1, QueueIs
    <3>. QED
      BY <1>4, <3>2 DEF Unresolved
  <2>1. ASSUME r \in through PROVE r \in ToSet(active) /\ r \notin ToSet(waiting) /\ r \notin ToSet(incoming)
    <3>1. r \in Nat /\ r \in ToSet(active)
      BY <1>5, <1>6, <2>1, SchedulerAssumption DEF Id
    <3>2. ~(r < r)
      BY <3>1
    <3>. QED
      BY <3>1, <3>2 DEF Ordered, Before
  <2>2. outcome'[r] = IF r \in through THEN "completed" ELSE outcome[r]
    BY <1>4
  <2>3. r \in ToSet(active) \cup ToSet(waiting) \cup ToSet(incoming) <=> outcome[r] = ""
    BY DEF Unresolved
  <2>4. "completed" # ""
    OBVIOUS
  <2>. QED
    BY <1>8, <2>1, <2>2, <2>3, <2>4
<1>14. lastPrefill' \in SUBSET Id /\ (lastPrefill' = {} \/ \E r \in Id : lastPrefill' = {r})
  <2>1. CASE work # <<>> /\ Last(work).kind = "prefill"
    <3>1. lastPrefill' = {Last(work).id}
      BY <1>4, <2>1 DEF LastServed
    <3>2. Len(work) \in 1 .. Len(work) /\ Last(work) = work[Len(work)]
      BY <1>1, <2>1 DEF Last
    <3>3. Last(work).id \in Id
      BY <1>2, <1>7, <3>2 DEF Servable
    <3>. QED
      BY <3>1, <3>3
  <2>2. CASE ~(work # <<>> /\ Last(work).kind = "prefill")
    <3>1. lastPrefill' = lastPrefill
      BY <1>4, <2>2 DEF LastServed
    <3>. QED
      BY <3>1 DEF ServingOK
  <2>. QED
    BY <2>1, <2>2
<1>15. ServingOK'
  <2>1. outcome' \in [Id -> {"", "too large", "unavailable", "completed"}]
    BY <1>4 DEF ServingOK
  <2>2. at' \in {"arrivals", "work", "done", "error"}
    BY <1>4 DEF CleanedUp
  <2>. QED
    BY <1>14, <2>1, <2>2 DEF ServingOK
<1>16. Booked(reservations, used, ToSet(active)) /\ DOMAIN worker.states \subseteq ToSet(active)
  BY DEF Reserving, Booked
<1>17. CASE CleanedUp("error")
  <2>1. /\ WorkerOK' /\ at' = "error" /\ Booked(reservations', used', {})
        /\ DOMAIN worker'.states = {}
    BY <1>17, CleanedUpWell
  <2>2. Reserving'
    BY <1>4, <2>1, ReservingNext
  <2>. QED
    BY <1>10, <1>11, <1>12, <1>13, <1>15, <2>1, <2>2
<1>18. CASE /\ worker' = AllReleased(w, ended) /\ at' = "arrivals"
            /\ reservations' = Without(reservations, through)
            /\ used' = used - SumFunctionOnSet(reservations, through)
  <2>1. /\ worker' \in Settled /\ DOMAIN worker'.states = DOMAIN w.states \ through
        /\ \A x \in DOMAIN worker'.states : worker'.states[x] = w.states[x]
    <3>1. worker' = AllReleased(w, Leaving(work, through))
      BY <1>18 DEF ended
    <3>2. Served(work) \subseteq DOMAIN w.states /\ w \in Settled /\ work \in Seq(WorkItems)
      BY <1>1, <1>5
    <3>3. \A i, j \in 1 .. Len(work) : work[i].id = work[j].id => i = j
      BY <1>5
    <3>. DEFINE v == worker'
    <3>4. v = AllReleased(w, Leaving(work, through))
      BY <3>1
    <3>. HIDE DEF v
    <3>5. v \in Settled /\ DOMAIN v.states = DOMAIN w.states \ through
      BY <1>6, <3>2, <3>3, <3>4, EndedGood
    <3>6. \A x \in DOMAIN v.states : v.states[x] = w.states[x]
      BY <1>6, <3>2, <3>3, <3>4, EndedGood
    <3>. QED
      BY <3>5, <3>6 DEF v
  <2>2. DOMAIN w.states \subseteq Id
    BY <1>5, <1>7, <1>16
  <2>3. WorkerOK'
    BY <1>4, <1>5, <2>1, <2>2 DEF WorkerOK
  <2>4. Booked(reservations', used', ToSet(active'))
    <3>1. IsFiniteSet(ToSet(active))
      BY <1>7, QueueFinite
    <3>2. through \in SUBSET ToSet(active)
      BY <1>5, <1>6
    <3>. QED
      BY <1>8, <1>16, <1>18, <3>1, <3>2, BookedLess
  <2>5. DOMAIN worker'.states \subseteq ToSet(active')
    BY <1>5, <1>8, <1>16, <2>1
  <2>6. DOMAIN reservations' = ToSet(active')
    BY <2>4 DEF Booked
  <2>7. Reserving'
    BY <1>4, <1>18, <2>4, <2>5, <2>6, ReservingNext
  <2>. QED
    BY <1>10, <1>11, <1>12, <1>13, <1>15, <2>3, <2>7
<1>. QED
  BY <1>4, <1>17, <1>18

------------------------------------------------------------------------------
\* The reserving schedule

LEMMA EndsWell ==
  ASSUME ReservedInv, EndSchedule
  PROVE  ReservedInv'
<1>. USE DEF ReservedInv
<1>1. /\ at = "arrivals" /\ CleanedUp("done")
      /\ UNCHANGED <<prompt, wanted, mode, policy, budget, incoming, waiting, active>>
      /\ UNCHANGED <<prefilled, delivered, lastPrefill, outcome>>
  BY DEF EndSchedule, setupVars, queueVars, servedVars
<1>2. /\ WorkerOK' /\ at' = "done" /\ Booked(reservations', used', {})
      /\ DOMAIN worker'.states = {}
  BY <1>1, CleanedUpWell
<1>3. ToSet(active) = {}
  <2>1. active \in Seq(Id) /\ waiting \in Seq(Id) /\ incoming \in Seq(Id)
    BY DEF RequestsOK
  <2>2. incoming \o waiting \o active = <<>>
    BY DEF EndSchedule
  <2>. DEFINE p == incoming \o waiting
              q == p \o active
  <2>3. p \in Seq(Id)
    BY <2>1
  <2>. HIDE DEF p
  <2>4. ToSet(q) = ToSet(p) \cup ToSet(active)
    BY <2>1, <2>3, JoinQueues
  <2>5. q = <<>>
    BY <2>2 DEF p
  <2>. HIDE DEF q
  <2>6. ToSet(q) = {}
    BY <2>5, EmptyQueue
  <2>. QED
    BY <2>4, <2>6
<1>4. Reserving'
  BY <1>1, <1>2, <1>3, ReservingNext
<1>5. RequestsOK' /\ PrefilledOK' /\ CompletedOK'
  BY <1>1 DEF RequestsOK, PrefilledOK, CompletedOK
<1>6. DeliveryOK' /\ Ordered' /\ Unresolved'
  BY <1>1 DEF DeliveryOK, Ordered, Unresolved
<1>7. ServingOK'
  BY <1>1, <1>2 DEF ServingOK
<1>. QED
  BY <1>2, <1>4, <1>5, <1>6, <1>7

LEMMA BreaksWell ==
  ASSUME ReservedInv, at = "work", CleanedUp("error"),
         UNCHANGED <<setupVars, queueVars, servedVars, outcome>>
  PROVE  ReservedInv'
<1>. USE DEF ReservedInv
<1>1. /\ UNCHANGED <<prompt, wanted, mode, policy, budget, incoming, waiting, active>>
      /\ UNCHANGED <<prefilled, delivered, lastPrefill, outcome>>
  BY DEF setupVars, queueVars, servedVars
<1>2. /\ WorkerOK' /\ at' = "error" /\ Booked(reservations', used', {})
      /\ DOMAIN worker'.states = {}
  BY CleanedUpWell
<1>3. Reserving'
  BY <1>1, <1>2, ReservingNext
<1>4. RequestsOK' /\ PrefilledOK' /\ CompletedOK'
  BY <1>1 DEF RequestsOK, PrefilledOK, CompletedOK
<1>5. DeliveryOK' /\ Ordered' /\ Unresolved'
  BY <1>1 DEF DeliveryOK, Ordered, Unresolved
<1>6. ServingOK'
  BY <1>1, <1>2 DEF ServingOK
<1>. QED
  BY <1>2, <1>3, <1>4, <1>5, <1>6

LEMMA ReservedInvNext == ReservedInv /\ [ReservedNext]_reservedVars => ReservedInv'
<1>. SUFFICES ASSUME ReservedInv, [ReservedNext]_reservedVars PROVE ReservedInv'
  OBVIOUS
<1>1. CASE Admit
  BY <1>1, AdmitsWell
<1>2. CASE RunBatch
  <2>. DEFINE work == BatchWork
              result == Stepped(worker, [i \in DOMAIN work |-> BatchItem(Request(work[i].id), work[i])])
  <2>1. /\ at = "work"
        /\ \/ /\ ~WorkFails /\ result.ok
              /\ \A i \in DOMAIN work :
                    Emits(Request(work[i].id), work[i]) <=> result.tokens[i] # NoToken
              /\ BatchDone(work, result.tokens, result.worker)
           \/ CleanedUp("error") /\ UNCHANGED <<setupVars, queueVars, servedVars, outcome>>
    BY <1>2, Zenon DEF RunBatch
  <2>2. work = BatchWork
        /\ result = Stepped(worker, [i \in DOMAIN work |-> BatchItem(Request(work[i].id), work[i])])
    OBVIOUS
  <2>. HIDE DEF work, result
  <2>3. CASE /\ ~WorkFails /\ result.ok
             /\ \A i \in DOMAIN work :
                   Emits(Request(work[i].id), work[i]) <=> result.tokens[i] # NoToken
             /\ BatchDone(work, result.tokens, result.worker)
    BY <2>1, <2>2, <2>3, BatchesWell
  <2>4. CASE CleanedUp("error") /\ UNCHANGED <<setupVars, queueVars, servedVars, outcome>>
    BY <2>1, <2>4, BreaksWell
  <2>. QED
    BY <2>1, <2>3, <2>4
<1>3. CASE EndSchedule
  BY <1>3, EndsWell
<1>4. CASE UNCHANGED reservedVars
  <2>1. /\ UNCHANGED <<prompt, wanted, budget, incoming, waiting, active, prefilled, delivered>>
        /\ UNCHANGED <<lastPrefill, outcome, worker, at, reservations, used>>
    BY <1>4 DEF reservedVars, setupVars, queueVars, servedVars, cacheVars
  <2>2. RequestsOK' /\ PrefilledOK' /\ CompletedOK'
    BY <2>1 DEF ReservedInv, RequestsOK, PrefilledOK, CompletedOK
  <2>3. WorkerOK' /\ DeliveryOK' /\ Ordered' /\ Unresolved' /\ ServingOK'
    BY <2>1 DEF ReservedInv, WorkerOK, DeliveryOK, Ordered, Unresolved, ServingOK
  <2>4. Reserving'
    <3>1. /\ Booked(reservations, used, IF at = "error" THEN {} ELSE ToSet(active))
          /\ DOMAIN worker.states \subseteq DOMAIN reservations
      BY DEF ReservedInv, Reserving
    <3>2. /\ Booked(reservations', used', IF at' = "error" THEN {} ELSE ToSet(active'))
          /\ DOMAIN worker'.states \subseteq DOMAIN reservations'
      BY <2>1, <3>1
    <3>. QED
      BY <2>1, <3>2, ReservingNext
  <2>. QED
    BY <2>2, <2>3, <2>4 DEF ReservedInv
<1>. QED
  BY <1>1, <1>2, <1>3, <1>4 DEF ReservedNext

LEMMA ReservedInvAlways == ReservedSpec => []ReservedInv
<1>1. ReservedInit => ReservedInv
  BY ReservedInvInit
<1>2. ReservedInv /\ [ReservedNext]_reservedVars => ReservedInv'
  BY ReservedInvNext
<1>. QED
  BY <1>1, <1>2, PTL DEF ReservedSpec

\* What a request reserved covers its block table.
LEMMA TablesCovered ==
  ASSUME ReservedInv, NEW r \in DOMAIN worker.cache.tables
  PROVE  r \in DOMAIN reservations /\ Len(worker.cache.tables[r]) <= reservations[r]
<1>1. /\ RequestsOK /\ WorkerOK /\ DeliveryOK /\ Reserving
  BY DEF ReservedInv
<1>. DEFINE c == worker.cache
            h == worker.states[r].history
            p == prompt[r]
            d == delivered[r]
<1>2. /\ worker \in Workers /\ r \in DOMAIN worker.states /\ Fitted(c)
      /\ Length(c, r) = Len(h)
  BY <1>1 DEF WorkerOK, Settled, Sound
<1>3. r \in DOMAIN reservations /\ r \in Id /\ reservations[r] = RequiredBlocks(r)
  BY <1>1, <1>2 DEF Reserving, Booked, WorkerOK
<1>4. Len(c.tables[r]) = BlocksFor(Len(h))
  BY <1>2 DEF Fitted, Length
<1>5. h \in Seq(Token) /\ p \in Seq(Token) /\ d \in Seq(Token) /\ wanted[r] \in Nat
  <2>1. wanted[r] \in Nat
    BY <1>1, <1>3, RequestIs DEF Token
  <2>. QED
    BY <1>1, <1>2, <1>3, <2>1, RequestIs, WorkerFields
<1>6. Begins(h, p \o d) /\ Len(d) <= wanted[r]
  BY <1>1, <1>2, <1>3 DEF WorkerOK, DeliveryOK
<1>7. RequiredBlocks(r) = BlocksFor(Len(p) + wanted[r])
  BY <1>1, <1>3, RequiredIs
<1>. HIDE DEF h, p, d, c
<1>8. Len(p \o d) = Len(p) + Len(d) /\ Len(p) \in Nat /\ Len(d) \in Nat /\ Len(h) \in Nat
  BY <1>5
<1>. DEFINE n == Len(p) + wanted[r]
<1>9. Len(h) <= n /\ n \in Nat /\ Len(h) \in Nat
  BY <1>5, <1>6, <1>8 DEF Begins
<1>. HIDE DEF n
<1>10. BlocksFor(Len(h)) <= BlocksFor(n)
  BY <1>9, BlocksEnough
<1>. QED
  BY <1>3, <1>4, <1>7, <1>10 DEF n, c

\* Whatever arrives, fits, waits, is rejected or completed, exactly the active requests
\* have reserved (KVCache.reserve, release), the reservations add up to used_blocks, and
\* no block table the worker keeps outgrows the reservation of its request.
THEOREM ReservationsAlwaysCoverTables == ReservedSpec => []ReservationsCoverTables
<1>1. ASSUME ReservedInv PROVE ReservationsCoverTables
  <2>1. /\ {incoming, waiting, active} \subseteq Seq(Id) /\ delivered \in [Id -> Seq(Nat \ {0})]
        /\ \A r \in Id : prefilled[r] \in 0 .. Len(prompt[r])
    <3>1. RequestsOK /\ PrefilledOK
      BY <1>1 DEF ReservedInv
    <3>2. \A r \in Id : prefilled[r] \in Nat /\ Len(prompt[r]) \in Nat /\ prefilled[r] <= Len(prompt[r])
      BY <3>1, RequestIs DEF RequestsOK, PrefilledOK
    <3>3. \A r \in Id : prefilled[r] \in 0 .. Len(prompt[r])
      BY <3>2
    <3>. QED
      BY <3>1, <3>3 DEF RequestsOK, Token
  <2>2. lastPrefill \subseteq Id /\ Cardinality(lastPrefill) <= 1
    <3>1. lastPrefill = {} \/ \E r \in Id : lastPrefill = {r}
      BY <1>1 DEF ReservedInv, ServingOK
    <3>2. CASE lastPrefill = {}
      <4>1. Cardinality({}) = 0
        BY FS_EmptySet
      <4>. QED
        BY <3>2, <4>1
    <3>3. CASE \E r \in Id : lastPrefill = {r}
      <4>1. PICK r \in Id : lastPrefill = {r}
        BY <3>3
      <4>2. Cardinality({r}) = 1
        BY FS_Singleton
      <4>. QED
        BY <4>1, <4>2
    <3>. QED
      BY <3>1, <3>2, <3>3
  <2>3. /\ used = SumFunction(reservations) /\ used \in 0 .. Blocks
        /\ DOMAIN reservations = IF at = "error" THEN {} ELSE ToSet(active)
    BY <1>1 DEF ReservedInv, Reserving, Booked
  <2>4. DOMAIN reservations \subseteq Id
    BY <2>1, <2>3, QueueIs
  <2>5. ReservedTypeOK
    BY <1>1, <2>1, <2>2, <2>3, <2>4 DEF ReservedTypeOK, ReservedInv, ServingOK
  <2>. QED
    BY <1>1, <2>3, <2>5, TablesCovered DEF ReservationsCoverTables
<1>. QED
  BY <1>1, ReservedInvAlways, PTL

\* The reserving schedule's worker, too, finds through every block table and snapshot the
\* vectors of the tokens it stands for, although here snapshots hold blocks that nobody
\* reserved.
THEOREM ReservedPrefixesIntact == ReservedSpec => []PrefixesIntact
<1>1. ASSUME ReservedInv PROVE PrefixesIntact
  BY <1>1, SettledReads DEF ReservedInv, WorkerOK, PrefixesIntact
<1>. QED
  BY <1>1, ReservedInvAlways, PTL

\* _schedule delivers to a request what TinyDecoder::reference computes for it alone, in
\* cohorts or continuously, however its prompt was cut and whatever it was batched with,
\* and completes it exactly when it has all of it.
THEOREM ReservedDeliveredAsAlone == ReservedSpec => []DeliveredAsAlone
<1>1. ASSUME ReservedInv PROVE DeliveredAsAlone
  BY <1>1, ServedAsAlone DEF ReservedInv, DeliveredAsAlone
<1>. QED
  BY <1>1, ReservedInvAlways, PTL

\* Nobody passes a head of the queue that waits: whatever arrives when and whatever
\* leaves, _schedule serves in the order of arrival.
THEOREM ReservedOldestFirst == ReservedSpec => []OldestFirst
<1>1. ASSUME ReservedInv PROVE OldestFirst
  <2>. DEFINE a == active
              w == waiting
              q == incoming
              S == {r \in Id : outcome[r] = ""}
              all == [i \in Id |-> i]
  <2>1. a \in Seq(Id) /\ w \in Seq(Id) /\ q \in Seq(Id)
    BY <1>1 DEF ReservedInv, RequestsOK
  <2>2. /\ Increasing(a) /\ Increasing(w) /\ Increasing(q)
        /\ Before(a, w) /\ Before(a, q) /\ Before(w, q)
        /\ ToSet(a) \cup ToSet(w) \cup ToSet(q) = S
    BY <1>1 DEF ReservedInv, Ordered, Unresolved
  <2>3. OldestFirst <=> a \o w \o q = Selected(all, S)
    BY DEF OldestFirst
  <2>4. all \in Seq(Id) /\ Increasing(all) /\ ToSet(all) = Id
    <3>1. Id = 1 .. Ids /\ Ids \in Nat
      BY SchedulerAssumption DEF Id
    <3>2. DOMAIN all = 1 .. Ids /\ \A i \in 1 .. Ids : all[i] = i
      BY <3>1
    <3>3. all \in Seq(Id) /\ Len(all) = Ids
      BY <3>1, <3>2
    <3>4. ToSet(all) = Id
      BY <3>1, <3>2 DEF ToSet
    <3>. QED
      BY <3>1, <3>2, <3>3, <3>4 DEF Increasing
  <2>5. S \subseteq Id
    OBVIOUS
  <2>. HIDE DEF a, w, q, S, all
  <2>6. a \in Seq(Nat) /\ w \in Seq(Nat) /\ q \in Seq(Nat) /\ all \in Seq(Nat)
    BY <2>1, <2>4, IdsAreNumbers
  <2>. DEFINE p == a \o w
              s == p \o q
              t == Selected(all, S)
  <2>7. p \in Seq(Nat) /\ ToSet(p) = ToSet(a) \cup ToSet(w) /\ Increasing(p)
    BY <2>2, <2>6, JoinQueues, IncreasingJoin
  <2>. HIDE DEF p
  <2>8. Before(p, q)
    BY <2>2, <2>7 DEF Before
  <2>9. s \in Seq(Nat) /\ ToSet(s) = ToSet(p) \cup ToSet(q) /\ Increasing(s)
    BY <2>2, <2>6, <2>7, <2>8, JoinQueues, IncreasingJoin
  <2>. HIDE DEF s
  <2>10. t \in Seq(Nat) /\ ToSet(t) = ToSet(all) \cap S
    BY <2>6, SelectedFacts
  <2>11. Increasing(t)
    BY <2>4, <2>6, IncreasingSelected
  <2>. HIDE DEF t
  <2>12. ToSet(s) = ToSet(t)
    BY <2>2, <2>4, <2>5, <2>7, <2>9, <2>10
  <2>13. s = t
    BY <2>9, <2>10, <2>11, <2>12, IncreasingSame
  <2>. QED
    BY <2>3, <2>13 DEF s, t, p
<1>. QED
  BY <1>1, ReservedInvAlways, PTL
================================================================================
