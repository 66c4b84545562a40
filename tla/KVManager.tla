------------------------------ MODULE KVManager ------------------------------
(***************************************************************************)
(* The paged KV cache of MiniPrefix: sequences with block tables, prefix   *)
(* sharing, copy-on-write appends and page reservations                    *)
(* (miniprefix/src/kv/kv_manager.cpp, paged_kv.cpp, prefix_cache.cpp), and *)
(* the payload a backend writes through it                                 *)
(* (miniprefix/src/backend/cpu/llama_runner.cpp).                          *)
(*                                                                         *)
(* The KV vector of a token depends on every token before it, so a slot    *)
(* of a page holds the whole token history up to its position; Junk is     *)
(* the content of a slot nobody wrote since its page was handed out.       *)
(*                                                                         *)
(* The prefix index is a map from a token history to the page that holds   *)
(* its last, possibly partial, page of KV, with the LRU order of its       *)
(* entries.  The API is single-threaded: an append transaction             *)
(* (`appends`) or a publication loop (`publishing`) shuts out every other  *)
(* call until it ends.                                                     *)
(***************************************************************************)
EXTENDS KvBlockPool, SequencesExt, Maps

CONSTANTS
    Id,             \* request identifiers
    Token,          \* the vocabulary, a set of naturals
    BlockTokens,    \* tokens per page
    Context,        \* longest sequence the manager accepts
    CacheBlocks,    \* most pages the prefix index may lease
    Texts,          \* bound: the token histories the callers submit
    MaxInput,       \* bound: tokens of one append
    ReserveTokens   \* bound: the request lengths that reserve pages

\* What the constructors of KvBlockPool and KVManager check.
ASSUME ManagerAssumption ==
    /\ Token \subseteq Nat
    /\ BlockTokens \in Nat \ {0}
    /\ Context \in Nat \ {0}
    /\ CacheBlocks \in 0 .. Cardinality(Page)
    /\ Texts \subseteq Seq(Token)
    /\ MaxInput \in Nat \ {0}
    /\ ReserveTokens \subseteq 1 .. Context

VARIABLES
    pool,           \* pool_: free list and reference counters
    sequences,      \* sequences_: live id -> its block table and token history
    reservations,   \* reservations_: id -> pages reserved for the request
    lease,          \* prefix_: history -> the page the index leases for it
    lru,            \* prefix_: the leased histories, oldest first
    appends,        \* the open append transaction, by id; at most one
    publishing,     \* the publication under way: id -> index of its next page
    payload         \* page -> slot -> the history its KV vector encodes

vars == <<pool, sequences, reservations, lease, lru, appends, publishing, payload>>

------------------------------------------------------------------------------
\* Histories and pages

History == Seq(Token)
Junk == <<>>
Slot == 0 .. BlockTokens - 1

Prefix(h, n) == SubSeq(h, 1, n)

PagesFor(n) == (n + BlockTokens - 1) \div BlockTokens

\* A page nobody wrote to yet.
Blank == [s \in Slot |-> Junk]

\* The content of free pages is unspecified.
Scrub(content, freePages) ==
    [p \in Page |-> IF p \in freePages THEN Blank ELSE content[p]]

Used(id) == Len(sequences[id].tokens)
Empty(seq) == seq.blocks = <<>> /\ seq.tokens = <<>>
EmptySequence == [blocks |-> <<>>, tokens |-> <<>>]

\* KvBlockPool::offset: where position n (from 1) of a block table lives.
PageOf(blocks, n) == blocks[(n - 1) \div BlockTokens + 1]
SlotOf(n) == (n - 1) % BlockTokens

\* What a reader finds in the first n positions of a block table.
ReadKV(blocks, n) == [i \in 1 .. n |-> payload[PageOf(blocks, i)][SlotOf(i)]]

\* The KV of history h, position by position.
CausalKV(h) == [i \in 1 .. Len(h) |-> Prefix(h, i)]

------------------------------------------------------------------------------
\* Who holds which page

SequenceLeases(id, blocks) ==
    {[owner |-> <<"sequence", id, i>>, page |-> blocks[i]] : i \in 1 .. Len(blocks)}
CacheLeases(hs) == {[owner |-> <<"cache", h>>, page |-> lease[h]] : h \in hs}
\* A transaction keeps the shared tail it copies from leased until it commits.
AppendLeases(id) ==
    {[owner |-> <<"append", id>>, page |-> c.source] : c \in ToSet(appends[id].copy)}

AllSequenceLeases(ids) == UNION {SequenceLeases(id, sequences[id].blocks) : id \in ids}
AllAppendLeases == UNION {AppendLeases(id) : id \in DOMAIN appends}

Leases ==
    AllSequenceLeases(DOMAIN sequences) \cup CacheLeases(DOMAIN lease) \cup AllAppendLeases

\* Mutant: an open append transaction does not shut out other calls.
IdleButForAppends == DOMAIN publishing = {}

\* require_idle, and the loop of publish, which nothing can interrupt.
Idle == DOMAIN appends = {} /\ DOMAIN publishing = {}

------------------------------------------------------------------------------
\* Reservations

\* committed_blocks: reservations count in full, other sequences by their pages.
CommittedBlocks ==
    SumFunction(reservations)
    + SumFunction([id \in DOMAIN sequences \ DOMAIN reservations |->
                       Len(sequences[id].blocks)])

\* reserve_request says Ready.
FitsReservation(pages) ==
    pages <= Cardinality(Page) /\ CommittedBlocks + pages <= Cardinality(Page)

\* Mutant: sequences without a reservation grow freely.
BreaksOwnReservationOnly(id, count, required) ==
    id \in DOMAIN reservations /\ count > reservations[id]

\* What reserve_pages checks before it touches the pool: does growing sequence
\* id to `count` pages, `required` of them new, break a reservation?
BreaksReservation(id, count, required) ==
    /\ DOMAIN reservations # {}
    /\ IF id \in DOMAIN reservations
       THEN count > reservations[id]
       ELSE CommittedBlocks + required > Cardinality(Page)

ReserveRequest(id, maxTokens) ==
    /\ Idle
    /\ id \notin DOMAIN sequences \cup DOMAIN reservations
    /\ FitsReservation(PagesFor(maxTokens))
    /\ reservations' = With(reservations, id, PagesFor(maxTokens))
    /\ UNCHANGED <<pool, sequences, lease, lru, appends, publishing, payload>>

\* noexcept and without require_idle: it may run while a transaction is open.
ReleaseReservation(id) ==
    /\ DOMAIN publishing = {}
    /\ id \in DOMAIN reservations
    /\ reservations' = Without(reservations, {id})
    /\ UNCHANGED <<pool, sequences, lease, lru, appends, publishing, payload>>

------------------------------------------------------------------------------
\* Sequences

Create(id) ==
    /\ Idle
    /\ id \notin DOMAIN sequences
    /\ sequences' = With(sequences, id, EmptySequence)
    /\ UNCHANGED <<pool, reservations, lease, lru, appends, publishing, payload>>

\* The target shares every page of the source, the partial tail included.
ForkSequence(source, target) ==
    LET blocks == sequences[source].blocks
    IN  /\ Idle
        /\ source # target
        /\ Empty(sequences[target])
        /\ IF target \in DOMAIN reservations
           THEN Len(blocks) <= reservations[target]
           ELSE CommittedBlocks + Len(blocks) <= Cardinality(Page)
        /\ pool' = Retain(pool, SequenceLeases(target, blocks))
        /\ sequences' = [sequences EXCEPT ![target] = sequences[source]]
        /\ UNCHANGED <<reservations, lease, lru, appends, publishing, payload>>

\* pool_.release: every page of the sequence loses a reference.
ReleasedPool(ids) == Unref(pool, AllSequenceLeases(ids))

ResetSequence(id) ==
    /\ Idle
    /\ pool' = ReleasedPool({id})
    /\ sequences' = [sequences EXCEPT ![id] = EmptySequence]
    /\ payload' = Scrub(payload, pool'.free)
    /\ UNCHANGED <<reservations, lease, lru, appends, publishing>>

Release(id) ==
    /\ Idle
    /\ pool' = ReleasedPool({id})
    /\ sequences' = Without(sequences, {id})
    /\ reservations' = Without(reservations, {id})
    /\ payload' = Scrub(payload, pool'.free)
    /\ UNCHANGED <<lease, lru, appends, publishing>>

Clear ==
    /\ Idle
    /\ pool' = Unref(ReleasedPool(DOMAIN sequences), CacheLeases(DOMAIN lease))
    /\ sequences' = <<>>
    /\ reservations' = <<>>
    /\ lease' = <<>>
    /\ lru' = <<>>
    /\ payload' = Scrub(payload, pool'.free)
    /\ UNCHANGED <<appends, publishing>>

------------------------------------------------------------------------------
\* The prefix index

Leased == DOMAIN lease

\* The last page of a history: the edge that leads to its node.
Edge(h) == SubSeq(h, BlockTokens * (PagesFor(Len(h)) - 1) + 1, Len(h))

\* The leased children of the node of h, a history of whole pages.
Children(h) ==
    {c \in Leased : PagesFor(Len(c)) = PagesFor(Len(h)) + 1 /\ IsPrefix(h, c)}

\* How many tokens two page edges share.
Matched(x, y) == Len(LongestCommonPrefix({x, y}))

\* The candidates of one level of the walk: the child at lower_bound(query)
\* and the one before it.
Neighbours(children, query) ==
    LET after  == {c \in children : ~LexLess(Edge(c), query)}
        before == children \ after
    IN  {c \in after : \A d \in after : ~LexLess(Edge(d), Edge(c))}
        \cup {c \in before : \A d \in before : ~LexLess(Edge(c), Edge(d))}

\* The neighbour that shares most tokens with the query; lower_bound wins a tie,
\* and none is taken when no token matches.
BestMatch(children, query) ==
    {c \in Neighbours(children, query) :
        /\ Matched(Edge(c), query) > 0
        /\ \A d \in Neighbours(children, query) \ {c} :
              \/ Matched(Edge(c), query) > Matched(Edge(d), query)
              \/ /\ Matched(Edge(c), query) = Matched(Edge(d), query)
                 /\ ~LexLess(Edge(c), query)}

\* At least one prompt token stays uncached: its logits are wanted.
ReuseLimit(prompt) == Len(prompt) - 1

\* The whole pages the walk follows: every page edge up to the n-th is leased.
WholePages(prompt) ==
    Max({n \in 0 .. ReuseLimit(prompt) \div BlockTokens :
            \A i \in 1 .. n : Prefix(prompt, i * BlockTokens) \in Leased})

\* Mutant: the tokens of the whole edge count as matched.
MatchedWholeEdge(edge, query) == Len(edge)

\* Tokens shared with the partial match that ends the walk.
MatchedTail(edge, query) == Matched(edge, query)

\* The walk of ExactPrefixCache::reuse: the nodes it touches, in order, and how
\* many prompt tokens their pages cover.
Walk(prompt) ==
    LET whole == WholePages(prompt)
        start == whole * BlockTokens
        nodes == [i \in 1 .. whole |-> Prefix(prompt, i * BlockTokens)]
        query == SubSeq(prompt, start + 1, Min({start + BlockTokens, ReuseLimit(prompt)}))
        best  == BestMatch(Children(Prefix(prompt, start)), query)
    IN  IF best = {}
        THEN [nodes |-> nodes, count |-> start]
        ELSE LET c == CHOOSE x \in best : TRUE
             IN  [nodes |-> Append(nodes, c), count |-> start + MatchedTail(Edge(c), query)]

\* touch, for each of hs in order: they become the newest entries.
Touched(hs) == Selected(lru, ToSet(lru) \ ToSet(hs)) \o hs

\* reuse_prefix.  A result the reservations cannot hold is dropped again, with
\* an error; the touched entries stay the newest.
ReusePrefix(id, prompt) ==
    LET walk   == Walk(prompt)
        blocks == [i \in 1 .. Len(walk.nodes) |-> lease[walk.nodes[i]]]
        shared == IF id \in DOMAIN reservations THEN 0 ELSE Len(blocks)
        over   == \/ id \in DOMAIN reservations /\ Len(blocks) > reservations[id]
                  \/ /\ DOMAIN reservations # {}
                     /\ CommittedBlocks + shared > Cardinality(Page)
    IN  /\ Idle
        /\ prompt # <<>>
        /\ Empty(sequences[id])
        /\ lru' = Touched(walk.nodes)
        /\ IF over
           THEN UNCHANGED <<pool, sequences>>
           ELSE /\ pool' = Retain(pool, SequenceLeases(id, blocks))
                /\ sequences' = [sequences EXCEPT ![id] =
                       [blocks |-> blocks, tokens |-> Prefix(prompt, walk.count)]]
        /\ UNCHANGED <<reservations, lease, appends, publishing, payload>>

\* How many pages of the sequence publish walks over.
PublishCount(id) ==
    Min({Len(sequences[id].blocks), PagesFor(Used(id)), CacheBlocks})

\* cache_prefix: the loop of ExactPrefixCache::publish starts.
CachePrefix(id) ==
    /\ Idle
    /\ PublishCount(id) > 0
    /\ publishing' = With(<<>>, id, 1)
    /\ UNCHANGED <<pool, sequences, reservations, lease, lru, appends, payload>>

\* The history whose last page the i-th round of publish looks at.
PublishKey(id, i) == Prefix(sequences[id].tokens, Min({i * BlockTokens, Used(id)}))

NextRound(id, i) == IF i = PublishCount(id) THEN <<>> ELSE With(<<>>, id, i + 1)

\* The index is at its capacity: a new lease costs the oldest one.
IndexFull == Len(lru) = CacheBlocks

\* The k oldest leases of the index, and the pool once they are evicted.
Victims(k) == {h \in Leased : \E j \in 1 .. k : lru[j] = h}
EvictedPool(k) == Unref(pool, CacheLeases(Victims(k)))

\* A round that finds its page leased already.
PublishKnown(id) ==
    LET i == publishing[id]
        h == PublishKey(id, i)
    IN  /\ h \in Leased
        /\ lru' = Touched(<<h>>)
        /\ publishing' = NextRound(id, i)
        /\ UNCHANGED <<pool, sequences, reservations, lease, appends, payload>>

\* A round that leases the sequence's page, at the cost of the oldest lease
\* when the index is full.
PublishNew(id) ==
    LET i       == publishing[id]
        h       == PublishKey(id, i)
        page    == sequences[id].blocks[i]
        victims == IF IndexFull THEN Victims(1) ELSE {}
        kept    == Leased \ victims
    IN  /\ h \notin Leased
        /\ pool' = Unref(Retain(pool, {[owner |-> <<"cache", h>>, page |-> page]}),
                         CacheLeases(victims))
        /\ lease' = With(Without(lease, victims), h, page)
        /\ lru' = Append(Selected(lru, kept), h)
        /\ payload' = Scrub(payload, pool'.free)
        /\ publishing' = NextRound(id, i)
        /\ UNCHANGED <<sequences, reservations, appends>>

\* Host memory runs out before the round takes its lease: the pages of earlier
\* rounds stay published.
PublishFails(id) ==
    /\ PublishKey(id, publishing[id]) \notin Leased
    /\ publishing' = <<>>
    /\ UNCHANGED <<pool, sequences, reservations, lease, lru, appends, payload>>

ClearPrefixCache ==
    /\ Idle
    /\ pool' = Unref(pool, CacheLeases(Leased))
    /\ lease' = <<>>
    /\ lru' = <<>>
    /\ payload' = Scrub(payload, pool'.free)
    /\ UNCHANGED <<sequences, reservations, appends, publishing>>

------------------------------------------------------------------------------
\* Append transactions

LastBlock(id) == sequences[id].blocks[Len(sequences[id].blocks)]

\* Mutant: the tail is always written in place.
NeverShared(id, refs) == FALSE

\* A partial tail page somebody else holds too must not be written.
SharedTail(id, refs) ==
    Used(id) % BlockTokens # 0 /\ refs[LastBlock(id)] > 1

\* Pages an append must find free: the new ones and the copy of a shared tail.
PagesToFind(id, required, p) == required + (IF SharedTail(id, p.refs) THEN 1 ELSE 0)

\* The loop of reserve_pages evicts one lease after another and ends after k of
\* them: there is room, or nothing is left to evict.
EvictionStopsAt(id, required, k) ==
    LET room(j) == Cardinality(EvictedPool(j).free) >= PagesToFind(id, required, EvictedPool(j))
    IN  /\ \A j \in 0 .. k - 1 : ~room(j)
        /\ room(k) \/ k = Len(lru)

RequiredBlocks(id, n) == Max({0, PagesFor(Used(id) + n) - Len(sequences[id].blocks)})

\* What prepare_append asks of its arguments.
ValidAppend(id, input) ==
    /\ id \in DOMAIN sequences
    /\ input # <<>>
    /\ Len(input) <= Context - Used(id)

\* prepare_append succeeds: evict, take the new pages, and set a private page
\* in the place of a shared tail, whose lease moves to the transaction.
PrepareAppend(id, input) ==
    LET required == RequiredBlocks(id, Len(input))
        blocks   == sequences[id].blocks
        original == Len(blocks)
    IN  /\ Idle
        /\ ~BreaksReservation(id, PagesFor(Used(id) + Len(input)), required)
        /\ \E k \in 0 .. Len(lru) :
              LET left   == EvictedPool(k)
                  needed == PagesToFind(id, required, left)
              IN  /\ EvictionStopsAt(id, required, k)
                  /\ \E fresh \in Injection(1 .. needed, left.free) :
                        LET copy  == IF needed = required THEN <<>>
                                     ELSE <<[source      |-> LastBlock(id),
                                             destination |-> fresh[needed],
                                             valid       |-> Used(id) % BlockTokens]>>
                            table == (IF copy = <<>> THEN blocks
                                      ELSE [blocks EXCEPT ![original] = fresh[needed]])
                                     \o [i \in 1 .. required |-> fresh[i]]
                        IN  /\ pool' = Take(left, SequenceLeases(id, table) \ SequenceLeases(id, blocks))
                            /\ sequences' = [sequences EXCEPT ![id].blocks = table]
                            /\ appends' = With(<<>>, id, [input    |-> input,
                                                         original |-> original,
                                                         copy     |-> copy,
                                                         copied   |-> FALSE,
                                                         written  |-> 0])
                  /\ lease' = Without(lease, Victims(k))
                  /\ lru' = SubSeq(lru, k + 1, Len(lru))
                  /\ payload' = Scrub(payload, pool'.free)
        /\ UNCHANGED <<reservations, publishing>>

\* prepare_append runs out of pages and throws: nothing is taken, but every
\* lease of the index is gone.
PrepareExhausted(id, n) ==
    LET required == RequiredBlocks(id, n)
        k        == Len(lru)
        left     == EvictedPool(k)
    IN  /\ Idle
        /\ ~BreaksReservation(id, PagesFor(Used(id) + n), required)
        /\ EvictionStopsAt(id, required, k)
        /\ Cardinality(left.free) < PagesToFind(id, required, left)
        /\ pool' = left
        /\ lease' = Without(lease, Victims(k))
        /\ lru' = <<>>
        /\ payload' = Scrub(payload, left.free)
        /\ UNCHANGED <<sequences, reservations, appends, publishing>>

\* copy_shared_tail_region with a copier that does not throw: the valid slots
\* of the shared tail reach the private page.
CopySharedTail(id) ==
    LET t == appends[id]
    IN  /\ t.copy # <<>> /\ ~t.copied
        /\ payload' = [payload EXCEPT ![t.copy[1].destination] =
               [s \in Slot |-> IF s < t.copy[1].valid THEN payload[t.copy[1].source][s]
                                                      ELSE @[s]]]
        /\ appends' = [appends EXCEPT ![id].copied = TRUE]
        /\ UNCHANGED <<pool, sequences, reservations, lease, lru, publishing>>

\* The runner writes the KV of the next input token, after it copied the tail.
\* Attention reads every earlier position: the vector encodes the token's
\* history when all of them do, and is Junk when one does not.
WriteToken(id) ==
    LET t    == appends[id]
        n    == Used(id) + t.written
        past == sequences[id].tokens \o Prefix(t.input, t.written)
        read == ReadKV(sequences[id].blocks, n)
        now  == IF read = CausalKV(past) THEN Append(past, t.input[t.written + 1]) ELSE Junk
    IN  /\ t.copy = <<>> \/ t.copied
        /\ t.written < Len(t.input)
        /\ payload' = [payload EXCEPT ![PageOf(sequences[id].blocks, n + 1)][SlotOf(n + 1)] = now]
        /\ appends' = [appends EXCEPT ![id].written = @ + 1]
        /\ UNCHANGED <<pool, sequences, reservations, lease, lru, publishing>>

\* Mutant: the lease on the copied tail is never given back.
CommittedPoolKeepsSource(id) == pool

\* The shared tail's lease, held until now, is given back.
CommittedPool(id) == Unref(pool, AppendLeases(id))

Commit(id) ==
    /\ appends[id].copy = <<>> \/ appends[id].copied
    /\ appends[id].written = Len(appends[id].input)
    /\ pool' = CommittedPool(id)
    /\ sequences' = [sequences EXCEPT ![id].tokens = @ \o appends[id].input]
    /\ payload' = Scrub(payload, pool'.free)
    /\ appends' = <<>>
    /\ UNCHANGED <<reservations, lease, lru, publishing>>

\* The block table as it was before the transaction.
OriginalBlocks(id) ==
    LET t    == appends[id]
        kept == Prefix(sequences[id].blocks, t.original)
    IN  IF t.copy = <<>> THEN kept ELSE [kept EXCEPT ![t.original] = t.copy[1].source]
\* What a transaction wrote is unspecified once it is undone.
Undone(id) ==
    [p \in Page |-> [s \in Slot |->
        IF \E i \in Used(id) + 1 .. Used(id) + appends[id].written :
              PageOf(sequences[id].blocks, i) = p /\ SlotOf(i) = s
        THEN Junk ELSE payload[p][s]]]

\* rollback, called when the runner throws at any point of the transaction.
Rollback(id) ==
    LET blocks == OriginalBlocks(id)
    IN  /\ pool' = Unref(pool, SequenceLeases(id, sequences[id].blocks)
                                 \ SequenceLeases(id, blocks))
        /\ sequences' = [sequences EXCEPT ![id].blocks = blocks]
        /\ payload' = Scrub(Undone(id), pool'.free)
        /\ appends' = <<>>
        /\ UNCHANGED <<reservations, lease, lru, publishing>>

------------------------------------------------------------------------------

\* A prompt, and what may follow the history of a sequence.
Prompts == {p \in UNION {{Prefix(t, n) : n \in 1 .. Len(t)} : t \in Texts} : Len(p) <= Context}
Inputs(id) ==
    UNION {{SubSeq(t, Used(id) + 1, Used(id) + n) : n \in 1 .. Min({MaxInput, Len(t) - Used(id)})} :
               t \in {x \in Texts : IsPrefix(sequences[id].tokens, x)}}

Init ==
    /\ pool = NewPool
    /\ sequences = <<>>
    /\ reservations = <<>>
    /\ lease = <<>>
    /\ lru = <<>>
    /\ appends = <<>>
    /\ publishing = <<>>
    /\ payload = [p \in Page |-> Blank]

Next ==
    \/ \E id \in Id, n \in ReserveTokens : ReserveRequest(id, n)
    \/ \E id \in Id : ReleaseReservation(id) \/ Create(id)
    \/ \E source, target \in DOMAIN sequences : ForkSequence(source, target)
    \/ \E id \in DOMAIN sequences, prompt \in Prompts : ReusePrefix(id, prompt)
    \/ \E id \in DOMAIN sequences : CachePrefix(id) \/ ResetSequence(id) \/ Release(id)
    \/ \E id \in DOMAIN publishing : PublishKnown(id) \/ PublishNew(id) \/ PublishFails(id)
    \/ ClearPrefixCache \/ Clear
    \/ \E id \in DOMAIN sequences :
          \E input \in Inputs(id) : ValidAppend(id, input) /\ PrepareAppend(id, input)
    \/ \E id \in DOMAIN sequences, n \in 1 .. MaxInput :
          n <= Context - Used(id) /\ PrepareExhausted(id, n)
    \/ \E id \in DOMAIN appends :
          CopySharedTail(id) \/ WriteToken(id) \/ Commit(id) \/ Rollback(id)

Spec == Init /\ [][Next]_vars

------------------------------------------------------------------------------
\* Properties

\* Every counter, table and index entry has its type, no counter is negative,
\* and at most one transaction or publication is open, on a live sequence.
TypeOK ==
    /\ pool \in Pool /\ \A p \in Page : pool.refs[p] >= 0
    /\ DOMAIN sequences \subseteq Id
    /\ \A id \in DOMAIN sequences :
          sequences[id] \in [blocks : Seq(Page), tokens : History]
    /\ DOMAIN reservations \subseteq Id
    /\ \A id \in DOMAIN reservations : reservations[id] \in 1 .. Cardinality(Page)
    /\ \A h \in Leased : h \in History /\ lease[h] \in Page
    /\ DOMAIN appends \cup DOMAIN publishing \subseteq DOMAIN sequences
    /\ DOMAIN appends = {} \/ DOMAIN publishing = {}
    /\ \A i, j \in DOMAIN appends \cup DOMAIN publishing : i = j
    /\ payload \in [Page -> [Slot -> History]]

\* The pool's counters count exactly the block tables, index leases and
\* transaction leases there are: no page leaks, none is freed while in use, and
\* none is handed out twice.
RefsCountLeases == Counts(pool, Leases)

\* What a committed reader sees of a sequence: an open transaction's private
\* tail is not visible yet.
CommittedTable(id) == IF id \in DOMAIN appends THEN OriginalBlocks(id)
                                               ELSE sequences[id].blocks

\* Sharing never lets one sequence see or destroy another's KV: every page the
\* index leases still holds the KV of the history it is filed under, whatever
\* was appended in place, copied, rolled back or evicted since.
IndexHoldsItsHistory ==
    \A h \in Leased :
        \A n \in BlockTokens * (PagesFor(Len(h)) - 1) + 1 .. Len(h) :
            payload[lease[h]][SlotOf(n)] = Prefix(h, n)

\* docs/capacity_admission.md: an admitted request does not run out of pages.
\* Whatever is cached, forked or appended without a reservation, an append that
\* stays within its own reservation finds the pages it needs once the index
\* gives up its leases.
ReservationsHonoured ==
    Idle =>
        \A id \in DOMAIN sequences \cap DOMAIN reservations :
            \A n \in 1 .. Context - Used(id) :
                LET required == RequiredBlocks(id, n)
                    left     == EvictedPool(Len(lru))
                IN  PagesFor(Used(id) + n) <= reservations[id] =>
                        Cardinality(left.free) >= PagesToFind(id, required, left)

\* The sequences implement private histories: see PrivateHistories.
CommittedStore ==
    [id \in DOMAIN sequences |-> [tokens |-> sequences[id].tokens,
                                  kv     |-> ReadKV(CommittedTable(id), Used(id))]]
Private == INSTANCE PrivateHistories WITH store <- CommittedStore
ImplementsPrivateHistories == Private!Spec
==============================================================================
