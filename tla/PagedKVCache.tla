------------------------------ MODULE PagedKVCache ----------------------------
(***************************************************************************)
(* The block-paged KV cache of the serving example's worker                *)
(* (examples/serving_scheduler/native/paged_kv_cache.h), as operators on a *)
(* record: block tables, exact-prefix snapshots, reference counters, the   *)
(* stack of free blocks, and the KV memory.  The worker's decoder has one  *)
(* layer, so what it writes encodes a token and its position, nothing more *)
(* (tinyinfer_worker.cpp, step).                                           *)
(***************************************************************************)
EXTENDS Naturals, SequencesExt, Functions, Maps

CONSTANTS
    Blocks,         \* capacity_
    BlockSize       \* block_size_

ASSUME CacheAssumption == Blocks \in Nat /\ BlockSize \in Nat \ {0}

Block == 1 .. Blocks
Slot == 0 .. BlockSize - 1
Junk == [token |-> 0, at |-> 0]

BlocksFor(n) == (n + BlockSize - 1) \div BlockSize

\* A block table maps positions, from 1, to slots of blocks.
BlockAt(table, n) == table[(n - 1) \div BlockSize + 1]
SlotAt(n) == (n - 1) % BlockSize

Table(c, id) == IF id \in DOMAIN c.tables THEN c.tables[id] ELSE <<>>
Length(c, id) == IF id \in DOMAIN c.lengths THEN c.lengths[id] ELSE 0

NewCache ==
    [tables |-> <<>>, lengths |-> <<>>, prefixes |-> <<>>,
     refs |-> [b \in Block |-> 0],
     free |-> [i \in Block |-> Blocks + 1 - i],
     memory |-> [b \in Block |-> [s \in Slot |-> Junk]]]

\* clear: the KV memory keeps its content.
Cleared(c) == [NewCache EXCEPT !.memory = c.memory]

\* How often a mapping names a block.
Uses(mapping, b) == Cardinality({i \in DOMAIN mapping : mapping[i] = b})

Shared(c, mapping) == [c EXCEPT !.refs = [b \in Block |-> @[b] + Uses(mapping, b)]]

\* Every block of the mapping loses a reference; those without one are pushed on
\* the free list.
Dropped(c, mapping) ==
    LET refs == [b \in Block |-> c.refs[b] - Uses(mapping, b)]
    IN  [c EXCEPT !.refs = refs,
                  !.free = @ \o Selected(mapping, {b \in Block : refs[b] = 0})]

------------------------------------------------------------------------------
\* Prefix snapshots

\* Mutant: a snapshot is taken for one of the same length.
ReusableByLength(c, tokens, most) ==
    {key \in DOMAIN c.prefixes : Len(key) <= most /\ Len(key) <= Len(tokens)}

\* Snapshots that hold a prefix of tokens no longer than most.
Reusable(c, tokens, most) ==
    {key \in DOMAIN c.prefixes : Len(key) <= most /\ IsPrefix(key, tokens)}

\* reuse_prefix: the longest of them becomes the table of id.
Reused(c, id, tokens, most) ==
    IF Reusable(c, tokens, most) = {} THEN c
    ELSE LET key == CHOOSE k \in Reusable(c, tokens, most) :
                        \A l \in Reusable(c, tokens, most) : Len(l) <= Len(k)
         IN  [Shared(c, c.prefixes[key])
                 EXCEPT !.tables = With(@, id, c.prefixes[key]),
                        !.lengths = With(@, id, Len(key))]

\* Mutant: snapshots hold no references of their own.
SnapshotUnshared(c, key, mapping) ==
    [c EXCEPT !.prefixes = With(@, key, mapping)]

Snapshot(c, key, mapping) ==
    [Shared(c, mapping) EXCEPT !.prefixes = With(@, key, mapping)]

\* publish_prefix: a snapshot at every whole block, one token before the end,
\* and at the end.
Published(c, id, tokens) ==
    LET n == Len(tokens)
        ends == {e \in 1 .. n : (e % BlockSize = 0) \/ e \in {n - 1, n}}
        cut(d, e) ==
            IF e \notin ends \/ SubSeq(tokens, 1, e) \in DOMAIN d.prefixes THEN d
            ELSE Snapshot(d, SubSeq(tokens, 1, e), SubSeq(d.tables[id], 1, BlocksFor(e)))
    IN  Iterated(cut, c, [e \in 1 .. n |-> e])

\* evict_one: the first snapshot in that order.
EvictedOne(c) ==
    LET key == CHOOSE k \in DOMAIN c.prefixes :
                   \A l \in DOMAIN c.prefixes \ {k} : LexLess(k, l)
    IN  [Dropped(c, c.prefixes[key]) EXCEPT !.prefixes = Without(@, {key})]

\* The cache after any number of evictions.
Evictions(c) ==
    LET after[k \in 0 .. Cardinality(DOMAIN c.prefixes)] ==
            IF k = 0 THEN c ELSE EvictedOne(after[k - 1])
    IN  after

\* Evicting until Enough, or until no snapshot is left.
EvictedUntil(c, Enough(_)) ==
    LET all == Cardinality(DOMAIN c.prefixes)
        done == {k \in 0 .. all : Enough(Evictions(c)[k])}
    IN  Evictions(c)[IF done = {} THEN all ELSE CHOOSE k \in done : \A j \in done : k <= j]

------------------------------------------------------------------------------
\* prepare_append: a plan is a cache, the tail copies still to be made, and
\* whether everything was found.

HasFree(c) == c.free # <<>>

\* One more block for the table of id.
Allocated(plan, id) ==
    LET c == EvictedUntil(plan.cache, HasFree)
    IN  IF ~plan.fits \/ ~HasFree(c) THEN [plan EXCEPT !.fits = FALSE]
        ELSE [plan EXCEPT !.cache =
                 [c EXCEPT !.free = Front(@), !.refs[Last(c.free)] = 1,
                           !.tables = With(@, id, Append(Table(c, id), Last(c.free)))]]

\* The tail of the table is partly filled and somebody else holds it too.
TailShared(c, id) == Length(c, id) % BlockSize # 0 /\ c.refs[Last(Table(c, id))] > 1

RoomForTail(c, id) == EvictedUntil(c, LAMBDA d : HasFree(d) \/ ~TailShared(d, id))

\* A shared tail is replaced, unless evicting snapshots, for want of a free
\* block, makes it private.
TailReplaced(plan, id) ==
    LET c   == RoomForTail(plan.cache, id)
        old == Last(Table(c, id))
    IN  IF ~TailShared(c, id) THEN [plan EXCEPT !.cache = c]
        ELSE IF ~HasFree(c) THEN [plan EXCEPT !.fits = FALSE]
        ELSE LET new == Last(c.free)
             IN  [plan EXCEPT
                     !.cache = [c EXCEPT !.free = Front(@),
                                         !.refs[new] = 1, !.refs[old] = @ - 1,
                                         !.tables = With(@, id, Append(Front(Table(c, id)), new))],
                     !.copies = Append(@, [from |-> old, to |-> new])]

\* n more blocks.
Grown(plan, id, n) == Iterated(LAMBDA p, i : Allocated(p, id), plan, [i \in 1 .. n |-> i])

\* One target of the batch: the table of target.id reaches target.length.
Targeted(plan, target) ==
    LET c     == plan.cache
        start == IF Length(c, target.id) < target.length /\ TailShared(c, target.id)
                 THEN TailReplaced(plan, target.id) ELSE plan
        grown == Grown(start, target.id, BlocksFor(target.length) - Len(Table(c, target.id)))
    IN  IF ~plan.fits THEN plan
        ELSE [grown EXCEPT !.cache.lengths = With(@, target.id, target.length)]

Planned(c, targets) ==
    Iterated(Targeted, [cache |-> c, copies |-> <<>>, fits |-> TRUE], targets)

\* "paged append cannot shrink"
Shrinks(c, targets) == \E t \in ToSet(targets) : t.length < Length(c, t.id)

\* can_append
CanAppend(c, targets) == Planned(c, targets).fits

\* Mutant: the replaced tails are not copied.
CommittedUncopied(plan) == plan.cache

Copied(memory, copy) == [memory EXCEPT ![copy.to] = memory[copy.from]]

\* Committing a plan that fits: the tails are copied in the order they were
\* replaced.
Committed(plan) == [plan.cache EXCEPT !.memory = Iterated(Copied, @, plan.copies)]

------------------------------------------------------------------------------

\* write: refused when anybody else holds the block.
Writable(c, id, n) == c.refs[BlockAt(c.tables[id], n)] = 1

\* The vectors of some positions are written, each to a slot of its own.
Written(c, id, positions, kv) ==
    LET at(b, s) == {n \in positions : BlockAt(c.tables[id], n) = b /\ SlotAt(n) = s}
    IN  [c EXCEPT !.memory = [b \in Block |-> [s \in Slot |->
            IF at(b, s) = {} THEN @[b][s] ELSE kv[CHOOSE n \in at(b, s) : TRUE]]]]

\* What attention finds in the first n positions of a mapping.
ReadKV(c, mapping, n) == [i \in 1 .. n |-> c.memory[BlockAt(mapping, i)][SlotAt(i)]]
KVOf(tokens) == [i \in 1 .. Len(tokens) |-> [token |-> tokens[i], at |-> i]]

\* release
Released(c, id) ==
    [Dropped(c, c.tables[id]) EXCEPT !.tables = Without(@, {id}),
                                     !.lengths = Without(@, {id})]

\* The counters count the tables and snapshots that hold each block, and the free
\* list is a list of exactly the blocks nobody holds.
CountsHolders(c) ==
    /\ \A b \in Block :
          c.refs[b] = Cardinality({id \in DOMAIN c.tables : Contains(c.tables[id], b)})
                    + Cardinality({key \in DOMAIN c.prefixes : Contains(c.prefixes[key], b)})
    /\ ToSet(c.free) = {b \in Block : c.refs[b] = 0} /\ IsInjective(c.free)
==============================================================================
