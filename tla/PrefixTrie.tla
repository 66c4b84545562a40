------------------------------ MODULE PrefixTrie ------------------------------
(***************************************************************************)
(* The trie inside the exact prefix cache                                  *)
(* (miniprefix/src/kv/prefix_cache.cpp): nodes linked by page edges, the   *)
(* lookup map of leased children, the eviction list, the hint for the last *)
(* published path, the spare node and the pointer walk of clear.  A node   *)
(* is an address: it may be freed and handed out again, so a pointer kept  *)
(* too long shows.  KVManager models what the index does to the pool;      *)
(* this module models how it finds, orders and frees its entries.          *)
(***************************************************************************)
EXTENDS Integers, FiniteSets, SequencesExt, FiniteSetsExt, Maps

CONSTANTS
    NodeId,         \* addresses of nodes
    Root,           \* the root node, always there
    None,           \* block -1: the node holds no lease
    Page,           \* pages of the pool
    BlockTokens,    \* tokens per page
    CacheBlocks,    \* prefix_cache_blocks, not 0
    Texts           \* bound: the token histories the callers submit

ASSUME TrieAssumption ==
    /\ Root \notin NodeId /\ None \notin Page
    /\ BlockTokens \in Nat \ {0}
    /\ CacheBlocks \in 1 .. Cardinality(NodeId)
    /\ Texts \subseteq Seq(Nat)

VARIABLES
    index,          \* the Index: see NewIndex
    publishing,     \* the call of publish under way, if any
    clearing,       \* the node pointer of clear under way, if any
    found           \* what the last call, if it was reuse, gave the sequence

trieVars == <<index, publishing, clearing, found>>

------------------------------------------------------------------------------
\* Nodes and pages

Prefix(h, n) == SubSeq(h, 1, n)
NoResult == [prompt |-> <<>>, tokens |-> <<>>, blocks |-> <<>>]

\* A freed node has depth 0.
FreedNode == [parent |-> Root, depth |-> 0, edge |-> <<>>, block |-> None]

NewIndex ==
    [node |-> [n \in NodeId |-> FreedNode],
     available |-> {},              \* nodes in the lookup map of their parent
     list |-> <<>>,                 \* oldest .. newest
     publication |-> <<>>,
     spareNode |-> {},
     spareAvailable |-> FALSE,
     leases |-> [p \in Page |-> 0]]

Live(ix) == {n \in NodeId : ix.node[n].depth > 0}
Children(ix, n) == {c \in Live(ix) : ix.node[c].parent = n}
Depth(ix, n) == IF n = Root THEN 0 ELSE ix.node[n].depth

Held(ix) == {n \in Live(ix) : ix.node[n].block # None}

\* The nodes from n up to the root, which is none of them, and those down to n.
Ancestors(ix, n) ==
    LET up[k \in 0 .. Depth(ix, n) - 1] == IF k = 0 THEN n ELSE ix.node[up[k - 1]].parent
    IN  [k \in 1 .. Depth(ix, n) |-> up[k - 1]]
Path(ix, n) == Reverse(Ancestors(ix, n))
History(ix, n) == FlattenSeq([i \in DOMAIN Path(ix, n) |-> ix.node[Path(ix, n)[i]].edge])

------------------------------------------------------------------------------
\* The eviction list, pruning and dropping

Unlink(list, n) == Selected(list, NodeId \ {n})
Touch(ix, n) == [ix EXCEPT !.list = Append(Unlink(@, n), n)]

\* Mutant: a freed node stays in the hint.
KeepHint(ix, n) == ix.publication

\* The hint is cut at the first node that goes.
CutHint(ix, n) ==
    LET depth == ix.node[n].depth
    IN  IF depth <= Len(ix.publication) /\ ix.publication[depth] = n
        THEN Prefix(ix.publication, depth - 1)
        ELSE ix.publication

\* The node becomes the spare; the former spare is destroyed.
Extract(ix, n) ==
    [ix EXCEPT !.node[n] = FreedNode, !.publication = CutHint(ix, n), !.spareNode = {n}]

Prunable(ix, n, protected) ==
    n \notin protected /\ ix.node[n].block = None /\ Children(ix, n) = {}

Pruned(ix, n, protected) == IF Prunable(ix, n, protected) THEN Extract(ix, n) ELSE ix

\* From n up: a node that stays keeps its parent, so the walk may go on.
Prune(ix, n, protected) ==
    Iterated(LAMBDA acc, x : Pruned(acc, x, protected), ix, Ancestors(ix, n))

\* The node without its lease: out of the lookup map and of the list.
Dropped(ix, n) ==
    [ix EXCEPT !.available = @ \ {n},
               !.spareAvailable = TRUE,
               !.leases[ix.node[n].block] = @ - 1,
               !.list = Unlink(@, n),
               !.node[n].block = None]

DropNode(ix, n, protected) == Prune(Dropped(ix, n), n, protected)

\* The next node in lexicographic preorder.
Successor(ix, n) ==
    LET least(S) == {x \in S : \A y \in S \ {x} : LexLess(ix.node[x].edge, ix.node[y].edge)}
        up       == Ancestors(ix, n)
        after(x) == {y \in Children(ix, ix.node[x].parent) : LexLess(ix.node[x].edge, ix.node[y].edge)}
        turns    == {i \in DOMAIN up : after(up[i]) # {}}
    IN  IF Children(ix, n) # {} THEN least(Children(ix, n))
        ELSE IF turns = {} THEN {}
        ELSE least(after(up[Min(turns)]))

------------------------------------------------------------------------------
\* reuse

Matched(x, y) == Len(LongestCommonPrefix({x, y}))

\* The child to follow: lower_bound(query), or the one before it when that
\* shares more tokens; none when neither shares any.
BestChild(ix, parent, query) ==
    LET edge(c) == ix.node[c].edge
        known   == {c \in ix.available : ix.node[c].parent = parent}
        after   == {c \in known : ~LexLess(edge(c), query)}
        next    == {c \in after : \A d \in after : ~LexLess(edge(d), edge(c))}
        prev    == {c \in known \ after : \A d \in known \ after : ~LexLess(edge(c), edge(d))}
        shares(S) == {c \in S : Matched(edge(c), query) > 0}
        better  == {c \in prev : \A d \in next : Matched(edge(c), query) > Matched(edge(d), query)}
    IN  IF shares(better) # {} THEN shares(better) ELSE shares(next)

\* Mutant: only the child at lower_bound is considered.
LowerBoundOnly(ix, parent, query) ==
    LET known == {c \in ix.available : ix.node[c].parent = parent}
        after == {c \in known : ~LexLess(ix.node[c].edge, query)}
    IN  {c \in after : /\ Matched(ix.node[c].edge, query) > 0
                       /\ \A d \in after : ~LexLess(ix.node[d].edge, ix.node[c].edge)}

Follow(ix, parent, query) == BestChild(ix, parent, query)

\* One page of the walk: touch the child, unless the last one ended it.
Followed(prompt, acc, i) ==
    LET limit == Len(prompt) - 1
        query == SubSeq(prompt, acc.count + 1, Min({acc.count + BlockTokens, limit}))
        best  == Follow(acc.ix, acc.at, query)
        c     == CHOOSE x \in best : TRUE
    IN  IF acc.count < (i - 1) * BlockTokens \/ acc.count >= limit \/ best = {} THEN acc
        ELSE [ix |-> Touch(acc.ix, c), at |-> c,
              count |-> acc.count + Matched(acc.ix.node[c].edge, query),
              blocks |-> Append(acc.blocks, acc.ix.node[c].block)]

Steps(prompt) == [i \in 1 .. Len(prompt) |-> i]

Walk(ix, prompt) ==
    Iterated(LAMBDA acc, i : Followed(prompt, acc, i),
             [ix |-> ix, at |-> Root, count |-> 0, blocks |-> <<>>], Steps(prompt))

Idle == publishing = <<>> /\ clearing = {}

Reuse(prompt) ==
    LET walk == Walk(index, prompt)
    IN  /\ Idle
        /\ index' = walk.ix
        /\ found' = [prompt |-> prompt, tokens |-> Prefix(prompt, walk.count),
                     blocks |-> walk.blocks]
        /\ UNCHANGED <<publishing, clearing>>

------------------------------------------------------------------------------
\* publish

PublishCount(tokens) == Min({(Len(tokens) + BlockTokens - 1) \div BlockTokens, CacheBlocks})

PublishStart(tokens) ==
    /\ Idle
    /\ publishing' = <<[tokens |-> tokens, i |-> 1, parent |-> Root]>>
    /\ found' = NoResult
    /\ UNCHANGED <<index, clearing>>

\* The edge of the round under way, and the children of its parent that have it.
Edge == LET call == publishing[1]
        IN  SubSeq(call.tokens, (call.i - 1) * BlockTokens + 1,
                   Min({call.i * BlockTokens, Len(call.tokens)}))
Same(n) == index.node[n].parent = publishing[1].parent /\ index.node[n].edge = Edge

\* The node the hint names, when it is the wanted one.
Hinted == {n \in {index.publication[k] : k \in DOMAIN index.publication \cap {publishing[1].i}} :
               Same(n)}

\* A hint that is off the path is cut here.
Checked == IF Hinted = {} THEN [index EXCEPT !.publication = Prefix(@, Min({Len(@), publishing[1].i - 1}))]
                          ELSE index

Known == IF Hinted # {} THEN Hinted ELSE {n \in Live(index) : Same(n)}

\* A node for a new edge: the spare one, or a new allocation.
NewNodes == IF index.spareNode # {} THEN index.spareNode
            ELSE NodeId \ Live(index)

Inserted(n) ==
    [Checked EXCEPT !.node[n] = [parent |-> publishing[1].parent,
                                 depth |-> Depth(index, publishing[1].parent) + 1,
                                 edge |-> Edge, block |-> None],
                    !.spareNode = {}]

\* The lookup entry, then the lease, at the cost of the oldest one when full.
Leased(ix, n, page) ==
    LET entered == [ix EXCEPT !.available = @ \cup {n}, !.spareAvailable = FALSE]
        room    == IF Len(ix.list) = CacheBlocks
                   THEN DropNode(entered, Head(ix.list), {n}) ELSE entered
    IN  [room EXCEPT !.leases[page] = @ + 1, !.node[n].block = page, !.list = Append(@, n)]

\* A round ends with its node in the hint, the last one cuts what is beyond.
EndRound(ix, n) ==
    LET call == publishing[1]
        hint == IF Len(ix.publication) = call.i - 1 THEN Append(ix.publication, n)
                                                    ELSE ix.publication
        last == call.i = PublishCount(call.tokens)
    IN  /\ index' = [ix EXCEPT !.publication = IF last THEN Prefix(hint, Min({Len(hint), call.i})) ELSE hint]
        /\ publishing' = IF last THEN <<>>
                         ELSE <<[call EXCEPT !.i = @ + 1, !.parent = n]>>
        /\ found' = NoResult
        /\ UNCHANGED clearing

PublishRound(page) ==
    /\ publishing # <<>>
    /\ \/ \E n \in Known :
             EndRound(IF index.node[n].block # None THEN Touch(Checked, n)
                                                    ELSE Leased(Checked, n, page), n)
       \/ /\ Known = {}
          /\ \E n \in NewNodes : EndRound(Leased(Inserted(n), n, page), n)

\* No memory for the node, when there is no spare: the call ends there.
NodeFails ==
    /\ publishing # <<>> /\ Known = {} /\ index.spareNode = {}
    /\ index' = Checked
    /\ publishing' = <<>>
    /\ found' = NoResult
    /\ UNCHANGED clearing

\* No memory for the lookup entry: a node without lease and children goes again.
EntryFails ==
    /\ publishing # <<>> /\ ~index.spareAvailable
    /\ \/ \E n \in Known : index.node[n].block = None /\ index' = Prune(Checked, n, {})
       \/ Known = {} /\ \E n \in NewNodes : index' = Prune(Inserted(n), n, {})
    /\ publishing' = <<>>
    /\ found' = NoResult
    /\ UNCHANGED clearing

------------------------------------------------------------------------------
\* evict_one and clear

EvictOne ==
    /\ Idle /\ index.list # <<>>
    /\ index' = DropNode(index, Head(index.list), {})
    /\ found' = NoResult
    /\ UNCHANGED <<publishing, clearing>>

FirstChild(ix) ==
    {x \in Children(ix, Root) : \A y \in Children(ix, Root) \ {x} :
                                    LexLess(ix.node[x].edge, ix.node[y].edge)}

\* clear ends: the hint and the spares go as well.
Forgotten(ix) ==
    [ix EXCEPT !.publication = <<>>, !.spareNode = {}, !.spareAvailable = FALSE]

ClearStart ==
    /\ Idle
    /\ clearing' = FirstChild(index)
    /\ index' = IF clearing' = {} THEN Forgotten(index) ELSE index
    /\ found' = NoResult
    /\ UNCHANGED publishing

\* One round of the loop: the pointer moves on before its node may be freed.
ClearRound ==
    \E n \in clearing :
        LET next == Successor(index, n)
            left == IF index.node[n].block # None THEN DropNode(index, n, {}) ELSE index
        IN  /\ clearing' = next
            /\ index' = IF next = {} THEN Forgotten(left) ELSE left
            /\ found' = NoResult
            /\ UNCHANGED publishing

------------------------------------------------------------------------------
Submitted == UNION {{Prefix(t, n) : n \in 1 .. Len(t)} : t \in Texts}

TrieInit == index = NewIndex /\ publishing = <<>> /\ clearing = {} /\ found = NoResult

TrieNext ==
    \/ \E prompt \in Submitted : Reuse(prompt) \/ PublishStart(prompt)
    \/ \E page \in Page : PublishRound(page)
    \/ NodeFails \/ EntryFails
    \/ EvictOne
    \/ ClearStart \/ ClearRound

TrieSpec == TrieInit /\ [][TrieNext]_trieVars

------------------------------------------------------------------------------
\* Properties

\* No pointer of the trie outlives the node it points to, whatever was pruned:
\* the hint is a path of live nodes from the root, the eviction list and the
\* lookup maps hold exactly the leased nodes, clear and publish stand on live
\* nodes, the spare node is not linked, and no leaf is left without a lease.
PointersStayLive ==
    LET live == Live(index)
        held == Held(index)
    IN  /\ \A i \in 1 .. Len(index.publication) :
              /\ index.publication[i] \in live
              /\ index.node[index.publication[i]].parent
                    = IF i = 1 THEN Root ELSE index.publication[i - 1]
        /\ ToSet(index.list) = held /\ Len(index.list) = Cardinality(held)
        /\ index.available = held
        /\ \A p \in Page : index.leases[p] = Cardinality({n \in held : index.node[n].block = p})
        /\ clearing \subseteq live
        /\ \A i \in DOMAIN publishing : publishing[i].parent \in live \cup {Root}
        /\ index.spareNode \cap live = {}
        /\ \A n \in live \ held : Children(index, n) # {}
        /\ \A n \in live : index.node[n].parent \in live \cup {Root}

\* The trie implements the prefix index: the longest leased match is found,
\* entries are touched, published and evicted in LRU order, and cleared in
\* lexicographic order.
LeaseMap ==
    LET held == ToSet(index.list)
        at(h) == CHOOSE n \in held : History(index, n) = h
    IN  [h \in {History(index, n) : n \in held} |-> index.node[at(h)].block]
Index == INSTANCE PrefixIndex WITH
    lease <- LeaseMap,
    lru <- [i \in DOMAIN index.list |-> History(index, index.list[i])],
    Prompts <- Submitted, Snapshots <- Submitted
ImplementsPrefixIndex == Index!IndexSpec
==============================================================================
