----------------------------- MODULE PrefixIndex -----------------------------
(***************************************************************************)
(* What the exact prefix cache promises its callers, without its trie: a   *)
(* map from token histories to the pages leased for them, the order in     *)
(* which they would be evicted, and what the last call of reuse found.     *)
(***************************************************************************)
EXTENDS Naturals, Sequences, SequencesExt, Maps

CONSTANTS BlockTokens, CacheBlocks, Page, Prompts, Snapshots

VARIABLES lease, lru, found

indexVars == <<lease, lru, found>>

NoResult == [prompt |-> <<>>, tokens |-> <<>>, blocks |-> <<>>]

Prefix(h, n) == SubSeq(h, 1, n)
PagesFor(n) == (n + BlockTokens - 1) \div BlockTokens

\* The histories of whole pages below h, and h: one for each page of h.
Chain(h) == [i \in 1 .. PagesFor(Len(h)) |-> Prefix(h, Min({i * BlockTokens, Len(h)}))]

\* Leased histories whose pages can all be read for this text: whole pages are
\* leased and agree with it, and the last page agrees on a token at least.
Readable(h, text) ==
    LET chain  == Chain(h)
        shared == Len(LongestCommonPrefix({h, text}))
    IN  /\ \A i \in 1 .. Len(chain) : chain[i] \in DOMAIN lease
        /\ shared > (Len(chain) - 1) * BlockTokens

Shared(h, text) == Len(LongestCommonPrefix({h, text}))

\* The most tokens any leased history shares with the text.
Best(text) == Max({0} \cup {Shared(h, text) : h \in {x \in DOMAIN lease : Readable(x, text)}})

Touched(hs) == SelectSeq(lru, LAMBDA h : ~Contains(hs, h)) \o hs

\* The longest match wins; the last prompt token always stays uncached.
Reuse(prompt) ==
    LET text == Prefix(prompt, Len(prompt) - 1)
    IN  /\ UNCHANGED lease
        /\ \/ Best(text) = 0 /\ lru' = lru /\ found' = [NoResult EXCEPT !.prompt = prompt]
           \/ \E h \in DOMAIN lease :
                 /\ Readable(h, text) /\ Shared(h, text) = Best(text)
                 /\ lru' = Touched(Chain(h))
                 /\ found' = [prompt |-> prompt, tokens |-> Prefix(text, Best(text)),
                              blocks |-> [i \in DOMAIN Chain(h) |-> lease[Chain(h)[i]]]]

\* A history is the newest entry; a full index gives up its oldest one for it.
Publish(h, page) ==
    LET kept == IF Len(lru) = CacheBlocks THEN Tail(lru) ELSE lru
    IN  /\ IF h \in DOMAIN lease
           THEN lru' = Touched(<<h>>) /\ UNCHANGED lease
           ELSE /\ lru' = Append(kept, h)
                /\ lease' = [x \in ToSet(lru') |-> IF x = h THEN page ELSE lease[x]]
        /\ found' = NoResult

Drop(h) ==
    /\ lease' = Without(lease, {h})
    /\ lru' = SelectSeq(lru, LAMBDA x : x # h)
    /\ found' = NoResult

\* Room for an append costs the oldest entry.
Evict == lru # <<>> /\ Drop(Head(lru))

\* clear releases the histories in lexicographic order.
ClearNext ==
    \E h \in DOMAIN lease :
        (\A x \in DOMAIN lease \ {h} : LexLess(h, x)) /\ Drop(h)

IndexInit == lease = <<>> /\ lru = <<>> /\ found = NoResult

IndexNext ==
    \/ \E prompt \in Prompts : Reuse(prompt)
    \/ \E h \in Snapshots, page \in Page : Publish(h, page)
    \/ Evict
    \/ ClearNext
    \/ UNCHANGED <<lease, lru>> /\ found' = NoResult

IndexSpec == IndexInit /\ [][IndexNext]_indexVars
==============================================================================
