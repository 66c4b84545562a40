--------------------------- MODULE PrivateHistories ---------------------------
(***************************************************************************)
(* What the KV manager promises its users, with no pages, sharing, index   *)
(* or transactions in sight: every live sequence has its own token history *)
(* and a private row of KV vectors, each of which encodes exactly the      *)
(* tokens up to its position, and an operation on one sequence never       *)
(* changes another one.                                                    *)
(***************************************************************************)
EXTENDS Sequences, Naturals

CONSTANTS
    Id,         \* request identifiers
    Context     \* longest sequence

VARIABLE store   \* live id -> its tokens, and the KV a reader of it finds

\* The KV of history h: position i encodes the i tokens up to it.
CausalRow(h) == [i \in 1 .. Len(h) |-> SubSeq(h, 1, i)]

Holding(h) == [tokens |-> h, kv |-> CausalRow(h)]

Init == store = <<>>

\* create
Start(id) ==
    /\ id \notin DOMAIN store
    /\ store' = [i \in DOMAIN store \cup {id} |-> IF i = id THEN Holding(<<>>) ELSE store[i]]

\* append, or reuse_prefix into an empty sequence: one sequence grows behind
\* what it already holds.
Grow(id) ==
    /\ DOMAIN store' = DOMAIN store
    /\ LET h == store'[id].tokens
       IN  /\ Len(h) \in Len(store[id].tokens) .. Context
           /\ SubSeq(h, 1, Len(store[id].tokens)) = store[id].tokens
           /\ store' = [store EXCEPT ![id] = Holding(h)]

\* fork_sequence into an empty target
Fork(source, target) ==
    /\ store[target] = Holding(<<>>)
    /\ store' = [store EXCEPT ![target] = store[source]]

\* reset_sequence
Reset(id) == store' = [store EXCEPT ![id] = Holding(<<>>)]

\* release of one sequence, clear of all of them
Remove(ids) == store' = [i \in DOMAIN store \ ids |-> store[i]]

Next ==
    \/ \E id \in Id : Start(id)
    \/ \E id \in DOMAIN store : Grow(id) \/ Reset(id) \/ Remove({id})
    \/ \E source, target \in DOMAIN store : Fork(source, target)
    \/ Remove(DOMAIN store)

Spec == Init /\ [][Next]_store
==============================================================================
