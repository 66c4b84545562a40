----------------------------- MODULE KvBlockPool -----------------------------
(***************************************************************************)
(* The reference-counted pool of physical KV pages                         *)
(* (miniprefix/src/kv/paged_kv.cpp, class KvBlockPool).                    *)
(*                                                                         *)
(* A pool is a record of the free list and the reference counters.  The    *)
(* code keeps the free list as a stack of page numbers; which free page a  *)
(* caller gets is data, so the list is a set here and an allocation may    *)
(* take any free page.  A lease is one counted reference: the page and     *)
(* what holds it.  The code stores the counter alone; the leases are the   *)
(* callers' block tables, index nodes and transactions.                    *)
(***************************************************************************)
EXTENDS Integers, FiniteSets

CONSTANT Page           \* the physical pages, 0 .. max_blocks-1 in the code

\* The constructor rejects a pool without pages (max_blocks < 1).
ASSUME PageAssumption == IsFiniteSet(Page) /\ Page # {}

Pool == [free : SUBSET Page, refs : [Page -> Int]]

\* The leases of L that refer to page p.
On(p, L) == {l \in L : l.page = p}

NewPool == [free |-> Page, refs |-> [p \in Page |-> 0]]

\* allocate and the loop of reserve: pages leave the free list with one
\* reference, the lease L holds for each of them.
Take(pool, L) ==
    [free |-> {p \in pool.free : On(p, L) = {}},
     refs |-> [p \in Page |-> IF On(p, L) = {} THEN pool.refs[p] ELSE 1]]

\* retain, once for every lease of L.
Retain(pool, L) ==
    [pool EXCEPT !.refs = [p \in Page |-> pool.refs[p] + Cardinality(On(p, L))]]

\* unref, once for every lease of L: a page whose counter reaches zero is
\* pushed on the free list.
Unref(pool, L) ==
    LET refs == [p \in Page |-> pool.refs[p] - Cardinality(On(p, L))]
    IN  [free |-> pool.free \cup {p \in Page : On(p, L) # {} /\ refs[p] = 0},
         refs |-> refs]

------------------------------------------------------------------------------
\* What the counters must mean: pool's reference counters count exactly the
\* leases L, and a page is free exactly when nothing holds it.
Counts(pool, L) ==
    \A p \in Page : /\ pool.refs[p] = Cardinality(On(p, L))
                    /\ p \in pool.free <=> On(p, L) = {}
==============================================================================
