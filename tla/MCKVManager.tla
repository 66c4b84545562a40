------------------------------ MODULE MCKVManager -----------------------------
(***************************************************************************)
(* A small instance of KVManager: pages and ids are interchangeable.       *)
(***************************************************************************)
EXTENDS KVManager

\* Histories that agree on a page, in the middle of one, and not at all.
MCTexts == {<<0, 0, 1, 1>>, <<0, 0, 0>>, <<0, 1>>}

Symmetry == Permutations(Page) \cup Permutations(Id)
==============================================================================
