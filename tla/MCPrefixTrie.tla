----------------------------- MODULE MCPrefixTrie -----------------------------
(***************************************************************************)
(* A small instance of PrefixTrie: histories that share a page, the middle *)
(* of one, or nothing.                                                     *)
(***************************************************************************)
EXTENDS PrefixTrie, TLC

MCTexts == {<<0, 0, 1, 1>>, <<0, 1, 1>>}

Symmetry == Permutations(NodeId) \cup Permutations(Page)
==============================================================================
