----------------------------- MODULE MCCudaRunner -----------------------------
(***************************************************************************)
(* A small instance of CudaRunner: pages and ids are interchangeable.      *)
(***************************************************************************)
EXTENDS CudaRunner

\* Histories that agree in the middle of a page.
MCTexts == {<<0, 0, 1, 1>>, <<0, 0, 0>>}

Symmetry == Permutations(Page) \cup Permutations(Id)
==============================================================================
