-------------------------------- MODULE MCEngine -----------------------------
(***************************************************************************)
(* A small instance of Engine: a long prompt, a longer answer, and a       *)
(* request that can never fit.                                             *)
(***************************************************************************)
EXTENDS Engine

MCPrompt == [long |-> 4, chat |-> 1, huge |-> 6]
MCMaxNew == [long |-> 1, chat |-> 3, huge |-> 4]
==============================================================================
