-------------------------- MODULE MCReservedScheduler --------------------------
(***************************************************************************)
(* A small instance of ReservedScheduler: three requests whose prompts     *)
(* share prefixes, with memory for the worst cases of two short ones or    *)
(* one long one.                                                           *)
(***************************************************************************)
EXTENDS ReservedScheduler

MCPrompts == {<<1, 2, 1>>, <<2, 2>>}

\* A decoder whose pick depends on everything it attends to, in order.
MCAbove(context, t, u) ==
    FoldLeft(LAMBDA n, kv : (2 * n + kv.token * kv.at + 1) % 5, 0, context) % 2 = 1
==============================================================================
