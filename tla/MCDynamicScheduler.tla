-------------------------- MODULE MCDynamicScheduler ---------------------------
(***************************************************************************)
(* A small instance of DynamicScheduler: three requests whose prompts      *)
(* share prefixes within and across blocks, with less memory than they     *)
(* need together, and one that may never fit.                              *)
(***************************************************************************)
EXTENDS DynamicScheduler

MCPrompts == {<<1, 2, 1>>, <<2, 2>>}

\* A decoder whose pick depends on everything it attends to, in order.
MCAbove(context, t, u) ==
    FoldLeft(LAMBDA n, kv : (2 * n + kv.token * kv.at + 1) % 5, 0, context) % 2 = 1
==============================================================================
