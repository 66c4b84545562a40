--------------------------------- MODULE Maps --------------------------------
(***************************************************************************)
(* Maps keyed by an identifier: functions whose domain grows and shrinks;  *)
(* queues that lose entries; and the order of a std::map whose keys are    *)
(* sequences of tokens.                                                    *)
(***************************************************************************)
EXTENDS Naturals, Sequences

\* The map f with value v at key k.
With(f, k, v) == [x \in DOMAIN f \cup {k} |-> IF x = k THEN v ELSE f[x]]

\* The map f without the keys S.
Without(f, S) == [x \in DOMAIN f \ S |-> f[x]]

\* The entries of q that are in S, in the order of q.
Selected(q, S) ==
    LET kept[n \in 0 .. Len(q)] ==
            IF n = 0 THEN <<>>
            ELSE IF q[n] \in S THEN Append(kept[n - 1], q[n]) ELSE kept[n - 1]
    IN  kept[Len(q)]

\* Op applied to each entry of q in turn.
Iterated(Op(_, _), start, q) ==
    LET after[n \in 0 .. Len(q)] == IF n = 0 THEN start ELSE Op(after[n - 1], q[n])
    IN  after[Len(q)]

\* std::lexicographical_compare.
LexLess(x, y) ==
    \E n \in 0 .. Len(x) : /\ n < Len(y)
                           /\ SubSeq(x, 1, n) = SubSeq(y, 1, n)
                           /\ n = Len(x) \/ x[n + 1] < y[n + 1]
==============================================================================
