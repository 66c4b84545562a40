-------------------------- MODULE GenerationService --------------------------
(***************************************************************************)
(* What the engine promises a client, with no queue, batch, runner or      *)
(* failure in sight: every submitted request has a stream of events, which *)
(* carries its output tokens one by one, in order and exactly once, and    *)
(* ends with one terminal event, after which it never changes.             *)
(***************************************************************************)
EXTENDS Naturals, Sequences

CONSTANTS
    Id,         \* request identifiers
    MaxNew      \* request -> its max_new_tokens

VARIABLE stream     \* submitted request -> its events, oldest first

\* An event carries the number of an output token, or none, and may be terminal.
None == 0
Event == [token : Nat, reason : {"", "Eos", "Length", "Cancelled", "Error"}]

Over(events) == events # <<>> /\ events[Len(events)].reason # ""
Open == {id \in DOMAIN stream : ~Over(stream[id])}

Init == stream = <<>>

Submit(id) ==
    /\ id \notin DOMAIN stream
    /\ stream' = [i \in DOMAIN stream \cup {id} |-> IF i = id THEN <<>> ELSE stream[i]]

Extend(id, event) == stream' = [stream EXCEPT ![id] = Append(@, event)]

\* The next output token: not the last one, the last one, or the EOS token.
Emit(id) ==
    LET n == Len(stream[id]) + 1
    IN  \/ n < MaxNew[id] /\ Extend(id, [token |-> n, reason |-> ""])
        \/ n = MaxNew[id] /\ Extend(id, [token |-> n, reason |-> "Length"])
        \/ n <= MaxNew[id] /\ Extend(id, [token |-> n, reason |-> "Eos"])

\* Requests are cancelled or fail, some or all of them at once.
Abort(ids, reason) ==
    stream' = [id \in DOMAIN stream |->
        IF id \in ids THEN Append(stream[id], [token |-> None, reason |-> reason])
                      ELSE stream[id]]

Next ==
    \/ \E id \in Id : Submit(id)
    \/ \E id \in Open : Emit(id)
    \/ \E ids \in SUBSET Open, reason \in {"Cancelled", "Error"} : Abort(ids, reason)

Spec == Init /\ [][Next]_stream
==============================================================================
