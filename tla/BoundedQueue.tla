---------------------------- MODULE BoundedQueue ----------------------------
(***************************************************************************)
(* What the rings of src/src/runtime promise their users: a first-in       *)
(* first-out queue of at most Capacity elements.                           *)
(***************************************************************************)
EXTENDS Naturals, Sequences

CONSTANTS Value, Capacity
VARIABLE queue

Init == queue = <<>>

Put(v) ==
    /\ Len(queue) < Capacity
    /\ queue' = Append(queue, v)

Take ==
    /\ queue # <<>>
    /\ queue' = Tail(queue)

Next == Take \/ \E v \in Value : Put(v)
Spec == Init /\ [][Next]_queue
=============================================================================
