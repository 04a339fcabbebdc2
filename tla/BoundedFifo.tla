----------------------------- MODULE BoundedFifo -----------------------------
(***************************************************************************)
(* What a bounded queue promises: values come out once each, in the order  *)
(* in which they went in, and there are never more than Capacity of them.  *)
(***************************************************************************)
EXTENDS Naturals, Sequences

CONSTANTS Values, Capacity, None

VARIABLES
    items,  \* the values in the queue, oldest first
    out     \* the value that came out last

vars == <<items, out>>

Init == items = << >> /\ out = None

Enqueue ==
    /\ Len(items) < Capacity
    /\ \E v \in Values : items' = Append(items, v)
    /\ UNCHANGED out

Dequeue ==
    /\ items # << >>
    /\ out' = Head(items)
    /\ items' = Tail(items)

Next == Enqueue \/ Dequeue

Spec == Init /\ [][Next]_vars
=============================================================================
