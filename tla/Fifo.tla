-------------------------------- MODULE Fifo --------------------------------
(***************************************************************************)
(* What a queue promises: elements leave in the order they entered, none   *)
(* is lost or served twice, and none is left when the queue is gone.       *)
(***************************************************************************)
EXTENDS Sequences

CONSTANT Value

VARIABLES
    items,  \* the elements, the oldest first
    open    \* whether the queue exists

Init == items = <<>> /\ open = TRUE

Push(v) == open /\ items' = Append(items, v) /\ UNCHANGED open

Pop == open /\ items # <<>> /\ items' = Tail(items) /\ UNCHANGED open

Close == open /\ items' = <<>> /\ open' = FALSE

Next == (\E v \in Value : Push(v)) \/ Pop \/ Close

Step == [Next]_<<items, open>>

Spec == Init /\ [][Next]_<<items, open>>
=============================================================================
