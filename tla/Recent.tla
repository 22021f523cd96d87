------------------------------- MODULE Recent -------------------------------
(***************************************************************************)
(* What a ring buffer promises: it has room for a number of elements,      *)
(* keeps the ones put last, and gives them back the oldest first.          *)
(***************************************************************************)
EXTENDS Sequences, Naturals

CONSTANTS Item, Capacity

VARIABLES
    items,  \* the elements, the oldest first
    room    \* the capacity; 0: there is no buffer

Init == items = <<>> /\ room = 0

Open(c) == room = 0 /\ room' = c /\ items' = <<>>

Put(v) ==
    /\ room # 0
    /\ items' = Append(IF Len(items) = room THEN Tail(items) ELSE items, v)
    /\ UNCHANGED room

Take == items # <<>> /\ items' = Tail(items) /\ UNCHANGED room

Close == room # 0 /\ room' = 0 /\ items' = <<>>

Next == (\E c \in Capacity : Open(c)) \/ (\E v \in Item : Put(v)) \/ Take \/ Close

Step == [Next]_<<items, room>>

Spec == Init /\ [][Next]_<<items, room>>
=============================================================================
