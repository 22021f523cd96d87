---------------------------- MODULE MCContainers ----------------------------
(***************************************************************************)
(* Instances of ChunkQueue, RingBuffer and IntrusiveList for TLC.  They    *)
(* share no state: a behaviour runs one of them, as subject says.  The     *)
(* queue has enough chunks for a first, a last and one in between.         *)
(***************************************************************************)
EXTENDS ChunkQueue, RingBuffer, IntrusiveList

CONSTANTS a1, a2, a3, b1, b2, k1, k2, x1, x2, n1, n2, n3, l1, l2,
          Subject   \* the components a configuration looks at

VARIABLE subject

vars == <<queueVars, ringVars, listVars, subject>>

\* One initial state is enough for the nodes when the list does not move
Init ==
    /\ QueueInit /\ RingInit /\ ListInit
    /\ subject \in Subject
    /\ subject # "intrusive_list" => link = [n \in Node |-> NoNode]

Others(name) ==
    /\ subject = name
    /\ UNCHANGED subject
    /\ name # "queue" => UNCHANGED queueVars
    /\ name # "ring_buffer" => UNCHANGED ringVars
    /\ name # "intrusive_list" => UNCHANGED listVars

Next ==
    \/ Others("queue") /\ QueueNext
    \/ Others("ring_buffer") /\ RingNext
    \/ Others("intrusive_list") /\ ListNext

Spec == Init /\ [][Next]_vars
=============================================================================
