---------------------------- MODULE IntrusiveList ----------------------------
(***************************************************************************)
(* upp::intrusive_list of core/include/upp/intrusive_list.hpp.  The links  *)
(* are members of the nodes: a node remembers its last successor after it  *)
(* was popped, and takes that link along into the next list.               *)
(***************************************************************************)
EXTENDS Integers, Sequences, FiniteSets, SequencesExt

CONSTANTS
    List,       \* the intrusive_list objects
    Node,       \* the nodes
    NoNode,     \* nullptr
    SharesNodes \* TRUE: lists are assigned while they hold nodes, and share them

ASSUME ListAssumption ==
    NoNode \notin Node /\ IsFiniteSet(Node) /\ SharesNodes \in BOOLEAN

VARIABLES
    list_front, list_back,  \* of each list
    link                    \* Traits::next of each node

listVars == <<list_front, list_back, link>>

\* A node may be constructed without a value for its link
ListInit ==
    /\ list_front = [l \in List |-> NoNode]
    /\ list_back = [l \in List |-> NoNode]
    /\ link \in [Node -> Node \union {NoNode}]

ListEmpty(l) == list_front[l] = NoNode

\* The node i steps from the front
Step(l) ==
    LET at[i \in 0 .. Cardinality(Node)] ==
            IF i = 0 THEN list_front[l]
            ELSE IF at[i - 1] = NoNode THEN NoNode ELSE link[at[i - 1]]
    IN at

\* size(): the steps to the end; more than there are nodes if it has none
ListSize(l) ==
    LET on == {i \in 0 .. Cardinality(Node) : Step(l)[i] # NoNode} IN Cardinality(on)

\* The nodes an iteration from begin() to end() visits
Members(l) == [i \in 1 .. ListSize(l) |-> Step(l)[i - 1]]

-----------------------------------------------------------------------------
LinkAfterPushMutant(l, n) ==
    [m \in Node |-> IF ~ListEmpty(l) /\ m = list_back[l] THEN n ELSE link[m]]
\* The link of the new node is reset, and that of the last node leads to it
LinkAfterPush(l, n) ==
    [m \in Node |-> IF ~ListEmpty(l) /\ m = list_back[l] THEN n
                    ELSE IF m = n THEN NoNode
                    ELSE link[m]]

BackAfterPushMutant(l, n) == IF ListEmpty(l) THEN list_back[l] ELSE n
BackAfterPush(l, n) == n

\* A node is pushed when it is in no list.  What list_back holds of an empty list
\* does not matter.
PushBack(l, n) ==
    /\ \A o \in List : ~Contains(Members(o), n)
    /\ link' = LinkAfterPush(l, n)
    /\ list_front' = [list_front EXCEPT ![l] = IF ListEmpty(l) THEN n ELSE @]
    /\ list_back' = [list_back EXCEPT ![l] = BackAfterPush(l, n)]

FrontAfterPopMutant(l) == list_back[l]
FrontAfterPop(l) == link[list_front[l]]

\* list_back and the link of the node stay as they are
PopFront(l) ==
    /\ ~ListEmpty(l)
    /\ list_front' = [list_front EXCEPT ![l] = FrontAfterPop(l)]
    /\ UNCHANGED <<list_back, link>>

\* The implicit copies and moves: both pointers are copied, and the other list keeps
\* them
Assign(l, other) ==
    /\ SharesNodes \/ l = other \/ (ListEmpty(l) /\ ListEmpty(other))
    /\ list_front' = [list_front EXCEPT ![l] = list_front[other]]
    /\ list_back' = [list_back EXCEPT ![l] = list_back[other]]
    /\ UNCHANGED <<link>>

ListNext ==
    \/ \E l \in List, n \in Node : PushBack(l, n)
    \/ \E l \in List : PopFront(l)
    \/ \E l, other \in List : Assign(l, other)

ListSpec == ListInit /\ [][ListNext]_listVars

-----------------------------------------------------------------------------
(* Properties *)

\* Types; a list with a front has a back.
ListTypeOK ==
    /\ list_front \in [List -> Node \union {NoNode}]
    /\ list_back \in [List -> Node \union {NoNode}]
    /\ link \in [Node -> Node \union {NoNode}]
    /\ \A l \in List : ~ListEmpty(l) => list_back[l] # NoNode

\* The links left behind by earlier pushes, pops and by the construction of the
\* nodes never show: no two lists meet, none runs into itself (size() and every
\* iteration come to an end), and back() is the last node, which push_back
\* relies on.
ListsAreSound ==
    /\ ListTypeOK
    /\ \A l \in List :
          /\ IsInjective(Members(l))
          /\ ~ListEmpty(l) => Last(Members(l)) = list_back[l]
    /\ \A l, o \in List :
          l # o => ToSet(Members(l)) \intersect ToSet(Members(o)) = {}

InOrder(l) == INSTANCE Fifo WITH Value <- Node, items <- Members(l), open <- TRUE

\* Each list is a first in, first out queue of nodes: a list that was emptied,
\* whose list_back is stale, is as good as a new one.
ListServesInOrder ==
    /\ \A l \in List : InOrder(l)!Init
    /\ [][\A l \in List : InOrder(l)!Step]_listVars
=============================================================================
