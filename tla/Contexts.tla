------------------------------ MODULE Contexts ------------------------------
(***************************************************************************)
(* The hierarchical logging contexts of logs/lib/logs.cpp and of           *)
(* logs/lib/contextutils.hpp.                                              *)
(*                                                                         *)
(* Every context is a node of ONE doubly linked list that starts at the    *)
(* root context.  Before the first set_level the list is in construction   *)
(* order; the first set_level sorts it so that the descendants of a        *)
(* context follow it, and from then on a constructor inserts a context     *)
(* right after its parent.  A context has an explicit level (m_lvl) and a  *)
(* cached inherited level (m_inherited_level), which set_level pushes down *)
(* the sorted list.                                                        *)
(*                                                                         *)
(* Constructors, destructors and set_level run under g_mut.  The first two *)
(* change the levels of no existing context, so each is one step; set_level *)
(* is modelled step by step, because loggers read the levels without the   *)
(* mutex while it runs (module Logging), and because its loops over the    *)
(* list are what may go wrong.                                             *)
(***************************************************************************)
EXTENDS Integers, FiniteSets

CONSTANTS
    Ctx,            \* the contexts a program may construct
    Root,           \* root_context()
    Null,           \* nullptr
    MaxLevel,       \* the highest level; level::unset comes right after it
    Parents,        \* Parents[c]: the contexts c may be declared a child of
    Settable,       \* the contexts whose level the program sets
    Debug,          \* TRUE: asserts are compiled in (NDEBUG is not defined)
    StaticsFirst,   \* when the list is sorted every parent is constructed
    ChildrenFirst   \* the program destroys the children before the parent

Node == Ctx \union {Root}
Unset == MaxLevel + 1
Level == 0 .. MaxLevel
AnyLevel == Level \union {Unset}

ASSUME NodesAssumption ==
    /\ Root \notin Ctx
    /\ Null \notin Node

ASSUME LevelsAssumption == MaxLevel \in Nat

ASSUME ProgramAssumption ==
    /\ Parents \in [Ctx -> SUBSET Node]
    /\ \A c \in Ctx : c \notin Parents[c]
    /\ Settable \subseteq Node
    /\ Debug \in BOOLEAN
    /\ StaticsFirst \in BOOLEAN
    /\ ChildrenFirst \in BOOLEAN

VARIABLES
    life,       \* "unborn", "alive" or "dead", for every node
    parent,     \* m_parent
    next,       \* m_next
    prev,       \* m_prev
    lvl,        \* m_lvl
    inh,        \* m_inherited_level
    organized,  \* g_organized
    \* The set_level call that holds g_mut ("idle": nobody holds it)
    pc,
    target,     \* this
    spread,     \* lvl, the level handed down
    child,      \* i in set_level
    frame,      \* the branch whose while loop runs, or target when none does
    branch,     \* branch in the innermost sync_inherited_log_levels
    it,         \* i in find_next_sibling, or the pointer being returned
    par, pivot, curr,   \* parent, pivot and curr of organize
    touched     \* history: the contexts whose m_inherited_level was written

objects == <<life, parent>>
links   == <<next, prev>>
levels  == <<lvl, inh>>
sorting == <<par, pivot, curr>>
syncing == <<child, frame, branch, it>>
call    == <<target, spread>>
vars == <<objects, links, levels, organized, pc, call, syncing, sorting, touched>>

Alive == {n \in Node : life[n] = "alive"}

\* context_base::effective_level, with the two loads as one
Effective(n) == IF lvl[n] # Unset THEN lvl[n] ELSE inh[n]

-----------------------------------------------------------------------------
Init ==
    /\ life = [n \in Node |-> IF n = Root THEN "alive" ELSE "unborn"]
    /\ parent = [n \in Node |-> Null]
    /\ next = [n \in Node |-> Null]
    /\ prev = [n \in Node |-> Null]
    /\ lvl = [n \in Node |-> Unset]
    /\ inh = [n \in Node |-> Unset]
    /\ organized = FALSE
    /\ pc = "idle"
    /\ target = Null /\ spread = Unset
    /\ child = Null /\ frame = Null /\ branch = Null /\ it = Null
    /\ par = Null /\ pivot = Null /\ curr = Null
    /\ touched = {}

-----------------------------------------------------------------------------
(* context_base(parent, name) and ~context_base() *)

\* No living context is without a living parent
NoOrphans == \A n \in Alive \ {Root} : parent[n] \in Alive

\* The program may hand out a reference to a context that is not constructed
\* yet (objects of static storage duration), but only before the list is
\* sorted; the address of a destroyed context is used again only when no
\* context still points at it.
MayConstruct(c, p) ==
    /\ life[c] # "alive"
    /\ life[c] = "dead" => \A n \in Alive : parent[n] # c
    /\ p \in Parents[c]
    /\ \/ life[p] = "alive"
       \/ life[p] = "unborn" /\ ~organized

LinkAfterMutant(a, n) ==
    /\ next' = [next EXCEPT ![n] = next[a], ![a] = n]
    /\ prev' = [prev EXCEPT ![n] = a]

\* Links n into the list, right after node a
LinkAfter(a, n) ==
    /\ next' = [next EXCEPT ![n] = next[a], ![a] = n]
    /\ prev' = IF next[a] # Null THEN [prev EXCEPT ![n] = a, ![next[a]] = n]
                                 ELSE [prev EXCEPT ![n] = a]

\* A sorted list stays sorted: the newcomer goes right after its parent
BirthPlaceMutant(p) == Root
BirthPlace(p) == IF organized THEN p ELSE Root

BirthLevelMutant(p) == Unset
BirthLevel(p) == IF organized THEN Effective(p) ELSE Unset

Construct(c, p) ==
    /\ pc = "idle"
    /\ MayConstruct(c, p)
    /\ life' = [life EXCEPT ![c] = "alive"]
    /\ parent' = [parent EXCEPT ![c] = p]
    /\ lvl' = [lvl EXCEPT ![c] = Unset]
    /\ inh' = [inh EXCEPT ![c] = BirthLevel(p)]
    /\ LinkAfter(BirthPlace(p), c)
    /\ UNCHANGED <<organized, pc, call, syncing, sorting, touched>>

UnlinkMutant(n) ==
    /\ next' = [next EXCEPT ![prev[n]] = next[n], ![n] = Null]
    /\ prev' = [prev EXCEPT ![n] = Null]

\* Takes n out of the list; its own fields are gone with it
Unlink(n) ==
    /\ next' = [next EXCEPT ![prev[n]] = next[n], ![n] = Null]
    /\ prev' = IF next[n] # Null THEN [prev EXCEPT ![next[n]] = prev[n], ![n] = Null]
                                 ELSE [prev EXCEPT ![n] = Null]

ForgetsParentMutant(n, c) == FALSE

\* A debug build clears the parent pointers of the children left behind
ForgetsParent(n, c) == Debug /\ parent[n] = c

Destroy(c) ==
    /\ pc = "idle"
    /\ life[c] = "alive"
    /\ ChildrenFirst => \A n \in Alive : parent[n] # c
    /\ life' = [life EXCEPT ![c] = "dead"]
    /\ parent' = [n \in Node |->
                    IF n = c \/ ForgetsParent(n, c) THEN Null ELSE parent[n]]
    /\ lvl' = [lvl EXCEPT ![c] = Unset]
    /\ inh' = [inh EXCEPT ![c] = Unset]
    /\ Unlink(c)
    /\ UNCHANGED <<organized, pc, call, syncing, sorting, touched>>

-----------------------------------------------------------------------------
(* set_level: the call, and organize() when the list is not sorted yet *)

SetLevel(n, l) ==
    /\ pc = "idle"
    /\ n \in Settable \intersect Alive
    /\ StaticsFirst /\ ~organized => NoOrphans
    /\ lvl' = [lvl EXCEPT ![n] = l]
    /\ target' = n
    /\ spread' = IF l # Unset THEN l ELSE inh[n]
    /\ IF organized
         THEN /\ pc' = "children"
              /\ child' = next[n]
              /\ UNCHANGED sorting
         ELSE /\ pc' = "organize"
              /\ par' = Root
              /\ pivot' = next[Root]
              /\ curr' = next[Root]
              /\ UNCHANGED child
    /\ UNCHANGED <<objects, links, inh, organized, frame, branch, it, touched>>

\* organize_next_child: does curr follow its parent already?
InPlaceMutant == FALSE
InPlace == next[par] = curr

\* ... curr is no child of parent
PassOver ==
    /\ pc = "organize" /\ curr # Null
    /\ parent[curr] # par
    /\ curr' = next[curr]
    /\ UNCHANGED <<objects, links, levels, organized, pc, call, syncing, par, pivot, touched>>

\* ... curr follows its parent already
KeepInPlace ==
    /\ pc = "organize" /\ curr # Null
    /\ parent[curr] = par /\ InPlace
    /\ IF Debug /\ curr # pivot
         THEN pc' = "aborted" /\ UNCHANGED sorting
         ELSE /\ pivot' = next[pivot]
              /\ curr' = next[pivot]
              /\ UNCHANGED <<pc, par>>
    /\ UNCHANGED <<objects, links, levels, organized, call, syncing, touched>>

\* ... curr is a child of parent somewhere else: it is moved right after the
\* parent, which must have a successor left once curr is unlinked
Relocate ==
    /\ pc = "organize" /\ curr # Null
    /\ parent[curr] = par /\ ~InPlace
    /\ LET before == prev[curr]
           after  == next[curr]
           next1  == [next EXCEPT ![before] = after]
           prev1  == IF after # Null THEN [prev EXCEPT ![after] = before] ELSE prev
           succ   == next1[par]
       IN IF succ = Null
            THEN pc' = "segv" /\ UNCHANGED <<links, curr>>
            ELSE /\ next' = [next1 EXCEPT ![curr] = succ, ![par] = curr]
                 /\ prev' = [prev1 EXCEPT ![curr] = par, ![succ] = curr]
                 /\ curr' = after
                 /\ UNCHANGED pc
    /\ UNCHANGED <<objects, levels, organized, call, syncing, par, pivot, touched>>

\* organize: the list is walked for one parent; on to the next, or done
NextParent ==
    /\ pc = "organize" /\ curr = Null
    /\ IF pivot # Null /\ next[par] # Null
         THEN /\ par' = next[par]
              /\ curr' = pivot
              /\ UNCHANGED <<organized, pc, pivot, child>>
         ELSE /\ organized' = TRUE
              /\ pc' = "children"
              /\ child' = next[target]
              /\ par' = Null /\ pivot' = Null /\ curr' = Null
    /\ UNCHANGED <<objects, links, levels, call, frame, branch, it, touched>>

-----------------------------------------------------------------------------
(* set_level: the loop over the children, and sync_inherited_log_levels    *)
(* The recursion needs no stack: a branch whose while loop calls sync is   *)
(* the parent of the branch it calls it for, so the caller of frame's loop *)
(* is found at parent[frame].                                              *)

\* find_next_sibling(n): where the search starts, and where it ends
SearchFromMutant(n) == n
SearchFrom(n) == next[n]

SearchEndsMutant(i, n) == TRUE
SearchEnds(i, n) == i = Null \/ parent[i] = parent[n]

\* sync_inherited_log_levels(n): the level of its own that ends the descent
HasOwnLevelMutant(n) == FALSE
HasOwnLevel(n) == lvl[n] # Unset

\* ... whether i is a child of n for the while loop to sync
IsChildMutant(i, n) == FALSE
IsChild(i, n) == i # Null /\ parent[i] = n

NextChild ==
    /\ pc = "children"
    /\ IF IsChild(child, target)
         THEN /\ pc' = "sync"
              /\ branch' = child
              /\ frame' = target
         ELSE pc' = "unlock" /\ UNCHANGED <<branch, frame>>
    /\ UNCHANGED <<objects, links, levels, organized, call, child, it, sorting, touched>>

\* The branch has a level of its own: find_next_sibling(branch) is returned
Shielded ==
    /\ pc = "sync" /\ HasOwnLevel(branch)
    /\ pc' = "sibling"
    /\ it' = SearchFrom(branch)
    /\ UNCHANGED <<objects, links, levels, organized, call, child, frame, branch, sorting, touched>>

\* The branch inherits; its successor is a sibling (tail call), its first
\* child (first turn of the while loop) or something else (returned)
Inherit ==
    /\ pc = "sync" /\ ~HasOwnLevel(branch)
    /\ inh' = [inh EXCEPT ![branch] = spread]
    /\ touched' = touched \union {branch}
    /\ LET succ == next[branch]
       IN \/ /\ IsChild(succ, parent[branch])
             /\ branch' = succ
             /\ UNCHANGED <<pc, frame, it>>
          \/ /\ IsChild(succ, branch)
             /\ frame' = branch
             /\ branch' = succ
             /\ UNCHANGED <<pc, it>>
          \/ /\ ~IsChild(succ, parent[branch]) /\ ~IsChild(succ, branch)
             /\ pc' = "return"
             /\ it' = succ
             /\ UNCHANGED <<frame, branch>>
    /\ UNCHANGED <<objects, links, lvl, organized, call, child, sorting>>

\* find_next_sibling called by sync_inherited_log_levels
FindSibling ==
    /\ pc = "sibling"
    /\ IF SearchEnds(it, branch)
         THEN pc' = "return" /\ UNCHANGED it
         ELSE it' = next[it] /\ UNCHANGED pc
    /\ UNCHANGED <<objects, links, levels, organized, call, child, frame, branch, sorting, touched>>

\* Does the while loop of frame take another turn, with it?
AnotherTurnMutant == it = Null \/ IsChild(it, frame)
AnotherTurn == IsChild(it, frame)

\* sync_inherited_log_levels has returned it
Return ==
    /\ pc = "return"
    /\ \/ /\ frame = target                 \* to set_level, which ignores it
          /\ pc' = "advance"
          /\ it' = SearchFrom(child)
          /\ UNCHANGED <<frame, branch>>
       \/ /\ frame # target                 \* to the while loop of frame ...
          /\ AnotherTurn
          /\ pc' = "sync"                   \* ... which takes another turn
          /\ branch' = it
          /\ UNCHANGED <<frame, it>>
       \/ /\ frame # target
          /\ ~AnotherTurn
          /\ frame' = parent[frame]         \* ... which ends and returns it
          /\ UNCHANGED <<pc, branch, it>>
    /\ UNCHANGED <<objects, links, levels, organized, call, child, sorting, touched>>

\* find_next_sibling called by the loop of set_level
Advance ==
    /\ pc = "advance"
    /\ IF SearchEnds(it, child)
         THEN pc' = "children" /\ child' = it /\ UNCHANGED it
         ELSE it' = next[it] /\ UNCHANGED <<pc, child>>
    /\ UNCHANGED <<objects, links, levels, organized, call, frame, branch, sorting, touched>>

\* The call ends: g_mut is released and the locals are gone
Unlock ==
    /\ pc = "unlock"
    /\ pc' = "idle"
    /\ target' = Null /\ spread' = Unset
    /\ child' = Null /\ frame' = Null /\ branch' = Null /\ it' = Null
    /\ touched' = {}
    /\ UNCHANGED <<objects, links, levels, organized, sorting>>

-----------------------------------------------------------------------------
Organize == PassOver \/ KeepInPlace \/ Relocate \/ NextParent

Sync == NextChild \/ Shielded \/ Inherit \/ FindSibling \/ Return \/ Advance

\* The steps of the call that holds g_mut
Holder == Organize \/ Sync \/ Unlock

Next ==
    \/ \E c \in Ctx : \E p \in Parents[c] : Construct(c, p)
    \/ \E c \in Ctx : Destroy(c)
    \/ \E n \in Settable, l \in AnyLevel : SetLevel(n, l)
    \/ Holder

\* The thread that holds g_mut keeps running
Spec == Init /\ [][Next]_vars /\ WF_vars(Holder)
-----------------------------------------------------------------------------
(* Properties *)

Sorting == pc = "organize"
Syncing == pc \in {"sync", "sibling", "return"}
Walking == Syncing \/ pc \in {"children", "advance"}

\* Types.  The loops of set_level never run on a null pointer: whoever holds
\* g_mut works for a node, a branch being synced is a node, and so is the node
\* whose children are collected (the null checks of lines 115 and 117 of
\* logs.cpp and of organize).
TypeOK ==
    /\ life \in [Node -> {"unborn", "alive", "dead"}]
    /\ parent \in [Node -> Node \union {Null}]
    /\ next \in [Node -> Node \union {Null}]
    /\ prev \in [Node -> Node \union {Null}]
    /\ lvl \in [Node -> AnyLevel]
    /\ inh \in [Node -> AnyLevel]
    /\ organized \in BOOLEAN
    /\ pc \in {"idle", "organize", "children", "sync", "sibling", "return",
               "advance", "unlock", "aborted", "segv"}
    /\ target \in Node \union {Null} /\ (pc # "idle" => target \in Node)
    /\ spread \in AnyLevel
    /\ child \in Node \union {Null} /\ (Syncing \/ pc = "advance" => child \in Node)
    /\ frame \in Node \union {Null} /\ (Syncing => frame \in Node)
    /\ branch \in Node \union {Null} /\ (Syncing => branch \in Node)
    /\ it \in Node \union {Null}
    /\ par \in Node \union {Null} /\ (Sorting => par \in Node)
    /\ pivot \in Node \union {Null} /\ (Sorting /\ curr # Null => pivot \in Node)
    /\ curr \in Node \union {Null}
    /\ touched \subseteq Node

\* The links are inverse to each other and stay among the living: nobody is
\* left pointing at a destroyed context (the destructor, the constructor and
\* every relocation of organize_next_child, lines 38-46).
DoublyLinked ==
    /\ prev[Root] = Null
    /\ \A n \in Alive : next[n] # Null => next[n] \in Alive /\ prev[next[n]] = n
    /\ \A n \in Alive \ {Root} : prev[n] \in Alive /\ next[prev[n]] = n

\* Walking the list from the root meets every living context, and nobody else,
\* and comes to an end, whatever was constructed, destroyed and sorted before:
\* a set with the root in it and without some living context has a way out
\* (contains_loops of contextutils.hpp; the link check of is_valid_tree can
\* never fail).
ListIsComplete ==
    /\ \A S \in SUBSET Alive :
           Root \in S /\ S # Alive => \E n \in S : next[n] \notin S \union {Null}
    /\ \A n \in Alive : next[n] # Null => next[n] \in Alive
    /\ \E n \in Alive : next[n] = Null

\* A node and the nodes above it: m is above n when no set without m holds n
\* and the parents of its members
Lineage(n) ==
    {m \in Node :
        \A S \in SUBSET (Node \ {m}) : n \in S => \E k \in S : parent[k] \in Node \ S}

Descendants(n) == {m \in Alive \ {n} : n \in Lineage(m)}

\* The list is in preorder once g_organized is set: the predecessor of a
\* context is its parent or a descendant of its parent ("all node children are
\* placed immediately after the node", logs.cpp:34-36), so that the loops of
\* set_level may stop at the first node that belongs to somebody else.
Preorder == organized => \A n \in Alive \ {Root} : parent[n] \in Lineage(prev[n])

\* organize_next_child never follows the null successor of a relocated node
NoFault == pc # "segv"

\* Every child without a level of its own has taken over the level when
\* set_level returns, however its siblings and their subtrees are set.
ChildrenUpdated ==
    pc = "unlock" =>
        \A n \in Alive : parent[n] = target /\ lvl[n] = Unset => inh[n] = Effective(target)

\* When no descendant has a level of its own, all of them have taken it over.
SubtreeUpdated ==
    pc = "unlock" =>
        LET below == Descendants(target)
        IN (\A n \in below : lvl[n] = Unset) =>
               \A n \in below : inh[n] = Effective(target)

\* What set_level owes to the contexts below its target when it returns.
LevelSpreads == ChildrenUpdated /\ SubtreeUpdated

\* Between calls a context without a level of its own has the effective level
\* of its parent ("Setting a log level for a logger also applies to its
\* descendants", logs.hpp:43-46).
InheritsParent ==
    pc = "idle" =>
        \A n \in Alive \ {Root} :
            lvl[n] = Unset /\ parent[n] \in Alive => inh[n] = Effective(parent[n])

\* A debug build leaves no living context pointing at a destroyed parent, so
\* that the consumer's assertion can tell (~context_base, logs.cpp:168-175).
NoDanglingParent ==
    Debug => \A n \in Alive \ {Root} : parent[n] # Null => life[parent[n]] # "dead"

\* set_level returns: organize does end although its pivot may lag behind, and
\* the loops over the list neither cycle nor restart forever.
CallReturns == pc # "idle" ~> pc = "idle"

\* The contexts keep the promise of module LevelTree.
Promise == INSTANCE LevelTree

\* Every step of the sorted list is a step of the level tree or a stutter: a
\* level of its own shields a whole subtree, only descendants of the target
\* are written, and a newcomer starts with the level of its parent, whatever
\* order the list is in (sync_inherited_log_levels and the constructor).
KeepsPromise == Promise!Spec

-----------------------------------------------------------------------------
(* What an assertion says, and the code does not do *)

\* The assertion of contextutils.hpp:31: a node that follows its parent already
\* is the pivot of organize.
PivotIsCurrent == pc # "aborted"
=============================================================================
