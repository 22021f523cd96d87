--------------------------- MODULE ContextsProofs ---------------------------
(***************************************************************************)
(* Proofs about Contexts, for any set of contexts, any levels, any         *)
(* declared hierarchy, release and debug builds, and without assuming that *)
(* the program constructs or destroys its contexts in a sensible order.    *)
(***************************************************************************)
EXTENDS Contexts, TLAPS

-----------------------------------------------------------------------------
(* The inductive invariant *)

\* The list: links are inverse, the root heads it, nobody is its own parent
ListInv ==
    /\ life[Root] = "alive"
    /\ parent[Root] = Null
    /\ \A n \in Node : parent[n] # n
    /\ DoublyLinked

\* organize works on living nodes
SortInv ==
    Sorting =>
        /\ par \in Alive
        /\ pivot \in Alive \union {Null}
        /\ curr \in Alive \union {Null}
        /\ curr # Null => pivot # Null

\* The recursion of sync: every context that was written hangs from the target
\* by contexts that were written, and the branch hangs from the frame
SyncInv ==
    /\ pc = "idle" => target = Null /\ touched = {}
    /\ pc # "idle" => target \in Alive
    /\ \A n \in touched : n \in Alive /\ parent[n] \in touched \union {target}
    /\ Walking => child \in Alive \union {Null}
    /\ Syncing \/ pc = "advance" => child \in Alive
    /\ Syncing => branch \in Alive /\ frame \in touched \union {target}
    /\ pc \in {"sync", "sibling"} => parent[branch] = frame
    /\ pc \in {"sibling", "return", "advance"} => it \in Alive \union {Null}

\* No level is set before the list is sorted
FreshInv ==
    /\ Walking \/ pc = "unlock" => organized
    /\ ~organized /\ pc = "idle" => \A n \in Node : lvl[n] = Unset /\ inh[n] = Unset

IInv == TypeOK /\ ListInv /\ SortInv /\ SyncInv /\ FreshInv

-----------------------------------------------------------------------------
LEMMA InitInv == Init => IInv
<1> SUFFICES ASSUME Init PROVE IInv
  OBVIOUS
<1> USE NodesAssumption DEF Init, Node
<1>1. Unset \in AnyLevel
  BY DEF AnyLevel
<1>2. Alive = {Root}
  BY DEF Alive
<1>3. TypeOK
  BY <1>1 DEF TypeOK, Sorting, Syncing
<1>4. ListInv
  BY <1>2 DEF ListInv, DoublyLinked
<1>5. SortInv /\ SyncInv /\ FreshInv
  BY DEF SortInv, SyncInv, FreshInv, Sorting, Syncing, Walking
<1> QED BY <1>3, <1>4, <1>5 DEF IInv

LEMMA StutterInv == IInv /\ UNCHANGED vars => IInv'
  BY DEF vars, objects, links, levels, sorting, syncing, call,
      IInv, TypeOK, ListInv, SortInv, SyncInv, FreshInv, DoublyLinked, Alive,
      Sorting, Syncing, Walking

LEMMA EffectiveType ==
    ASSUME TypeOK, NEW n \in Node
    PROVE  Effective(n) \in AnyLevel
  BY DEF TypeOK, Effective

LEMMA ConstructInv ==
    ASSUME IInv, NEW c \in Ctx, NEW p \in Parents[c], Construct(c, p)
    PROVE  IInv'
<1> USE NodesAssumption DEF Node
<1>1. /\ p \in Node /\ p # c
      /\ c \in Node /\ c # Root /\ c \notin Alive
  BY ProgramAssumption DEF Construct, MayConstruct, Alive
<1>2. Effective(p) \in AnyLevel /\ Unset \in AnyLevel
  BY <1>1, EffectiveType DEF IInv, AnyLevel
<1>3. TypeOK'
  BY <1>1, <1>2
  DEF Construct, LinkAfter, BirthPlace, BirthLevel, IInv, TypeOK, Sorting, Syncing,
      call, syncing, sorting
<1>4. Alive' = Alive \union {c}
  BY <1>1 DEF Construct, Alive, IInv, TypeOK
<1>5. BirthPlace(p) \in Alive
  BY <1>1 DEF Construct, MayConstruct, BirthPlace, IInv, ListInv, Alive
<1>6. ListInv'
  <2>1. life'[Root] = "alive" /\ parent'[Root] = Null
    BY <1>1 DEF Construct, IInv, ListInv, TypeOK
  <2>2. \A n \in Node : parent'[n] # n
    BY <1>1 DEF Construct, IInv, ListInv, TypeOK
  <2>3. DoublyLinked'
    BY <1>1, <1>4, <1>5 DEF Construct, LinkAfter, IInv, ListInv, DoublyLinked, TypeOK, Alive
  <2> QED BY <2>1, <2>2, <2>3 DEF ListInv
<1>7. SortInv' /\ SyncInv'
  BY DEF Construct, IInv, SortInv, SyncInv, Sorting, Syncing, Walking, call, syncing, sorting
<1>8. FreshInv'
  BY <1>1 DEF Construct, BirthLevel, IInv, FreshInv, TypeOK, Walking, Syncing, call
<1> QED BY <1>3, <1>6, <1>7, <1>8 DEF IInv

LEMMA DestroyInv ==
    ASSUME IInv, NEW c \in Ctx, Destroy(c)
    PROVE  IInv'
<1> USE NodesAssumption DEF Node
<1>1. /\ c \in Node /\ c # Root /\ c \in Alive
      /\ prev[c] \in Alive /\ next[prev[c]] = c
      /\ next[c] # Null => next[c] \in Alive /\ prev[next[c]] = c
  BY DEF Destroy, Alive, IInv, ListInv, DoublyLinked
<1>2. Unset \in AnyLevel
  BY DEF AnyLevel
<1>3. TypeOK'
  BY <1>1, <1>2
  DEF Destroy, Unlink, IInv, TypeOK, Sorting, Syncing, call, syncing, sorting
<1>4. Alive' = Alive \ {c}
  BY <1>1 DEF Destroy, Alive, IInv, TypeOK
<1>6. ListInv'
  <2>1. life'[Root] = "alive" /\ parent'[Root] = Null
    BY <1>1 DEF Destroy, IInv, ListInv, TypeOK
  <2>2. \A n \in Node : parent'[n] # n
    BY <1>1 DEF Destroy, IInv, ListInv, TypeOK
  <2>3. DoublyLinked'
    BY <1>1, <1>4 DEF Destroy, Unlink, IInv, ListInv, DoublyLinked, TypeOK, Alive
  <2> QED BY <2>1, <2>2, <2>3 DEF ListInv
<1>7. SortInv' /\ SyncInv'
  BY DEF Destroy, IInv, SortInv, SyncInv, Sorting, Syncing, Walking, call, syncing, sorting
<1>8. FreshInv'
  BY <1>1 DEF Destroy, IInv, FreshInv, TypeOK, Walking, Syncing, call
<1> QED BY <1>3, <1>6, <1>7, <1>8 DEF IInv

LEMMA SetLevelInv ==
    ASSUME IInv, NEW n \in Settable, NEW l \in AnyLevel, SetLevel(n, l)
    PROVE  IInv'
<1> USE NodesAssumption DEF Node
<1>1. n \in Node /\ n \in Alive /\ Root \in Alive /\ pc = "idle"
  BY DEF SetLevel, Alive, IInv, ListInv
<1>2. next[n] \in Alive \union {Null} /\ next[Root] \in Alive \union {Null}
  BY <1>1 DEF IInv, ListInv, DoublyLinked, TypeOK
<1>3. Alive' = Alive
  BY DEF SetLevel, Alive, objects
<1>4. TypeOK'
  BY <1>1, <1>2 DEF SetLevel, IInv, TypeOK, Sorting, Syncing, Alive, objects, links, sorting
<1>5. ListInv'
  BY <1>3 DEF SetLevel, IInv, ListInv, DoublyLinked, objects, links
<1>6. SortInv'
  BY <1>1, <1>2, <1>3 DEF SetLevel, IInv, SortInv, Sorting, sorting
<1>7. SyncInv'
  BY <1>1, <1>2, <1>3 DEF SetLevel, IInv, SyncInv, Walking, Syncing, objects, links
<1>8. FreshInv'
  BY <1>1 DEF SetLevel, IInv, FreshInv, Walking, Syncing
<1> QED BY <1>4, <1>5, <1>6, <1>7, <1>8 DEF IInv

\* The steps of the holder that change neither links nor life
LEMMA QuietInv ==
    ASSUME IInv, UNCHANGED <<objects, links>>
    PROVE  ListInv' /\ Alive' = Alive
  BY DEF IInv, ListInv, DoublyLinked, Alive, objects, links

LEMMA OrganizeInv ==
    ASSUME IInv, Organize
    PROVE  IInv'
<1> USE NodesAssumption DEF Node
<1>1. CASE PassOver
  <2>1. next[curr] \in Alive \union {Null}
    BY <1>1 DEF PassOver, IInv, ListInv, SortInv, Sorting, DoublyLinked
  <2>2. ListInv' /\ Alive' = Alive
    BY <1>1, QuietInv DEF PassOver
  <2>3. TypeOK'
    BY <1>1, <2>1 DEF PassOver, IInv, TypeOK, SortInv, Sorting, Syncing, Alive,
        objects, links, levels, call, syncing
  <2>4. SortInv' /\ SyncInv' /\ FreshInv'
    BY <1>1, <2>1, <2>2 DEF PassOver, IInv, SortInv, SyncInv, FreshInv, Sorting, Syncing,
        Walking, objects, links, levels, call, syncing
  <2> QED BY <2>2, <2>3, <2>4 DEF IInv
<1>2. CASE KeepInPlace
  <2>1. pivot \in Alive /\ next[pivot] \in Alive \union {Null}
    BY <1>2 DEF KeepInPlace, IInv, ListInv, SortInv, Sorting, DoublyLinked
  <2>2. ListInv' /\ Alive' = Alive
    BY <1>2, QuietInv DEF KeepInPlace
  <2>3. TypeOK'
    BY <1>2, <2>1 DEF KeepInPlace, IInv, TypeOK, SortInv, Sorting, Syncing, Alive,
        objects, links, levels, call, syncing, sorting
  <2>4. SortInv' /\ SyncInv' /\ FreshInv'
    BY <1>2, <2>1, <2>2 DEF KeepInPlace, IInv, SortInv, SyncInv, FreshInv, Sorting, Syncing,
        Walking, objects, links, levels, call, syncing, sorting
  <2> QED BY <2>2, <2>3, <2>4 DEF IInv
<1>3. CASE Relocate
  <2> DEFINE before == prev[curr]
             after  == next[curr]
             next1  == [next EXCEPT ![before] = after]
             prev1  == IF after # Null THEN [prev EXCEPT ![after] = before] ELSE prev
             succ   == next1[par]
  <2>1. /\ curr \in Alive /\ par \in Alive /\ curr # Root /\ curr # par
        /\ parent[curr] = par /\ next[par] # curr
    BY <1>3 DEF Relocate, InPlace, IInv, SortInv, ListInv, Sorting, TypeOK, Alive
  <2>2. /\ before \in Alive /\ next[before] = curr
        /\ after # Null => after \in Alive /\ prev[after] = curr
    BY <2>1 DEF IInv, ListInv, DoublyLinked
  <2>3. before # par
    BY <2>1, <2>2
  <2>4. succ = next[par]
    BY <2>1, <2>2, <2>3 DEF IInv, TypeOK, Alive
  <2>5. /\ after \in Alive \union {Null}
        /\ succ # Null => succ \in Alive /\ prev[succ] = par /\ succ # curr
    BY <2>1, <2>2, <2>4 DEF IInv, ListInv, DoublyLinked
  <2>6. Alive' = Alive /\ life' = life /\ parent' = parent
    BY <1>3 DEF Relocate, Alive, objects
  <2>7. \/ pc' = "segv" /\ next' = next /\ prev' = prev /\ curr' = curr
        \/ /\ succ # Null
           /\ next' = [next1 EXCEPT ![curr] = succ, ![par] = curr]
           /\ prev' = [prev1 EXCEPT ![curr] = par, ![succ] = curr]
           /\ curr' = after
           /\ pc' = pc
    BY <1>3 DEF Relocate, links
  <2>8. DoublyLinked'
    <3>1. CASE next' = next /\ prev' = prev
      BY <3>1, <2>6 DEF IInv, ListInv, DoublyLinked
    <3>2. CASE /\ succ # Null
               /\ next' = [next1 EXCEPT ![curr] = succ, ![par] = curr]
               /\ prev' = [prev1 EXCEPT ![curr] = par, ![succ] = curr]
      <4>1. next \in [Node -> Node \union {Null}] /\ prev \in [Node -> Node \union {Null}]
        BY DEF IInv, TypeOK
      <4>2. Alive \subseteq Node /\ Null \notin Alive /\ Root \in Alive
        BY DEF Alive, IInv, ListInv
      <4>3. DoublyLinked
        BY DEF IInv, ListInv
      <4>4. prev'[Root] = Null
        BY <3>2, <4>1, <4>2, <4>3, <2>1, <2>2, <2>3, <2>4, <2>5 DEF DoublyLinked
      <4>5. ASSUME NEW n \in Alive, next'[n] # Null
            PROVE  next'[n] \in Alive /\ prev'[next'[n]] = n
        BY <4>5, <3>2, <4>1, <4>2, <4>3, <2>1, <2>2, <2>3, <2>4, <2>5 DEF DoublyLinked
      <4>6. ASSUME NEW n \in Alive \ {Root}
            PROVE  prev'[n] \in Alive /\ next'[prev'[n]] = n
        BY <3>2, <4>1, <4>2, <4>3, <2>1, <2>2, <2>3, <2>4, <2>5 DEF DoublyLinked
      <4> QED BY <4>4, <4>5, <4>6, <2>6 DEF DoublyLinked
    <3> QED BY <2>7, <3>1, <3>2
  <2>9. ListInv'
    BY <2>6, <2>8 DEF IInv, ListInv
  <2>10. TypeOK'
    BY <1>3, <2>1, <2>2, <2>5, <2>7 DEF Relocate, IInv, TypeOK, SortInv, Sorting, Syncing,
        Alive, objects, links, levels, call, syncing
  <2>11. SortInv' /\ SyncInv' /\ FreshInv'
    BY <1>3, <2>5, <2>6, <2>7 DEF Relocate, IInv, SortInv, SyncInv, FreshInv, Sorting,
        Syncing, Walking, levels, call, syncing
  <2> QED BY <2>9, <2>10, <2>11 DEF IInv
<1>4. CASE NextParent
  <2>1. /\ par \in Alive /\ next[par] \in Alive \union {Null}
        /\ target \in Alive /\ next[target] \in Alive \union {Null}
    BY <1>4 DEF NextParent, IInv, ListInv, SortInv, SyncInv, Sorting, DoublyLinked
  <2>2. ListInv' /\ Alive' = Alive
    BY <1>4, QuietInv DEF NextParent
  <2>3. TypeOK'
    <3>1. CASE pivot # Null /\ next[par] # Null
      BY <1>4, <2>1, <3>1 DEF NextParent, IInv, TypeOK, Sorting, Syncing, Alive,
          objects, links, levels, call
    <3>2. CASE ~(pivot # Null /\ next[par] # Null)
      BY <1>4, <2>1, <3>2 DEF NextParent, IInv, TypeOK, Sorting, Syncing, Alive,
          objects, links, levels, call
    <3> QED BY <3>1, <3>2
  <2>4. SortInv'
    BY <1>4, <2>1, <2>2 DEF NextParent, IInv, SortInv, Sorting
  <2>5. SyncInv' /\ FreshInv'
    BY <1>4, <2>1, <2>2 DEF NextParent, IInv, SyncInv, FreshInv, Syncing, Walking,
        objects, levels, call
  <2> QED BY <2>2, <2>3, <2>4, <2>5 DEF IInv
<1> QED BY <1>1, <1>2, <1>3, <1>4 DEF Organize

LEMMA SyncStepInv ==
    ASSUME IInv, Sync
    PROVE  IInv'
<1> USE NodesAssumption DEF Node
<1>1. /\ Alive \subseteq Node /\ Null \notin Alive
      /\ \A n \in Alive : next[n] \in Alive \union {Null}
      /\ touched \subseteq Alive
      /\ pc # "idle" => target \in Alive
  BY DEF IInv, ListInv, SyncInv, DoublyLinked, Alive
<1>2. ListInv' /\ Alive' = Alive
  BY QuietInv DEF Sync, NextChild, Shielded, Inherit, FindSibling, Return, Advance
<1>3. SortInv'
  BY DEF Sync, NextChild, Shielded, Inherit, FindSibling, Return, Advance, SortInv, Sorting
<1>4. CASE NextChild
  <2>1. TypeOK'
    BY <1>1, <1>4 DEF NextChild, IInv, TypeOK, SyncInv, Sorting, Syncing, Walking, IsChild,
        objects, links, levels, call, sorting
  <2>2. SyncInv' /\ FreshInv'
    BY <1>1, <1>2, <1>4 DEF NextChild, IInv, SyncInv, FreshInv, Syncing, Walking, IsChild,
        objects, levels, call
  <2> QED BY <1>2, <1>3, <2>1, <2>2 DEF IInv
<1>5. CASE Shielded
  <2>1. TypeOK'
    BY <1>1, <1>5 DEF Shielded, IInv, TypeOK, SyncInv, Sorting, Syncing, SearchFrom,
        objects, links, levels, call, sorting
  <2>2. SyncInv' /\ FreshInv'
    BY <1>1, <1>2, <1>5 DEF Shielded, IInv, SyncInv, FreshInv, Syncing, Walking, SearchFrom,
        objects, levels, call
  <2> QED BY <1>2, <1>3, <2>1, <2>2 DEF IInv
<1>6. CASE Inherit
  <2> DEFINE succ == next[branch]
  <2>1. /\ branch \in Alive /\ succ \in Alive \union {Null}
        /\ parent[branch] = frame /\ frame \in touched \union {target}
    BY <1>1, <1>6 DEF Inherit, IInv, SyncInv, Syncing
  <2>2. /\ touched' = touched \union {branch}
        /\ inh' = [inh EXCEPT ![branch] = spread]
        /\ \/ /\ IsChild(succ, parent[branch])
              /\ branch' = succ /\ frame' = frame /\ pc' = "sync" /\ it' = it
           \/ /\ IsChild(succ, branch)
              /\ branch' = succ /\ frame' = branch /\ pc' = "sync" /\ it' = it
           \/ pc' = "return" /\ it' = succ /\ branch' = branch /\ frame' = frame
    BY <1>6 DEF Inherit
  <2>3. TypeOK'
    BY <1>1, <1>6, <2>1, <2>2 DEF Inherit, IInv, TypeOK, Sorting, Syncing, IsChild,
        objects, links, call, sorting
  <2>4. SyncInv'
    BY <1>1, <1>2, <1>6, <2>1, <2>2 DEF Inherit, IInv, SyncInv, Syncing, Walking, IsChild,
        objects, call
  <2>5. FreshInv'
    BY <1>6, <2>2 DEF Inherit, IInv, FreshInv, Syncing, Walking
  <2> QED BY <1>2, <1>3, <2>3, <2>4, <2>5 DEF IInv
<1>7. CASE FindSibling
  <2>1. TypeOK'
    BY <1>1, <1>7 DEF FindSibling, IInv, TypeOK, SyncInv, Sorting, Syncing, SearchEnds,
        objects, links, levels, call, sorting
  <2>2. SyncInv' /\ FreshInv'
    BY <1>1, <1>2, <1>7 DEF FindSibling, IInv, SyncInv, FreshInv, Syncing, Walking, SearchEnds,
        objects, levels, call
  <2> QED BY <1>2, <1>3, <2>1, <2>2 DEF IInv
<1>8. CASE Return
  <2>1. /\ child \in Alive /\ next[child] \in Alive \union {Null}
        /\ frame # target => parent[frame] \in touched \union {target}
        /\ it \in Alive \union {Null}
    BY <1>1, <1>8 DEF Return, IInv, SyncInv, Syncing
  <2>2. TypeOK'
    BY <1>1, <1>8, <2>1 DEF Return, IInv, TypeOK, SyncInv, Sorting, Syncing, SearchFrom,
        AnotherTurn, IsChild, objects, links, levels, call, sorting
  <2>3. SyncInv' /\ FreshInv'
    BY <1>1, <1>2, <1>8, <2>1 DEF Return, IInv, SyncInv, FreshInv, Syncing, Walking, SearchFrom,
        AnotherTurn, IsChild, objects, levels, call
  <2> QED BY <1>2, <1>3, <2>2, <2>3 DEF IInv
<1>9. CASE Advance
  <2>1. TypeOK'
    BY <1>1, <1>9 DEF Advance, IInv, TypeOK, SyncInv, Sorting, Syncing, SearchEnds,
        objects, links, levels, call, sorting
  <2>2. SyncInv' /\ FreshInv'
    BY <1>1, <1>2, <1>9 DEF Advance, IInv, SyncInv, FreshInv, Syncing, Walking, SearchEnds,
        objects, levels, call
  <2> QED BY <1>2, <1>3, <2>1, <2>2 DEF IInv
<1> QED BY <1>4, <1>5, <1>6, <1>7, <1>8, <1>9 DEF Sync

LEMMA UnlockInv ==
    ASSUME IInv, Unlock
    PROVE  IInv'
<1>1. ListInv' /\ Alive' = Alive
  BY QuietInv DEF Unlock
<1>2. TypeOK'
  BY DEF Unlock, IInv, TypeOK, Sorting, Syncing, AnyLevel, objects, links, levels, sorting
<1>3. SortInv' /\ SyncInv' /\ FreshInv'
  BY DEF Unlock, IInv, SortInv, SyncInv, FreshInv, Sorting, Syncing, Walking, levels
<1> QED BY <1>1, <1>2, <1>3 DEF IInv

LEMMA NextInv == IInv /\ [Next]_vars => IInv'
<1> SUFFICES ASSUME IInv, [Next]_vars PROVE IInv'
  OBVIOUS
<1>1. CASE \E c \in Ctx : \E p \in Parents[c] : Construct(c, p)
  BY <1>1, ConstructInv
<1>2. CASE \E c \in Ctx : Destroy(c)
  BY <1>2, DestroyInv
<1>3. CASE \E n \in Settable, l \in AnyLevel : SetLevel(n, l)
  BY <1>3, SetLevelInv
<1>4. CASE Holder
  BY <1>4, OrganizeInv, SyncStepInv, UnlockInv DEF Holder
<1>5. CASE UNCHANGED vars
  BY <1>5, StutterInv
<1> QED BY <1>1, <1>2, <1>3, <1>4, <1>5 DEF Next

\* Every reachable state satisfies the inductive invariant.
THEOREM Invariance == Spec => []IInv
  BY InitInv, NextInv, PTL DEF Spec

-----------------------------------------------------------------------------
(* What follows from it *)

\* The pointers set_level works on are never null where it dereferences them:
\* the null checks of organize and sync_inherited_log_levels are enough.
THEOREM TypeCorrect == Spec => []TypeOK
<1>1. IInv => TypeOK
  BY DEF IInv
<1> QED BY <1>1, Invariance, PTL

\* The links of the list stay inverse to each other and among the living
\* contexts, whatever the order of constructors, destructors and set_level.
THEOREM LinksInverse == Spec => []DoublyLinked
<1>1. IInv => DoublyLinked
  BY DEF IInv, ListInv
<1> QED BY <1>1, Invariance, PTL

\* In a debug build no context points at a destroyed parent.
ParentInv == Debug => \A n \in Node : parent[n] # Null => life[parent[n]] # "dead"

LEMMA ParentInvNext == IInv /\ ParentInv /\ [Next]_vars => ParentInv'
<1> SUFFICES ASSUME IInv, ParentInv, [Next]_vars, Debug,
                    NEW n \in Node, parent'[n] # Null
             PROVE  life'[parent'[n]] # "dead"
  BY DEF ParentInv
<1>1. CASE \E c \in Ctx : \E p \in Parents[c] : Construct(c, p)
  <2> PICK c \in Ctx : \E p \in Parents[c] : Construct(c, p)
    BY <1>1
  <2> PICK p \in Parents[c] : Construct(c, p)
    OBVIOUS
  <2>1. c \in Node /\ p \in Node /\ life[p] # "dead"
    BY ProgramAssumption DEF Construct, MayConstruct, Node
  <2> QED BY <2>1 DEF Construct, ParentInv, IInv, TypeOK
<1>2. CASE \E c \in Ctx : Destroy(c)
  <2> PICK c \in Ctx : Destroy(c)
    BY <1>2
  <2>1. parent'[n] = parent[n] /\ parent[n] # c /\ parent[n] \in Node
    BY DEF Destroy, ForgetsParent, IInv, TypeOK
  <2> QED BY <2>1 DEF Destroy, ParentInv, IInv, TypeOK
<1>3. CASE \E m \in Settable, l \in AnyLevel : SetLevel(m, l)
  BY <1>3 DEF SetLevel, ParentInv, objects
<1>4. CASE Holder
  BY <1>4 DEF Holder, Organize, PassOver, KeepInPlace, Relocate, NextParent, Sync, NextChild,
      Shielded, Inherit, FindSibling, Return, Advance, Unlock, ParentInv, objects
<1>5. CASE UNCHANGED vars
  BY <1>5 DEF vars, objects, ParentInv
<1> QED BY <1>1, <1>2, <1>3, <1>4, <1>5 DEF Next

\* The destructor of a debug build leaves no pointer to the destroyed parent,
\* so that the assertion of the consumer can rely on it.
THEOREM ParentsCleared == Spec => []NoDanglingParent
<1>1. Init => ParentInv
  BY DEF Init, ParentInv
<1>2. ParentInv => NoDanglingParent
  BY DEF ParentInv, NoDanglingParent, Alive
<1> QED BY <1>1, <1>2, ParentInvNext, Invariance, PTL DEF Spec

-----------------------------------------------------------------------------
(* The refinement *)

LEMMA PromiseInit == Init => Promise!Init
  BY DEF Init, Promise!Init, Promise!Node, Promise!Unset, Node, Unset

LEMMA PromiseVars == UNCHANGED vars => UNCHANGED Promise!vars
  BY DEF vars, Promise!vars, objects, levels, call

LEMMA PromiseConstruct ==
    ASSUME IInv, NEW c \in Ctx, NEW p \in Parents[c], Construct(c, p)
    PROVE  Promise!Construct(c, p)
<1>1. c \notin Alive /\ target = Null
  BY DEF Construct, MayConstruct, Alive, IInv, SyncInv
<1>2. p \in Node
  BY ProgramAssumption
<1>3. BirthLevel(p) = IF p \in Alive THEN Effective(p) ELSE Unset
  BY <1>2 DEF BirthLevel, Construct, MayConstruct, IInv, FreshInv, Effective, Alive, Node
<1> QED
  BY <1>1, <1>3 DEF Construct, Promise!Construct, Promise!Alive, Promise!Node, Promise!Unset,
      Promise!Effective, Effective, Alive, Node, Unset, call

LEMMA PromiseDestroy ==
    ASSUME IInv, NEW c \in Ctx, Destroy(c)
    PROVE  Promise!Destroy(c)
  BY DEF Destroy, ForgetsParent, IInv, SyncInv, Promise!Destroy, Promise!Alive, Promise!Node,
      Promise!Unset, Alive, Node, Unset, call

LEMMA PromiseSetLevel ==
    ASSUME IInv, NEW n \in Settable, NEW l \in AnyLevel, SetLevel(n, l)
    PROVE  Promise!SetLevel(n, l)
  BY DEF SetLevel, IInv, SyncInv, Promise!SetLevel, Promise!Alive, Promise!Node,
      Promise!Unset, Alive, Node, Unset, objects

LEMMA PromiseHolder ==
    ASSUME IInv, Holder
    PROVE  (\E n \in Node : Promise!HandDown(n)) \/ Promise!Finish \/ UNCHANGED Promise!vars
<1>1. CASE Organize
  BY <1>1 DEF Organize, PassOver, KeepInPlace, Relocate, NextParent, Promise!vars,
      objects, levels, call
<1>2. CASE Inherit
  <2>1. /\ branch \in Alive /\ branch \in Node /\ lvl[branch] = Unset
        /\ parent[branch] \in touched \union {target}
    BY <1>2 DEF Inherit, HasOwnLevel, IInv, SyncInv, Syncing, Alive
  <2>2. target # Null
    BY <1>2, NodesAssumption DEF Inherit, IInv, SyncInv, Alive
  <2>3. Promise!HandDown(branch)
    BY <1>2, <2>1, <2>2 DEF Inherit, Promise!HandDown, Promise!Reachable, Promise!Alive,
        Promise!Node, Promise!Unset, Alive, Node, Unset, objects, call
  <2> QED BY <2>1, <2>3
<1>3. CASE Sync /\ ~Inherit
  BY <1>3 DEF Sync, NextChild, Shielded, FindSibling, Return, Advance, Promise!vars,
      objects, levels, call
<1>4. CASE Unlock
  <2>1. target # Null
    BY <1>4, NodesAssumption DEF Unlock, IInv, SyncInv, Alive
  <2> QED BY <1>4, <2>1 DEF Unlock, Promise!Finish, Promise!Unset, Unset, objects, levels
<1> QED BY <1>1, <1>2, <1>3, <1>4 DEF Holder

LEMMA PromiseNext == IInv /\ [Next]_vars => [Promise!Next]_(Promise!vars)
<1> SUFFICES ASSUME IInv, [Next]_vars PROVE [Promise!Next]_(Promise!vars)
  OBVIOUS
<1>1. CASE \E c \in Ctx : \E p \in Parents[c] : Construct(c, p)
  BY <1>1, PromiseConstruct DEF Promise!Next
<1>2. CASE \E c \in Ctx : Destroy(c)
  BY <1>2, PromiseDestroy DEF Promise!Next
<1>3. CASE \E n \in Settable, l \in AnyLevel : SetLevel(n, l)
  <2>1. AnyLevel = Promise!AnyLevel
    BY LevelsAssumption DEF AnyLevel, Level, Unset, Promise!AnyLevel, Promise!Unset
  <2> QED BY <1>3, <2>1, PromiseSetLevel DEF Promise!Next
<1>4. CASE Holder
  BY <1>4, PromiseHolder DEF Promise!Next, Promise!Node, Node
<1>5. CASE UNCHANGED vars
  BY <1>5, PromiseVars
<1> QED BY <1>1, <1>2, <1>3, <1>4, <1>5 DEF Next

\* The list with its loops implements the level tree: levels flow from parents
\* to children only, never below a level of one's own, and a newcomer starts
\* with the level of its parent.
THEOREM Refinement == Spec => KeepsPromise
  BY PromiseInit, PromiseNext, Invariance, PTL DEF Spec, KeepsPromise, Promise!Spec
=============================================================================
