----------------------------- MODULE LevelTree -----------------------------
(***************************************************************************)
(* What the logging contexts promise, without the list: a tree of contexts *)
(* whose levels flow downwards.  A call of set_level hands its level from  *)
(* parents to children, never into a subtree whose root has a level of its *)
(* own, and nothing else ever changes the inherited level of a context     *)
(* that exists.  How many contexts a call reaches is left open here.       *)
(***************************************************************************)
EXTENDS Integers

CONSTANTS Ctx, Root, Null, MaxLevel, Parents, Settable, Debug

Node == Ctx \union {Root}
Unset == MaxLevel + 1
AnyLevel == 0 .. Unset

VARIABLES
    life, parent,   \* the tree of contexts
    lvl, inh,       \* explicit and inherited level of each of them
    target,         \* the context whose level is being set, or Null
    spread,         \* the level that is handed down
    touched         \* the contexts it was handed to

vars == <<life, parent, lvl, inh, target, spread, touched>>

Alive == {n \in Node : life[n] = "alive"}

Effective(n) == IF lvl[n] # Unset THEN lvl[n] ELSE inh[n]

Init ==
    /\ life = [n \in Node |-> IF n = Root THEN "alive" ELSE "unborn"]
    /\ parent = [n \in Node |-> Null]
    /\ lvl = [n \in Node |-> Unset]
    /\ inh = [n \in Node |-> Unset]
    /\ target = Null /\ spread = Unset
    /\ touched = {}

\* A newcomer starts with the effective level of its parent
Construct(c, p) ==
    /\ target = Null
    /\ c \notin Alive
    /\ life' = [life EXCEPT ![c] = "alive"]
    /\ parent' = [parent EXCEPT ![c] = p]
    /\ lvl' = [lvl EXCEPT ![c] = Unset]
    /\ inh' = [inh EXCEPT ![c] = IF p \in Alive THEN Effective(p) ELSE Unset]
    /\ UNCHANGED <<target, spread, touched>>

Destroy(c) ==
    /\ target = Null
    /\ c \in Alive
    /\ life' = [life EXCEPT ![c] = "dead"]
    /\ parent' = [n \in Node |->
                    IF n = c \/ (Debug /\ parent[n] = c) THEN Null ELSE parent[n]]
    /\ lvl' = [lvl EXCEPT ![c] = Unset]
    /\ inh' = [inh EXCEPT ![c] = Unset]
    /\ UNCHANGED <<target, spread, touched>>

SetLevel(n, l) ==
    /\ target = Null
    /\ n \in Alive
    /\ lvl' = [lvl EXCEPT ![n] = l]
    /\ target' = n
    /\ spread' = IF l # Unset THEN l ELSE inh[n]
    /\ UNCHANGED <<life, parent, inh, touched>>

\* n may take over the level: its parent has it from this call, and n has no
\* level of its own
Reachable(n) ==
    /\ n \in Alive
    /\ lvl[n] = Unset
    /\ parent[n] \in touched \union {target}

HandDown(n) ==
    /\ target # Null
    /\ Reachable(n)
    /\ inh' = [inh EXCEPT ![n] = spread]
    /\ touched' = touched \union {n}
    /\ UNCHANGED <<life, parent, lvl, target, spread>>

Finish ==
    /\ target # Null
    /\ target' = Null /\ spread' = Unset
    /\ touched' = {}
    /\ UNCHANGED <<life, parent, lvl, inh>>

Next ==
    \/ \E c \in Ctx : \E p \in Parents[c] : Construct(c, p)
    \/ \E c \in Ctx : Destroy(c)
    \/ \E n \in Settable, l \in AnyLevel : SetLevel(n, l)
    \/ \E n \in Node : HandDown(n)
    \/ Finish

Spec == Init /\ [][Next]_vars
=============================================================================
