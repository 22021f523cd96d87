----------------------------- MODULE MCContexts -----------------------------
(***************************************************************************)
(* Instances of Contexts for TLC.  The contexts are numbered; a context    *)
(* may be declared a child of the root or of a context with a smaller      *)
(* number.  Every forest is isomorphic to one of these, and a context may  *)
(* still be constructed before or after any other.                         *)
(***************************************************************************)
EXTENDS Contexts, TLC

CONSTANTS c1, c2, c3, c4

Older == c1 :> {Root} @@ c2 :> {Root, c1} @@ c3 :> {Root, c1, c2}
         @@ c4 :> {Root, c1, c2, c3}

MCParents == [c \in Ctx |-> Older[c]]

MCNode == Ctx \union {Root}

\* Every parent is constructed before its children: a constraint for the run that
\* is about the order of construction of one program
ParentsFirst == NoOrphans

MCRootOnly == {Root}
=============================================================================
