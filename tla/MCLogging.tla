----------------------------- MODULE MCLogging -----------------------------
(***************************************************************************)
(* Instances of Logging for TLC, with the contexts of MCContexts.          *)
(***************************************************************************)
EXTENDS Logging, TLC

CONSTANTS c1, c2, c3, t1, t2

Older == c1 :> {Root} @@ c2 :> {c1} @@ c3 :> {c2}

MCParents == [c \in Ctx |-> Older[c]]

MCNode == Ctx \union {Root}

MCRootOnly == {Root}

\* The logged context and the root above its parent
MCEnds == {Root, c2}

MCSecond == {c2}
=============================================================================
