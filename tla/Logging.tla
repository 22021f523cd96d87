------------------------------ MODULE Logging ------------------------------
(***************************************************************************)
(* Threads that log (UPP_LOG of logs/include/upp/logs.hpp, push_log and    *)
(* the default consumer of logs/lib/logs.cpp) while contexts come and go   *)
(* and a set_level runs (module Contexts).  A logging call takes no lock:  *)
(* it loads m_lvl, perhaps m_inherited_level, compares, loads g_consumer   *)
(* and hands the message over; the default consumer then walks up the      *)
(* parent pointers to write the path of the context.                       *)
(*                                                                         *)
(* The loads are relaxed: a load may return any value the variable was     *)
(* given since its context was constructed, which is more than any build   *)
(* can show.                                                               *)
(***************************************************************************)
EXTENDS Contexts

CONSTANTS
    Thread,     \* the threads that log
    Logged      \* the contexts they log with

ASSUME LoggingAssumption == Logged \subseteq Node

VARIABLES
    consumer,   \* whether g_consumer is set (to the default consumer)
    at,         \* where the logging call of a thread is; "out": in no call
    ctx,        \* its context
    msg,        \* the level of its message
    read,       \* the effective level it has come to
    walk,       \* the context whose parent context_path looks at
    \* History
    lvlWrites,  \* the values m_lvl had since the context was constructed
    inhWrites,  \* the values m_inherited_level had
    everEff,    \* the effective levels it had
    seen,       \* the effective levels the context of a call had during it
    fresh       \* whether the loads of a call returned the latest values

calls   == <<at, ctx, msg, read, walk>>
history == <<lvlWrites, inhWrites, everEff>>
logVars == <<consumer, calls, history, seen, fresh>>
allVars == <<vars, logVars>>

\* A thread logs with the context or with one below it
Busy(c) == \E t \in Thread : at[t] # "out" /\ c \in {ctx[t]} \union Lineage(ctx[t])

-----------------------------------------------------------------------------
LogInit ==
    /\ Init
    /\ consumer = FALSE
    /\ at = [t \in Thread |-> "out"]
    /\ ctx = [t \in Thread |-> Null]
    /\ msg = [t \in Thread |-> Unset]
    /\ read = [t \in Thread |-> Unset]
    /\ walk = [t \in Thread |-> Null]
    /\ lvlWrites = [n \in Node |-> {Unset}]
    /\ inhWrites = [n \in Node |-> {Unset}]
    /\ everEff = [n \in Node |-> {Unset}]
    /\ seen = [t \in Thread |-> {}]
    /\ fresh = [t \in Thread |-> TRUE]

EffectiveAfter(n) == IF lvl'[n] # Unset THEN lvl'[n] ELSE inh'[n]

\* What the history variables keep of a step of the contexts
Keep(past, n, now) == IF life'[n] = life[n] THEN past[n] \union {now} ELSE {now}

Record ==
    /\ lvlWrites' = [n \in Node |-> Keep(lvlWrites, n, lvl'[n])]
    /\ inhWrites' = [n \in Node |-> Keep(inhWrites, n, inh'[n])]
    /\ everEff' = [n \in Node |-> Keep(everEff, n, EffectiveAfter(n))]
    /\ seen' = [t \in Thread |->
                  IF at[t] = "out" THEN {} ELSE seen[t] \union {EffectiveAfter(ctx[t])}]

\* A program destroys no context whose levels or name a logging call needs
ContextStep ==
    /\ Next
    /\ \A c \in Ctx : Busy(c) => life'[c] = life[c]
    /\ Record
    /\ UNCHANGED <<consumer, calls, fresh>>

SetConsumer ==
    /\ consumer' = TRUE
    /\ UNCHANGED <<vars, calls, history, seen, fresh>>

-----------------------------------------------------------------------------
(* UPP_LOG *)

Log(t, n, l) ==
    /\ at[t] = "out"
    /\ n \in Logged \intersect Alive
    /\ at' = [at EXCEPT ![t] = "lvl"]
    /\ ctx' = [ctx EXCEPT ![t] = n]
    /\ msg' = [msg EXCEPT ![t] = l]
    /\ seen' = [seen EXCEPT ![t] = {Effective(n)}]
    /\ UNCHANGED <<vars, consumer, read, walk, history, fresh>>

\* effective_level: the first load, which decides unless it finds unset
LoadLvl(t) ==
    /\ at[t] = "lvl"
    /\ \E l \in lvlWrites[ctx[t]] :
          /\ read' = [read EXCEPT ![t] = l]
          /\ fresh' = [fresh EXCEPT ![t] = l = lvl[ctx[t]]]
          /\ at' = [at EXCEPT ![t] = IF l # Unset THEN "compare" ELSE "inh"]
    /\ UNCHANGED <<vars, consumer, ctx, msg, walk, history, seen>>

\* ... the second load
LoadInh(t) ==
    /\ at[t] = "inh"
    /\ \E l \in inhWrites[ctx[t]] :
          /\ read' = [read EXCEPT ![t] = l]
          /\ fresh' = [fresh EXCEPT ![t] = @ /\ l = inh[ctx[t]]]
    /\ at' = [at EXCEPT ![t] = "compare"]
    /\ UNCHANGED <<vars, consumer, ctx, msg, walk, history, seen>>

Compare(t) ==
    /\ at[t] = "compare"
    /\ at' = [at EXCEPT ![t] = IF read[t] <= msg[t] THEN "push" ELSE "done"]
    /\ UNCHANGED <<vars, consumer, ctx, msg, read, walk, history, seen, fresh>>

-----------------------------------------------------------------------------
(* push_log and the default consumer *)

\* The assertion of the default consumer
ParentIsThere(n) == n = Root \/ parent[n] # Null

\* push_log: the message is dropped without a consumer; the default consumer
\* checks its assertion and names no path for the root
Push(t) ==
    /\ at[t] = "push"
    /\ LET n == ctx[t]
       IN IF ~consumer
            THEN /\ at' = [at EXCEPT ![t] = "done"]
                 /\ UNCHANGED walk
          ELSE IF Debug /\ ~ParentIsThere(n)
            THEN /\ at' = [at EXCEPT ![t] = "aborted"]
                 /\ UNCHANGED walk
          ELSE IF n = Root
            THEN /\ at' = [at EXCEPT ![t] = "done"]
                 /\ UNCHANGED walk
          ELSE   /\ at' = [at EXCEPT ![t] = "path"]
                 /\ walk' = [walk EXCEPT ![t] = n]
    /\ UNCHANGED <<vars, consumer, ctx, msg, read, history, seen, fresh>>

IsTopMutant(n) == parent[n] = Null

\* ctx_buf_size and context_path_recurse end at the children of the root
IsTop(n) == parent[n] = Root

AboveMutant(n) == n

\* ... and go on to the parent, a null pointer if it was destroyed
Above(n) == parent[n]

WalkUp(t) ==
    /\ at[t] = "path"
    /\ LET n == walk[t]
       IN IF IsTop(n)
            THEN /\ at' = [at EXCEPT ![t] = "done"]
                 /\ walk' = [walk EXCEPT ![t] = Null]
          ELSE IF Above(n) = Null
            THEN /\ at' = [at EXCEPT ![t] = "segv"]
                 /\ UNCHANGED walk
          ELSE   /\ walk' = [walk EXCEPT ![t] = Above(n)]
                 /\ UNCHANGED at
    /\ UNCHANGED <<vars, consumer, ctx, msg, read, history, seen, fresh>>

\* The call returns
Leave(t) ==
    /\ at[t] = "done"
    /\ at' = [at EXCEPT ![t] = "out"]
    /\ ctx' = [ctx EXCEPT ![t] = Null]
    /\ msg' = [msg EXCEPT ![t] = Unset]
    /\ read' = [read EXCEPT ![t] = Unset]
    /\ seen' = [seen EXCEPT ![t] = {}]
    /\ fresh' = [fresh EXCEPT ![t] = TRUE]
    /\ UNCHANGED <<vars, consumer, walk, history>>

-----------------------------------------------------------------------------
InCall(t) == LoadLvl(t) \/ LoadInh(t) \/ Compare(t) \/ Push(t) \/ WalkUp(t) \/ Leave(t)

LogNext ==
    \/ ContextStep
    \/ SetConsumer
    \/ \E t \in Thread, n \in Logged, l \in Level : Log(t, n, l)
    \/ \E t \in Thread : InCall(t)

\* A thread in a logging call runs on; nothing is assumed of the others, the
\* one that holds g_mut included
LogSpec == LogInit /\ [][LogNext]_allVars /\ \A t \in Thread : WF_allVars(InCall(t))

-----------------------------------------------------------------------------
(* Properties *)

\* Types.  A path is looked up for a context below the root only: the walk of
\* context_path ends before it could look at the parent of the root.
LogTypeOK ==
    /\ consumer \in BOOLEAN
    /\ at \in [Thread -> {"out", "lvl", "inh", "compare", "push", "path", "done",
                          "aborted", "segv"}]
    /\ ctx \in [Thread -> Node \union {Null}]
    /\ msg \in [Thread -> AnyLevel]
    /\ read \in [Thread -> AnyLevel]
    /\ walk \in [Thread -> Ctx \union {Null}]
    /\ lvlWrites \in [Node -> SUBSET AnyLevel]
    /\ inhWrites \in [Node -> SUBSET AnyLevel]
    /\ everEff \in [Node -> SUBSET AnyLevel]
    /\ seen \in [Thread -> SUBSET AnyLevel]
    /\ fresh \in [Thread -> BOOLEAN]
    /\ \A t \in Thread : at[t] # "out" => ctx[t] \in Node
    /\ \A t \in Thread : at[t] = "path" => walk[t] \in Ctx

\* effective_level reads two variables that a set_level may change in between,
\* and the levels of a whole subtree change one context at a time.  Still the
\* result is a level the context really had since it was constructed, however
\* old the loaded values are, and one it had during the call if the loads
\* returned the latest values: no message is admitted or dropped by a level
\* that nobody ever gave the context.
LevelWasEffective ==
    \A t \in Thread :
        at[t] \in {"compare", "push", "path", "done"} =>
            /\ read[t] \in everEff[ctx[t]]
            /\ fresh[t] => read[t] \in seen[t]

\* A logging call returns whatever the holder of g_mut does, even if it never
\* runs again: logging takes no lock and the path it walks is finite.
LogReturns == \A t \in Thread : at[t] # "out" ~> at[t] = "out"
=============================================================================
