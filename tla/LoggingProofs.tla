--------------------------- MODULE LoggingProofs ---------------------------
(***************************************************************************)
(* Proofs about Logging: whatever a set_level does while a thread logs,    *)
(* and however old the values are that its relaxed loads return, the level *)
(* its message is compared with is one the context really had.             *)
(***************************************************************************)
EXTENDS Logging, ContextsProofs

-----------------------------------------------------------------------------
(* The inductive invariant *)

\* What was stored was effective: an explicit level always, an inherited level
\* because set_level stores it only where no explicit level shields it
HistoryInv ==
    \A n \in Node :
        /\ lvl[n] \in lvlWrites[n]
        /\ inh[n] \in inhWrites[n]
        /\ Effective(n) \in everEff[n]
        /\ lvlWrites[n] \ {Unset} \subseteq everEff[n]
        /\ inhWrites[n] \subseteq everEff[n]

\* A call between its two loads, the first of them fresh: the inherited level
\* was effective at the first load, or is since it was stored
CallInv ==
    \A t \in Thread :
        /\ at[t] # "out" => Effective(ctx[t]) \in seen[t]
        /\ at[t] = "inh" /\ fresh[t] => inh[ctx[t]] \in seen[t]

LogInv == LogTypeOK /\ HistoryInv /\ CallInv /\ LevelWasEffective

-----------------------------------------------------------------------------
\* The calls of the library are steps of Contexts
LEMMA LogNextIsNext == [LogNext]_allVars => [Next]_vars
  BY DEF LogNext, allVars, ContextStep, SetConsumer, Log, InCall, LoadLvl, LoadInh, Compare,
     Push, WalkUp, Leave

\* ... so that what holds of the contexts holds while threads log
LEMMA ContextsInvariance == LogSpec => []IInv
  BY InitInv, NextInv, LogNextIsNext, PTL DEF LogSpec, LogInit

\* The shield: a step that gives a living context another inherited level finds
\* and leaves it without a level of its own; a context that is constructed or
\* destroyed has none either.
LEMMA Shield ==
    ASSUME IInv, Next, NEW n \in Node
    PROVE  /\ life'[n] = life[n] => inh'[n] = inh[n] \/ (lvl[n] = Unset /\ lvl'[n] = Unset)
           /\ life'[n] # life[n] => lvl'[n] = Unset
<1>1. CASE \E c \in Ctx : \E p \in Parents[c] : Construct(c, p)
  BY <1>1 DEF Construct, MayConstruct, IInv, TypeOK, Node
<1>2. CASE \E c \in Ctx : Destroy(c)
  BY <1>2 DEF Destroy, IInv, TypeOK, Node
<1>3. CASE \E m \in Settable, l \in AnyLevel : SetLevel(m, l)
  BY <1>3 DEF SetLevel, objects
<1>4. CASE Inherit
  BY <1>4 DEF Inherit, HasOwnLevel, objects, IInv, TypeOK
<1>5. CASE Holder /\ ~Inherit
  BY <1>5 DEF Holder, Organize, PassOver, KeepInPlace, Relocate, NextParent, Sync, NextChild,
      Shielded, FindSibling, Return, Advance, Unlock, objects, levels
<1> QED BY <1>1, <1>2, <1>3, <1>4, <1>5 DEF Next

LEMMA LogInitInv == LogInit => LogInv
<1> SUFFICES ASSUME LogInit PROVE LogInv
  OBVIOUS
<1> USE DEF LogInit
<1>1. Unset \in AnyLevel
  BY DEF AnyLevel
<1>2. LogTypeOK
  BY <1>1 DEF LogTypeOK
<1>3. HistoryInv
  BY DEF HistoryInv, Init, Effective
<1>4. CallInv /\ LevelWasEffective
  BY DEF CallInv, LevelWasEffective
<1> QED BY <1>2, <1>3, <1>4 DEF LogInv

\* A step of the contexts
LEMMA ContextStepInv ==
    ASSUME IInv, IInv', LogInv, ContextStep
    PROVE  LogInv'
<1>1. /\ lvl \in [Node -> AnyLevel] /\ inh \in [Node -> AnyLevel]
      /\ lvl' \in [Node -> AnyLevel] /\ inh' \in [Node -> AnyLevel]
      /\ \A n \in Node : EffectiveAfter(n) \in AnyLevel
      /\ \A n \in Node : Effective(n)' = EffectiveAfter(n)
  BY DEF IInv, TypeOK, EffectiveAfter, Effective
<1>2. \A n \in Node :
        /\ life'[n] = life[n] => inh'[n] = inh[n] \/ (lvl[n] = Unset /\ lvl'[n] = Unset)
        /\ life'[n] # life[n] => lvl'[n] = Unset
  BY Shield DEF ContextStep
<1>3. /\ consumer' = consumer /\ at' = at /\ ctx' = ctx /\ msg' = msg /\ read' = read
      /\ walk' = walk /\ fresh' = fresh
  BY DEF ContextStep, calls
<1>4. /\ lvlWrites' = [n \in Node |-> Keep(lvlWrites, n, lvl'[n])]
      /\ inhWrites' = [n \in Node |-> Keep(inhWrites, n, inh'[n])]
      /\ everEff' = [n \in Node |-> Keep(everEff, n, EffectiveAfter(n))]
      /\ seen' = [t \in Thread |->
                    IF at[t] = "out" THEN {} ELSE seen[t] \union {EffectiveAfter(ctx[t])}]
  BY DEF ContextStep, Record
<1>5. \A t \in Thread : at[t] # "out" => ctx[t] \in Node /\ life'[ctx[t]] = life[ctx[t]]
  <2> SUFFICES ASSUME NEW t \in Thread, at[t] # "out"
               PROVE  ctx[t] \in Node /\ life'[ctx[t]] = life[ctx[t]]
    OBVIOUS
  <2>1. ctx[t] \in Node
    BY DEF LogInv, LogTypeOK
  <2>2. CASE ctx[t] \in Ctx
    <3>1. ctx[t] \in {ctx[t]} \union Lineage(ctx[t])
      OBVIOUS
    <3>2. Busy(ctx[t])
      BY <3>1 DEF Busy
    <3> QED BY <2>1, <2>2, <3>2 DEF ContextStep
  <2>3. CASE ctx[t] = Root
    BY <2>1, <2>3 DEF IInv, ListInv
  <2> QED BY <2>1, <2>2, <2>3 DEF Node
<1>6. LogTypeOK'
  <2>1. /\ lvlWrites' \in [Node -> SUBSET AnyLevel]
        /\ inhWrites' \in [Node -> SUBSET AnyLevel]
        /\ everEff' \in [Node -> SUBSET AnyLevel]
    BY <1>1, <1>4 DEF Keep, LogInv, LogTypeOK
  <2>2. seen' \in [Thread -> SUBSET AnyLevel]
    BY <1>1, <1>4, <1>5 DEF LogInv, LogTypeOK
  <2> QED BY <1>3, <2>1, <2>2 DEF LogInv, LogTypeOK
<1>7. HistoryInv'
  <2> SUFFICES ASSUME NEW n \in Node
               PROVE  /\ lvl'[n] \in lvlWrites'[n]
                      /\ inh'[n] \in inhWrites'[n]
                      /\ EffectiveAfter(n) \in everEff'[n]
                      /\ lvlWrites'[n] \ {Unset} \subseteq everEff'[n]
                      /\ inhWrites'[n] \subseteq everEff'[n]
    BY <1>1 DEF HistoryInv
  <2>1. /\ lvlWrites'[n] = Keep(lvlWrites, n, lvl'[n])
        /\ inhWrites'[n] = Keep(inhWrites, n, inh'[n])
        /\ everEff'[n] = Keep(everEff, n, EffectiveAfter(n))
    BY <1>4
  <2>2. CASE life'[n] = life[n]
    BY <1>2, <2>1, <2>2 DEF Keep, EffectiveAfter, HistoryInv, LogInv
  <2>3. CASE life'[n] # life[n]
    BY <1>2, <2>1, <2>3 DEF Keep, EffectiveAfter
  <2> QED BY <2>2, <2>3
<1>8. CallInv'
  <2> SUFFICES ASSUME NEW t \in Thread
               PROVE  /\ at[t] # "out" => EffectiveAfter(ctx[t]) \in seen'[t]
                      /\ at[t] = "inh" /\ fresh[t] => inh'[ctx[t]] \in seen'[t]
    BY <1>1, <1>3, <1>5 DEF CallInv
  <2>1. CASE at[t] # "out"
    BY <1>2, <1>4, <1>5, <2>1 DEF EffectiveAfter, CallInv, LogInv
  <2> QED BY <2>1
<1>9. LevelWasEffective'
  <2> SUFFICES ASSUME NEW t \in Thread, at[t] \in {"compare", "push", "path", "done"}
               PROVE  /\ read[t] \in everEff'[ctx[t]]
                      /\ fresh[t] => read[t] \in seen'[t]
    BY <1>3 DEF LevelWasEffective
  <2> QED BY <1>4, <1>5 DEF Keep, LevelWasEffective, LogInv
<1> QED BY <1>6, <1>7, <1>8, <1>9 DEF LogInv

\* A step of a logging thread
LEMMA InCallInv ==
    ASSUME IInv, LogInv, NEW t \in Thread, InCall(t)
    PROVE  LogInv'
<1>1. /\ ctx \in [Thread -> Node \union {Null}] /\ at[t] # "out" /\ ctx[t] \in Node
      /\ UNCHANGED vars /\ UNCHANGED history
  BY DEF InCall, LoadLvl, LoadInh, Compare, Push, WalkUp, Leave, LogInv, LogTypeOK
<1>2. \A n \in Node : Effective(n)' = Effective(n)
  BY <1>1 DEF vars, levels, Effective
<1>3. HistoryInv'
  BY <1>1, <1>2 DEF vars, levels, history, HistoryInv, LogInv
<1>4. lvl[ctx[t]] \in AnyLevel /\ inh[ctx[t]] \in AnyLevel /\ Unset \in AnyLevel
  BY <1>1 DEF IInv, TypeOK, AnyLevel
<1>5. CASE LoadLvl(t)
  <2> PICK l \in lvlWrites[ctx[t]] :
        /\ read' = [read EXCEPT ![t] = l]
        /\ fresh' = [fresh EXCEPT ![t] = l = lvl[ctx[t]]]
        /\ at' = [at EXCEPT ![t] = IF l # Unset THEN "compare" ELSE "inh"]
    BY <1>5 DEF LoadLvl
  <2>1. l \in AnyLevel
    BY <1>1 DEF LogInv, LogTypeOK
  <2>2. at[t] = "lvl" /\ UNCHANGED <<vars, consumer, ctx, msg, walk, history, seen>>
    BY <1>5 DEF LoadLvl
  <2>3. LogTypeOK'
    BY <1>1, <2>1, <2>2 DEF LogInv, LogTypeOK, history
  <2>4. l # Unset => l \in everEff[ctx[t]] /\ (l = lvl[ctx[t]] => l \in seen[t])
    BY <1>1 DEF LogInv, HistoryInv, CallInv, Effective
  <2>5. l = Unset /\ l = lvl[ctx[t]] => inh[ctx[t]] \in seen[t]
    BY <1>1 DEF LogInv, CallInv, Effective
  <2>6. CallInv'
    BY <1>1, <1>2, <2>2, <2>5 DEF LogInv, LogTypeOK, CallInv, vars, levels
  <2>7. LevelWasEffective'
    BY <1>1, <2>2, <2>4 DEF LogInv, LogTypeOK, LevelWasEffective, history
  <2> QED BY <1>3, <2>3, <2>6, <2>7 DEF LogInv
<1>6. CASE LoadInh(t)
  <2> PICK l \in inhWrites[ctx[t]] :
        /\ read' = [read EXCEPT ![t] = l]
        /\ fresh' = [fresh EXCEPT ![t] = @ /\ l = inh[ctx[t]]]
    BY <1>6 DEF LoadInh
  <2>1. l \in AnyLevel
    BY <1>1 DEF LogInv, LogTypeOK
  <2>2. /\ at[t] = "inh" /\ at' = [at EXCEPT ![t] = "compare"]
        /\ UNCHANGED <<vars, consumer, ctx, msg, walk, history, seen>>
    BY <1>6 DEF LoadInh
  <2>3. LogTypeOK'
    BY <1>1, <2>1, <2>2 DEF LogInv, LogTypeOK, history
  <2>4. l \in everEff[ctx[t]] /\ (fresh[t] /\ l = inh[ctx[t]] => l \in seen[t])
    BY <1>1, <2>2 DEF LogInv, HistoryInv, CallInv
  <2>6. CallInv'
    BY <1>1, <1>2, <2>2 DEF LogInv, LogTypeOK, CallInv, vars, levels
  <2>7. LevelWasEffective'
    BY <1>1, <2>2, <2>4 DEF LogInv, LogTypeOK, LevelWasEffective, history
  <2> QED BY <1>3, <2>3, <2>6, <2>7 DEF LogInv
<1>7. CASE Compare(t)
  <2>1. LogTypeOK'
    BY <1>7 DEF Compare, LogInv, LogTypeOK, history
  <2>2. CallInv' /\ LevelWasEffective'
    BY <1>1, <1>2, <1>7 DEF Compare, LogInv, LogTypeOK, CallInv, LevelWasEffective,
        vars, levels, history
  <2> QED BY <1>3, <2>1, <2>2 DEF LogInv
<1>8. CASE Push(t)
  <2>1. LogTypeOK'
    BY <1>1, <1>8, NodesAssumption DEF Push, LogInv, LogTypeOK, history, Node
  <2>2. CallInv' /\ LevelWasEffective'
    BY <1>1, <1>2, <1>8 DEF Push, LogInv, LogTypeOK, CallInv, LevelWasEffective,
        vars, levels, history
  <2> QED BY <1>3, <2>1, <2>2 DEF LogInv
<1>9. CASE WalkUp(t)
  <2>1. parent[walk[t]] # Root => parent[walk[t]] \in Ctx \union {Null}
    BY <1>9 DEF WalkUp, LogInv, LogTypeOK, IInv, TypeOK, Node
  <2>2. LogTypeOK'
    BY <1>9, <2>1 DEF WalkUp, IsTop, Above, LogInv, LogTypeOK, history
  <2>3. CallInv' /\ LevelWasEffective'
    BY <1>1, <1>2, <1>9 DEF WalkUp, LogInv, LogTypeOK, CallInv, LevelWasEffective,
        vars, levels, history
  <2> QED BY <1>3, <2>2, <2>3 DEF LogInv
<1>10. CASE Leave(t)
  <2>1. LogTypeOK'
    BY <1>4, <1>10 DEF Leave, LogInv, LogTypeOK, history
  <2>2. CallInv' /\ LevelWasEffective'
    BY <1>1, <1>2, <1>10 DEF Leave, LogInv, LogTypeOK, CallInv, LevelWasEffective,
        vars, levels, history
  <2> QED BY <1>3, <2>1, <2>2 DEF LogInv
<1> QED BY <1>5, <1>6, <1>7, <1>8, <1>9, <1>10 DEF InCall

LEMMA LogCallInv ==
    ASSUME IInv, LogInv, NEW t \in Thread, NEW n \in Logged, NEW l \in Level, Log(t, n, l)
    PROVE  LogInv'
<1>1. n \in Node /\ l \in AnyLevel
  BY LoggingAssumption DEF AnyLevel
<1>2. \A m \in Node : Effective(m)' = Effective(m)
  BY DEF Log, vars, levels, Effective
<1>3. Effective(n) \in AnyLevel
  BY <1>1, EffectiveType DEF IInv
<1>4. LogTypeOK'
  BY <1>1, <1>3 DEF Log, LogInv, LogTypeOK, history
<1>5. HistoryInv'
  BY <1>2 DEF Log, vars, levels, history, HistoryInv, LogInv
<1>6. CallInv' /\ LevelWasEffective'
  BY <1>1, <1>2 DEF Log, LogInv, LogTypeOK, CallInv, LevelWasEffective, vars, levels, history
<1> QED BY <1>4, <1>5, <1>6 DEF LogInv

LEMMA LogQuietInv ==
    ASSUME LogInv, UNCHANGED <<vars, calls, history, seen, fresh>>, consumer' \in BOOLEAN
    PROVE  LogInv'
  BY DEF vars, levels, calls, history, LogInv, LogTypeOK, HistoryInv, CallInv,
     LevelWasEffective, Effective

LEMMA LogNextInv == IInv /\ IInv' /\ LogInv /\ [LogNext]_allVars => LogInv'
<1> SUFFICES ASSUME IInv, IInv', LogInv, [LogNext]_allVars PROVE LogInv'
  OBVIOUS
<1>1. CASE ContextStep
  BY <1>1, ContextStepInv
<1>2. CASE SetConsumer
  BY <1>2, LogQuietInv DEF SetConsumer
<1>3. CASE \E t \in Thread, n \in Logged, l \in Level : Log(t, n, l)
  BY <1>3, LogCallInv
<1>4. CASE \E t \in Thread : InCall(t)
  BY <1>4, InCallInv
<1>5. CASE UNCHANGED allVars
  BY <1>5, LogQuietInv DEF allVars, logVars, LogInv, LogTypeOK
<1> QED BY <1>1, <1>2, <1>3, <1>4, <1>5 DEF LogNext

\* What was ever stored was effective, and what a thread has read so far is among
\* it: the levels of the contexts and the local copies of every call together.
THEOREM LogInvariance == LogSpec => []LogInv
  BY LogInitInv, LogNextInv, ContextsInvariance, PTL DEF LogSpec

\* No message is admitted or dropped by a level its context never had,
\* whatever set_level does meanwhile and however old the loaded values are.
THEOREM LoggingIsFaithful == LogSpec => []LevelWasEffective
<1>1. LogInv => LevelWasEffective
  BY DEF LogInv
<1> QED BY <1>1, LogInvariance, PTL

\* The walk of context_path ends below the root, in every hierarchy.
THEOREM LoggingTypeCorrect == LogSpec => []LogTypeOK
<1>1. LogInv => LogTypeOK
  BY DEF LogInv
<1> QED BY <1>1, LogInvariance, PTL
=============================================================================
