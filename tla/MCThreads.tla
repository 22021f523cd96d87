------------------------------ MODULE MCThreads ------------------------------
(***************************************************************************)
(* Instances of Guard, Cleanup, AsioRun, Detach and Signals for TLC.  They *)
(* share no state: a behaviour runs one of them, as subject says, and is   *)
(* as fair as that one.                                                    *)
(***************************************************************************)
EXTENDS Guard, Cleanup, AsioRun, Detach, Signals

CONSTANTS t1, t2, s1, s2, g1, g2, k1, k2, w1, w2, j1, j2, m, h1, h2, sigint, sigterm,
          Subject   \* the components a configuration looks at

VARIABLE subject

vars == <<guardVars, cleanupVars, asioVars, detachVars, signalVars, subject>>

Init ==
    /\ GuardInit /\ CleanupInit /\ AsioInit /\ DetachInit /\ SignalsInit
    /\ subject \in Subject

Others(name) ==
    /\ subject = name
    /\ UNCHANGED subject
    /\ name # "guard" => UNCHANGED guardVars
    /\ name # "cleanup" => UNCHANGED cleanupVars
    /\ name # "asio" => UNCHANGED asioVars
    /\ name # "detach" => UNCHANGED detachVars
    /\ name # "signals" => UNCHANGED signalVars

Next ==
    \/ Others("guard") /\ GuardNext
    \/ Others("cleanup") /\ CleanupNext
    \/ Others("asio") /\ AsioNext
    \/ Others("detach") /\ DetachNext
    \/ Others("signals") /\ SignalsNext

Fairness ==
    /\ WF_vars(Others("asio") /\ ClientStep)
    /\ \A w \in Worker : WF_vars(Others("asio") /\ WorkerStep(w))
    /\ WF_vars(Others("detach") /\ DetachNext)
    /\ WF_vars(Others("signals") /\ Wait(Main))
    /\ \A t \in SigThread : WF_vars(Others("signals") /\ WaitReturns(t))

Spec == Init /\ [][Next]_vars /\ Fairness
=============================================================================
