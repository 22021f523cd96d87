------------------------------- MODULE Signals -------------------------------
(***************************************************************************)
(* upp::linux::signal_listener: it blocks signals in the thread that       *)
(* constructs it, and wait() takes them with sigwait.  The rest is Linux:  *)
(* a mask belongs to a thread and is inherited by the threads it creates,  *)
(* a signal sent to the process is pending once, and takes its default     *)
(* action, the end of the process, in any thread that does not block it.   *)
(***************************************************************************)
EXTENDS Naturals, FiniteSets

CONSTANTS
    Main, Child,    \* the main thread, and the threads created later
    Signal,         \* signals a listener is constructed for
    MaxKills,       \* bound on the signals sent
    MainFirst       \* TRUE: the listener is constructed before threads are
                    \* created and signals sent

ASSUME SignalsAssumption == Main \notin Child /\ MaxKills \in Nat /\ MainFirst \in BOOLEAN

VARIABLES
    alive,      \* the threads that exist
    blocked,    \* the signal mask of each thread
    listening,  \* m_sigset; empty before the listener is constructed
    pending,    \* the signals pending for the process
    waiting,    \* the threads in wait()
    kills,      \* how many signals were sent
    killed      \* the process has ended

signalVars == <<alive, blocked, listening, pending, waiting, kills, killed>>

SigThread == Child \union {Main}

SignalsInit ==
    /\ alive = {Main}
    /\ blocked = [t \in SigThread |-> {}]
    /\ listening = {} /\ pending = {} /\ waiting = {}
    /\ kills = 0 /\ killed = FALSE

-----------------------------------------------------------------------------
InSigsetMutant(mask) == {CHOOSE s \in mask : TRUE}
\* build_sigset adds every signal of the list
InSigset(mask) == mask

\* The constructor, in any thread
Listen(t, mask) ==
    /\ ~killed /\ t \in alive \ waiting
    /\ listening = {}
    /\ MainFirst => t = Main
    /\ listening' = mask
    /\ blocked' = [blocked EXCEPT ![t] = @ \union InSigset(mask)]
    /\ UNCHANGED <<alive, pending, waiting, kills, killed>>

Create(t, child) ==
    /\ ~killed /\ t \in alive \ waiting /\ child \in Child \ alive
    /\ MainFirst => listening # {}
    /\ alive' = alive \union {child}
    /\ blocked' = [blocked EXCEPT ![child] = blocked[t]]
    /\ UNCHANGED <<listening, pending, waiting, kills, killed>>

\* kill(getpid(), s)
Send(s) ==
    /\ ~killed /\ kills < MaxKills
    /\ MainFirst => s \in listening
    /\ pending' = pending \union {s}
    /\ kills' = kills + 1
    /\ UNCHANGED <<alive, blocked, listening, waiting, killed>>

\* wait(): the thread is in sigwait until a signal of the set is pending
Wait(t) ==
    /\ ~killed /\ t \in alive \ waiting
    /\ listening # {}
    /\ waiting' = waiting \union {t}
    /\ UNCHANGED <<alive, blocked, listening, pending, kills, killed>>

AwaitedMutant == {CHOOSE s \in listening : TRUE}
\* sigwait is called for the signals that were blocked
Awaited == listening

TakenMutant(s) == {}
\* sigwait removes the signal it returns
Taken(s) == {s}

WaitReturns(t) ==
    /\ ~killed /\ t \in waiting
    /\ \E s \in pending \intersect Awaited : pending' = pending \ Taken(s)
    /\ waiting' = waiting \ {t}
    /\ UNCHANGED <<alive, blocked, listening, kills, killed>>

\* The default action, in a thread that does not block the signal and is not in
\* sigwait for it
Undefended(t) == pending \ (blocked[t] \union IF t \in waiting THEN Awaited ELSE {})

Deliver ==
    /\ killed' = (killed \/ \E t \in alive : Undefended(t) # {})
    /\ UNCHANGED <<alive, blocked, listening, pending, waiting, kills>>

SignalsNext ==
    \/ \E t \in SigThread : Wait(t) \/ WaitReturns(t)
    \/ \E t \in SigThread, mask \in SUBSET Signal \ {{}} : Listen(t, mask)
    \/ \E t \in SigThread, child \in Child : Create(t, child)
    \/ \E s \in Signal : Send(s)
    \/ Deliver

\* The main thread calls wait again and again, and sigwait returns
SignalsFairness ==
    WF_signalVars(Wait(Main)) /\ \A t \in SigThread : WF_signalVars(WaitReturns(t))

SignalsSpec == SignalsInit /\ [][SignalsNext]_signalVars /\ SignalsFairness

-----------------------------------------------------------------------------
(* Properties *)

\* A program that constructs its listener first is not ended by a signal it
\* listens for, whichever thread the system picks.
NotKilled == ~killed /\ \A t \in alive : Undefended(t) = {}

\* Every signal that is listened for is returned by a wait(), provided that some
\* thread keeps calling it.
SignalReturned == \A s \in Signal : s \in pending /\ s \in listening ~> s \notin pending

\* Signals reach the listener: none ends the process, and each is returned.
ListenerGetsSignals == []NotKilled /\ SignalReturned
=============================================================================
