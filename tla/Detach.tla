------------------------------- MODULE Detach -------------------------------
(***************************************************************************)
(* upp::coro::detach and yield in a task that sync_wait runs on its own    *)
(* thread (CO_TEST): what is detached is started on the scheduler of the   *)
(* task, a queue of operations, and belongs to a scope that can be waited  *)
(* for.  yield completes at once.  The queue and the scope are stdexec's.  *)
(***************************************************************************)
EXTENDS Naturals, Sequences, FiniteSets

CONSTANTS
    Job,        \* what the task detaches
    MaxYields   \* how often a job yields

\* What the run loop resumes besides the jobs
Task == "task"

ASSUME DetachAssumption == IsFiniteSet(Job) /\ Task \notin Job /\ MaxYields \in Nat

VARIABLES
    ready,      \* the run loop: jobs that were started, and "task" when it may go on
    running,    \* the job or the task that runs
    open,       \* the scope: the jobs that were spawned and have not completed
    yields,     \* how often each job has yielded
    ended,      \* the jobs that have completed
    task        \* where the task is: "detaching", "waiting", "ended"

detachVars == <<ready, running, open, yields, ended, task>>

DetachInit ==
    /\ ready = <<>> /\ running = {Task}
    /\ open = {} /\ ended = {}
    /\ yields = [j \in Job |-> 0]
    /\ task = "detaching"

-----------------------------------------------------------------------------
\* starts_on puts the job in the queue
Started(j) == <<j>>

\* A plausible bug: spawn without starts_on runs the job in place
DetachJobMutant(j) ==
    /\ task = "detaching" /\ running = {Task} /\ j \notin open \union ended
    /\ open' = open \union {j} /\ running' = {j}
    /\ UNCHANGED <<ready, yields, ended, task>>
\* co_await detach(scope, job)
DetachJob(j) ==
    /\ task = "detaching" /\ running = {Task}
    /\ j \notin open \union ended
    /\ open' = open \union {j}
    /\ ready' = ready \o Started(j)
    /\ UNCHANGED <<running, yields, ended, task>>

\* co_await scope.on_empty(): the task suspends unless the scope is empty
AwaitEmpty ==
    /\ task = "detaching" /\ running = {Task}
    /\ IF open = {} THEN task' = "ended" ELSE task' = "waiting"
    /\ running' = IF open = {} THEN running ELSE {}
    /\ UNCHANGED <<ready, open, yields, ended>>

\* The run loop takes the next operation
RunNext ==
    /\ running = {} /\ ready # <<>>
    /\ running' = {Head(ready)}
    /\ ready' = Tail(ready)
    /\ task' = IF Head(ready) = Task THEN "ended" ELSE task
    /\ UNCHANGED <<open, yields, ended>>

AfterYieldMutant(j) == {}
\* The receiver of yield is completed in start: the job goes on
AfterYield(j) == {j}

Yield(j) ==
    /\ running = {j} /\ yields[j] < MaxYields
    /\ yields' = [yields EXCEPT ![j] = @ + 1]
    /\ running' = AfterYield(j)
    /\ UNCHANGED <<ready, open, ended, task>>

\* A job completes; the last one lets the waiting task go on
Complete(j) ==
    /\ running = {j} /\ yields[j] = MaxYields
    /\ open' = open \ {j}
    /\ ended' = ended \union {j}
    /\ running' = {}
    /\ ready' = IF open = {j} /\ task = "waiting" THEN Append(ready, Task) ELSE ready
    /\ UNCHANGED <<yields, task>>

DetachNext ==
    \/ AwaitEmpty \/ RunNext
    \/ \E j \in Job : DetachJob(j) \/ Yield(j) \/ Complete(j)

DetachFairness == WF_detachVars(DetachNext)

DetachSpec == DetachInit /\ [][DetachNext]_detachVars /\ DetachFairness

-----------------------------------------------------------------------------
(* Properties *)

\* Nothing that is detached runs before the task waits, and when on_empty lets
\* it go on everything has ended: `called` is false and then true in the test of
\* coro/test/detach.cpp, for any number of jobs that yield any number of times.
DetachedLater ==
    /\ task = "detaching" => ended = {} /\ running = {Task}
    /\ task = "ended" => open = {} /\ ready = <<>>

\* A task that waits goes on: yielding does not lose a job, and the scope becomes empty.
TaskEnds == task = "waiting" ~> task = "ended"

\* Detached jobs run after the task has begun to wait, and before it goes on, which
\* it does.
DetachedRunToEnd == []DetachedLater /\ TaskEnds
=============================================================================
