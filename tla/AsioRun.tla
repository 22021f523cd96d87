------------------------------- MODULE AsioRun -------------------------------
(***************************************************************************)
(* upp::coro::run on an asio_scheduler: a client posts its work to an      *)
(* io_context and waits until a worker, a thread in io_context::run, has   *)
(* called it.  The io_context is Boost's: run returns, and stops the       *)
(* context, as soon as there is neither a posted nor a running handler nor *)
(* a work guard.                                                           *)
(***************************************************************************)
EXTENDS Naturals, Sequences, FiniteSets

CONSTANTS
    Client,     \* threads that call run
    Worker,     \* threads that run the io_context
    NoClient,   \* a worker that executes nothing
    MaxRuns,    \* how often each client calls run
    WorkGuard   \* whether the program keeps a work guard until all clients have
                \* finished (TRUE) or has none (FALSE)

ASSUME AsioAssumption ==
    NoClient \notin Client /\ MaxRuns \in Nat /\ WorkGuard \subseteq BOOLEAN

VARIABLES
    posted,     \* the handlers in the io_context, by their clients
    stopped,    \* of the io_context
    keep,       \* there is a work guard
    client,     \* where each client is: "out", "waiting" or "done"
    runs,       \* how many calls each client has begun
    worker,     \* where each worker is: "start", "running", "returned"
    executing,  \* the handler a worker runs
    calls       \* history: how often the work of each client was called

asioVars == <<posted, stopped, keep, client, runs, worker, executing, calls>>

AsioInit ==
    /\ posted = <<>> /\ stopped = FALSE /\ keep \in WorkGuard
    /\ client = [c \in Client |-> "out"] /\ runs = [c \in Client |-> 0]
    /\ worker = [w \in Worker |-> "start"] /\ executing = [w \in Worker |-> NoClient]
    /\ calls = [c \in Client |-> 0]

-----------------------------------------------------------------------------
\* Nothing is posted, and no worker but w is inside a handler
Idle(w) ==
    /\ posted = <<>>
    /\ \A v \in Worker \ {w} : executing[v] = NoClient /\ worker[v] # "called"

PostingMutant(c) == <<c, c>>
PostingLost(c) == <<>>
\* op::start posts one handler
Posting(c) == <<c>>

\* run connects and starts; sync_wait waits
Run(c) ==
    /\ client[c] = "out" /\ runs[c] < MaxRuns
    /\ runs' = [runs EXCEPT ![c] = @ + 1]
    /\ posted' = posted \o Posting(c)
    /\ client' = [client EXCEPT ![c] = "waiting"]
    /\ UNCHANGED <<stopped, keep, worker, executing, calls>>

Finish(c) ==
    /\ client[c] = "out" /\ runs[c] = MaxRuns
    /\ client' = [client EXCEPT ![c] = "done"]
    /\ UNCHANGED <<posted, stopped, keep, runs, worker, executing, calls>>

\* The work guard is reset when every client is done
Reset ==
    /\ keep /\ \A c \in Client : client[c] = "done"
    /\ keep' = FALSE
    /\ stopped' = (stopped \/ (\A w \in Worker : Idle(w)))
    /\ UNCHANGED <<posted, client, runs, worker, executing, calls>>

\* io_context::run is entered: without work it stops the context
EnterRun(w) ==
    /\ worker[w] = "start"
    /\ stopped' = (stopped \/ (~keep /\ Idle(w)))
    /\ worker' = [worker EXCEPT ![w] = IF stopped' THEN "returned" ELSE "running"]
    /\ UNCHANGED <<posted, keep, client, runs, executing, calls>>

TakeHandler(w) ==
    /\ worker[w] = "running" /\ executing[w] = NoClient /\ ~stopped
    /\ posted # <<>>
    /\ executing' = [executing EXCEPT ![w] = Head(posted)]
    /\ posted' = Tail(posted)
    /\ UNCHANGED <<stopped, keep, client, runs, worker, calls>>

ReleasedMutant(c) == "waiting"
\* set_value: the work is called and the client wakes, inside the handler
Released(c) == "out"

Call(w) ==
    /\ executing[w] \in Client
    /\ calls' = [calls EXCEPT ![executing[w]] = @ + 1]
    /\ client' = [client EXCEPT ![executing[w]] = Released(executing[w])]
    /\ worker' = [worker EXCEPT ![w] = "called"]
    /\ executing' = [executing EXCEPT ![w] = NoClient]
    /\ UNCHANGED <<posted, stopped, keep, runs>>

\* The handler returns; the last one stops the context
ReturnHandler(w) ==
    /\ worker[w] = "called"
    /\ worker' = [worker EXCEPT ![w] = "running"]
    /\ stopped' = (stopped \/ (~keep /\ Idle(w)))
    /\ UNCHANGED <<posted, keep, client, runs, executing, calls>>

LeaveRun(w) ==
    /\ worker[w] = "running" /\ executing[w] = NoClient /\ stopped
    /\ worker' = [worker EXCEPT ![w] = "returned"]
    /\ UNCHANGED <<posted, stopped, keep, client, runs, executing, calls>>

ClientStep == (\E c \in Client : Run(c) \/ Finish(c)) \/ Reset
WorkerStep(w) ==
    EnterRun(w) \/ TakeHandler(w) \/ Call(w) \/ ReturnHandler(w) \/ LeaveRun(w)

AsioNext == ClientStep \/ \E w \in Worker : WorkerStep(w)

AsioFairness == WF_asioVars(ClientStep) /\ \A w \in Worker : WF_asioVars(WorkerStep(w))

AsioSpec == AsioInit /\ [][AsioNext]_asioVars /\ AsioFairness

-----------------------------------------------------------------------------
(* Properties *)

\* The work of a client is called once for each call of run, and before it
\* returns (the test CallCount of coro/test/asio_scheduler.cpp).
CalledOnce ==
    \A c \in Client : calls[c] = runs[c] - (IF client[c] = "waiting" THEN 1 ELSE 0)

\* A call of run that posts before the context is stopped returns, whichever worker
\* takes it and whoever else posts: no worker stops the context, or leaves it, over
\* the head of a handler.  (One that posts later waits for ever, which nothing in the
\* tests of coro/test/asio_scheduler.cpp prevents: they have no work guard.)
RunReturns ==
    \A c \in Client : client[c] = "waiting" /\ ~stopped ~> client[c] # "waiting"

\* ... which a work guard rules out: as long as it is kept, no context is stopped.
GuardKeeps == keep => ~stopped

\* All workers that have entered the io_context return from it in the end, so that
\* joining them does not block.
WorkersReturn == \A w \in Worker : worker[w] = "running" ~> worker[w] = "returned"

\* Every call of run that posts in time has its work called once and returns, no
\* work is called twice or after the call, and the workers can be joined.
RunsInTimeEnd == []CalledOnce /\ []GuardKeeps /\ RunReturns /\ WorkersReturn
=============================================================================
