-------------------------------- MODULE Guard --------------------------------
(***************************************************************************)
(* upp::basic_guard of core/include/upp/guard.hpp: a value that is reached *)
(* through a raii_lock only.  Lock objects are moved and assigned while    *)
(* they hold the mutex.                                                    *)
(***************************************************************************)
EXTENDS Naturals, FiniteSets

CONSTANTS
    Thread,     \* the threads
    Slot,       \* the raii_lock variables of a thread
    Guarded,    \* the basic_guard objects
    Nobody,     \* no thread
    Empty,      \* the null m_parent of a lock that was moved from
    NoLock,     \* a variable whose lock does not exist
    Excludes,   \* TRUE: Mutex is std::mutex; FALSE: nop_mutex
    AssignsItself, \* TRUE: a lock that has a guard may be assigned to itself
    MaxValue    \* bound on the updates explored

ASSUME GuardAssumption ==
    /\ Nobody \notin Thread \union Guarded /\ Empty \notin Guarded /\ NoLock \notin Guarded /\ Empty # NoLock
    /\ Excludes \in BOOLEAN /\ AssignsItself \in BOOLEAN /\ MaxValue \in Nat

VARIABLES
    m_parent,   \* of the locks of each thread
    owner,      \* the thread that has the mutex of a guard
    m_v,        \* the value of a guard
    using,      \* the guard whose value a thread is updating, or Nobody
    loaded,     \* what it has read of the value
    updates     \* history: the updates that are complete

guardVars == <<m_parent, owner, m_v, using, loaded, updates>>

GuardInit ==
    /\ m_parent = [t \in Thread |-> [s \in Slot |-> NoLock]]
    /\ owner = [g \in Guarded |-> Nobody]
    /\ m_v = [g \in Guarded |-> 0]
    /\ using = [t \in Thread |-> Nobody]
    /\ loaded = [t \in Thread |-> 0]
    /\ updates = [g \in Guarded |-> 0]

-----------------------------------------------------------------------------
Holds(t, s, g) == m_parent[t][s] = g

LockableMutant(g) == TRUE
\* lock() of the mutex returns: nobody has it, or it is a nop_mutex
Lockable(g) == Excludes => owner[g] = Nobody

\* basic_guard::lock
Lock(t, s, g) ==
    /\ m_parent[t][s] = NoLock
    /\ Lockable(g)
    /\ owner' = [owner EXCEPT ![g] = t]
    /\ m_parent' = [m_parent EXCEPT ![t][s] = g]
    /\ UNCHANGED <<m_v, using, loaded, updates>>

\* ~raii_lock unlocks what the lock still has.  A thread does not give a guard up
\* in the middle of an update.
OwnerAfterUnlock(t, s) ==
    [g \in Guarded |-> IF Holds(t, s, g) THEN Nobody ELSE owner[g]]

MayDestroy(t, s) == m_parent[t][s] \notin {NoLock, using[t]}

Unlock(t, s) ==
    /\ MayDestroy(t, s)
    /\ owner' = OwnerAfterUnlock(t, s)
    /\ m_parent' = [m_parent EXCEPT ![t][s] = NoLock]
    /\ UNCHANGED <<m_v, using, loaded, updates>>

LeftBehindMutant(t, from) == m_parent[t][from]
\* What std::exchange leaves in the lock moved from
LeftBehind(t, from) == Empty

\* The move constructor
MoveLock(t, s, from) ==
    /\ m_parent[t][s] = NoLock /\ m_parent[t][from] # NoLock
    /\ m_parent' = [m_parent EXCEPT ![t][s] = m_parent[t][from],
                                    ![t][from] = LeftBehind(t, from)]
    /\ UNCHANGED <<owner, m_v, using, loaded, updates>>

\* The move assignment destroys the target first: a guard it holds is unlocked
\* after the one moved in was locked.  A lock assigned to itself unlocks its guard,
\* takes it from itself again, and goes on as if it had the mutex.
AssignLock(t, s, from) ==
    /\ s = from /\ m_parent[t][s] # Empty => AssignsItself
    /\ m_parent[t][s] # NoLock /\ m_parent[t][from] # NoLock
    /\ MayDestroy(t, s)
    /\ owner' = OwnerAfterUnlock(t, s)
    /\ m_parent' = [m_parent EXCEPT
                       ![t] = [@ EXCEPT ![from] = LeftBehind(t, from), ![s] = m_parent[t][from]]]
    /\ UNCHANGED <<m_v, using, loaded, updates>>

\* An update through operator->, which asserts that the lock is not empty: the
\* value is read, and written later
Load(t, s, g) ==
    /\ Holds(t, s, g)
    /\ using[t] = Nobody
    /\ m_v[g] < MaxValue
    /\ using' = [using EXCEPT ![t] = g]
    /\ loaded' = [loaded EXCEPT ![t] = m_v[g]]
    /\ UNCHANGED <<m_parent, owner, m_v, updates>>

Store(t, g) ==
    /\ using[t] = g
    /\ m_v' = [m_v EXCEPT ![g] = loaded[t] + 1]
    /\ updates' = [updates EXCEPT ![g] = @ + 1]
    /\ using' = [using EXCEPT ![t] = Nobody]
    /\ UNCHANGED <<m_parent, owner, loaded>>

GuardNext ==
    \E t \in Thread :
        \/ \E s \in Slot : Unlock(t, s)
        \/ \E s \in Slot, g \in Guarded : Lock(t, s, g) \/ Load(t, s, g)
        \/ \E s, from \in Slot : MoveLock(t, s, from) \/ AssignLock(t, s, from)
        \/ \E g \in Guarded : Store(t, g)

GuardSpec == GuardInit /\ [][GuardNext]_guardVars

-----------------------------------------------------------------------------
(* Properties *)

\* Types.
GuardTypeOK ==
    /\ m_parent \in [Thread -> [Slot -> Guarded \union {Empty, NoLock}]]
    /\ owner \in [Guarded -> Thread \union {Nobody}]
    /\ m_v \in [Guarded -> Nat] /\ updates \in [Guarded -> Nat]
    /\ using \in [Thread -> Guarded \union {Nobody}]
    /\ loaded \in [Thread -> Nat]

\* Mutual exclusion: a guard is held by at most one lock of one thread, the one
\* that has its mutex; however locks were moved and assigned to each other, none was
\* unlocked twice and none stays locked without a lock object.  (A lock assigned to
\* itself breaks this: see AssignsItself.)
OneHolder ==
    \A g \in Guarded, t \in Thread :
        /\ \A u \in Thread, s, r \in Slot :
              Holds(t, s, g) /\ Holds(u, r, g) => t = u /\ s = r
        /\ (owner[g] = t) <=> \E s \in Slot : Holds(t, s, g)

\* No update of the value is lost to another thread's, as long as no lock is
\* assigned to itself and goes on without the mutex.
NoLostUpdate == \A g \in Guarded : m_v[g] = updates[g]
=============================================================================
