---------------------------- MODULE GuardProofs ----------------------------
(***************************************************************************)
(* Proofs about Guard, for any number of threads, locks and guards and     *)
(* values without a bound: with a mutex that excludes, moving locks about, *)
(* from each other, keeps the exclusion, and no update is lost.            *)
(***************************************************************************)
EXTENDS Guard, TLAPS

\* A guard is in one lock at most, and its mutex belongs to the thread of that lock
OneLock ==
    \A g \in Guarded, t, u \in Thread, s, r \in Slot :
        m_parent[t][s] = g /\ m_parent[u][r] = g => t = u /\ s = r

OwnerHolds ==
    \A g \in Guarded, t \in Thread : owner[g] = t <=> \E s \in Slot : m_parent[t][s] = g

\* A thread in the middle of an update owns the guard, and has read its value
UpdateIsSafe ==
    \A t \in Thread : using[t] # Nobody =>
        owner[using[t]] = t /\ loaded[t] = m_v[using[t]]

GuardInv == GuardTypeOK /\ OneLock /\ OwnerHolds /\ UpdateIsSafe /\ NoLostUpdate

-----------------------------------------------------------------------------
LEMMA InitGuard == GuardInit => GuardInv
<1> SUFFICES ASSUME GuardInit PROVE GuardInv
  OBVIOUS
<1>1. GuardTypeOK
  BY DEF GuardInit, GuardTypeOK
<1>2. OneLock /\ OwnerHolds
  BY GuardAssumption DEF GuardInit, OneLock, OwnerHolds
<1>3. UpdateIsSafe /\ NoLostUpdate
  BY DEF GuardInit, UpdateIsSafe, NoLostUpdate
<1> QED
  BY <1>1, <1>2, <1>3 DEF GuardInv

LEMMA StutterKeeps == ASSUME GuardInv, UNCHANGED guardVars PROVE GuardInv'
  BY DEF guardVars, GuardInv, GuardTypeOK, OneLock, OwnerHolds, UpdateIsSafe, NoLostUpdate

\* The mutex is free, so no lock has the guard
LEMMA LockKeeps ==
    ASSUME Excludes, GuardInv, NEW t \in Thread, NEW s \in Slot, NEW g \in Guarded, Lock(t, s, g)
    PROVE  GuardInv'
<1>1. /\ owner[g] = Nobody
      /\ m_parent[t][s] = NoLock
  BY DEF Lock, Lockable
<1>2. \A u \in Thread, r \in Slot : m_parent[u][r] # g
  BY <1>1, GuardAssumption DEF GuardInv, OwnerHolds
<1>3. \A u \in Thread, r \in Slot :
         m_parent'[u][r] = IF u = t /\ r = s THEN g ELSE m_parent[u][r]
  BY DEF Lock, GuardInv, GuardTypeOK
<1>4. \A h \in Guarded : owner'[h] = IF h = g THEN t ELSE owner[h]
  BY DEF Lock, GuardInv, GuardTypeOK
<1>5. GuardTypeOK'
  BY DEF Lock, GuardInv, GuardTypeOK
<1>6. OneLock'
  BY <1>2, <1>3 DEF GuardInv, OneLock
<1>7. OwnerHolds'
  BY <1>1, <1>2, <1>3, <1>4, GuardAssumption DEF GuardInv, OwnerHolds
<1>8. UpdateIsSafe'
  BY <1>1, <1>4, GuardAssumption DEF Lock, GuardInv, GuardTypeOK, UpdateIsSafe
<1>9. NoLostUpdate'
  BY DEF Lock, GuardInv, NoLostUpdate
<1> QED
  BY <1>5, <1>6, <1>7, <1>8, <1>9 DEF GuardInv

\* What the destructor of a lock does to the owners, and why no update is cut short
LEMMA OwnersAfterUnlock ==
    ASSUME GuardInv, NEW t \in Thread, NEW s \in Slot, MayDestroy(t, s), owner' = OwnerAfterUnlock(t, s)
    PROVE  /\ owner' \in [Guarded -> Thread \union {Nobody}]
           /\ \A g \in Guarded : owner'[g] = IF m_parent[t][s] = g THEN Nobody ELSE owner[g]
           /\ \A u \in Thread : using[u] # Nobody => owner'[using[u]] = owner[using[u]]
<1>1. \A g \in Guarded : owner'[g] = IF m_parent[t][s] = g THEN Nobody ELSE owner[g]
  BY DEF OwnerAfterUnlock, Holds
<1>2. owner' \in [Guarded -> Thread \union {Nobody}]
  BY DEF OwnerAfterUnlock, Holds, GuardInv, GuardTypeOK
<1>3. ASSUME NEW u \in Thread, using[u] # Nobody
      PROVE  owner'[using[u]] = owner[using[u]]
  <2>1. using[u] \in Guarded /\ owner[using[u]] = u
    BY <1>3 DEF GuardInv, GuardTypeOK, UpdateIsSafe
  <2>2. m_parent[t][s] = using[u] => u = t
    BY <2>1 DEF GuardInv, OwnerHolds
  <2> QED
    BY <1>1, <2>1, <2>2 DEF MayDestroy
<1> QED
  BY <1>1, <1>2, <1>3

LEMMA UnlockKeeps ==
    ASSUME GuardInv, NEW t \in Thread, NEW s \in Slot, Unlock(t, s)
    PROVE  GuardInv'
<1>1. /\ owner' \in [Guarded -> Thread \union {Nobody}]
      /\ \A g \in Guarded : owner'[g] = IF m_parent[t][s] = g THEN Nobody ELSE owner[g]
      /\ \A u \in Thread : using[u] # Nobody => owner'[using[u]] = owner[using[u]]
  BY OwnersAfterUnlock DEF Unlock
<1>2. \A u \in Thread, r \in Slot :
         m_parent'[u][r] = IF u = t /\ r = s THEN NoLock ELSE m_parent[u][r]
  BY DEF Unlock, GuardInv, GuardTypeOK
<1>3. GuardTypeOK'
  BY <1>1 DEF Unlock, GuardInv, GuardTypeOK
<1>4. OneLock'
  BY <1>2, GuardAssumption DEF GuardInv, OneLock
<1>5. OwnerHolds'
  BY <1>1, <1>2, GuardAssumption DEF GuardInv, OwnerHolds, OneLock
<1>6. UpdateIsSafe'
  BY <1>1 DEF Unlock, GuardInv, UpdateIsSafe
<1>7. NoLostUpdate'
  BY DEF Unlock, GuardInv, NoLostUpdate
<1> QED
  BY <1>3, <1>4, <1>5, <1>6, <1>7 DEF GuardInv

LEMMA MoveKeeps ==
    ASSUME GuardInv, NEW t \in Thread, NEW s \in Slot, NEW from \in Slot, MoveLock(t, s, from)
    PROVE  GuardInv'
<1>1. s # from /\ m_parent[t][s] = NoLock
  BY DEF MoveLock
<1>2. \A u \in Thread, r \in Slot :
         m_parent'[u][r] = IF u = t /\ r = from THEN Empty
                           ELSE IF u = t /\ r = s THEN m_parent[t][from] ELSE m_parent[u][r]
  BY <1>1 DEF MoveLock, LeftBehind, GuardInv, GuardTypeOK
<1>3. GuardTypeOK'
  BY DEF MoveLock, LeftBehind, GuardInv, GuardTypeOK
<1>4. OneLock'
  BY <1>2, GuardAssumption DEF GuardInv, OneLock
<1>5. OwnerHolds'
  <2> SUFFICES ASSUME NEW g \in Guarded, NEW u \in Thread
               PROVE  owner'[g] = u <=> \E r \in Slot : m_parent'[u][r] = g
    BY DEF OwnerHolds
  <2>1. ASSUME NEW r \in Slot, m_parent'[u][r] = g
        PROVE  \E q \in Slot : m_parent[u][q] = g
    BY <1>2, <2>1, GuardAssumption
  <2>2. ASSUME NEW r \in Slot, m_parent[u][r] = g
        PROVE  \E q \in Slot : m_parent'[u][q] = g
    BY <1>1, <1>2, <2>2, GuardAssumption
  <2>3. owner'[g] = u <=> \E r \in Slot : m_parent[u][r] = g
    BY DEF MoveLock, GuardInv, OwnerHolds
  <2> QED
    BY <2>1, <2>2, <2>3
<1>6. UpdateIsSafe' /\ NoLostUpdate'
  BY DEF MoveLock, GuardInv, UpdateIsSafe, NoLostUpdate
<1> QED
  BY <1>3, <1>4, <1>5, <1>6 DEF GuardInv

\* A move assignment unlocks what the target has and keeps what the source has
LEMMA AssignKeeps ==
    ASSUME ~AssignsItself, GuardInv, NEW t \in Thread, NEW s \in Slot, NEW from \in Slot, AssignLock(t, s, from)
    PROVE  GuardInv'
<1>0. CASE s = from
  <2>1. m_parent[t][s] = Empty
    BY <1>0 DEF AssignLock
  <2>2. \A g \in Guarded : ~Holds(t, s, g)
    BY <2>1, GuardAssumption DEF Holds
  <2>3. owner' = owner
    BY <2>2 DEF AssignLock, OwnerAfterUnlock, GuardInv, GuardTypeOK
  <2>4. m_parent' = m_parent
    BY <1>0, <2>1 DEF AssignLock, GuardInv, GuardTypeOK
  <2>5. UNCHANGED guardVars
    BY <2>3, <2>4 DEF AssignLock, guardVars
  <2> QED
    BY <2>5, StutterKeeps
<1> SUFFICES ASSUME s # from PROVE GuardInv'
  BY <1>0
<1>1. /\ owner' \in [Guarded -> Thread \union {Nobody}]
      /\ \A g \in Guarded : owner'[g] = IF m_parent[t][s] = g THEN Nobody ELSE owner[g]
      /\ \A u \in Thread : using[u] # Nobody => owner'[using[u]] = owner[using[u]]
  BY OwnersAfterUnlock DEF AssignLock
<1>2. s # from
  OBVIOUS
<1>3. \A u \in Thread, r \in Slot :
         m_parent'[u][r] = IF u = t /\ r = from THEN Empty
                           ELSE IF u = t /\ r = s THEN m_parent[t][from] ELSE m_parent[u][r]
  BY <1>2 DEF AssignLock, LeftBehind, GuardInv, GuardTypeOK
<1>4. GuardTypeOK'
  BY <1>1 DEF AssignLock, LeftBehind, GuardInv, GuardTypeOK
<1>5. OneLock'
  BY <1>3, GuardAssumption DEF GuardInv, OneLock
<1>6. OwnerHolds'
  <2> SUFFICES ASSUME NEW g \in Guarded, NEW u \in Thread
               PROVE  owner'[g] = u <=> \E r \in Slot : m_parent'[u][r] = g
    BY DEF OwnerHolds
  <2>1. CASE m_parent[t][s] = g
    <3>1. \A r \in Slot : m_parent'[u][r] # g
      BY <1>2, <1>3, <2>1, GuardAssumption DEF GuardInv, OneLock
    <3> QED
      BY <1>1, <2>1, <3>1, GuardAssumption
  <2>2. CASE m_parent[t][s] # g
    <3>1. owner'[g] = u <=> \E r \in Slot : m_parent[u][r] = g
      BY <1>1, <2>2 DEF GuardInv, OwnerHolds
    <3>2. ASSUME NEW r \in Slot, m_parent'[u][r] = g
          PROVE  \E q \in Slot : m_parent[u][q] = g
      BY <1>3, <3>2, GuardAssumption
    <3>3. ASSUME NEW r \in Slot, m_parent[u][r] = g
          PROVE  \E q \in Slot : m_parent'[u][q] = g
      BY <1>2, <1>3, <2>2, <3>3, GuardAssumption
    <3> QED
      BY <3>1, <3>2, <3>3
  <2> QED
    BY <2>1, <2>2
<1>7. UpdateIsSafe'
  BY <1>1 DEF AssignLock, GuardInv, UpdateIsSafe
<1>8. NoLostUpdate'
  BY DEF AssignLock, GuardInv, NoLostUpdate
<1> QED
  BY <1>4, <1>5, <1>6, <1>7, <1>8 DEF GuardInv

LEMMA LoadKeeps ==
    ASSUME GuardInv, NEW t \in Thread, NEW s \in Slot, NEW g \in Guarded, Load(t, s, g)
    PROVE  GuardInv'
<1>1. owner[g] = t
  BY DEF Load, Holds, GuardInv, OwnerHolds
<1>2. GuardTypeOK'
  BY DEF Load, GuardInv, GuardTypeOK
<1>3. OneLock' /\ OwnerHolds' /\ NoLostUpdate'
  BY DEF Load, GuardInv, OneLock, OwnerHolds, NoLostUpdate
<1>4. UpdateIsSafe'
  BY <1>1 DEF Load, GuardInv, GuardTypeOK, UpdateIsSafe
<1> QED
  BY <1>2, <1>3, <1>4 DEF GuardInv

\* Nobody else is in the middle of an update of this guard
LEMMA StoreKeeps ==
    ASSUME GuardInv, NEW t \in Thread, NEW g \in Guarded, Store(t, g)
    PROVE  GuardInv'
<1>1. using[t] = g /\ g # Nobody
  BY GuardAssumption DEF Store
<1>2. owner[g] = t /\ loaded[t] = m_v[g]
  BY <1>1 DEF GuardInv, UpdateIsSafe
<1>3. GuardTypeOK'
  BY DEF Store, GuardInv, GuardTypeOK
<1>4. OneLock' /\ OwnerHolds'
  BY DEF Store, GuardInv, OneLock, OwnerHolds
<1>5. UpdateIsSafe'
  <2> SUFFICES ASSUME NEW u \in Thread, using'[u] # Nobody
               PROVE  owner'[using'[u]] = u /\ loaded'[u] = m_v'[using'[u]]
    BY DEF UpdateIsSafe
  <2>1. u # t /\ using'[u] = using[u]
    BY DEF Store, GuardInv, GuardTypeOK
  <2>2. owner[using[u]] = u /\ loaded[u] = m_v[using[u]]
    BY <2>1 DEF GuardInv, UpdateIsSafe
  <2>3. using[u] # g
    BY <1>2, <2>1, <2>2
  <2> QED
    BY <2>1, <2>2, <2>3 DEF Store, GuardInv, GuardTypeOK
<1>6. NoLostUpdate'
  BY <1>2 DEF Store, GuardInv, GuardTypeOK, NoLostUpdate
<1> QED
  BY <1>3, <1>4, <1>5, <1>6 DEF GuardInv

LEMMA NextGuard ==
    ASSUME Excludes, ~AssignsItself, GuardInv, [GuardNext]_guardVars
    PROVE  GuardInv'
<1>1. CASE UNCHANGED guardVars
  BY <1>1, StutterKeeps
<1>2. CASE GuardNext
  <2> PICK t \in Thread :
        \/ \E s \in Slot : Unlock(t, s)
        \/ \E s \in Slot, g \in Guarded : Lock(t, s, g) \/ Load(t, s, g)
        \/ \E s, from \in Slot : MoveLock(t, s, from) \/ AssignLock(t, s, from)
        \/ \E g \in Guarded : Store(t, g)
    BY <1>2 DEF GuardNext
  <2> QED
    BY UnlockKeeps, LockKeeps, LoadKeeps, MoveKeeps, AssignKeeps, StoreKeeps
<1> QED
  BY <1>1, <1>2

\* The inductive invariant: one lock for a guard, whose thread owns the mutex, and
\* updates that nobody interrupts.
THEOREM GuardInvariance == ASSUME Excludes, ~AssignsItself PROVE GuardSpec => []GuardInv
<1>1. GuardInit => GuardInv
  BY InitGuard
<1>2. GuardInv /\ [GuardNext]_guardVars => GuardInv'
  BY NextGuard
<1> QED
  BY <1>1, <1>2, PTL DEF GuardSpec

\* Mutual exclusion, and no mutex that stays locked or is unlocked twice, whatever
\* locks are moved and assigned to other locks (basic_guard::raii_lock).
THEOREM MutualExclusion == ASSUME Excludes, ~AssignsItself PROVE GuardSpec => []OneHolder
<1>1. GuardInv => OneHolder
  BY DEF GuardInv, OneLock, OwnerHolds, OneHolder, Holds
<1> QED
  BY <1>1, GuardInvariance, PTL

\* A value behind a guard counts every update of every thread, under the same two
\* conditions: a mutex that excludes, and no lock assigned to itself.
THEOREM UpdatesKept == ASSUME Excludes, ~AssignsItself PROVE GuardSpec => []NoLostUpdate
<1>1. GuardInv => NoLostUpdate
  BY DEF GuardInv
<1> QED
  BY <1>1, GuardInvariance, PTL
=============================================================================
