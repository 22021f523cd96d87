---------------------------- MODULE ThreadsProofs ----------------------------
(***************************************************************************)
(* Proofs about Cleanup, Signals, AsioRun and Detach.                      *)
(***************************************************************************)
EXTENDS Cleanup, Signals, AsioRun, Detach, FiniteSetTheorems,
        SequenceTheorems, TLAPS

-----------------------------------------------------------------------------
(* Cleanup: in a program that keeps cleanup_throw and cleanup_success out of *)
(* callbacks that run while the program unwinds, no scope of one of these    *)
(* kinds is above a callback, so what it asks of std::uncaught_exceptions is *)
(* answered for its own scope.                                               *)

\* What may be on the stack
ScopeType == [what : Kind \union {"try", "callback"}, cancelled : BOOLEAN]

CleanupTypeOK ==
    /\ scopes \in Seq(ScopeType)
    /\ unwinding \in BOOLEAN
    /\ last \in [kind : Kind, cancelled : BOOLEAN, thrown : BOOLEAN, ran : BOOLEAN]

\* A scope that asks for exceptions is below every callback
AskersBelow ==
    \A i \in 1 .. Len(scopes) :
        scopes[i].what \in {"throw", "success"} =>
            \A j \in 1 .. i : scopes[j].what # "callback"

CleanupInv == CleanupTypeOK /\ AskersBelow /\ RunsAsNamed

\* The callbacks among the scopes
Callbacks == {i \in DOMAIN scopes : scopes[i].what = "callback"}

\* Uncaught counts the callbacks, and the exception on its way
LEMMA UncaughtCounts ==
    ASSUME CleanupTypeOK
    PROVE  /\ Uncaught \in Nat
           /\ Uncaught = 0 <=> Callbacks = {} /\ ~unwinding
           /\ Callbacks = {} => (Uncaught > 0 <=> unwinding)
<1>1. Callbacks \subseteq 1 .. Len(scopes)
  BY DEF Callbacks, CleanupTypeOK
<1>2. IsFiniteSet(Callbacks)
  <2>1. IsFiniteSet(1 .. Len(scopes))
    BY FS_Interval DEF CleanupTypeOK
  <2> QED
    BY <1>1, <2>1, FS_Subset
<1>3. Cardinality(Callbacks) \in Nat /\ (Cardinality(Callbacks) = 0 <=> Callbacks = {})
  BY <1>2, FS_CardinalityType, FS_EmptySet
<1>4. Uncaught = Cardinality(Callbacks) + (IF unwinding THEN 1 ELSE 0)
  BY DEF Uncaught, Callbacks
<1>5. unwinding \in BOOLEAN
  BY DEF CleanupTypeOK
<1> HIDE DEF Callbacks
<1> QED
  BY <1>3, <1>4, <1>5

\* A sequence without its last element
LEMMA FrontOf ==
    ASSUME NEW S, NEW s \in Seq(S), s # <<>>
    PROVE  /\ Len(s) \in Nat \ {0}
           /\ Front(s) \in Seq(S)
           /\ Len(Front(s)) = Len(s) - 1
           /\ \A i \in 1 .. Len(s) - 1 : Front(s)[i] = s[i]
<1>1. Len(s) \in Nat \ {0}
  OBVIOUS
<1>2. PICK n \in Nat : n = Len(s) - 1
  BY <1>1
<1>3. Front(s) = SubSeq(s, 1, n)
  BY <1>2 DEF Front
<1>4. \A i \in 1 .. n : s[i] \in S
  BY <1>1, <1>2
<1>5. SubSeq(s, 1, n) \in Seq(S)
  BY <1>2, <1>4, SubSeqProperties
<1>6. Len(SubSeq(s, 1, n)) = IF 1 <= n THEN n - 1 + 1 ELSE 0
  BY <1>2, <1>4, SubSeqProperties
<1>7. \A i \in 1 .. n - 1 + 1 : SubSeq(s, 1, n)[i] = s[1 + i - 1]
  BY <1>2, <1>4, SubSeqProperties
<1>8. Len(SubSeq(s, 1, n)) = n
  BY <1>2, <1>6
<1>9. \A i \in 1 .. n : SubSeq(s, 1, n)[i] = s[i]
  BY <1>2, <1>7
<1> QED
  BY <1>1, <1>2, <1>3, <1>5, <1>8, <1>9

\* The top of the stack and what is below it
LEMMA FrontAndLast ==
    ASSUME CleanupTypeOK, scopes # <<>>
    PROVE  /\ Len(scopes) \in Nat \ {0}
           /\ Inner = scopes[Len(scopes)] /\ Inner \in ScopeType
           /\ Front(scopes) \in Seq(ScopeType)
           /\ Len(Front(scopes)) = Len(scopes) - 1
           /\ \A i \in 1 .. Len(scopes) - 1 : Front(scopes)[i] = scopes[i]
<1>1. scopes \in Seq(ScopeType)
  BY DEF CleanupTypeOK
<1>2. Len(scopes) \in Nat \ {0}
  BY <1>1
<1>3. Inner = scopes[Len(scopes)] /\ Inner \in ScopeType
  BY <1>1, <1>2 DEF Inner, Last
<1>4. /\ Front(scopes) \in Seq(ScopeType)
      /\ Len(Front(scopes)) = Len(scopes) - 1
      /\ \A i \in 1 .. Len(scopes) - 1 : Front(scopes)[i] = scopes[i]
  BY <1>1, FrontOf
<1> QED
  BY <1>2, <1>3, <1>4

\* The stack stays as it is required to be below the top
LEMMA PushKeeps ==
    ASSUME NEW s \in Seq(ScopeType), NEW x \in ScopeType,
           \A i \in 1 .. Len(s) : s[i].what \in {"throw", "success"} =>
               \A j \in 1 .. i : s[j].what # "callback",
           x.what \in {"throw", "success"} =>
               \A j \in 1 .. Len(s) : s[j].what # "callback"
    PROVE  /\ Append(s, x) \in Seq(ScopeType)
           /\ \A i \in 1 .. Len(Append(s, x)) :
                  Append(s, x)[i].what \in {"throw", "success"} =>
                      \A j \in 1 .. i : Append(s, x)[j].what # "callback"
<1>1. /\ Append(s, x) \in Seq(ScopeType)
      /\ Len(Append(s, x)) = Len(s) + 1 /\ Len(s) \in Nat
      /\ Append(s, x)[Len(s) + 1] = x
      /\ \A i \in 1 .. Len(s) : Append(s, x)[i] = s[i]
  OBVIOUS
<1>2. ASSUME NEW i \in 1 .. Len(s) + 1,
             Append(s, x)[i].what \in {"throw", "success"},
             NEW j \in 1 .. i
      PROVE  Append(s, x)[j].what # "callback"
  <2>1. CASE i = Len(s) + 1
    <3>1. CASE j = Len(s) + 1
      BY <1>1, <1>2, <2>1, <3>1
    <3>2. CASE j # Len(s) + 1
      BY <1>1, <1>2, <2>1, <3>2
    <3> QED
      BY <3>1, <3>2
  <2>2. CASE i # Len(s) + 1
    BY <1>1, <1>2, <2>2
  <2> QED
    BY <2>1, <2>2
<1> QED
  BY <1>1, <1>2

LEMMA EnterKeeps ==
    ASSUME ~ThrowsInside, CleanupInv, NEW what \in Kind \union {"try"}, Enter(what)
    PROVE  CleanupInv'
<1>1. Scope(what) \in ScopeType /\ Scope(what).what = what
  BY DEF Scope, ScopeType
<1>2. what \in {"throw", "success"} => \A j \in 1 .. Len(scopes) : scopes[j].what # "callback"
  <2>1. what \in {"throw", "success"} => Callbacks = {}
    BY UncaughtCounts DEF Enter, CleanupInv
  <2> QED
    BY <2>1 DEF Callbacks, CleanupInv, CleanupTypeOK
<1>3. scopes \in Seq(ScopeType) /\ AskersBelow
  BY DEF CleanupInv, CleanupTypeOK
<1>4. scopes' = Append(scopes, Scope(what)) /\ UNCHANGED <<unwinding, last>>
  BY DEF Enter
<1>5. scopes' \in Seq(ScopeType) /\ AskersBelow'
  <2> HIDE DEF Scope
  <2> QED
    BY <1>1, <1>2, <1>3, <1>4, PushKeeps DEF AskersBelow
<1> QED
  BY <1>4, <1>5 DEF CleanupInv, CleanupTypeOK, RunsAsNamed

LEMMA CancelKeeps ==
    ASSUME CleanupInv, NEW i \in DOMAIN scopes, NEW c \in BOOLEAN, Cancel(i, c)
    PROVE  CleanupInv'
<1>1. scopes \in Seq(ScopeType) /\ i \in 1 .. Len(scopes)
  BY DEF CleanupInv, CleanupTypeOK
<1>2. scopes' = [scopes EXCEPT ![i].cancelled = c] /\ UNCHANGED <<unwinding, last>>
  BY DEF Cancel
<1>3. scopes' = [scopes EXCEPT ![i] = [scopes[i] EXCEPT !.cancelled = c]]
  BY <1>2
<1>4. [scopes[i] EXCEPT !.cancelled = c] \in ScopeType
      /\ [scopes[i] EXCEPT !.cancelled = c].what = scopes[i].what
  <2>1. scopes[i] \in ScopeType
    BY <1>1
  <2> QED
    BY <2>1 DEF ScopeType
<1>5. /\ scopes' \in Seq(ScopeType) /\ Len(scopes') = Len(scopes)
      /\ \A j \in 1 .. Len(scopes) : scopes'[j].what = scopes[j].what
  BY <1>1, <1>3, <1>4
<1>6. AskersBelow'
  BY <1>1, <1>5 DEF AskersBelow, CleanupInv
<1> QED
  BY <1>2, <1>5, <1>6 DEF CleanupInv, CleanupTypeOK, RunsAsNamed

\* ~basic_cleanup asks about its own scope
LEMMA AskedForItself ==
    ASSUME CleanupInv, scopes # <<>>, Inner.what \in Kind
    PROVE  /\ Needed(Inner.what) \in BOOLEAN
           /\ Inner.what = "throw" => (Needed(Inner.what) <=> unwinding)
           /\ Inner.what = "success" => (Needed(Inner.what) <=> ~unwinding)
           /\ Inner.what = "always" => Needed(Inner.what)
<1>1. Inner = scopes[Len(scopes)] /\ Len(scopes) \in Nat \ {0}
  BY FrontAndLast DEF CleanupInv
<1>2. Inner.what \in {"throw", "success"} => Callbacks = {}
  BY <1>1 DEF Callbacks, CleanupInv, AskersBelow, CleanupTypeOK
<1>3. Callbacks = {} => (Uncaught > 0 <=> unwinding)
  BY UncaughtCounts DEF CleanupInv
<1>4. Callbacks = {} => (Uncaught = 0 <=> ~unwinding)
  BY UncaughtCounts DEF CleanupInv
<1>5. unwinding \in BOOLEAN
  BY DEF CleanupInv, CleanupTypeOK
<1>6. Inner.what = "throw" => (Needed(Inner.what) <=> unwinding)
  BY <1>2, <1>3 DEF Needed
<1>7. Inner.what = "success" => (Needed(Inner.what) <=> ~unwinding)
  BY <1>2, <1>4 DEF Needed
<1>8. Inner.what = "always" => Needed(Inner.what)
  BY DEF Needed
<1>9. Needed(Inner.what) \in BOOLEAN
  <2>1. CASE Inner.what = "always"
    BY <2>1 DEF Needed
  <2>2. CASE Inner.what = "throw"
    BY <2>2, <1>6, <1>5, <1>2, <1>3 DEF Needed
  <2>3. CASE Inner.what = "success"
    BY <2>3, <1>7, <1>5, <1>2, <1>4 DEF Needed
  <2> QED
    BY <2>1, <2>2, <2>3 DEF Kind
<1> QED
  BY <1>6, <1>7, <1>8, <1>9

LEMMA LeaveKeeps ==
    ASSUME CleanupInv, Leave
    PROVE  CleanupInv'
<1> DEFINE run == ~Inner.cancelled /\ Needed(Inner.what)
<1>1. /\ scopes # <<>> /\ Inner.what \in Kind
      /\ last' = [kind |-> Inner.what, cancelled |-> Inner.cancelled,
                  thrown |-> unwinding, ran |-> run]
      /\ \/ scopes' = Front(scopes) /\ UNCHANGED unwinding
         \/ scopes' = Append(Front(scopes), Scope("callback")) /\ unwinding' = FALSE
  BY DEF Leave
<1>2. /\ Len(scopes) \in Nat \ {0} /\ Inner \in ScopeType
      /\ Front(scopes) \in Seq(ScopeType)
      /\ Len(Front(scopes)) = Len(scopes) - 1
      /\ \A i \in 1 .. Len(scopes) - 1 : Front(scopes)[i] = scopes[i]
  BY <1>1, FrontAndLast DEF CleanupInv
<1>3. AskersBelow /\ unwinding \in BOOLEAN
  BY DEF CleanupInv, CleanupTypeOK
<1>4. \A i \in 1 .. Len(Front(scopes)) : Front(scopes)[i].what \in {"throw", "success"} =>
          \A j \in 1 .. i : Front(scopes)[j].what # "callback"
  BY <1>2, <1>3 DEF AskersBelow
<1>5. Scope("callback") \in ScopeType /\ Scope("callback").what = "callback"
  BY DEF Scope, ScopeType
<1>6. scopes' \in Seq(ScopeType) /\ AskersBelow'
  <2>1. CASE scopes' = Front(scopes)
    BY <1>2, <1>4, <2>1 DEF AskersBelow
  <2>2. CASE scopes' = Append(Front(scopes), Scope("callback"))
    <3> HIDE DEF Scope
    <3> QED
      BY <1>2, <1>4, <1>5, <2>2, PushKeeps DEF AskersBelow
  <2> QED
    BY <1>1, <2>1, <2>2
<1>7. unwinding' \in BOOLEAN
  BY <1>1, <1>3
<1>8. /\ Needed(Inner.what) \in BOOLEAN
      /\ Inner.what = "throw" => (Needed(Inner.what) <=> unwinding)
      /\ Inner.what = "success" => (Needed(Inner.what) <=> ~unwinding)
      /\ Inner.what = "always" => Needed(Inner.what)
  BY <1>1, AskedForItself
<1>9. run \in BOOLEAN /\ Inner.cancelled \in BOOLEAN
  BY <1>2 DEF ScopeType
<1>10. last' \in [kind : Kind, cancelled : BOOLEAN, thrown : BOOLEAN, ran : BOOLEAN]
  <2> HIDE DEF run
  <2> QED
    BY <1>1, <1>3, <1>9
<1>11. run <=> /\ ~Inner.cancelled
               /\ Inner.what = "throw" => unwinding
               /\ Inner.what = "success" => ~unwinding
  BY <1>1, <1>8 DEF Kind
<1>12. RunsAsNamed'
  <2> HIDE DEF run
  <2> QED
    BY <1>1, <1>11 DEF RunsAsNamed
<1> QED
  BY <1>6, <1>7, <1>10, <1>12 DEF CleanupInv, CleanupTypeOK

LEMMA LeaveOtherKeeps ==
    ASSUME CleanupInv, LeaveOther
    PROVE  CleanupInv'
<1>1. scopes # <<>> /\ scopes' = Front(scopes) /\ last' = last
  BY DEF LeaveOther
<1>2. /\ Len(scopes) \in Nat \ {0}
      /\ Front(scopes) \in Seq(ScopeType)
      /\ Len(Front(scopes)) = Len(scopes) - 1
      /\ \A i \in 1 .. Len(scopes) - 1 : Front(scopes)[i] = scopes[i]
  BY <1>1, FrontAndLast DEF CleanupInv
<1>3. scopes' \in Seq(ScopeType) /\ AskersBelow'
  BY <1>1, <1>2 DEF AskersBelow, CleanupInv
<1>4. unwinding' \in BOOLEAN
  BY DEF LeaveOther
<1> QED
  BY <1>1, <1>3, <1>4 DEF CleanupInv, CleanupTypeOK, RunsAsNamed

\* For any stack of scopes, with exceptions thrown anywhere and cleanups that are
\* cancelled and renewed, each callback runs exactly if it was not cancelled and
\* its own scope is left in the way it is named for.
THEOREM CleanupsRunAsNamed == ~ThrowsInside => (CleanupSpec => []RunsAsNamed)
<1> SUFFICES ASSUME ~ThrowsInside PROVE CleanupSpec => []RunsAsNamed
  OBVIOUS
<1>1. CleanupInit => CleanupInv
  <2> SUFFICES ASSUME CleanupInit PROVE CleanupInv
    OBVIOUS
  <2>1. scopes = <<>> /\ unwinding = FALSE /\ last = None
    BY DEF CleanupInit
  <2>2. CleanupTypeOK
    <3>1. None \in [kind : Kind, cancelled : BOOLEAN, thrown : BOOLEAN, ran : BOOLEAN]
      <4> DEFINE yes == TRUE
                 no == FALSE
      <4>1. "always" \in Kind /\ yes \in BOOLEAN /\ no \in BOOLEAN
        BY DEF Kind
      <4>2. None = [kind |-> "always", cancelled |-> yes, thrown |-> no, ran |-> no]
        BY DEF None
      <4> HIDE DEF yes, no
      <4> QED
        BY <4>1, <4>2
    <3>2. scopes \in Seq(ScopeType)
      BY <2>1
    <3> QED
      BY <2>1, <3>1, <3>2 DEF CleanupTypeOK
  <2>4. RunsAsNamed
    BY <2>1 DEF RunsAsNamed, None
  <2>3. AskersBelow
    BY <2>1 DEF AskersBelow
  <2> QED
    BY <2>2, <2>3, <2>4 DEF CleanupInv
<1>2. CleanupInv /\ [CleanupNext]_cleanupVars => CleanupInv'
  <2> SUFFICES ASSUME CleanupInv, [CleanupNext]_cleanupVars PROVE CleanupInv'
    OBVIOUS
  <2>1. CASE \E what \in Kind \union {"try"} : Enter(what)
    BY <2>1, EnterKeeps
  <2>2. CASE \E i \in DOMAIN scopes, c \in BOOLEAN : Cancel(i, c)
    BY <2>2, CancelKeeps
  <2>3. CASE Throw
    <3>1. scopes' = scopes /\ last' = last /\ unwinding' \in BOOLEAN
      BY <2>3 DEF Throw
    <3> QED
      BY <3>1 DEF CleanupInv, CleanupTypeOK, AskersBelow, RunsAsNamed
  <2>4. CASE Leave
    BY <2>4, LeaveKeeps
  <2>5. CASE LeaveOther
    BY <2>5, LeaveOtherKeeps
  <2>6. CASE UNCHANGED cleanupVars
    BY <2>6 DEF cleanupVars, CleanupInv, CleanupTypeOK, AskersBelow, RunsAsNamed
  <2> QED
    BY <2>1, <2>2, <2>3, <2>4, <2>5, <2>6 DEF CleanupNext
<1>3. CleanupInv => RunsAsNamed
  BY DEF CleanupInv
<1> QED
  BY <1>1, <1>2, <1>3, PTL DEF CleanupSpec

-----------------------------------------------------------------------------
(* Signals: a mask is inherited, so every thread created after the listener  *)
(* blocks what is listened for, and only that is ever pending.               *)

SignalsTypeOK ==
    /\ alive \subseteq SigThread /\ Main \in alive
    /\ blocked \in [SigThread -> SUBSET Signal]
    /\ listening \subseteq Signal

Defended ==
    /\ ~killed
    /\ pending \subseteq listening
    /\ listening # {} => \A t \in alive : listening \subseteq blocked[t]
    /\ listening = {} => alive = {Main}

SignalsInv == SignalsTypeOK /\ Defended

\* The default action finds no thread to run in
LEMMA NobodyUndefended ==
    ASSUME SignalsInv
    PROVE  \A t \in alive : Undefended(t) = {}
<1> SUFFICES ASSUME NEW t \in alive PROVE Undefended(t) = {}
  OBVIOUS
<1>1. CASE listening = {}
  BY <1>1 DEF SignalsInv, Defended, Undefended
<1>2. CASE listening # {}
  <2>1. pending \subseteq blocked[t]
    BY <1>2 DEF SignalsInv, Defended
  <2> QED
    BY <2>1 DEF Undefended
<1> QED
  BY <1>1, <1>2

LEMMA ListenKeeps ==
    ASSUME MainFirst, SignalsInv,
           NEW t \in SigThread, NEW mask \in SUBSET Signal \ {{}}, Listen(t, mask)
    PROVE  SignalsInv'
<1>1. /\ t = Main /\ listening = {} /\ listening' = mask
      /\ blocked' = [blocked EXCEPT ![t] = @ \union mask]
      /\ UNCHANGED <<alive, pending, waiting, kills, killed>>
  BY DEF Listen, InSigset
<1>2. alive = {Main} /\ pending = {} /\ ~killed
  BY <1>1 DEF SignalsInv, Defended
<1>3. SignalsTypeOK'
  BY <1>1 DEF SignalsInv, SignalsTypeOK
<1>4. mask \subseteq blocked'[Main]
  BY <1>1 DEF SignalsInv, SignalsTypeOK
<1> QED
  BY <1>1, <1>2, <1>3, <1>4 DEF SignalsInv, Defended

LEMMA CreateKeeps ==
    ASSUME MainFirst, SignalsInv,
           NEW t \in SigThread, NEW child \in Child, Create(t, child)
    PROVE  SignalsInv'
<1>1. /\ t \in alive /\ child \notin alive /\ listening # {}
      /\ alive' = alive \union {child}
      /\ blocked' = [blocked EXCEPT ![child] = blocked[t]]
      /\ UNCHANGED <<listening, pending, killed>>
  BY DEF Create
<1>2. child \in SigThread
  BY DEF SigThread
<1>3. SignalsTypeOK'
  BY <1>1, <1>2 DEF SignalsInv, SignalsTypeOK
<1>4. \A u \in alive' : listening \subseteq blocked'[u]
  BY <1>1, <1>2 DEF SignalsInv, SignalsTypeOK, Defended
<1> QED
  BY <1>1, <1>3, <1>4 DEF SignalsInv, Defended

\* For any number of threads and signals: in a program that constructs its
\* listener before it creates threads and is sent no other signals, none of them
\* ends the process, whichever thread the kernel picks.
THEOREM ListenerIsSafe == MainFirst => (SignalsSpec => []NotKilled)
<1> SUFFICES ASSUME MainFirst PROVE SignalsSpec => []NotKilled
  OBVIOUS
<1>1. SignalsInit => SignalsInv
  BY DEF SignalsInit, SignalsInv, SignalsTypeOK, Defended, SigThread
<1>2. SignalsInv /\ [SignalsNext]_signalVars => SignalsInv'
  <2> SUFFICES ASSUME SignalsInv, [SignalsNext]_signalVars PROVE SignalsInv'
    OBVIOUS
  <2>1. ASSUME NEW t \in SigThread, NEW mask \in SUBSET Signal \ {{}}, Listen(t, mask)
        PROVE  SignalsInv'
    BY <2>1, ListenKeeps
  <2>2. ASSUME NEW t \in SigThread, NEW child \in Child, Create(t, child)
        PROVE  SignalsInv'
    BY <2>2, CreateKeeps
  <2>3. ASSUME NEW s \in Signal, Send(s)
        PROVE  SignalsInv'
    BY <2>3 DEF Send, SignalsInv, SignalsTypeOK, Defended
  <2>4. ASSUME NEW t \in SigThread, Wait(t)
        PROVE  SignalsInv'
    BY <2>4 DEF Wait, SignalsInv, SignalsTypeOK, Defended
  <2>5. ASSUME NEW t \in SigThread, WaitReturns(t)
        PROVE  SignalsInv'
    BY <2>5 DEF WaitReturns, SignalsInv, SignalsTypeOK, Defended
  <2>6. ASSUME Deliver
        PROVE  SignalsInv'
    <3>1. UNCHANGED <<alive, blocked, listening, pending>> /\ ~killed'
      BY <2>6, NobodyUndefended DEF Deliver, SignalsInv, Defended
    <3> QED
      BY <3>1 DEF SignalsInv, SignalsTypeOK, Defended
  <2>7. ASSUME UNCHANGED signalVars
        PROVE  SignalsInv'
    BY <2>7 DEF signalVars, SignalsInv, SignalsTypeOK, Defended
  <2> QED
    BY <2>1, <2>2, <2>3, <2>4, <2>5, <2>6, <2>7 DEF SignalsNext
<1>3. SignalsInv => NotKilled
  BY NobodyUndefended DEF SignalsInv, Defended, NotKilled
<1> QED
  BY <1>1, <1>2, <1>3, PTL DEF SignalsSpec

-----------------------------------------------------------------------------
(* AsioRun: the handler of a call is in one place, in the io_context or with *)
(* one worker, exactly as long as the call has not returned.                 *)

AsioTypeOK ==
    /\ posted \in Seq(Client)
    /\ client \in [Client -> {"out", "waiting", "done"}]
    /\ runs \in [Client -> Nat]
    /\ calls \in [Client -> Nat]
    /\ executing \in [Worker -> Client \union {NoClient}]

\* No handler is there twice
OneHandler ==
    /\ \A i, j \in 1 .. Len(posted) : posted[i] = posted[j] => i = j
    /\ \A v, w \in Worker : executing[v] = executing[w] /\ executing[w] \in Client => v = w
    /\ \A i \in 1 .. Len(posted), w \in Worker : posted[i] # executing[w]

\* Where the handler of a client is
HasHandler(c) ==
    \/ \E i \in 1 .. Len(posted) : posted[i] = c
    \/ \E w \in Worker : executing[w] = c

\* A call that has not returned has a handler, and no other call has one
HandlerIsHeld == \A c \in Client : client[c] = "waiting" <=> HasHandler(c)

AsioInv == AsioTypeOK /\ OneHandler /\ HandlerIsHeld /\ CalledOnce

\* What post does to the queue
LEMMA PostedAfterRun ==
    ASSUME NEW S, NEW s \in Seq(S), NEW c \in S
    PROVE  /\ s \o <<c>> \in Seq(S)
           /\ Len(s \o <<c>>) = Len(s) + 1 /\ Len(s) \in Nat
           /\ (s \o <<c>>)[Len(s) + 1] = c
           /\ \A i \in 1 .. Len(s) : (s \o <<c>>)[i] = s[i]
<1>1. <<c>> \in Seq(S) /\ Len(<<c>>) = 1 /\ <<c>>[1] = c
  OBVIOUS
<1>2. s \o <<c>> \in Seq(S)
  BY <1>1
<1>3. Len(s \o <<c>>) = Len(s) + 1 /\ Len(s) \in Nat
  BY <1>1
<1>4. (s \o <<c>>)[Len(s) + 1] = c
  BY <1>1, <1>3
<1>5. \A i \in 1 .. Len(s) : (s \o <<c>>)[i] = s[i]
  BY <1>1, <1>3
<1> QED
  BY <1>2, <1>3, <1>4, <1>5

\* What is left of a queue when its first element is taken
LEMMA TailOf ==
    ASSUME NEW S, NEW s \in Seq(S), s # <<>>
    PROVE  /\ Len(s) \in Nat \ {0} /\ Head(s) = s[1] /\ Head(s) \in S
           /\ Tail(s) \in Seq(S) /\ Len(Tail(s)) = Len(s) - 1
           /\ \A i \in 1 .. Len(s) - 1 : Tail(s)[i] = s[i + 1]
<1>1. Len(s) \in Nat \ {0} /\ Head(s) = s[1] /\ Head(s) \in S
  OBVIOUS
<1>2. Tail(s) \in Seq(S) /\ Len(Tail(s)) = Len(s) - 1
  OBVIOUS
<1>3. \A i \in 1 .. Len(s) - 1 : Tail(s)[i] = s[i + 1]
  BY <1>1, <1>2
<1> QED
  BY <1>1, <1>2, <1>3

LEMMA RunKeeps ==
    ASSUME AsioInv, NEW c \in Client, Run(c)
    PROVE  AsioInv'
<1>1. /\ client[c] = "out"
      /\ runs' = [runs EXCEPT ![c] = @ + 1]
      /\ posted' = posted \o <<c>>
      /\ client' = [client EXCEPT ![c] = "waiting"]
      /\ UNCHANGED <<executing, calls>>
  BY DEF Run, Posting
<1>2. /\ posted' \in Seq(Client)
      /\ Len(posted') = Len(posted) + 1 /\ Len(posted) \in Nat
      /\ posted'[Len(posted) + 1] = c
      /\ \A i \in 1 .. Len(posted) : posted'[i] = posted[i]
  BY <1>1, PostedAfterRun DEF AsioInv, AsioTypeOK
<1>3. AsioTypeOK'
  BY <1>1, <1>2 DEF AsioInv, AsioTypeOK
<1>4. ~HasHandler(c)
  BY <1>1 DEF AsioInv, HandlerIsHeld
<1>5. OneHandler'
  <2>1. \A i \in 1 .. Len(posted) : posted[i] # c
    BY <1>4 DEF HasHandler
  <2>2. \A w \in Worker : executing[w] # c
    BY <1>4 DEF HasHandler
  <2>3. \A i, j \in 1 .. Len(posted) + 1 : posted'[i] = posted'[j] => i = j
    BY <1>2, <2>1 DEF AsioInv, OneHandler
  <2>4. \A i \in 1 .. Len(posted) + 1, w \in Worker : posted'[i] # executing[w]
    BY <1>2, <2>2 DEF AsioInv, OneHandler
  <2> QED
    BY <1>1, <1>2, <2>3, <2>4 DEF AsioInv, OneHandler
<1>6. HandlerIsHeld'
  <2> SUFFICES ASSUME NEW d \in Client
               PROVE  client'[d] = "waiting" <=> HasHandler(d)'
    BY DEF HandlerIsHeld
  <2>1. CASE d = c
    <3>1. client'[d] = "waiting"
      BY <1>1, <2>1 DEF AsioInv, AsioTypeOK
    <3>2. HasHandler(d)'
      BY <1>2, <2>1 DEF HasHandler
    <3> QED
      BY <3>1, <3>2
  <2>2. CASE d # c
    <3>1. client'[d] = client[d]
      BY <1>1, <2>2 DEF AsioInv, AsioTypeOK
    <3>2. HasHandler(d)' <=> HasHandler(d)
      <4>1. (\E i \in 1 .. Len(posted) + 1 : posted'[i] = d)
                <=> (\E i \in 1 .. Len(posted) : posted[i] = d)
        BY <1>2, <2>2
      <4> QED
        BY <1>1, <1>2, <4>1 DEF HasHandler
    <3> QED
      BY <3>1, <3>2 DEF AsioInv, HandlerIsHeld
  <2> QED
    BY <2>1, <2>2
<1>7. CalledOnce'
  BY <1>1 DEF AsioInv, AsioTypeOK, CalledOnce
<1> QED
  BY <1>3, <1>5, <1>6, <1>7 DEF AsioInv

LEMMA TakeHandlerKeeps ==
    ASSUME AsioInv, NEW w \in Worker, TakeHandler(w)
    PROVE  AsioInv'
<1>1. /\ executing[w] = NoClient /\ posted # <<>>
      /\ executing' = [executing EXCEPT ![w] = Head(posted)]
      /\ posted' = Tail(posted)
      /\ UNCHANGED <<client, runs, calls>>
  BY DEF TakeHandler
<1>2. /\ Len(posted) \in Nat \ {0} /\ Head(posted) = posted[1] /\ posted[1] \in Client
      /\ posted' \in Seq(Client) /\ Len(posted') = Len(posted) - 1
      /\ \A i \in 1 .. Len(posted) - 1 : posted'[i] = posted[i + 1]
  BY <1>1, TailOf DEF AsioInv, AsioTypeOK
<1>3. /\ executing'[w] = posted[1]
      /\ \A v \in Worker \ {w} : executing'[v] = executing[v]
  BY <1>1, <1>2 DEF AsioInv, AsioTypeOK
<1>4. AsioTypeOK'
  BY <1>1, <1>2 DEF AsioInv, AsioTypeOK
<1>5. NoClient \notin Client
  BY AsioAssumption
<1>6. OneHandler'
  <2>1. \A i, j \in 1 .. Len(posted) - 1 : posted'[i] = posted'[j] => i = j
    <3> TAKE i, j \in 1 .. Len(posted) - 1
    <3>1. /\ posted'[i] = posted[i + 1] /\ i + 1 \in 1 .. Len(posted)
          /\ posted'[j] = posted[j + 1] /\ j + 1 \in 1 .. Len(posted)
      BY <1>2
    <3>2. posted[i + 1] = posted[j + 1] => i + 1 = j + 1
      BY <3>1 DEF AsioInv, OneHandler
    <3> QED
      BY <1>2, <3>1, <3>2
  <2>2. \A v, u \in Worker : executing'[v] = executing'[u] /\ executing'[u] \in Client => v = u
    BY <1>2, <1>3 DEF AsioInv, OneHandler
  <2>3. \A i \in 1 .. Len(posted) - 1, v \in Worker : posted'[i] # executing'[v]
    <3> TAKE i \in 1 .. Len(posted) - 1, v \in Worker
    <3>1. posted'[i] = posted[i + 1] /\ i + 1 \in 1 .. Len(posted) /\ i + 1 # 1
          /\ 1 \in 1 .. Len(posted)
      BY <1>2
    <3>2. CASE v = w
      BY <1>3, <3>1, <3>2 DEF AsioInv, OneHandler
    <3>3. CASE v # w
      BY <1>3, <3>1, <3>3 DEF AsioInv, OneHandler
    <3> QED
      BY <3>2, <3>3
  <2> QED
    BY <1>2, <2>1, <2>2, <2>3 DEF OneHandler
<1>7. \A c \in Client : HasHandler(c)' <=> HasHandler(c)
  <2> TAKE c \in Client
  <2>1. ASSUME HasHandler(c)' PROVE HasHandler(c)
    <3>1. CASE \E i \in 1 .. Len(posted) - 1 : posted'[i] = c
      <4>1. PICK i \in 1 .. Len(posted) - 1 : posted'[i] = c
        BY <3>1
      <4>2. i + 1 \in 1 .. Len(posted) /\ posted[i + 1] = c
        BY <1>2, <4>1
      <4> QED
        BY <4>2 DEF HasHandler
    <3>2. CASE \E v \in Worker : executing'[v] = c
      <4>1. PICK v \in Worker : executing'[v] = c
        BY <3>2
      <4>2. 1 \in 1 .. Len(posted)
        BY <1>2
      <4> QED
        BY <1>3, <4>1, <4>2 DEF HasHandler
    <3> QED
      BY <1>2, <2>1, <3>1, <3>2 DEF HasHandler
  <2>2. ASSUME HasHandler(c) PROVE HasHandler(c)'
    <3>1. ASSUME NEW i \in 1 .. Len(posted), posted[i] = c
          PROVE  HasHandler(c)'
      <4>1. CASE i = 1
        BY <1>3, <3>1, <4>1 DEF HasHandler
      <4>2. CASE i # 1
        <5>1. i - 1 \in 1 .. Len(posted') /\ posted'[i - 1] = c
          BY <1>2, <3>1, <4>2
        <5> QED
          BY <5>1 DEF HasHandler
      <4> QED
        BY <4>1, <4>2
    <3>2. ASSUME NEW v \in Worker, executing[v] = c
          PROVE  HasHandler(c)'
      BY <1>1, <1>3, <1>5, <3>2 DEF HasHandler
    <3> QED
      BY <2>2, <3>1, <3>2 DEF HasHandler
  <2> QED
    BY <2>1, <2>2
<1>8. HandlerIsHeld' /\ CalledOnce'
  BY <1>1, <1>7 DEF AsioInv, HandlerIsHeld, CalledOnce
<1> QED
  BY <1>4, <1>6, <1>8 DEF AsioInv

LEMMA CallKeeps ==
    ASSUME AsioInv, NEW w \in Worker, Call(w)
    PROVE  AsioInv'
<1> DEFINE c == executing[w]
<1>1. /\ c \in Client
      /\ calls' = [calls EXCEPT ![c] = @ + 1]
      /\ client' = [client EXCEPT ![c] = "out"]
      /\ executing' = [executing EXCEPT ![w] = NoClient]
      /\ UNCHANGED <<posted, runs>>
  BY DEF Call, Released
<1>2. client[c] = "waiting"
  BY <1>1 DEF AsioInv, HandlerIsHeld, HasHandler
<1>3. NoClient \notin Client
  BY AsioAssumption
<1>4. executing'[w] = NoClient /\ \A v \in Worker \ {w} : executing'[v] = executing[v]
  BY <1>1 DEF AsioInv, AsioTypeOK
<1>5. AsioTypeOK'
  BY <1>1 DEF AsioInv, AsioTypeOK
<1>6. OneHandler'
  BY <1>1, <1>3, <1>4 DEF AsioInv, AsioTypeOK, OneHandler
<1>7. HandlerIsHeld'
  <2> SUFFICES ASSUME NEW d \in Client
               PROVE  client'[d] = "waiting" <=> HasHandler(d)'
    BY DEF HandlerIsHeld
  <2>1. CASE d = c
    <3>1. client'[d] # "waiting"
      BY <1>1, <2>1 DEF AsioInv, AsioTypeOK
    <3>2. \A i \in 1 .. Len(posted) : posted[i] # d
      BY <2>1 DEF AsioInv, OneHandler
    <3>3. \A v \in Worker : executing'[v] # d
      BY <1>1, <1>3, <1>4, <2>1 DEF AsioInv, OneHandler
    <3> QED
      BY <1>1, <3>1, <3>2, <3>3 DEF HasHandler
  <2>2. CASE d # c
    <3>1. client'[d] = client[d]
      BY <1>1, <2>2 DEF AsioInv, AsioTypeOK
    <3>2. HasHandler(d)' <=> HasHandler(d)
      <4>1. (\E v \in Worker : executing'[v] = d) <=> (\E v \in Worker : executing[v] = d)
        BY <1>3, <1>4, <2>2
      <4> QED
        BY <1>1, <4>1 DEF HasHandler
    <3> QED
      BY <3>1, <3>2 DEF AsioInv, HandlerIsHeld
  <2> QED
    BY <2>1, <2>2
<1>8. CalledOnce'
  <2> HIDE DEF c
  <2> QED
    BY <1>1, <1>2 DEF AsioInv, AsioTypeOK, CalledOnce
<1> QED
  BY <1>5, <1>6, <1>7, <1>8 DEF AsioInv

\* A step that moves no handler, and that no call begins or ends with
LEMMA NoHandlerMoved ==
    ASSUME AsioInv, UNCHANGED <<posted, runs, executing, calls>>,
           \/ UNCHANGED client
           \/ \E c \in Client : client[c] = "out" /\ client' = [client EXCEPT ![c] = "done"]
    PROVE  AsioInv'
<1>1. client' \in [Client -> {"out", "waiting", "done"}]
      /\ \A c \in Client : client'[c] = "waiting" <=> client[c] = "waiting"
  BY DEF AsioInv, AsioTypeOK
<1>2. AsioTypeOK' /\ OneHandler'
  BY <1>1 DEF AsioInv, AsioTypeOK, OneHandler
<1>3. \A c \in Client : HasHandler(c)' <=> HasHandler(c)
  BY DEF HasHandler
<1>4. HandlerIsHeld' /\ CalledOnce'
  BY <1>1, <1>3 DEF AsioInv, HandlerIsHeld, CalledOnce
<1> QED
  BY <1>2, <1>4 DEF AsioInv

\* For any number of clients and workers, and with or without a work guard: the
\* work of a client has been called once for each call of run that has returned,
\* and a call that has not returned has its handler in the io_context or with a
\* worker, so that none is lost and none is called twice.
THEOREM WorkIsCalledOnce == AsioSpec => [](CalledOnce /\ OneHandler /\ HandlerIsHeld)
<1>1. AsioInit => AsioInv
  <2> SUFFICES ASSUME AsioInit PROVE AsioInv
    OBVIOUS
  <2>1. AsioTypeOK
    BY DEF AsioInit, AsioTypeOK
  <2>2. OneHandler /\ \A c \in Client : ~HasHandler(c)
    BY AsioAssumption DEF AsioInit, OneHandler, HasHandler
  <2>3. HandlerIsHeld /\ CalledOnce
    BY <2>2 DEF AsioInit, HandlerIsHeld, CalledOnce
  <2> QED
    BY <2>1, <2>2, <2>3 DEF AsioInv
<1>2. AsioInv /\ [AsioNext]_asioVars => AsioInv'
  <2> SUFFICES ASSUME AsioInv, [AsioNext]_asioVars PROVE AsioInv'
    OBVIOUS
  <2>1. ASSUME NEW c \in Client, Run(c) PROVE AsioInv'
    BY <2>1, RunKeeps
  <2>2. ASSUME NEW c \in Client, Finish(c) PROVE AsioInv'
    BY <2>2, NoHandlerMoved DEF Finish
  <2>3. ASSUME Reset PROVE AsioInv'
    BY <2>3, NoHandlerMoved DEF Reset
  <2>4. ASSUME NEW w \in Worker, TakeHandler(w) PROVE AsioInv'
    BY <2>4, TakeHandlerKeeps
  <2>5. ASSUME NEW w \in Worker, Call(w) PROVE AsioInv'
    BY <2>5, CallKeeps
  <2>6. ASSUME NEW w \in Worker, EnterRun(w) \/ ReturnHandler(w) \/ LeaveRun(w)
        PROVE  AsioInv'
    BY <2>6, NoHandlerMoved DEF EnterRun, ReturnHandler, LeaveRun
  <2>7. ASSUME UNCHANGED asioVars PROVE AsioInv'
    BY <2>7, NoHandlerMoved DEF asioVars
  <2> QED
    BY <2>1, <2>2, <2>3, <2>4, <2>5, <2>6, <2>7 DEF AsioNext, ClientStep, WorkerStep
<1>3. AsioInv => CalledOnce /\ OneHandler /\ HandlerIsHeld
  BY DEF AsioInv
<1> QED
  BY <1>1, <1>2, <1>3, PTL DEF AsioSpec

-----------------------------------------------------------------------------
(* Detach: a job that was spawned is in the run loop's queue or runs, and    *)
(* the task is in the queue only when no job is left.                        *)

DetachTypeOK ==
    /\ ready \in Seq(Job \union {Task})
    /\ open \subseteq Job
    /\ task \in {"detaching", "waiting", "ended"}

\* No operation is in the queue twice, and what runs has left it
ReadyOnce ==
    /\ \A i, k \in 1 .. Len(ready) : ready[i] = ready[k] => i = k
    /\ \A i \in 1 .. Len(ready) : ready[i] \notin running

\* What the queue holds: open jobs, and the task when there are none
ReadyIsOpen ==
    \A i \in 1 .. Len(ready) :
        \/ ready[i] \in open
        \/ ready[i] = Task /\ task = "waiting" /\ open = {} /\ running = {} /\ Len(ready) = 1

\* No job is lost
OpenIsReady ==
    \A j \in open : running = {j} \/ \E i \in 1 .. Len(ready) : ready[i] = j

\* What runs, by where the task is
RunsInTurn ==
    /\ task = "detaching" => ended = {} /\ running = {Task}
    /\ task = "waiting" => running = {} \/ \E j \in open : running = {j}
    /\ task = "ended" => running = {Task} /\ ready = <<>> /\ open = {}

DetachInv == DetachTypeOK /\ ReadyOnce /\ ReadyIsOpen /\ OpenIsReady /\ RunsInTurn

LEMMA DetachJobKeeps ==
    ASSUME DetachInv, NEW j \in Job, DetachJob(j)
    PROVE  DetachInv'
<1>1. /\ task = "detaching" /\ running = {Task} /\ j \notin open
      /\ open' = open \union {j} /\ ready' = ready \o <<j>>
      /\ UNCHANGED <<running, yields, ended, task>>
  BY DEF DetachJob, Started
<1>2. /\ ready' \in Seq(Job \union {Task})
      /\ Len(ready') = Len(ready) + 1 /\ Len(ready) \in Nat
      /\ ready'[Len(ready) + 1] = j
      /\ \A i \in 1 .. Len(ready) : ready'[i] = ready[i]
  <2>1. ready \in Seq(Job \union {Task}) /\ j \in Job \union {Task}
    BY DEF DetachInv, DetachTypeOK
  <2> QED
    BY <1>1, <2>1, PostedAfterRun
<1>3. \A i \in 1 .. Len(ready) : ready[i] \in open /\ ready[i] # j
  BY <1>1 DEF DetachInv, ReadyIsOpen
<1>4. j # Task
  BY DetachAssumption
<1>5. DetachTypeOK'
  BY <1>1, <1>2 DEF DetachInv, DetachTypeOK
<1>6. ReadyOnce'
  <2>1. \A i, k \in 1 .. Len(ready) + 1 : ready'[i] = ready'[k] => i = k
    <3> TAKE i, k \in 1 .. Len(ready) + 1
    <3>1. CASE i \in 1 .. Len(ready) /\ k \in 1 .. Len(ready)
      BY <1>2, <3>1 DEF DetachInv, ReadyOnce
    <3>2. CASE i = Len(ready) + 1 \/ k = Len(ready) + 1
      BY <1>2, <1>3, <3>2
    <3> QED
      BY <1>2, <3>1, <3>2
  <2>2. \A i \in 1 .. Len(ready) + 1 : ready'[i] \notin running
    BY <1>1, <1>2, <1>4 DEF DetachInv, ReadyOnce
  <2> QED
    BY <1>1, <1>2, <2>1, <2>2 DEF ReadyOnce
<1>7. ReadyIsOpen'
  BY <1>1, <1>2, <1>3 DEF ReadyIsOpen
<1>8. OpenIsReady'
  <2> SUFFICES ASSUME NEW k \in open'
               PROVE  running' = {k} \/ \E i \in 1 .. Len(ready') : ready'[i] = k
    BY DEF OpenIsReady
  <2>1. CASE k = j
    BY <1>2, <2>1
  <2>2. CASE k # j
    <3>1. k \in open /\ running # {k}
      BY <1>1, <2>2, DetachAssumption DEF DetachInv, DetachTypeOK
    <3>2. PICK i \in 1 .. Len(ready) : ready[i] = k
      BY <3>1 DEF DetachInv, OpenIsReady
    <3> QED
      BY <1>2, <3>2
  <2> QED
    BY <2>1, <2>2
<1>9. RunsInTurn'
  BY <1>1 DEF DetachInv, RunsInTurn
<1> QED
  BY <1>5, <1>6, <1>7, <1>8, <1>9 DEF DetachInv

LEMMA AwaitEmptyKeeps ==
    ASSUME DetachInv, AwaitEmpty
    PROVE  DetachInv'
<1>1. /\ task = "detaching" /\ running = {Task}
      /\ UNCHANGED <<ready, open, yields, ended>>
      /\ open = {} => task' = "ended" /\ running' = {Task}
      /\ open # {} => task' = "waiting" /\ running' = {}
  BY DEF AwaitEmpty
<1>2. DetachTypeOK'
  BY <1>1 DEF DetachInv, DetachTypeOK
<1>3. ReadyOnce'
  BY <1>1 DEF DetachInv, ReadyOnce
<1>4. \A i \in 1 .. Len(ready) : ready[i] \in open
  BY <1>1 DEF DetachInv, ReadyIsOpen
<1>5. ReadyIsOpen'
  BY <1>1, <1>4 DEF ReadyIsOpen
<1>6. \A j \in open : j # Task
  BY DetachAssumption DEF DetachInv, DetachTypeOK
<1>7. OpenIsReady'
  BY <1>1, <1>6 DEF DetachInv, OpenIsReady
<1>8. open = {} => ready = <<>>
  BY <1>4 DEF DetachInv, DetachTypeOK
<1>9. RunsInTurn'
  BY <1>1, <1>8 DEF RunsInTurn
<1> QED
  BY <1>2, <1>3, <1>5, <1>7, <1>9 DEF DetachInv

LEMMA RunNextKeeps ==
    ASSUME DetachInv, RunNext
    PROVE  DetachInv'
<1>1. /\ running = {} /\ ready # <<>>
      /\ running' = {Head(ready)} /\ ready' = Tail(ready)
      /\ Head(ready) = Task => task' = "ended"
      /\ Head(ready) # Task => task' = task
      /\ UNCHANGED <<open, yields, ended>>
  BY DEF RunNext
<1>2. /\ Len(ready) \in Nat \ {0} /\ Head(ready) = ready[1]
      /\ ready' \in Seq(Job \union {Task}) /\ Len(ready') = Len(ready) - 1
      /\ \A i \in 1 .. Len(ready) - 1 : ready'[i] = ready[i + 1]
  <2>1. ready \in Seq(Job \union {Task})
    BY DEF DetachInv, DetachTypeOK
  <2> QED
    BY <1>1, <2>1, TailOf
<1>3. task = "waiting"
  BY <1>1 DEF DetachInv, DetachTypeOK, RunsInTurn
<1>4. 1 \in 1 .. Len(ready)
  BY <1>2
<1>5. DetachTypeOK'
  BY <1>1, <1>2 DEF DetachInv, DetachTypeOK
<1>6. ASSUME NEW i \in 1 .. Len(ready')
      PROVE  i + 1 \in 1 .. Len(ready) /\ ready'[i] = ready[i + 1] /\ ready[i + 1] # ready[1]
  <2>1. i + 1 \in 1 .. Len(ready) /\ ready'[i] = ready[i + 1] /\ i + 1 # 1
    BY <1>2
  <2> QED
    BY <1>4, <2>1 DEF DetachInv, ReadyOnce
<1>7. ReadyOnce'
  <2>1. \A i, k \in 1 .. Len(ready') : ready'[i] = ready'[k] => i = k
    <3> TAKE i, k \in 1 .. Len(ready')
    <3>1. ready[i + 1] = ready[k + 1] => i + 1 = k + 1
      BY <1>6 DEF DetachInv, ReadyOnce
    <3> QED
      BY <1>2, <1>6, <3>1
  <2>2. \A i \in 1 .. Len(ready') : ready'[i] \notin running'
    BY <1>1, <1>2, <1>6
  <2> QED
    BY <2>1, <2>2 DEF ReadyOnce
<1>8. CASE ready[1] = Task
  <2>1. open = {} /\ Len(ready) = 1
    <3>1. ready[1] \notin open
      BY <1>8, DetachAssumption DEF DetachInv, DetachTypeOK
    <3> QED
      BY <1>4, <3>1 DEF DetachInv, ReadyIsOpen
  <2>2. ready' = <<>>
    BY <1>2, <2>1
  <2>3. task' = "ended" /\ running' = {Task} /\ open' = {}
    BY <1>1, <1>2, <1>8, <2>1
  <2>4. ReadyIsOpen' /\ OpenIsReady' /\ RunsInTurn'
    BY <2>2, <2>3 DEF ReadyIsOpen, OpenIsReady, RunsInTurn
  <2> QED
    BY <1>5, <1>7, <2>4 DEF DetachInv
<1>9. CASE ready[1] # Task
  <2>1. ready[1] \in open /\ task' = "waiting" /\ running' = {ready[1]}
    BY <1>1, <1>2, <1>3, <1>4, <1>9 DEF DetachInv, ReadyIsOpen
  <2>2. ReadyIsOpen'
    <3>1. \A i \in 1 .. Len(ready') : ready'[i] \in open
      <4> TAKE i \in 1 .. Len(ready')
      <4>1. i + 1 \in 1 .. Len(ready) /\ ready'[i] = ready[i + 1]
        BY <1>6
      <4> QED
        BY <2>1, <4>1 DEF DetachInv, ReadyIsOpen
    <3> QED
      BY <1>1, <3>1 DEF ReadyIsOpen
  <2>3. OpenIsReady'
    <3> SUFFICES ASSUME NEW j \in open, ready[1] # j
                 PROVE  \E i \in 1 .. Len(ready') : ready'[i] = j
      BY <1>1, <2>1 DEF OpenIsReady
    <3>1. PICK k \in 1 .. Len(ready) : ready[k] = j
      BY <1>1 DEF DetachInv, OpenIsReady
    <3>2. k - 1 \in 1 .. Len(ready') /\ ready'[k - 1] = j
      BY <1>2, <3>1
    <3> QED
      BY <3>2
  <2>4. RunsInTurn'
    BY <1>1, <2>1 DEF RunsInTurn
  <2> QED
    BY <1>5, <1>7, <2>2, <2>3, <2>4 DEF DetachInv
<1> QED
  BY <1>8, <1>9

LEMMA CompleteKeeps ==
    ASSUME DetachInv, NEW j \in Job, Complete(j)
    PROVE  DetachInv'
<1>1. /\ running = {j} /\ open' = open \ {j} /\ ended' = ended \union {j} /\ running' = {}
      /\ ready' = IF open = {j} /\ task = "waiting" THEN Append(ready, Task) ELSE ready
      /\ UNCHANGED <<yields, task>>
  BY DEF Complete
<1>2. task = "waiting" /\ j \in open
  BY <1>1, DetachAssumption DEF DetachInv, DetachTypeOK, RunsInTurn
<1>3. \A i \in 1 .. Len(ready) : ready[i] \in open /\ ready[i] # j
  BY <1>1, <1>2 DEF DetachInv, ReadyIsOpen, ReadyOnce
<1>4. CASE open = {j}
  <2>1. ready = <<>>
    BY <1>3, <1>4 DEF DetachInv, DetachTypeOK
  <2>2. ready' = <<Task>> /\ open' = {}
    BY <1>1, <1>2, <1>4, <2>1
  <2>3. Len(ready') = 1 /\ ready'[1] = Task /\ ready' \in Seq(Job \union {Task})
    BY <2>2
  <2>4. DetachTypeOK'
    BY <1>1, <2>2, <2>3 DEF DetachInv, DetachTypeOK
  <2>5. ReadyOnce' /\ ReadyIsOpen'
    BY <1>1, <1>2, <2>2, <2>3 DEF ReadyOnce, ReadyIsOpen
  <2>6. OpenIsReady' /\ RunsInTurn'
    BY <1>1, <1>2, <2>2 DEF OpenIsReady, RunsInTurn
  <2> QED
    BY <2>4, <2>5, <2>6 DEF DetachInv
<1>5. CASE open # {j}
  <2>1. ready' = ready
    BY <1>1, <1>5
  <2>2. DetachTypeOK' /\ ReadyOnce'
    BY <1>1, <2>1 DEF DetachInv, DetachTypeOK, ReadyOnce
  <2>3. ReadyIsOpen'
    BY <1>1, <1>3, <2>1 DEF ReadyIsOpen
  <2>4. OpenIsReady'
    BY <1>1, <2>1 DEF DetachInv, OpenIsReady
  <2>5. RunsInTurn'
    BY <1>1, <1>2 DEF RunsInTurn
  <2> QED
    BY <2>2, <2>3, <2>4, <2>5 DEF DetachInv
<1> QED
  BY <1>4, <1>5

\* For any number of jobs that yield any number of times: nothing that is
\* detached runs before the task waits, the task goes on when everything has
\* ended, and until then each open job runs or is in the queue, once.
THEOREM DetachedRunsLater == DetachSpec => [](DetachedLater /\ ReadyOnce /\ OpenIsReady)
<1>1. DetachInit => DetachInv
  <2> SUFFICES ASSUME DetachInit PROVE DetachInv
    OBVIOUS
  <2>1. ready = <<>> /\ running = {Task} /\ open = {} /\ ended = {} /\ task = "detaching"
    BY DEF DetachInit
  <2>2. DetachTypeOK
    BY <2>1 DEF DetachTypeOK
  <2>3. ReadyOnce /\ ReadyIsOpen /\ OpenIsReady /\ RunsInTurn
    BY <2>1 DEF ReadyOnce, ReadyIsOpen, OpenIsReady, RunsInTurn
  <2> QED
    BY <2>2, <2>3 DEF DetachInv
<1>2. DetachInv /\ [DetachNext]_detachVars => DetachInv'
  <2> SUFFICES ASSUME DetachInv, [DetachNext]_detachVars PROVE DetachInv'
    OBVIOUS
  <2>1. ASSUME AwaitEmpty PROVE DetachInv'
    BY <2>1, AwaitEmptyKeeps
  <2>2. ASSUME RunNext PROVE DetachInv'
    BY <2>2, RunNextKeeps
  <2>3. ASSUME NEW j \in Job, DetachJob(j) PROVE DetachInv'
    BY <2>3, DetachJobKeeps
  <2>4. ASSUME NEW j \in Job, Yield(j) PROVE DetachInv'
    <3>1. running' = running /\ UNCHANGED <<ready, open, ended, task>>
      BY <2>4 DEF Yield, AfterYield
    <3> QED
      BY <3>1 DEF DetachInv, DetachTypeOK, ReadyOnce, ReadyIsOpen, OpenIsReady, RunsInTurn
  <2>5. ASSUME NEW j \in Job, Complete(j) PROVE DetachInv'
    BY <2>5, CompleteKeeps
  <2>6. ASSUME UNCHANGED detachVars PROVE DetachInv'
    BY <2>6 DEF detachVars, DetachInv, DetachTypeOK, ReadyOnce, ReadyIsOpen, OpenIsReady,
           RunsInTurn
  <2> QED
    BY <2>1, <2>2, <2>3, <2>4, <2>5, <2>6 DEF DetachNext
<1>3. DetachInv => DetachedLater /\ ReadyOnce /\ OpenIsReady
  BY DEF DetachInv, RunsInTurn, DetachedLater
<1> QED
  BY <1>1, <1>2, <1>3, PTL DEF DetachSpec
=============================================================================
