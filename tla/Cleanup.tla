------------------------------- MODULE Cleanup -------------------------------
(***************************************************************************)
(* upp::cleanup, cleanup_throw and cleanup_success on a stack of scopes    *)
(* that exceptions unwind.  The last two ask std::uncaught_exceptions      *)
(* whether their scope is left by an exception; while the callback of      *)
(* another one runs during unwinding, that counts an exception which is    *)
(* not theirs.                                                             *)
(***************************************************************************)
EXTENDS Naturals, Sequences, FiniteSets, SequencesExt

CONSTANTS
    MaxDepth,       \* bound on the scopes explored
    ThrowsInside    \* TRUE: callbacks that run during unwinding use
                    \* cleanup_throw and cleanup_success

ASSUME CleanupAssumption == MaxDepth \in Nat /\ ThrowsInside \in BOOLEAN

VARIABLES
    scopes,     \* the stack: cleanups, try blocks and running callbacks
    unwinding,  \* an exception is leaving the innermost scope
    last        \* history: the cleanup destroyed last

cleanupVars == <<scopes, unwinding, last>>

Kind == {"always", "throw", "success"}

Scope(what) == [what |-> what, cancelled |-> FALSE]

None == [kind |-> "always", cancelled |-> TRUE, thrown |-> FALSE, ran |-> FALSE]

CleanupInit == scopes = <<>> /\ unwinding = FALSE /\ last = None

\* std::uncaught_exceptions(): one is on its way for each callback that runs
\* during unwinding, and one if the innermost scope is being unwound
Uncaught ==
    Cardinality({i \in DOMAIN scopes : scopes[i].what = "callback"})
        + (IF unwinding THEN 1 ELSE 0)

Inner == Last(scopes)

Enter(what) ==
    /\ ~unwinding /\ Len(scopes) < MaxDepth
    /\ what \in {"throw", "success"} => Uncaught = 0 \/ ThrowsInside
    /\ scopes' = Append(scopes, Scope(what))
    /\ UNCHANGED <<unwinding, last>>

\* cancel(), for which the cleanup may be in any enclosing scope
Cancel(i, cancelled) ==
    /\ ~unwinding /\ scopes[i].what \in Kind
    /\ scopes' = [scopes EXCEPT ![i].cancelled = cancelled]
    /\ UNCHANGED <<unwinding, last>>

\* A callback is noexcept in effect: an exception must be caught inside it
Throw ==
    /\ ~unwinding
    /\ \E i \in DOMAIN scopes :
          /\ scopes[i].what = "try"
          /\ \A j \in i + 1 .. Len(scopes) : scopes[j].what # "callback"
    /\ unwinding' = TRUE
    /\ UNCHANGED <<scopes, last>>

NeededMutant(kind) == kind = "always" \/ (kind = "success") # (Uncaught = 0)
\* need_cleanup of the three traits
Needed(kind) == CASE kind = "always"  -> TRUE
                  [] kind = "throw"   -> Uncaught > 0
                  [] kind = "success" -> Uncaught = 0

\* ~basic_cleanup, when its scope ends or is unwound.  The callback of a cleanup
\* may enter scopes of its own.
Leave ==
    /\ scopes # <<>> /\ Inner.what \in Kind
    /\ LET run == ~Inner.cancelled /\ Needed(Inner.what)
       IN /\ last' = [kind |-> Inner.what, cancelled |-> Inner.cancelled,
                      thrown |-> unwinding, ran |-> run]
          /\ \/ scopes' = Front(scopes) /\ UNCHANGED unwinding
             \/ /\ run /\ unwinding
                /\ scopes' = Append(Front(scopes), Scope("callback"))
                /\ unwinding' = FALSE

\* A try block catches, or ends; a callback that ran during unwinding returns to it
LeaveOther ==
    /\ scopes # <<>> /\ Inner.what \notin Kind
    /\ scopes' = Front(scopes)
    /\ unwinding' = (Inner.what = "callback")
    /\ UNCHANGED last

CleanupNext ==
    \/ \E what \in Kind \union {"try"} : Enter(what)
    \/ \E i \in DOMAIN scopes, c \in BOOLEAN : Cancel(i, c)
    \/ Throw \/ Leave \/ LeaveOther

CleanupSpec == CleanupInit /\ [][CleanupNext]_cleanupVars

-----------------------------------------------------------------------------
(* Properties *)

\* A callback runs exactly if its cleanup was not cancelled and its scope was
\* left in the way the cleanup is named for, also while the program is unwinding
\* for an exception of an outer scope.
RunsAsNamed ==
    last.ran <=>
        /\ ~last.cancelled
        /\ last.kind = "throw" => last.thrown
        /\ last.kind = "success" => ~last.thrown
=============================================================================
