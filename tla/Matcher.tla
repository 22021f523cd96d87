------------------------------- MODULE Matcher -------------------------------
(***************************************************************************)
(* The matchers of matcher.hpp: x == any_of(a, b), all_of, none_of.  An    *)
(* argument that is a variable is kept as a reference, a temporary as its  *)
(* value; the matcher may be kept, and compared again after the variables  *)
(* have changed.                                                           *)
(***************************************************************************)
EXTENDS Integers, Sequences, SequencesExt

CONSTANTS
    Variable,   \* the variables of the program
    Number,     \* their values
    MaxArgs     \* bound on the number of arguments

ASSUME MatcherAssumption == Variable \intersect Number = {} /\ MaxArgs \in Nat

VARIABLES
    var,        \* the value of each variable
    equal,      \* the matcher: its Equal, "none" before there is one
    m_tpl,      \* ... and what it holds of its arguments
    passed      \* ghost: the arguments as written, and the values they had

matcherVars == <<var, equal, m_tpl, passed>>

MatcherInit ==
    /\ var \in [Variable -> Number]
    /\ equal = "none" /\ m_tpl = <<>> /\ passed = <<>>

-----------------------------------------------------------------------------
\* An argument: a variable, a variable moved from, or a number
Argument == [form : {"variable", "moved"}, of : Variable] \union [form : {"number"}, of : Number]

ValueOf(arg) == IF arg.form = "number" THEN arg.of ELSE var[arg.of]

HeldOfMutant(arg) == [ref |-> FALSE, of |-> ValueOf(arg)]
\* matcher_type: a reference_wrapper for what is not a temporary
HeldOf(arg) == IF arg.form = "variable" THEN [ref |-> TRUE, of |-> arg.of]
               ELSE [ref |-> FALSE, of |-> ValueOf(arg)]

MakeMatcher(fn, args) ==
    /\ equal = "none"
    /\ equal' = fn
    /\ m_tpl' = [i \in DOMAIN args |-> HeldOf(args[i])]
    /\ passed' = [i \in DOMAIN args |-> <<args[i], ValueOf(args[i])>>]
    /\ UNCHANGED var

ChangeVariable(v, n) ==
    /\ equal # "none"
    /\ var' = [var EXCEPT ![v] = n]
    /\ UNCHANGED <<equal, m_tpl, passed>>

\* What the tuple gives for its i-th element now
Kept(i) == IF m_tpl[i].ref THEN var[m_tpl[i].of] ELSE m_tpl[i].of

\* operator==(lhs, matcher): the comparisons are folded with || or &&
Equal(lhs) ==
    CASE equal = "any_of"  -> \E i \in DOMAIN m_tpl : lhs = Kept(i)
      [] equal = "all_of"  -> \A i \in DOMAIN m_tpl : lhs = Kept(i)
      [] equal = "none_of" -> \A i \in DOMAIN m_tpl : lhs # Kept(i)

MatcherNext ==
    \/ \E fn \in {"any_of", "all_of", "none_of"}, args \in BoundedSeq(Argument, MaxArgs) :
          MakeMatcher(fn, args)
    \/ \E v \in Variable, n \in Number : ChangeVariable(v, n)

MatcherSpec == MatcherInit /\ [][MatcherNext]_matcherVars

-----------------------------------------------------------------------------
(* Properties *)

\* A matcher that is kept follows the variables it was made of and remembers the
\* temporaries: at any later time it matches the numbers that the comparisons
\* written out would match then.
MatcherFollows ==
    LET meant == {IF a[1].form = "variable" THEN var[a[1].of] ELSE a[2] : a \in Range(passed)}
    IN equal # "none" =>
        \A lhs \in Number :
            Equal(lhs) <=> CASE equal = "any_of"  -> lhs \in meant
                             [] equal = "all_of"  -> meant \subseteq {lhs}
                             [] equal = "none_of" -> lhs \notin meant
=============================================================================
