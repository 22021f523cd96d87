------------------------------ MODULE MCValues ------------------------------
(***************************************************************************)
(* Instances of Bits, Values, Layout, Text, LogLine, Matcher and Matrix    *)
(* for TLC; a behaviour is about one of them, as subject says.             *)
(***************************************************************************)
EXTENDS Bits, Values, Layout, Text, LogLine, Matcher, Matrix

CONSTANTS
    e1, e2, x, y,
    Subject   \* the components a configuration looks at

VARIABLE subject

vars == <<bitsVars, valuesVars, layoutVars, textVars, logLineVars, matcherVars, matrixVars, subject>>

\* Three values of an enum with a gap, one of them named twice
MCEnumerators == <<7, 2, 11, 2>>

\* Two flags, and one that names both
MCFlag == {{0}, {3}, {0, 3}}

MCHexDigit == {{}, {1}, {0, 3}}

MCSmall == {-3, -1, 0, 2}

\* A shear, rows of different lengths, and a single row
MCRowLists == {<<<<1, 2>>, <<0, 1>>>>, <<<<2>>, <<1, 1>>>>, <<<<1, 2>>>>}

\* Two names, one of two characters, and two messages
MCName == {<<e1>>, <<e2, e1>>}

MCMessage == {<<>>, <<e1, e2>>}

\* What a behaviour is not about starts in one state
Init ==
    /\ subject \in Subject
    /\ BitsInit /\ (subject # "bits" => kind = "bitmask")
    /\ ValuesInit
    /\ LayoutInit /\ (subject # "layout" => how = "fam" /\ hdr = [size |-> 1, align |-> 1] /\ elem = hdr)
    /\ TextInit /\ (subject # "text" => array = <<Nul>>)
    /\ LogLineInit /\ (subject # "logline" => ~tty)
    /\ MatcherInit /\ (subject # "matcher" => var = [v \in Variable |-> 0])
    /\ MatrixInit /\ (subject # "matrix" => ~static)

Others(name) ==
    /\ subject = name
    /\ UNCHANGED subject
    /\ name # "bits" => UNCHANGED bitsVars
    /\ name # "values" => UNCHANGED valuesVars
    /\ name # "layout" => UNCHANGED layoutVars
    /\ name # "text" => UNCHANGED textVars
    /\ name # "logline" => UNCHANGED logLineVars
    /\ name # "matcher" => UNCHANGED matcherVars
    /\ name # "matrix" => UNCHANGED matrixVars

Next ==
    \/ Others("bits") /\ BitsNext
    \/ Others("values") /\ ValuesNext
    \/ Others("layout") /\ LayoutNext
    \/ Others("text") /\ TextNext
    \/ Others("logline") /\ LogLineNext
    \/ Others("matcher") /\ MatcherNext
    \/ Others("matrix") /\ MatrixNext

Spec == Init /\ [][Next]_vars
=============================================================================
