-------------------------------- MODULE Text --------------------------------
(***************************************************************************)
(* The string types of upp, views of an array of characters that somebody  *)
(* else owns and that ends in a null character (cstr, strlit), or an array *)
(* of their own (template_str); and the escape codes of terminal.hpp.      *)
(***************************************************************************)
EXTENDS Integers, Sequences, SequencesExt

CONSTANTS
    Char,       \* characters
    Nul,        \* the null character
    MaxText,    \* bound on the length of a string
    option,     \* some of terminal::option, as numbers
    Semicolon, Escape, Bracket, EndOfCode

ASSUME TextAssumption ==
    /\ Nul \notin Char /\ MaxText \in Nat
    /\ {Semicolon, Escape, Bracket, EndOfCode} \intersect option = {}

VARIABLES
    made,       \* the constructor that was used, "none" before
    array,      \* the characters, with the null character at the end
    start, len, \* the view of them
    code        \* the escape code built last

textVars == <<made, array, start, len, code>>

\* Null characters may be inside a string, too
Literal == {Append(s, Nul) : s \in BoundedSeq(Char \union {Nul}, MaxText)}

TextInit ==
    /\ made = "none" /\ array \in Literal
    /\ start = 0 /\ len = 0
    /\ code = <<>>

\* s[i], counted from zero
CharAt(i) == array[i + 1]

strlen(from) ==
    CHOOSE n \in 0 .. Len(array) : CharAt(from + n) = Nul /\ \A i \in 0 .. n - 1 : CharAt(from + i) # Nul

-----------------------------------------------------------------------------
Construct(how, n) ==
    /\ made = "none"
    /\ made' = how /\ len' = n
    /\ UNCHANGED <<array, start, code>>

\* cstr and strlit from a pointer, which is what a string literal decays to, and
\* the suffix _lit
FromPointer == Construct("pointer", strlen(0))

AssertedMutant(n) == TRUE
\* The assertion of cstr(const char*, size_t)
Asserted(n) == CharAt(n) = Nul

FromLength(n) == Asserted(n) /\ Construct("length", n)

\* template_str copies the array, view() leaves the last character out
FromArray == Construct("array", Len(array) - 1)

\* What remove_prefix leaves of the length
Remains(n) == len - n

\* cstr::remove_prefix; there is no remove_suffix
RemovePrefix(n) ==
    /\ made \in {"pointer", "length"}
    /\ start' = start + n /\ len' = Remains(n)
    /\ UNCHANGED <<made, array, code>>

-----------------------------------------------------------------------------
WithoutLastMutant(res) == res
\* The last semicolon is taken back
WithoutLast(res) == Front(res)

\* Each option is appended with a semicolon behind it
Appended(options) ==
    [i \in 1 .. 2 * Len(options) |-> IF i % 2 = 1 THEN options[(i + 1) \div 2] ELSE Semicolon]

dynamic_escape_code(options) ==
    LET begin == <<Escape, Bracket>>
    IN Append(IF options = <<>> THEN begin ELSE WithoutLast(begin \o Appended(options)), EndOfCode)

BuildCode(options) ==
    /\ made = "none"
    /\ code' = dynamic_escape_code(options)
    /\ UNCHANGED <<made, array, start, len>>

TextNext ==
    \/ FromPointer \/ FromArray
    \/ \E n \in 0 .. Len(array) - 1 : FromLength(n)
    \/ \E n \in 0 .. len : RemovePrefix(n)
    \/ \E options \in BoundedSeq(option, 3) : BuildCode(options)

TextSpec == TextInit /\ [][TextNext]_textVars

-----------------------------------------------------------------------------
(* Properties *)

\* A function of C that is given c_str() stops inside the array, and at the end
\* of the view unless the program built it around null characters; also after
\* prefixes were removed.
CSeesTheView ==
    made # "none" =>
        /\ start + len < Len(array) /\ CharAt(start + len) = Nul
        /\ made = "pointer" => strlen(start) = len
        /\ strlen(start) <= len

\* A terminal reads the options back from an escape code: numbers separated by
\* semicolons between the introducer and the final character, none of which is
\* empty (an empty one would reset what the others set).
CodeIsReadable ==
    code # <<>> =>
        LET body == SubSeq(code, 3, Len(code) - 1)
        IN /\ SubSeq(code, 1, 2) = <<Escape, Bracket>> /\ Last(code) = EndOfCode
           /\ \A i \in DOMAIN body : body[i] = Semicolon <=> i % 2 = 0
           /\ body # <<>> => Last(body) \in option

\* Whoever reads a string of upp through a pointer reads what its view shows, and a
\* terminal reads the escape codes.
TextAsMeant == CSeesTheView /\ CodeIsReadable
=============================================================================
