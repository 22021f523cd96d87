------------------------------- MODULE Values -------------------------------
(***************************************************************************)
(* Two value types of upp with states that a program may not notice: maybe *)
(* spends one value of its type on "nothing", frac normalises its          *)
(* denominator in some products only.                                      *)
(***************************************************************************)
EXTENDS Integers

CONSTANTS
    Held,       \* the maybe objects
    Given,      \* the values of their type that a program stores
    NullValue,  \* maybe_traits<T>::null_value()
    NoMaybe,    \* an object that does not exist
    GivesNull,  \* TRUE: the program stores the null value as if it were a value
    MultipliesNaN, \* TRUE: the program multiplies a fraction whose denominator is 0
    Small,      \* the scalars and numerators explored
    MaxFrac     \* bound on numerators and denominators

ASSUME ValuesAssumption ==
    /\ NoMaybe \notin Given \union {NullValue}
    /\ NullValue \in Given <=> GivesNull
    /\ MultipliesNaN \in BOOLEAN
    /\ Small \subseteq Int /\ MaxFrac \in Nat

VARIABLES
    m_val,      \* maybe::m_val
    stored,     \* history: what the program has put in each
    m_num, m_den,
    exact       \* history: the number the fraction stands for, in lowest terms

valuesVars == <<m_val, stored, m_num, m_den, exact>>

maybeVars == <<m_val, stored>>
fracVars == <<m_num, m_den, exact>>

Nothing == [has |-> FALSE]
Just(v) == [has |-> TRUE, value |-> v]

ValuesInit ==
    /\ m_val = [o \in Held |-> NoMaybe] /\ stored = [o \in Held |-> Nothing]
    /\ m_num = 0 /\ m_den = 1 /\ exact = [num |-> 0, den |-> 1]

-----------------------------------------------------------------------------
(* maybe *)

IsNull(v) == v = NullValue

has_value(o) == ~IsNull(m_val[o])

\* Construction from nothing or null_maybe, and from a value or in place; an
\* object that exists is assigned the new one
Put(o, v, what) ==
    /\ m_val' = [m_val EXCEPT ![o] = v]
    /\ stored' = [stored EXCEPT ![o] = what]
    /\ UNCHANGED fracVars

Make(o) ==
    \/ Put(o, NullValue, Nothing)
    \/ \E v \in Given : Put(o, v, Just(v))

MovedFromMutant(v) == NullValue
\* What a move leaves of a pointer, a view or an integer: all of it
MovedFrom(v) == v

\* The defaulted copies and moves; nothing makes the source empty
CopyMaybe(o, from) ==
    /\ m_val[from] # NoMaybe
    /\ m_val' = [[m_val EXCEPT ![from] = MovedFrom(@)] EXCEPT ![o] = m_val[from]]
    /\ stored' = [stored EXCEPT ![o] = stored[from]]
    /\ UNCHANGED fracVars

\* Through operator*, which does not ask whether there is a value
WriteThrough(o, v) ==
    /\ m_val[o] # NoMaybe
    /\ Put(o, v, Just(v))

as_optional(o) == IF has_value(o) THEN Just(m_val[o]) ELSE Nothing

-----------------------------------------------------------------------------
(* frac *)

abs(n) == IF n < 0 THEN -n ELSE n

Sign(n) == IF n < 0 THEN -1 ELSE 1

\* The fraction in lowest terms with a positive denominator; 0/0 for what is no
\* number
Reduced(n, d) ==
    IF d = 0 THEN [num |-> 0, den |-> 0]
    ELSE LET g == CHOOSE k \in 1 .. abs(d) :
                      /\ n % k = 0 /\ d % k = 0
                      /\ \A j \in k + 1 .. abs(d) : n % j # 0 \/ d % j # 0
         IN [num |-> (n * Sign(d)) \div g, den |-> abs(d) \div g]

SetFrac(num, den, number) ==
    /\ abs(num) <= MaxFrac /\ abs(den) <= MaxFrac
    /\ m_num' = num /\ m_den' = den /\ exact' = number
    /\ UNCHANGED maybeVars

MakeFrac(num, den) == SetFrac(num, den, Reduced(num, den))

\* operator+=, which asserts that the denominators are the same
AddSame(num) ==
    SetFrac(m_num + num, m_den, Reduced(exact.num * m_den + num * exact.den, exact.den * m_den))

NormalisedMutant(num, den) == IF num % abs(den) = 0 THEN <<num \div abs(den), den>> ELSE <<num, den>>
\* A product becomes whole if the denominator divides it, and is left as it is
\* otherwise
Normalised(num, den) ==
    IF num % abs(den) = 0 THEN <<(num \div abs(den)) * Sign(den), 1>> ELSE <<num, den>>

\* What operator* may make of the fraction.  For a zero denominator it computes
\* num % 0, which is undefined: a build that traps is lost, one that does not leaves
\* the denominator or makes the product whole.
Products(scalar) ==
    IF m_den = 0 THEN {<<m_num * scalar, 0>>, <<m_num * scalar, 1>>}
                 ELSE {Normalised(m_num * scalar, m_den)}

Times(scalar) ==
    /\ m_den = 0 => MultipliesNaN
    /\ \E p \in Products(scalar) :
          SetFrac(p[1], p[2], Reduced(exact.num * scalar, exact.den))

\* The reciprocal of n/0 is zero; that of 0/0 is no number either
Reciprocal ==
    SetFrac(m_den, m_num,
            IF exact.den = 0 /\ m_num # 0 THEN Reduced(0, 1) ELSE Reduced(exact.den, exact.num))

is_nan == m_den = 0

-----------------------------------------------------------------------------
ValuesNext ==
    \/ \E o \in Held : Make(o) \/ \E v \in Given : WriteThrough(o, v)
    \/ \E o, from \in Held : CopyMaybe(o, from)
    \/ \E num, den \in Small : MakeFrac(num, den)
    \/ \E n \in Small : AddSame(n) \/ Times(n)
    \/ Reciprocal

ValuesSpec == ValuesInit /\ [][ValuesNext]_valuesVars
-----------------------------------------------------------------------------
(* Properties *)

\* A maybe has a value exactly if one was stored in it or in what was copied or
\* moved into it, and gives back that value, however objects are copied and moved
\* before; one that was moved from keeps its value, as a std::optional does
\* (maybe.hpp:64-68). This rests on the program never storing the null value itself.
MaybeRemembers == \A o \in Held : m_val[o] # NoMaybe => as_optional(o) = stored[o]

\* Sums over one denominator, products and reciprocals do not change the number a
\* fraction stands for, of whatever sign, and what is no number is known as such;
\* how far a product is reduced is left open. This rests on the program asking
\* is_nan before it multiplies.
FracIsExact ==
    /\ is_nan <=> exact.den = 0
    /\ ~is_nan => Reduced(m_num, m_den) = exact

\* A maybe gives back what was put in, and a fraction is the number computed.
ValuesAsMeant == MaybeRemembers /\ FracIsExact
=============================================================================
