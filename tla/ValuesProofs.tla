---------------------------- MODULE ValuesProofs ----------------------------
(***************************************************************************)
(* Proofs about Layout, Matcher, Values, Text, Bits, Matrix and LogLine.   *)
(***************************************************************************)
EXTENDS Layout, Matcher, Values, Text, Bits, Matrix, LogLine, NaturalsInduction,
        WellFoundedInduction, SequenceTheorems, FiniteSetTheorems, TLAPS

-----------------------------------------------------------------------------
(* Quotients and remainders *)

LEMMA DivMod ==
    ASSUME NEW a \in Int, NEW c \in Nat \ {0}
    PROVE  a = (c * (a \div c)) + (a % c) /\ a % c \in 0 .. c - 1 /\ a \div c \in Int
OBVIOUS

\* A multiple of c that is less than c away from zero is zero
LEMMA SmallMultiple ==
    ASSUME NEW c \in Nat \ {0}, NEW k \in Int, c * k < c, c * k > -c
    PROVE  k = 0
<1>1. CASE k >= 1
  <2>1. c * k >= c
    BY <1>1
  <2> QED
    BY <2>1
<1>2. CASE k <= -1
  <2>1. c * k <= -c
    BY <1>2
  <2> QED
    BY <2>1
<1> QED
  BY <1>1, <1>2

\* There is one way to divide
LEMMA RemainderIs ==
    ASSUME NEW c \in Nat \ {0}, NEW q \in Int, NEW r \in 0 .. c - 1, NEW a \in Int,
           a = (c * q) + r
    PROVE  a % c = r /\ a \div c = q
<1> DEFINE p == a \div c
           s == a % c
<1>1. a = (c * p) + s /\ s \in 0 .. c - 1 /\ p \in Int
  BY DivMod
<1> HIDE DEF p, s
<1>2. c * (p - q) = (c * p) - (c * q) /\ c * p \in Int /\ c * q \in Int /\ p - q \in Int
  BY <1>1
<1>3. c * (p - q) = r - s
  BY <1>1, <1>2
<1>4. p - q = 0
  BY <1>1, <1>2, <1>3, SmallMultiple
<1>5. p = q /\ s = r
  BY <1>1, <1>2, <1>3, <1>4
<1> QED
  BY <1>5 DEF p, s

\* x is a multiple of c
Divides(c, x) == \E k \in Int : x = c * k

LEMMA DividesRemainder ==
    ASSUME NEW c \in Nat \ {0}, NEW x \in Int
    PROVE  x % c = 0 <=> Divides(c, x)
<1>1. ASSUME x % c = 0 PROVE Divides(c, x)
  <2>1. x = c * (x \div c) /\ x \div c \in Int
    BY <1>1, DivMod
  <2> QED
    BY <2>1 DEF Divides
<1>2. ASSUME NEW k \in Int, x = c * k PROVE x % c = 0
  <2>1. x = (c * k) + 0 /\ 0 \in 0 .. c - 1
    BY <1>2
  <2> QED
    BY <2>1, RemainderIs
<1> QED
  BY <1>1, <1>2 DEF Divides

LEMMA DividesSum ==
    ASSUME NEW c \in Int, NEW x \in Int, NEW y \in Int, Divides(c, x), Divides(c, y)
    PROVE  Divides(c, x + y)
<1>1. PICK j \in Int : x = c * j
  BY DEF Divides
<1>2. PICK k \in Int : y = c * k
  BY DEF Divides
<1>3. x + y = c * (j + k) /\ j + k \in Int
  BY <1>1, <1>2
<1> QED
  BY <1>3 DEF Divides

LEMMA DividesProduct ==
    ASSUME NEW c \in Int, NEW x \in Int, NEW y \in Int, Divides(c, x)
    PROVE  Divides(c, x * y)
<1>1. PICK j \in Int : x = c * j
  BY DEF Divides
<1>2. x * y = c * (j * y) /\ j * y \in Int
  BY <1>1
<1> QED
  BY <1>2 DEF Divides

LEMMA DividesTransitive ==
    ASSUME NEW b \in Int, NEW c \in Int, NEW x \in Int, Divides(b, c), Divides(c, x)
    PROVE  Divides(b, x)
<1>1. PICK j \in Int : x = c * j
  BY DEF Divides
<1> QED
  BY <1>1, DividesProduct

\* A positive multiple is not smaller
LEMMA DividesBounds ==
    ASSUME NEW c \in Nat \ {0}, NEW x \in Nat \ {0}, Divides(c, x)
    PROVE  c <= x
<1>1. PICK k \in Int : x = c * k
  BY DEF Divides
<1>2. k >= 1
  <2>1. CASE k <= 0
    <3>1. c * k <= 0
      BY <2>1
    <3> QED
      BY <3>1, <1>1
  <2> QED
    BY <2>1
<1>3. c * k >= c
  BY <1>2
<1> QED
  BY <1>1, <1>3

-----------------------------------------------------------------------------
(* Layout *)

LayoutTypes == hdr \in Type /\ elem \in Type /\ how \in {"fam", "flexible"}

LayoutInv == LayoutTypes /\ LayoutIsSound

LEMMA TypeFacts ==
    ASSUME NEW t \in Type
    PROVE  t.align \in Align /\ t.align \in Nat \ {0} /\ t.size \in Nat \ {0} /\ Divides(t.align, t.size)
<1>1. PICK a \in Align : t \in {[size |-> a * n, align |-> a] : n \in 1 .. MaxUnits}
  BY DEF Type
<1>2. PICK n \in 1 .. MaxUnits : t = [size |-> a * n, align |-> a]
  BY <1>1
<1>3. a \in Nat \ {0} /\ n \in Nat \ {0} /\ n \in Int
  BY LayoutAssumption
<1>4. a * n \in Nat \ {0}
  BY <1>3
<1> QED
  BY <1>2, <1>3, <1>4 DEF Divides

\* The least multiple of an alignment that is not smaller
RoundedUp(x, a) == IF x % a = 0 THEN x ELSE x + a - (x % a)

LEMMA Rounding ==
    ASSUME NEW x \in Nat, NEW a \in Nat \ {0}
    PROVE  /\ RoundedUp(x, a) \in Nat
           /\ x <= RoundedUp(x, a) /\ RoundedUp(x, a) < x + a
           /\ Divides(a, RoundedUp(x, a))
<1> DEFINE q == x \div a
           r == x % a
<1>1. x = (a * q) + r /\ r \in 0 .. a - 1 /\ q \in Int
  BY DivMod
<1>2. CASE r = 0
  BY <1>1, <1>2 DEF RoundedUp, Divides
<1>3. CASE r # 0
  <2>1. RoundedUp(x, a) = x + a - r
    BY <1>3 DEF RoundedUp
  <2> HIDE DEF q, r
  <2>2. x + a - r = a * (q + 1) /\ q + 1 \in Int
    BY <1>1
  <2>3. Divides(a, x + a - r)
    BY <2>2 DEF Divides
  <2>4. x + a - r \in Nat /\ x <= x + a - r /\ x + a - r < x + a
    BY <1>1, <1>3
  <2> QED
    BY <2>1, <2>3, <2>4
<1> QED
  BY <1>2, <1>3

\* Of two alignments the smaller divides the larger
LEMMA AlignmentsNest ==
    ASSUME NEW a \in Align \union {NewAlign}, NEW b \in Align \union {NewAlign}, a <= b
    PROVE  Divides(a, b)
<1>1. a \in Nat \ {0} /\ b \in Nat \ {0}
  BY LayoutAssumption
<1>2. CASE b % a = 0
  BY <1>1, <1>2, DividesRemainder
<1>3. CASE a % b = 0
  <2>1. Divides(b, a)
    BY <1>1, <1>3, DividesRemainder
  <2>2. a = b
    BY <1>1, <2>1, DividesBounds
  <2>3. a = a * 1
    BY <1>1
  <2> QED
    BY <2>2, <2>3 DEF Divides
<1> QED
  BY <1>2, <1>3, LayoutAssumption

\* What is allocated is aligned for both types
LEMMA AllocAligned ==
    ASSUME LayoutTypes, how = "flexible" => alignment <= NewAlign
    PROVE  /\ AllocAlign \in Nat \ {0}
           /\ Divides(hdr.align, AllocAlign) /\ Divides(elem.align, AllocAlign)
<1>1. hdr.align \in Align /\ elem.align \in Align
  BY TypeFacts DEF LayoutTypes
<1>2. hdr.align \in Nat \ {0} /\ elem.align \in Nat \ {0} /\ NewAlign \in Nat \ {0}
  BY <1>1, LayoutAssumption
<1>3. /\ alignment \in Align \union {NewAlign} /\ alignment \in Nat \ {0}
      /\ hdr.align <= alignment /\ elem.align <= alignment
  BY <1>1, <1>2 DEF alignment, larger
<1>4. AllocAlign \in Align \union {NewAlign} /\ alignment <= AllocAlign /\ AllocAlign \in Nat \ {0}
  BY <1>2, <1>3 DEF AllocAlign, LayoutTypes
<1>5. hdr.align <= AllocAlign /\ elem.align <= AllocAlign
  BY <1>2, <1>3, <1>4
<1> QED
  BY <1>1, <1>4, <1>5, AlignmentsNest

LEMMA AllocSound ==
    ASSUME LayoutInv, NEW n \in 0 .. MaxCount, Alloc(n)
    PROVE  LayoutInv'
<1>1. LayoutTypes /\ LayoutTypes' /\ hdr' = hdr /\ elem' = elem /\ how' = how
  BY DEF LayoutInv, Alloc, LayoutTypes
<1>2. how = "flexible" => alignment <= NewAlign
  BY DEF Alloc
<1>3. PICK base \in {AllocAlign, 3 * AllocAlign} :
          block' = [base |-> base, bytes |-> required_bytes(n), count |-> n]
  BY DEF Alloc
<1> DEFINE h == hdr.align
           e == elem.align
           off == Offset
<1>4. /\ h \in Align /\ h \in Nat \ {0} /\ hdr.size \in Nat \ {0} /\ Divides(h, hdr.size)
      /\ e \in Align /\ e \in Nat \ {0} /\ elem.size \in Nat \ {0} /\ Divides(e, elem.size)
  BY <1>1, TypeFacts DEF LayoutTypes
<1>5. AllocAlign \in Nat \ {0} /\ Divides(h, AllocAlign) /\ Divides(e, AllocAlign)
  BY <1>1, <1>2, AllocAligned
<1>6. base \in Nat /\ Divides(h, base) /\ Divides(e, base)
  <2>1. Divides(h, AllocAlign * 3) /\ Divides(e, AllocAlign * 3)
    BY <1>4, <1>5, DividesProduct
  <2>2. 3 * AllocAlign = AllocAlign * 3 /\ 3 * AllocAlign \in Nat
    BY <1>5
  <2> QED
    BY <1>5, <2>1, <2>2
<1>7. off = RoundedUp(hdr.size, e)
  BY DEF Offset, RoundedUp
<1>8. off \in Nat /\ hdr.size <= off /\ off < hdr.size + e /\ Divides(e, off)
  BY <1>4, <1>7, Rounding
<1>9. off' = off /\ Offset' = off
  BY <1>1 DEF Offset
<1>10. ASSUME NEW i \in Int
       PROVE  /\ Element(i)' = base + off + (elem.size * i)
              /\ (elem.size * i) \in Int /\ Divides(e, elem.size * i)
  BY <1>1, <1>3, <1>4, <1>9, DividesProduct DEF Element
<1>11. n \in Int /\ n \in Nat /\ 0 \in Int
  BY LayoutAssumption
<1>12. block'.base % h = 0
  BY <1>3, <1>4, <1>6, DividesRemainder
<1>13. Element(0)' = base + off
  BY <1>10, <1>11, <1>6, <1>8, <1>4
<1>14. base + hdr.size <= Element(0)' /\ Element(0)' < base + hdr.size + e
  BY <1>13, <1>4, <1>6, <1>8
<1>15. ASSUME NEW i \in 0 .. n - 1 PROVE Element(i)' % e = 0
  <2>1. i \in Int /\ base + off \in Int /\ base \in Int /\ off \in Int
    BY <1>6, <1>8
  <2>2. Divides(e, base + off)
    BY <1>4, <1>6, <1>8, <2>1, DividesSum
  <2>3. Divides(e, elem.size * i) /\ elem.size * i \in Int
    BY <1>10, <2>1
  <2>4. Divides(e, (base + off) + (elem.size * i))
    BY <1>4, <2>1, <2>2, <2>3, DividesSum
  <2>5. Element(i)' = (base + off) + (elem.size * i) /\ Element(i)' \in Int
    BY <1>10, <2>1, <2>3
  <2> QED
    BY <1>4, <2>4, <2>5, DividesRemainder
<1>16. Element(n)' = base + required_bytes(n)
  BY <1>10, <1>11, <1>6, <1>8 DEF required_bytes
<1>17. FlexibleSize <= required_bytes(n)
  <2>1. required_bytes(n) >= off /\ required_bytes(n) \in Int
    <3>1. elem.size * n >= 0 /\ elem.size * n \in Int
      BY <1>4, <1>11
    <3> QED
      BY <3>1, <1>8 DEF required_bytes
  <2>2. FlexibleSize = RoundedUp(hdr.size, alignment)
    BY DEF FlexibleSize, RoundedUp
  <2>3. CASE alignment = e
    BY <2>1, <2>2, <2>3, <1>7, <1>8
  <2>4. CASE alignment = h
    <3>1. hdr.size % h = 0
      BY <1>4, DividesRemainder
    <3>2. FlexibleSize = hdr.size
      BY <2>2, <2>4, <3>1 DEF RoundedUp
    <3> QED
      BY <3>2, <2>1, <1>4, <1>8
  <2> QED
    BY <2>3, <2>4 DEF alignment, larger
<1>18. FlexibleSize' = FlexibleSize
  BY <1>1 DEF FlexibleSize, alignment
<1>19. block'.base = base /\ block'.count = n /\ block'.bytes = required_bytes(n)
  BY <1>3
<1> HIDE DEF off
<1>20. LayoutIsSound'
  BY <1>1, <1>12, <1>14, <1>15, <1>16, <1>17, <1>18, <1>19 DEF LayoutIsSound
<1> QED
  BY <1>1, <1>20 DEF LayoutInv

\* For types of any size and alignment and any number of elements: header and
\* elements of a fam or flexible object are aligned, lie apart, and end with the
\* block, provided that alignments divide each other as powers of two do.
THEOREM BlocksAreSound == LayoutSpec => []LayoutIsSound
<1>1. LayoutInit => LayoutInv
  BY DEF LayoutInit, LayoutInv, LayoutTypes, LayoutIsSound
<1>2. LayoutInv /\ [LayoutNext]_layoutVars => LayoutInv'
  <2> SUFFICES ASSUME LayoutInv, [LayoutNext]_layoutVars PROVE LayoutInv'
    OBVIOUS
  <2>1. CASE Dealloc
    BY <2>1 DEF Dealloc, LayoutInv, LayoutTypes, LayoutIsSound
  <2>2. ASSUME NEW n \in 0 .. MaxCount, Alloc(n) PROVE LayoutInv'
    BY <2>2, AllocSound
  <2>3. CASE UNCHANGED layoutVars
    <3>1. block' = block /\ hdr' = hdr /\ elem' = elem /\ how' = how
      BY <2>3 DEF layoutVars
    <3> QED
      BY <3>1 DEF LayoutInv, LayoutTypes, LayoutIsSound, Element, Offset, FlexibleSize, alignment
  <2> QED
    BY <2>1, <2>2, <2>3 DEF LayoutNext
<1>3. LayoutInv => LayoutIsSound
  BY DEF LayoutInv
<1> QED
  BY <1>1, <1>2, <1>3, PTL DEF LayoutSpec

-----------------------------------------------------------------------------
(* Matcher *)

\* The tuple keeps a reference exactly for what was passed as a variable
KeptAsPassed ==
    /\ DOMAIN m_tpl = DOMAIN passed
    /\ \A i \in DOMAIN passed :
          m_tpl[i] = IF passed[i][1].form = "variable"
                     THEN [ref |-> TRUE, of |-> passed[i][1].of]
                     ELSE [ref |-> FALSE, of |-> passed[i][2]]

MatcherInv ==
    /\ equal \in {"none", "any_of", "all_of", "none_of"}
    /\ KeptAsPassed

LEMMA MatcherFollowsPassed ==
    ASSUME MatcherInv
    PROVE  MatcherFollows
<1> DEFINE Now(a) == IF a[1].form = "variable" THEN var[a[1].of] ELSE a[2]
           wanted  == {Now(a) : a \in Range(passed)}
<1>1. ASSUME NEW i \in DOMAIN passed PROVE Kept(i) = Now(passed[i])
  BY DEF Kept, MatcherInv, KeptAsPassed
<1>2. wanted = {Kept(i) : i \in DOMAIN m_tpl}
  <2>1. wanted = {Now(passed[i]) : i \in DOMAIN passed}
    BY DEF Range
  <2>2. DOMAIN m_tpl = DOMAIN passed
    BY DEF MatcherInv, KeptAsPassed
  <2> HIDE DEF Now
  <2> QED
    BY <1>1, <2>1, <2>2 DEF wanted
<1> HIDE DEF wanted
<1>3. ASSUME equal # "none", NEW lhs \in Number
      PROVE  Equal(lhs) <=> CASE equal = "any_of"  -> lhs \in wanted
                             [] equal = "all_of"  -> wanted \subseteq {lhs}
                             [] equal = "none_of" -> lhs \notin wanted
  <2>1. CASE equal = "any_of"
    BY <2>1, <1>2 DEF Equal
  <2>2. CASE equal = "all_of"
    BY <2>2, <1>2 DEF Equal
  <2>3. CASE equal = "none_of"
    BY <2>3, <1>2 DEF Equal
  <2> QED
    BY <1>3, <2>1, <2>2, <2>3 DEF MatcherInv
<1> QED
  BY <1>3 DEF MatcherFollows, wanted

\* For any variables, values and arguments: a matcher that is kept follows the
\* variables it was made of and remembers the temporaries.
THEOREM MatcherIsTrue == MatcherSpec => []MatcherFollows
<1>1. MatcherInit => MatcherInv
  BY DEF MatcherInit, MatcherInv, KeptAsPassed
<1>2. MatcherInv /\ [MatcherNext]_matcherVars => MatcherInv'
  <2> SUFFICES ASSUME MatcherInv, [MatcherNext]_matcherVars PROVE MatcherInv'
    OBVIOUS
  <2>1. ASSUME NEW fn \in {"any_of", "all_of", "none_of"},
               NEW args \in BoundedSeq(Argument, MaxArgs), MakeMatcher(fn, args)
        PROVE  MatcherInv'
    <3>1. equal' = fn
      BY <2>1 DEF MakeMatcher
    <3>2. DOMAIN m_tpl' = DOMAIN args /\ DOMAIN passed' = DOMAIN args
      BY <2>1 DEF MakeMatcher
    <3>3. ASSUME NEW i \in DOMAIN args
          PROVE  m_tpl'[i] = HeldOf(args[i]) /\ passed'[i] = <<args[i], ValueOf(args[i])>>
      BY <2>1 DEF MakeMatcher
    <3>4. KeptAsPassed'
      BY <3>2, <3>3 DEF KeptAsPassed, HeldOf
    <3> QED
      BY <3>1, <3>4 DEF MatcherInv
  <2>2. ASSUME NEW v \in Variable, NEW n \in Number, ChangeVariable(v, n) PROVE MatcherInv'
    BY <2>2 DEF ChangeVariable, MatcherInv, KeptAsPassed
  <2>3. CASE UNCHANGED matcherVars
    BY <2>3 DEF matcherVars, MatcherInv, KeptAsPassed
  <2> QED
    BY <2>1, <2>2, <2>3 DEF MatcherNext
<1>3. MatcherInv => MatcherFollows
  BY MatcherFollowsPassed
<1> QED
  BY <1>1, <1>2, <1>3, PTL DEF MatcherSpec

-----------------------------------------------------------------------------
(* Values: the fraction.  Its lowest terms are the least denominator that     *)
(* the same number has, which does not depend on how it is written.           *)

\* A set of numbers has a least member
LEMMA LeastNumber ==
    ASSUME NEW S \in SUBSET Nat, S # {}
    PROVE  \E m \in S : \A k \in S : m <= k
<1> DEFINE R == {ss \in Nat \X Nat : ss[1] < ss[2]}
<1>1. IsWellFoundedOn(R, Nat)
  BY NatLessThanWellFounded DEF OpToRel
<1>2. PICK x \in S : \A y \in S : ~(<<y, x>> \in R)
  BY <1>1, WFMin
<1>3. ASSUME NEW y \in S PROVE x <= y
  <2>1. x \in Nat /\ y \in Nat
    OBVIOUS
  <2>2. y < x => <<y, x>> \in R
    BY <2>1
  <2> QED BY <1>2, <2>1, <2>2
<1> QED BY <1>3

LEMMA Cancel ==
    ASSUME NEW x \in Int, NEW y \in Int, NEW c \in Int \ {0}, c * x = c * y
    PROVE  x = y
<1>1. CASE x < y
  <2>1. CASE c > 0
    BY <1>1, <2>1
  <2>2. CASE c < 0
    BY <1>1, <2>2
  <2> QED
    BY <2>1, <2>2
<1>2. CASE x > y
  <2>1. CASE c > 0
    BY <1>2, <2>1
  <2>2. CASE c < 0
    BY <1>2, <2>2
  <2> QED
    BY <2>1, <2>2
<1> QED
  BY <1>1, <1>2

LEMMA NoZeroProduct ==
    ASSUME NEW x \in Int \ {0}, NEW y \in Int \ {0}
    PROVE  x * y # 0
<1>1. x * 0 = 0
  OBVIOUS
<1> QED
  BY <1>1, Cancel

LEMMA SignFacts ==
    ASSUME NEW d \in Int \ {0}
    PROVE  /\ abs(d) \in Nat \ {0} /\ Sign(d) \in {-1, 1}
           /\ abs(d) = d * Sign(d) /\ d = abs(d) * Sign(d)
           /\ \A x \in Int : x * Sign(d) \in Int /\ (x * Sign(d)) * Sign(d) = x
BY DEF abs, Sign

\* The positive denominators of the number n / d
Denominators(n, d) == {b \in Nat \ {0} : \E a \in Int : a * d = n * b}

\* a / b is that number in lowest terms
Lowest(n, d, a, b) ==
    /\ a \in Int /\ b \in Nat \ {0}
    /\ a * d = n * b
    /\ \A c \in Denominators(n, d) : b <= c

LEMMA HasLowest ==
    ASSUME NEW n \in Int, NEW d \in Int \ {0}
    PROVE  \E a, b : Lowest(n, d, a, b)
<1>1. abs(d) \in Nat \ {0} /\ n * Sign(d) \in Int /\ (n * Sign(d)) * d = n * abs(d)
  BY DEF abs, Sign
<1>2. abs(d) \in Denominators(n, d)
  BY <1>1 DEF Denominators
<1>3. Denominators(n, d) \in SUBSET Nat /\ Denominators(n, d) # {}
  BY <1>2 DEF Denominators
<1>4. PICK b \in Denominators(n, d) : \A c \in Denominators(n, d) : b <= c
  BY <1>3, LeastNumber
<1> QED
  BY <1>4 DEF Denominators, Lowest

\* Every denominator is a multiple of the lowest one
LEMMA LowestDivides ==
    ASSUME NEW n \in Int, NEW d \in Int \ {0}, NEW a, NEW b, Lowest(n, d, a, b)
    PROVE  \E q \in Nat \ {0} : abs(d) = q * b /\ n * Sign(d) = q * a
<1> DEFINE D == abs(d)
           M == n * Sign(d)
<1>1. a \in Int /\ b \in Nat \ {0} /\ a * d = n * b
  BY DEF Lowest
<1>2. D \in Nat \ {0} /\ M \in Int
  BY SignFacts
<1>3. a * D = M * b
  <2>1. CASE d > 0
    BY <2>1, <1>1 DEF abs, Sign
  <2>2. CASE d < 0
    <3>1. D = -d /\ M = -n
      BY <2>2 DEF abs, Sign
    <3>2. a * (-d) = -(a * d) /\ (-n) * b = -(n * b)
      BY <1>1
    <3> QED
      BY <3>1, <3>2, <1>1
  <2> QED
    BY <2>1, <2>2
<1>4. PICK q \in Int, r \in 0 .. b - 1 : D = (b * q) + r
  <2>1. D \in Int /\ b \in Nat \ {0}
    BY <1>1, <1>2
  <2> HIDE DEF D
  <2>2. D = (b * (D \div b)) + (D % b) /\ D % b \in 0 .. b - 1 /\ D \div b \in Int
    BY <2>1, DivMod
  <2> QED
    BY <2>2
<1>5. (M - (q * a)) * D = M * r
  <2>1. (M - (q * a)) * D = M * D - q * (a * D)
    BY <1>1, <1>2, <1>4
  <2>2. q * (a * D) = q * (M * b)
    BY <1>3
  <2>3. M * r = M * D - M * (b * q)
    <3>1. r = D - (b * q) /\ b * q \in Int /\ r \in Int
      BY <1>1, <1>2, <1>4
    <3> QED
      BY <3>1, <1>2
  <2>4. q * (M * b) = M * (b * q)
    BY <1>1, <1>2, <1>4
  <2> QED
    BY <2>1, <2>2, <2>3, <2>4
<1>6. r = 0
  <2> SUFFICES ASSUME r # 0 PROVE FALSE
    OBVIOUS
  <2> DEFINE t == M - (q * a)
  <2>1. t \in Int /\ r \in Nat \ {0} /\ r < b
    BY <1>1, <1>2, <1>4
  <2>2. t * D = M * r
    BY <1>5
  <2> HIDE DEF t
  <2>3. t * d = n * r
    <3>1. CASE d > 0
      BY <3>1, <2>2, <2>1 DEF abs, Sign
    <3>2. CASE d < 0
      <4>1. D = -d /\ M = -n
        BY <3>2 DEF abs, Sign
      <4>2. t * (-d) = -(t * d) /\ (-n) * r = -(n * r)
        BY <2>1
      <4> QED
        BY <4>1, <4>2, <2>2, <2>1
    <3> QED
      BY <3>1, <3>2
  <2>4. r \in Denominators(n, d)
    BY <2>1, <2>3 DEF Denominators
  <2> QED
    BY <2>1, <2>4, <1>1 DEF Lowest
<1>7. D = b * q
  BY <1>1, <1>4, <1>6
<1>8. q \in Nat \ {0}
  <2>1. CASE q <= 0
    <3>1. b * q <= 0
      BY <2>1, <1>1
    <3> QED
      BY <3>1, <1>2, <1>7
  <2> QED
    BY <2>1
<1>9. M = q * a
  <2>1. b * (q * a) = b * M
    <3>1. b * (q * a) = a * (b * q) /\ M * b = b * M
      BY <1>1, <1>2, <1>4
    <3> QED
      BY <3>1, <1>3, <1>7
  <2>2. q * a \in Int /\ M \in Int /\ b \in Int \ {0}
    BY <1>1, <1>2, <1>4
  <2> HIDE DEF M
  <2> QED
    BY <2>1, <2>2, Cancel
<1>10. D = q * b
  BY <1>1, <1>4, <1>7
<1> QED
  BY <1>8, <1>9, <1>10

\* How the fraction is written does not matter
LEMMA LowestIsSame ==
    ASSUME NEW n \in Int, NEW d \in Int \ {0}, NEW m \in Int, NEW e \in Int \ {0},
           n * e = m * d, NEW a, NEW b, Lowest(n, d, a, b)
    PROVE  Lowest(m, e, a, b)
<1>1. ASSUME NEW n1 \in Int, NEW d1 \in Int \ {0}, NEW m1 \in Int, NEW e1 \in Int \ {0},
             n1 * e1 = m1 * d1, NEW x \in Int, NEW c \in Int, x * d1 = n1 * c
      PROVE  x * e1 = m1 * c
  <2>1. d1 * (x * e1) = (x * d1) * e1
    OBVIOUS
  <2>2. (x * d1) * e1 = (n1 * c) * e1
    BY <1>1
  <2>3. (n1 * c) * e1 = (n1 * e1) * c
    OBVIOUS
  <2>4. (n1 * e1) * c = (m1 * d1) * c
    BY <1>1
  <2>5. (m1 * d1) * c = d1 * (m1 * c)
    OBVIOUS
  <2>6. d1 * (x * e1) = d1 * (m1 * c)
    BY <2>1, <2>2, <2>3, <2>4, <2>5
  <2>7. x * e1 \in Int /\ m1 * c \in Int
    OBVIOUS
  <2> QED
    BY <2>6, <2>7, Cancel
<1>2. a \in Int /\ b \in Nat \ {0} /\ b \in Int /\ a * d = n * b
  BY DEF Lowest
<1>3. a * e = m * b
  BY <1>1, <1>2
<1>4. ASSUME NEW c \in Denominators(m, e) PROVE c \in Denominators(n, d)
  <2>1. c \in Nat \ {0} /\ c \in Int
    BY DEF Denominators
  <2>2. PICK x \in Int : x * e = m * c
    BY DEF Denominators
  <2>3. x * d = n * c
    <3>1. m * d = n * e
      OBVIOUS
    <3> QED
      BY <1>1, <2>1, <2>2, <3>1
  <2> QED
    BY <2>1, <2>3 DEF Denominators
<1> QED
  BY <1>2, <1>3, <1>4 DEF Lowest

\* j divides both numbers of the fraction
Common(n, d, j) == n % j = 0 /\ d % j = 0

\* The greatest common divisor is what the lowest terms were multiplied with
LEMMA GreatestCommon ==
    ASSUME NEW n \in Int, NEW d \in Int \ {0}, NEW a, NEW b, Lowest(n, d, a, b),
           NEW q \in Nat \ {0}, abs(d) = q * b, n * Sign(d) = q * a
    PROVE  /\ q \in 1 .. abs(d) /\ Common(n, d, q)
           /\ \A j \in Nat \ {0} : Common(n, d, j) => j <= q
<1>1. a \in Int /\ b \in Nat \ {0} /\ Sign(d) \in {-1, 1} /\ Sign(d) \in Int
  BY SignFacts DEF Lowest
<1>2. n = q * (a * Sign(d)) /\ d = q * (b * Sign(d))
  <2>1. n = (n * Sign(d)) * Sign(d) /\ d = abs(d) * Sign(d)
    BY SignFacts
  <2>2. (q * a) * Sign(d) = q * (a * Sign(d)) /\ (q * b) * Sign(d) = q * (b * Sign(d))
    BY <1>1
  <2> QED
    BY <2>1, <2>2
<1>3. Common(n, d, q)
  <2>1. a * Sign(d) \in Int /\ b * Sign(d) \in Int
    BY <1>1
  <2>2. Divides(q, n) /\ Divides(q, d)
    BY <1>2, <2>1 DEF Divides
  <2> QED
    BY <2>2, DividesRemainder DEF Common
<1>4. q <= abs(d)
  <2>1. q * b >= q
    BY <1>1
  <2> QED
    BY <2>1
<1>5. ASSUME NEW j \in Nat \ {0}, Common(n, d, j) PROVE j <= q
  <2>1. Divides(j, n) /\ Divides(j, d)
    BY <1>5, DividesRemainder DEF Common
  <2>2. PICK x \in Int : n = j * x
    BY <2>1 DEF Divides
  <2>3. PICK y \in Int : d = j * y
    BY <2>1 DEF Divides
  <2>4. y # 0
    <3>1. j * 0 = 0
      OBVIOUS
    <3> QED
      BY <2>3, <3>1
  <2>5. abs(y) \in Nat \ {0} /\ x * Sign(y) \in Int
    BY <2>4, SignFacts DEF Sign
  <2>6. (x * Sign(y)) * d = n * abs(y)
    <3>1. CASE y > 0
      <4>1. abs(y) = y /\ x * Sign(y) = x
        BY <3>1 DEF abs, Sign
      <4>2. x * (j * y) = (j * x) * y
        OBVIOUS
      <4> QED
        BY <4>1, <4>2, <2>2, <2>3
    <3>2. CASE y < 0
      <4>1. abs(y) = -y /\ x * Sign(y) = -x
        BY <3>2 DEF abs, Sign
      <4>2. (-x) * (j * y) = (j * x) * (-y)
        OBVIOUS
      <4> QED
        BY <4>1, <4>2, <2>2, <2>3
    <3> QED
      BY <2>4, <3>1, <3>2
  <2>7. b <= abs(y)
    BY <2>5, <2>6 DEF Lowest, Denominators
  <2>8. q * b = j * abs(y)
    <3>1. CASE y > 0
      <4>1. j * y > 0
        BY <3>1
      <4> QED
        BY <3>1, <4>1, <2>3 DEF abs
    <3>2. CASE y < 0
      <4>1. j * y < 0 /\ -(j * y) = j * (-y)
        BY <3>2
      <4> QED
        BY <3>2, <4>1, <2>3 DEF abs
    <3> QED
      BY <2>4, <3>1, <3>2
  <2>9. CASE j > q
    <3>1. j * abs(y) >= j * b
      BY <2>5, <2>7, <1>1
    <3>2. j * b > q * b
      BY <2>9, <1>1
    <3>3. j * abs(y) \in Int /\ j * b \in Int /\ q * b \in Int
      BY <2>5, <1>1
    <3> QED
      BY <2>8, <3>1, <3>2, <3>3
  <2> QED
    BY <2>9
<1> QED
  BY <1>3, <1>4, <1>5

LEMMA ReducedIsLowest ==
    ASSUME NEW n \in Int, NEW d \in Int \ {0}, NEW a, NEW b, Lowest(n, d, a, b)
    PROVE  Reduced(n, d) = [num |-> a, den |-> b]
<1>1. a \in Int /\ b \in Nat \ {0}
  BY DEF Lowest
<1>2. PICK q \in Nat \ {0} : abs(d) = q * b /\ n * Sign(d) = q * a
  BY LowestDivides
<1>3. /\ q \in 1 .. abs(d) /\ Common(n, d, q)
      /\ \A j \in Nat \ {0} : Common(n, d, j) => j <= q
  BY <1>2, GreatestCommon
<1>4. abs(d) \in Nat \ {0} /\ n * Sign(d) \in Int
  BY SignFacts
<1> DEFINE Greatest(k) ==
              /\ n % k = 0 /\ d % k = 0
              /\ \A j \in k + 1 .. abs(d) : n % j # 0 \/ d % j # 0
           g == CHOOSE k \in 1 .. abs(d) : Greatest(k)
<1>5. Greatest(q)
  <2>1. n % q = 0 /\ d % q = 0
    BY <1>3 DEF Common
  <2>2. ASSUME NEW j \in q + 1 .. abs(d) PROVE n % j # 0 \/ d % j # 0
    <3>1. j \in Nat \ {0} /\ j > q
      BY <1>4
    <3> QED
      BY <1>3, <3>1 DEF Common
  <2> QED
    BY <2>1, <2>2
<1>6. ASSUME NEW k \in 1 .. abs(d), Greatest(k) PROVE k = q
  <2>1. k \in Nat \ {0} /\ Common(n, d, k)
    BY <1>6, <1>4 DEF Common
  <2>2. k <= q
    BY <1>3, <2>1
  <2>3. CASE k < q
    <3>1. q \in k + 1 .. abs(d)
      BY <2>1, <2>3, <1>3, <1>4
    <3> QED
      BY <3>1, <1>6, <1>3 DEF Common
  <2> QED
    BY <2>1, <2>2, <2>3
<1>7. g = q
  <2> HIDE DEF Greatest
  <2> QED
    BY <1>3, <1>5, <1>6
<1>8. Reduced(n, d) = [num |-> (n * Sign(d)) \div g, den |-> abs(d) \div g]
  BY DEF Reduced
<1> HIDE DEF g
<1>9. (q * a) \div q = a /\ (q * b) \div q = b
  <2>1. /\ q * a \in Int /\ q * a = (q * a) + 0 /\ q * b \in Int /\ q * b = (q * b) + 0
        /\ 0 \in 0 .. q - 1 /\ b \in Int
    BY <1>1
  <2> QED
    BY <1>1, <2>1, RemainderIs
<1> QED
  BY <1>2, <1>7, <1>8, <1>9

\* Two ways to write the same number have the same lowest terms
LEMMA ReducedSame ==
    ASSUME NEW n \in Int, NEW d \in Int \ {0}, NEW m \in Int, NEW e \in Int \ {0}, n * e = m * d
    PROVE  Reduced(n, d) = Reduced(m, e)
<1>1. PICK a, b : Lowest(n, d, a, b)
  BY HasLowest
<1>2. Lowest(m, e, a, b)
  BY <1>1, LowestIsSame
<1> QED
  BY <1>1, <1>2, ReducedIsLowest

LEMMA ReducedFacts ==
    ASSUME NEW n \in Int, NEW d \in Int \ {0}
    PROVE  /\ Reduced(n, d).num \in Int /\ Reduced(n, d).den \in Nat \ {0}
           /\ Reduced(n, d).num * d = n * Reduced(n, d).den
<1>1. PICK a, b : Lowest(n, d, a, b)
  BY HasLowest
<1>2. Reduced(n, d) = [num |-> a, den |-> b]
  BY <1>1, ReducedIsLowest
<1> QED
  BY <1>1, <1>2 DEF Lowest

\* The fraction stands for the number computed; 0/0 stands for none
FracInv == m_num \in Int /\ m_den \in Int /\ exact = Reduced(m_num, m_den)

NotANumber == [num |-> 0, den |-> 0]

LEMMA FracInvExact ==
    ASSUME FracInv
    PROVE  FracIsExact
<1>1. CASE m_den = 0
  BY <1>1 DEF FracInv, Reduced, FracIsExact, is_nan
<1>2. CASE m_den # 0
  <2>1. m_num \in Int /\ m_den \in Int \ {0} /\ exact = Reduced(m_num, m_den)
    BY <1>2 DEF FracInv
  <2>2. exact.den # 0
    BY <2>1, ReducedFacts
  <2> QED
    BY <1>2, <2>1, <2>2 DEF FracIsExact, is_nan
<1> QED
  BY <1>1, <1>2

\* The facts about the number that the operations use
LEMMA ExactFacts ==
    ASSUME FracInv, m_den # 0
    PROVE  /\ m_num \in Int /\ m_den \in Int \ {0}
           /\ exact.num \in Int /\ exact.den \in Int \ {0}
           /\ exact.num * m_den = m_num * exact.den
<1>1. m_num \in Int /\ m_den \in Int \ {0} /\ exact = Reduced(m_num, m_den)
  BY DEF FracInv
<1>2. exact.num \in Int /\ exact.den \in Nat \ {0} /\ exact.num * m_den = m_num * exact.den
  BY <1>1, ReducedFacts
<1> QED
  BY <1>1, <1>2

LEMMA AddSameKeeps ==
    ASSUME FracInv, NEW n \in Small, AddSame(n)
    PROVE  FracInv'
<1>1. n \in Int /\ m_num \in Int /\ m_den \in Int
  BY ValuesAssumption DEF FracInv
<1>2. /\ m_num' = m_num + n /\ m_den' = m_den
      /\ exact' = Reduced(exact.num * m_den + n * exact.den, exact.den * m_den)
  BY DEF AddSame, SetFrac
<1>3. CASE m_den = 0
  <2>1. exact = NotANumber
    BY <1>3 DEF FracInv, Reduced, NotANumber
  <2>2. exact.den * m_den = 0
    BY <1>3, <2>1 DEF NotANumber
  <2>3. exact' = NotANumber /\ Reduced(m_num', m_den') = NotANumber
    BY <1>2, <1>3, <2>2 DEF Reduced, NotANumber
  <2> QED
    BY <1>1, <1>2, <2>3 DEF FracInv
<1>4. CASE m_den # 0
  <2> DEFINE X == exact.num
             Y == exact.den
  <2>1. X \in Int /\ Y \in Int \ {0} /\ X * m_den = m_num * Y /\ m_den \in Int \ {0}
    BY <1>4, ExactFacts
  <2>2. exact' = Reduced(X * m_den + n * Y, Y * m_den)
    BY <1>2
  <2> HIDE DEF X, Y
  <2>3. Y * m_den \in Int \ {0}
    BY <2>1, NoZeroProduct
  <2>4. X * m_den + n * Y \in Int /\ m_num + n \in Int
    BY <1>1, <2>1
  <2>5. (m_num + n) * (Y * m_den) = (X * m_den + n * Y) * m_den
    <3>1. (m_num + n) * (Y * m_den) = (m_num * Y + n * Y) * m_den
      BY <1>1, <2>1
    <3> QED
      BY <3>1, <2>1
  <2>6. Reduced(m_num + n, m_den) = Reduced(X * m_den + n * Y, Y * m_den)
    BY <2>1, <2>3, <2>4, <2>5, ReducedSame
  <2> QED
    BY <1>1, <1>2, <2>2, <2>4, <2>6 DEF FracInv
<1> QED
  BY <1>3, <1>4

LEMMA TimesKeeps ==
    ASSUME ~MultipliesNaN, FracInv, NEW n \in Small, Times(n)
    PROVE  FracInv'
<1> DEFINE M == m_num * n
           X == exact.num
           Y == exact.den
<1>1. m_den # 0
  BY DEF Times
<1>2. n \in Int /\ m_num \in Int /\ m_den \in Int \ {0} /\ X \in Int /\ Y \in Int \ {0}
      /\ X * m_den = m_num * Y
  BY <1>1, ExactFacts, ValuesAssumption
<1>3. M \in Int /\ X * n \in Int
  BY <1>2
<1>4. /\ m_num' = Normalised(M, m_den)[1] /\ m_den' = Normalised(M, m_den)[2]
      /\ exact' = Reduced(X * n, Y)
  BY <1>1 DEF Times, Products, SetFrac
<1>5. M * Y = (X * n) * m_den
  <2>1. (m_num * n) * Y = (m_num * Y) * n /\ (X * n) * m_den = (X * m_den) * n
    BY <1>2
  <2> QED
    BY <1>2, <2>1
<1>6. abs(m_den) \in Nat \ {0} /\ Sign(m_den) \in Int /\ m_den = abs(m_den) * Sign(m_den)
  BY <1>2, SignFacts DEF Sign
<1> HIDE DEF M, X, Y
<1>7. CASE M % abs(m_den) = 0
  <2> DEFINE k == M \div abs(m_den)
  <2>1. M = abs(m_den) * k /\ k \in Int
    <3>1. M = (abs(m_den) * (M \div abs(m_den))) + (M % abs(m_den)) /\ M \div abs(m_den) \in Int
      BY <1>3, <1>6, DivMod
    <3>2. abs(m_den) * (M \div abs(m_den)) \in Int
      BY <3>1, <1>6
    <3> QED
      BY <1>7, <3>1, <3>2
  <2>2. m_num' = k * Sign(m_den) /\ m_den' = 1
    BY <1>4, <1>7 DEF Normalised
  <2> HIDE DEF k
  <2>3. k * Sign(m_den) \in Int /\ 1 \in Int \ {0}
    BY <1>6, <2>1
  <2>4. (k * Sign(m_den)) * Y = X * n
    <3> DEFINE w == abs(m_den)
               z == Sign(m_den)
    <3>1. w \in Int \ {0} /\ z \in Int /\ m_den * z = w /\ M = w * k
      BY <1>2, <1>6, <2>1, SignFacts
    <3> HIDE DEF w, z
    <3>2. w * ((k * z) * Y) = ((w * k) * Y) * z
      BY <1>2, <2>1, <3>1
    <3>3. ((w * k) * Y) * z = ((X * n) * m_den) * z
      BY <1>5, <3>1
    <3>4. ((X * n) * m_den) * z = (m_den * z) * (X * n)
      BY <1>2, <1>3, <3>1
    <3>5. w * ((k * z) * Y) = w * (X * n)
      BY <3>1, <3>2, <3>3, <3>4
    <3>6. (k * z) * Y \in Int
      BY <1>2, <2>1, <3>1
    <3>7. (k * z) * Y = X * n
      BY <1>3, <3>1, <3>5, <3>6, Cancel
    <3> QED
      BY <3>7 DEF z
  <2>5. (k * Sign(m_den)) * Y = (X * n) * 1
    BY <1>3, <2>4
  <2>6. Reduced(k * Sign(m_den), 1) = Reduced(X * n, Y)
    BY <1>2, <1>3, <2>3, <2>5, ReducedSame
  <2> QED
    BY <1>4, <2>2, <2>3, <2>6 DEF FracInv
<1>8. CASE M % abs(m_den) # 0
  <2>1. m_num' = M /\ m_den' = m_den
    BY <1>4, <1>8 DEF Normalised
  <2>2. Reduced(M, m_den) = Reduced(X * n, Y)
    BY <1>2, <1>3, <1>5, ReducedSame
  <2> QED
    BY <1>2, <1>3, <1>4, <2>1, <2>2 DEF FracInv
<1> QED
  BY <1>7, <1>8

LEMMA ReciprocalKeeps ==
    ASSUME FracInv, Reciprocal
    PROVE  FracInv'
<1> DEFINE X == exact.num
           Y == exact.den
<1>1. m_num \in Int /\ m_den \in Int
  BY DEF FracInv
<1>2. /\ m_num' = m_den /\ m_den' = m_num
      /\ exact' = IF Y = 0 /\ m_num # 0 THEN Reduced(0, 1) ELSE Reduced(Y, X)
  BY DEF Reciprocal, SetFrac
<1>3. CASE m_den = 0 /\ m_num = 0
  <2>1. X = 0 /\ Y = 0
    BY <1>3 DEF FracInv, Reduced
  <2>2. exact' = Reduced(0, 0)
    BY <1>2, <1>3, <2>1
  <2>3. m_num' = 0 /\ m_den' = 0
    BY <1>2, <1>3
  <2> QED
    BY <1>1, <1>2, <2>2, <2>3 DEF FracInv
<1>4. CASE m_den = 0 /\ m_num # 0
  <2>1. Y = 0
    BY <1>4 DEF FracInv, Reduced
  <2>2. 0 \in Int /\ 1 \in Int \ {0} /\ m_num \in Int \ {0} /\ 0 * m_num = 0 * 1
    BY <1>1, <1>4
  <2>3. Reduced(0, 1) = Reduced(0, m_num)
    BY <2>2, ReducedSame
  <2> QED
    BY <1>1, <1>2, <1>4, <2>1, <2>3 DEF FracInv
<1>5. CASE m_den # 0
  <2>1. X \in Int /\ Y \in Int \ {0} /\ X * m_den = m_num * Y /\ m_den \in Int \ {0}
    BY <1>5, ExactFacts
  <2>2. exact' = Reduced(Y, X)
    BY <1>2, <2>1
  <2> HIDE DEF X, Y
  <2>3. CASE m_num = 0
    <3>1. X * m_den = 0
      BY <2>1, <2>3
    <3>2. X = 0
      BY <2>1, <3>1, NoZeroProduct
    <3>3. Reduced(Y, X) = NotANumber /\ Reduced(m_den, m_num) = NotANumber
      BY <2>3, <3>2 DEF Reduced, NotANumber
    <3> QED
      BY <1>1, <1>2, <2>2, <3>3 DEF FracInv
  <2>4. CASE m_num # 0
    <3>1. m_num * Y # 0
      BY <1>1, <2>1, <2>4, NoZeroProduct
    <3>2. X # 0
      BY <2>1, <3>1
    <3>3. Y * m_num = m_num * Y /\ m_den * X = X * m_den
      BY <1>1, <2>1
    <3>4. m_den * X = Y * m_num
      BY <2>1, <3>3
    <3>5. Reduced(m_den, m_num) = Reduced(Y, X)
      BY <1>1, <2>1, <2>4, <3>2, <3>4, ReducedSame
    <3> QED
      BY <1>1, <1>2, <2>2, <3>5 DEF FracInv
  <2> QED
    BY <2>3, <2>4
<1> QED
  BY <1>3, <1>4, <1>5

-----------------------------------------------------------------------------
(* Values: maybe *)

MaybeInv ==
    /\ m_val \in [Held -> Given \union {NullValue, NoMaybe}]
    /\ DOMAIN stored = Held
    /\ MaybeRemembers

LEMMA PutKeeps ==
    ASSUME MaybeInv, NEW o \in Held, NEW v \in Given \union {NullValue, NoMaybe}, NEW what,
           m_val' = [m_val EXCEPT ![o] = v], stored' = [stored EXCEPT ![o] = what],
           v # NoMaybe => what = IF v = NullValue THEN Nothing ELSE Just(v)
    PROVE  MaybeInv'
<1>1. m_val' \in [Held -> Given \union {NullValue, NoMaybe}] /\ DOMAIN stored' = Held
  BY DEF MaybeInv
<1>2. ASSUME NEW p \in Held, m_val'[p] # NoMaybe PROVE as_optional(p)' = stored'[p]
  <2>1. as_optional(p)' = IF m_val'[p] = NullValue THEN Nothing ELSE Just(m_val'[p])
    BY DEF as_optional, has_value, IsNull
  <2>2. CASE p = o
    BY <1>2, <2>1, <2>2 DEF MaybeInv
  <2>3. CASE p # o
    <3>1. m_val'[p] = m_val[p] /\ stored'[p] = stored[p]
      BY <2>3 DEF MaybeInv
    <3> QED
      BY <1>2, <2>1, <3>1 DEF MaybeInv, MaybeRemembers, as_optional, has_value, IsNull
  <2> QED
    BY <2>2, <2>3
<1> QED
  BY <1>1, <1>2 DEF MaybeInv, MaybeRemembers

LEMMA MaybeStep ==
    ASSUME ~GivesNull, MaybeInv, NEW o \in Held,
           \/ Make(o)
           \/ \E v \in Given : WriteThrough(o, v)
           \/ \E from \in Held : CopyMaybe(o, from)
    PROVE  MaybeInv'
<1>1. NullValue \notin Given
  BY ValuesAssumption
<1>2. CASE Put(o, NullValue, Nothing)
  BY <1>2, PutKeeps DEF Put
<1>3. ASSUME NEW v \in Given, Put(o, v, Just(v)) PROVE MaybeInv'
  BY <1>1, <1>3, PutKeeps DEF Put
<1>4. ASSUME NEW from \in Held, CopyMaybe(o, from) PROVE MaybeInv'
  <2>1. m_val[from] # NoMaybe /\ m_val[from] \in Given \union {NullValue, NoMaybe}
    BY <1>4 DEF CopyMaybe, MaybeInv
  <2>2. [m_val EXCEPT ![from] = MovedFrom(@)] = m_val
    BY DEF MovedFrom, MaybeInv
  <2>3. m_val' = [m_val EXCEPT ![o] = m_val[from]] /\ stored' = [stored EXCEPT ![o] = stored[from]]
    BY <1>4, <2>2 DEF CopyMaybe
  <2>4. stored[from] = IF m_val[from] = NullValue THEN Nothing ELSE Just(m_val[from])
    BY <2>1 DEF MaybeInv, MaybeRemembers, as_optional, has_value, IsNull
  <2> QED
    BY <2>1, <2>3, <2>4, PutKeeps
<1> QED
  BY <1>2, <1>3, <1>4 DEF Make, WriteThrough

ValuesInv == MaybeInv /\ FracInv

\* For any objects, values and scalars, if the program neither stores the null value
\* itself nor multiplies what is no number: a maybe gives back what was put in,
\* wherever it was copied or moved, and a fraction stands for the number computed,
\* however its operations reduce it or not.
THEOREM ValuesKept == ~GivesNull /\ ~MultipliesNaN => (ValuesSpec => []ValuesAsMeant)
<1> SUFFICES ASSUME ~GivesNull, ~MultipliesNaN PROVE ValuesSpec => []ValuesAsMeant
  OBVIOUS
<1>1. ValuesInit => ValuesInv
  <2> SUFFICES ASSUME ValuesInit PROVE ValuesInv
    OBVIOUS
  <2>1. MaybeInv
    BY DEF ValuesInit, MaybeInv, MaybeRemembers
  <2>2. m_num = 0 /\ m_den = 1 /\ exact = [num |-> 0, den |-> 1]
    BY DEF ValuesInit
  <2>3. Lowest(0, 1, 0, 1)
    BY DEF Lowest, Denominators
  <2>4. Reduced(0, 1) = [num |-> 0, den |-> 1]
    BY <2>3, ReducedIsLowest
  <2> QED
    BY <2>1, <2>2, <2>4 DEF ValuesInv, FracInv
<1>2. ValuesInv /\ [ValuesNext]_valuesVars => ValuesInv'
  <2> SUFFICES ASSUME ValuesInv, [ValuesNext]_valuesVars PROVE ValuesInv'
    OBVIOUS
  <2>1. ASSUME UNCHANGED maybeVars PROVE MaybeInv'
    BY <2>1 DEF maybeVars, ValuesInv, MaybeInv, MaybeRemembers, as_optional, has_value
  <2>2. ASSUME UNCHANGED fracVars PROVE FracInv'
    BY <2>2 DEF fracVars, ValuesInv, FracInv
  <2>3. ASSUME NEW o \in Held,
               Make(o) \/ (\E v \in Given : WriteThrough(o, v)) \/ (\E from \in Held : CopyMaybe(o, from))
        PROVE  ValuesInv'
    <3>1. UNCHANGED fracVars
      BY <2>3 DEF Make, WriteThrough, CopyMaybe, Put
    <3> QED
      BY <2>2, <2>3, <3>1, MaybeStep DEF ValuesInv
  <2>4. ASSUME NEW num \in Small, NEW den \in Small, MakeFrac(num, den) PROVE ValuesInv'
    <3>1. UNCHANGED maybeVars
      BY <2>4 DEF MakeFrac, SetFrac
    <3>2. FracInv'
      BY <2>4, ValuesAssumption DEF MakeFrac, SetFrac, FracInv
    <3> QED
      BY <2>1, <3>1, <3>2 DEF ValuesInv
  <2>5. ASSUME NEW n \in Small, AddSame(n) PROVE ValuesInv'
    <3>1. UNCHANGED maybeVars
      BY <2>5 DEF AddSame, SetFrac
    <3> QED
      BY <2>1, <2>5, <3>1, AddSameKeeps DEF ValuesInv
  <2>6. ASSUME NEW n \in Small, Times(n) PROVE ValuesInv'
    <3>1. UNCHANGED maybeVars
      BY <2>6 DEF Times, SetFrac
    <3> QED
      BY <2>1, <2>6, <3>1, TimesKeeps DEF ValuesInv
  <2>7. CASE Reciprocal
    <3>1. UNCHANGED maybeVars
      BY <2>7 DEF Reciprocal, SetFrac
    <3> QED
      BY <2>1, <2>7, <3>1, ReciprocalKeeps DEF ValuesInv
  <2>8. CASE UNCHANGED valuesVars
    BY <2>1, <2>2, <2>8 DEF valuesVars, maybeVars, fracVars, ValuesInv
  <2> QED
    BY <2>3, <2>4, <2>5, <2>6, <2>7, <2>8 DEF ValuesNext
<1>3. ValuesInv => ValuesAsMeant
  BY FracInvExact DEF ValuesInv, MaybeInv, ValuesAsMeant
<1> QED
  BY <1>1, <1>2, <1>3, PTL DEF ValuesSpec

-----------------------------------------------------------------------------
(* Text *)

\* The array ends in a null character, and the view in one of its null characters
ViewInv ==
    /\ array \in Seq(Char \union {Nul}) /\ array # <<>> /\ array[Len(array)] = Nul
    /\ made # "none" =>
          /\ start \in Nat /\ len \in Nat /\ start + len < Len(array)
          /\ CharAt(start + len) = Nul
          /\ made = "pointer" => \A i \in 0 .. len - 1 : CharAt(start + i) # Nul
    /\ made = "none" => start = 0

LEMMA LiteralFacts ==
    ASSUME NEW a \in Literal
    PROVE  a \in Seq(Char \union {Nul}) /\ a # <<>> /\ a[Len(a)] = Nul
<1>1. PICK s \in BoundedSeq(Char \union {Nul}, MaxText) : a = Append(s, Nul)
  BY DEF Literal
<1>2. PICK n \in 0 .. MaxText : s \in [1 .. n -> Char \union {Nul}]
  BY <1>1 DEF BoundedSeq, SeqOf
<1>3. s \in Seq(Char \union {Nul}) /\ Nul \in Char \union {Nul}
  BY <1>2, TextAssumption
<1> QED
  BY <1>1, <1>3, AppendProperties

\* strlen stops at the first null character
LEMMA StrlenStops ==
    ASSUME ViewInv, NEW from \in Nat, NEW l \in Nat, from + l < Len(array), CharAt(from + l) = Nul
    PROVE  /\ strlen(from) \in 0 .. l
           /\ CharAt(from + strlen(from)) = Nul
           /\ \A i \in 0 .. strlen(from) - 1 : CharAt(from + i) # Nul
<1> DEFINE S == {n \in 0 .. l : CharAt(from + n) = Nul}
           First(n) == CharAt(from + n) = Nul /\ \A i \in 0 .. n - 1 : CharAt(from + i) # Nul
<1>1. S \in SUBSET Nat /\ l \in S
  OBVIOUS
<1>2. PICK m \in S : \A k \in S : m <= k
  BY <1>1, LeastNumber
<1>3. m \in Nat /\ m <= l /\ m \in 0 .. l /\ m \in 0 .. Len(array)
  <2>1. Len(array) \in Nat
    BY DEF ViewInv
  <2> QED
    BY <2>1
<1>4. First(m)
  <2>1. ASSUME NEW i \in 0 .. m - 1 PROVE CharAt(from + i) # Nul
    <3>1. i \in 0 .. l /\ i < m
      BY <1>3
    <3> QED
      BY <1>2, <3>1
  <2> QED
    BY <1>2, <2>1
<1>5. ASSUME NEW n \in 0 .. Len(array), First(n) PROVE n = m
  <2>1. n \in Nat
    OBVIOUS
  <2>2. CASE n < m
    <3>1. n \in 0 .. m - 1
      BY <1>3, <2>1, <2>2
    <3> QED
      BY <1>4, <1>5, <3>1
  <2>3. CASE m < n
    <3>1. m \in 0 .. n - 1
      BY <1>3, <2>1, <2>3
    <3> QED
      BY <1>4, <1>5, <3>1
  <2> QED
    BY <1>3, <2>1, <2>2, <2>3
<1>6. strlen(from) = CHOOSE n \in 0 .. Len(array) : First(n)
  BY DEF strlen
<1>7. strlen(from) = m
  <2> HIDE DEF First
  <2> QED
    BY <1>3, <1>4, <1>5, <1>6
<1> QED
  BY <1>3, <1>4, <1>7

LEMMA ViewSeen ==
    ASSUME ViewInv
    PROVE  CSeesTheView
<1> SUFFICES ASSUME made # "none" PROVE
        /\ start + len < Len(array) /\ CharAt(start + len) = Nul
        /\ made = "pointer" => strlen(start) = len
        /\ strlen(start) <= len
  BY DEF CSeesTheView
<1>1. start \in Nat /\ len \in Nat /\ start + len < Len(array) /\ CharAt(start + len) = Nul
  BY DEF ViewInv
<1>2. strlen(start) \in 0 .. len /\ CharAt(start + strlen(start)) = Nul
  BY <1>1, StrlenStops
<1>3. ASSUME made = "pointer" PROVE strlen(start) = len
  <2>1. \A i \in 0 .. len - 1 : CharAt(start + i) # Nul
    BY <1>3 DEF ViewInv
  <2>2. strlen(start) \notin 0 .. len - 1
    BY <1>2, <2>1
  <2> QED
    BY <1>1, <1>2, <2>2
<1> QED
  BY <1>1, <1>2, <1>3

LEMMA ViewStep ==
    ASSUME ViewInv, [TextNext]_textVars
    PROVE  ViewInv'
<1>1. Len(array) \in Nat /\ Len(array) >= 1 /\ CharAt(Len(array) - 1) = Nul
  BY DEF ViewInv, CharAt
<1>2. CASE FromPointer
  <2>1. made = "none" /\ made' = "pointer" /\ len' = strlen(0) /\ array' = array /\ start' = start /\ start = 0
    BY <1>2 DEF FromPointer, Construct, ViewInv
  <2>2. /\ strlen(0) \in 0 .. Len(array) - 1
        /\ CharAt(0 + strlen(0)) = Nul
        /\ \A i \in 0 .. strlen(0) - 1 : CharAt(0 + i) # Nul
    <3>1. 0 + (Len(array) - 1) = Len(array) - 1 /\ Len(array) - 1 \in Nat /\ 0 + (Len(array) - 1) < Len(array)
      BY <1>1
    <3> QED
      BY <1>1, <3>1, StrlenStops
  <2>3. len' \in Nat /\ start' + len' < Len(array')
    BY <1>1, <2>1, <2>2
  <2>4. CharAt(start + len)' = Nul /\ \A i \in 0 .. len' - 1 : CharAt(start + i)' # Nul
    BY <2>1, <2>2 DEF CharAt
  <2> QED
    BY <2>1, <2>3, <2>4 DEF ViewInv
<1>3. CASE FromArray
  <2>1. made = "none" /\ made' = "array" /\ len' = Len(array) - 1 /\ array' = array /\ start' = start /\ start = 0
    BY <1>3 DEF FromArray, Construct, ViewInv
  <2>2. CharAt(start + len)' = Nul
    BY <1>1, <2>1 DEF CharAt
  <2> QED
    BY <1>1, <2>1, <2>2 DEF ViewInv
<1>4. ASSUME NEW n \in 0 .. Len(array) - 1, FromLength(n) PROVE ViewInv'
  <2>1. made = "none" /\ made' = "length" /\ len' = n /\ array' = array /\ start' = start /\ start = 0
    BY <1>4 DEF FromLength, Construct, ViewInv
  <2>2. CharAt(n) = Nul
    BY <1>4 DEF FromLength, Asserted
  <2>3. CharAt(start + len)' = Nul
    BY <1>1, <2>1, <2>2 DEF CharAt
  <2> QED
    BY <1>1, <2>1, <2>3 DEF ViewInv
<1>5. ASSUME NEW n \in 0 .. len, RemovePrefix(n) PROVE ViewInv'
  <2>1. made # "none" /\ made' = made /\ start' = start + n /\ len' = len - n /\ array' = array
    BY <1>5 DEF RemovePrefix, Remains
  <2>2. start \in Nat /\ len \in Nat /\ start + len < Len(array) /\ CharAt(start + len) = Nul
    BY <2>1 DEF ViewInv
  <2>3. start' \in Nat /\ len' \in Nat /\ start' + len' = start + len
    BY <2>1, <2>2
  <2>4. CharAt(start + len)' = Nul
    BY <2>1, <2>2, <2>3 DEF CharAt
  <2>5. ASSUME made = "pointer", NEW i \in 0 .. len' - 1 PROVE CharAt(start + i)' # Nul
    <3>1. n + i \in 0 .. len - 1 /\ start' + i = start + (n + i)
      BY <2>1, <2>2
    <3>2. CharAt(start + (n + i)) # Nul
      BY <2>1, <2>5, <3>1 DEF ViewInv
    <3> QED
      BY <2>1, <3>1, <3>2 DEF CharAt
  <2> QED
    BY <2>1, <2>2, <2>3, <2>4, <2>5 DEF ViewInv
<1>6. CASE UNCHANGED <<made, array, start, len>>
  BY <1>6 DEF ViewInv, CharAt
<1> QED
  BY <1>2, <1>3, <1>4, <1>5, <1>6 DEF TextNext, BuildCode, textVars

\* What follows the introducer: the options with a semicolon between any two
Separated(options) == [i \in 1 .. 2 * Len(options) - 1 |-> Appended(options)[i]]

LEMMA CodeParts ==
    ASSUME NEW options \in Seq(option), options # <<>>, NEW c, c = dynamic_escape_code(options)
    PROVE  /\ Len(c) = 2 * Len(options) + 2
           /\ c[1] = Escape /\ c[2] = Bracket /\ c[Len(c)] = EndOfCode
           /\ \A i \in 1 .. 2 * Len(options) - 1 : c[i + 2] = Appended(options)[i]
<1> DEFINE S == option \union {Semicolon, Escape, Bracket, EndOfCode}
           n == Len(options)
           A == Appended(options)
           B == <<Escape, Bracket>>
           W == B \o A
           F == SubSeq(W, 1, Len(W) - 1)
<1>1. n \in Nat /\ n >= 1
  OBVIOUS
<1>2. A \in Seq(S) /\ Len(A) = 2 * n
  <2>1. ASSUME NEW i \in 1 .. 2 * n PROVE A[i] \in S
    <3>1. CASE i % 2 = 1
      <4>1. (i + 1) \div 2 \in 1 .. n
        BY <1>1, <3>1
      <4>2. options[(i + 1) \div 2] \in option
        BY <4>1
      <4> QED
        BY <3>1, <4>2 DEF Appended
    <3>2. CASE i % 2 # 1
      BY <3>2 DEF Appended
    <3> QED
      BY <3>1, <3>2
  <2>2. A = [i \in 1 .. 2 * n |-> A[i]] /\ 2 * n \in Nat
    BY <1>1 DEF Appended
  <2> HIDE DEF A, n, S
  <2> QED
    BY <2>1, <2>2
<1>3. B \in Seq(S) /\ Len(B) = 2 /\ B[1] = Escape /\ B[2] = Bracket
  OBVIOUS
<1> HIDE DEF A, B, S, n
<1>4. /\ W \in Seq(S) /\ Len(W) = 2 * n + 2
      /\ W[1] = Escape /\ W[2] = Bracket
      /\ \A i \in 1 .. 2 * n : W[i + 2] = A[i]
  <2>1. /\ W \in Seq(S) /\ Len(W) = 2 + 2 * n
        /\ \A i \in 1 .. 2 + 2 * n : W[i] = IF i <= 2 THEN B[i] ELSE A[i - 2]
    <3>1. /\ W \in Seq(S) /\ Len(W) = Len(B) + Len(A)
          /\ \A i \in 1 .. Len(B) + Len(A) : W[i] = IF i <= Len(B) THEN B[i] ELSE A[i - Len(B)]
      BY <1>2, <1>3, ConcatProperties
    <3> HIDE DEF W
    <3> QED
      BY <1>2, <1>3, <3>1
  <2>2. W[1] = Escape /\ W[2] = Bracket
    <3>1. 1 \in 1 .. 2 + 2 * n /\ 2 \in 1 .. 2 + 2 * n
      BY <1>1
    <3>2. W[1] = B[1] /\ W[2] = B[2]
      BY <2>1, <3>1
    <3> QED
      BY <1>3, <3>2
  <2>3. ASSUME NEW i \in 1 .. 2 * n PROVE W[i + 2] = A[i]
    <3>1. i + 2 \in 1 .. 2 + 2 * n /\ ~(i + 2 <= 2) /\ (i + 2) - 2 = i
      BY <1>1
    <3> QED
      BY <2>1, <3>1
  <2> QED
    BY <1>1, <2>1, <2>2, <2>3
<1> HIDE DEF W
<1>5. F \in Seq(S) /\ Len(F) = 2 * n + 1 /\ \A i \in 1 .. 2 * n + 1 : F[i] = W[i]
  <2>1. 1 \in 1 .. Len(W) + 1 /\ Len(W) - 1 = 2 * n + 1 /\ Len(W) - 1 \in 0 .. Len(W)
    BY <1>1, <1>4
  <2> QED
    BY <1>1, <1>4, <2>1, SubSeqProperties
<1>6. c = Append(F, EndOfCode)
  BY DEF dynamic_escape_code, WithoutLast, Front, W, A, B
<1> HIDE DEF F
<1>7. EndOfCode \in S
  BY DEF S
<1>8. /\ Len(c) = 2 * n + 2 /\ c[2 * n + 2] = EndOfCode
      /\ \A i \in 1 .. 2 * n + 1 : c[i] = F[i]
  <2>1. /\ Len(c) = Len(F) + 1 /\ c[Len(F) + 1] = EndOfCode
        /\ \A i \in 1 .. Len(F) : c[i] = F[i]
    BY <1>5, <1>6, <1>7, AppendProperties
  <2> QED
    BY <1>1, <1>5, <2>1
<1>9. c[1] = Escape /\ c[2] = Bracket
  BY <1>1, <1>4, <1>5, <1>8
<1>10. ASSUME NEW i \in 1 .. 2 * n - 1 PROVE c[i + 2] = A[i]
  <2>1. i + 2 \in 1 .. 2 * n + 1 /\ i \in 1 .. 2 * n
    BY <1>1
  <2> QED
    BY <1>4, <1>5, <1>8, <2>1
<1> QED
  BY <1>8, <1>9, <1>10 DEF n, A

LEMMA FirstTwo ==
    ASSUME NEW c
    PROVE  SubSeq(c, 1, 2) = <<c[1], c[2]>>
<1> DEFINE S == {c[1], c[2]}
           s == SubSeq(c, 1, 2)
           t == <<c[1], c[2]>>
<1>1. \A i \in 1 .. 2 : c[i] \in S
  OBVIOUS
<1>2. s \in Seq(S) /\ Len(s) = 2 /\ \A i \in 1 .. 2 : s[i] = c[i]
  <2>1. /\ SubSeq(c, 1, 2) \in Seq(S)
        /\ Len(SubSeq(c, 1, 2)) = IF 1 <= 2 THEN 2 - 1 + 1 ELSE 0
        /\ \A i \in 1 .. 2 - 1 + 1 : SubSeq(c, 1, 2)[i] = c[1 + i - 1]
    <3> HIDE DEF S
    <3> QED
      BY <1>1, SubSeqProperties
  <2> HIDE DEF s, S
  <2>2. ASSUME NEW i \in 1 .. 2 PROVE s[i] = c[i]
    <3>1. i \in 1 .. 2 - 1 + 1 /\ 1 + i - 1 = i
      OBVIOUS
    <3> QED
      BY <2>1, <3>1 DEF s
  <2> QED
    BY <2>1, <2>2 DEF s
<1>3. t \in Seq(S) /\ Len(t) = 2 /\ t[1] = c[1] /\ t[2] = c[2]
  OBVIOUS
<1> HIDE DEF s, t, S
<1>4. ASSUME NEW i \in 1 .. 2 PROVE s[i] = t[i]
  BY <1>2, <1>3
<1>5. s = t
  BY <1>2, <1>3, <1>4, SeqEqual
<1> QED
  BY <1>5 DEF s, t

LEMMA CodeSound ==
    ASSUME CodeIsReadable, NEW options \in BoundedSeq(option, 3), BuildCode(options)
    PROVE  CodeIsReadable'
<1>1. options \in Seq(option)
  <2>1. PICK n \in 0 .. 3 : options \in [1 .. n -> option]
    BY DEF BoundedSeq, SeqOf
  <2> QED
    BY <2>1
<1>2. code' = dynamic_escape_code(options)
  BY DEF BuildCode
<1>3. CASE options = <<>>
  <2> DEFINE c == code'
  <2>1. c = Append(<<Escape, Bracket>>, EndOfCode)
    BY <1>2, <1>3 DEF dynamic_escape_code
  <2> HIDE DEF c
  <2>2. Len(c) = 3 /\ c[1] = Escape /\ c[2] = Bracket /\ c[3] = EndOfCode
    BY <2>1
  <2>3. SubSeq(c, 3, Len(c) - 1) = <<>>
    BY <2>2, SubSeqEmpty
  <2>4. SubSeq(c, 1, 2) = <<Escape, Bracket>>
    BY <2>2, FirstTwo
  <2> QED
    BY <2>2, <2>3, <2>4 DEF CodeIsReadable, Last, c
<1>4. CASE options # <<>>
  <2> DEFINE c == code'
             n == Len(options)
             body == SubSeq(c, 3, Len(c) - 1)
  <2>1. n \in Nat /\ n >= 1
    BY <1>1, <1>4
  <2>2. /\ Len(c) = 2 * n + 2
        /\ c[1] = Escape /\ c[2] = Bracket /\ c[Len(c)] = EndOfCode
        /\ \A i \in 1 .. 2 * n - 1 : c[i + 2] = Appended(options)[i]
    BY <1>1, <1>2, <1>4, CodeParts
  <2>3. ASSUME NEW i \in 1 .. 2 * n - 1
        PROVE  /\ i % 2 = 0 => c[i + 2] = Semicolon
               /\ i % 2 # 0 => c[i + 2] \in option
    <3>1. i \in 1 .. 2 * n /\ c[i + 2] = Appended(options)[i]
      BY <2>1, <2>2
    <3>2. c[i + 2] = IF i % 2 = 1 THEN options[(i + 1) \div 2] ELSE Semicolon
      BY <3>1 DEF Appended
    <3>3. i % 2 \in {0, 1}
      BY <2>1
    <3>4. i % 2 = 1 => (i + 1) \div 2 \in 1 .. n
      BY <2>1
    <3> HIDE DEF n
    <3>5. i % 2 = 1 => options[(i + 1) \div 2] \in option
      BY <1>1, <3>4 DEF n
    <3> QED
      BY <3>2, <3>3, <3>5
  <2> HIDE DEF n
  <2>4. Semicolon \notin option
    BY TextAssumption
  <2>5. Len(body) = 2 * n - 1 /\ DOMAIN body = 1 .. 2 * n - 1
        /\ \A i \in 1 .. 2 * n - 1 : body[i] = c[i + 2]
    <3>1. body = [i \in 1 .. (Len(c) - 1) - 3 + 1 |-> c[i + 3 - 1]]
      OBVIOUS
    <3> HIDE DEF body, c
    <3>2. (Len(c) - 1) - 3 + 1 = 2 * n - 1 /\ 2 * n - 1 \in Nat
      BY <2>1, <2>2
    <3>3. body = [i \in 1 .. 2 * n - 1 |-> c[i + 3 - 1]]
      BY <3>1, <3>2
    <3>4. ASSUME NEW i \in 1 .. 2 * n - 1 PROVE body[i] = c[i + 2]
      <4>1. i + 3 - 1 = i + 2
        OBVIOUS
      <4> QED
        BY <3>3, <4>1
    <3>5. DOMAIN body = 1 .. 2 * n - 1
      BY <3>3
    <3> QED
      BY <3>2, <3>3, <3>4, <3>5
  <2>6. SubSeq(c, 1, 2) = <<Escape, Bracket>>
    BY <2>2, FirstTwo
  <2> HIDE DEF body, c
  <2>7. Last(c) = EndOfCode
    BY <2>2 DEF Last
  <2>8. \A i \in DOMAIN body : body[i] = Semicolon <=> i % 2 = 0
    BY <2>3, <2>4, <2>5
  <2>9. Last(body) \in option
    <3>1. 2 * n - 1 \in 1 .. 2 * n - 1 /\ (2 * n - 1) % 2 # 0
      BY <2>1
    <3> QED
      BY <2>3, <2>5, <3>1 DEF Last
  <2> QED
    BY <2>6, <2>7, <2>8, <2>9 DEF CodeIsReadable, body, c
<1> QED
  BY <1>3, <1>4

\* For strings of any length with null characters anywhere: a C function that is
\* given c_str() stops at the end of a view made from a pointer, and never behind
\* the end of any view; a terminal reads back the options of an escape code.
THEOREM TextIsRead == TextSpec => []TextAsMeant
<1>1. TextInit => ViewInv /\ CodeIsReadable
  BY LiteralFacts DEF TextInit, ViewInv, CodeIsReadable
<1>2. CodeIsReadable /\ [TextNext]_textVars => CodeIsReadable'
  <2> SUFFICES ASSUME CodeIsReadable, [TextNext]_textVars PROVE CodeIsReadable'
    OBVIOUS
  <2>1. CASE code' = code
    BY <2>1 DEF CodeIsReadable
  <2> QED
    BY <2>1, CodeSound DEF TextNext, FromPointer, FromArray, FromLength, Construct, RemovePrefix, textVars
<1>3. ViewInv /\ [TextNext]_textVars => ViewInv'
  BY ViewStep
<1>4. ViewInv /\ CodeIsReadable => TextAsMeant
  BY ViewSeen DEF TextAsMeant
<1> QED
  BY <1>1, <1>2, <1>3, <1>4, PTL DEF TextSpec

-----------------------------------------------------------------------------
(* Bits: the literals.  What the loops over the digits have built after n     *)
(* of them is given for every n; that they build it follows from the least n  *)
(* for which they would not.                                                  *)

\* A binary literal fits into one byte
ShortLiterals == MaxDigits <= BitsInByte /\ MaxDigits <= N

BinaryByte(digits, n) == {b \in 0 .. 7 : b + 1 <= n /\ digits[b + 1] = 1}

BinaryAfter(digits, n) ==
    [arr  |-> [i \in Bytes(N) |-> IF i = 0 THEN BinaryByte(digits, n) ELSE {}],
     byte |-> 0, bit |-> n]

BinaryLoop(acc, digits) ==
    acc = [n \in 0 .. Len(digits) |->
              IF n = 0 THEN [arr |-> Zeros(N), byte |-> 0, bit |-> 0]
              ELSE BinaryDigit(acc[n - 1], digits[n])]

LEMMA BinaryBegins ==
    ASSUME NEW digits
    PROVE  BinaryAfter(digits, 0) = [arr |-> Zeros(N), byte |-> 0, bit |-> 0]
<1>1. BinaryByte(digits, 0) = {}
  BY DEF BinaryByte
<1> QED
  BY <1>1 DEF BinaryAfter, Zeros

LEMMA BinaryGrows ==
    ASSUME NEW digits \in Seq({0, 1}), NEW n \in 1 .. 8, n <= Len(digits)
    PROVE  BinaryAfter(digits, n) = BinaryDigit(BinaryAfter(digits, n - 1), digits[n])
<1> DEFINE a == BinaryAfter(digits, n - 1)
           B == BinaryByte(digits, n - 1)
<1>1. /\ a.arr = [i \in Bytes(N) |-> IF i = 0 THEN B ELSE {}]
      /\ a.byte = 0 /\ a.bit = n - 1
  BY DEF BinaryAfter
<1>2. 0 \in Bytes(N) /\ digits[n] \in {0, 1}
  BY BitsAssumption DEF Bytes, BitsInByte
<1>3. a.bit < 8 /\ a.bit # 8 /\ a.bit + 1 = n
  BY <1>1
<1>4. BinaryByte(digits, n) = IF digits[n] = 1 THEN B \union {n - 1} ELSE B
  <2>1. ASSUME NEW b PROVE b \in BinaryByte(digits, n) <=> b \in B \/ (digits[n] = 1 /\ b = n - 1)
    <3>1. CASE b \in 0 .. 7
      <4>1. b + 1 <= n <=> b + 1 <= n - 1 \/ b = n - 1
        BY <3>1
      <4>2. b = n - 1 => b + 1 = n
        BY <3>1
      <4> QED
        BY <3>1, <4>1, <4>2 DEF BinaryByte
    <3>2. CASE b \notin 0 .. 7
      BY <3>2 DEF BinaryByte
    <3> QED
      BY <3>1, <3>2
  <2> HIDE DEF B
  <2> QED
    BY <1>2, <2>1
<1> HIDE DEF a, B
<1>5. CASE digits[n] = 1
  <2>1. BinaryDigit(a, digits[n]) = [arr |-> [a.arr EXCEPT ![0] = @ \union {n - 1}], byte |-> 0, bit |-> n]
    BY <1>1, <1>3, <1>5 DEF BinaryDigit, BitsInByte
  <2>2. [a.arr EXCEPT ![0] = @ \union {n - 1}] = [i \in Bytes(N) |-> IF i = 0 THEN B \union {n - 1} ELSE {}]
    BY <1>1, <1>2
  <2> QED
    BY <1>4, <1>5, <2>1, <2>2 DEF BinaryAfter, a
<1>6. CASE digits[n] # 1
  <2>1. BinaryDigit(a, digits[n]) = [arr |-> a.arr, byte |-> 0, bit |-> n]
    BY <1>1, <1>3, <1>6 DEF BinaryDigit, BitsInByte
  <2> QED
    BY <1>1, <1>4, <1>6, <2>1 DEF BinaryAfter, a
<1> QED
  BY <1>5, <1>6

LEMMA BinaryIs ==
    ASSUME NEW digits \in Seq({0, 1}), Len(digits) <= 8
    PROVE  FromBinary(digits) = BinaryAfter(digits, Len(digits)).arr
<1>1. Len(digits) \in Nat
  OBVIOUS
<1>2. BinaryLoop([n \in 0 .. Len(digits) |-> BinaryAfter(digits, n)], digits)
  <2> DEFINE f == [n \in 0 .. Len(digits) |-> BinaryAfter(digits, n)]
  <2>1. ASSUME NEW n \in 0 .. Len(digits)
        PROVE  BinaryAfter(digits, n) =
                  IF n = 0 THEN [arr |-> Zeros(N), byte |-> 0, bit |-> 0]
                  ELSE BinaryDigit(f[n - 1], digits[n])
    <3>1. CASE n = 0
      BY <3>1, BinaryBegins
    <3>2. CASE n # 0
      <4>1. n \in 1 .. 8 /\ n <= Len(digits) /\ n - 1 \in 0 .. Len(digits)
        BY <1>1, <3>2
      <4>2. f[n - 1] = BinaryAfter(digits, n - 1)
        BY <4>1
      <4> QED
        BY <3>2, <4>1, <4>2, BinaryGrows
    <3> QED
      BY <3>1, <3>2
  <2> QED
    BY <2>1 DEF BinaryLoop
<1>3. ASSUME NEW acc, BinaryLoop(acc, digits)
      PROVE  \A n \in 0 .. Len(digits) : acc[n] = BinaryAfter(digits, n)
  <2> DEFINE T == {n \in 0 .. Len(digits) : acc[n] # BinaryAfter(digits, n)}
  <2> SUFFICES ASSUME T # {} PROVE FALSE
    OBVIOUS
  <2>1. T \in SUBSET Nat
    OBVIOUS
  <2>2. PICK n \in T : \A k \in T : n <= k
    BY <2>1, LeastNumber
  <2>3. n \in 0 .. Len(digits) /\ acc[n] # BinaryAfter(digits, n)
    BY <2>2
  <2>4. acc[n] = IF n = 0 THEN [arr |-> Zeros(N), byte |-> 0, bit |-> 0]
                 ELSE BinaryDigit(acc[n - 1], digits[n])
    BY <1>3, <2>3 DEF BinaryLoop
  <2>5. n # 0
    BY <2>3, <2>4, BinaryBegins
  <2>6. n \in 1 .. 8 /\ n <= Len(digits) /\ n - 1 \in 0 .. Len(digits) /\ ~(n <= n - 1)
    BY <1>1, <2>3, <2>5
  <2>7. acc[n - 1] = BinaryAfter(digits, n - 1)
    BY <2>2, <2>6
  <2> QED
    BY <2>3, <2>4, <2>5, <2>6, <2>7, BinaryGrows
<1>4. \E acc : BinaryLoop(acc, digits)
  BY <1>2
<1>5. FromBinary(digits) = (CHOOSE acc : BinaryLoop(acc, digits))[Len(digits)].arr
  BY DEF FromBinary, BinaryLoop
<1>6. BinaryLoop(CHOOSE acc : BinaryLoop(acc, digits), digits)
  BY <1>4
<1>7. Len(digits) \in 0 .. Len(digits)
  BY <1>1
<1> QED
  BY <1>3, <1>5, <1>6, <1>7

HexByte(digits, n, i) ==
    {b \in 0 .. 7 : 2 * i + (b \div 4) + 1 <= n /\ b % 4 \in digits[2 * i + (b \div 4) + 1]}

HexAfter(digits, n) ==
    [arr |-> [i \in Bytes(N) |-> HexByte(digits, n, i)], byte |-> n \div 2, top |-> n % 2 = 1]

HexLoop(acc, digits) ==
    acc = [n \in 0 .. Len(digits) |->
              IF n = 0 THEN [arr |-> Zeros(N), byte |-> 0, top |-> FALSE]
              ELSE HalfByte(acc[n - 1], digits[n])]

LEMMA HexBegins ==
    ASSUME NEW digits
    PROVE  HexAfter(digits, 0) = [arr |-> Zeros(N), byte |-> 0, top |-> FALSE]
<1>1. ASSUME NEW i \in Bytes(N) PROVE HexByte(digits, 0, i) = {}
  <2>1. i \in Nat
    BY BitsAssumption DEF Bytes, BitsInByte
  <2>2. \A b \in 0 .. 7 : ~(2 * i + (b \div 4) + 1 <= 0)
    BY <2>1
  <2> QED
    BY <2>2 DEF HexByte
<1>2. [i \in Bytes(N) |-> HexByte(digits, 0, i)] = Zeros(N)
  BY <1>1 DEF Zeros
<1>3. 0 \div 2 = 0 /\ (0 % 2 = 1) = FALSE
  OBVIOUS
<1> QED
  BY <1>2, <1>3 DEF HexAfter

\* The n-th digit is the lower or the upper half of its byte
LEMMA HexByteGrows ==
    ASSUME NEW digits \in Seq(SUBSET (0 .. 3)), NEW n \in 1 .. Len(digits), NEW i \in Nat,
           NEW half, half = {c + (IF (n - 1) % 2 = 1 THEN 4 ELSE 0) : c \in digits[n]}
    PROVE  HexByte(digits, n, i) =
              IF i = (n - 1) \div 2 THEN HexByte(digits, n - 1, i) \union half
              ELSE HexByte(digits, n - 1, i)
<1>1. n \in Nat /\ digits[n] \in SUBSET (0 .. 3)
  OBVIOUS
<1>2. ASSUME NEW b
      PROVE  b \in HexByte(digits, n, i) <=>
                b \in HexByte(digits, n - 1, i) \/ (i = (n - 1) \div 2 /\ b \in half)
  <2>1. CASE b \in 0 .. 7
    <3> DEFINE q == 2 * i + (b \div 4) + 1
    <3>1. q \in Nat /\ b \div 4 \in 0 .. 1 /\ b = 4 * (b \div 4) + (b % 4) /\ b % 4 \in 0 .. 3
      BY <2>1
    <3>2. q <= n <=> q <= n - 1 \/ q = n
      BY <1>1, <3>1
    <3>3. q = n <=> i = (n - 1) \div 2 /\ b \div 4 = (n - 1) % 2
      <4> DEFINE h == b \div 4
                 m == (n - 1) \div 2
                 r == (n - 1) % 2
      <4>1. n - 1 = 2 * m + r /\ m \in Int /\ r \in 0 .. 1 /\ h \in 0 .. 1
        BY <1>1, <3>1
      <4> HIDE DEF h, m, r
      <4>2. 2 * i + h + 1 = n <=> i = m /\ h = r
        BY <1>1, <4>1
      <4> QED
        BY <4>2 DEF h, m, r
    <3>4. ASSUME q = n PROVE b % 4 \in digits[n] <=> b \in half
      <4>1. b \div 4 = (n - 1) % 2
        BY <3>3, <3>4
      <4>2. (IF (n - 1) % 2 = 1 THEN 4 ELSE 0) = 4 * (b \div 4)
        BY <3>1, <4>1
      <4>3. ASSUME NEW c \in 0 .. 3 PROVE b = c + 4 * (b \div 4) <=> c = b % 4
        <5> DEFINE h == b \div 4
                   r == b % 4
        <5>1. b = 4 * h + r /\ h \in 0 .. 1 /\ r \in 0 .. 3
          BY <3>1
        <5> HIDE DEF h, r
        <5>2. b = c + 4 * h <=> c = r
          BY <5>1
        <5> QED
          BY <5>2 DEF h, r
      <4>4. half = {c + 4 * (b \div 4) : c \in digits[n]}
        BY <4>2
      <4> QED
        BY <1>1, <4>3, <4>4
    <3>5. ASSUME i = (n - 1) \div 2, b \in half PROVE q = n
      <4>1. PICK c \in digits[n] : b = c + (IF (n - 1) % 2 = 1 THEN 4 ELSE 0)
        BY <3>5
      <4>2. c \in 0 .. 3
        BY <1>1
      <4>3. b \div 4 = (n - 1) % 2
        BY <1>1, <4>1, <4>2
      <4> QED
        BY <3>3, <3>5, <4>3
    <3>6. b \in HexByte(digits, n, i) <=> q <= n /\ b % 4 \in digits[q]
      BY <2>1 DEF HexByte
    <3>7. b \in HexByte(digits, n - 1, i) <=> q <= n - 1 /\ b % 4 \in digits[q]
      BY <2>1 DEF HexByte
    <3> HIDE DEF q
    <3> QED
      BY <3>2, <3>3, <3>4, <3>5, <3>6, <3>7
  <2>2. CASE b \notin 0 .. 7
    <3>1. b \notin half
      <4> SUFFICES ASSUME b \in half PROVE b \in 0 .. 7
        BY <2>2
      <4>1. PICK c \in digits[n] : b = c + (IF (n - 1) % 2 = 1 THEN 4 ELSE 0)
        OBVIOUS
      <4>2. c \in 0 .. 3
        BY <1>1
      <4> QED
        BY <4>1, <4>2
    <3> QED
      BY <2>2, <3>1 DEF HexByte
  <2> QED
    BY <2>1, <2>2
<1> QED
  BY <1>2

LEMMA HexGrows ==
    ASSUME NEW digits \in Seq(SUBSET (0 .. 3)), NEW n \in 1 .. Len(digits)
    PROVE  HexAfter(digits, n) = HalfByte(HexAfter(digits, n - 1), digits[n])
<1> DEFINE a == HexAfter(digits, n - 1)
           half == {c + (IF (n - 1) % 2 = 1 THEN 4 ELSE 0) : c \in digits[n]}
<1>1. /\ a.arr = [i \in Bytes(N) |-> HexByte(digits, n - 1, i)]
      /\ a.byte = (n - 1) \div 2 /\ a.top = ((n - 1) % 2 = 1)
  BY DEF HexAfter
<1>2. n \in Nat /\ n >= 1
  OBVIOUS
<1>3. (IF a.top THEN a.byte + 1 ELSE a.byte) = n \div 2 /\ (~a.top) = (n % 2 = 1)
  <2>1. CASE (n - 1) % 2 = 1
    <3>1. (n - 1) \div 2 + 1 = n \div 2 /\ n % 2 # 1
      BY <1>2, <2>1
    <3>2. a.top = TRUE /\ a.byte = (n - 1) \div 2
      BY <1>1, <2>1
    <3> HIDE DEF a
    <3>3. (n % 2 = 1) = FALSE
      BY <3>1
    <3> QED
      BY <3>1, <3>2, <3>3
  <2>2. CASE (n - 1) % 2 # 1
    <3>1. (n - 1) \div 2 = n \div 2 /\ n % 2 = 1
      BY <1>2, <2>2
    <3>2. a.top = FALSE /\ a.byte = (n - 1) \div 2
      BY <1>1, <2>2
    <3> HIDE DEF a
    <3>3. (n % 2 = 1) = TRUE
      BY <3>1
    <3> QED
      BY <3>1, <3>2, <3>3
  <2> QED
    BY <2>1, <2>2
<1>4. {c + (IF a.top THEN 4 ELSE 0) : c \in digits[n]} = half
  BY <1>1
<1>5. HalfByte(a, digits[n]) =
         [arr |-> [a.arr EXCEPT ![a.byte] = @ \union half], byte |-> n \div 2, top |-> (n % 2 = 1)]
  BY <1>3, <1>4 DEF HalfByte
<1>6. ASSUME NEW i \in Bytes(N)
      PROVE  HexByte(digits, n, i) = IF i = a.byte THEN HexByte(digits, n - 1, i) \union half
                                     ELSE HexByte(digits, n - 1, i)
  <2>1. i \in Nat
    BY BitsAssumption DEF Bytes, BitsInByte
  <2> QED
    BY <1>1, <2>1, HexByteGrows
<1> HIDE DEF half, a
<1>7. [a.arr EXCEPT ![a.byte] = @ \union half] = [i \in Bytes(N) |-> HexByte(digits, n, i)]
  BY <1>1, <1>6
<1> QED
  BY <1>5, <1>7 DEF HexAfter, a

LEMMA HexIs ==
    ASSUME NEW digits \in Seq(SUBSET (0 .. 3))
    PROVE  FromHex(digits) = HexAfter(digits, Len(digits)).arr
<1>1. Len(digits) \in Nat
  OBVIOUS
<1>2. HexLoop([n \in 0 .. Len(digits) |-> HexAfter(digits, n)], digits)
  <2> DEFINE f == [n \in 0 .. Len(digits) |-> HexAfter(digits, n)]
  <2>1. ASSUME NEW n \in 0 .. Len(digits)
        PROVE  HexAfter(digits, n) =
                  IF n = 0 THEN [arr |-> Zeros(N), byte |-> 0, top |-> FALSE]
                  ELSE HalfByte(f[n - 1], digits[n])
    <3>1. CASE n = 0
      BY <3>1, HexBegins
    <3>2. CASE n # 0
      <4>1. n \in 1 .. Len(digits) /\ n - 1 \in 0 .. Len(digits)
        BY <1>1, <3>2
      <4>2. f[n - 1] = HexAfter(digits, n - 1)
        BY <4>1
      <4> QED
        BY <3>2, <4>1, <4>2, HexGrows
    <3> QED
      BY <3>1, <3>2
  <2> QED
    BY <2>1 DEF HexLoop
<1>3. ASSUME NEW acc, HexLoop(acc, digits)
      PROVE  \A n \in 0 .. Len(digits) : acc[n] = HexAfter(digits, n)
  <2> DEFINE T == {n \in 0 .. Len(digits) : acc[n] # HexAfter(digits, n)}
  <2> SUFFICES ASSUME T # {} PROVE FALSE
    OBVIOUS
  <2>1. T \in SUBSET Nat
    OBVIOUS
  <2>2. PICK n \in T : \A k \in T : n <= k
    BY <2>1, LeastNumber
  <2>3. n \in 0 .. Len(digits) /\ acc[n] # HexAfter(digits, n)
    BY <2>2
  <2>4. acc[n] = IF n = 0 THEN [arr |-> Zeros(N), byte |-> 0, top |-> FALSE]
                 ELSE HalfByte(acc[n - 1], digits[n])
    BY <1>3, <2>3 DEF HexLoop
  <2>5. n # 0
    BY <2>3, <2>4, HexBegins
  <2>6. n \in 1 .. Len(digits) /\ n - 1 \in 0 .. Len(digits) /\ ~(n <= n - 1)
    BY <1>1, <2>3, <2>5
  <2>7. acc[n - 1] = HexAfter(digits, n - 1)
    BY <2>2, <2>6
  <2> QED
    BY <2>3, <2>4, <2>5, <2>6, <2>7, HexGrows
<1>4. \E acc : HexLoop(acc, digits)
  BY <1>2
<1>5. FromHex(digits) = (CHOOSE acc : HexLoop(acc, digits))[Len(digits)].arr
  BY DEF FromHex, HexLoop
<1>6. HexLoop(CHOOSE acc : HexLoop(acc, digits), digits)
  BY <1>4
<1>7. Len(digits) \in 0 .. Len(digits)
  BY <1>1
<1> QED
  BY <1>3, <1>5, <1>6, <1>7

-----------------------------------------------------------------------------
(* Bits: an array of bytes as a set *)

\* The bytes of arr have the bits of S, which is a set of up to that many bits
Holds(arr, S, bits) ==
    /\ arr \in [Bytes(bits) -> SUBSET (0 .. 7)]
    /\ S \subseteq 0 .. bits - 1
    /\ \A i \in Bytes(bits), b \in 0 .. 7 : b \in arr[i] <=> 8 * i + b \in S

LEMMA Split ==
    ASSUME NEW bits \in Nat, NEW p \in 0 .. bits - 1
    PROVE  /\ p \in Nat /\ p \div 8 \in Bytes(bits) /\ p % 8 \in 0 .. 7 /\ 8 * (p \div 8) + (p % 8) = p
           /\ \A i \in Bytes(bits), b \in 0 .. 7 : 8 * i + b = p <=> i = p \div 8 /\ b = p % 8
<1> DEFINE q == p \div 8
           r == p % 8
<1>1. p \in Nat /\ p = 8 * q + r /\ q \in Nat /\ r \in 0 .. 7 /\ q <= bits \div 8
  OBVIOUS
<1>2. Bytes(bits) \subseteq Nat /\ q \in Bytes(bits)
  BY DEF Bytes, BitsInByte
<1> HIDE DEF q, r
<1>3. \A i \in Nat, b \in 0 .. 7 : 8 * i + b = p <=> i = q /\ b = r
  BY <1>1
<1> QED
  BY <1>1, <1>2, <1>3 DEF q, r

LEMMA HoldsBit ==
    ASSUME NEW bits \in Nat, NEW S, Holds(m_arr, S, bits)
    PROVE  /\ \A p \in 0 .. bits - 1 : Bit(p) <=> p \in S
           /\ AnySet <=> S # {}
           /\ ~AllSet
<1>1. ASSUME NEW p \in 0 .. bits - 1 PROVE Bit(p) <=> p \in S
  <2>1. p \div 8 \in Bytes(bits) /\ p % 8 \in 0 .. 7 /\ 8 * (p \div 8) + (p % 8) = p
    BY Split
  <2>2. p % 8 \in m_arr[p \div 8] <=> 8 * (p \div 8) + (p % 8) \in S
    BY <2>1 DEF Holds
  <2> QED
    BY <2>1, <2>2 DEF Bit, BitsInByte
<1>2. DOMAIN m_arr = Bytes(bits) /\ \A i \in Bytes(bits) : m_arr[i] \subseteq 0 .. 7
  BY DEF Holds
<1>3. ASSUME AnySet PROVE S # {}
  <2>1. PICK i \in Bytes(bits) : m_arr[i] # {}
    BY <1>2, <1>3 DEF AnySet
  <2>2. PICK b \in 0 .. 7 : b \in m_arr[i]
    BY <1>2, <2>1
  <2> QED
    BY <2>2 DEF Holds
<1>4. ASSUME S # {} PROVE AnySet
  <2>1. PICK p \in 0 .. bits - 1 : p \in S
    BY <1>4 DEF Holds
  <2>2. p % 8 \in m_arr[p \div 8] /\ p \div 8 \in Bytes(bits)
    BY <1>1, <2>1, Split DEF Bit, BitsInByte
  <2> QED
    BY <1>2, <2>2 DEF AnySet
<1>5. ~AllSet
  <2> DEFINE q == bits \div 8
  <2>1. q \in Nat /\ 8 * q + 7 \notin 0 .. bits - 1 /\ q \in Bytes(bits) /\ 7 \in 0 .. 7
    BY DEF Bytes, BitsInByte
  <2> HIDE DEF q
  <2>2. 7 \notin m_arr[q]
    BY <2>1 DEF Holds
  <2>3. 7 \in 0 .. BitsInByte - 1
    BY DEF BitsInByte
  <2> QED
    BY <1>2, <2>1, <2>2, <2>3 DEF AllSet
<1> QED
  BY <1>1, <1>3, <1>4, <1>5

LEMMA HoldsStored ==
    ASSUME NEW bits \in Nat, NEW S, Holds(m_arr, S, bits), NEW p \in 0 .. bits - 1, NEW v \in BOOLEAN
    PROVE  Holds(Stored(p, v), IF v THEN S \union {p} ELSE S \ {p}, bits)
<1> DEFINE q == p \div 8
           r == p % 8
           T == IF v THEN S \union {p} ELSE S \ {p}
           arr == Stored(p, v)
<1>1. /\ q \in Bytes(bits) /\ r \in 0 .. 7
      /\ \A i \in Bytes(bits), b \in 0 .. 7 : 8 * i + b = p <=> i = q /\ b = r
  BY Split
<1>2. arr = [m_arr EXCEPT ![q] = IF v THEN m_arr[q] \union {r} ELSE m_arr[q] \ {r}]
  BY DEF Stored, BitsInByte
<1> HIDE DEF q, r, arr
<1>3. arr \in [Bytes(bits) -> SUBSET (0 .. 7)]
  BY <1>1, <1>2 DEF Holds
<1>4. T \subseteq 0 .. bits - 1
  BY DEF Holds
<1>5. ASSUME NEW i \in Bytes(bits), NEW b \in 0 .. 7
      PROVE  b \in arr[i] <=> 8 * i + b \in T
  <2>1. b \in m_arr[i] <=> 8 * i + b \in S
    BY DEF Holds
  <2>2. 8 * i + b = p <=> i = q /\ b = r
    BY <1>1
  <2>3. m_arr \in [Bytes(bits) -> SUBSET (0 .. 7)]
    BY DEF Holds
  <2>4. b \in arr[i] <=> IF i = q /\ b = r THEN v ELSE b \in m_arr[i]
    BY <1>1, <1>2, <2>3
  <2>5. 8 * i + b \in T <=> IF 8 * i + b = p THEN v ELSE 8 * i + b \in S
    OBVIOUS
  <2> QED
    BY <2>1, <2>2, <2>4, <2>5
<1> HIDE DEF T
<1>6. Holds(arr, T, bits)
  BY <1>3, <1>4, <1>5 DEF Holds
<1> QED
  BY <1>6 DEF arr, T

LEMMA HoldsNothing ==
    ASSUME NEW bits \in Nat
    PROVE  Holds(Zeros(bits), {}, bits)
BY DEF Holds, Zeros

\* A binary literal of at most eight digits, and a hexadecimal one
LEMMA HoldsBinary ==
    ASSUME ShortLiterals, NEW digits \in BoundedSeq({0, 1}, MaxDigits)
    PROVE  Holds(FromBinary(digits), {p - 1 : p \in {q \in DOMAIN digits : digits[q] = 1}}, N)
<1> DEFINE S == {p - 1 : p \in {q \in DOMAIN digits : digits[q] = 1}}
<1>1. PICK n \in 0 .. MaxDigits : digits \in [1 .. n -> {0, 1}]
  BY DEF BoundedSeq, SeqOf
<1>2. /\ digits \in Seq({0, 1}) /\ Len(digits) = n /\ DOMAIN digits = 1 .. n
      /\ n \in Nat /\ n <= 8 /\ n <= N
  BY <1>1, BitsAssumption DEF ShortLiterals, BitsInByte
<1>3. FromBinary(digits) = [i \in Bytes(N) |-> IF i = 0 THEN BinaryByte(digits, n) ELSE {}]
  BY <1>2, BinaryIs DEF BinaryAfter
<1>4. FromBinary(digits) \in [Bytes(N) -> SUBSET (0 .. 7)]
  BY <1>3 DEF BinaryByte
<1>5. \A x : x \in S <=> \E q \in 1 .. n : digits[q] = 1 /\ x = q - 1
  BY <1>2
<1> HIDE DEF S
<1>6. S \subseteq 0 .. N - 1
  BY <1>2, <1>5, BitsAssumption
<1>7. ASSUME NEW i \in Bytes(N), NEW b \in 0 .. 7
      PROVE  b \in FromBinary(digits)[i] <=> 8 * i + b \in S
  <2>1. i \in Nat
    BY BitsAssumption DEF Bytes, BitsInByte
  <2>2. CASE i = 0
    <3>1. b \in FromBinary(digits)[i] <=> b + 1 <= n /\ digits[b + 1] = 1
      BY <1>3, <2>2 DEF BinaryByte
    <3>2. 8 * i + b = b
      BY <2>2
    <3>3. b \in S <=> b + 1 \in 1 .. n /\ digits[b + 1] = 1
      BY <1>2, <1>5
    <3>4. b + 1 <= n <=> b + 1 \in 1 .. n
      BY <1>2
    <3> QED
      BY <3>1, <3>2, <3>3, <3>4
  <2>3. CASE i # 0
    <3>1. b \notin FromBinary(digits)[i]
      BY <1>3, <2>3
    <3>2. 8 * i + b >= 8
      BY <2>1, <2>3
    <3>3. 8 * i + b \notin S
      BY <1>2, <1>5, <3>2
    <3> QED
      BY <3>1, <3>3
  <2> QED
    BY <2>2, <2>3
<1>8. Holds(FromBinary(digits), S, N)
  BY <1>4, <1>6, <1>7 DEF Holds
<1> QED
  BY <1>8 DEF S

LEMMA HoldsHex ==
    ASSUME NEW digits \in BoundedSeq(HexDigit, 2 * Cardinality(Bytes(N))),
           \A q \in DOMAIN digits : \A b \in digits[q] : 4 * (q - 1) + b < N
    PROVE  Holds(FromHex(digits), UNION {{4 * (q - 1) + b : b \in digits[q]} : q \in DOMAIN digits}, N)
<1> DEFINE S == UNION {{4 * (q - 1) + b : b \in digits[q]} : q \in DOMAIN digits}
<1>1. 2 * Cardinality(Bytes(N)) \in Nat
  <2>1. 0 \in Int /\ N \div 8 \in Int
    BY BitsAssumption
  <2>2. Cardinality(0 .. N \div 8) \in Nat
    BY <2>1, FS_Interval, FS_CardinalityType
  <2> QED
    BY <2>2 DEF Bytes, BitsInByte
<1>2. PICK n \in 0 .. 2 * Cardinality(Bytes(N)) : digits \in [1 .. n -> HexDigit]
  BY DEF BoundedSeq, SeqOf
<1>3. n \in Nat /\ digits \in [1 .. n -> SUBSET (0 .. 3)]
  <2>1. n \in Nat
    BY <1>1
  <2>2. HexDigit \subseteq SUBSET (0 .. 3)
    BY BitsAssumption
  <2>3. ASSUME NEW q \in 1 .. n PROVE digits[q] \in SUBSET (0 .. 3)
    BY <1>2, <2>2, <2>3
  <2> QED
    BY <1>2, <2>1, <2>3
<1>4. digits \in Seq(SUBSET (0 .. 3)) /\ Len(digits) = n /\ DOMAIN digits = 1 .. n
  BY <1>3
<1>5. FromHex(digits) = [i \in Bytes(N) |-> HexByte(digits, n, i)]
  BY <1>4, HexIs DEF HexAfter
<1>6. FromHex(digits) \in [Bytes(N) -> SUBSET (0 .. 7)]
  BY <1>5 DEF HexByte
<1>7. \A x : x \in S <=> \E q \in 1 .. n : \E c \in digits[q] : x = 4 * (q - 1) + c
  BY <1>4
<1> HIDE DEF S
<1>8. S \subseteq 0 .. N - 1
  <2> SUFFICES ASSUME NEW x \in S PROVE x \in 0 .. N - 1
    OBVIOUS
  <2>1. PICK q \in 1 .. n : \E c \in digits[q] : x = 4 * (q - 1) + c
    BY <1>7
  <2>3. PICK c \in digits[q] : x = 4 * (q - 1) + c
    BY <2>1
  <2>2. c \in 0 .. 3 /\ 4 * (q - 1) + c < N
    BY <1>3, <1>4
  <2> QED
    BY <1>3, <2>3, <2>2, BitsAssumption
<1>9. ASSUME NEW i \in Bytes(N), NEW b \in 0 .. 7
      PROVE  b \in FromHex(digits)[i] <=> 8 * i + b \in S
  <2> DEFINE h == b \div 4
             r == b % 4
             q == 2 * i + h + 1
  <2>1. i \in Nat /\ b = 4 * h + r /\ h \in 0 .. 1 /\ r \in 0 .. 3
    BY BitsAssumption DEF Bytes, BitsInByte
  <2>2. b \in FromHex(digits)[i] <=> q <= n /\ r \in digits[q]
    BY <1>5 DEF HexByte
  <2> HIDE DEF h, r
  <2>3. 8 * i + b = 4 * (q - 1) + r /\ (q <= n <=> q \in 1 .. n)
    BY <1>3, <2>1
  <2>4. ASSUME q \in 1 .. n, r \in digits[q] PROVE 8 * i + b \in S
    BY <1>7, <2>3, <2>4
  <2>5. ASSUME 8 * i + b \in S PROVE q \in 1 .. n /\ r \in digits[q]
    <3>4. PICK k \in 1 .. n : \E c \in digits[k] : 8 * i + b = 4 * (k - 1) + c
      BY <1>7, <2>5
    <3>1. PICK c \in digits[k] : 8 * i + b = 4 * (k - 1) + c
      BY <3>4
    <3>2. c \in 0 .. 3 /\ k \in Nat
      BY <1>3
    <3>3. k = q /\ c = r
      BY <2>1, <2>3, <3>1, <3>2
    <3> QED
      BY <3>1, <3>3
  <2> QED
    BY <2>2, <2>3, <2>4, <2>5
<1>10. Holds(FromHex(digits), S, N)
  BY <1>6, <1>8, <1>9 DEF Holds
<1> QED
  BY <1>10 DEF S

LEMMA HoldsWritten ==
    ASSUME NEW S, Holds(m_arr, S, N), NEW i \in Bytes(N), NEW val \in SUBSET (0 .. 7),
           \A b \in val : i * BitsInByte + b < N
    PROVE  Holds([m_arr EXCEPT ![i] = val],
                 {p \in S : p \div BitsInByte # i} \union {i * BitsInByte + b : b \in val}, N)
<1> DEFINE T == {p \in S : p \div BitsInByte # i} \union {i * BitsInByte + b : b \in val}
           arr == [m_arr EXCEPT ![i] = val]
<1>1. i \in Nat /\ Bytes(N) \subseteq Nat /\ BitsInByte = 8 /\ N \in Nat
  BY BitsAssumption DEF Bytes, BitsInByte
<1>2. arr \in [Bytes(N) -> SUBSET (0 .. 7)]
  BY DEF Holds
<1>3. \A x : x \in T <=> (x \in S /\ x \div 8 # i) \/ \E b \in val : x = 8 * i + b
  BY <1>1
<1> HIDE DEF T
<1>4. T \subseteq 0 .. N - 1
  <2>1. S \subseteq 0 .. N - 1
    BY DEF Holds
  <2>2. ASSUME NEW b \in val PROVE 8 * i + b \in 0 .. N - 1
    <3>1. b \in Nat /\ i * 8 + b < N
      BY <1>1
    <3> QED
      BY <1>1, <3>1
  <2>3. ASSUME NEW x \in T PROVE x \in 0 .. N - 1
    <3>1. CASE x \in S
      BY <2>1, <3>1
    <3>2. CASE x \notin S
      <4>1. PICK b \in val : x = 8 * i + b
        BY <1>3, <2>3, <3>2
      <4> QED
        BY <2>2, <4>1
    <3> QED
      BY <3>1, <3>2
  <2> QED
    BY <2>3
<1>5. ASSUME NEW j \in Bytes(N), NEW b \in 0 .. 7
      PROVE  b \in arr[j] <=> 8 * j + b \in T
  <2>1. j \in Nat /\ (8 * j + b) \div 8 = j
    BY <1>1
  <2>2. b \in m_arr[j] <=> 8 * j + b \in S
    BY DEF Holds
  <2>3. ASSUME NEW c \in val, 8 * j + b = 8 * i + c PROVE j = i /\ b = c
    <3>1. c \in 0 .. 7
      OBVIOUS
    <3> QED
      BY <1>1, <2>1, <2>3, <3>1
  <2>4. CASE j = i
    <3>1. arr[j] = val
      BY <2>4 DEF Holds
    <3> QED
      BY <1>3, <2>1, <2>3, <2>4, <3>1
  <2>5. CASE j # i
    <3>1. arr[j] = m_arr[j]
      BY <2>5 DEF Holds
    <3> QED
      BY <1>3, <2>1, <2>2, <2>3, <2>5, <3>1
  <2> QED
    BY <2>4, <2>5
<1> HIDE DEF arr
<1>6. Holds(arr, T, N)
  BY <1>2, <1>4, <1>5 DEF Holds
<1> QED
  BY <1>6 DEF arr, T

-----------------------------------------------------------------------------
(* Bits: enumerators and flags *)

LEMMA EnumIndexIs ==
    ASSUME NEW v \in Range(Enumerators)
    PROVE  /\ EnumIndex(v) \in 0 .. Len(Enumerators) - 1
           /\ Enumerators[EnumIndex(v) + 1] = v
<1> DEFINE D == DOMAIN Enumerators
           First(i) == Enumerators[i] = v /\ \A j \in 1 .. i - 1 : Enumerators[j] # v
           T == {i \in D : Enumerators[i] = v}
<1>1. D = 1 .. Len(Enumerators) /\ Len(Enumerators) \in Nat
  BY BitsAssumption
<1>2. T # {} /\ T \in SUBSET Nat
  BY <1>1 DEF Range
<1>3. PICK m \in T : \A k \in T : m <= k
  BY <1>2, LeastNumber
<1>4. m \in D /\ First(m)
  <2>1. m \in 1 .. Len(Enumerators) /\ Enumerators[m] = v
    BY <1>1, <1>3
  <2>2. ASSUME NEW j \in 1 .. m - 1 PROVE Enumerators[j] # v
    <3>1. j \in D /\ ~(m <= j)
      BY <1>1, <2>1
    <3> QED
      BY <1>3, <3>1
  <2> QED
    BY <1>1, <2>1, <2>2
<1>5. EnumIndex(v) = (CHOOSE i \in D : First(i)) - 1
  BY DEF EnumIndex
<1> HIDE DEF First
<1>6. PICK i \in D : i = (CHOOSE k \in D : First(k)) /\ First(i)
  BY <1>4
<1>7. i \in 1 .. Len(Enumerators) /\ EnumIndex(v) = i - 1
  BY <1>1, <1>5, <1>6
<1>8. i - 1 \in 0 .. Len(Enumerators) - 1 /\ (i - 1) + 1 = i
  BY <1>1, <1>7
<1> QED
  BY <1>6, <1>7, <1>8 DEF First

\* So two values never share a place
LEMMA EnumIndexApart ==
    ASSUME NEW v \in Range(Enumerators), NEW w \in Range(Enumerators), EnumIndex(v) = EnumIndex(w)
    PROVE  v = w
BY EnumIndexIs

\* Every flag fits into its integer, whose width is that of int at most
NarrowFlags == Width <= IntWidth

LEMMA CountsBits ==
    ASSUME NarrowFlags, NEW t \in SUBSET (0 .. Width - 1)
    PROVE  CountSetBits(t) = Cardinality(t)
<1>1. ASSUME NEW i \in 0 .. Width - 1 PROVE ShiftedOne(i) = {i}
  <2>1. i % IntWidth = i
    BY BitsAssumption DEF NarrowFlags
  <2>2. i = IntWidth - 1 => IntWidth .. Width - 1 = {}
    BY BitsAssumption DEF NarrowFlags
  <2> QED
    BY <2>1, <2>2 DEF ShiftedOne
<1>2. {i \in 0 .. Width - 1 : t \intersect ShiftedOne(i) # {}} = t
  BY <1>1
<1> QED
  BY <1>2 DEF CountSetBits

LEMMA FlagsSeen ==
    ASSUME NarrowFlags, kind = "bitmask" => m_v = UNION meant
    PROVE  AllFlagsSeen
<1> SUFFICES ASSUME kind = "bitmask" PROVE
        /\ MaskAll <=> UNION {e \in Flag : Cardinality(e) = 1} \subseteq UNION meant
        /\ MaskAny <=> UNION meant # {}
  BY DEF AllFlagsSeen
<1>1. m_v = UNION meant
  OBVIOUS
<1>2. ASSUME NEW e \in Flag
      PROVE  /\ CountSetBits(e) = Cardinality(e)
             /\ Cardinality(e) = 1 => \E x : e = {x}
  <2>1. e \in SUBSET (0 .. Width - 1)
    BY BitsAssumption
  <2>2. IsFiniteSet(0 .. Width - 1)
    BY BitsAssumption, FS_Interval
  <2>3. IsFiniteSet(e)
    BY <2>1, <2>2, FS_Subset
  <2> QED
    BY <2>1, <2>3, CountsBits, FS_Singleton
<1>3. MaskAll <=> \A e \in Flag : Cardinality(e) = 1 => m_v \intersect e # {}
  BY <1>2 DEF MaskAll
<1>4. ASSUME NEW e \in Flag, Cardinality(e) = 1
      PROVE  m_v \intersect e # {} <=> e \subseteq m_v
  <2>1. PICK x : e = {x}
    BY <1>2, <1>4
  <2> QED
    BY <2>1
<1>5. MaskAll <=> \A e \in Flag : Cardinality(e) = 1 => e \subseteq m_v
  BY <1>3, <1>4
<1>6. UNION {e \in Flag : Cardinality(e) = 1} \subseteq m_v
         <=> \A e \in Flag : Cardinality(e) = 1 => e \subseteq m_v
  OBVIOUS
<1> QED
  BY <1>1, <1>5, <1>6 DEF MaskAny

-----------------------------------------------------------------------------
(* Bits: the objects *)

Places(S) == {EnumIndex(v) : v \in S}

BitsInv ==
    /\ kind = "bitset" => Holds(m_arr, meant, N)
    /\ kind = "enum_set" =>
          meant \subseteq Range(Enumerators) /\ Holds(m_arr, Places(meant), Len(Enumerators))
    /\ kind = "enum_array" =>
          /\ cells = [i \in 0 .. Len(Enumerators) - 1 |-> cells[i]]
          /\ meant = [v \in Range(Enumerators) |-> meant[v]]
          /\ \A v \in Range(Enumerators) : cells[EnumIndex(v)] = meant[v]
    /\ kind = "bitmask" => m_v = UNION meant

LEMMA BitsInvMeans ==
    ASSUME NarrowFlags, BitsInv
    PROVE  BitsAsMeant
<1>1. N \in Nat /\ Len(Enumerators) \in Nat
  BY BitsAssumption
<1>2. BitsAsWritten
  BY <1>1, HoldsBit DEF BitsInv, BitsAsWritten
<1>3. ASSUME kind = "enum_set"
      PROVE  /\ \A v \in Range(Enumerators) : InSet(v) <=> v \in meant
             /\ AnySet <=> meant # {}
  <2>1. meant \subseteq Range(Enumerators) /\ Holds(m_arr, Places(meant), Len(Enumerators))
    BY <1>3 DEF BitsInv
  <2>2. ASSUME NEW v \in Range(Enumerators) PROVE InSet(v) <=> v \in meant
    <3>1. InSet(v) <=> EnumIndex(v) \in Places(meant)
      BY <1>1, <2>1, EnumIndexIs, HoldsBit DEF InSet
    <3>2. EnumIndex(v) \in Places(meant) <=> v \in meant
      BY <2>1, EnumIndexApart DEF Places
    <3> QED
      BY <3>1, <3>2
  <2>3. AnySet <=> Places(meant) # {}
    BY <1>1, <2>1, HoldsBit
  <2> QED
    BY <2>2, <2>3 DEF Places
<1>4. EnumsKeptApart
  BY <1>3 DEF BitsInv, EnumsKeptApart
<1>5. AllFlagsSeen
  BY FlagsSeen DEF BitsInv
<1> QED
  BY <1>2, <1>4, <1>5 DEF BitsAsMeant

LEMMA BitsBegin ==
    ASSUME ShortLiterals, BitsInit
    PROVE  BitsInv
<1>1. N \in Nat /\ Len(Enumerators) \in Nat
  BY BitsAssumption
<1>2. CASE kind = "bitset"
  <2>1. Holds(m_arr, meant, N)
    BY <1>2, HoldsBinary, HoldsHex DEF BitsInit
  <2> QED
    BY <1>2, <2>1 DEF BitsInv
<1>3. CASE kind = "enum_set"
  <2>1. m_arr = Zeros(Len(Enumerators)) /\ meant = {}
    BY <1>3 DEF BitsInit
  <2>2. Places({}) = {}
    BY DEF Places
  <2> QED
    BY <1>1, <1>3, <2>1, <2>2, HoldsNothing DEF BitsInv
<1>4. CASE kind = "enum_array"
  <2>1. /\ cells = [i \in 0 .. Len(Enumerators) - 1 |-> ZeroCell]
        /\ meant = [v \in Range(Enumerators) |-> ZeroCell]
    BY <1>4 DEF BitsInit
  <2>2. \A v \in Range(Enumerators) : cells[EnumIndex(v)] = meant[v]
    BY <2>1, EnumIndexIs
  <2> QED
    BY <1>4, <2>1, <2>2 DEF BitsInv
<1>5. CASE kind = "bitmask"
  BY <1>5 DEF BitsInit, BitsInv
<1> QED
  BY <1>2, <1>3, <1>4, <1>5 DEF BitsInit

LEMMA BitsetStep ==
    ASSUME BitsInv,
           \/ \E idx \in 0 .. N - 1, b \in BOOLEAN : SetBit(idx, b)
           \/ \E i \in Bytes(N), val \in {{}} \union SUBSET (0 .. (N % BitsInByte) - 1) : WriteByte(i, val)
    PROVE  BitsInv'
<1>1. kind = "bitset" /\ kind' = "bitset" /\ Holds(m_arr, meant, N)
  BY DEF SetBit, WriteByte, BitsInv
<1>2. ASSUME NEW idx \in 0 .. N - 1, NEW b \in BOOLEAN, SetBit(idx, b) PROVE Holds(m_arr', meant', N)
  <2>1. m_arr' = Stored(idx, b) /\ meant' = IF b THEN meant \union {idx} ELSE meant \ {idx}
    BY <1>2 DEF SetBit
  <2> QED
    BY <1>1, <2>1, HoldsStored, BitsAssumption
<1>3. ASSUME NEW i \in Bytes(N), NEW val \in {{}} \union SUBSET (0 .. (N % BitsInByte) - 1),
             WriteByte(i, val)
      PROVE  Holds(m_arr', meant', N)
  <2>1. /\ \A b \in val : i * BitsInByte + b < N
        /\ m_arr' = [m_arr EXCEPT ![i] = val]
        /\ meant' = {p \in meant : p \div BitsInByte # i} \union {i * BitsInByte + b : b \in val}
    BY <1>3 DEF WriteByte
  <2>2. val \in SUBSET (0 .. 7)
    <3>1. N % 8 \in 0 .. 7
      BY BitsAssumption
    <3>2. 0 .. (N % BitsInByte) - 1 \subseteq 0 .. 7
      BY <3>1 DEF BitsInByte
    <3> QED
      BY <3>2
  <2> QED
    BY <1>1, <2>1, <2>2, HoldsWritten
<1>4. Holds(m_arr', meant', N)
  BY <1>2, <1>3
<1> QED
  BY <1>1, <1>4 DEF BitsInv

LEMMA EnumStep ==
    ASSUME BitsInv, NEW v \in Range(Enumerators), Insert(v) \/ \E c \in Cell : AssignCell(v, c)
    PROVE  BitsInv'
<1>1. EnumIndex(v) \in 0 .. Len(Enumerators) - 1
  BY EnumIndexIs
<1>2. CASE Insert(v)
  <2>1. /\ kind = "enum_set" /\ kind' = "enum_set" /\ meant' = meant \union {v}
        /\ m_arr' = Stored(EnumIndex(v), TRUE)
        /\ meant \subseteq Range(Enumerators) /\ Holds(m_arr, Places(meant), Len(Enumerators))
    BY <1>2 DEF Insert, BitsInv
  <2>2. Places(meant') = Places(meant) \union {EnumIndex(v)}
    BY <2>1 DEF Places
  <2>3. Holds(Stored(EnumIndex(v), TRUE), Places(meant) \union {EnumIndex(v)}, Len(Enumerators))
    <3>1. Len(Enumerators) \in Nat /\ TRUE \in BOOLEAN
      BY BitsAssumption
    <3>2. Holds(Stored(EnumIndex(v), TRUE),
                IF TRUE THEN Places(meant) \union {EnumIndex(v)} ELSE Places(meant) \ {EnumIndex(v)},
                Len(Enumerators))
      BY <1>1, <2>1, <3>1, HoldsStored
    <3> QED
      BY <3>2
  <2> QED
    BY <2>1, <2>2, <2>3 DEF BitsInv, Places
<1>3. ASSUME NEW c \in Cell, AssignCell(v, c) PROVE BitsInv'
  <2>1. /\ kind = "enum_array" /\ kind' = "enum_array"
        /\ cells' = [cells EXCEPT ![EnumIndex(v)] = c] /\ meant' = [meant EXCEPT ![v] = c]
        /\ cells = [i \in 0 .. Len(Enumerators) - 1 |-> cells[i]]
        /\ meant = [w \in Range(Enumerators) |-> meant[w]]
        /\ \A w \in Range(Enumerators) : cells[EnumIndex(w)] = meant[w]
    BY <1>3 DEF AssignCell, BitsInv
  <2>2. ASSUME NEW w \in Range(Enumerators) PROVE cells'[EnumIndex(w)] = meant'[w]
    <3>1. EnumIndex(w) \in 0 .. Len(Enumerators) - 1 /\ (EnumIndex(w) = EnumIndex(v) => w = v)
      BY EnumIndexIs, EnumIndexApart
    <3> QED
      BY <2>1, <3>1
  <2>3. /\ cells' = [i \in 0 .. Len(Enumerators) - 1 |-> cells'[i]]
        /\ meant' = [w \in Range(Enumerators) |-> meant'[w]]
    BY <2>1
  <2> QED
    BY <2>1, <2>2, <2>3 DEF BitsInv
<1> QED
  BY <1>2, <1>3

\* For sets of any size, any enumerators and any flags: bitsets, enum sets, enum
\* arrays and masks hold what was stored in them, provided that binary literals
\* have at most eight digits and flags are no wider than an int.
THEOREM BitsHeld == ShortLiterals /\ NarrowFlags => (BitsSpec => []BitsAsMeant)
<1> SUFFICES ASSUME ShortLiterals, NarrowFlags PROVE BitsSpec => []BitsAsMeant
  OBVIOUS
<1>1. BitsInit => BitsInv
  BY BitsBegin
<1>2. BitsInv /\ [BitsNext]_bitsVars => BitsInv'
  <2> SUFFICES ASSUME BitsInv, [BitsNext]_bitsVars PROVE BitsInv'
    OBVIOUS
  <2>1. ASSUME NEW e \in Flag, BuildMask(e) \/ Or(e) \/ And(e) PROVE BitsInv'
    <3>1. kind = "bitmask" /\ kind' = "bitmask" /\ m_v = UNION meant
      BY <2>1 DEF BuildMask, Or, And, BitsInv
    <3>2. m_v' = UNION meant'
      BY <2>1, <3>1 DEF BuildMask, Or, And
    <3> QED
      BY <3>1, <3>2 DEF BitsInv
  <2>2. CASE UNCHANGED bitsVars
    BY <2>2 DEF bitsVars, BitsInv
  <2> QED
    BY <2>1, <2>2, BitsetStep, EnumStep DEF BitsNext
<1>3. BitsInv => BitsAsMeant
  BY BitsInvMeans
<1> QED
  BY <1>1, <1>2, <1>3, PTL DEF BitsSpec

-----------------------------------------------------------------------------
(* Matrices: where an element is *)

\* A store, and the index of an element
Store(h, w, e) == [h |-> h, w |-> w, elems |-> e]
Index(w, i, j) == w * i + j
Indices(h, w) == 0 .. h * w - 1

LEMMA IndexIs ==
    ASSUME NEW h \in Nat, NEW w \in Nat, NEW i \in 0 .. h - 1, NEW j \in 0 .. w - 1
    PROVE  /\ Index(w, i, j) \in Indices(h, w)
           /\ Index(w, i, j) \div w = i /\ Index(w, i, j) % w = j
<1>1. w \in Nat \ {0} /\ i \in Nat /\ j \in Nat /\ w * i \in Nat
  OBVIOUS
<1>2. w * i + w <= h * w
  <2>1. i + 1 <= h /\ h - (i + 1) \in Nat
    OBVIOUS
  <2>2. w * (h - (i + 1)) \in Nat
    BY <1>1, <2>1
  <2>3. w * (h - (i + 1)) = h * w - (w * i + w)
    BY <1>1
  <2> QED
    BY <1>1, <2>2, <2>3
<1>3. Index(w, i, j) \in Int /\ Index(w, i, j) = (w * i) + j
  BY <1>1 DEF Index
<1>4. Index(w, i, j) \in 0 .. h * w - 1
  BY <1>1, <1>2, <1>3
<1> QED
  BY <1>1, <1>3, <1>4, RemainderIs DEF Indices

LEMMA PlaceInRow ==
    ASSUME NEW h \in Nat, NEW w \in Nat, NEW y \in Indices(h, w)
    PROVE  /\ w # 0 /\ y \div w \in 0 .. h - 1 /\ y % w \in 0 .. w - 1
           /\ Index(w, y \div w, y % w) = y
<1>1. w \in Nat \ {0} /\ y \in Nat /\ y < h * w
  BY DEF Indices
<1> DEFINE q == y \div w
           m == y % w
<1>2. y = (w * q) + m /\ m \in 0 .. w - 1 /\ q \in Int
  <2>1. y \in Int /\ w \in Nat \ {0}
    BY <1>1
  <2> QED
    BY <2>1, DivMod
<1> HIDE DEF q, m
<1>3. q >= 0
  <2>1. CASE q <= -1
    <3>1. w * q <= -w
      BY <1>1, <1>2, <2>1
    <3> QED
      BY <1>1, <1>2, <3>1
  <2> QED
    BY <1>2, <2>1
<1>4. q < h
  <2>1. CASE q >= h
    <3>1. w * q >= w * h /\ w * h = h * w
      BY <1>1, <1>2, <2>1
    <3> QED
      BY <1>1, <1>2, <3>1
  <2> QED
    BY <1>2, <2>1
<1>5. q \in 0 .. h - 1 /\ m \in 0 .. w - 1 /\ Index(w, q, m) = y
  BY <1>2, <1>3, <1>4 DEF Index
<1> QED
  BY <1>1, <1>5 DEF q, m

LEMMA WrittenIs ==
    ASSUME NEW h, NEW w, NEW D, NEW e, DOMAIN e = D, NEW i, NEW j, NEW v
    PROVE  Written(Store(h, w, e), i, j, v)
             = Store(h, w, [y \in D |-> IF y = Index(w, i, j) THEN v ELSE e[y]])
BY DEF Written, Store, Index, flatten_index

LEMMA ElemIs ==
    ASSUME NEW h, NEW w, NEW e, NEW i, NEW j
    PROVE  Elem(Store(h, w, e), i, j) = e[Index(w, i, j)]
BY DEF Elem, Store, Index, flatten_index

LEMMA StoreParts ==
    ASSUME NEW h, NEW w, NEW e
    PROVE  Store(h, w, e).h = h /\ Store(h, w, e).w = w /\ Store(h, w, e).elems = e
BY DEF Store

\* The x-th element visited is the one at index x - 1
LEMMA VisitedIs ==
    ASSUME NEW h \in Nat, NEW w \in Nat, NEW x \in 1 .. h * w
    PROVE  /\ x - 1 \in Indices(h, w) /\ x - 1 \in 0 .. h * w /\ x \in Nat /\ x # 0
           /\ Visited(w, x)[1] = (x - 1) \div w /\ Visited(w, x)[2] = (x - 1) % w
           /\ Visited(w, x) = << (x - 1) \div w, (x - 1) % w >>
           /\ Index(w, Visited(w, x)[1], Visited(w, x)[2]) = x - 1
           /\ Visited(w, x)[2] \in 0 .. w - 1
<1>1. h * w \in Nat
  OBVIOUS
<1>2. x - 1 \in Indices(h, w) /\ x - 1 \in 0 .. h * w /\ x \in Nat /\ x # 0
  BY <1>1 DEF Indices
<1>3. /\ Visited(w, x)[1] = (x - 1) \div w /\ Visited(w, x)[2] = (x - 1) % w
      /\ Visited(w, x) = << (x - 1) \div w, (x - 1) % w >>
  BY DEF Visited
<1> QED
  BY <1>2, <1>3, PlaceInRow

-----------------------------------------------------------------------------
(* Matrices: the loops.  What a matrix is after each iteration is known, so  *)
(* the recursive function of the loop exists, and it has no other value.     *)

\* The first x elements come from V, the others from e
Partly(h, w, V, e, x) == Store(h, w, [y \in Indices(h, w) |-> IF y < x THEN V[y] ELSE e[y]])

LEMMA PartlyStarts ==
    ASSUME NEW h \in Nat, NEW w \in Nat, NEW V, NEW e, e = [y \in Indices(h, w) |-> e[y]]
    PROVE  Partly(h, w, V, e, 0) = Store(h, w, e)
<1>1. \A y \in Indices(h, w) : ~(y < 0)
  BY DEF Indices
<1>2. [y \in Indices(h, w) |-> IF y < 0 THEN V[y] ELSE e[y]] = [y \in Indices(h, w) |-> e[y]]
  BY <1>1
<1> QED
  BY <1>2 DEF Partly

LEMMA PartlyEnds ==
    ASSUME NEW h \in Nat, NEW w \in Nat, NEW V, NEW e, V = [y \in Indices(h, w) |-> V[y]]
    PROVE  Partly(h, w, V, e, h * w) = Store(h, w, V)
<1>1. \A y \in Indices(h, w) : y < h * w
  BY DEF Indices
<1>2. [y \in Indices(h, w) |-> IF y < h * w THEN V[y] ELSE e[y]] = [y \in Indices(h, w) |-> V[y]]
  BY <1>1
<1> QED
  BY <1>2 DEF Partly

LEMMA PartlyGoesOn ==
    ASSUME NEW h \in Nat, NEW w \in Nat, NEW V, NEW e, NEW x \in 1 .. h * w, NEW i, NEW j,
           Index(w, i, j) = x - 1
    PROVE  Written(Partly(h, w, V, e, x - 1), i, j, V[x - 1]) = Partly(h, w, V, e, x)
<1> DEFINE E(k) == [y \in Indices(h, w) |-> IF y < k THEN V[y] ELSE e[y]]
<1>1. DOMAIN E(x - 1) = Indices(h, w)
  OBVIOUS
<1>2. Written(Store(h, w, E(x - 1)), i, j, V[x - 1])
        = Store(h, w, [y \in Indices(h, w) |-> IF y = x - 1 THEN V[x - 1] ELSE E(x - 1)[y]])
  BY <1>1, WrittenIs
<1>3. \A y \in Indices(h, w) : (IF y = x - 1 THEN V[x - 1] ELSE E(x - 1)[y]) = IF y < x THEN V[y] ELSE e[y]
  <2>1. h * w \in Nat
    OBVIOUS
  <2>2. ASSUME NEW y \in Indices(h, w)
        PROVE  (y < x <=> y < x - 1 \/ y = x - 1)
    BY <2>1 DEF Indices
  <2> QED
    BY <2>2
<1>4. [y \in Indices(h, w) |-> IF y = x - 1 THEN V[x - 1] ELSE E(x - 1)[y]] = E(x)
  BY <1>3
<1> QED
  BY <1>2, <1>4 DEF Partly

LEMMA FilledIs ==
    ASSUME NEW h \in Nat, NEW w \in Nat, NEW f
    PROVE  Filled(h, w, f)
             = Store(h, w, [y \in Indices(h, w) |-> f[<< y \div w, y % w >>]])
<1> DEFINE V == [y \in Indices(h, w) |-> f[<< y \div w, y % w >>]]
           e == [y \in Indices(h, w) |-> 0]
           F(x) == Partly(h, w, V, e, x)
           Loop(g) == g = [x \in 0 .. h * w |->
                              IF x = 0 THEN Store(h, w, e)
                              ELSE Written(g[x - 1], Visited(w, x)[1], Visited(w, x)[2], f[Visited(w, x)])]
<1>0. h * w \in Nat
  OBVIOUS
<1>1. F(0) = Store(h, w, e)
  BY PartlyStarts
<1>2. ASSUME NEW x \in 1 .. h * w
      PROVE  F(x) = Written(F(x - 1), Visited(w, x)[1], Visited(w, x)[2], f[Visited(w, x)])
  <2>1. V[x - 1] = f[Visited(w, x)]
    <3>1. x - 1 \in Indices(h, w) /\ Visited(w, x) = << (x - 1) \div w, (x - 1) % w >>
      BY VisitedIs
    <3>2. V[x - 1] = f[<< (x - 1) \div w, (x - 1) % w >>]
      BY <3>1
    <3> QED
      BY <3>1, <3>2
  <2> HIDE DEF V, e
  <2> QED
    BY <2>1, VisitedIs, PartlyGoesOn
<1> HIDE DEF F
<1>3. \E g : Loop(g)
  <2> DEFINE g == [x \in 0 .. h * w |-> F(x)]
  <2>1. ASSUME NEW x \in 0 .. h * w
        PROVE  F(x) = IF x = 0 THEN Store(h, w, e)
                      ELSE Written(g[x - 1], Visited(w, x)[1], Visited(w, x)[2], f[Visited(w, x)])
    <3>1. CASE x = 0
      BY <1>1, <3>1
    <3>2. CASE x # 0
      <4>1. x \in 1 .. h * w /\ x - 1 \in 0 .. h * w
        BY <1>0, <3>2
      <4> QED
        BY <1>2, <3>2, <4>1
    <3> QED
      BY <3>1, <3>2
  <2>2. Loop(g)
    BY <2>1
  <2> QED
    BY <2>2
<1>4. PICK g : Loop(g) /\ Filled(h, w, f) = g[h * w]
  <2>1. Filled(h, w, f) = (CHOOSE g : Loop(g))[h * w]
    BY DEF Filled, Store, Indices
  <2> HIDE DEF Loop
  <2> QED
    BY <1>3, <2>1
<1>5. \A x \in 0 .. h * w :
        g[x] = IF x = 0 THEN Store(h, w, e)
               ELSE Written(g[x - 1], Visited(w, x)[1], Visited(w, x)[2], f[Visited(w, x)])
  BY <1>4
<1> DEFINE T == {x \in 0 .. h * w : g[x] # F(x)}
<1>6. T = {}
  <2>1. SUFFICES ASSUME T # {} PROVE FALSE
    OBVIOUS
  <2>2. PICK x \in T : \A y \in T : x <= y
    <3> HIDE DEF T
    <3>1. T \in SUBSET Nat
      BY DEF T
    <3> QED
      BY <2>1, <3>1, LeastNumber
  <2>3. x # 0
    BY <1>1, <1>5
  <2>4. x \in 1 .. h * w /\ x - 1 \in 0 .. h * w /\ x - 1 \notin T
    BY <1>0, <2>2, <2>3
  <2> QED
    BY <1>2, <1>5, <2>3, <2>4
<1>7. F(h * w) = Store(h, w, V)
  BY PartlyEnds DEF F
<1> HIDE DEF V, e
<1>8. h * w \in 0 .. h * w
  BY <1>0
<1>9. Filled(h, w, f) = Store(h, w, V)
  BY <1>4, <1>6, <1>7, <1>8
<1> QED
  BY <1>9 DEF V

\* What += and -= make of two elements
Combined(sign, x, y) == IF sign = 1 THEN x + y ELSE x - y

LEMMA AccumulatedIs ==
    ASSUME NEW h \in Nat, NEW w \in Nat, NEW a, a = [y \in Indices(h, w) |-> a[y]], NEW b,
           NEW alias \in BOOLEAN, alias => b = a, NEW sign
    PROVE  Accumulated(Store(h, w, a), Store(h, w, b), alias, sign) = Store(h, w, [y \in Indices(h, w) |-> Combined(sign, a[y], b[y])])
<1> DEFINE V == [y \in Indices(h, w) |-> Combined(sign, a[y], b[y])]
           e == a
           F(x) == Partly(h, w, V, e, x)
           Added(acc, i, j) ==
              Written(acc, i, j, Combined(sign, Elem(acc, i, j),
                                          Elem(IF alias THEN acc ELSE Store(h, w, b), i, j)))
           Loop(g) == g = [x \in 0 .. h * w |-> IF x = 0 THEN Store(h, w, a) ELSE Added(g[x - 1], Visited(w, x)[1], Visited(w, x)[2])]
<1>0. h * w \in Nat
  OBVIOUS
<1>1. F(0) = Store(h, w, a)
  BY PartlyStarts
<1>2. ASSUME NEW x \in 1 .. h * w
      PROVE  F(x) = Added(F(x - 1), Visited(w, x)[1], Visited(w, x)[2])
  <2> DEFINE i == Visited(w, x)[1]
             j == Visited(w, x)[2]
  <2>1. x - 1 \in Indices(h, w) /\ Index(w, i, j) = x - 1
    BY VisitedIs
  <2> HIDE DEF i, j
  <2>2. Elem(F(x - 1), i, j) = a[x - 1]
    <3>1. Elem(F(x - 1), i, j) = [y \in Indices(h, w) |-> IF y < x - 1 THEN V[y] ELSE e[y]][x - 1]
      BY <2>1, ElemIs DEF Partly
    <3>2. ~(x - 1 < x - 1)
      BY <1>0
    <3> QED
      BY <2>1, <3>1, <3>2
  <2>3. Elem(IF alias THEN F(x - 1) ELSE Store(h, w, b), i, j) = b[x - 1]
    <3>1. Elem(Store(h, w, b), i, j) = b[x - 1]
      BY <2>1, ElemIs
    <3> HIDE DEF F
    <3> QED
      BY <2>2, <3>1
  <2>4. V[x - 1] = Combined(sign, a[x - 1], b[x - 1])
    BY <2>1
  <2>5. Added(F(x - 1), i, j) = Written(F(x - 1), i, j, V[x - 1])
    BY <2>2, <2>3, <2>4
  <2>6. Written(F(x - 1), i, j, V[x - 1]) = F(x)
    <3> HIDE DEF V, e
    <3> QED
      BY <2>1, PartlyGoesOn
  <2>7. F(x) = Added(F(x - 1), i, j)
    BY <2>5, <2>6
  <2> QED
    BY <2>7 DEF i, j
<1> HIDE DEF F
<1>3. \E g : Loop(g)
  <2> DEFINE g == [x \in 0 .. h * w |-> F(x)]
  <2>1. ASSUME NEW x \in 0 .. h * w
        PROVE  F(x) = IF x = 0 THEN Store(h, w, a) ELSE Added(g[x - 1], Visited(w, x)[1], Visited(w, x)[2])
    <3>1. CASE x = 0
      BY <1>1, <3>1
    <3>2. CASE x # 0
      <4>1. x \in 1 .. h * w /\ x - 1 \in 0 .. h * w
        BY <1>0, <3>2
      <4> QED
        BY <1>2, <3>2, <4>1
    <3> QED
      BY <3>1, <3>2
  <2>2. Loop(g)
    BY <2>1
  <2> QED
    BY <2>2
<1>4. PICK g : Loop(g) /\ Accumulated(Store(h, w, a), Store(h, w, b), alias, sign) = g[h * w]
  <2>1. Accumulated(Store(h, w, a), Store(h, w, b), alias, sign) = (CHOOSE g : Loop(g))[h * w]
    BY DEF Accumulated, Store, Combined
  <2> HIDE DEF Loop
  <2> QED
    BY <1>3, <2>1
<1>5. \A x \in 0 .. h * w : g[x] = IF x = 0 THEN Store(h, w, a) ELSE Added(g[x - 1], Visited(w, x)[1], Visited(w, x)[2])
  BY <1>4
<1> DEFINE T == {x \in 0 .. h * w : g[x] # F(x)}
<1>6. T = {}
  <2>1. SUFFICES ASSUME T # {} PROVE FALSE
    OBVIOUS
  <2>2. PICK x \in T : \A y \in T : x <= y
    <3> HIDE DEF T
    <3>1. T \in SUBSET Nat
      BY <1>0 DEF T
    <3> QED
      BY <2>1, <3>1, LeastNumber
  <2>3. x # 0
    BY <1>0, <1>1, <1>5
  <2>4. x \in 1 .. h * w /\ x - 1 \in 0 .. h * w /\ x - 1 \notin T
    BY <1>0, <2>2, <2>3
  <2> QED
    BY <1>2, <1>5, <2>3, <2>4
<1>7. F(h * w) = Store(h, w, V)
  BY PartlyEnds DEF F
<1> HIDE DEF V, e
<1>8. h * w \in 0 .. h * w
  BY <1>0
<1>9. Accumulated(Store(h, w, a), Store(h, w, b), alias, sign) = F(h * w)
  BY <1>4, <1>6, <1>8
<1> QED
  BY <1>7, <1>9 DEF V

LEMMA FilledZeros ==
    ASSUME NEW h \in Nat, NEW w \in Nat
    PROVE  Filled(h, w, zeros(h, w)) = Store(h, w, [y \in Indices(h, w) |-> 0])
<1>1. \A y \in Indices(h, w) : zeros(h, w)[<< y \div w, y % w >>] = 0
  BY PlaceInRow DEF zeros
<1>2. [y \in Indices(h, w) |-> zeros(h, w)[<< y \div w, y % w >>]] = [y \in Indices(h, w) |-> 0]
  BY <1>1
<1> QED
  BY <1>2, FilledIs

LEMMA MultipliedIs ==
    ASSUME NEW h \in Nat, NEW m, NEW a, NEW b
    PROVE  Multiplied(Store(h, m, a), Store(m, h, b)) = Store(h, h, [y \in Indices(h, h) |-> RowTimesColumn(Store(h, m, a), Store(m, h, b), y \div h, y % h)])
<1> DEFINE V == [y \in Indices(h, h) |-> RowTimesColumn(Store(h, m, a), Store(m, h, b), y \div h, y % h)]
           e == [y \in Indices(h, h) |-> 0]
           F(x) == Partly(h, h, V, e, x)
           Step(acc, i, j) == IF j < h THEN Written(acc, i, j, RowTimesColumn(Store(h, m, a), Store(m, h, b), i, j)) ELSE acc
           Loop(g) == g = [x \in 0 .. h * h |-> IF x = 0 THEN Store(h, h, e) ELSE Step(g[x - 1], Visited(h, x)[1], Visited(h, x)[2])]
<1>0. h * h \in Nat
  OBVIOUS
<1>1. F(0) = Store(h, h, e)
  BY PartlyStarts
<1>2. ASSUME NEW x \in 1 .. h * h
      PROVE  F(x) = Step(F(x - 1), Visited(h, x)[1], Visited(h, x)[2])
  <2> DEFINE i == Visited(h, x)[1]
             j == Visited(h, x)[2]
  <2>1. /\ x - 1 \in Indices(h, h) /\ Index(h, i, j) = x - 1 /\ j \in 0 .. h - 1
        /\ i = (x - 1) \div h /\ j = (x - 1) % h
    BY VisitedIs
  <2>2. V[x - 1] = RowTimesColumn(Store(h, m, a), Store(m, h, b), (x - 1) \div h, (x - 1) % h)
    BY <2>1
  <2> HIDE DEF i, j, V, e
  <2>3. Written(F(x - 1), i, j, V[x - 1]) = F(x)
    BY <2>1, PartlyGoesOn
  <2>4. j < h
    BY <2>1
  <2> HIDE DEF F
  <2>5. F(x) = Step(F(x - 1), i, j)
    BY <2>1, <2>2, <2>3, <2>4
  <2> QED
    BY <2>5 DEF i, j
<1> HIDE DEF F
<1>3. \E g : Loop(g)
  <2> DEFINE g == [x \in 0 .. h * h |-> F(x)]
  <2>1. ASSUME NEW x \in 0 .. h * h
        PROVE  F(x) = IF x = 0 THEN Store(h, h, e) ELSE Step(g[x - 1], Visited(h, x)[1], Visited(h, x)[2])
    <3>1. CASE x = 0
      BY <1>1, <3>1
    <3>2. CASE x # 0
      <4>1. x \in 1 .. h * h /\ x - 1 \in 0 .. h * h
        BY <1>0, <3>2
      <4> QED
        BY <1>2, <3>2, <4>1
    <3> QED
      BY <3>1, <3>2
  <2>2. Loop(g)
    BY <2>1
  <2> QED
    BY <2>2
<1>4. PICK g : Loop(g) /\ Multiplied(Store(h, m, a), Store(m, h, b)) = g[h * h]
  <2>1. /\ Store(h, m, a).h = h /\ Store(m, h, b).w = h
        /\ Filled(h, h, zeros(h, h)) = Store(h, h, e)
    BY FilledZeros, StoreParts
  <2>2. Multiplied(Store(h, m, a), Store(m, h, b))
          = (CHOOSE g : g = [x \in 0 .. h * h |->
               IF x = 0 THEN Filled(h, h, zeros(h, h)) ELSE Step(g[x - 1], Visited(h, x)[1], Visited(h, x)[2])])[h * h]
    <3> HIDE DEF e
    <3> QED
      BY <2>1 DEF Multiplied, ColumnsVisited
  <2>3. Multiplied(Store(h, m, a), Store(m, h, b)) = (CHOOSE g : Loop(g))[h * h]
    <3> HIDE DEF e
    <3> QED
      BY <2>1, <2>2
  <2> HIDE DEF Loop
  <2> QED
    BY <1>3, <2>3
<1>5. \A x \in 0 .. h * h : g[x] = IF x = 0 THEN Store(h, h, e) ELSE Step(g[x - 1], Visited(h, x)[1], Visited(h, x)[2])
  BY <1>4
<1> DEFINE T == {x \in 0 .. h * h : g[x] # F(x)}
<1>6. T = {}
  <2>1. SUFFICES ASSUME T # {} PROVE FALSE
    OBVIOUS
  <2>2. PICK x \in T : \A y \in T : x <= y
    <3> HIDE DEF T
    <3>1. T \in SUBSET Nat
      BY <1>0 DEF T
    <3> QED
      BY <2>1, <3>1, LeastNumber
  <2>3. x # 0
    BY <1>0, <1>1, <1>5
  <2>4. x \in 1 .. h * h /\ x - 1 \in 0 .. h * h /\ x - 1 \notin T
    BY <1>0, <2>2, <2>3
  <2> QED
    BY <1>2, <1>5, <2>3, <2>4
<1>7. F(h * h) = Store(h, h, V)
  BY PartlyEnds DEF F
<1> HIDE DEF V, e
<1>8. h * h \in 0 .. h * h
  BY <1>0
<1>9. Multiplied(Store(h, m, a), Store(m, h, b)) = F(h * h)
  BY <1>4, <1>6, <1>8
<1> QED
  BY <1>7, <1>9 DEF V

-----------------------------------------------------------------------------
(* Matrices: *= row by row *)

LEMMA SameIndex ==
    ASSUME NEW h \in Nat, NEW w \in Nat, NEW i \in 0 .. h - 1, NEW j \in 0 .. w - 1,
           NEW y \in Indices(h, w)
    PROVE  y = Index(w, i, j) <=> y \div w = i /\ y % w = j
BY IndexIs, PlaceInRow

LEMMA RowReplacedIs ==
    ASSUME NEW h \in Nat, NEW w \in Nat, NEW a, a = [y \in Indices(h, w) |-> a[y]],
           NEW i \in 0 .. h - 1, NEW vec, Len(vec) = w
    PROVE  RowReplaced(Store(h, w, a), i, vec)
             = Store(h, w, [y \in Indices(h, w) |-> IF y \div w = i THEN vec[(y % w) + 1] ELSE a[y]])
<1> DEFINE V == [y \in Indices(h, w) |-> IF y \div w = i THEN vec[(y % w) + 1] ELSE a[y]]
           E(x) == [y \in Indices(h, w) |-> IF y \div w = i /\ y % w < x THEN vec[(y % w) + 1] ELSE a[y]]
           F(x) == Store(h, w, E(x))
           Loop(g) == g = [x \in 0 .. w |->
                              IF x = 0 THEN Store(h, w, a) ELSE Written(g[x - 1], i, x - 1, vec[x])]
<1>1. F(0) = Store(h, w, a)
  <2>1. \A y \in Indices(h, w) : ~(y % w < 0)
    BY PlaceInRow
  <2>2. E(0) = [y \in Indices(h, w) |-> a[y]]
    BY <2>1
  <2> QED
    BY <2>2
<1>2. ASSUME NEW x \in 1 .. w
      PROVE  F(x) = Written(F(x - 1), i, x - 1, vec[x])
  <2>1. DOMAIN E(x - 1) = Indices(h, w) /\ x - 1 \in 0 .. w - 1 /\ x - 1 + 1 = x
    OBVIOUS
  <2>2. Written(F(x - 1), i, x - 1, vec[x])
          = Store(h, w, [y \in Indices(h, w) |-> IF y = Index(w, i, x - 1) THEN vec[x] ELSE E(x - 1)[y]])
    <3> HIDE DEF E
    <3> QED
      BY <2>1, WrittenIs
  <2>3. ASSUME NEW y \in Indices(h, w)
        PROVE  (IF y = Index(w, i, x - 1) THEN vec[x] ELSE E(x - 1)[y]) = E(x)[y]
    <3>1. y = Index(w, i, x - 1) <=> y \div w = i /\ y % w = x - 1
      BY <2>1, SameIndex
    <3>2. y % w \in 0 .. w - 1
      BY PlaceInRow
    <3>3. y % w < x <=> y % w < x - 1 \/ y % w = x - 1
      BY <3>2
    <3> QED
      BY <2>1, <3>1, <3>2, <3>3
  <2>4. [y \in Indices(h, w) |-> IF y = Index(w, i, x - 1) THEN vec[x] ELSE E(x - 1)[y]] = E(x)
    <3>1. E(x) = [y \in Indices(h, w) |-> E(x)[y]]
      OBVIOUS
    <3> HIDE DEF E
    <3> QED
      BY <2>3, <3>1
  <2> QED
    BY <2>2, <2>4
<1>7. F(w) = Store(h, w, V)
  <2>1. \A y \in Indices(h, w) : y % w < w
    BY PlaceInRow
  <2>2. E(w) = V
    BY <2>1
  <2> QED
    BY <2>2
<1> HIDE DEF F
<1>3. \E g : Loop(g)
  <2> DEFINE g == [x \in 0 .. w |-> F(x)]
  <2>1. ASSUME NEW x \in 0 .. w
        PROVE  F(x) = IF x = 0 THEN Store(h, w, a) ELSE Written(g[x - 1], i, x - 1, vec[x])
    <3>1. CASE x = 0
      BY <1>1, <3>1
    <3>2. CASE x # 0
      <4>1. x \in 1 .. w /\ x - 1 \in 0 .. w
        BY <3>2
      <4> QED
        BY <1>2, <3>2, <4>1
    <3> QED
      BY <3>1, <3>2
  <2>2. Loop(g)
    BY <2>1
  <2> QED
    BY <2>2
<1>4. PICK g : Loop(g) /\ RowReplaced(Store(h, w, a), i, vec) = g[w]
  <2>1. RowReplaced(Store(h, w, a), i, vec) = (CHOOSE g : Loop(g))[w]
    BY DEF RowReplaced
  <2> HIDE DEF Loop
  <2> QED
    BY <1>3, <2>1
<1>5. \A x \in 0 .. w : g[x] = IF x = 0 THEN Store(h, w, a) ELSE Written(g[x - 1], i, x - 1, vec[x])
  BY <1>4
<1> DEFINE T == {x \in 0 .. w : g[x] # F(x)}
<1>6. T = {}
  <2>1. SUFFICES ASSUME T # {} PROVE FALSE
    OBVIOUS
  <2>2. PICK x \in T : \A y \in T : x <= y
    <3> HIDE DEF T
    <3>1. T \in SUBSET Nat
      BY DEF T
    <3> QED
      BY <2>1, <3>1, LeastNumber
  <2>3. x # 0
    BY <1>1, <1>5
  <2>4. x \in 1 .. w /\ x - 1 \in 0 .. w /\ x - 1 \notin T
    BY <2>2, <2>3
  <2> QED
    BY <1>2, <1>5, <2>3, <2>4
<1> HIDE DEF V
<1>8. w \in 0 .. w
  OBVIOUS
<1>9. RowReplaced(Store(h, w, a), i, vec) = F(w)
  BY <1>4, <1>6, <1>8
<1> QED
  BY <1>7, <1>9 DEF V

\* A row of the product reads one row of the matrix
LEMMA SameRow ==
    ASSUME NEW h \in Nat, NEW w \in Nat, NEW a, NEW c, NEW S, NEW i \in 0 .. h - 1, NEW j,
           \A k \in 0 .. w - 1 : c[Index(w, i, k)] = a[Index(w, i, k)]
    PROVE  RowTimesColumn(Store(h, w, c), S, i, j) = RowTimesColumn(Store(h, w, a), S, i, j)
<1>1. \A k \in 1 .. w : Elem(Store(h, w, c), i, k - 1) = Elem(Store(h, w, a), i, k - 1)
  <2> TAKE k \in 1 .. w
  <2>1. k - 1 \in 0 .. w - 1
    OBVIOUS
  <2> QED
    BY <2>1, ElemIs
<1>2. [k \in 1 .. w |-> Elem(Store(h, w, c), i, k - 1) * Elem(S, k - 1, j)]
        = [k \in 1 .. w |-> Elem(Store(h, w, a), i, k - 1) * Elem(S, k - 1, j)]
  BY <1>1
<1> QED
  BY <1>2, StoreParts DEF RowTimesColumn

LEMMA TimesInPlaceIs ==
    ASSUME NEW h \in Nat, NEW w \in Nat, NEW a, a = [y \in Indices(h, w) |-> a[y]], NEW b,
           NEW alias \in BOOLEAN, ~alias
    PROVE  TimesInPlace(Store(h, w, a), Store(w, w, b), alias)
             = Store(h, w, [y \in Indices(h, w) |->
                               RowTimesColumn(Store(h, w, a), Store(w, w, b), y \div w, y % w)])
<1> DEFINE R(i, j) == RowTimesColumn(Store(h, w, a), Store(w, w, b), i, j)
           V == [y \in Indices(h, w) |-> R(y \div w, y % w)]
           E(x) == [y \in Indices(h, w) |-> IF y \div w < x THEN R(y \div w, y % w) ELSE a[y]]
           F(x) == Store(h, w, E(x))
           Step(acc, i) ==
              RowReplaced(acc, i, [j \in 1 .. w |-> RowTimesColumn(acc, Store(w, w, b), i, j - 1)])
           Loop(g) == g = [x \in 0 .. h |-> IF x = 0 THEN Store(h, w, a) ELSE Step(g[x - 1], x - 1)]
<1>1. F(0) = Store(h, w, a)
  <2>1. \A y \in Indices(h, w) : ~(y \div w < 0)
    BY PlaceInRow
  <2>2. E(0) = [y \in Indices(h, w) |-> a[y]]
    BY <2>1
  <2> QED
    BY <2>2
<1>2. ASSUME NEW x \in 1 .. h
      PROVE  F(x) = Step(F(x - 1), x - 1)
  <2> DEFINE vec == [j \in 1 .. w |-> RowTimesColumn(F(x - 1), Store(w, w, b), x - 1, j - 1)]
  <2>1. x - 1 \in 0 .. h - 1
    OBVIOUS
  <2>2. \A k \in 0 .. w - 1 : E(x - 1)[Index(w, x - 1, k)] = a[Index(w, x - 1, k)]
    <3> TAKE k \in 0 .. w - 1
    <3>1. Index(w, x - 1, k) \in Indices(h, w) /\ Index(w, x - 1, k) \div w = x - 1
      BY <2>1, IndexIs
    <3> QED
      BY <3>1
  <2>3. \A j \in 1 .. w : vec[j] = R(x - 1, j - 1)
    <3> HIDE DEF E
    <3> QED
      BY <2>1, <2>2, SameRow
  <2>4. Len(vec) = w
    OBVIOUS
  <2>5. E(x - 1) = [y \in Indices(h, w) |-> E(x - 1)[y]]
    OBVIOUS
  <2> HIDE DEF vec
  <2>6. RowReplaced(F(x - 1), x - 1, vec)
          = Store(h, w, [y \in Indices(h, w) |-> IF y \div w = x - 1 THEN vec[(y % w) + 1] ELSE E(x - 1)[y]])
    <3> DEFINE c == E(x - 1)
    <3>1. c = [y \in Indices(h, w) |-> c[y]] /\ F(x - 1) = Store(h, w, c)
      BY <2>5
    <3> HIDE DEF c
    <3>2. RowReplaced(Store(h, w, c), x - 1, vec)
            = Store(h, w, [y \in Indices(h, w) |-> IF y \div w = x - 1 THEN vec[(y % w) + 1] ELSE c[y]])
      <4> DEFINE i == x - 1
      <4>1. i \in 0 .. h - 1
        BY <2>1
      <4> HIDE DEF i, E, R, F, V
      <4>2. RowReplaced(Store(h, w, c), i, vec)
              = Store(h, w, [y \in Indices(h, w) |-> IF y \div w = i THEN vec[(y % w) + 1] ELSE c[y]])
        BY <2>4, <3>1, <4>1, RowReplacedIs
      <4> QED
        BY <4>2 DEF i
    <3>3. RowReplaced(F(x - 1), x - 1, vec)
            = Store(h, w, [y \in Indices(h, w) |-> IF y \div w = x - 1 THEN vec[(y % w) + 1] ELSE c[y]])
      BY <3>1, <3>2
    <3> QED
      BY <3>3 DEF c
  <2>7. ASSUME NEW y \in Indices(h, w)
        PROVE  (IF y \div w = x - 1 THEN vec[(y % w) + 1] ELSE E(x - 1)[y]) = E(x)[y]
    <3>1. y \div w \in 0 .. h - 1 /\ y % w \in 0 .. w - 1
      BY PlaceInRow
    <3>2. y \div w < x <=> y \div w < x - 1 \/ y \div w = x - 1
      BY <3>1
    <3>3. vec[(y % w) + 1] = R(x - 1, y % w)
      <4> DEFINE j == (y % w) + 1
      <4>1. j \in 1 .. w /\ j - 1 = y % w
        BY <3>1
      <4> HIDE DEF R, j
      <4>2. vec[j] = R(x - 1, y % w)
        BY <2>3, <4>1
      <4> QED
        BY <4>2 DEF j
    <3> HIDE DEF R
    <3> QED
      BY <3>1, <3>2, <3>3
  <2>8. [y \in Indices(h, w) |-> IF y \div w = x - 1 THEN vec[(y % w) + 1] ELSE E(x - 1)[y]] = E(x)
    <3>1. E(x) = [y \in Indices(h, w) |-> E(x)[y]]
      OBVIOUS
    <3> HIDE DEF E
    <3> QED
      BY <2>7, <3>1
  <2>9. Step(F(x - 1), x - 1) = RowReplaced(F(x - 1), x - 1, vec)
    BY DEF vec
  <2> QED
    BY <2>6, <2>8, <2>9
<1>7. F(h) = Store(h, w, V)
  <2>1. \A y \in Indices(h, w) : y \div w < h
    BY PlaceInRow
  <2>2. E(h) = V
    BY <2>1
  <2> QED
    BY <2>2
<1> HIDE DEF F
<1>3. \E g : Loop(g)
  <2> DEFINE g == [x \in 0 .. h |-> F(x)]
  <2>1. ASSUME NEW x \in 0 .. h
        PROVE  F(x) = IF x = 0 THEN Store(h, w, a) ELSE Step(g[x - 1], x - 1)
    <3>1. CASE x = 0
      BY <1>1, <3>1
    <3>2. CASE x # 0
      <4>1. x \in 1 .. h /\ x - 1 \in 0 .. h
        BY <3>2
      <4>2. g[x - 1] = F(x - 1)
        BY <4>1
      <4> HIDE DEF Step
      <4> QED
        BY <1>2, <3>2, <4>1, <4>2
    <3> QED
      BY <3>1, <3>2
  <2> HIDE DEF Step
  <2>2. Loop(g)
    BY <2>1
  <2> HIDE DEF g
  <2> QED
    BY <2>2
<1>4. PICK g : Loop(g) /\ TimesInPlace(Store(h, w, a), Store(w, w, b), alias) = g[h]
  <2>0. Store(h, w, a).h = h /\ Store(w, w, b).w = w
    BY StoreParts
  <2>1. TimesInPlace(Store(h, w, a), Store(w, w, b), alias) = (CHOOSE g : Loop(g))[h]
    BY <2>0 DEF TimesInPlace
  <2> HIDE DEF Loop
  <2> QED
    BY <1>3, <2>1
<1>5. \A x \in 0 .. h : g[x] = IF x = 0 THEN Store(h, w, a) ELSE Step(g[x - 1], x - 1)
  <2> HIDE DEF Step
  <2> QED
    BY <1>4
<1> HIDE DEF Step, Loop
<1> DEFINE T == {x \in 0 .. h : g[x] # F(x)}
<1>6. T = {}
  <2>1. SUFFICES ASSUME T # {} PROVE FALSE
    OBVIOUS
  <2>2. PICK x \in T : \A y \in T : x <= y
    <3> HIDE DEF T
    <3>1. T \in SUBSET Nat
      BY DEF T
    <3> QED
      BY <2>1, <3>1, LeastNumber
  <2>3. x # 0
    BY <1>1, <1>5
  <2>4. x \in 1 .. h /\ x - 1 \in 0 .. h /\ x - 1 \notin T
    BY <2>2, <2>3
  <2>5. g[x] = Step(g[x - 1], x - 1) /\ g[x - 1] = F(x - 1) /\ g[x] # F(x)
    BY <1>5, <2>2, <2>3, <2>4
  <2> QED
    BY <1>2, <2>4, <2>5
<1> HIDE DEF V
<1>8. h \in 0 .. h
  OBVIOUS
<1>9. TimesInPlace(Store(h, w, a), Store(w, w, b), alias) = F(h)
  BY <1>4, <1>6, <1>8
<1> QED
  BY <1>7, <1>9 DEF V, R

\* The length of the longest of the first n rows, 0 if there is none
IsLongest(rows, n, m) ==
    /\ m \in Nat
    /\ \A i \in 1 .. n : Len(rows[i]) <= m
    /\ (n = 0 /\ m = 0) \/ (\E i \in 1 .. n : m = Len(rows[i]))

LEMMA LongerRow ==
    ASSUME NEW rows \in Seq(Seq(Int)), NEW n \in 1 .. Len(rows), NEW m, IsLongest(rows, n - 1, m)
    PROVE  IsLongest(rows, n, Larger(m, Len(rows[n])))
<1>1. Len(rows[n]) \in Nat /\ n \in Nat /\ \A i \in 1 .. n : Len(rows[i]) \in Nat
  <2>1. \A i \in 1 .. Len(rows) : rows[i] \in Seq(Int)
    OBVIOUS
  <2>2. \A i \in 1 .. n : i \in 1 .. Len(rows)
    OBVIOUS
  <2> QED
    BY <2>1, <2>2
<1>2. \A i \in 1 .. n : i = n \/ i \in 1 .. n - 1
  BY <1>1
<1>3. n \in 1 .. n /\ \A i \in 1 .. n - 1 : i \in 1 .. n
  BY <1>1
<1> DEFINE l == Larger(m, Len(rows[n]))
<1>4. l \in Nat /\ m <= l /\ Len(rows[n]) <= l /\ (l = m \/ l = Len(rows[n]))
  BY <1>1 DEF IsLongest, Larger
<1>5. m = 0 => l = Len(rows[n])
  BY <1>1 DEF Larger
<1> HIDE DEF l
<1>6. \A i \in 1 .. n : Len(rows[i]) <= l
  <2> TAKE i \in 1 .. n
  <2>1. CASE i = n
    BY <1>4, <2>1
  <2>2. CASE i \in 1 .. n - 1
    <3>1. Len(rows[i]) <= m /\ m \in Nat
      BY <2>2 DEF IsLongest
    <3> QED
      BY <1>1, <1>4, <3>1
  <2> QED
    BY <1>2, <2>1, <2>2
<1>7. \E i \in 1 .. n : l = Len(rows[i])
  <2>1. CASE l = Len(rows[n])
    BY <1>3, <2>1
  <2>2. CASE l = m /\ m # 0
    <3>1. PICK i \in 1 .. n - 1 : m = Len(rows[i])
      BY <2>2 DEF IsLongest
    <3> QED
      BY <1>3, <2>2, <3>1
  <2> QED
    BY <1>4, <1>5, <2>1, <2>2
<1>8. IsLongest(rows, n, l)
  BY <1>4, <1>6, <1>7 DEF IsLongest
<1> QED
  BY <1>8 DEF l

LEMMA MaxRowLenIs ==
    ASSUME NEW rows \in Seq(Seq(Int)), rows # <<>>
    PROVE  IsLongest(rows, Len(rows), max_row_len(rows))
<1>0. Len(rows) \in Nat
  OBVIOUS
<1> DEFINE Lacking == {n \in 0 .. Len(rows) : ~ \E m : IsLongest(rows, n, m)}
           F(n) == CHOOSE m : IsLongest(rows, n, m)
           Loop(g) == g = [n \in 0 .. Len(rows) |-> IF n = 0 THEN 0 ELSE Larger(g[n - 1], Len(rows[n]))]
<1>1. \A m : IsLongest(rows, 0, m) <=> m = 0
  BY DEF IsLongest
<1>2. Lacking = {}
  <2>1. SUFFICES ASSUME Lacking # {} PROVE FALSE
    OBVIOUS
  <2>2. PICK n \in Lacking : \A k \in Lacking : n <= k
    <3> HIDE DEF Lacking
    <3>1. Lacking \in SUBSET Nat
      BY DEF Lacking
    <3> QED
      BY <2>1, <3>1, LeastNumber
  <2>3. n # 0
    BY <1>1
  <2>4. n \in 1 .. Len(rows) /\ n - 1 \in 0 .. Len(rows) /\ ~(n <= n - 1)
    BY <1>0, <2>2, <2>3
  <2>5. n - 1 \notin Lacking
    <3> HIDE DEF Lacking
    <3> QED
      BY <2>2, <2>4
  <2> QED
    BY <2>4, <2>5, LongerRow
<1>3. \A n \in 0 .. Len(rows) : IsLongest(rows, n, F(n))
  <2> TAKE n \in 0 .. Len(rows)
  <2>1. \E m : IsLongest(rows, n, m)
    BY <1>2
  <2> QED
    BY <2>1
<1>4. ASSUME NEW n \in 1 .. Len(rows), NEW m, NEW k, IsLongest(rows, n, m), IsLongest(rows, n, k)
      PROVE  m = k
  BY <1>4 DEF IsLongest
<1> HIDE DEF F
<1>5. F(0) = 0
  BY <1>0, <1>1, <1>3
<1>6. ASSUME NEW n \in 1 .. Len(rows)
      PROVE  F(n) = Larger(F(n - 1), Len(rows[n]))
  <2>1. n - 1 \in 0 .. Len(rows) /\ n \in 0 .. Len(rows)
    BY <1>0
  <2> QED
    BY <1>3, <1>4, <2>1, LongerRow
<1>7. \E g : Loop(g)
  <2> DEFINE g == [n \in 0 .. Len(rows) |-> F(n)]
  <2>1. ASSUME NEW n \in 0 .. Len(rows)
        PROVE  F(n) = IF n = 0 THEN 0 ELSE Larger(g[n - 1], Len(rows[n]))
    <3>1. CASE n = 0
      BY <1>5, <3>1
    <3>2. CASE n # 0
      <4>1. n \in 1 .. Len(rows) /\ n - 1 \in 0 .. Len(rows)
        BY <1>0, <3>2
      <4> QED
        BY <1>6, <3>2, <4>1
    <3> QED
      BY <3>1, <3>2
  <2>2. Loop(g)
    BY <2>1
  <2> QED
    BY <2>2
<1>8. PICK g : Loop(g) /\ max_row_len(rows) = g[Len(rows)]
  <2>1. max_row_len(rows) = (CHOOSE g : Loop(g))[Len(rows)]
    BY DEF max_row_len
  <2> HIDE DEF Loop
  <2> QED
    BY <1>7, <2>1
<1>9. \A n \in 0 .. Len(rows) : g[n] = IF n = 0 THEN 0 ELSE Larger(g[n - 1], Len(rows[n]))
  BY <1>8
<1> DEFINE T == {n \in 0 .. Len(rows) : g[n] # F(n)}
<1>10. T = {}
  <2>1. SUFFICES ASSUME T # {} PROVE FALSE
    OBVIOUS
  <2>2. PICK n \in T : \A k \in T : n <= k
    <3> HIDE DEF T
    <3>1. T \in SUBSET Nat
      BY DEF T
    <3> QED
      BY <2>1, <3>1, LeastNumber
  <2>3. n # 0
    BY <1>0, <1>5, <1>9
  <2>4. n \in 1 .. Len(rows) /\ n - 1 \in 0 .. Len(rows) /\ n - 1 \notin T
    BY <1>0, <2>2, <2>3
  <2> QED
    BY <1>6, <1>9, <2>3, <2>4
<1>11. Len(rows) \in 0 .. Len(rows)
  BY <1>0
<1> QED
  BY <1>3, <1>8, <1>10, <1>11

-----------------------------------------------------------------------------
(* Matrices: every object stands for its matrix *)

\* The store s holds the h rows and w columns of the matrix m
Stands(s, m, h, w) ==
    /\ s = Store(h, w, s.elems)
    /\ s.elems = [y \in Indices(h, w) |-> s.elems[y]]
    /\ m = [i \in 1 .. h |-> [j \in 1 .. w |-> m[i][j]]]
    /\ \A i \in 1 .. h, j \in 1 .. w : s.elems[Index(w, i - 1, j - 1)] = m[i][j]

StandsSome(s, m) == \E h \in Nat \ {0}, w \in Nat : Stands(s, m, h, w)

LEMMA StandsIf ==
    ASSUME NEW h \in Nat, NEW w \in Nat, NEW V, V = [y \in Indices(h, w) |-> V[y]],
           NEW m, m = [i \in 1 .. h |-> [j \in 1 .. w |-> m[i][j]]],
           \A i \in 1 .. h, j \in 1 .. w : V[Index(w, i - 1, j - 1)] = m[i][j]
    PROVE  Stands(Store(h, w, V), m, h, w)
<1> DEFINE s == Store(h, w, V)
<1>1. s.elems = V /\ s = Store(h, w, V)
  BY StoreParts
<1> HIDE DEF s
<1>2. Stands(s, m, h, w)
  BY <1>1 DEF Stands
<1> QED
  BY <1>1, <1>2

LEMMA StandsParts ==
    ASSUME NEW s, NEW m, NEW h \in Nat \ {0}, NEW w \in Nat, Stands(s, m, h, w)
    PROVE  s.h = h /\ s.w = w /\ Height(m) = h /\ Breadth(m) = w
<1>1. s.h = h /\ s.w = w
  <2> DEFINE e == s.elems
  <2>1. s = Store(h, w, e)
    BY DEF Stands
  <2> HIDE DEF e
  <2>2. Store(h, w, e).h = h /\ Store(h, w, e).w = w
    BY StoreParts
  <2> QED
    BY <2>1, <2>2
<1>2. m = [i \in 1 .. h |-> [j \in 1 .. w |-> m[i][j]]]
  BY DEF Stands
<1>3. Height(m) = h
  BY <1>2 DEF Height
<1>4. Breadth(m) = w
  <2>1. 1 \in 1 .. h
    OBVIOUS
  <2>2. m[1] = [j \in 1 .. w |-> m[1][j]]
    BY <1>2, <2>1
  <2> QED
    BY <2>2 DEF Breadth
<1> QED
  BY <1>1, <1>3, <1>4

LEMMA StandsElem ==
    ASSUME NEW s, NEW m, NEW h \in Nat \ {0}, NEW w \in Nat, Stands(s, m, h, w),
           NEW i \in 1 .. h, NEW j \in 1 .. w
    PROVE  Elem(s, i - 1, j - 1) = m[i][j]
<1> DEFINE e == s.elems
<1>1. s = Store(h, w, e) /\ e[Index(w, i - 1, j - 1)] = m[i][j]
  BY DEF Stands
<1> HIDE DEF e
<1>2. Elem(Store(h, w, e), i - 1, j - 1) = e[Index(w, i - 1, j - 1)]
  BY ElemIs
<1> QED
  BY <1>1, <1>2

\* The places of a matrix are those of its store
LEMMA PlaceIs ==
    ASSUME NEW h \in Nat, NEW w \in Nat, NEW i \in 1 .. h, NEW j \in 1 .. w
    PROVE  /\ Index(w, i - 1, j - 1) \in Indices(h, w)
           /\ Index(w, i - 1, j - 1) \div w = i - 1 /\ Index(w, i - 1, j - 1) % w = j - 1
<1>1. i - 1 \in 0 .. h - 1 /\ j - 1 \in 0 .. w - 1
  OBVIOUS
<1> QED
  BY <1>1, IndexIs

LEMMA FilledStands ==
    ASSUME NEW h \in Nat, NEW w \in Nat, NEW f,
           NEW m, m = [i \in 1 .. h |-> [j \in 1 .. w |-> m[i][j]]],
           \A i \in 1 .. h, j \in 1 .. w : f[<< i - 1, j - 1 >>] = m[i][j]
    PROVE  Stands(Filled(h, w, f), m, h, w)
<1> DEFINE V == [y \in Indices(h, w) |-> f[<< y \div w, y % w >>]]
<1>1. \A i \in 1 .. h, j \in 1 .. w : V[Index(w, i - 1, j - 1)] = m[i][j]
  <2> TAKE i \in 1 .. h, j \in 1 .. w
  <2>1. V[Index(w, i - 1, j - 1)] = f[<< i - 1, j - 1 >>]
    BY PlaceIs
  <2> QED
    BY <2>1
<1>2. V = [y \in Indices(h, w) |-> V[y]]
  OBVIOUS
<1>4. Filled(h, w, f) = Store(h, w, V)
  <2>1. Filled(h, w, f) = Store(h, w, [y \in Indices(h, w) |-> f[<< y \div w, y % w >>]])
    BY ONLY h \in Nat, w \in Nat, FilledIs
  <2> QED
    BY <2>1
<1> HIDE DEF V
<1>3. Stands(Store(h, w, V), m, h, w)
  BY <1>1, <1>2, StandsIf
<1> QED
  BY <1>3, <1>4

LEMMA WrittenStands ==
    ASSUME NEW h \in Nat \ {0}, NEW w \in Nat, NEW s, NEW m, Stands(s, m, h, w),
           NEW i \in 0 .. h - 1, NEW j \in 0 .. w - 1, NEW v
    PROVE  Stands(Written(s, i, j, v), [m EXCEPT ![i + 1][j + 1] = v], h, w)
<1> DEFINE e == s.elems
           V == [y \in Indices(h, w) |-> IF y = Index(w, i, j) THEN v ELSE e[y]]
           M == [m EXCEPT ![i + 1][j + 1] = v]
<1>1. s = Store(h, w, e) /\ DOMAIN e = Indices(h, w) /\ m = [k \in 1 .. h |-> [l \in 1 .. w |-> m[k][l]]]
  BY DEF Stands
<1>2. Written(s, i, j, v) = Store(h, w, V)
  <2> HIDE DEF e
  <2> QED
    BY <1>1, WrittenIs
<1>3. i + 1 \in 1 .. h /\ j + 1 \in 1 .. w /\ i + 1 - 1 = i /\ j + 1 - 1 = j
  OBVIOUS
<1>4. \A k \in 1 .. h, l \in 1 .. w : M[k][l] = IF k = i + 1 /\ l = j + 1 THEN v ELSE m[k][l]
  BY <1>1, <1>3
<1>5. M = [k \in 1 .. h |-> [l \in 1 .. w |-> M[k][l]]]
  BY <1>1, <1>3
<1>6. \A k \in 1 .. h, l \in 1 .. w : V[Index(w, k - 1, l - 1)] = M[k][l]
  <2> TAKE k \in 1 .. h, l \in 1 .. w
  <2> DEFINE y == Index(w, k - 1, l - 1)
  <2>1. y \in Indices(h, w) /\ y \div w = k - 1 /\ y % w = l - 1
    BY PlaceIs
  <2>2. e[y] = m[k][l]
    BY DEF Stands
  <2> HIDE DEF y, e, M
  <2>3. y = Index(w, i, j) <=> k - 1 = i /\ l - 1 = j
    BY <2>1, SameIndex
  <2>4. V[y] = M[k][l]
    BY <1>4, <2>1, <2>2, <2>3
  <2> QED
    BY <2>4 DEF y
<1>7. V = [y \in Indices(h, w) |-> V[y]]
  OBVIOUS
<1> HIDE DEF V, M
<1>8. Stands(Store(h, w, V), M, h, w)
  BY <1>5, <1>6, <1>7, StandsIf
<1> QED
  BY <1>2, <1>8 DEF M

LEMMA AccumulatedStands ==
    ASSUME NEW h \in Nat \ {0}, NEW w \in Nat, NEW sa, NEW ma, Stands(sa, ma, h, w),
           NEW sb, NEW mb, Stands(sb, mb, h, w),
           NEW alias \in BOOLEAN, alias => sb = sa, NEW sign
    PROVE  Stands(Accumulated(sa, sb, alias, sign), IF sign = 1 THEN Sum(ma, mb) ELSE Difference(ma, mb), h, w)
<1> DEFINE a == sa.elems
           b == sb.elems
           V == [y \in Indices(h, w) |-> Combined(sign, a[y], b[y])]
           m == [i \in 1 .. h |-> [j \in 1 .. w |-> Combined(sign, ma[i][j], mb[i][j])]]
<1>1. sa = Store(h, w, a) /\ sb = Store(h, w, b) /\ a = [y \in Indices(h, w) |-> a[y]] /\ (alias => b = a)
  BY DEF Stands
<1>2. \A i \in 1 .. h, j \in 1 .. w :
        a[Index(w, i - 1, j - 1)] = ma[i][j] /\ b[Index(w, i - 1, j - 1)] = mb[i][j]
  BY DEF Stands
<1> HIDE DEF a, b
<1>3. Accumulated(sa, sb, alias, sign) = Store(h, w, V)
  BY <1>1, AccumulatedIs
<1>4. \A i \in 1 .. h, j \in 1 .. w : V[Index(w, i - 1, j - 1)] = m[i][j]
  <2> TAKE i \in 1 .. h, j \in 1 .. w
  <2>1. Index(w, i - 1, j - 1) \in Indices(h, w)
    BY PlaceIs
  <2> QED
    BY <1>2, <2>1
<1>5. m = IF sign = 1 THEN Sum(ma, mb) ELSE Difference(ma, mb)
  <2>1. Height(ma) = h /\ Breadth(ma) = w
    BY StandsParts
  <2> QED
    BY <2>1 DEF Sum, Difference, Entry, Combined
<1>6. V = [y \in Indices(h, w) |-> V[y]] /\ m = [i \in 1 .. h |-> [j \in 1 .. w |-> m[i][j]]]
  OBVIOUS
<1> HIDE DEF V, m
<1>7. Stands(Store(h, w, V), m, h, w)
  BY <1>4, <1>6, StandsIf
<1> QED
  BY <1>3, <1>5, <1>7

\* Both products compute the sums of linear algebra
LEMMA ProductStands ==
    ASSUME NEW h \in Nat \ {0}, NEW n \in Nat \ {0}, NEW w \in Nat, NEW sa, NEW ma, Stands(sa, ma, h, n),
           NEW sb, NEW mb, Stands(sb, mb, n, w)
    PROVE  Stands(Store(h, w, [y \in Indices(h, w) |-> RowTimesColumn(sa, sb, y \div w, y % w)]),
                  Product(ma, mb), h, w)
<1> DEFINE V == [y \in Indices(h, w) |-> RowTimesColumn(sa, sb, y \div w, y % w)]
           m == Product(ma, mb)
<1>1. m = [i \in 1 .. h |-> [j \in 1 .. w |-> Dot(ma, mb, i, j)]]
  <2>1. Height(ma) = h /\ Breadth(mb) = w
    BY StandsParts
  <2> QED
    BY <2>1 DEF Product, Entry
<1>2. \A i \in 1 .. h, j \in 1 .. w : RowTimesColumn(sa, sb, i - 1, j - 1) = Dot(ma, mb, i, j)
  <2> TAKE i \in 1 .. h, j \in 1 .. w
  <2>1. Breadth(ma) = n /\ sa.w = n
    BY StandsParts
  <2>2. \A k \in 1 .. n : Elem(sa, i - 1, k - 1) = ma[i][k] /\ Elem(sb, k - 1, j - 1) = mb[k][j]
    <3> TAKE k \in 1 .. n
    <3>1. Elem(sa, i - 1, k - 1) = ma[i][k]
      BY StandsElem
    <3>2. Elem(sb, k - 1, j - 1) = mb[k][j]
      BY StandsElem
    <3> QED
      BY <3>1, <3>2
  <2>3. [k \in 1 .. n |-> Elem(sa, i - 1, k - 1) * Elem(sb, k - 1, j - 1)] = [k \in 1 .. n |-> ma[i][k] * mb[k][j]]
    BY <2>2
  <2> QED
    BY <2>1, <2>3 DEF RowTimesColumn, Dot
<1>3. \A i \in 1 .. h, j \in 1 .. w : V[Index(w, i - 1, j - 1)] = m[i][j]
  <2> TAKE i \in 1 .. h, j \in 1 .. w
  <2>1. V[Index(w, i - 1, j - 1)] = RowTimesColumn(sa, sb, i - 1, j - 1)
    BY PlaceIs
  <2>2. m[i][j] = Dot(ma, mb, i, j)
    <3> HIDE DEF m
    <3> QED
      BY <1>1
  <2> QED
    BY <1>2, <2>1, <2>2
<1>4. V = [y \in Indices(h, w) |-> V[y]]
  OBVIOUS
<1> HIDE DEF V, m
<1>5. m = [i \in 1 .. h |-> [j \in 1 .. w |-> m[i][j]]]
  <2>1. \A i \in 1 .. h, j \in 1 .. w : m[i][j] = Dot(ma, mb, i, j)
    BY <1>1
  <2> QED
    BY <1>1, <2>1
<1>6. Stands(Store(h, w, V), m, h, w)
  BY <1>3, <1>4, <1>5, StandsIf
<1> QED
  BY <1>6 DEF V, m

MatrixInv ==
    /\ ~outside
    /\ DOMAIN m_s = MatObj /\ DOMAIN means = MatObj
    /\ \A o \in MatObj : m_s[o] # NullStore => StandsSome(m_s[o], means[o])

LEMMA BecomesStands ==
    ASSUME MatrixInv, NEW o \in MatObj, NEW s, NEW m, NEW out, ~out, Becomes(o, s, m, out),
           s # NullStore => StandsSome(s, m)
    PROVE  MatrixInv'
<1>1. /\ m_s' = [m_s EXCEPT ![o] = s] /\ means' = [means EXCEPT ![o] = m]
      /\ DOMAIN m_s = MatObj /\ DOMAIN means = MatObj /\ ~outside'
  BY DEF Becomes, MatrixInv
<1>2. DOMAIN m_s' = MatObj /\ DOMAIN means' = MatObj
  BY <1>1
<1>3. ASSUME NEW p \in MatObj, m_s'[p] # NullStore
      PROVE  StandsSome(m_s'[p], means'[p])
  <2>1. CASE p = o
    <3>1. m_s'[p] = s /\ means'[p] = m
      BY <1>1, <2>1
    <3> QED
      BY <1>3, <3>1
  <2>2. CASE p # o
    <3>1. m_s'[p] = m_s[p] /\ means'[p] = means[p]
      BY <1>1, <2>2
    <3> QED
      BY <1>3, <3>1 DEF MatrixInv
  <2> QED
    BY <2>1, <2>2
<1> QED
  BY <1>1, <1>2, <1>3 DEF MatrixInv

LEMMA HeldStands ==
    ASSUME MatrixInv, NEW o \in MatObj, m_s[o] # NullStore
    PROVE  \E h \in Nat \ {0}, w \in Nat : Stands(m_s[o], means[o], h, w)
BY DEF MatrixInv, StandsSome

LEMMA ConstructedStands ==
    ASSUME MatrixInv, NEW o \in MatObj, NEW h \in Dim, NEW w \in Dim, ZerosTo(o, h, w) \/ EyeTo(o, h, w)
    PROVE  MatrixInv'
<1>1. h \in Nat \ {0} /\ w \in Nat /\ h \in Nat
  BY MatrixAssumption
<1>2. CASE ZerosTo(o, h, w)
  <2> DEFINE m == Entry(h, w, LAMBDA i, j : 0)
  <2>1. m = [i \in 1 .. h |-> [j \in 1 .. w |-> m[i][j]]] /\ \A i \in 1 .. h, j \in 1 .. w : m[i][j] = 0
    BY DEF Entry
  <2>2. Becomes(o, Filled(h, w, zeros(h, w)), m, FALSE)
    BY <1>2 DEF ZerosTo
  <2> HIDE DEF m
  <2>3. \A i \in 1 .. h, j \in 1 .. w : zeros(h, w)[<< i - 1, j - 1 >>] = m[i][j]
    <3> TAKE i \in 1 .. h, j \in 1 .. w
    <3>1. i - 1 \in 0 .. h - 1 /\ j - 1 \in 0 .. w - 1
      BY <1>1
    <3> QED
      BY <2>1, <3>1 DEF zeros
  <2>4. Stands(Filled(h, w, zeros(h, w)), m, h, w)
    BY <1>1, <2>1, <2>3, FilledStands
  <2> QED
    BY <1>1, <2>2, <2>4, BecomesStands DEF StandsSome
<1>3. CASE EyeTo(o, h, w)
  <2> DEFINE m == Entry(h, w, LAMBDA i, j : IF i = j THEN 1 ELSE 0)
  <2>1. /\ m = [i \in 1 .. h |-> [j \in 1 .. w |-> m[i][j]]]
        /\ \A i \in 1 .. h, j \in 1 .. w : m[i][j] = IF i = j THEN 1 ELSE 0
    BY DEF Entry
  <2>2. Becomes(o, Filled(h, w, eye(h, w)), m, FALSE)
    BY <1>3 DEF EyeTo
  <2> HIDE DEF m
  <2>3. \A i \in 1 .. h, j \in 1 .. w : eye(h, w)[<< i - 1, j - 1 >>] = m[i][j]
    <3> TAKE i \in 1 .. h, j \in 1 .. w
    <3>1. i - 1 \in 0 .. h - 1 /\ j - 1 \in 0 .. w - 1 /\ (i - 1 = j - 1 <=> i = j)
      BY <1>1
    <3> QED
      BY <2>1, <3>1 DEF eye
  <2>4. Stands(Filled(h, w, eye(h, w)), m, h, w)
    BY <1>1, <2>1, <2>3, FilledStands
  <2> QED
    BY <1>1, <2>2, <2>4, BecomesStands DEF StandsSome
<1> QED
  BY <1>2, <1>3

LEMMA FromRowsStands ==
    ASSUME MatrixInv, NEW o \in MatObj, NEW rows \in RowLists, FromRows(o, rows)
    PROVE  MatrixInv'
<1> DEFINE h == Len(rows)
           w == max_row_len(rows)
           f == [c \in (0 .. h - 1) \X (0 .. w - 1) |-> assign_rows(rows, c[1], c[2])]
           m == Padded(rows)
<1>1. rows \in Seq(Seq(Int)) /\ rows # <<>> /\ h \in Nat \ {0} /\ DOMAIN rows = 1 .. h
  BY MatrixAssumption
<1>2. IsLongest(rows, h, w)
  BY <1>1, MaxRowLenIs
<1>3. \A i \in 1 .. h : Len(rows[i]) \in Nat /\ rows[i] \in Seq(Int)
  BY <1>1
<1>4. Becomes(o, Filled(h, w, f), m, \E i \in DOMAIN rows : Len(rows[i]) > w)
  BY DEF FromRows, make_static_mat
<1> HIDE DEF h, w
<1>5. w \in Nat /\ (\A i \in 1 .. h : Len(rows[i]) <= w) /\ (\E i \in 1 .. h : w = Len(rows[i]))
  BY <1>1, <1>2 DEF IsLongest
<1>6. m = [i \in 1 .. h |-> [j \in 1 .. w |-> IF j <= Len(rows[i]) THEN rows[i][j] ELSE 0]]
  <2> DEFINE L == {Len(rows[i]) : i \in DOMAIN rows}
             Best(n) == \A i \in DOMAIN rows : Len(rows[i]) <= n
  <2>1. w \in L /\ Best(w)
    BY <1>1, <1>5
  <2>2. ASSUME NEW n \in L, Best(n) PROVE n = w
    <3>1. PICK k \in 1 .. h : n = Len(rows[k])
      BY <1>1
    <3>2. PICK l \in 1 .. h : w = Len(rows[l])
      BY <1>5
    <3>3. n <= w /\ w <= n /\ n \in Nat /\ w \in Nat
      BY <1>1, <1>3, <1>5, <2>2, <3>1, <3>2
    <3> QED
      BY <3>3
  <2>3. (CHOOSE n \in L : Best(n)) = w
    <3> HIDE DEF L, Best
    <3> QED
      BY <2>1, <2>2
  <2>4. m = Entry(h, CHOOSE n \in L : Best(n), LAMBDA i, j : IF j <= Len(rows[i]) THEN rows[i][j] ELSE 0)
    BY DEF Padded, h
  <2> HIDE DEF L, Best, m
  <2> QED
    BY <2>3, <2>4 DEF Entry
<1> HIDE DEF m
<1>7. m = [i \in 1 .. h |-> [j \in 1 .. w |-> m[i][j]]]
  BY <1>6
<1>8. \A i \in 1 .. h, j \in 1 .. w : f[<< i - 1, j - 1 >>] = m[i][j]
  <2> TAKE i \in 1 .. h, j \in 1 .. w
  <2>1. i - 1 \in 0 .. h - 1 /\ j - 1 \in 0 .. w - 1 /\ i - 1 + 1 = i /\ j - 1 + 1 = j
    BY <1>1, <1>5
  <2>2. f[<< i - 1, j - 1 >>] = assign_rows(rows, i - 1, j - 1)
    BY <2>1
  <2>3. assign_rows(rows, i - 1, j - 1) = IF j - 1 < Len(rows[i]) THEN rows[i][j] ELSE 0
    BY <2>1 DEF assign_rows
  <2>4. j - 1 < Len(rows[i]) <=> j <= Len(rows[i])
    BY <1>3
  <2> QED
    BY <1>6, <2>2, <2>3, <2>4
<1> HIDE DEF f
<1>9. Stands(Filled(h, w, f), m, h, w)
  BY <1>1, <1>5, <1>7, <1>8, FilledStands
<1>10. ~ \E i \in DOMAIN rows : Len(rows[i]) > w
  BY <1>1, <1>3, <1>5
<1> QED
  BY <1>1, <1>4, <1>5, <1>9, <1>10, BecomesStands DEF StandsSome

LEMMA MovedStands ==
    ASSUME MatrixInv, NEW o \in MatObj, NEW from \in MatObj, CopyTo(o, from) \/ MoveTo(o, from)
    PROVE  MatrixInv'
<1>1. m_s[from] # NullStore /\ o # from
  BY DEF CopyTo, MoveTo
<1>2. StandsSome(m_s[from], means[from])
  BY <1>1 DEF MatrixInv
<1>3. CASE CopyTo(o, from)
  <2>1. Becomes(o, m_s[from], means[from], FALSE)
    BY <1>3 DEF CopyTo
  <2> QED
    BY <1>2, <2>1, BecomesStands
<1>4. CASE MoveTo(o, from)
  <2>1. /\ m_s' = [m_s EXCEPT ![o] = m_s[from], ![from] = IF static THEN @ ELSE NullStore]
        /\ means' = [means EXCEPT ![o] = means[from], ![from] = IF static THEN @ ELSE <<>>]
        /\ DOMAIN m_s = MatObj /\ DOMAIN means = MatObj /\ ~outside'
    BY <1>4 DEF MoveTo, MatrixInv
  <2>2. DOMAIN m_s' = MatObj /\ DOMAIN means' = MatObj
    BY <2>1
  <2>3. ASSUME NEW p \in MatObj, m_s'[p] # NullStore
        PROVE  StandsSome(m_s'[p], means'[p])
    <3>1. CASE p = o
      <4>1. m_s'[p] = m_s[from] /\ means'[p] = means[from]
        BY <1>1, <2>1, <3>1
      <4> QED
        BY <1>2, <4>1
    <3>2. CASE p = from
      <4>1. m_s'[p] = m_s[from] /\ means'[p] = means[from]
        BY <1>1, <2>1, <2>3, <3>2
      <4> QED
        BY <1>2, <4>1
    <3>3. CASE p # o /\ p # from
      <4>1. m_s'[p] = m_s[p] /\ means'[p] = means[p]
        BY <2>1, <3>3
      <4> QED
        BY <2>3, <4>1 DEF MatrixInv
    <3> QED
      BY <3>1, <3>2, <3>3
  <2> QED
    BY <2>1, <2>2, <2>3 DEF MatrixInv
<1> QED
  BY <1>3, <1>4

LEMMA DestroyedStands ==
    ASSUME MatrixInv, NEW o \in MatObj, DestroyMat(o)
    PROVE  MatrixInv'
<1>1. Becomes(o, NullStore, <<>>, FALSE)
  BY DEF DestroyMat
<1> QED
  BY <1>1, BecomesStands

LEMMA ChangedStands ==
    ASSUME MatrixInv, NEW o \in MatObj, NEW i \in Dim, NEW j \in Dim, NEW v,
           WriteElement(o, i - 1, j - 1, v)
    PROVE  MatrixInv'
<1> DEFINE k == i - 1
           l == j - 1
           M == [means[o] EXCEPT ![k + 1][l + 1] = v]
<1>1. k \in Nat /\ l \in Nat
  BY MatrixAssumption
<1>2. m_s[o] # NullStore /\ InRange(m_s[o], k, l) /\ Becomes(o, Written(m_s[o], k, l, v), M, FALSE)
  BY DEF WriteElement
<1> HIDE DEF k, l
<1>3. PICK h \in Nat \ {0}, w \in Nat : Stands(m_s[o], means[o], h, w)
  BY <1>2, HeldStands
<1>4. k \in 0 .. h - 1 /\ l \in 0 .. w - 1
  <2>1. m_s[o].h = h /\ m_s[o].w = w
    BY <1>3, StandsParts
  <2> QED
    BY <1>1, <1>2, <2>1 DEF InRange
<1>5. Stands(Written(m_s[o], k, l, v), M, h, w)
  BY <1>3, <1>4, WrittenStands
<1> HIDE DEF M
<1> QED
  BY <1>2, <1>5, BecomesStands DEF StandsSome

LEMMA AccumulateStands ==
    ASSUME MatrixInv, NEW to \in MatObj, NEW a \in MatObj, NEW b \in MatObj, NEW sign,
           Accumulate(to, a, b, sign)
    PROVE  MatrixInv'
<1> DEFINE alias == to = a /\ a = b
           S == Accumulated(m_s[a], m_s[b], alias, sign)
           M == IF sign = 1 THEN Sum(means[a], means[b]) ELSE Difference(means[a], means[b])
<1>1. /\ m_s[a] # NullStore /\ m_s[b] # NullStore /\ SameDims(m_s[a], m_s[b])
      /\ Becomes(to, S, M, FALSE)
  BY DEF Accumulate
<1>2. alias \in BOOLEAN /\ (alias => m_s[b] = m_s[a])
  OBVIOUS
<1> HIDE DEF alias
<1>3. PICK h \in Nat \ {0}, w \in Nat : Stands(m_s[a], means[a], h, w)
  BY <1>1, HeldStands
<1>4. PICK h2 \in Nat \ {0}, w2 \in Nat : Stands(m_s[b], means[b], h2, w2)
  BY <1>1, HeldStands
<1>5. h2 = h /\ w2 = w
  <2>1. m_s[a].h = h /\ m_s[a].w = w
    BY <1>3, StandsParts
  <2>2. m_s[b].h = h2 /\ m_s[b].w = w2
    BY <1>4, StandsParts
  <2> QED
    BY <1>1, <2>1, <2>2 DEF SameDims
<1>6. Stands(S, M, h, w)
  BY <1>2, <1>3, <1>4, <1>5, AccumulatedStands
<1> HIDE DEF S, M
<1> QED
  BY <1>1, <1>6, BecomesStands DEF StandsSome

\* What *= and * of matrices make, when the shape stays
LEMMA TimesStands ==
    ASSUME NEW h \in Nat \ {0}, NEW w \in Nat \ {0}, NEW s, NEW m, Stands(s, m, h, w),
           NEW t, NEW n, Stands(t, n, w, w),
           NEW alias \in BOOLEAN, ~alias
    PROVE  Stands(TimesInPlace(s, t, alias), Product(m, n), h, w)
<1> DEFINE a == s.elems
           b == t.elems
<1>1. s = Store(h, w, a) /\ t = Store(w, w, b)
  BY DEF Stands
<1>5. a = [y \in Indices(h, w) |-> a[y]]
  BY DEF Stands
<1> HIDE DEF a, b
<1>2. TimesInPlace(Store(h, w, a), Store(w, w, b), alias)
        = Store(h, w, [y \in Indices(h, w) |->
                          RowTimesColumn(Store(h, w, a), Store(w, w, b), y \div w, y % w)])
  BY ONLY h \in Nat, w \in Nat, alias \in BOOLEAN, ~alias, <1>5, TimesInPlaceIs
<1>3. TimesInPlace(s, t, alias)
        = Store(h, w, [y \in Indices(h, w) |-> RowTimesColumn(s, t, y \div w, y % w)])
  BY ONLY <1>1, <1>2
<1>4. Stands(Store(h, w, [y \in Indices(h, w) |-> RowTimesColumn(s, t, y \div w, y % w)]), Product(m, n), h, w)
  BY ProductStands
<1> QED
  BY ONLY <1>3, <1>4

LEMMA MultipliedStands ==
    ASSUME NEW h \in Nat \ {0}, NEW w \in Nat \ {0}, NEW s, NEW m, Stands(s, m, h, w),
           NEW t, NEW n, Stands(t, n, w, h)
    PROVE  Stands(Multiplied(s, t), Product(m, n), h, h)
<1> DEFINE a == s.elems
           b == t.elems
<1>1. s = Store(h, w, a) /\ t = Store(w, h, b)
  BY DEF Stands
<1> HIDE DEF a, b
<1>2. Multiplied(Store(h, w, a), Store(w, h, b))
        = Store(h, h, [y \in Indices(h, h) |->
                          RowTimesColumn(Store(h, w, a), Store(w, h, b), y \div h, y % h)])
  BY ONLY h \in Nat, MultipliedIs
<1>3. Multiplied(s, t) = Store(h, h, [y \in Indices(h, h) |-> RowTimesColumn(s, t, y \div h, y % h)])
  BY ONLY <1>1, <1>2
<1>4. Stands(Store(h, h, [y \in Indices(h, h) |-> RowTimesColumn(s, t, y \div h, y % h)]), Product(m, n), h, h)
  BY ProductStands
<1> QED
  BY ONLY <1>3, <1>4

LEMMA MultiplyStands ==
    ASSUME ~Aliased, Rectangular = {}, MatrixInv, NEW o \in MatObj, NEW a \in MatObj, NEW b \in MatObj,
           MultiplyBy(a, b) \/ MultiplyTo(o, a, b)
    PROVE  MatrixInv'
<1>1. m_s[a] # NullStore /\ m_s[b] # NullStore /\ m_s[a].w = m_s[b].h
  BY DEF MultiplyBy, MultiplyTo
<1>2. PICK h \in Nat \ {0}, n \in Nat : Stands(m_s[a], means[a], h, n)
  BY <1>1, HeldStands
<1>3. PICK k \in Nat \ {0}, w \in Nat : Stands(m_s[b], means[b], k, w)
  BY <1>1, HeldStands
<1>4. m_s[a].h = h /\ m_s[a].w = n
  BY <1>2, StandsParts
<1>5. m_s[b].h = k /\ m_s[b].w = w
  BY <1>3, StandsParts
<1>6. k = n
  BY <1>1, <1>4, <1>5
<1>7. CASE MultiplyBy(a, b)
  <2>1. /\ a # b /\ m_s[b].w = m_s[a].w
        /\ Becomes(a, TimesInPlace(m_s[a], m_s[b], a = b), Product(means[a], means[b]), m_s[b].w > m_s[a].w)
    BY <1>7 DEF MultiplyBy
  <2>2. w = n /\ ~(m_s[b].w > m_s[a].w) /\ a # b
    BY <1>4, <1>5, <2>1
  <2> DEFINE alias == a = b
             S == TimesInPlace(m_s[a], m_s[b], alias)
             M == Product(means[a], means[b])
             out == m_s[b].w > m_s[a].w
  <2>3. alias \in BOOLEAN /\ ~alias
    BY <2>2
  <2>4. Stands(S, M, h, n)
    <3>1. Stands(m_s[b], means[b], n, n) /\ n \in Nat \ {0}
      BY <1>3, <1>6, <2>2
    <3> HIDE DEF alias
    <3> QED
      BY <1>2, <2>3, <3>1, TimesStands
  <2>5. Becomes(a, S, M, out) /\ ~out /\ StandsSome(S, M)
    BY <2>1, <2>2, <2>4 DEF StandsSome
  <2> HIDE DEF S, M, out
  <2> QED
    BY <2>5, BecomesStands
<1>8. CASE MultiplyTo(o, a, b)
  <2>1. /\ m_s[a].h = m_s[b].w
        /\ Becomes(o, Multiplied(m_s[a], m_s[b]), Product(means[a], means[b]),
                   ColumnsVisited(m_s[a].h, m_s[b].w) > m_s[b].w)
    BY <1>8 DEF MultiplyTo
  <2>2. w = h /\ ~(ColumnsVisited(m_s[a].h, m_s[b].w) > m_s[b].w)
    BY <1>4, <1>5, <2>1 DEF ColumnsVisited
  <2>3. Stands(Multiplied(m_s[a], m_s[b]), Product(means[a], means[b]), h, h)
    <3>1. Stands(m_s[b], means[b], n, h) /\ n \in Nat \ {0}
      BY <1>3, <1>6, <2>2
    <3> QED
      BY <1>2, <3>1, MultipliedStands
  <2> DEFINE S == Multiplied(m_s[a], m_s[b])
             M == Product(means[a], means[b])
             out == ColumnsVisited(m_s[a].h, m_s[b].w) > m_s[b].w
  <2>4. Becomes(o, S, M, out) /\ ~out /\ StandsSome(S, M)
    BY <2>1, <2>2, <2>3 DEF StandsSome
  <2> HIDE DEF S, M, out
  <2> QED
    BY <2>4, BecomesStands
<1> QED
  BY <1>7, <1>8

LEMMA StandsShown ==
    ASSUME MatrixInv
    PROVE  MatrixAsMeant
<1>1. ASSUME NEW o \in MatObj, m_s[o] # NullStore
      PROVE  /\ m_s[o].h = Height(means[o]) /\ m_s[o].w = Breadth(means[o])
             /\ \A i \in 1 .. m_s[o].h, j \in 1 .. m_s[o].w : Elem(m_s[o], i - 1, j - 1) = means[o][i][j]
             /\ \A j \in 1 .. m_s[o].w :
                  columns_view(m_s[o], j - 1) = [i \in 1 .. m_s[o].h |-> means[o][i][j]]
  <2>1. PICK h \in Nat \ {0}, w \in Nat : Stands(m_s[o], means[o], h, w)
    BY <1>1, HeldStands
  <2>2. m_s[o].h = h /\ m_s[o].w = w /\ Height(means[o]) = h /\ Breadth(means[o]) = w
    BY <2>1, StandsParts
  <2>3. \A i \in 1 .. h, j \in 1 .. w : Elem(m_s[o], i - 1, j - 1) = means[o][i][j]
    <3> DEFINE s == m_s[o]
               m == means[o]
    <3>1. Stands(s, m, h, w)
      BY <2>1
    <3> HIDE DEF s, m
    <3>2. \A i \in 1 .. h, j \in 1 .. w : Elem(s, i - 1, j - 1) = m[i][j]
      <4> TAKE i \in 1 .. h, j \in 1 .. w
      <4> QED
        BY <3>1, StandsElem
    <3> QED
      BY <3>2 DEF s, m
  <2>4. \A j \in 1 .. w : columns_view(m_s[o], j - 1) = [i \in 1 .. h |-> means[o][i][j]]
    BY <2>2, <2>3 DEF columns_view
  <2> QED
    BY <2>2, <2>3, <2>4
<1>2. ElementsAreRight
  BY <1>1 DEF ElementsAreRight
<1> QED
  BY <1>2 DEF MatrixInv, MatrixAsMeant, AccessesInRange

\* Every matrix is what mathematics says of the operations that led to it, for
\* any dimensions, rows and elements and any number of objects, as long as no
\* matrix is multiplied by itself in place and the products keep the shape
\* (constructors, operators and moves of mat and static_mat).
THEOREM MatrixIsRight ==
    ~Aliased /\ Rectangular = {} => (MatrixSpec => []MatrixAsMeant)
<1> SUFFICES ASSUME ~Aliased, Rectangular = {} PROVE MatrixSpec => []MatrixAsMeant
  OBVIOUS
<1>1. MatrixInit => MatrixInv
  BY DEF MatrixInit, MatrixInv
<1>2. MatrixInv /\ [MatrixNext]_matrixVars => MatrixInv'
  <2> SUFFICES ASSUME MatrixInv, [MatrixNext]_matrixVars PROVE MatrixInv'
    OBVIOUS
  <2>1. CASE \E o \in MatObj, h, w \in Dim : ZerosTo(o, h, w) \/ EyeTo(o, h, w)
    BY <2>1, ConstructedStands
  <2>2. CASE \E o \in MatObj, rows \in RowLists : FromRows(o, rows)
    BY <2>2, FromRowsStands
  <2>3. CASE \E o, from \in MatObj : CopyTo(o, from) \/ MoveTo(o, from)
    BY <2>3, MovedStands
  <2>4. CASE \E o \in MatObj : DestroyMat(o)
    BY <2>4, DestroyedStands
  <2>5. CASE \E o \in MatObj, i, j \in Dim : WriteElement(o, i - 1, j - 1, 2)
    BY <2>5, ChangedStands
  <2>6. CASE \E a, b, to \in MatObj, sign \in {1, -1} : Accumulate(to, a, b, sign)
    BY <2>6, AccumulateStands
  <2>7. CASE \E a, b \in MatObj : MultiplyBy(a, b) \/ \E o \in MatObj : MultiplyTo(o, a, b)
    BY <2>7, MultiplyStands
  <2>8. CASE UNCHANGED matrixVars
    BY <2>8 DEF matrixVars, MatrixInv, StandsSome
  <2> QED
    BY <2>1, <2>2, <2>3, <2>4, <2>5, <2>6, <2>7, <2>8 DEF MatrixNext
<1> QED
  BY <1>1, <1>2, StandsShown, PTL DEF MatrixSpec

-----------------------------------------------------------------------------
(* Log lines: a path is split where its names were joined *)

\* What SplitAtDots makes of a part it has so far and the next character
NextPart(names, c) ==
    IF c = Period THEN Append(names, <<>>) ELSE Append(Front(names), Append(Last(names), c))

\* The names before the n-th, and k characters of the n-th
PartsAt(ctx, n, k) == Append(SubSeq(ctx, 1, n - 1), SubSeq(ctx[n], 1, k))

SplitLoop(g, text, n) ==
    g = [i \in 0 .. n |-> IF i = 0 THEN <<<<>>>> ELSE NextPart(g[i - 1], text[i])]

LEMMA SplitLoopExists ==
    ASSUME NEW text, NEW most \in Nat
    PROVE  \E g : SplitLoop(g, text, most)
<1> DEFINE T == {n \in 0 .. most : ~ \E g : SplitLoop(g, text, n)}
<1>1. 0 \notin T
  <2> DEFINE g == [i \in 0 .. 0 |-> <<<<>>>>]
  <2>1. SplitLoop(g, text, 0)
    BY DEF SplitLoop
  <2> QED
    BY <2>1
<1>2. ASSUME NEW n \in 1 .. most, NEW g, SplitLoop(g, text, n - 1)
      PROVE  \E f : SplitLoop(f, text, n)
  <2> DEFINE f == [i \in 0 .. n |-> IF i = n THEN NextPart(g[n - 1], text[n]) ELSE g[i]]
  <2>1. ASSUME NEW i \in 0 .. n
        PROVE  f[i] = IF i = 0 THEN <<<<>>>> ELSE NextPart(f[i - 1], text[i])
    <3>1. CASE i = n
      <4>1. n - 1 \in 0 .. n /\ n - 1 # n /\ i # 0
        BY <3>1
      <4> QED
        BY <3>1, <4>1
    <3>2. CASE i # n
      <4>1. i \in 0 .. n - 1 /\ (i # 0 => i - 1 \in 0 .. n /\ i - 1 # n)
        BY <3>2
      <4>2. g[i] = IF i = 0 THEN <<<<>>>> ELSE NextPart(g[i - 1], text[i])
        BY <1>2, <4>1 DEF SplitLoop
      <4>3. f[i] = g[i] /\ (i # 0 => f[i - 1] = g[i - 1])
        BY <3>2, <4>1
      <4> HIDE DEF f
      <4> QED
        BY <4>2, <4>3
    <3> QED
      BY <3>1, <3>2
  <2>2. f = [i \in 0 .. n |-> f[i]]
    OBVIOUS
  <2> HIDE DEF f
  <2>3. f = [i \in 0 .. n |-> IF i = 0 THEN <<<<>>>> ELSE NextPart(f[i - 1], text[i])]
    BY <2>1, <2>2
  <2> QED
    BY <2>3 DEF SplitLoop
<1>3. T = {}
  <2>1. SUFFICES ASSUME T # {} PROVE FALSE
    OBVIOUS
  <2>2. PICK n \in T : \A k \in T : n <= k
    <3> HIDE DEF T
    <3>1. T \in SUBSET Nat
      BY DEF T
    <3> QED
      BY <2>1, <3>1, LeastNumber
  <2>3. n \in 1 .. most /\ n - 1 \in 0 .. most /\ ~(n <= n - 1)
    BY <1>1, <2>2
  <2>4. n - 1 \notin T
    <3> HIDE DEF T
    <3> QED
      BY <2>2, <2>3
  <2> QED
    BY <1>2, <2>2, <2>3, <2>4
<1> QED
  BY <1>3

LEMMA PartsGrow ==
    ASSUME NEW S, NEW ctx \in Seq(Seq(S)), NEW n \in 1 .. Len(ctx), NEW k \in 0 .. Len(ctx[n]) - 1,
           ctx[n][k + 1] # Period
    PROVE  NextPart(PartsAt(ctx, n, k), ctx[n][k + 1]) = PartsAt(ctx, n, k + 1)
<1> DEFINE s == SubSeq(ctx, 1, n - 1)
           x == SubSeq(ctx[n], 1, k)
           c == ctx[n][k + 1]
<1>1. s \in Seq(Seq(S))
  OBVIOUS
<1>2. ctx[n] \in Seq(S) /\ Len(ctx[n]) \in Nat
  OBVIOUS
<1>3. x \in Seq(S) /\ c \in S /\ Append(x, c) = SubSeq(ctx[n], 1, k + 1)
  <2> DEFINE m == ctx[n]
  <2>1. m \in Seq(S) /\ k \in 0 .. Len(m) - 1
    BY <1>2
  <2> HIDE DEF m
  <2>2. SubSeq(m, 1, k) \in Seq(S) /\ m[k + 1] \in S /\ Append(SubSeq(m, 1, k), m[k + 1]) = SubSeq(m, 1, k + 1)
    BY <2>1
  <2> QED
    BY <2>2 DEF m
<1> HIDE DEF s, x, c
<1>4. Front(Append(s, x)) = s /\ Last(Append(s, x)) = x
  BY <1>1, <1>3 DEF Front, Last
<1>5. NextPart(Append(s, x), c) = Append(s, Append(x, c))
  BY <1>4 DEF NextPart, c
<1> QED
  BY <1>3, <1>5 DEF s, x, c, PartsAt

LEMMA PartsPass ==
    ASSUME NEW S, NEW ctx \in Seq(Seq(S)), NEW n \in 1 .. Len(ctx) - 1
    PROVE  NextPart(PartsAt(ctx, n, Len(ctx[n])), Period) = PartsAt(ctx, n + 1, 0)
<1>1. ctx[n] \in Seq(S) /\ ctx[n + 1] \in Seq(S)
  OBVIOUS
<1>2. SubSeq(ctx[n], 1, Len(ctx[n])) = ctx[n] /\ SubSeq(ctx[n + 1], 1, 0) = <<>>
  BY <1>1
<1>3. Append(SubSeq(ctx, 1, n - 1), ctx[n]) = SubSeq(ctx, 1, n)
  OBVIOUS
<1>4. PartsAt(ctx, n, Len(ctx[n])) = SubSeq(ctx, 1, n)
  BY <1>2, <1>3 DEF PartsAt
<1>5. PartsAt(ctx, n + 1, 0) = Append(SubSeq(ctx, 1, n), <<>>)
  <2>1. n + 1 - 1 = n
    OBVIOUS
  <2> QED
    BY <1>2, <2>1 DEF PartsAt
<1> QED
  BY <1>4, <1>5 DEF NextPart

\* A place in a name of length l that begins at b
LEMMA WithinName ==
    ASSUME NEW b \in Nat, NEW l \in Nat, NEW i \in Nat, b <= i - 1, i - 1 <= b + l
    PROVE  /\ i - 1 < b + l \/ i - 1 = b + l
           /\ i - 1 < b + l => /\ i - 1 - b \in 0 .. l - 1 /\ i - 1 - b + 1 \in 1 .. l
                              /\ b + (i - 1 - b + 1) = i /\ i - 1 - b + 1 = i - b
OBVIOUS

\* B tells where each name begins
LEMMA SplitIs ==
    ASSUME NEW S, NEW ctx \in Seq(Seq(S)), ctx # <<>>, NEW text, Len(text) \in Nat,
           NEW B \in [1 .. Len(ctx) -> Nat], B[1] = 0,
           \A n \in 1 .. Len(ctx) - 1 :
              /\ B[n + 1] = B[n] + Len(ctx[n]) + 1
              /\ text[B[n + 1]] = Period
              /\ B[n] + Len(ctx[n]) < Len(text),
           B[Len(ctx)] + Len(ctx[Len(ctx)]) = Len(text),
           \A n \in 1 .. Len(ctx) : \A k \in 1 .. Len(ctx[n]) :
              text[B[n] + k] = ctx[n][k] /\ ctx[n][k] # Period
    PROVE  SplitAtDots(text) = ctx
<1> DEFINE most == Len(text)
           At(g, i) == \E n \in 1 .. Len(ctx) :
                          /\ B[n] <= i /\ i <= B[n] + Len(ctx[n])
                          /\ g[i] = PartsAt(ctx, n, i - B[n])
<1>1. Len(ctx) \in Nat \ {0} /\ \A n \in 1 .. Len(ctx) : ctx[n] \in Seq(S) /\ Len(ctx[n]) \in Nat /\ B[n] \in Nat
  OBVIOUS
<1>2. PICK g : SplitLoop(g, text, most) /\ SplitAtDots(text) = g[most]
  <2>1. SplitAtDots(text) = (CHOOSE g : SplitLoop(g, text, most))[most]
    BY DEF SplitAtDots, SplitLoop, NextPart
  <2>2. \E g : SplitLoop(g, text, most)
    BY SplitLoopExists
  <2> QED
    BY <2>1, <2>2
<1>3. \A i \in 0 .. most : g[i] = IF i = 0 THEN <<<<>>>> ELSE NextPart(g[i - 1], text[i])
  BY <1>2 DEF SplitLoop
<1>4. At(g, 0)
  <2>1. 1 \in 1 .. Len(ctx) /\ 0 - B[1] = 0 /\ B[1] <= 0 /\ 0 <= B[1] + Len(ctx[1])
    BY <1>1
  <2>2. PartsAt(ctx, 1, 0) = <<<<>>>>
    <3>1. SubSeq(ctx, 1, 1 - 1) = <<>>
      BY <1>1, <2>1
    <3>2. SubSeq(ctx[1], 1, 0) = <<>>
      BY <1>1, <2>1
    <3>3. PartsAt(ctx, 1, 0) = Append(<<>>, <<>>)
      BY <3>1, <3>2 DEF PartsAt
    <3>4. Append(<<>>, <<>>) = <<<<>>>>
      BY ONLY TRUE
    <3> QED
      BY ONLY <3>3, <3>4
  <2>3. g[0] = PartsAt(ctx, 1, 0 - B[1])
    BY <1>3, <2>1, <2>2
  <2> QED
    BY <2>1, <2>3
<1>5. ASSUME NEW i \in 1 .. most, At(g, i - 1)
      PROVE  At(g, i)
  <2>1. PICK n \in 1 .. Len(ctx) :
           /\ B[n] <= i - 1 /\ i - 1 <= B[n] + Len(ctx[n])
           /\ g[i - 1] = PartsAt(ctx, n, i - 1 - B[n])
    BY <1>5
  <2>2. g[i] = NextPart(g[i - 1], text[i])
    BY <1>3
  <2>3. CASE i - 1 < B[n] + Len(ctx[n])
    <3> DEFINE k == i - 1 - B[n]
    <3>1. k \in 0 .. Len(ctx[n]) - 1 /\ k + 1 \in 1 .. Len(ctx[n]) /\ B[n] + (k + 1) = i /\ k + 1 = i - B[n]
      <4>1. /\ B[n] \in Nat /\ Len(ctx[n]) \in Nat /\ i \in Nat
            /\ B[n] <= i - 1 /\ i - 1 <= B[n] + Len(ctx[n]) /\ i - 1 < B[n] + Len(ctx[n])
        BY <1>1, <2>1, <2>3
      <4> DEFINE b == B[n]
                 l == Len(ctx[n])
      <4>2. b \in Nat /\ l \in Nat /\ i \in Nat /\ b <= i - 1 /\ i - 1 <= b + l /\ i - 1 < b + l
        BY <4>1
      <4> HIDE DEF b, l
      <4>3. /\ i - 1 - b \in 0 .. l - 1 /\ i - 1 - b + 1 \in 1 .. l
            /\ b + (i - 1 - b + 1) = i /\ i - 1 - b + 1 = i - b
        BY <4>2, WithinName
      <4> QED
        BY <4>3 DEF b, l
    <3> HIDE DEF k
    <3>2. text[i] = ctx[n][k + 1] /\ ctx[n][k + 1] # Period
      BY <3>1
    <3>3. g[i - 1] = PartsAt(ctx, n, k)
      BY <2>1 DEF k
    <3>4. NextPart(PartsAt(ctx, n, k), ctx[n][k + 1]) = PartsAt(ctx, n, k + 1)
      BY <3>1, <3>2, PartsGrow
    <3>5. g[i] = PartsAt(ctx, n, i - B[n])
      BY <2>2, <3>1, <3>2, <3>3, <3>4
    <3>6. B[n] <= i /\ i <= B[n] + Len(ctx[n])
      BY <1>1, <2>1, <2>3
    <3> QED
      BY <3>5, <3>6
  <2>4. CASE i - 1 = B[n] + Len(ctx[n])
    <3>1. n \in 1 .. Len(ctx) - 1
      BY <1>1, <2>4
    <3>2. B[n + 1] = i /\ text[i] = Period /\ n + 1 \in 1 .. Len(ctx)
      BY <1>1, <2>4, <3>1
    <3>3. i - 1 - B[n] = Len(ctx[n]) /\ i - B[n + 1] = 0
      BY <1>1, <2>4, <3>2
    <3>4. NextPart(PartsAt(ctx, n, Len(ctx[n])), Period) = PartsAt(ctx, n + 1, 0)
      BY <3>1, PartsPass
    <3>5. g[i] = PartsAt(ctx, n + 1, i - B[n + 1])
      BY <2>1, <2>2, <3>2, <3>3, <3>4
    <3>6. B[n + 1] <= i /\ i <= B[n + 1] + Len(ctx[n + 1])
      BY <1>1, <3>2
    <3> QED
      BY <3>2, <3>5, <3>6
  <2>5. B[n] \in Nat /\ Len(ctx[n]) \in Nat /\ i \in Nat
    BY <1>1
  <2>6. i - 1 < B[n] + Len(ctx[n]) \/ i - 1 = B[n] + Len(ctx[n])
    BY <2>1, <2>5, WithinName
  <2> QED
    BY <2>3, <2>4, <2>6
<1> DEFINE T == {i \in 0 .. most : ~At(g, i)}
<1>6. T = {}
  <2> HIDE DEF At
  <2>1. SUFFICES ASSUME T # {} PROVE FALSE
    OBVIOUS
  <2>2. PICK i \in T : \A j \in T : i <= j
    <3> HIDE DEF T
    <3>1. T \in SUBSET Nat
      BY DEF T
    <3> QED
      BY <2>1, <3>1, LeastNumber
  <2>3. i \in 1 .. most /\ i - 1 \in 0 .. most /\ ~(i <= i - 1)
    BY <1>4, <2>2
  <2>4. i - 1 \notin T
    <3> HIDE DEF T
    <3> QED
      BY <2>2, <2>3
  <2> QED
    BY <1>5, <2>2, <2>3, <2>4
<1>7. PICK n \in 1 .. Len(ctx) :
         /\ B[n] <= most /\ most <= B[n] + Len(ctx[n])
         /\ g[most] = PartsAt(ctx, n, most - B[n])
  <2>1. most \in 0 .. most
    OBVIOUS
  <2>2. At(g, most)
    <3> HIDE DEF At
    <3> QED
      BY <1>6, <2>1
  <2> QED
    BY <2>2
<1>8. n = Len(ctx)
  <2>1. CASE n # Len(ctx)
    <3>1. n \in 1 .. Len(ctx) - 1
      BY <1>1, <2>1
    <3>2. B[n] + Len(ctx[n]) < most
      BY <3>1
    <3>3. B[n] \in Nat /\ Len(ctx[n]) \in Nat /\ most \in Nat
      BY <1>1
    <3> HIDE DEF most
    <3> QED
      BY ONLY <1>7, <3>2, <3>3
  <2> QED
    BY <2>1
<1>9. most - B[n] = Len(ctx[n])
  BY <1>1, <1>8
<1>10. PartsAt(ctx, n, Len(ctx[n])) = ctx
  <2>1. SubSeq(ctx[n], 1, Len(ctx[n])) = ctx[n]
    BY <1>1
  <2>2. Append(SubSeq(ctx, 1, n - 1), ctx[n]) = ctx
    <3>1. Append(SubSeq(ctx, 1, Len(ctx) - 1), ctx[Len(ctx)]) = ctx
      <4>1. Len(ctx) \in Nat \ {0}
        BY <1>1
      <4> QED
        BY ONLY ctx \in Seq(Seq(S)), <4>1
    <3> QED
      BY <1>8, <3>1
  <2> QED
    BY <2>1, <2>2 DEF PartsAt
<1> QED
  BY <1>2, <1>7, <1>9, <1>10

-----------------------------------------------------------------------------
(* Log lines: the path *)

\* j consists of s, a dot and t
Joins(j, s, t) ==
    /\ Len(j) = Len(s) + 1 + Len(t)
    /\ Len(s) \in Nat /\ Len(t) \in Nat
    /\ \A i \in 1 .. Len(s) : j[i] = s[i]
    /\ j[Len(s) + 1] = Period
    /\ \A k \in 1 .. Len(t) : j[Len(s) + 1 + k] = t[k]

LEMMA JoinParts ==
    ASSUME NEW S, Period \in S, NEW s \in Seq(S), NEW t \in Seq(S)
    PROVE  Join(s, t) \in Seq(S) /\ Joins(Join(s, t), s, t)
<1> DEFINE a == Append(s, Period)
<1>1. /\ a \in Seq(S) /\ Len(a) = Len(s) + 1 /\ Len(s) \in Nat /\ Len(t) \in Nat
      /\ \A i \in 1 .. Len(s) : a[i] = s[i]
      /\ a[Len(s) + 1] = Period
  BY AppendProperties, LenProperties
<1> HIDE DEF a
<1>2. /\ a \o t \in Seq(S) /\ Len(a \o t) = Len(a) + Len(t)
      /\ \A i \in 1 .. Len(a) + Len(t) : (a \o t)[i] = IF i <= Len(a) THEN a[i] ELSE t[i - Len(a)]
  BY <1>1, ConcatProperties
<1>3. Join(s, t) = a \o t
  BY DEF Join, a
<1> DEFINE j == Join(s, t)
<1>4. /\ j \in Seq(S) /\ Len(j) = Len(s) + 1 + Len(t)
      /\ \A i \in 1 .. Len(s) + 1 + Len(t) : j[i] = IF i <= Len(s) + 1 THEN a[i] ELSE t[i - (Len(s) + 1)]
  BY <1>1, <1>2, <1>3
<1> HIDE DEF j
<1>5. \A i \in 1 .. Len(s) : j[i] = s[i]
  <2> TAKE i \in 1 .. Len(s)
  <2>1. i \in 1 .. Len(s) + 1 + Len(t) /\ i <= Len(s) + 1
    BY <1>1
  <2> QED
    BY <1>1, <1>4, <2>1
<1>6. j[Len(s) + 1] = Period
  <2>1. Len(s) + 1 \in 1 .. Len(s) + 1 + Len(t) /\ Len(s) + 1 <= Len(s) + 1
    BY <1>1
  <2> QED
    BY <1>1, <1>4, <2>1
<1>7. \A k \in 1 .. Len(t) : j[Len(s) + 1 + k] = t[k]
  <2> TAKE k \in 1 .. Len(t)
  <2>1. /\ Len(s) + 1 + k \in 1 .. Len(s) + 1 + Len(t) /\ ~(Len(s) + 1 + k <= Len(s) + 1)
        /\ Len(s) + 1 + k - (Len(s) + 1) = k
    BY <1>1
  <2> QED
    BY <1>4, <2>1
<1> QED
  BY <1>1, <1>4, <1>5, <1>6, <1>7 DEF j, Joins

LEMMA JoinLength ==
    ASSUME NEW j, NEW s, NEW t, Joins(j, s, t)
    PROVE  Len(j) = Len(s) + Len(t) + 1
BY DEF Joins

LEMMA JoinDot ==
    ASSUME NEW j, NEW s, NEW t, Joins(j, s, t), NEW b \in Nat, b + Len(t) = Len(j)
    PROVE  b = Len(s) + 1 /\ Len(s) + 1 \in 1 .. Len(j)
BY DEF Joins

\* The paths of a context and of those above it
Paths(p, ctx) ==
    /\ p[1] = ctx[1]
    /\ \A n \in 2 .. Len(ctx) : p[n] = Join(p[n - 1], ctx[n])

PathLoop(p, ctx, n) == p = [k \in 1 .. n |-> IF k = 1 THEN ctx[1] ELSE Join(p[k - 1], ctx[k])]

LEMMA PathLoopExists ==
    ASSUME NEW ctx, NEW most \in Nat
    PROVE  \E p : PathLoop(p, ctx, most)
<1> DEFINE T == {n \in 0 .. most : ~ \E p : PathLoop(p, ctx, n)}
<1>1. 0 \notin T
  <2> DEFINE p == [k \in 1 .. 0 |-> 0]
  <2>1. \A k \in 1 .. 0 : FALSE
    OBVIOUS
  <2>2. p = [k \in 1 .. 0 |-> IF k = 1 THEN ctx[1] ELSE Join(p[k - 1], ctx[k])]
    BY <2>1
  <2>3. PathLoop(p, ctx, 0)
    <3> HIDE DEF p
    <3> QED
      BY <2>2 DEF PathLoop
  <2> QED
    BY <2>3
<1>2. ASSUME NEW n \in 1 .. most, NEW g, PathLoop(g, ctx, n - 1)
      PROVE  \E f : PathLoop(f, ctx, n)
  <2> DEFINE f == [i \in 1 .. n |-> IF i # n THEN g[i] ELSE IF n = 1 THEN ctx[1] ELSE Join(g[n - 1], ctx[n])]
  <2>1. ASSUME NEW i \in 1 .. n
        PROVE  f[i] = IF i = 1 THEN ctx[1] ELSE Join(f[i - 1], ctx[i])
    <3>1. CASE i = n
      <4>1. n # 1 => n - 1 \in 1 .. n /\ n - 1 # n
        OBVIOUS
      <4> QED
        BY <3>1, <4>1
    <3>2. CASE i # n
      <4>1. i \in 1 .. n - 1 /\ (i # 1 => i - 1 \in 1 .. n /\ i - 1 # n)
        BY <3>2
      <4>2. g[i] = IF i = 1 THEN ctx[1] ELSE Join(g[i - 1], ctx[i])
        BY <1>2, <4>1 DEF PathLoop
      <4>3. f[i] = g[i] /\ (i # 1 => f[i - 1] = g[i - 1])
        BY <3>2, <4>1
      <4> HIDE DEF f
      <4> QED
        BY <4>2, <4>3
    <3> QED
      BY <3>1, <3>2
  <2>2. f = [i \in 1 .. n |-> f[i]]
    OBVIOUS
  <2> HIDE DEF f
  <2>3. f = [i \in 1 .. n |-> IF i = 1 THEN ctx[1] ELSE Join(f[i - 1], ctx[i])]
    BY <2>1, <2>2
  <2> QED
    BY <2>3 DEF PathLoop
<1>3. T = {}
  <2>1. SUFFICES ASSUME T # {} PROVE FALSE
    OBVIOUS
  <2>2. PICK n \in T : \A k \in T : n <= k
    <3> HIDE DEF T
    <3>1. T \in SUBSET Nat
      BY DEF T
    <3> QED
      BY <2>1, <3>1, LeastNumber
  <2>3. n \in 1 .. most /\ n - 1 \in 0 .. most /\ ~(n <= n - 1)
    BY <1>1, <2>2
  <2>4. n - 1 \notin T
    <3> HIDE DEF T
    <3> QED
      BY <2>2, <2>3
  <2> QED
    BY <1>2, <2>2, <2>3, <2>4
<1>4. most \in 0 .. most
  OBVIOUS
<1> QED
  BY <1>3, <1>4

LEMMA PathIs ==
    ASSUME NEW S, NEW ctx \in Seq(Seq(S)), ctx # <<>>
    PROVE  \E p : Paths(p, ctx) /\ context_path(ctx) = p[Len(ctx)]
<1>1. Len(ctx) \in Nat \ {0}
  OBVIOUS
<1>2. context_path(ctx) = (CHOOSE p : PathLoop(p, ctx, Len(ctx)))[Len(ctx)]
  BY DEF context_path, PathLoop
<1>3. PICK p : PathLoop(p, ctx, Len(ctx)) /\ context_path(ctx) = p[Len(ctx)]
  BY <1>1, <1>2, PathLoopExists
<1>4. \A k \in 1 .. Len(ctx) : p[k] = IF k = 1 THEN ctx[1] ELSE Join(p[k - 1], ctx[k])
  BY <1>3 DEF PathLoop
<1>5. 1 \in 1 .. Len(ctx) /\ \A k \in 2 .. Len(ctx) : k \in 1 .. Len(ctx) /\ k # 1
  BY <1>1
<1>6. Paths(p, ctx)
  BY <1>4, <1>5 DEF Paths
<1> QED
  BY <1>3, <1>6

\* The n-th path begins with each one above it and consists of names and dots
Extends(p, ctx, n) ==
    \A m \in 1 .. n : /\ Len(p[m]) <= Len(p[n]) /\ (m < n => Len(p[m]) < Len(p[n]))
                      /\ \A i \in 1 .. Len(p[m]) : p[n][i] = p[m][i]

OfNames(p, ctx, n) ==
    \A i \in 1 .. Len(p[n]) :
        p[n][i] = Period \/ \E m \in 1 .. Len(ctx) : \E k \in 1 .. Len(ctx[m]) : p[n][i] = ctx[m][k]

PathHolds(S, p, ctx, n) == p[n] \in Seq(S) /\ Extends(p, ctx, n) /\ OfNames(p, ctx, n)

LEMMA PathStarts ==
    ASSUME NEW S, NEW ctx \in Seq(Seq(S)), ctx # <<>>, NEW p, Paths(p, ctx)
    PROVE  PathHolds(S, p, ctx, 1)
<1>1. Len(ctx) \in Nat \ {0} /\ 1 \in 1 .. Len(ctx) /\ p[1] = ctx[1]
  BY DEF Paths
<1>2. p[1] \in Seq(S) /\ Len(p[1]) \in Nat
  BY <1>1
<1>3. Extends(p, ctx, 1)
  <2>1. \A m \in 1 .. 1 : m = 1
    OBVIOUS
  <2> QED
    BY <1>2, <2>1 DEF Extends
<1>4. OfNames(p, ctx, 1)
  BY <1>1 DEF OfNames
<1> QED
  BY <1>2, <1>3, <1>4 DEF PathHolds

LEMMA PathGoesOn ==
    ASSUME NEW S, Period \in S, NEW ctx \in Seq(Seq(S)), NEW p, Paths(p, ctx), NEW n \in 2 .. Len(ctx),
           \A m \in 1 .. n - 1 : p[m] \in Seq(S), PathHolds(S, p, ctx, n - 1)
    PROVE  PathHolds(S, p, ctx, n)
<1> DEFINE s == p[n - 1]
           t == ctx[n]
           j == p[n]
<1>1. j = Join(s, t) /\ n \in 1 .. Len(ctx) /\ n - 1 \in 1 .. n - 1
  <2>1. j = Join(s, t)
    BY Zenon DEF Paths
  <2>2. n \in 1 .. Len(ctx) /\ n - 1 \in 1 .. n - 1
    OBVIOUS
  <2> QED
    BY <2>1, <2>2
<1>2. s \in Seq(S) /\ t \in Seq(S)
  BY <1>1 DEF PathHolds
<1> HIDE DEF s, t, j
<1>8. j \in Seq(S) /\ Joins(j, s, t)
  BY <1>1, <1>2, JoinParts
<1>3. /\ j \in Seq(S) /\ Len(j) = Len(s) + 1 + Len(t) /\ Len(s) \in Nat /\ Len(t) \in Nat
      /\ \A i \in 1 .. Len(s) : j[i] = s[i]
      /\ j[Len(s) + 1] = Period
      /\ \A k \in 1 .. Len(t) : j[Len(s) + 1 + k] = t[k]
  BY <1>8 DEF Joins
<1>4. ASSUME NEW m \in 1 .. n
      PROVE  /\ Len(p[m]) <= Len(j) /\ (m < n => Len(p[m]) < Len(j))
             /\ \A i \in 1 .. Len(p[m]) : j[i] = p[m][i]
  <2>1. CASE m = n
    BY <1>3, <2>1 DEF j
  <2>2. CASE m # n
    <3>1. m \in 1 .. n - 1
      BY <2>2
    <3>2. /\ Len(p[m]) <= Len(s) /\ Len(p[m]) \in Nat
          /\ \A i \in 1 .. Len(p[m]) : s[i] = p[m][i]
      <4>1. Len(p[m]) <= Len(s) /\ \A i \in 1 .. Len(p[m]) : s[i] = p[m][i]
        BY <3>1, Zenon DEF PathHolds, Extends, s
      <4>2. p[m] \in Seq(S)
        BY <3>1
      <4> QED
        BY <4>1, <4>2
    <3>3. \A i \in 1 .. Len(p[m]) : i \in 1 .. Len(s)
      BY <1>3, <3>2
    <3>4. \A i \in 1 .. Len(p[m]) : j[i] = p[m][i]
      <4> TAKE i \in 1 .. Len(p[m])
      <4>1. i \in 1 .. Len(s) /\ s[i] = p[m][i]
        BY <3>2, <3>3
      <4>2. j[i] = s[i]
        BY <1>3, <4>1
      <4> QED
        BY <4>1, <4>2
    <3>5. Len(p[m]) <= Len(j) /\ Len(p[m]) < Len(j)
      <4>1. /\ Len(j) = Len(s) + 1 + Len(t) /\ Len(s) \in Nat /\ Len(t) \in Nat
            /\ Len(p[m]) <= Len(s) /\ Len(p[m]) \in Nat
        BY <1>3, <3>2
      <4> QED
        BY <4>1
    <3> QED
      BY <3>4, <3>5
  <2> QED
    BY <2>1, <2>2
<1>5. ASSUME NEW i \in 1 .. Len(j)
      PROVE  j[i] = Period \/ \E m \in 1 .. Len(ctx) : \E k \in 1 .. Len(ctx[m]) : j[i] = ctx[m][k]
  <2>1. CASE i <= Len(s)
    <3>1. i \in 1 .. Len(s)
      BY <1>3, <2>1
    <3>2. j[i] = s[i]
      BY <1>3, <3>1
    <3>3. s[i] = Period \/ \E m \in 1 .. Len(ctx) : \E k \in 1 .. Len(ctx[m]) : s[i] = ctx[m][k]
      BY <3>1 DEF PathHolds, OfNames, s
    <3> QED
      BY <3>2, <3>3
  <2>2. CASE i = Len(s) + 1
    BY <1>3, <2>2
  <2>3. CASE i > Len(s) + 1
    <3> DEFINE k == i - (Len(s) + 1)
    <3>1. k \in 1 .. Len(t) /\ Len(s) + 1 + k = i
      BY <1>3, <2>3
    <3> HIDE DEF k
    <3>2. j[i] = t[k]
      BY <1>3, <3>1
    <3> QED
      BY <1>1, <3>1, <3>2 DEF t
  <2>4. i \in Nat /\ Len(s) \in Nat
    BY <1>3
  <2>5. i <= Len(s) \/ i = Len(s) + 1 \/ i > Len(s) + 1
    BY ONLY <2>4
  <2> QED
    BY <2>1, <2>2, <2>3, <2>5
<1> QED
  BY <1>3, <1>4, <1>5 DEF PathHolds, Extends, OfNames, j

LEMMA PathKept ==
    ASSUME NEW S, Period \in S, NEW ctx \in Seq(Seq(S)), ctx # <<>>, NEW p, Paths(p, ctx)
    PROVE  \A n \in 1 .. Len(ctx) : PathHolds(S, p, ctx, n)
<1> DEFINE T == {n \in 1 .. Len(ctx) : ~PathHolds(S, p, ctx, n)}
<1>0. Len(ctx) \in Nat
  OBVIOUS
<1>1. SUFFICES ASSUME T # {} PROVE FALSE
  OBVIOUS
<1>2. PICK n \in T : \A k \in T : n <= k
  <2> HIDE DEF T
  <2>1. T \in SUBSET Nat
    BY <1>0 DEF T
  <2> QED
    BY <1>1, <2>1, LeastNumber
<1>3. n # 1
  BY PathStarts
<1>4. n \in 2 .. Len(ctx) /\ n - 1 \in 1 .. n - 1
  BY <1>0, <1>3
<1>5. ASSUME NEW m \in 1 .. n - 1 PROVE PathHolds(S, p, ctx, m)
  <2>1. m \in 1 .. Len(ctx) /\ ~(n <= m)
    BY <1>0, <1>4
  <2>2. m \notin T
    <3> HIDE DEF T
    <3> QED
      BY <1>2, <2>1
  <2> QED
    BY <2>1, <2>2
<1>6. \A m \in 1 .. n - 1 : p[m] \in Seq(S)
  BY <1>5 DEF PathHolds
<1>7. PathHolds(S, p, ctx, n)
  BY <1>4, <1>5, <1>6, PathGoesOn
<1> QED
  BY <1>7

LEMMA SizeIs ==
    ASSUME NEW S, Period \in S, NEW ctx \in Seq(Seq(S)), ctx # <<>>, NEW p, Paths(p, ctx)
    PROVE  ctx_buf_size(ctx) = Len(p[Len(ctx)])
<1> DEFINE most == Len(ctx)
           F(n) == IF n = 0 THEN 0 ELSE Len(p[n])
           Loop(g) == g = [n \in 0 .. most |-> IF n = 0 THEN 0
                                            ELSE IF n = 1 THEN Len(ctx[1])
                                            ELSE g[n - 1] + Len(ctx[n]) + 1]
<1>0. most \in Nat \ {0}
  OBVIOUS
<1>1. ASSUME NEW n \in 2 .. most PROVE Len(p[n]) = Len(p[n - 1]) + Len(ctx[n]) + 1
  <2>1. p[n] = Join(p[n - 1], ctx[n]) /\ n - 1 \in 1 .. most /\ n \in 1 .. most
    BY DEF Paths
  <2>2. p[n - 1] \in Seq(S) /\ ctx[n] \in Seq(S)
    BY <2>1, PathKept DEF PathHolds
  <2>3. Joins(p[n], p[n - 1], ctx[n])
    BY <2>1, <2>2, JoinParts
  <2> DEFINE j == p[n]
             s == p[n - 1]
             t == ctx[n]
  <2>4. Joins(j, s, t)
    BY <2>3
  <2> HIDE DEF j, s, t
  <2>5. Len(j) = Len(s) + Len(t) + 1
    BY <2>4, JoinLength
  <2> QED
    BY <2>5 DEF j, s, t
<1>2. ASSUME NEW n \in 1 .. most PROVE F(n) = IF n = 1 THEN Len(ctx[1]) ELSE F(n - 1) + Len(ctx[n]) + 1
  <2>1. CASE n = 1
    BY <2>1 DEF Paths
  <2>2. CASE n # 1
    <3>1. n \in 2 .. most /\ n - 1 # 0 /\ n # 0
      BY <2>2
    <3> QED
      BY <1>1, <2>2, <3>1
  <2> QED
    BY <2>1, <2>2
<1>3. F(0) = 0
  OBVIOUS
<1>9. F(most) = Len(p[most])
  BY <1>0
<1> HIDE DEF F, most
<1>4. \E g : Loop(g)
  <2> DEFINE g == [n \in 0 .. most |-> F(n)]
  <2>1. ASSUME NEW n \in 0 .. most
        PROVE  F(n) = IF n = 0 THEN 0 ELSE IF n = 1 THEN Len(ctx[1]) ELSE g[n - 1] + Len(ctx[n]) + 1
    <3>1. CASE n = 0
      BY <1>3, <3>1
    <3>2. CASE n # 0
      <4>1. n \in 1 .. most /\ n - 1 \in 0 .. most
        BY <1>0, <3>2
      <4> QED
        BY <1>2, <3>2, <4>1
    <3> QED
      BY <3>1, <3>2
  <2>2. Loop(g)
    BY <2>1
  <2> QED
    BY <2>2
<1>5. PICK g : Loop(g) /\ ctx_buf_size(ctx) = g[most]
  <2>1. ctx_buf_size(ctx) = (CHOOSE g : Loop(g))[most]
    BY DEF ctx_buf_size, most
  <2> HIDE DEF Loop
  <2> QED
    BY <1>4, <2>1
<1>6. \A n \in 0 .. most : g[n] = IF n = 0 THEN 0 ELSE IF n = 1 THEN Len(ctx[1]) ELSE g[n - 1] + Len(ctx[n]) + 1
  BY <1>5
<1> DEFINE T == {n \in 0 .. most : g[n] # F(n)}
<1>7. T = {}
  <2>1. SUFFICES ASSUME T # {} PROVE FALSE
    OBVIOUS
  <2>2. PICK n \in T : \A k \in T : n <= k
    <3> HIDE DEF T
    <3>1. T \in SUBSET Nat
      BY <1>0 DEF T
    <3> QED
      BY <2>1, <3>1, LeastNumber
  <2>3. n # 0
    BY <1>0, <1>3, <1>6
  <2>4. n \in 1 .. most /\ n - 1 \in 0 .. most /\ n - 1 \notin T
    BY <1>0, <2>2, <2>3
  <2> QED
    BY <1>2, <1>6, <2>3, <2>4
<1>8. most \in 0 .. most
  BY <1>0
<1> QED
  BY <1>5, <1>7, <1>8, <1>9 DEF most

\* The text j has t at its end, from b on
EndsWith(j, b, t) ==
    /\ b \in Nat /\ Len(t) \in Nat /\ b + Len(t) = Len(j)
    /\ \A k \in 1 .. Len(t) : j[b + k] = t[k]

LEMMA EndsWithItself ==
    ASSUME NEW j, Len(j) \in Nat, NEW b, b = Len(j) - Len(j)
    PROVE  EndsWith(j, b, j)
<1>1. b = 0
  OBVIOUS
<1>2. \A k \in 1 .. Len(j) : 0 + k = k
  OBVIOUS
<1> QED
  BY <1>1, <1>2 DEF EndsWith

LEMMA JoinEnds ==
    ASSUME NEW j, NEW s, NEW t, Joins(j, s, t), NEW b, b = Len(j) - Len(t)
    PROVE  EndsWith(j, b, t)
<1>1. b = Len(s) + 1
  BY DEF Joins
<1> QED
  BY <1>1 DEF Joins, EndsWith

\* A path, split at its dots, gives the names it was made of
LEMMA PathSplits ==
    ASSUME NEW S, Period \in S, NEW ctx \in Seq(Seq(S)), ctx # <<>>,
           \A n \in 1 .. Len(ctx) : \A k \in 1 .. Len(ctx[n]) : ctx[n][k] # Period
    PROVE  /\ context_path(ctx) \in Seq(S) /\ Len(context_path(ctx)) = ctx_buf_size(ctx)
           /\ SplitAtDots(context_path(ctx)) = ctx
           /\ \A i \in 1 .. Len(context_path(ctx)) :
                \/ context_path(ctx)[i] = Period
                \/ \E m \in 1 .. Len(ctx) : \E k \in 1 .. Len(ctx[m]) : context_path(ctx)[i] = ctx[m][k]
<1>1. PICK p : Paths(p, ctx) /\ context_path(ctx) = p[Len(ctx)]
  BY PathIs
<1> DEFINE most == Len(ctx)
           text == p[most]
           B == [n \in 1 .. most |-> Len(p[n]) - Len(ctx[n])]
<1>2. most \in Nat \ {0} /\ most \in 1 .. most /\ 1 \in 1 .. most
  OBVIOUS
<1>3. \A n \in 1 .. most : PathHolds(S, p, ctx, n)
  BY <1>1, PathKept
<1>4. \A n \in 1 .. most : p[n] \in Seq(S) /\ Len(p[n]) \in Nat /\ ctx[n] \in Seq(S) /\ Len(ctx[n]) \in Nat
  <2> TAKE n \in 1 .. most
  <2>1. p[n] \in Seq(S) /\ ctx[n] \in Seq(S)
    BY <1>3 DEF PathHolds
  <2> QED
    BY <2>1
<1>5. \A n \in 1 .. most : /\ Len(p[n]) <= Len(text) /\ (n < most => Len(p[n]) < Len(text))
                        /\ \A i \in 1 .. Len(p[n]) : text[i] = p[n][i]
  BY <1>2, <1>3 DEF PathHolds, Extends
<1>6. ASSUME NEW n \in 2 .. most
      PROVE  Joins(p[n], p[n - 1], ctx[n])
  <2>1. p[n] = Join(p[n - 1], ctx[n]) /\ n - 1 \in 1 .. most /\ n \in 1 .. most
    BY <1>1 DEF Paths
  <2>2. p[n - 1] \in Seq(S) /\ ctx[n] \in Seq(S)
    BY <1>4, <2>1
  <2> QED
    BY <2>1, <2>2, JoinParts
<1>7. p[1] = ctx[1]
  BY <1>1 DEF Paths
<1>8. ASSUME NEW n \in 1 .. most
      PROVE  EndsWith(p[n], B[n], ctx[n])
  <2>1. Len(p[n]) \in Nat /\ Len(ctx[n]) \in Nat /\ B[n] = Len(p[n]) - Len(ctx[n])
    BY <1>4
  <2> HIDE DEF B
  <2>2. CASE n = 1
    <3>1. p[n] = ctx[n]
      BY <1>7, <2>2
    <3> QED
      BY <2>1, <3>1, EndsWithItself
  <2>3. CASE n # 1
    <3>1. n \in 2 .. most
      BY <2>3
    <3> QED
      BY <1>6, <2>1, <3>1, JoinEnds
  <2> QED
    BY <2>2, <2>3
<1>9. B \in [1 .. most -> Nat] /\ B[1] = 0
  <2>1. B[1] = 0
    BY <1>2, <1>4, <1>7
  <2>2. B = [n \in 1 .. most |-> B[n]]
    OBVIOUS
  <2> HIDE DEF B
  <2>3. \A n \in 1 .. most : B[n] \in Nat
    BY <1>8 DEF EndsWith
  <2> QED
    BY <2>1, <2>2, <2>3
<1> HIDE DEF B
<1>10. ASSUME NEW n \in 1 .. most - 1
       PROVE  /\ B[n + 1] = B[n] + Len(ctx[n]) + 1
              /\ text[B[n + 1]] = Period
              /\ B[n] + Len(ctx[n]) < Len(text)
  <2>1. n \in 1 .. most /\ n + 1 \in 2 .. most /\ n + 1 \in 1 .. most /\ n + 1 - 1 = n /\ n < most
    BY <1>2
  <2>2. Joins(p[n + 1], p[n], ctx[n + 1])
    BY <1>6, <2>1
  <2>3. B[n + 1] + Len(ctx[n + 1]) = Len(p[n + 1]) /\ B[n + 1] \in Nat
    BY <1>8, <2>1 DEF EndsWith
  <2>4. B[n] + Len(ctx[n]) = Len(p[n])
    BY <1>8 DEF EndsWith
  <2>5. /\ Len(p[n + 1]) = Len(p[n]) + 1 + Len(ctx[n + 1]) /\ p[n + 1][Len(p[n]) + 1] = Period
        /\ Len(p[n]) \in Nat /\ Len(ctx[n + 1]) \in Nat
    BY <2>2 DEF Joins
  <2>6. B[n + 1] = Len(p[n]) + 1 /\ Len(p[n]) + 1 \in 1 .. Len(p[n + 1])
    BY <2>2, <2>3, JoinDot
  <2>7. text[Len(p[n]) + 1] = p[n + 1][Len(p[n]) + 1]
    BY <1>5, <2>1, <2>6
  <2>8. Len(p[n]) < Len(text)
    BY <1>5, <2>1
  <2> QED
    BY <2>4, <2>5, <2>6, <2>7, <2>8
<1>11. ASSUME NEW n \in 1 .. most, NEW k \in 1 .. Len(ctx[n])
       PROVE  text[B[n] + k] = ctx[n][k]
  <2>1. B[n] \in Nat /\ Len(ctx[n]) \in Nat /\ B[n] + Len(ctx[n]) = Len(p[n]) /\ p[n][B[n] + k] = ctx[n][k]
    BY <1>8 DEF EndsWith
  <2>2. B[n] + k \in 1 .. Len(p[n])
    BY ONLY <2>1, k \in 1 .. Len(ctx[n])
  <2> QED
    BY <1>5, <2>1, <2>2
<1>12. B[most] + Len(ctx[most]) = Len(text)
  BY <1>2, <1>8 DEF EndsWith
<1>13. Len(text) \in Nat /\ text \in Seq(S)
  BY <1>2, <1>4
<1>14. SplitAtDots(text) = ctx
  <2> HIDE DEF text
  <2> QED
    BY <1>9, <1>10, <1>11, <1>12, <1>13, SplitIs
<1>15. Len(text) = ctx_buf_size(ctx)
  BY <1>1, SizeIs
<1>16. OfNames(p, ctx, most)
  BY <1>2, <1>3 DEF PathHolds
<1> QED
  BY <1>1, <1>13, <1>14, <1>15, <1>16 DEF OfNames

-----------------------------------------------------------------------------
(* Log lines: the terminal *)

DisplayLoop(g, s, buf, n) == g = [k \in 0 .. n |-> IF k = 0 THEN s ELSE Shown(g[k - 1], buf[k])]

LEMMA DisplayLoopExists ==
    ASSUME NEW s, NEW buf, NEW most \in Nat
    PROVE  \E g : DisplayLoop(g, s, buf, most)
<1> DEFINE T == {n \in 0 .. most : ~ \E g : DisplayLoop(g, s, buf, n)}
<1>1. 0 \notin T
  <2> DEFINE g == [k \in 0 .. 0 |-> s]
  <2>1. \A k \in 0 .. 0 : k = 0
    OBVIOUS
  <2>2. g = [k \in 0 .. 0 |-> IF k = 0 THEN s ELSE Shown(g[k - 1], buf[k])]
    BY <2>1
  <2>3. DisplayLoop(g, s, buf, 0)
    <3> HIDE DEF g
    <3> QED
      BY <2>2 DEF DisplayLoop
  <2> QED
    BY <2>3
<1>2. ASSUME NEW n \in 1 .. most, NEW g, DisplayLoop(g, s, buf, n - 1)
      PROVE  \E f : DisplayLoop(f, s, buf, n)
  <2> DEFINE f == [i \in 0 .. n |-> IF i # n THEN g[i] ELSE Shown(g[n - 1], buf[n])]
  <2>1. ASSUME NEW i \in 0 .. n
        PROVE  f[i] = IF i = 0 THEN s ELSE Shown(f[i - 1], buf[i])
    <3>1. CASE i = n
      <4>1. n # 0 /\ n - 1 \in 0 .. n /\ n - 1 # n
        OBVIOUS
      <4> QED
        BY <3>1, <4>1
    <3>2. CASE i # n
      <4>1. i \in 0 .. n - 1 /\ (i # 0 => i - 1 \in 0 .. n /\ i - 1 # n)
        BY <3>2
      <4>2. g[i] = IF i = 0 THEN s ELSE Shown(g[i - 1], buf[i])
        BY <1>2, <4>1 DEF DisplayLoop
      <4>3. f[i] = g[i] /\ (i # 0 => f[i - 1] = g[i - 1])
        BY <3>2, <4>1
      <4> HIDE DEF f
      <4> QED
        BY <4>2, <4>3
    <3> QED
      BY <3>1, <3>2
  <2>2. f = [i \in 0 .. n |-> f[i]]
    OBVIOUS
  <2> HIDE DEF f
  <2>3. f = [i \in 0 .. n |-> IF i = 0 THEN s ELSE Shown(f[i - 1], buf[i])]
    BY <2>1, <2>2
  <2> QED
    BY <2>3 DEF DisplayLoop
<1>3. T = {}
  <2>1. SUFFICES ASSUME T # {} PROVE FALSE
    OBVIOUS
  <2>2. PICK n \in T : \A k \in T : n <= k
    <3> HIDE DEF T
    <3>1. T \in SUBSET Nat
      BY DEF T
    <3> QED
      BY <2>1, <3>1, LeastNumber
  <2>3. n \in 1 .. most /\ n - 1 \in 0 .. most /\ ~(n <= n - 1)
    BY <1>1, <2>2
  <2>4. n - 1 \notin T
    <3> HIDE DEF T
    <3> QED
      BY <2>2, <2>3
  <2> QED
    BY <1>2, <2>2, <2>3, <2>4
<1>4. most \in 0 .. most
  OBVIOUS
<1> QED
  BY <1>3, <1>4

\* What holds of 0 and passes from each number to the next holds up to most
LEMMA UpTo ==
    ASSUME NEW most \in Nat, NEW P, 0 \in P, \A n \in 1 .. most : n - 1 \in P => n \in P
    PROVE  most \in P
<1> DEFINE T == {n \in 0 .. most : n \notin P}
<1>1. T = {}
  <2>1. SUFFICES ASSUME T # {} PROVE FALSE
    OBVIOUS
  <2>2. PICK n \in T : \A k \in T : n <= k
    <3> HIDE DEF T
    <3>1. T \in SUBSET Nat
      BY DEF T
    <3> QED
      BY <2>1, <3>1, LeastNumber
  <2>3. n \in 1 .. most /\ n - 1 \in 0 .. most /\ ~(n <= n - 1)
    BY <2>2
  <2>4. n - 1 \notin T
    <3> HIDE DEF T
    <3> QED
      BY <2>2, <2>3
  <2> QED
    BY <2>2, <2>3, <2>4
<1> QED
  BY <1>1

ScreenOf(line, on) == [line |-> line, on |-> on]

LEMMA ShownIs ==
    ASSUME NEW line, NEW on, NEW c
    PROVE  /\ c \notin Options => Shown(ScreenOf(line, on), c) = ScreenOf(Append(line, c), on)
           /\ c \in Options => \E o : Shown(ScreenOf(line, on), c) = ScreenOf(line, o)
           /\ c = clear => Shown(ScreenOf(line, on), c) = ScreenOf(line, {})
<1> DEFINE r == [line |-> line, on |-> on]
<1>1. ASSUME NEW o PROVE [r EXCEPT !.on = o] = [line |-> line, on |-> o]
  OBVIOUS
<1>2. ASSUME NEW l PROVE [r EXCEPT !.line = l] = [line |-> l, on |-> on]
  OBVIOUS
<1>3. r.line = line /\ r.on = on
  OBVIOUS
<1> HIDE DEF r
<1>4. CASE c \notin Options
  <2>1. Shown(r, c) = [r EXCEPT !.line = Append(line, c)]
    BY <1>3, <1>4 DEF Shown
  <2> QED
    BY <1>2, <1>4, <2>1 DEF Options, ScreenOf, r
<1>5. CASE c \in Options
  <2> DEFINE o == IF c = clear THEN {} ELSE on \union {c}
  <2>1. Shown(r, c) = [r EXCEPT !.on = o]
    BY <1>3, <1>5 DEF Shown
  <2>2. c = clear => o = {}
    OBVIOUS
  <2> HIDE DEF o
  <2>3. Shown(r, c) = [line |-> line, on |-> o]
    BY <1>1, <2>1
  <2> QED
    BY <1>5, <2>2, <2>3 DEF ScreenOf, r
<1> QED
  BY <1>4, <1>5

\* Options leave the line as it is
LEMMA OptionsShown ==
    ASSUME NEW g, NEW buf, NEW a \in Nat, g[0] = ScreenOf(<<>>, {}),
           \A k \in 1 .. a : buf[k] \in Options /\ g[k] = Shown(g[k - 1], buf[k])
    PROVE  \E o : g[a] = ScreenOf(<<>>, o)
<1> DEFINE P == {k \in 0 .. a : \E o : g[k] = ScreenOf(<<>>, o)}
<1>1. 0 \in P
  OBVIOUS
<1>2. ASSUME NEW n \in 1 .. a, n - 1 \in P PROVE n \in P
  <2>1. PICK o : g[n - 1] = ScreenOf(<<>>, o)
    BY <1>2
  <2>2. \E q : Shown(g[n - 1], buf[n]) = ScreenOf(<<>>, q)
    BY <2>1, ShownIs
  <2>3. n \in 0 .. a
    OBVIOUS
  <2> QED
    BY <2>2, <2>3
<1>3. a \in P
  <2> HIDE DEF P
  <2> QED
    BY <1>1, <1>2, UpTo
<1> QED
  BY <1>3

\* From a on, t is what is displayed, and there are no options in it
TextAt(g, buf, a, t) ==
    \A k \in 1 .. Len(t) : /\ buf[a + k] = t[k] /\ t[k] \notin Options
                          /\ g[a + k] = Shown(g[(a + k) - 1], buf[a + k])

\* Other characters are shown, with the options that are on
LEMMA TextShown ==
    ASSUME NEW S, NEW t \in Seq(S), NEW g, NEW buf, NEW a \in Nat, NEW on, g[a] = ScreenOf(<<>>, on),
           TextAt(g, buf, a, t)
    PROVE  g[a + Len(t)] = ScreenOf(t, on)
<1> DEFINE l == Len(t)
<1>0. l \in Nat
  OBVIOUS
<1>5. \A k \in 1 .. l : /\ buf[a + k] = t[k] /\ t[k] \notin Options
                        /\ g[a + k] = Shown(g[(a + k) - 1], buf[a + k])
  BY DEF TextAt
<1>4. SubSeq(t, 1, l) = t
  OBVIOUS
<1>6. \A k \in 1 .. l : Append(SubSeq(t, 1, k - 1), t[k]) = SubSeq(t, 1, k)
  OBVIOUS
<1> HIDE DEF l
<1> DEFINE P == {k \in 0 .. l : g[a + k] = ScreenOf(SubSeq(t, 1, k), on)}
<1>1. 0 \in P
  <2>1. SubSeq(t, 1, 0) = <<>>
    OBVIOUS
  <2>2. a + 0 = a /\ 0 \in 0 .. l
    BY <1>0
  <2> QED
    BY <2>1, <2>2
<1>2. ASSUME NEW n \in 1 .. l, n - 1 \in P PROVE n \in P
  <2>1. g[a + (n - 1)] = ScreenOf(SubSeq(t, 1, n - 1), on)
    BY <1>2
  <2>2. a + (n - 1) = (a + n) - 1
    OBVIOUS
  <2>3. Append(SubSeq(t, 1, n - 1), t[n]) = SubSeq(t, 1, n)
    BY <1>6
  <2>4. g[(a + n) - 1] = ScreenOf(SubSeq(t, 1, n - 1), on)
    BY <2>1, <2>2
  <2>8. t[n] \notin Options
    BY <1>5
  <2>5. Shown(g[(a + n) - 1], t[n]) = ScreenOf(Append(SubSeq(t, 1, n - 1), t[n]), on)
    BY <2>4, <2>8, ShownIs
  <2>6. n \in 0 .. l
    BY <1>0
  <2>7. g[a + n] = Shown(g[(a + n) - 1], t[n])
    BY <1>5
  <2> QED
    BY <2>3, <2>5, <2>6, <2>7
<1>3. l \in P
  <2> HIDE DEF P
  <2> QED
    BY <1>0, <1>1, <1>2, UpTo
<1> QED
  BY <1>3, <1>4 DEF l

\* A line that begins with options, goes on with a text, and ends with what
\* clears the options, if there are any
LineOf(buf, a, t, c) ==
    /\ a \in Nat /\ Len(t) \in Nat /\ c \in {a + Len(t), a + Len(t) + 1} /\ Len(buf) = c + 1
    /\ \A k \in 1 .. a : buf[k] \in Options
    /\ \A k \in 1 .. Len(t) : buf[a + k] = t[k] /\ t[k] \notin Options
    /\ IF c = a + Len(t) THEN a = 0 ELSE buf[c] = clear
    /\ buf[c + 1] = Newline

LEMMA LineShown ==
    ASSUME NEW S, NEW t \in Seq(S), NEW buf, NEW a, NEW c, LineOf(buf, a, t, c), Newline \notin Options
    PROVE  Displayed(ScreenOf(<<>>, {}), buf) = ScreenOf(Append(t, Newline), {})
<1> DEFINE s == ScreenOf(<<>>, {})
           l == Len(t)
<1>1. a \in Nat /\ l \in Nat /\ c \in {a + l, a + l + 1} /\ c \in Nat /\ Len(buf) = c + 1
  BY DEF LineOf
<1> HIDE DEF l
<1>2. PICK g : DisplayLoop(g, s, buf, c + 1) /\ Displayed(s, buf) = g[c + 1]
  <2>1. Displayed(s, buf) = (CHOOSE g : DisplayLoop(g, s, buf, c + 1))[c + 1]
    BY <1>1 DEF Displayed, DisplayLoop
  <2>2. c + 1 \in Nat
    BY <1>1
  <2> HIDE DEF s
  <2> QED
    BY <2>1, <2>2, DisplayLoopExists
<1>3. /\ g[0] = s
      /\ \A k \in 1 .. c + 1 : g[k] = Shown(g[k - 1], buf[k])
  <2>1. 0 \in 0 .. c + 1 /\ \A k \in 1 .. c + 1 : k \in 0 .. c + 1 /\ k # 0
    BY <1>1
  <2> HIDE DEF s
  <2> QED
    BY <1>2, <2>1 DEF DisplayLoop
<1>4. PICK on : g[a] = ScreenOf(<<>>, on)
  <2>1. \A k \in 1 .. a : k \in 1 .. c + 1
    BY <1>1
  <2>2. \A k \in 1 .. a : buf[k] \in Options /\ g[k] = Shown(g[k - 1], buf[k])
    BY <1>3, <2>1 DEF LineOf
  <2>3. a \in Nat /\ g[0] = ScreenOf(<<>>, {})
    BY <1>1, <1>3
  <2> QED
    BY ONLY <2>2, <2>3, OptionsShown
<1>5. g[a + l] = ScreenOf(t, on)
  <2>1. \A k \in 1 .. l : a + k \in 1 .. c + 1
    BY <1>1
  <2>2. \A k \in 1 .. l : g[a + k] = Shown(g[(a + k) - 1], buf[a + k])
    BY <1>3, <2>1
  <2>3. \A k \in 1 .. l : buf[a + k] = t[k] /\ t[k] \notin Options
    BY DEF LineOf, l
  <2>4. TextAt(g, buf, a, t)
    BY <2>2, <2>3 DEF TextAt, l
  <2> QED
    BY <1>1, <1>4, <2>4, TextShown DEF l
<1>6. g[c] = ScreenOf(t, {})
  <2>1. CASE c = a + l
    <3>1. a = 0
      BY <2>1 DEF LineOf, l
    <3>2. ScreenOf(<<>>, on) = ScreenOf(<<>>, {})
      BY <1>3, <1>4, <3>1
    <3>3. on = {}
      BY <3>2 DEF ScreenOf
    <3> QED
      BY <1>5, <2>1, <3>3
  <2>2. CASE c # a + l
    <3>1. c = a + l + 1 /\ c \in 1 .. c + 1 /\ c - 1 = a + l
      BY <1>1, <2>2
    <3>2. buf[c] = clear
      BY <2>2 DEF LineOf, l
    <3>3. g[c] = Shown(g[a + l], clear)
      BY <1>3, <3>1, <3>2
    <3> QED
      BY <1>5, <3>3, ShownIs
  <2> QED
    BY <2>1, <2>2
<1>7. g[c + 1] = ScreenOf(Append(t, Newline), {})
  <2>1. c + 1 \in 1 .. c + 1 /\ (c + 1) - 1 = c
    BY <1>1
  <2>2. buf[c + 1] = Newline
    BY DEF LineOf
  <2>3. g[c + 1] = Shown(g[c], Newline)
    BY <1>3, <2>1, <2>2
  <2> QED
    BY <1>6, <2>3, ShownIs
<1> QED
  BY <1>2, <1>7

-----------------------------------------------------------------------------
(* Log lines: what is written *)

\* What a line shows: the prefix, the path, and the message
TextOf(ctx, lvl, msg) ==
    (Prefix(lvl) \o (IF ctx = <<>> THEN <<>> ELSE <<Opening>> \o context_path(ctx) \o <<Closing>>)) \o msg

\* The characters a line shows
Visible == Marks \union loglevel \union (UNION {Range(n) : n \in Name}) \union (UNION {Range(m) : m \in Message})

\* Messages are text, and none begins with the bracket that opens a path
PlainMessages == \A m \in Message : IsText(m) /\ (m # <<>> => m[1] # Opening)

LEMMA VisibleFacts ==
    ASSUME PlainMessages
    PROVE  /\ Visible \cap Options = {} /\ EndOfText \notin Visible \union Options
           /\ Marks \subseteq Visible /\ loglevel \subseteq Visible
           /\ \A n \in Name : n \in Seq(Visible) /\ Range(n) \cap Marks = {}
           /\ \A m \in Message : m \in Seq(Visible)
<1>1. \A n \in Name : n \in Seq(Range(n)) /\ Range(n) \cap (Options \union loglevel \union {EndOfText, Newline}) = {}
                      /\ Range(n) \cap Marks = {}
  BY LogLineAssumption DEF IsText
<1>2. \A m \in Message : m \in Seq(Range(m)) /\ Range(m) \cap (Options \union loglevel \union {EndOfText, Newline}) = {}
  BY DEF PlainMessages, IsText
<1>3. ASSUME NEW A, NEW B, A \subseteq B, NEW s \in Seq(A) PROVE s \in Seq(B)
  BY <1>3
<1>4. \A n \in Name : Range(n) \subseteq Visible
  BY DEF Visible
<1>5. \A m \in Message : Range(m) \subseteq Visible
  BY DEF Visible
<1>6. Visible \cap Options = {}
  BY <1>1, <1>2, LogLineAssumption DEF Visible
<1>7. EndOfText \notin Visible \union Options
  BY <1>1, <1>2, LogLineAssumption DEF Visible
<1>8. Marks \subseteq Visible /\ loglevel \subseteq Visible
  BY DEF Visible
<1> QED
  BY <1>1, <1>2, <1>3, <1>4, <1>5, <1>6, <1>7, <1>8

LEMMA ContextIs ==
    ASSUME NEW ctx \in Context
    PROVE  ctx \in Seq(Name)
BY LogLineAssumption DEF Context, BoundedSeq, SeqOf

\* w consists of a and b
Concats(w, a, b) ==
    /\ Len(a) \in Nat /\ Len(b) \in Nat /\ Len(w) = Len(a) + Len(b)
    /\ \A i \in 1 .. Len(a) : w[i] = a[i]
    /\ \A k \in 1 .. Len(b) : w[Len(a) + k] = b[k]

LEMMA ConcatIs ==
    ASSUME NEW R, NEW a \in Seq(R), NEW b \in Seq(R)
    PROVE  a \o b \in Seq(R) /\ Concats(a \o b, a, b)
<1> DEFINE w == a \o b
           l == Len(a)
           m == Len(b)
<1>0. l \in Nat /\ m \in Nat
  OBVIOUS
<1>1. w \in Seq(R) /\ Len(w) = l + m /\ \A i \in 1 .. l + m : w[i] = IF i <= l THEN a[i] ELSE b[i - l]
  BY ConcatProperties
<1> HIDE DEF w, l, m
<1>2. \A i \in 1 .. l : w[i] = a[i]
  <2>1. \A i \in 1 .. l : i \in 1 .. l + m /\ i <= l
    BY <1>0
  <2> QED
    BY <1>1, <2>1
<1>3. \A k \in 1 .. m : w[l + k] = b[k]
  <2>1. \A k \in 1 .. m : l + k \in 1 .. l + m /\ ~(l + k <= l) /\ (l + k) - l = k
    BY <1>0
  <2> QED
    BY <1>1, <2>1
<1> QED
  BY <1>0, <1>1, <1>2, <1>3 DEF w, l, m, Concats

LEMMA PrefixedIs ==
    ASSUME NEW w, NEW a, NEW b, Concats(w, a, b), Len(a) = 1
    PROVE  /\ Len(b) \in Nat /\ Len(w) = 1 + Len(b) /\ w[1] = a[1]
           /\ \A k \in 1 .. Len(b) : w[1 + k] = b[k]
BY DEF Concats

LEMMA ClosedIs ==
    ASSUME NEW w, NEW a, NEW b, Concats(w, a, b), Len(b) = 1
    PROVE  /\ Len(a) \in Nat /\ Len(w) = 1 + Len(a) /\ w[1 + Len(a)] = b[1]
           /\ \A k \in 1 .. Len(a) : w[k] = a[k]
<1>1. Len(a) \in Nat /\ Len(w) = Len(a) + 1
  BY DEF Concats
<1>2. Len(a) + 1 = 1 + Len(a)
  BY <1>1
<1>3. w[Len(a) + 1] = b[1]
  BY DEF Concats
<1> QED
  BY <1>1, <1>2, <1>3 DEF Concats

\* What is between the brackets of a line
Bracketed(P, q, m) == (P \o (<<Opening>> \o q \o <<Closing>>)) \o m

LEMMA BracketsHold ==
    ASSUME NEW R, NEW P \in Seq(R), NEW q \in Seq(R), NEW m \in Seq(R), Len(P) = 1, Opening \in R, Closing \in R,
           NEW t, t = Bracketed(P, q, m)
    PROVE  /\ t \in Seq(R) /\ Len(t) >= 3 + Len(q) /\ t[1] = P[1] /\ t[2] = Opening
           /\ \A i \in 1 .. Len(q) : t[2 + i] = q[i]
           /\ t[3 + Len(q)] = Closing
<1> DEFINE o == <<Opening>>
           c == <<Closing>>
           u == o \o q
           v == u \o c
           w == P \o v
           l == Len(q)
<1>1. o \in Seq(R) /\ Len(o) = 1 /\ o[1] = Opening /\ c \in Seq(R) /\ Len(c) = 1 /\ c[1] = Closing
  OBVIOUS
<1>2. t = w \o m
  BY DEF Bracketed
<1>3. u \in Seq(R) /\ Concats(u, o, q)
  <2> HIDE DEF o
  <2> QED
    BY <1>1, ConcatIs
<1>4. v \in Seq(R) /\ Concats(v, u, c)
  <2> HIDE DEF u, c
  <2> QED
    BY <1>1, <1>3, ConcatIs
<1>5. w \in Seq(R) /\ Concats(w, P, v)
  <2> HIDE DEF v
  <2> QED
    BY <1>4, ConcatIs
<1>6. t \in Seq(R) /\ Concats(t, w, m)
  <2> HIDE DEF w
  <2> QED
    BY <1>2, <1>5, ConcatIs
<1> HIDE DEF o, c, u, v, w
<1>7. l \in Nat /\ Len(u) = 1 + l /\ u[1] = Opening /\ \A k \in 1 .. l : u[1 + k] = q[k]
  BY ONLY <1>1, <1>3, PrefixedIs DEF l
<1>8. Len(v) = 1 + Len(u) /\ v[1 + Len(u)] = Closing /\ \A k \in 1 .. Len(u) : v[k] = u[k]
  BY <1>1, <1>4, ClosedIs
<1>9. Len(w) = 1 + Len(v) /\ w[1] = P[1] /\ \A k \in 1 .. Len(v) : w[1 + k] = v[k]
  BY <1>5, PrefixedIs
<1>10. Len(t) = Len(w) + Len(m) /\ Len(m) \in Nat /\ \A i \in 1 .. Len(w) : t[i] = w[i]
  BY <1>6 DEF Concats
<1> HIDE DEF l
<1>11. Len(u) = 1 + l /\ Len(v) = 2 + l /\ Len(w) = 3 + l
  BY <1>7, <1>8, <1>9
<1>12. Len(t) >= 3 + l
  BY <1>7, <1>10, <1>11
<1>13. t[1] = P[1]
  <2>1. 1 \in 1 .. Len(w)
    BY <1>7, <1>11
  <2> QED
    BY <1>9, <1>10, <2>1
<1>14. t[2] = Opening
  <2>1. 1 \in 1 .. Len(u) /\ 1 \in 1 .. Len(v) /\ 1 + 1 \in 1 .. Len(w) /\ 1 + 1 = 2
    BY <1>7, <1>11
  <2>2. t[1 + 1] = Opening
    BY <1>7, <1>8, <1>9, <1>10, <2>1
  <2> QED
    BY <2>1, <2>2
<1>15. ASSUME NEW i \in 1 .. l PROVE t[2 + i] = q[i]
  <2>1. 1 + i \in 1 .. Len(u) /\ 1 + i \in 1 .. Len(v) /\ 1 + (1 + i) \in 1 .. Len(w) /\ 1 + (1 + i) = 2 + i
    BY <1>7, <1>11
  <2>2. v[1 + i] = q[i]
    BY <1>7, <1>8, <2>1
  <2>3. w[1 + (1 + i)] = q[i]
    BY <1>9, <2>1, <2>2
  <2>4. w[2 + i] = q[i] /\ 2 + i \in 1 .. Len(w)
    BY <2>1, <2>3
  <2> QED
    BY <1>10, <2>4
<1>16. t[3 + l] = Closing
  <2>1. 1 + Len(u) = 2 + l /\ 2 + l \in 1 .. Len(v) /\ 1 + (2 + l) = 3 + l /\ 3 + l \in 1 .. Len(w)
    BY <1>7, <1>11
  <2>2. v[2 + l] = Closing
    BY <1>8, <2>1
  <2>3. w[1 + (2 + l)] = Closing
    BY <1>9, <2>1, <2>2
  <2> QED
    BY <1>10, <2>1, <2>3
<1> QED
  BY <1>6, <1>12, <1>13, <1>14, <1>15, <1>16 DEF l

LEMMA SameSequence ==
    ASSUME NEW R, NEW y \in Seq(R), NEW z \in Seq(R), Len(y) = Len(z), \A i \in 1 .. Len(y) : y[i] = z[i]
    PROVE  y = z
OBVIOUS

LEMMA PathFound ==
    ASSUME NEW R, NEW t \in Seq(R), NEW q \in Seq(R), Len(t) >= 3 + Len(q), t[1] # Closing, t[2] = Opening,
           \A i \in 1 .. Len(q) : t[2 + i] = q[i] /\ q[i] # Closing, t[3 + Len(q)] = Closing
    PROVE  PathIn(t) = q /\ NamesIn(t) = SplitAtDots(q)
<1> DEFINE l == Len(q)
           I == {i \in 1 .. Len(t) : t[i] = Closing}
<1>0. l \in Nat /\ l = Len(q) /\ Len(t) \in Nat
  OBVIOUS
<1> HIDE DEF l
<1>1. 3 + l \in I
  BY <1>0
<1>2. \A i \in I : 3 + l <= i
  <2> SUFFICES ASSUME NEW i \in I, i < 3 + l PROVE FALSE
    BY <1>0
  <2>1. i = 1 \/ i = 2 \/ (i - 2 \in 1 .. l /\ 2 + (i - 2) = i)
    BY <1>0
  <2>2. i # 1
    OBVIOUS
  <2>3. i # 2
    BY LogLineAssumption
  <2>4. i - 2 \in 1 .. l /\ 2 + (i - 2) = i
    BY <2>1, <2>2, <2>3
  <2> DEFINE k == i - 2
  <2>5. k \in 1 .. l /\ 2 + k = i
    BY <2>4
  <2> HIDE DEF k
  <2> QED
    BY <1>0, <2>5
<1>3. Min(I) = 3 + l
  <2>1. \A x \in I : x \in Int
    OBVIOUS
  <2>2. Min(I) \in I /\ \A y \in I : Min(I) <= y
    <3> HIDE DEF I
    <3> QED
      BY <1>1, <1>2 DEF Min
  <2> HIDE DEF I
  <2>3. Min(I) <= 3 + l /\ 3 + l <= Min(I) /\ Min(I) \in Int
    BY <1>1, <1>2, <2>1, <2>2
  <2> QED
    BY <1>0, <2>3
<1>4. SelectInSeq(t, LAMBDA ch : ch = Closing) = 3 + l
  BY <1>1, <1>3 DEF SelectInSeq
<1>5. PathIn(t) = SubSeq(t, 3, (3 + l) - 1)
  BY <1>4 DEF PathIn
<1>6. SubSeq(t, 3, (3 + l) - 1) = q
  <2> DEFINE z == SubSeq(t, 3, (3 + l) - 1)
  <2>1. z \in Seq(R) /\ Len(z) = l /\ \A i \in 1 .. l : z[i] = t[2 + i]
    <3>1. (3 + l) - 1 = 2 + l /\ 2 + l <= Len(t)
      BY <1>0
    <3>2. z \in Seq(R) /\ Len(z) = l
      BY <1>0, <3>1
    <3>3. \A i \in 1 .. l : z[i] = t[2 + i]
      BY <1>0, <3>1
    <3> QED
      BY <3>2, <3>3
  <2> HIDE DEF z
  <2>2. \A i \in 1 .. l : z[i] = q[i]
    BY <1>0, <2>1
  <2>3. z = q
    BY <1>0, <2>1, <2>2, SameSequence
  <2> QED
    BY <2>3 DEF z
<1>7. ~(Len(t) < 2 \/ t[2] # Opening)
  BY <1>0
<1> QED
  BY <1>5, <1>6, <1>7 DEF NamesIn

LEMMA ShortSequences ==
    ASSUME NEW S, NEW a \in S, NEW b \in S
    PROVE  <<>> \in Seq(S) /\ <<a>> \in Seq(S) /\ <<a, b>> \in Seq(S)
OBVIOUS

LEMMA MoreElements ==
    ASSUME NEW A, NEW B, A \subseteq B, NEW s \in Seq(A)
    PROVE  s \in Seq(B)
OBVIOUS

LEMMA ColoursAre ==
    ASSUME NEW lvl \in loglevel
    PROVE  /\ color_on(lvl) \in Seq(Options)
           /\ color_off(lvl) \in {<<>>, <<clear>>}
           /\ color_off(lvl) = <<>> => color_on(lvl) = <<>>
<1>1. color_on(lvl) \in {<<>>, <<bold>>, <<yellow>>, <<red>>, <<red, bold>>}
  BY DEF color_on, loglevel
<1>2. color_on(lvl) \in Seq(Options)
  <2>1. red \in Options /\ bold \in Options /\ yellow \in Options
    BY DEF Options
  <2>2. <<>> \in Seq(Options) /\ <<bold>> \in Seq(Options) /\ <<yellow>> \in Seq(Options)
        /\ <<red>> \in Seq(Options) /\ <<red, bold>> \in Seq(Options)
    BY <2>1, ShortSequences
  <2> QED
    BY <1>1, <2>2
<1>3. color_off(lvl) \in {<<>>, <<clear>>}
  BY DEF color_off
<1>4. color_off(lvl) = <<>> => color_on(lvl) = <<>>
  <2>1. lvl \in {"note", "warn", "error", "fatal"} => color_off(lvl) # <<>>
    BY DEF color_off
  <2>2. lvl \notin {"note", "warn", "error", "fatal"} => color_on(lvl) = <<>>
    BY DEF color_on
  <2> QED
    BY <2>1, <2>2
<1> QED
  BY <1>2, <1>3, <1>4

LEMMA ConcatsRegroup ==
    ASSUME NEW x, NEW p, NEW q, NEW u, NEW v, NEW w, Concats(u, x, p), Concats(w, u, q), Concats(v, p, q)
    PROVE  Concats(w, x, v)
<1> DEFINE lx == Len(x)
           lp == Len(p)
           lq == Len(q)
           lu == Len(u)
           lv == Len(v)
<1>1. /\ lx \in Nat /\ lp \in Nat /\ lu = lx + lp
      /\ \A i \in 1 .. lx : u[i] = x[i]
      /\ \A k \in 1 .. lp : u[lx + k] = p[k]
  BY DEF Concats
<1>2. /\ lq \in Nat /\ Len(w) = lu + lq
      /\ \A i \in 1 .. lu : w[i] = u[i]
      /\ \A k \in 1 .. lq : w[lu + k] = q[k]
  BY DEF Concats
<1>3. /\ lv = lp + lq
      /\ \A i \in 1 .. lp : v[i] = p[i]
      /\ \A k \in 1 .. lq : v[lp + k] = q[k]
  BY DEF Concats
<1> HIDE DEF lx, lp, lq, lu, lv
<1>4. lv \in Nat /\ Len(w) = lx + lv
  BY <1>1, <1>2, <1>3
<1>5. ASSUME NEW i \in 1 .. lx PROVE w[i] = x[i]
  <2>1. i \in 1 .. lu
    BY <1>1
  <2> QED
    BY <1>1, <1>2, <2>1
<1>6. ASSUME NEW k \in 1 .. lv PROVE w[lx + k] = v[k]
  <2>1. CASE k <= lp
    <3>1. k \in 1 .. lp /\ lx + k \in 1 .. lu
      BY <1>1, <1>3, <2>1
    <3> QED
      BY <1>1, <1>2, <1>3, <3>1
  <2>2. CASE k > lp
    <3> DEFINE j == k - lp
    <3>1. j \in 1 .. lq /\ lp + j = k /\ lu + j = lx + k
      BY <1>1, <1>2, <1>3, <2>2
    <3> HIDE DEF j
    <3>2. w[lu + j] = q[j] /\ v[lp + j] = q[j]
      BY <1>2, <1>3, <3>1
    <3> QED
      BY <3>1, <3>2
  <2> QED
    BY <1>1, <1>4, <2>1, <2>2
<1> QED
  BY <1>1, <1>4, <1>5, <1>6 DEF lx, lv, Concats

\* A line that consists of options, a text, what clears the options, and a line end
LEMMA LineParts ==
    ASSUME NEW S, NEW z \in Seq(S), NEW x, NEW t, Concats(z, x, t), NEW y \in Seq(S), Newline \in S,
           \A k \in 1 .. Len(x) : x[k] \in Options, \A k \in 1 .. Len(t) : t[k] \notin Options,
           y \in {<<>>, <<clear>>}, y = <<>> => x = <<>>,
           NEW buf, buf = (z \o y) \o <<Newline>>
    PROVE  buf \in Seq(S) /\ \E a, c : LineOf(buf, a, t, c)
<1> DEFINE w == z \o y
           n == <<Newline>>
           a == Len(x)
           c == Len(w)
<1>2. w \in Seq(S) /\ Concats(w, z, y)
  BY ConcatIs
<1>3. n \in Seq(S) /\ Len(n) = 1 /\ n[1] = Newline
  OBVIOUS
<1>4. buf \in Seq(S) /\ Concats(buf, w, n)
  <2>1. buf = w \o n
    OBVIOUS
  <2> HIDE DEF w, n
  <2> QED
    BY <1>2, <1>3, <2>1, ConcatIs
<1>5. /\ y = <<>> => Len(y) = 0 /\ Len(x) = 0
      /\ y # <<>> => Len(y) = 1 /\ y[1] = clear
  OBVIOUS
<1> HIDE DEF w, n
<1>6. Len(w) \in Nat /\ Len(buf) = 1 + Len(w) /\ buf[1 + Len(w)] = Newline /\ \A k \in 1 .. Len(w) : buf[k] = w[k]
  BY ONLY <1>3, <1>4, ClosedIs
<1>7. Len(z) \in Nat /\ Len(y) \in Nat /\ Len(w) = Len(z) + Len(y) /\ (\A k \in 1 .. Len(z) : w[k] = z[k])
      /\ \A k \in 1 .. Len(y) : w[Len(z) + k] = y[k]
  BY <1>2 DEF Concats
<1>8. a \in Nat /\ Len(t) \in Nat /\ Len(z) = a + Len(t) /\ (\A k \in 1 .. a : z[k] = x[k])
      /\ \A k \in 1 .. Len(t) : z[a + k] = t[k]
  BY DEF Concats
<1> HIDE DEF a, c
<1>9. c = Len(w)
  BY DEF c
<1>16. /\ Len(y) = 0 => c = a + Len(t) /\ Len(buf) = c + 1
       /\ Len(y) = 1 => c = a + Len(t) + 1 /\ Len(buf) = c + 1 /\ c # a + Len(t) /\ c = Len(z) + 1 /\ c \in 1 .. c
  <2>1. Len(w) \in Nat /\ Len(z) \in Nat /\ Len(y) \in Nat /\ a \in Nat /\ Len(t) \in Nat /\ Len(buf) \in Nat
    BY <1>6, <1>7, <1>8
  <2>2. Len(z) = a + Len(t) /\ Len(w) = Len(z) + Len(y) /\ Len(buf) = 1 + Len(w)
    BY <1>6, <1>7, <1>8
  <2> DEFINE lt == Len(t)
             ly == Len(y)
             lz == Len(z)
             lw == Len(w)
             lb == Len(buf)
  <2>4. /\ a \in Nat /\ lt \in Nat /\ ly \in Nat /\ lz \in Nat /\ lw \in Nat /\ lb \in Nat
        /\ lz = a + lt /\ lw = lz + ly /\ lb = 1 + lw
    BY <2>1, <2>2
  <2> HIDE DEF lt, ly, lz, lw, lb
  <2>3. /\ ly = 0 => lw = a + lt /\ lb = lw + 1
        /\ ly = 1 => lw = a + lt + 1 /\ lb = lw + 1 /\ lw # a + lt /\ lw = lz + 1 /\ lw \in 1 .. lw
    BY ONLY <2>4
  <2> QED
    BY <1>9, <2>3 DEF lt, ly, lz, lw, lb
<1>10. c \in {a + Len(t), a + Len(t) + 1} /\ Len(buf) = c + 1
  BY <1>5, <1>16
<1>11. ASSUME NEW k \in 1 .. a PROVE buf[k] \in Options
  <2>1. k \in 1 .. Len(z) /\ k \in 1 .. Len(w)
    BY <1>7, <1>8
  <2>2. x[k] \in Options
    BY DEF a
  <2> QED
    BY <1>6, <1>7, <1>8, <2>1, <2>2
<1>12. ASSUME NEW k \in 1 .. Len(t) PROVE buf[a + k] = t[k] /\ t[k] \notin Options
  <2>1. a + k \in 1 .. Len(z) /\ a + k \in 1 .. Len(w)
    BY <1>7, <1>8
  <2> QED
    BY <1>6, <1>7, <1>8, <2>1
<1>13. IF c = a + Len(t) THEN a = 0 ELSE buf[c] = clear
  <2>1. CASE y = <<>>
    BY <1>5, <1>16, <2>1 DEF a
  <2>2. CASE y # <<>>
    <3>1. Len(y) = 1 /\ y[1] = clear
      BY <1>5, <2>2
    <3>2. c = Len(z) + 1 /\ c # a + Len(t) /\ c \in 1 .. Len(w) /\ 1 \in 1 .. Len(y)
      BY <1>9, <1>16, <3>1
    <3>3. w[Len(z) + 1] = clear
      BY <1>7, <3>1, <3>2
    <3> QED
      BY <1>6, <3>2, <3>3
  <2> QED
    BY <2>1, <2>2
<1>14. buf[c + 1] = Newline
  <2>1. 1 + Len(w) = c + 1
    BY <1>6, <1>9
  <2> QED
    BY <1>6, <2>1
<1>15. LineOf(buf, a, t, c)
  BY <1>8, <1>10, <1>11, <1>12, <1>13, <1>14 DEF LineOf
<1> QED
  BY <1>4, <1>15

LEMMA ComposedIs ==
    ASSUME PlainMessages, NEW ctx \in Context, NEW lvl \in loglevel, NEW msg \in Message
    PROVE  /\ TextOf(ctx, lvl, msg) \in Seq(Visible)
           /\ Displayed(ScreenOf(<<>>, {}), Printed(Composed(ctx, lvl, msg)))
                = ScreenOf(Append(TextOf(ctx, lvl, msg), Newline), {})
           /\ NamesIn(TextOf(ctx, lvl, msg)) = ctx
           /\ ctx # <<>> => Len(PathIn(TextOf(ctx, lvl, msg))) = ctx_buf_size(ctx)
<1> DEFINE S == Visible \union Options
           x == IF tty THEN color_on(lvl) ELSE <<>>
           y == IF tty THEN color_off(lvl) ELSE <<>>
           p == Prefix(lvl)
           q == IF ctx = <<>> THEN <<>> ELSE <<Opening>> \o context_path(ctx) \o <<Closing>>
           t == TextOf(ctx, lvl, msg)
           buf == Composed(ctx, lvl, msg)
<1>1. Opening \in Visible /\ Closing \in Visible /\ Newline \in Visible /\ Period \in Visible
  BY VisibleFacts DEF Marks
<1>2. p \in Seq(Visible) /\ msg \in Seq(Visible) /\ Len(p) = 1 /\ p[1] = lvl
  BY VisibleFacts DEF Prefix
<1>3. ctx \in Seq(Name) /\ ctx \in Seq(Seq(Visible))
  <2>1. ctx \in Seq(Name)
    BY ContextIs
  <2>2. Name \subseteq Seq(Visible)
    BY VisibleFacts
  <2> QED
    BY <2>1, <2>2
<1>4. \A n \in 1 .. Len(ctx) : \A k \in 1 .. Len(ctx[n]) : ctx[n][k] \notin Marks
  <2> TAKE n \in 1 .. Len(ctx)
  <2> TAKE k \in 1 .. Len(ctx[n])
  <2>1. ctx[n] \in Name
    BY <1>3
  <2>2. ctx[n] \in Seq(Visible) /\ Range(ctx[n]) \cap Marks = {}
    BY <2>1, VisibleFacts
  <2>3. ctx[n][k] \in Range(ctx[n])
    BY <2>2 DEF Range
  <2> QED
    BY <2>2, <2>3
<1>5. ASSUME ctx # <<>>
      PROVE  /\ context_path(ctx) \in Seq(Visible) /\ Len(context_path(ctx)) = ctx_buf_size(ctx)
             /\ SplitAtDots(context_path(ctx)) = ctx
             /\ \A i \in 1 .. Len(context_path(ctx)) : context_path(ctx)[i] # Closing
  <2>1. \A n \in 1 .. Len(ctx) : \A k \in 1 .. Len(ctx[n]) : ctx[n][k] # Period
    BY <1>4 DEF Marks
  <2>2. \A n \in 1 .. Len(ctx) : \A k \in 1 .. Len(ctx[n]) : ctx[n][k] # Closing
    BY <1>4 DEF Marks
  <2>3. /\ context_path(ctx) \in Seq(Visible) /\ Len(context_path(ctx)) = ctx_buf_size(ctx)
        /\ SplitAtDots(context_path(ctx)) = ctx
        /\ \A i \in 1 .. Len(context_path(ctx)) :
             \/ context_path(ctx)[i] = Period
             \/ \E m \in 1 .. Len(ctx) : \E k \in 1 .. Len(ctx[m]) : context_path(ctx)[i] = ctx[m][k]
    BY <1>1, <1>3, <1>5, <2>1, PathSplits
  <2> QED
    BY <2>2, <2>3, LogLineAssumption
<1>6. q \in Seq(Visible)
  <2>1. CASE ctx = <<>>
    BY <2>1
  <2>2. CASE ctx # <<>>
    <3> DEFINE path == context_path(ctx)
    <3>1. path \in Seq(Visible)
      BY <1>5, <2>2
    <3> HIDE DEF path
    <3>2. <<Opening>> \o path \o <<Closing>> \in Seq(Visible)
      BY <1>1, <3>1
    <3> QED
      BY <2>2, <3>2 DEF path
  <2> QED
    BY <2>1, <2>2
<1>7. t = (p \o q) \o msg
  BY DEF TextOf
<1>8. buf = (((((x \o p) \o q) \o msg) \o y) \o <<Newline>>)
  BY DEF Composed
<1>9. /\ x \in Seq(Options) /\ y \in {<<>>, <<clear>>} /\ (y = <<>> => x = <<>>)
  BY ColoursAre
<1> HIDE DEF x, y, p, q, t, buf
<1>10. t \in Seq(Visible)
  BY <1>2, <1>6, <1>7
<1>11. x \in Seq(S) /\ y \in Seq(S) /\ t \in Seq(S) /\ Newline \in S
       /\ p \in Seq(S) /\ q \in Seq(S) /\ msg \in Seq(S) /\ clear \in S
  <2>1. Visible \subseteq S /\ Options \subseteq S
    OBVIOUS
  <2>2. <<>> \in Seq(S) /\ <<clear>> \in Seq(S) /\ clear \in S /\ Newline \in S
    BY <1>1, ShortSequences DEF Options
  <2> HIDE DEF S
  <2> QED
    BY <1>2, <1>6, <1>9, <1>10, <2>1, <2>2, MoreElements
<1> DEFINE z == ((x \o p) \o q) \o msg
<1>12. z \in Seq(S) /\ Concats(z, x, t)
  <2> HIDE DEF S
  <2> DEFINE xp == x \o p
             xpq == xp \o q
             pq == p \o q
  <2>1. xp \in Seq(S) /\ Concats(xp, x, p)
    BY <1>11, ConcatIs
  <2>2. pq \in Seq(S) /\ Concats(pq, p, q)
    BY <1>11, ConcatIs
  <2>3. z = xpq \o msg /\ t = pq \o msg
    BY <1>7
  <2>4. xpq \in Seq(S) /\ Concats(xpq, xp, q)
    <3> HIDE DEF xp
    <3> QED
      BY <1>11, <2>1, ConcatIs
  <2> HIDE DEF xp, xpq, pq, z
  <2>5. z \in Seq(S) /\ Concats(z, xpq, msg)
    BY <1>11, <2>3, <2>4, ConcatIs
  <2>6. Concats(t, pq, msg)
    BY <1>11, <2>2, <2>3, ConcatIs
  <2>7. Concats(xpq, x, pq)
    BY <2>1, <2>2, <2>4, ConcatsRegroup
  <2> QED
    BY <2>5, <2>6, <2>7, ConcatsRegroup
<1>19. buf = (z \o y) \o <<Newline>>
  BY <1>8
<1>13. buf \in Seq(S) /\ \E a, c : LineOf(buf, a, t, c)
  <2>1. \A k \in 1 .. Len(x) : x[k] \in Options
    BY <1>9
  <2>2. \A k \in 1 .. Len(t) : t[k] \notin Options
    BY <1>10, VisibleFacts
  <2> HIDE DEF S, z
  <2> QED
    BY <1>9, <1>11, <1>12, <1>19, <2>1, <2>2, LineParts
<1>14. Printed(buf) = buf
  <2>1. EndOfText \notin S
    BY VisibleFacts
  <2>2. EndOfText \notin Range(buf)
    <3> HIDE DEF S
    <3> QED
      BY <1>13, <2>1 DEF Range
  <2> QED
    BY <2>2 DEF Printed
<1>15. Newline \notin Options
  BY LogLineAssumption DEF Marks
<1>16. Displayed(ScreenOf(<<>>, {}), Printed(buf)) = ScreenOf(Append(t, Newline), {})
  BY <1>10, <1>13, <1>14, <1>15, LineShown
<1>17. CASE ctx = <<>>
  <2>1. q = <<>>
    BY <1>17 DEF q
  <2>2. t = p \o msg
    BY <1>2, <1>7, <2>1
  <2>3. Len(t) < 2 \/ t[2] # Opening
    <3>1. Len(t) = 1 + Len(msg) /\ Len(msg) \in Nat /\ \A k \in 1 .. Len(msg) : t[1 + k] = msg[k]
      <4>1. Concats(t, p, msg)
        BY <1>2, <2>2, ConcatIs
      <4> QED
        BY <1>2, <4>1, PrefixedIs
    <3>2. CASE msg = <<>>
      BY <3>1, <3>2
    <3>3. CASE msg # <<>>
      <4>1. 1 \in 1 .. Len(msg) /\ 1 + 1 = 2
        BY <1>2, <3>1, <3>3
      <4>2. t[1 + 1] = msg[1]
        BY <3>1, <4>1
      <4>3. msg[1] # Opening
        BY <3>3 DEF PlainMessages
      <4> QED
        BY <4>1, <4>2, <4>3
    <3> QED
      BY <3>2, <3>3
  <2>4. NamesIn(t) = <<>>
    BY <2>3 DEF NamesIn
  <2> QED
    BY <1>10, <1>16, <1>17, <2>4 DEF t, buf
<1>18. CASE ctx # <<>>
  <2> DEFINE path == context_path(ctx)
  <2>1. path \in Seq(Visible) /\ Len(path) = ctx_buf_size(ctx) /\ SplitAtDots(path) = ctx
        /\ \A i \in 1 .. Len(path) : path[i] # Closing
    BY <1>5, <1>18
  <2>2. q = <<Opening>> \o path \o <<Closing>>
    BY <1>18 DEF q
  <2> HIDE DEF path
  <2>3. /\ Len(t) >= 3 + Len(path) /\ t[1] = p[1] /\ t[2] = Opening
        /\ \A i \in 1 .. Len(path) : t[2 + i] = path[i]
        /\ t[3 + Len(path)] = Closing
    <3>1. t = Bracketed(p, path, msg)
      BY <1>7, <2>2 DEF Bracketed
    <3> QED
      BY <1>1, <1>2, <2>1, <3>1, BracketsHold
  <2>4. t[1] # Closing
    BY <1>2, <2>3, LogLineAssumption DEF Marks
  <2>5. \A i \in 1 .. Len(path) : t[2 + i] = path[i] /\ path[i] # Closing
    BY <2>1, <2>3
  <2>6. PathIn(t) = path /\ NamesIn(t) = SplitAtDots(path)
    BY <1>10, <2>1, <2>3, <2>4, <2>5, PathFound
  <2> QED
    BY <1>10, <1>16, <1>18, <2>1, <2>6 DEF t, buf
<1> QED
  BY <1>17, <1>18

LEMMA ConsumeShows ==
    ASSUME PlainMessages, NEW ctx \in Context, NEW lvl \in loglevel, NEW msg \in Message,
           TerminalRestored, Consume(ctx, lvl, msg)
    PROVE  LineAsMeant'
<1> DEFINE t == TextOf(ctx, lvl, msg)
           written == Displayed(screen, Printed(Composed(ctx, lvl, msg)))
           ended == written.line # <<>> /\ Last(written.line) = Newline
<1>1. screen = ScreenOf(<<>>, {})
  BY DEF TerminalRestored, ScreenOf
<1>2. written = ScreenOf(Append(t, Newline), {}) /\ t \in Seq(Visible)
      /\ NamesIn(t) = ctx /\ (ctx # <<>> => Len(PathIn(t)) = ctx_buf_size(ctx))
  BY <1>1, ComposedIs
<1>3. /\ logged' = <<ctx, lvl, msg>> /\ reserved' = ctx_buf_size(ctx)
      /\ screen' = [written EXCEPT !.line = IF ended THEN <<>> ELSE @]
      /\ shown' = IF ended THEN Front(written.line) ELSE shown
  BY DEF Consume
<1> HIDE DEF t, written
<1>4. written = [line |-> Append(t, Newline), on |-> {}] /\ written.line = Append(t, Newline)
  BY <1>2 DEF ScreenOf
<1>5. Append(t, Newline) # <<>> /\ Last(Append(t, Newline)) = Newline /\ Front(Append(t, Newline)) = t
  BY <1>2 DEF Last, Front
<1>6. ended
  BY <1>4, <1>5
<1>7. shown' = t
  BY <1>3, <1>4, <1>5, <1>6
<1>8. screen' = [written EXCEPT !.line = <<>>]
  BY <1>3, <1>6
<1>9. screen' = [line |-> <<>>, on |-> {}]
  BY <1>4, <1>8
<1>10. logged'[1] = ctx
  BY <1>3
<1> QED
  BY <1>2, <1>3, <1>7, <1>9, <1>10 DEF LineAsMeant, TerminalRestored, PathNamesContext

\* What the default consumer writes for a message is one line that says which
\* context it comes from, of the length reserved for it, and leaves the terminal
\* as it was, whatever the names, the level, and the depth of the context are.
\* A message is text that does not begin with the bracket of a path.
THEOREM LineIsRight == PlainMessages => (LogLineSpec => []LineAsMeant)
<1> SUFFICES ASSUME PlainMessages PROVE LogLineSpec => []LineAsMeant
  OBVIOUS
<1>1. LogLineInit => LineAsMeant
  BY DEF LogLineInit, LineAsMeant, TerminalRestored, PathNamesContext
<1>2. LineAsMeant /\ [LogLineNext]_logLineVars => LineAsMeant'
  <2> SUFFICES ASSUME LineAsMeant, [LogLineNext]_logLineVars PROVE LineAsMeant'
    OBVIOUS
  <2>1. CASE LogLineNext
    BY <2>1, ConsumeShows DEF LogLineNext, LineAsMeant
  <2>2. CASE UNCHANGED logLineVars
    BY <2>2 DEF logLineVars, LineAsMeant, TerminalRestored, PathNamesContext
  <2> QED
    BY <2>1, <2>2
<1> QED
  BY <1>1, <1>2, PTL DEF LogLineSpec
=============================================================================
