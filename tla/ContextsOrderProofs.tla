------------------------ MODULE ContextsOrderProofs ------------------------
(***************************************************************************)
(* Proofs about the order of the list of Contexts: it is complete whatever *)
(* the program does, and for a program that constructs parents before the  *)
(* first set_level and destroys children before their parents, organize    *)
(* sorts it, the sorted list stays in preorder, and a level set reaches    *)
(* the contexts below.                                                     *)
(*                                                                         *)
(* The order is made explicit by numbering the living nodes along the      *)
(* list.  The numbers are no state of the program: the invariants say that *)
(* some numbering exists.                                                  *)
(***************************************************************************)
EXTENDS ContextsProofs, NaturalsInduction, WellFoundedInduction

\* A set of numbers has a least member
LEMMA LeastNumber ==
    ASSUME NEW S \in SUBSET Nat, S # {}
    PROVE  \E m \in S : \A k \in S : m <= k
<1> DEFINE R == {ss \in Nat \X Nat : ss[1] < ss[2]}
<1>1. IsWellFoundedOn(R, Nat)
  BY NatLessThanWellFounded DEF OpToRel
<1>2. PICK x \in S : \A y \in S : ~(<<y, x>> \in R)
  BY <1>1, WFMin
<1>3. ASSUME NEW y \in S PROVE x <= y
  <2>1. x \in Nat /\ y \in Nat
    OBVIOUS
  <2>2. y < x => <<y, x>> \in R
    BY <2>1
  <2> QED BY <1>2, <2>1, <2>2
<1> QED BY <1>3

-----------------------------------------------------------------------------
(* The numbering *)

\* pos numbers the living nodes along the list, which starts at the root,
\* passes nobody over, and ends
Numbered(pos) ==
    /\ \A m, n \in Alive : pos[m] = pos[n] => m = n
    /\ \A n \in Alive : pos[Root] <= pos[n]
    /\ \A m \in Alive : next[m] # Null =>
           /\ pos[m] < pos[next[m]]
           /\ \A n \in Alive : pos[n] <= pos[m] \/ pos[next[m]] <= pos[n]
    /\ \A m \in Alive : next[m] = Null => \A n \in Alive : pos[n] <= pos[m]
    /\ \E m \in Alive : next[m] = Null

\* The numbers once c has been put right after node a
PutAfter(pos, a, c) ==
    [n \in Node |-> IF n = c THEN pos[a] + 1
                    ELSE IF pos[n] > pos[a] THEN pos[n] + 1 ELSE pos[n]]

\* The first of the nodes of a set
LEMMA FirstNode ==
    ASSUME NEW pos \in [Node -> Nat], NEW S \in SUBSET Node, S # {}
    PROVE  \E m \in S : \A n \in S : pos[m] <= pos[n]
<1> DEFINE T == {pos[n] : n \in S}
<1>1. T \in SUBSET Nat /\ T # {}
  OBVIOUS
<1>2. PICK k \in T : \A j \in T : k <= j
  BY <1>1, LeastNumber
<1>3. PICK m \in S : pos[m] = k
  OBVIOUS
<1> QED BY <1>2, <1>3

LEMMA NumberedInit ==
    ASSUME Init
    PROVE  Numbered([n \in Node |-> 0])
<1>1. Alive = {Root} /\ Root \in Node /\ next[Root] = Null
  BY NodesAssumption DEF Init, Alive, Node
<1> QED BY <1>1 DEF Numbered

LEMMA NumberedConstruct ==
    ASSUME IInv, NEW c \in Ctx, NEW p \in Parents[c], Construct(c, p),
           NEW pos \in [Node -> Nat], Numbered(pos),
           NEW a \in Alive, a = BirthPlace(p)
    PROVE  /\ PutAfter(pos, a, c) \in [Node -> Nat]
           /\ Numbered(PutAfter(pos, a, c))'
<1> DEFINE q == PutAfter(pos, a, c)
<1>1. /\ c \in Node /\ c # Root /\ c \notin Alive /\ c # a
      /\ Alive \subseteq Node /\ Null \notin Node /\ Root \in Alive
  BY NodesAssumption DEF Construct, MayConstruct, Alive, Node, IInv, ListInv
<1>2. Alive' = Alive \union {c}
  BY <1>1 DEF Construct, Alive, IInv, TypeOK
<1>3. next' = [next EXCEPT ![c] = next[a], ![a] = c] /\ next \in [Node -> Node \union {Null}]
  BY DEF Construct, LinkAfter, IInv, TypeOK
<1>4. \A n \in Alive : next[n] # Null => next[n] \in Alive
  BY DEF IInv, ListInv, DoublyLinked
<1>5. q \in [Node -> Nat]
  BY <1>1 DEF PutAfter
<1>6. /\ q[c] = pos[a] + 1
      /\ \A n \in Alive : q[n] = IF pos[n] > pos[a] THEN pos[n] + 1 ELSE pos[n]
  BY <1>1 DEF PutAfter
<1>7. \A n \in Alive : pos[n] \in Nat
  BY <1>1
<1> HIDE DEF q
<1>8. \A m, n \in Alive' : q[m] = q[n] => m = n
  BY <1>2, <1>6, <1>7 DEF Numbered
<1>9. \A n \in Alive' : q[Root] <= q[n]
  BY <1>1, <1>2, <1>6, <1>7 DEF Numbered
<1>10. ASSUME NEW m \in Alive', next'[m] # Null
       PROVE  /\ q[m] < q[next'[m]]
              /\ \A n \in Alive' : q[n] <= q[m] \/ q[next'[m]] <= q[n]
  <2>1. CASE m = c
    <3>1. next'[m] = next[a] /\ next[a] \in Alive
      BY <2>1, <1>1, <1>3, <1>4, <1>10
    <3>2. /\ pos[a] < pos[next[a]]
          /\ \A n \in Alive : pos[n] <= pos[a] \/ pos[next[a]] <= pos[n]
      BY <3>1, <1>1 DEF Numbered
    <3> QED BY <2>1, <3>1, <3>2, <1>2, <1>6, <1>7
  <2>2. CASE m = a
    <3>1. next'[m] = c
      BY <2>2, <1>1, <1>3
    <3> QED BY <2>2, <3>1, <1>2, <1>6, <1>7
  <2>3. CASE m # a /\ m # c
    <3>1. m \in Alive /\ next'[m] = next[m] /\ next[m] \in Alive
      BY <2>3, <1>1, <1>2, <1>3, <1>4, <1>10
    <3>2. /\ pos[m] < pos[next[m]]
          /\ \A n \in Alive : pos[n] <= pos[m] \/ pos[next[m]] <= pos[n]
          /\ pos[m] # pos[a]
      BY <2>3, <3>1, <1>1 DEF Numbered
    <3>3. pos[a] <= pos[m] \/ pos[next[m]] <= pos[a]
      BY <3>2
    <3> QED BY <3>1, <3>2, <3>3, <1>2, <1>6, <1>7
  <2> QED BY <2>1, <2>2, <2>3
<1>11. ASSUME NEW m \in Alive', next'[m] = Null
       PROVE  \A n \in Alive' : q[n] <= q[m]
  <2>1. CASE m = c
    <3>1. next[a] = Null
      BY <2>1, <1>1, <1>3, <1>11
    <3> QED BY <2>1, <3>1, <1>1, <1>2, <1>6, <1>7 DEF Numbered
  <2>2. CASE m # c
    <3>1. m # a /\ m \in Alive /\ next[m] = Null
      BY <2>2, <1>1, <1>2, <1>3, <1>11
    <3>2. (\A n \in Alive : pos[n] <= pos[m]) /\ pos[m] # pos[a]
      BY <3>1 DEF Numbered
    <3> QED BY <3>1, <3>2, <1>2, <1>6, <1>7
  <2> QED BY <2>1, <2>2
<1>12. \E m \in Alive' : next'[m] = Null
  <2>1. PICK m \in Alive : next[m] = Null
    BY DEF Numbered
  <2>2. CASE m = a
    BY <2>1, <2>2, <1>1, <1>2, <1>3
  <2>3. CASE m # a
    BY <2>1, <2>3, <1>1, <1>2, <1>3
  <2> QED BY <2>2, <2>3
<1> QED BY <1>5, <1>8, <1>9, <1>10, <1>11, <1>12 DEF Numbered, q

LEMMA NumberedDestroy ==
    ASSUME IInv, NEW c \in Ctx, Destroy(c), NEW pos \in [Node -> Nat], Numbered(pos)
    PROVE  Numbered(pos)'
<1>1. /\ c \in Node /\ c # Root /\ c \in Alive
      /\ Alive \subseteq Node /\ Null \notin Node /\ Root \in Alive
  BY NodesAssumption DEF Destroy, Alive, Node, IInv, ListInv
<1>2. Alive' = Alive \ {c}
  BY <1>1 DEF Destroy, Alive, IInv, TypeOK
<1>3. /\ next' = [next EXCEPT ![prev[c]] = next[c], ![c] = Null]
      /\ next \in [Node -> Node \union {Null}]
  BY DEF Destroy, Unlink, IInv, TypeOK
<1>4. /\ \A n \in Alive : next[n] # Null => next[n] \in Alive /\ prev[next[n]] = n
      /\ prev[c] \in Alive /\ next[prev[c]] = c /\ prev[c] # c
  <2>1. /\ \A n \in Alive : next[n] # Null => next[n] \in Alive /\ prev[next[n]] = n
        /\ prev[c] \in Alive /\ next[prev[c]] = c
    BY <1>1 DEF IInv, ListInv, DoublyLinked
  <2>2. pos[prev[c]] < pos[c]
    BY <2>1, <1>1 DEF Numbered
  <2> QED BY <2>1, <2>2, <1>1
<1>5. \A n \in Alive : pos[n] \in Nat
  BY <1>1
<1>6. ASSUME NEW m \in Alive', next'[m] # Null
      PROVE  /\ pos[m] < pos[next'[m]]
             /\ \A n \in Alive' : pos[n] <= pos[m] \/ pos[next'[m]] <= pos[n]
  <2>1. CASE m = prev[c]
    <3>1. next'[m] = next[c] /\ next[c] \in Alive /\ next[m] = c
      BY <2>1, <1>1, <1>3, <1>4, <1>6
    <3>2. /\ pos[m] < pos[c] /\ pos[c] < pos[next[c]]
          /\ \A n \in Alive : pos[n] <= pos[m] \/ pos[c] <= pos[n]
          /\ \A n \in Alive : pos[n] <= pos[c] \/ pos[next[c]] <= pos[n]
      BY <3>1, <2>1, <1>1, <1>4 DEF Numbered
    <3>3. ASSUME NEW n \in Alive, n # c PROVE pos[n] <= pos[m] \/ pos[next[c]] <= pos[n]
      <4>1. pos[n] # pos[c]
        BY <1>1, <3>3 DEF Numbered
      <4> QED BY <4>1, <3>1, <3>2, <1>1, <1>5, <2>1, <1>4
    <3> QED BY <3>1, <3>2, <3>3, <1>1, <1>2, <1>4, <1>5, <2>1
  <2>2. CASE m # prev[c]
    <3>1. m \in Alive /\ next'[m] = next[m]
      BY <2>2, <1>1, <1>2, <1>3
    <3> QED BY <3>1, <1>2, <1>6 DEF Numbered
  <2> QED BY <2>1, <2>2
<1>7. ASSUME NEW m \in Alive', next'[m] = Null
      PROVE  \A n \in Alive' : pos[n] <= pos[m]
  <2>1. CASE m = prev[c]
    <3>1. next[c] = Null /\ next[m] = c
      BY <2>1, <1>1, <1>3, <1>4, <1>7
    <3>2. ASSUME NEW n \in Alive, n # c PROVE pos[n] <= pos[m]
      <4>1. /\ pos[n] <= pos[c] /\ pos[n] # pos[c]
            /\ pos[n] <= pos[m] \/ pos[c] <= pos[n]
        BY <3>1, <3>2, <2>1, <1>1, <1>4 DEF Numbered
      <4> QED BY <4>1, <1>1, <1>5
    <3> QED BY <3>2, <1>2
  <2>2. CASE m # prev[c]
    <3>1. m \in Alive /\ next[m] = Null
      BY <2>2, <1>1, <1>2, <1>3, <1>7
    <3> QED BY <3>1, <1>2 DEF Numbered
  <2> QED BY <2>1, <2>2
<1>8. \E m \in Alive' : next'[m] = Null
  <2>1. PICK m \in Alive : next[m] = Null
    BY DEF Numbered
  <2>2. CASE m = c
    BY <2>1, <2>2, <1>1, <1>2, <1>3, <1>4
  <2>3. CASE m # c
    BY <2>1, <2>3, <1>1, <1>2, <1>3, <1>4
  <2> QED BY <2>2, <2>3
<1>9. /\ \A m, n \in Alive' : pos[m] = pos[n] => m = n
      /\ \A n \in Alive' : pos[Root] <= pos[n]
  BY <1>2 DEF Numbered
<1> QED BY <1>6, <1>7, <1>8, <1>9 DEF Numbered

\* What Relocate does to the links
LEMMA RelocateLinks ==
    ASSUME IInv, Relocate, pc' # "segv"
    PROVE  /\ curr \in Alive /\ par \in Alive /\ prev[curr] \in Alive
           /\ curr # Root /\ curr # par /\ prev[curr] # par
           /\ parent[curr] = par /\ next[prev[curr]] = curr
           /\ next[curr] \in Alive \union {Null}
           /\ next[par] \in Alive /\ next[par] # curr
           /\ next' = [next EXCEPT ![prev[curr]] = next[curr], ![curr] = next[par], ![par] = curr]
           /\ pc' = pc /\ curr' = next[curr] /\ Alive' = Alive
<1> USE NodesAssumption DEF Node
<1>1. /\ curr \in Alive /\ par \in Alive /\ curr # Root /\ curr # par
      /\ parent[curr] = par /\ next[par] # curr
  BY DEF Relocate, InPlace, IInv, SortInv, ListInv, Sorting, TypeOK, Alive
<1>2. /\ prev[curr] \in Alive /\ next[prev[curr]] = curr
      /\ next[curr] \in Alive \union {Null} /\ next[par] \in Alive \union {Null}
  BY <1>1 DEF IInv, ListInv, DoublyLinked
<1>3. prev[curr] # par
  BY <1>1, <1>2
<1>4. [next EXCEPT ![prev[curr]] = next[curr]][par] = next[par]
  BY <1>1, <1>2, <1>3 DEF IInv, TypeOK, Alive
<1>5. pc = "organize"
  BY DEF Relocate
<1>6. /\ next[par] # Null
      /\ next' = [[next EXCEPT ![prev[curr]] = next[curr]]
                     EXCEPT ![curr] = next[par], ![par] = curr]
      /\ curr' = next[curr] /\ pc' = pc
  BY <1>4, <1>5 DEF Relocate
<1>7. Alive' = Alive
  BY DEF Relocate, Alive, objects
<1> QED BY <1>1, <1>2, <1>3, <1>6, <1>7

LEMMA NumberedRelocate ==
    ASSUME IInv, Relocate, pc' # "segv", NEW pos \in [Node -> Nat], Numbered(pos),
           NEW a \in Alive, a = par, NEW c \in Alive, c = curr
    PROVE  /\ PutAfter(pos, a, c) \in [Node -> Nat]
           /\ Numbered(PutAfter(pos, a, c))'
<1> DEFINE q == PutAfter(pos, a, c)
           b == prev[c]
<1>1. /\ b \in Alive /\ next[b] = c /\ b # a /\ b # c /\ c # Root /\ c # a
      /\ next[c] \in Alive \union {Null} /\ next[a] \in Alive /\ next[a] # c
      /\ next' = [next EXCEPT ![b] = next[c], ![c] = next[a], ![a] = c]
      /\ Alive' = Alive
  <2>1. /\ b \in Alive /\ next[b] = c /\ b # a /\ c # Root /\ c # a
        /\ next[c] \in Alive \union {Null} /\ next[a] \in Alive /\ next[a] # c
        /\ next' = [next EXCEPT ![b] = next[c], ![c] = next[a], ![a] = c]
        /\ Alive' = Alive
    BY RelocateLinks
  <2>2. c # Null
    BY NodesAssumption DEF Alive
  <2>3. pos[b] < pos[c]
    BY <2>1, <2>2 DEF Numbered
  <2>4. pos[b] \in Nat /\ pos[c] \in Nat
    BY <2>1 DEF Alive
  <2> QED BY <2>1, <2>3, <2>4
<1>2. /\ Alive \subseteq Node /\ Null \notin Node /\ Root \in Alive
      /\ next \in [Node -> Node \union {Null}]
      /\ \A n \in Alive : next[n] # Null => next[n] \in Alive /\ prev[next[n]] = n
  <2>1. Alive \subseteq Node /\ Null \notin Node /\ Root \in Alive
    BY NodesAssumption DEF Alive, Node, IInv, ListInv
  <2>2. next \in [Node -> Node \union {Null}]
    BY DEF IInv, TypeOK
  <2>3. \A n \in Alive : next[n] # Null => next[n] \in Alive /\ prev[next[n]] = n
    BY DEF IInv, ListInv, DoublyLinked
  <2> QED BY <2>1, <2>2, <2>3
<1>3. q \in [Node -> Nat]
  BY <1>2 DEF PutAfter
<1>4. /\ q[c] = pos[a] + 1
      /\ \A n \in Alive : n # c => q[n] = IF pos[n] > pos[a] THEN pos[n] + 1 ELSE pos[n]
  BY <1>2 DEF PutAfter
<1>5. \A n \in Alive : pos[n] \in Nat
  BY <1>2
<1>6. /\ next'[b] = next[c] /\ next'[c] = next[a] /\ next'[a] = c
      /\ \A m \in Alive : m \notin {a, b, c} => next'[m] = next[m] /\ next[m] # c
  BY <1>1, <1>2
<1> HIDE DEF q, b
<1>7. \A m, n \in Alive : q[m] = q[n] => m = n
  BY <1>4, <1>5 DEF Numbered
<1>8. \A n \in Alive : q[Root] <= q[n]
  BY <1>1, <1>2, <1>4, <1>5 DEF Numbered
\* The nodes in list order with c left out
<1>9. ASSUME NEW m \in Alive, m # c, next[m] # Null, next[m] # c
      PROVE  /\ next[m] \in Alive /\ pos[m] < pos[next[m]]
             /\ \A n \in Alive : pos[n] <= pos[m] \/ pos[next[m]] <= pos[n]
  BY <1>9, <1>2 DEF Numbered
<1>10. ASSUME NEW m \in Alive, next'[m] # Null
       PROVE  /\ q[m] < q[next'[m]]
              /\ \A n \in Alive : q[n] <= q[m] \/ q[next'[m]] <= q[n]
  <2>1. CASE m = c
    <3>1. /\ pos[a] < pos[next[a]]
          /\ \A n \in Alive : pos[n] <= pos[a] \/ pos[next[a]] <= pos[n]
      BY <1>1, <1>2, <1>9
    <3>2. next'[m] = next[a] /\ q[next[a]] = pos[next[a]] + 1 /\ q[m] = pos[a] + 1
      BY <2>1, <3>1, <1>1, <1>4, <1>6
    <3> QED BY <3>1, <3>2, <1>1, <1>4, <1>5
  <2>2. CASE m = a
    <3>1. next'[m] = c /\ q[m] = pos[a] /\ q[c] = pos[a] + 1
      BY <2>2, <1>1, <1>4, <1>5, <1>6
    <3> QED BY <3>1, <1>4, <1>5
  <2>3. CASE m = b
    <3>1. next'[m] = next[c] /\ next[c] \in Alive /\ next[c] # c
      <4>1. next[c] \in Alive
        BY <2>3, <1>1, <1>6, <1>10
      <4>2. pos[c] < pos[next[c]]
        BY <4>1, <1>2 DEF Numbered
      <4> QED BY <2>3, <4>1, <4>2, <1>5, <1>6
    <3>2. /\ pos[b] < pos[c] /\ pos[c] < pos[next[c]]
          /\ \A n \in Alive : pos[n] <= pos[b] \/ pos[c] <= pos[n]
          /\ \A n \in Alive : pos[n] <= pos[c] \/ pos[next[c]] <= pos[n]
      BY <3>1, <1>1, <1>2 DEF Numbered
    <3>3. ASSUME NEW n \in Alive, n # c PROVE pos[n] <= pos[b] \/ pos[next[c]] <= pos[n]
      <4>1. pos[n] # pos[c]
        BY <3>3 DEF Numbered
      <4> QED BY <4>1, <3>1, <3>2, <1>1, <1>5
    <3>4. pos[a] # pos[b] /\ (pos[a] <= pos[b] \/ pos[next[c]] <= pos[a])
      BY <3>3, <1>1 DEF Numbered
    <3> QED BY <2>3, <3>1, <3>2, <3>3, <3>4, <1>1, <1>4, <1>5
  <2>4. CASE m \notin {a, b, c}
    <3>1. next'[m] = next[m] /\ next[m] # c
      BY <2>4, <1>6
    <3>2. /\ next[m] \in Alive /\ pos[m] < pos[next[m]]
          /\ \A n \in Alive : pos[n] <= pos[m] \/ pos[next[m]] <= pos[n]
      BY <2>4, <3>1, <1>9, <1>10
    <3>3. pos[a] # pos[m] /\ (pos[a] <= pos[m] \/ pos[next[m]] <= pos[a])
      BY <2>4, <3>2 DEF Numbered
    <3> QED BY <2>4, <3>1, <3>2, <3>3, <1>1, <1>4, <1>5
  <2> QED BY <2>1, <2>2, <2>3, <2>4
<1>11. ASSUME NEW m \in Alive, next'[m] = Null
       PROVE  \A n \in Alive : q[n] <= q[m]
  <2>1. m # a /\ m # c
    BY <1>1, <1>2, <1>6, <1>11
  <2>2. CASE m = b
    <3>1. next[c] = Null
      BY <2>2, <1>6, <1>11
    <3>2. /\ \A n \in Alive : pos[n] <= pos[c]
          /\ \A n \in Alive : pos[n] <= pos[b] \/ pos[c] <= pos[n]
      BY <3>1, <1>1, <1>2 DEF Numbered
    <3>3. \A n \in Alive : n # c => pos[n] <= pos[b]
      BY <3>2, <1>5 DEF Numbered
    <3>4. pos[a] # pos[b]
      BY <1>1 DEF Numbered
    <3> QED BY <2>2, <3>3, <3>4, <1>1, <1>4, <1>5
  <2>3. CASE m # b
    <3>1. next[m] = Null
      BY <2>1, <2>3, <1>6, <1>11
    <3>2. (\A n \in Alive : pos[n] <= pos[m]) /\ pos[m] # pos[a]
      BY <3>1, <2>1 DEF Numbered
    <3> QED BY <3>2, <2>1, <1>4, <1>5
  <2> QED BY <2>2, <2>3
<1>12. \E m \in Alive : next'[m] = Null
  <2>1. PICK m \in Alive : next[m] = Null
    BY DEF Numbered
  <2>2. CASE m = c
    BY <2>1, <2>2, <1>1, <1>6
  <2>3. CASE m # c
    BY <2>1, <2>3, <1>1, <1>2, <1>6
  <2> QED BY <2>2, <2>3
<1> QED BY <1>1, <1>3, <1>7, <1>8, <1>10, <1>11, <1>12 DEF Numbered, q

\* The steps that leave the list alone
LEMMA NumberedQuiet ==
    ASSUME UNCHANGED <<objects, links>>, NEW pos, Numbered(pos)
    PROVE  Numbered(pos)'
  BY DEF Numbered, Alive, objects, links

-----------------------------------------------------------------------------
(* The list is complete *)

IsNumbered == \E pos \in [Node -> Nat] : Numbered(pos)

LEMMA NumberedNext == IInv /\ IsNumbered /\ [Next]_vars => IsNumbered'
<1> SUFFICES ASSUME IInv, IsNumbered, [Next]_vars PROVE IsNumbered'
  OBVIOUS
<1> PICK pos \in [Node -> Nat] : Numbered(pos)
  BY DEF IsNumbered
<1>1. CASE \E c \in Ctx : \E p \in Parents[c] : Construct(c, p)
  <2> PICK c \in Ctx : \E p \in Parents[c] : Construct(c, p)
    BY <1>1
  <2> PICK p \in Parents[c] : Construct(c, p)
    OBVIOUS
  <2>1. BirthPlace(p) \in Alive
    BY ProgramAssumption
    DEF Construct, MayConstruct, BirthPlace, IInv, ListInv, Alive, Node
  <2>2. PICK a \in Alive : a = BirthPlace(p)
    BY <2>1
  <2> QED BY <2>2, NumberedConstruct DEF IsNumbered
<1>2. CASE \E c \in Ctx : Destroy(c)
  BY <1>2, NumberedDestroy DEF IsNumbered
<1>3. CASE UNCHANGED <<objects, links>>
  BY <1>3, NumberedQuiet DEF IsNumbered
<1>4. CASE Relocate
  <2>1. CASE pc' = "segv"
    <3>1. UNCHANGED <<links, curr>>
      BY <1>4, <2>1 DEF Relocate
    <3>2. UNCHANGED objects
      BY <1>4 DEF Relocate
    <3> QED BY <1>3, <3>1, <3>2
  <2>2. CASE pc' # "segv"
    <3>1. curr \in Alive /\ par \in Alive
      BY <1>4, <2>2, RelocateLinks
    <3>2. PICK a \in Alive, c \in Alive : a = par /\ c = curr
      BY <3>1
    <3> QED BY <1>4, <2>2, <3>2, NumberedRelocate DEF IsNumbered
  <2> QED BY <2>1, <2>2
<1>5. CASE \E n \in Settable, l \in AnyLevel : SetLevel(n, l)
  BY <1>3, <1>5 DEF SetLevel
<1>6. CASE Holder /\ ~Relocate
  BY <1>3, <1>6 DEF Holder, Organize, PassOver, KeepInPlace, NextParent, Sync, NextChild,
      Shielded, Inherit, FindSibling, Return, Advance, Unlock
<1>7. CASE UNCHANGED vars
  BY <1>3, <1>7 DEF vars
<1> QED BY <1>1, <1>2, <1>4, <1>5, <1>6, <1>7 DEF Next

LEMMA NumberedComplete ==
    ASSUME IInv, NEW pos \in [Node -> Nat], Numbered(pos)
    PROVE  ListIsComplete
<1>1. Alive \subseteq Node /\ DoublyLinked
  BY DEF Alive, IInv, ListInv
<1>2. ASSUME NEW S \in SUBSET Alive, Root \in S, S # Alive
      PROVE  \E n \in S : next[n] \notin S \union {Null}
  <2>1. Alive \ S \in SUBSET Node /\ Alive \ S # {}
    BY <1>1, <1>2
  <2>2. PICK m \in Alive \ S : \A n \in Alive \ S : pos[m] <= pos[n]
    BY <2>1, FirstNode
  <2>3. m # Root /\ m # Null /\ prev[m] \in Alive /\ next[prev[m]] = m
    BY <1>1, <1>2, NodesAssumption DEF DoublyLinked
  <2>4. pos[prev[m]] < pos[m]
    BY <2>3 DEF Numbered
  <2>5. prev[m] \in S
    BY <1>1, <2>2, <2>3, <2>4
  <2> QED BY <2>2, <2>3, <2>5
<1>3. \A n \in Alive : next[n] # Null => next[n] \in Alive
  BY <1>1 DEF DoublyLinked
<1> QED BY <1>2, <1>3 DEF ListIsComplete, Numbered

\* The list never loses a living context and never runs in a circle, whatever
\* the program constructs, destroys and sets in whatever order, also while
\* organize moves its nodes about.
THEOREM ListComplete == Spec => []ListIsComplete
<1>1. Init => IsNumbered
  <2> SUFFICES ASSUME Init PROVE IsNumbered
    OBVIOUS
  <2>1. [n \in Node |-> 0] \in [Node -> Nat]
    OBVIOUS
  <2> QED BY <2>1, NumberedInit DEF IsNumbered
<1>2. IInv /\ IsNumbered => ListIsComplete
  BY NumberedComplete DEF IsNumbered
<1> QED BY <1>1, <1>2, NumberedNext, Invariance, PTL DEF Spec

-----------------------------------------------------------------------------
(* The program whose list can be sorted *)

\* The declared parents form no circle
Hierarchy == \A S \in SUBSET Ctx : S # {} => \E c \in S : Parents[c] \intersect S = {}

\* Every parent is constructed before the first set_level, and destroyed after
\* its children
Sensible == StaticsFirst /\ ChildrenFirst /\ Hierarchy

\* Contexts have declared parents, living ones once the list is being sorted
Family ==
    /\ organized \/ Sorting => NoOrphans
    /\ \A n \in Alive \ {Root} : parent[n] \in Parents[n]

LEMMA FamilyInit == Init => Family
  BY NodesAssumption DEF Init, Family, NoOrphans, Sorting, Alive, Node

LEMMA FamilyNext == Sensible /\ IInv /\ Family /\ [Next]_vars => Family'
<1> SUFFICES ASSUME Sensible, IInv, Family, [Next]_vars PROVE Family'
  OBVIOUS
<1>1. CASE \E c \in Ctx : \E p \in Parents[c] : Construct(c, p)
  <2> PICK c \in Ctx : \E p \in Parents[c] : Construct(c, p)
    BY <1>1
  <2> PICK p \in Parents[c] : Construct(c, p)
    OBVIOUS
  <2>1. /\ c \in Node /\ c # Root /\ c \notin Alive /\ p \in Node
        /\ organized => p \in Alive
    BY NodesAssumption, ProgramAssumption DEF Construct, MayConstruct, Alive, Node
  <2>2. Alive' = Alive \union {c} /\ parent' = [parent EXCEPT ![c] = p]
    BY <2>1 DEF Construct, Alive, IInv, TypeOK
  <2>3. organized' = organized /\ ~Sorting /\ ~Sorting'
    BY DEF Construct, Sorting
  <2>4. parent \in [Node -> Node \union {Null}] /\ Alive \subseteq Node
    BY DEF IInv, TypeOK, Alive
  <2> QED BY <2>1, <2>2, <2>3, <2>4 DEF Family, NoOrphans
<1>2. CASE \E c \in Ctx : Destroy(c)
  <2> PICK c \in Ctx : Destroy(c)
    BY <1>2
  <2>1. /\ c \in Node /\ c \in Alive /\ \A n \in Alive : parent[n] # c
        /\ parent' = [n \in Node |-> IF n = c \/ ForgetsParent(n, c) THEN Null ELSE parent[n]]
    BY DEF Destroy, Sensible, Alive, Node
  <2>2. Alive' = Alive \ {c} /\ Alive \subseteq Node
    BY <2>1 DEF Destroy, Alive, IInv, TypeOK
  <2>3. \A n \in Alive' : parent'[n] = parent[n]
    BY <2>1, <2>2 DEF ForgetsParent
  <2>4. organized' = organized /\ ~Sorting /\ ~Sorting'
    BY DEF Destroy, Sorting
  <2> QED BY <2>1, <2>2, <2>3, <2>4 DEF Family, NoOrphans
<1>3. CASE \E n \in Settable, l \in AnyLevel : SetLevel(n, l)
  BY <1>3 DEF SetLevel, Family, NoOrphans, Sensible, Alive, objects
<1>4. CASE Holder
  <2>1. UNCHANGED objects
    BY <1>4 DEF Holder, Organize, PassOver, KeepInPlace, Relocate, NextParent, Sync, NextChild,
      Shielded, Inherit, FindSibling, Return, Advance, Unlock
  <2>2. organized' \/ Sorting' => organized \/ Sorting
    BY <1>4 DEF Holder, Organize, PassOver, KeepInPlace, Relocate, NextParent, Sync, NextChild,
      Shielded, Inherit, FindSibling, Return, Advance, Unlock, Sorting
  <2> QED BY <2>1, <2>2 DEF Family, NoOrphans, Alive, objects
<1>5. CASE UNCHANGED vars
  BY <1>5 DEF vars, objects, Family, NoOrphans, Alive, Sorting
<1> QED BY <1>1, <1>2, <1>3, <1>4, <1>5 DEF Next

LEMMA FamilyFacts ==
    ASSUME IInv, Family, organized \/ Sorting, NEW n \in Alive \ {Root}
    PROVE  n \in Ctx /\ parent[n] \in Alive /\ parent[n] \in Parents[n] /\ parent[n] # n
  BY DEF Family, NoOrphans, IInv, ListInv, Alive, Node

-----------------------------------------------------------------------------
(* The sorted list *)

\* n stands behind its parent, with descendants of the parent between them
Follows(pos, n) ==
    /\ pos[parent[n]] < pos[n]
    /\ \A x \in Alive :
           pos[parent[n]] < pos[x] /\ pos[x] < pos[n] => pos[parent[n]] <= pos[parent[x]]

Sorted(pos) == \A n \in Alive \ {Root} : Follows(pos, n)

LEMMA SortedConstruct ==
    ASSUME IInv, Family, organized, NEW c \in Ctx, NEW p \in Parents[c], Construct(c, p),
           NEW pos \in [Node -> Nat], Numbered(pos), Sorted(pos),
           NEW a \in Alive, a = BirthPlace(p)
    PROVE  Sorted(PutAfter(pos, a, c))'
<1> DEFINE q == PutAfter(pos, a, c)
<1>1. /\ c \in Node /\ c # Root /\ c \notin Alive /\ a = p
      /\ Alive \subseteq Node /\ Root \in Alive
  BY NodesAssumption
  DEF Construct, MayConstruct, BirthPlace, Alive, Node, IInv, ListInv
<1>2. Alive' = Alive \union {c} /\ parent' = [parent EXCEPT ![c] = a]
  BY <1>1 DEF Construct, Alive, IInv, TypeOK
<1>3. \A n \in Alive : parent'[n] = parent[n] /\ (n # Root => parent[n] \in Alive)
  <2>1. \A n \in Alive : parent'[n] = parent[n]
    BY <1>1, <1>2 DEF IInv, TypeOK
  <2> QED BY <2>1, FamilyFacts
<1>4. parent'[c] = a
  BY <1>1, <1>2 DEF IInv, TypeOK
<1>5. /\ q[c] = pos[a] + 1
      /\ \A n \in Alive : q[n] = IF pos[n] > pos[a] THEN pos[n] + 1 ELSE pos[n]
  BY <1>1 DEF PutAfter
<1>6. \A n \in Alive : pos[n] \in Nat
  BY <1>1
<1> HIDE DEF q
<1>7. ASSUME NEW n \in Alive' \ {Root}
      PROVE  /\ q[parent'[n]] < q[n]
             /\ \A x \in Alive' :
                  q[parent'[n]] < q[x] /\ q[x] < q[n] => q[parent'[n]] <= q[parent'[x]]
  <2>1. CASE n = c
    <3>1. parent'[n] = a /\ q[a] = pos[a] /\ q[n] = pos[a] + 1
      BY <2>1, <1>4, <1>5, <1>6
    <3>2. \A x \in Alive' : ~(pos[a] < q[x] /\ q[x] < pos[a] + 1)
      BY <1>2, <1>5, <1>6
    <3> QED BY <3>1, <3>2, <1>6
  <2>2. CASE n # c
    <3>1. n \in Alive \ {Root} /\ parent'[n] = parent[n] /\ parent[n] \in Alive
      BY <2>2, <1>2, <1>3
    <3>2. Follows(pos, n)
      BY <3>1 DEF Sorted
    <3>3. q[parent[n]] < q[n]
      BY <3>1, <3>2, <1>5, <1>6 DEF Follows
    <3>4. ASSUME NEW x \in Alive', q[parent[n]] < q[x], q[x] < q[n]
          PROVE  q[parent[n]] <= q[parent'[x]]
      <4>1. CASE x = c
        BY <4>1, <3>1, <3>4, <1>4, <1>5, <1>6
      <4>2. CASE x # c
        <5>1. x \in Alive /\ pos[parent[n]] < pos[x] /\ pos[x] < pos[n]
          BY <4>2, <3>1, <3>4, <1>2, <1>5, <1>6
        <5>2. x # Root
          BY <5>1, <3>1, <1>6 DEF Numbered
        <5>3. pos[parent[n]] <= pos[parent[x]] /\ parent[x] \in Alive /\ parent'[x] = parent[x]
          BY <5>1, <5>2, <3>2, <1>3 DEF Follows
        <5> QED BY <5>3, <3>1, <1>5, <1>6
      <4> QED BY <4>1, <4>2
    <3> QED BY <3>1, <3>3, <3>4
  <2> QED BY <2>1, <2>2
<1> QED BY <1>7 DEF Sorted, Follows, q

LEMMA SortedDestroy ==
    ASSUME Sensible, IInv, NEW c \in Ctx, Destroy(c), NEW pos, Sorted(pos)
    PROVE  Sorted(pos)'
<1>1. /\ c \in Node /\ c \in Alive /\ \A n \in Alive : parent[n] # c
      /\ parent' = [n \in Node |-> IF n = c \/ ForgetsParent(n, c) THEN Null ELSE parent[n]]
  BY DEF Destroy, Sensible, Alive, Node
<1>2. Alive' = Alive \ {c} /\ Alive \subseteq Node
  BY <1>1 DEF Destroy, Alive, IInv, TypeOK
<1>3. \A n \in Alive' : parent'[n] = parent[n]
  BY <1>1, <1>2 DEF ForgetsParent
<1> QED BY <1>2, <1>3 DEF Sorted, Follows

\* In a sorted list the node before n is the parent of n or one of its
\* descendants
LEMMA SortedPreorder ==
    ASSUME IInv, Family, organized, NEW pos \in [Node -> Nat], Numbered(pos), Sorted(pos),
           NEW n \in Alive \ {Root}
    PROVE  parent[n] \in Lineage(prev[n])
<1>1. /\ Alive \subseteq Node /\ n \in Alive /\ n # Null /\ parent[n] \in Alive
      /\ prev[n] \in Alive /\ next[prev[n]] = n
  BY FamilyFacts, NodesAssumption DEF Alive, IInv, ListInv, DoublyLinked
<1>2. SUFFICES ASSUME NEW S \in SUBSET (Node \ {parent[n]}), prev[n] \in S,
                      \A k \in S : parent[k] \notin Node \ S
               PROVE  FALSE
  BY <1>1 DEF Lineage
<1>3. pos[prev[n]] < pos[n] /\ \A x \in Alive : pos[x] <= pos[prev[n]] \/ pos[n] <= pos[x]
  BY <1>1 DEF Numbered
<1>4. Follows(pos, n)
  BY DEF Sorted
<1>5. \A x \in Alive : pos[x] \in Nat
  BY <1>1
<1>6. pos[parent[n]] <= pos[prev[n]]
  BY <1>1, <1>3, <1>4, <1>5 DEF Follows
<1> DEFINE T == {x \in S \intersect Alive : pos[parent[n]] <= pos[x] /\ pos[x] < pos[n]}
<1>7. prev[n] \in T /\ T \in SUBSET Node
  BY <1>1, <1>2, <1>3, <1>6
<1>8. PICK m \in T : \A x \in T : pos[m] <= pos[x]
  BY <1>7, FirstNode
<1>9. /\ m \in Alive /\ m # parent[n] /\ m \in S
      /\ pos[parent[n]] < pos[m] /\ pos[m] < pos[n]
  <2>1. m \in Alive /\ m # parent[n] /\ m \in S
    BY <1>8, <1>2
  <2>2. pos[m] # pos[parent[n]]
    BY <2>1, <1>1 DEF Numbered
  <2> QED BY <2>1, <2>2, <1>1, <1>5, <1>8
<1>10. m # Root
  BY <1>1, <1>5, <1>9 DEF Numbered
<1>11. parent[m] \in Alive /\ pos[parent[m]] < pos[m] /\ pos[parent[n]] <= pos[parent[m]]
  BY <1>4, <1>9, <1>10, FamilyFacts DEF Sorted, Follows
<1>12. parent[m] \in T
  BY <1>1, <1>2, <1>5, <1>9, <1>11
<1> QED BY <1>5, <1>8, <1>9, <1>11, <1>12

-----------------------------------------------------------------------------
(* organize *)

\* n has its place already: its parent has been dealt with, or it stands among
\* the children that the parent being dealt with has gathered behind itself
Done(pos, n) ==
    \/ n = Root
    \/ pos[parent[n]] < pos[par]
    \/ /\ parent[n] = par /\ pos[par] < pos[n]
       /\ \A x \in Alive : pos[par] < pos[x] /\ pos[x] < pos[n] => parent[x] = par

\* The nodes that are done are sorted, head the list and hold all that the
\* pivot and curr have passed
SortedSoFar(pos) ==
    /\ ~organized
    /\ \A n \in Alive \ {Root} : Done(pos, n) => Follows(pos, n)
    /\ \A m, n \in Alive : Done(pos, n) /\ pos[m] < pos[n] => Done(pos, m)
    /\ Done(pos, par)
    /\ \A n \in Alive : pivot = Null \/ pos[n] < pos[pivot] => Done(pos, n)
    /\ \A n \in Alive : parent[n] = par /\ (curr = Null \/ pos[n] < pos[curr]) => Done(pos, n)
    /\ curr # Null => pivot = curr \/ pos[pivot] < pos[curr] \/ Done(pos, pivot)

\* organize starts: the root is done, and so are its first children
LEMMA SortStart ==
    ASSUME IInv, Family, NEW m \in Settable, NEW l \in AnyLevel, SetLevel(m, l), Sensible,
           ~organized, NEW pos \in [Node -> Nat], Numbered(pos)
    PROVE  SortedSoFar(pos)'
<1>1. /\ UNCHANGED <<objects, links, organized>> /\ NoOrphans /\ pc' = "organize"
      /\ par' = Root /\ pivot' = next[Root] /\ curr' = next[Root]
  BY DEF SetLevel, Sensible
<1>2. /\ Alive' = Alive /\ parent' = parent /\ Root \in Alive /\ Alive \subseteq Node
      /\ Null \notin Node
      /\ \A n \in Alive \ {Root} : parent[n] \in Alive /\ n # parent[n]
      /\ parent[Root] = Null
      /\ next[Root] # Null => next[Root] \in Alive
  BY <1>1, NodesAssumption DEF Alive, objects, NoOrphans, IInv, ListInv, DoublyLinked, Node
<1>3. \A n \in Alive : pos[n] \in Nat /\ (n # Root => pos[Root] < pos[n])
  <2>1. \A n \in Alive : pos[n] \in Nat
    BY <1>2
  <2> QED BY <1>2, <2>1 DEF Numbered
<1>4. \A n \in Alive :
         Done(pos, n)' <=>
            \/ n = Root
            \/ /\ parent[n] = Root
               /\ \A x \in Alive : pos[Root] < pos[x] /\ pos[x] < pos[n] => parent[x] = Root
  BY <1>1, <1>2, <1>3 DEF Done
<1>5. \A n \in Alive \ {Root} : Done(pos, n)' => Follows(pos, n)'
  <2> SUFFICES ASSUME NEW n \in Alive \ {Root}, Done(pos, n)' PROVE Follows(pos, n)'
    OBVIOUS
  <2>1. /\ parent[n] = Root
        /\ \A x \in Alive : pos[Root] < pos[x] /\ pos[x] < pos[n] => parent[x] = Root
    BY <1>4
  <2> QED BY <1>2, <1>3, <2>1 DEF Follows
<1>6. \A k, n \in Alive : Done(pos, n)' /\ pos[k] < pos[n] => Done(pos, k)'
  <2> SUFFICES ASSUME NEW k \in Alive, NEW n \in Alive, Done(pos, n)', pos[k] < pos[n], k # Root
               PROVE  Done(pos, k)'
    BY <1>4
  <2>1. \A x \in Alive : pos[Root] < pos[x] /\ pos[x] < pos[n] => parent[x] = Root
    BY <1>3, <1>4
  <2>2. \A x \in Alive : pos[Root] < pos[x] /\ pos[x] < pos[k] => parent[x] = Root
    BY <1>3, <2>1
  <2> QED BY <1>3, <1>4, <2>1, <2>2
<1>7. \A n \in Alive : next[Root] = Null \/ pos[n] < pos[next[Root]] => n = Root
  <2> SUFFICES ASSUME NEW n \in Alive, n # Root,
                      next[Root] = Null \/ pos[n] < pos[next[Root]]
               PROVE  FALSE
    OBVIOUS
  <2>1. CASE next[Root] = Null
    BY <2>1, <1>2, <1>3 DEF Numbered
  <2>2. CASE next[Root] # Null
    BY <2>2, <1>2, <1>3 DEF Numbered
  <2> QED BY <2>1, <2>2
<1>8. Done(pos, Root)'
  BY <1>2, <1>4
<1>9. organized' = FALSE
  BY <1>1
<1>10. /\ Done(pos, par)'
       /\ \A n \in Alive : pivot' = Null \/ pos[n] < pos[pivot'] => Done(pos, n)'
       /\ \A n \in Alive :
             parent[n] = par' /\ (curr' = Null \/ pos[n] < pos[curr']) => Done(pos, n)'
  BY <1>1, <1>2, <1>7, <1>8 DEF Done
<1> QED BY <1>1, <1>2, <1>5, <1>6, <1>9, <1>10 DEF SortedSoFar

\* Steps of organize that leave list and parent alone
LEMMA DoneQuiet ==
    ASSUME UNCHANGED <<objects, links, par>>, NEW pos
    PROVE  /\ Alive' = Alive /\ parent' = parent
           /\ \A n \in Alive : (Done(pos, n)' <=> Done(pos, n)) /\ (Follows(pos, n)' <=> Follows(pos, n))
  BY DEF Done, Follows, Alive, objects

LEMMA SortPassOver ==
    ASSUME IInv, PassOver, NEW pos \in [Node -> Nat], Numbered(pos), SortedSoFar(pos)
    PROVE  SortedSoFar(pos)'
<1>1. /\ UNCHANGED <<objects, links, par, pivot, organized>>
      /\ curr' = next[curr] /\ parent[curr] # par /\ curr # Null
      /\ curr \in Alive /\ pivot \in Alive /\ par \in Alive
      /\ next[curr] # Null => next[curr] \in Alive
  BY DEF PassOver, IInv, SortInv, Sorting, ListInv, DoublyLinked
<1>2. /\ Alive' = Alive /\ parent' = parent
      /\ \A n \in Alive : (Done(pos, n)' <=> Done(pos, n)) /\ (Follows(pos, n)' <=> Follows(pos, n))
  BY <1>1, DoneQuiet
<1>3. \A n \in Alive : pos[n] \in Nat
  BY DEF Alive
<1>4. \A n \in Alive : parent[n] = par /\ (curr' = Null \/ pos[n] < pos[curr']) => Done(pos, n)
  <2> SUFFICES ASSUME NEW n \in Alive, parent[n] = par, curr' = Null \/ pos[n] < pos[curr']
               PROVE  pos[n] < pos[curr]
    BY <1>1 DEF SortedSoFar
  <2>1. pos[n] # pos[curr]
    BY <1>1 DEF Numbered
  <2>2. pos[n] <= pos[curr]
    BY <1>1, <1>3 DEF Numbered
  <2> QED BY <1>1, <1>3, <2>1, <2>2
<1>5. curr' # Null => pivot = curr' \/ pos[pivot] < pos[curr'] \/ Done(pos, pivot)
  <2> SUFFICES ASSUME curr' # Null, ~Done(pos, pivot) PROVE pos[pivot] < pos[curr']
    OBVIOUS
  <2>1. pos[pivot] <= pos[curr]
    BY <1>1, <1>3 DEF SortedSoFar
  <2>2. pos[curr] < pos[next[curr]]
    BY <1>1 DEF Numbered
  <2> QED BY <1>1, <1>3, <2>1, <2>2
<1>6. /\ ~organized'
      /\ \A n \in Alive \ {Root} : Done(pos, n)' => Follows(pos, n)'
      /\ \A m, n \in Alive : Done(pos, n)' /\ pos[m] < pos[n] => Done(pos, m)'
      /\ \A n \in Alive : pivot' = Null \/ pos[n] < pos[pivot'] => Done(pos, n)'
  BY <1>1, <1>2 DEF SortedSoFar
<1>7. Done(pos, par)' /\ (curr' # Null => pivot' = curr' \/ pos[pivot'] < pos[curr'] \/ Done(pos, pivot)')
  BY <1>1, <1>2, <1>5 DEF SortedSoFar, Done
<1> QED BY <1>1, <1>2, <1>4, <1>6, <1>7 DEF SortedSoFar

LEMMA SortKeepInPlace ==
    ASSUME IInv, KeepInPlace, pc' = "organize",
           NEW pos \in [Node -> Nat], Numbered(pos), SortedSoFar(pos)
    PROVE  SortedSoFar(pos)'
<1>1. /\ UNCHANGED <<objects, links, par, organized>>
      /\ curr' = next[pivot] /\ pivot' = next[pivot]
      /\ parent[curr] = par /\ next[par] = curr /\ curr # Null
      /\ curr \in Alive /\ pivot \in Alive /\ par \in Alive
      /\ next[pivot] # Null => next[pivot] \in Alive
  BY DEF KeepInPlace, InPlace, IInv, SortInv, Sorting, ListInv, DoublyLinked
<1>2. /\ Alive' = Alive /\ parent' = parent
      /\ \A n \in Alive : (Done(pos, n)' <=> Done(pos, n)) /\ (Follows(pos, n)' <=> Follows(pos, n))
  BY <1>1, DoneQuiet
<1>3. \A n \in Alive : pos[n] \in Nat
  BY DEF Alive
<1>4. Done(pos, pivot)
  <2>1. CASE pivot = curr
    <3>1. pos[par] < pos[curr] /\ \A x \in Alive : pos[x] <= pos[par] \/ pos[curr] <= pos[x]
      BY <1>1 DEF Numbered
    <3> QED BY <1>1, <1>3, <2>1, <3>1 DEF Done
  <2>2. CASE pos[pivot] < pos[curr]
    <3>1. pos[pivot] <= pos[par]
      BY <1>1, <1>3, <2>2 DEF Numbered
    <3>2. pos[pivot] < pos[par] \/ pivot = par
      BY <1>1, <1>3, <3>1 DEF Numbered
    <3>3. /\ Done(pos, par)
          /\ \A m, n \in Alive : Done(pos, n) /\ pos[m] < pos[n] => Done(pos, m)
      BY DEF SortedSoFar
    <3>4. CASE pivot = par
      BY <3>3, <3>4
    <3>5. CASE pos[pivot] < pos[par]
      BY <1>1, <3>3, <3>5
    <3> QED BY <3>2, <3>4, <3>5
  <2> QED BY <1>1, <2>1, <2>2 DEF SortedSoFar
<1>5. \A n \in Alive : pivot' = Null \/ pos[n] < pos[pivot'] => Done(pos, n)
  <2> SUFFICES ASSUME NEW n \in Alive, pivot' = Null \/ pos[n] < pos[pivot'], n # pivot
               PROVE  Done(pos, n)
    BY <1>4
  <2>1. pos[n] # pos[pivot]
    BY <1>1 DEF Numbered
  <2>2. pos[n] <= pos[pivot]
    BY <1>1, <1>3 DEF Numbered
  <2>3. pos[n] < pos[pivot]
    BY <1>1, <1>3, <2>1, <2>2
  <2> QED BY <2>3 DEF SortedSoFar
<1>6. /\ ~organized'
      /\ \A n \in Alive \ {Root} : Done(pos, n)' => Follows(pos, n)'
      /\ \A m, n \in Alive : Done(pos, n)' /\ pos[m] < pos[n] => Done(pos, m)'
      /\ \A n \in Alive : pivot' = Null \/ pos[n] < pos[pivot'] => Done(pos, n)'
  BY <1>1, <1>2, <1>5 DEF SortedSoFar
<1>7. Done(pos, par)' /\ pivot' = curr'
  BY <1>1, <1>2 DEF SortedSoFar, Done
<1> QED BY <1>1, <1>2, <1>6, <1>7 DEF SortedSoFar

\* A child that organize_next_child moves stands behind its parent
LEMMA MovedIsBehind ==
    ASSUME IInv, Relocate, NEW pos \in [Node -> Nat], Numbered(pos), SortedSoFar(pos)
    PROVE  /\ curr \in Alive \ {Root} /\ par \in Alive /\ curr # Null /\ parent[curr] = par
           /\ pos[par] < pos[curr]
<1>1. /\ curr \in Alive /\ curr # Root /\ curr # Null /\ par \in Alive /\ par # curr
      /\ parent[curr] = par
  BY NodesAssumption DEF Relocate, IInv, SortInv, ListInv, Sorting, Alive, Node
<1>2. pos[par] \in Nat /\ pos[curr] \in Nat /\ pos[curr] # pos[par]
  BY <1>1 DEF Alive, Numbered
<1>3. Done(pos, par) /\ (pos[curr] < pos[par] => Done(pos, curr))
  BY <1>1 DEF SortedSoFar
<1>4. ~(pos[curr] < pos[par])
  BY <1>1, <1>2, <1>3 DEF Done
<1> QED BY <1>1, <1>2, <1>4

\* ... so that the node it is moved in front of exists
LEMMA NoNullSuccessor ==
    ASSUME IInv, Relocate, NEW pos \in [Node -> Nat], Numbered(pos), SortedSoFar(pos)
    PROVE  pc' # "segv"
<1>1. /\ curr \in Alive /\ par \in Alive /\ curr # Null /\ curr # Root
      /\ pos[par] < pos[curr] /\ pos[par] \in Nat /\ pos[curr] \in Nat
  BY MovedIsBehind DEF Alive
<1>2. next[par] # Null
  BY <1>1 DEF Numbered
<1>3. prev[curr] # par
  BY <1>1 DEF Relocate, InPlace, IInv, ListInv, DoublyLinked
<1>4. [next EXCEPT ![prev[curr]] = next[curr]][par] = next[par]
  BY <1>1, <1>3 DEF Alive, IInv, TypeOK
<1> QED BY <1>2, <1>4 DEF Relocate

LEMMA SortRelocate ==
    ASSUME IInv, Family, Relocate, NEW pos \in [Node -> Nat], Numbered(pos), SortedSoFar(pos),
           NEW a \in Alive, a = par, NEW c \in Alive, c = curr
    PROVE  SortedSoFar(PutAfter(pos, a, c))'
<1> DEFINE q == PutAfter(pos, a, c)
<1>1. /\ pc' # "segv" /\ c # Root /\ c # a /\ parent[c] = a /\ pos[a] < pos[c] /\ c # Null
      /\ next[c] \in Alive \union {Null} /\ curr' = next[c] /\ Alive' = Alive
  BY NoNullSuccessor, MovedIsBehind, RelocateLinks
<1>2. /\ UNCHANGED <<parent, par, pivot, organized>> /\ pivot \in Alive /\ pc = "organize"
  BY DEF Relocate, objects, IInv, SortInv, Sorting
<1>3. /\ q[c] = pos[a] + 1
      /\ \A n \in Alive : n # c => q[n] = IF pos[n] > pos[a] THEN pos[n] + 1 ELSE pos[n]
  BY DEF PutAfter, Alive
<1>4. /\ Alive \subseteq Node /\ Root \in Alive
      /\ \A n \in Alive : pos[n] \in Nat
      /\ \A n \in Alive \ {Root} : parent[n] \in Alive
  <2>1. \A n \in Alive \ {Root} : parent[n] \in Alive
    BY <1>2, FamilyFacts DEF Sorting
  <2>2. Alive \subseteq Node /\ Root \in Alive
    BY NodesAssumption DEF Alive, IInv, ListInv, Node
  <2>3. \A n \in Alive : pos[n] \in Nat
    BY <2>2
  <2> QED BY <2>1, <2>2, <2>3
<1> HIDE DEF q
\* c comes right behind a, the others keep their order
<1>5. /\ \A m, n \in Alive : m # c /\ n # c => (q[m] < q[n] <=> pos[m] < pos[n])
      /\ \A n \in Alive : n # c => (q[n] < q[c] <=> pos[n] <= pos[a])
      /\ \A n \in Alive : n # c => (q[c] < q[n] <=> pos[a] < pos[n])
      /\ \A n \in Alive : pos[n] <= pos[a] => n # c /\ q[n] = pos[n]
      /\ \A n \in Alive : q[n] \in Nat
  BY <1>1, <1>3, <1>4
<1>6. \A n \in Alive : pos[n] <= pos[a] => Done(pos, n)
  <2> SUFFICES ASSUME NEW n \in Alive, pos[n] <= pos[a], n # a PROVE Done(pos, n)
    BY DEF SortedSoFar
  <2>1. pos[n] # pos[a]
    BY DEF Numbered
  <2>2. pos[n] < pos[a]
    BY <1>4, <2>1
  <2> QED BY <2>2 DEF SortedSoFar
<1>7. Done(q, c)'
  <2>1. q[a] < q[c] /\ \A x \in Alive : ~(q[a] < q[x] /\ q[x] < q[c])
    BY <1>1, <1>3, <1>4
  <2> QED BY <2>1, <1>1, <1>2 DEF Done
<1>8. ASSUME NEW n \in Alive, n # c PROVE Done(q, n)' <=> Done(pos, n)
  <2>1. CASE n = Root
    BY <2>1 DEF Done
  <2>2. CASE n # Root
    <3>1. parent[n] \in Alive
      BY <2>2, <1>4
    <3>2. q[parent[n]] < q[a] <=> pos[parent[n]] < pos[a]
      BY <3>1, <1>1, <1>3, <1>4
    <3>3. q[a] < q[n] <=> pos[a] < pos[n]
      BY <1>1, <1>5, <1>8
    <3>4. (\A x \in Alive : q[a] < q[x] /\ q[x] < q[n] => parent[x] = a) <=>
          (\A x \in Alive : pos[a] < pos[x] /\ pos[x] < pos[n] => parent[x] = a)
      <4>1. \A x \in Alive : x # c =>
               ((q[a] < q[x] /\ q[x] < q[n]) <=> (pos[a] < pos[x] /\ pos[x] < pos[n]))
        BY <1>1, <1>5, <1>8
      <4> QED BY <4>1, <1>1
    <3> QED BY <2>2, <3>2, <3>3, <3>4, <1>1, <1>2 DEF Done
  <2> QED BY <2>1, <2>2
<1>9. ASSUME NEW n \in Alive \ {Root}, Done(q, n)' PROVE Follows(q, n)'
  <2>1. CASE n = c
    <3>1. q[a] < q[c] /\ \A x \in Alive : ~(q[a] < q[x] /\ q[x] < q[c])
      BY <1>1, <1>3, <1>4
    <3> QED BY <2>1, <3>1, <1>1, <1>2 DEF Follows
  <2>2. CASE n # c
    <3>1. Done(pos, n) /\ Follows(pos, n)
      BY <2>2, <1>8, <1>9 DEF SortedSoFar
    <3>2. parent[n] \in Alive /\ pos[parent[n]] <= pos[a] /\ q[parent[n]] = pos[parent[n]]
      <4>1. parent[n] \in Alive /\ pos[parent[n]] <= pos[a]
        BY <3>1, <1>2, <1>4 DEF Done
      <4> QED BY <4>1, <1>5
    <3>3. q[parent[n]] < q[n]
      BY <3>1, <3>2, <2>2, <1>5 DEF Follows
    <3>4. ASSUME NEW x \in Alive, q[parent[n]] < q[x], q[x] < q[n]
          PROVE  q[parent[n]] <= q[parent[x]]
      <4>1. CASE x = c
        <5>1. parent[x] = a /\ q[a] = pos[a]
          BY <4>1, <1>1, <1>4, <1>5
        <5> QED BY <5>1, <3>2
      <4>2. CASE x # c
        <5>1. pos[parent[n]] < pos[x] /\ pos[x] < pos[n] /\ x # Root
          <6>1. parent[n] # c
            BY <3>2, <1>5
          <6>2. pos[parent[n]] < pos[x] /\ pos[x] < pos[n]
            BY <6>1, <4>2, <3>2, <3>4, <2>2, <1>5
          <6>3. pos[Root] <= pos[parent[n]]
            BY <3>2 DEF Numbered
          <6> QED BY <6>2, <6>3, <1>4, <3>2
        <5>2. Done(pos, x)
          BY <5>1, <3>1 DEF SortedSoFar
        <5>3. parent[x] \in Alive /\ pos[parent[x]] <= pos[a]
          BY <5>1, <5>2, <1>2, <1>4 DEF Done
        <5>4. pos[parent[n]] <= pos[parent[x]] /\ q[parent[x]] = pos[parent[x]]
          BY <5>1, <5>3, <3>1, <1>5 DEF Follows
        <5> QED BY <5>4, <3>2
      <4> QED BY <4>1, <4>2
    <3> QED BY <3>3, <3>4, <1>1, <1>2 DEF Follows
  <2> QED BY <2>1, <2>2
<1>10. ASSUME NEW m \in Alive, NEW n \in Alive, Done(q, n)', q[m] < q[n]
       PROVE  Done(q, m)'
  <2>1. CASE m = c
    BY <2>1, <1>7
  <2>2. CASE m # c /\ n = c
    BY <2>2, <1>5, <1>6, <1>8, <1>10
  <2>3. CASE m # c /\ n # c
    <3>1. Done(pos, n) /\ pos[m] < pos[n]
      BY <2>3, <1>5, <1>8, <1>10
    <3> QED BY <3>1, <2>3, <1>8 DEF SortedSoFar
  <2> QED BY <2>1, <2>2, <2>3
<1>11. Done(q, par)'
  <2>1. Done(pos, a)
    BY DEF SortedSoFar
  <2>2. Done(q, a)'
    BY <2>1, <1>1, <1>8
  <2> QED BY <2>2, <1>2 DEF Done
<1>12. ASSUME NEW n \in Alive, q[n] < q[pivot] PROVE Done(q, n)'
  <2>1. CASE n = c
    BY <2>1, <1>7
  <2>2. CASE n # c /\ pivot = c
    BY <2>2, <1>5, <1>6, <1>8, <1>12
  <2>3. CASE n # c /\ pivot # c
    <3>1. pos[n] < pos[pivot]
      BY <2>3, <1>2, <1>5, <1>12
    <3> QED BY <3>1, <2>3, <1>8 DEF SortedSoFar
  <2> QED BY <2>1, <2>2, <2>3
<1>13. ASSUME NEW n \in Alive, parent[n] = a, next[c] = Null \/ q[n] < q[next[c]]
       PROVE  Done(q, n)'
  <2>1. CASE n = c
    BY <2>1, <1>7
  <2>2. CASE n # c
    <3>1. pos[n] # pos[c]
      BY <2>2 DEF Numbered
    <3>2. pos[n] <= pos[c]
      <4>1. CASE next[c] = Null
        BY <4>1 DEF Numbered
      <4>2. CASE next[c] # Null
        <5>1. next[c] \in Alive /\ pos[c] < pos[next[c]]
          BY <4>2, <1>1 DEF Numbered
        <5>2. next[c] # c
          BY <5>1, <1>4
        <5>3. pos[n] < pos[next[c]]
          BY <5>1, <5>2, <4>2, <2>2, <1>5, <1>13
        <5> QED BY <5>1, <5>3, <4>2, <1>4 DEF Numbered
      <4> QED BY <4>1, <4>2
    <3>3. pos[n] < pos[c]
      BY <3>1, <3>2, <1>4
    <3> QED BY <3>3, <2>2, <1>8, <1>13, <1>1 DEF SortedSoFar
  <2> QED BY <2>1, <2>2
<1>14. ASSUME next[c] # Null
       PROVE  pivot = next[c] \/ q[pivot] < q[next[c]] \/ \E p \in Alive : p = pivot /\ Done(q, p)'
  <2> PICK p \in Alive : p = pivot
    BY <1>2
  <2> SUFFICES ASSUME ~Done(q, p)', p # next[c] PROVE q[p] < q[next[c]]
    OBVIOUS
  <2>1. p # c
    BY <1>7
  <2>2. pos[p] < pos[c]
    BY <2>1, <1>1, <1>8 DEF SortedSoFar
  <2>3. next[c] \in Alive /\ pos[c] < pos[next[c]]
    BY <1>1, <1>14 DEF Numbered
  <2>4. next[c] # c
    BY <2>3, <1>4
  <2> QED BY <2>1, <2>2, <2>3, <2>4, <1>4, <1>5
<1>15. /\ ~organized'
       /\ \A n \in Alive : pivot' = Null \/ q[n] < q[pivot'] => Done(q, n)'
       /\ \A n \in Alive : parent'[n] = par' /\ (curr' = Null \/ q[n] < q[curr']) => Done(q, n)'
  <2>1. pivot # Null
    BY <1>2, NodesAssumption DEF Alive, Node
  <2>2. ~organized
    BY DEF SortedSoFar
  <2> QED BY <2>1, <2>2, <1>1, <1>2, <1>12, <1>13
<1>16. curr' # Null => pivot' = curr' \/ q[pivot'] < q[curr'] \/ Done(q, pivot)'
  <2>1. ASSUME NEW p \in Alive, p = pivot, Done(q, p)' PROVE Done(q, pivot)'
    BY <2>1, <1>2
  <2> QED BY <2>1, <1>1, <1>2, <1>14
<1> QED BY <1>1, <1>2, <1>9, <1>10, <1>11, <1>15, <1>16 DEF SortedSoFar, q

\* The node after par is done when all the children of par are: among the nodes
\* that are not done, one has a parent that is
LEMMA NextIsDone ==
    ASSUME Sensible, IInv, Family, Sorting, curr = Null,
           NEW pos \in [Node -> Nat], Numbered(pos), SortedSoFar(pos), next[par] # Null
    PROVE  next[par] \in Alive /\ Done(pos, next[par])
<1> DEFINE T == {n \in Alive : ~Done(pos, n)}
<1>1. /\ par \in Alive /\ next[par] \in Alive /\ Alive \subseteq Node
      /\ \A x \in Alive : pos[x] <= pos[par] \/ pos[next[par]] <= pos[x]
  BY DEF Numbered, IInv, SortInv, ListInv, DoublyLinked, Alive
<1>2. SUFFICES ASSUME ~Done(pos, next[par]) PROVE FALSE
  BY <1>1
<1>3. T \in SUBSET Ctx /\ T # {}
  BY <1>1, <1>2 DEF Done, Node
<1>4. ASSUME NEW n \in T PROVE parent[n] \in T \intersect Parents[n]
  <2>1. /\ n \in Alive \ {Root} /\ parent[n] \in Alive /\ parent[n] \in Parents[n]
        /\ ~Done(pos, n)
    BY <1>4, FamilyFacts DEF Done
  <2>2. parent[n] # par /\ ~(pos[parent[n]] < pos[par])
    BY <2>1 DEF SortedSoFar, Done
  <2>3. pos[parent[n]] # pos[par] /\ pos[parent[n]] \in Nat /\ pos[par] \in Nat
    BY <2>1, <2>2, <1>1 DEF Numbered
  <2>4. pos[next[par]] <= pos[parent[n]]
    BY <2>1, <2>2, <2>3, <1>1
  <2>5. ~Done(pos, parent[n])
    <3>1. CASE parent[n] = next[par]
      BY <3>1, <1>2
    <3>2. CASE parent[n] # next[par]
      <4>1. pos[parent[n]] # pos[next[par]] /\ pos[next[par]] \in Nat
        BY <2>1, <3>2, <1>1 DEF Numbered
      <4>2. pos[next[par]] < pos[parent[n]]
        BY <4>1, <2>3, <2>4
      <4> QED BY <4>2, <2>1, <1>1, <1>2 DEF SortedSoFar
    <3> QED BY <3>1, <3>2
  <2> QED BY <2>1, <2>5
<1>5. PICK c \in T : Parents[c] \intersect T = {}
  BY <1>3 DEF Sensible, Hierarchy
<1> QED BY <1>4, <1>5

LEMMA SortNextParent ==
    ASSUME Sensible, IInv, Family, NextParent, pc' = "organize",
           NEW pos \in [Node -> Nat], Numbered(pos), SortedSoFar(pos)
    PROVE  SortedSoFar(pos)'
<1>1. /\ UNCHANGED <<objects, links, pivot, organized>> /\ Sorting
      /\ par' = next[par] /\ curr' = pivot /\ curr = Null /\ pivot # Null /\ next[par] # Null
      /\ par \in Alive /\ pivot \in Alive
  BY DEF NextParent, IInv, SortInv, Sorting
<1>2. /\ Alive' = Alive /\ parent' = parent
      /\ \A n \in Alive : Follows(pos, n)' <=> Follows(pos, n)
  BY <1>1 DEF Follows, Alive, objects
<1>3. PICK b \in Alive : b = next[par] /\ Done(pos, b)
  BY <1>1, NextIsDone
<1>4. /\ \A n \in Alive : pos[n] \in Nat
      /\ pos[par] < pos[b]
      /\ \A n \in Alive : pos[n] < pos[b] => n = par \/ pos[n] < pos[par]
  <2>1. \A n \in Alive : pos[n] \in Nat
    BY DEF Alive
  <2>2. pos[par] < pos[b] /\ \A n \in Alive : pos[n] <= pos[par] \/ pos[b] <= pos[n]
    BY <1>1, <1>3 DEF Numbered
  <2> QED BY <2>1, <2>2, <1>1 DEF Numbered
<1>5. \A n \in Alive \ {Root} : parent[n] \in Alive /\ n # parent[n]
  BY <1>1, FamilyFacts
<1>6. \A n \in Alive \ {Root} : Done(pos, n)' <=>
         \/ pos[parent[n]] < pos[b]
         \/ /\ parent[n] = b /\ pos[b] < pos[n]
            /\ \A x \in Alive : pos[b] < pos[x] /\ pos[x] < pos[n] => parent[x] = b
  BY <1>1, <1>2, <1>3 DEF Done
<1>7. \A n \in Alive : Done(pos, n) => Done(pos, n)'
  <2> SUFFICES ASSUME NEW n \in Alive \ {Root}, Done(pos, n) PROVE Done(pos, n)'
    BY DEF Done
  <2>1. pos[parent[n]] <= pos[par]
    BY <1>1, <1>4, <1>5 DEF Done
  <2> QED BY <2>1, <1>1, <1>4, <1>5, <1>6
<1>8. ASSUME NEW n \in Alive, Done(pos, n)', ~Done(pos, n)
      PROVE  /\ n # Root /\ parent[n] = b /\ pos[b] < pos[n]
             /\ \A x \in Alive : pos[b] < pos[x] /\ pos[x] < pos[n] => parent[x] = b
  <2>1. n # Root
    BY <1>8 DEF Done
  <2>2. ~(pos[parent[n]] < pos[b])
    BY <2>1, <1>1, <1>4, <1>5, <1>8 DEF Done, SortedSoFar
  <2> QED BY <2>1, <2>2, <1>6, <1>8
<1>9. \A n \in Alive \ {Root} : Done(pos, n)' => Follows(pos, n)'
  <2> SUFFICES ASSUME NEW n \in Alive \ {Root}, Done(pos, n)' PROVE Follows(pos, n)
    BY <1>2
  <2>1. CASE Done(pos, n)
    BY <2>1 DEF SortedSoFar
  <2>2. CASE ~Done(pos, n)
    BY <2>2, <1>4, <1>8 DEF Follows
  <2> QED BY <2>1, <2>2
<1>10. \A m, n \in Alive : Done(pos, n)' /\ pos[m] < pos[n] => Done(pos, m)'
  <2> SUFFICES ASSUME NEW m \in Alive, NEW n \in Alive, Done(pos, n)', pos[m] < pos[n]
               PROVE  Done(pos, m)'
    OBVIOUS
  <2>1. CASE Done(pos, n)
    BY <2>1, <1>7 DEF SortedSoFar
  <2>2. CASE ~Done(pos, n) /\ pos[m] <= pos[b]
    <3>1. m = b \/ pos[m] < pos[b]
      BY <2>2, <1>4 DEF Numbered
    <3>2. Done(pos, m)
      BY <3>1, <1>3 DEF SortedSoFar
    <3> QED BY <3>2, <1>7
  <2>3. CASE ~Done(pos, n) /\ pos[b] < pos[m]
    <3>1. \A x \in Alive : pos[b] < pos[x] /\ pos[x] < pos[n] => parent[x] = b
      BY <2>3, <1>8
    <3>2. \A x \in Alive : pos[b] < pos[x] /\ pos[x] < pos[m] => parent[x] = b
      BY <3>1, <1>4
    <3>3. m = Root \/ parent[m] = b
      BY <3>1, <2>3
    <3>4. CASE m = Root
      BY <3>4 DEF Done
    <3>5. CASE m # Root
      BY <3>2, <3>3, <3>5, <2>3, <1>6
    <3> QED BY <3>4, <3>5
  <2> QED BY <2>1, <2>2, <2>3, <1>4
<1>11. Done(pos, par)'
  <2>1. Done(pos, b)'
    BY <1>3, <1>7
  <2> QED BY <2>1, <1>1, <1>3 DEF Done
<1>12. /\ ~organized'
       /\ \A n \in Alive : pivot' = Null \/ pos[n] < pos[pivot'] => Done(pos, n)'
       /\ curr' = pivot'
  BY <1>1, <1>7 DEF SortedSoFar
<1> QED BY <1>1, <1>2, <1>9, <1>10, <1>11, <1>12 DEF SortedSoFar

\* organize ends: everybody is done
LEMMA SortEnd ==
    ASSUME Sensible, IInv, Family, NextParent, organized',
           NEW pos \in [Node -> Nat], Numbered(pos), SortedSoFar(pos)
    PROVE  Sorted(pos)'
<1>1. /\ UNCHANGED <<objects, links>> /\ par \in Alive
      /\ pivot = Null \/ next[par] = Null
  BY DEF NextParent, IInv, SortInv, Sorting, SortedSoFar
<1>2. ASSUME NEW n \in Alive PROVE Done(pos, n)
  <2>1. CASE pivot = Null
    BY <2>1 DEF SortedSoFar
  <2>2. CASE next[par] = Null
    <3>1. pos[n] <= pos[par] /\ pos[n] \in Nat /\ pos[par] \in Nat
      BY <2>2, <1>1 DEF Numbered, Alive
    <3>2. n = par \/ pos[n] < pos[par]
      BY <3>1, <1>1 DEF Numbered
    <3> QED BY <3>2, <1>1 DEF SortedSoFar
  <2> QED BY <2>1, <2>2, <1>1
<1>3. \A n \in Alive \ {Root} : Follows(pos, n)
  BY <1>2 DEF SortedSoFar
<1> QED BY <1>1, <1>3 DEF Sorted, Follows, Alive, objects

-----------------------------------------------------------------------------
(* The list is sorted, and organize meets no null pointer *)

OrderInv(pos) ==
    /\ Numbered(pos)
    /\ organized => Sorted(pos)
    /\ Sorting => SortedSoFar(pos)
    /\ NoFault

InOrder == Family /\ \E pos \in [Node -> Nat] : OrderInv(pos)

LEMMA InOrderInit == Init => InOrder
<1> SUFFICES ASSUME Init PROVE InOrder
  OBVIOUS
<1> DEFINE q == [n \in Node |-> 0]
<1>1. q \in [Node -> Nat] /\ Numbered(q)
  BY NumberedInit
<1>2. ~organized /\ ~Sorting /\ NoFault
  BY DEF Init, Sorting, NoFault
<1> HIDE DEF q
<1> QED BY <1>1, <1>2, FamilyInit DEF InOrder, OrderInv

\* Every step has a numbering to go with it: the old one, or the one that puts
\* the new or moved context after the node it is linked behind
LEMMA OrderStep ==
    ASSUME Sensible, IInv, Family, Next, NEW pos \in [Node -> Nat], OrderInv(pos)
    PROVE  \/ OrderInv(pos)' /\ UNCHANGED links
           \/ OrderInv(pos)' /\ \E c \in Ctx : Destroy(c)
           \/ /\ Relocate \/ \E c \in Ctx : \E p \in Parents[c] : Construct(c, p)
              /\ \E q \in [Node -> Nat] : OrderInv(q)'
<1> USE DEF OrderInv
<1>1. ASSUME NEW c \in Ctx, NEW p \in Parents[c], Construct(c, p)
      PROVE  \E q \in [Node -> Nat] : OrderInv(q)'
  <2>1. BirthPlace(p) \in Alive
    BY <1>1, ProgramAssumption
    DEF Construct, MayConstruct, BirthPlace, IInv, ListInv, Alive, Node
  <2>2. PICK a \in Alive : a = BirthPlace(p)
    BY <2>1
  <2>3. /\ PutAfter(pos, a, c) \in [Node -> Nat]
        /\ Numbered(PutAfter(pos, a, c))'
    BY <1>1, <2>2, NumberedConstruct
  <2>4. organized' = organized /\ ~Sorting' /\ NoFault'
    BY <1>1 DEF Construct, Sorting, NoFault
  <2>5. organized => Sorted(PutAfter(pos, a, c))'
    BY <1>1, <2>2, SortedConstruct
  <2> QED BY <2>3, <2>4, <2>5
<1>2. ASSUME NEW c \in Ctx, Destroy(c)
      PROVE  OrderInv(pos)'
  <2>1. organized' = organized /\ ~Sorting' /\ NoFault'
    BY <1>2 DEF Destroy, Sorting, NoFault
  <2> QED BY <1>2, <2>1, NumberedDestroy, SortedDestroy
\* The steps that leave the list and the parents alone
<1>3. ASSUME UNCHANGED <<objects, links>> PROVE Numbered(pos)' /\ (Sorted(pos) => Sorted(pos)')
  BY <1>3, NumberedQuiet DEF Sorted, Follows, Alive, objects
<1>4. ASSUME NEW m \in Settable, NEW l \in AnyLevel, SetLevel(m, l)
      PROVE  OrderInv(pos)' /\ UNCHANGED links
  <2>1. UNCHANGED <<objects, links, organized>> /\ NoFault' /\ (Sorting' => ~organized)
    BY <1>4 DEF SetLevel, Sorting, NoFault
  <2> QED BY <1>3, <1>4, <2>1, SortStart
<1>5. CASE PassOver
  <2>1. UNCHANGED <<objects, links, organized, pc>> /\ Sorting
    BY <1>5 DEF PassOver, Sorting
  <2> QED BY <1>3, <1>5, <2>1, SortPassOver DEF NoFault
<1>6. CASE KeepInPlace
  <2>1. UNCHANGED <<objects, links, organized>> /\ Sorting /\ NoFault'
    BY <1>6 DEF KeepInPlace, Sorting, NoFault
  <2>2. Sorting' => SortedSoFar(pos)'
    BY <1>6, <2>1, SortKeepInPlace DEF Sorting
  <2> QED BY <1>3, <2>1, <2>2
<1>7. CASE Relocate
  <2>1. Sorting /\ organized' = organized /\ pc' # "segv"
    BY <1>7, NoNullSuccessor DEF Relocate, Sorting
  <2>2. curr \in Alive /\ par \in Alive /\ pc' = pc
    BY <1>7, <2>1, RelocateLinks
  <2>3. PICK a \in Alive, c \in Alive : a = par /\ c = curr
    BY <2>2
  <2>4. /\ PutAfter(pos, a, c) \in [Node -> Nat]
        /\ Numbered(PutAfter(pos, a, c))'
        /\ SortedSoFar(PutAfter(pos, a, c))'
    BY <1>7, <2>1, <2>3, NumberedRelocate, SortRelocate
  <2>5. ~organized
    BY <2>1 DEF SortedSoFar
  <2> QED BY <1>7, <2>1, <2>4, <2>5 DEF NoFault
<1>8. CASE NextParent
  <2>1. UNCHANGED <<objects, links>> /\ Sorting /\ NoFault'
    BY <1>8 DEF NextParent, Sorting, NoFault
  <2>2. Sorting' => SortedSoFar(pos)'
    BY <1>8, <2>1, SortNextParent DEF Sorting
  <2>3. organized' => Sorted(pos)'
    BY <1>8, <2>1, SortEnd
  <2> QED BY <1>3, <2>1, <2>2, <2>3
<1>9. CASE Sync \/ Unlock
  <2>1. UNCHANGED <<objects, links, organized>> /\ ~Sorting' /\ NoFault'
    BY <1>9 DEF Sync, NextChild, Shielded, Inherit, FindSibling, Return, Advance, Unlock,
        Sorting, NoFault
  <2> QED BY <1>3, <2>1
<1> QED BY <1>1, <1>2, <1>4, <1>5, <1>6, <1>7, <1>8, <1>9 DEF Next, Holder, Organize

LEMMA InOrderNext == Sensible /\ IInv /\ InOrder /\ [Next]_vars => InOrder'
<1> SUFFICES ASSUME Sensible, IInv, InOrder, [Next]_vars PROVE InOrder'
  OBVIOUS
<1> PICK pos \in [Node -> Nat] : OrderInv(pos)
  BY DEF InOrder
<1>1. Family'
  BY FamilyNext DEF InOrder
<1>2. CASE Next
  <2>1. \E q \in [Node -> Nat] : OrderInv(q)'
    BY <1>2, OrderStep DEF InOrder
  <2> QED BY <1>1, <2>1 DEF InOrder
<1>3. CASE UNCHANGED vars
  <2>1. OrderInv(pos)'
    BY <1>3 DEF vars, OrderInv, Numbered, Sorted, SortedSoFar, Follows, Done, Sorting, NoFault,
        Alive, objects, links, sorting
  <2> QED BY <1>1, <2>1 DEF InOrder
<1> QED BY <1>2, <1>3

LEMMA StaysInOrder == Sensible => (Spec => []InOrder)
<1> SUFFICES ASSUME Sensible PROVE Spec => []InOrder
  OBVIOUS
<1>1. IInv /\ InOrder /\ [Next]_vars => InOrder'
  BY InOrderNext
<1> QED BY <1>1, InOrderInit, Invariance, PTL DEF Spec

\* organize_next_child never dereferences a null successor: a context is moved
\* only from behind its parent, which therefore keeps a successor.
THEOREM NeverFaults == Sensible => (Spec => []NoFault)
<1> SUFFICES ASSUME Sensible PROVE Spec => []NoFault
  OBVIOUS
<1>1. InOrder => NoFault
  BY DEF InOrder, OrderInv
<1> QED BY <1>1, StaysInOrder, PTL

\* organize sorts the list, whatever order the contexts were constructed in,
\* and constructors and destructors keep it sorted: the node before a context
\* is its parent or a descendant of its parent.
THEOREM SortedInPreorder == Sensible => (Spec => []Preorder)
<1> SUFFICES ASSUME Sensible PROVE Spec => []Preorder
  OBVIOUS
<1>1. IInv /\ InOrder => Preorder
  BY SortedPreorder DEF InOrder, OrderInv, Preorder
<1> QED BY <1>1, StaysInOrder, Invariance, PTL

-----------------------------------------------------------------------------
(* What is below a node of the sorted list *)

LEMMA LineageSelf == \A n \in Node : n \in Lineage(n)
  BY DEF Lineage

LEMMA LineageStep ==
    ASSUME NEW n \in Node, parent[n] \in Node, NEW t \in Lineage(parent[n])
    PROVE  t \in Lineage(n)
<1>1. t \in Node
  BY DEF Lineage
<1>2. ASSUME NEW S \in SUBSET (Node \ {t}), n \in S
      PROVE  \E k \in S : parent[k] \in Node \ S
  <2>1. CASE parent[n] \in S
    BY <2>1 DEF Lineage
  <2>2. CASE parent[n] \notin S
    BY <2>2, <1>2
  <2> QED BY <2>1, <2>2
<1> QED BY <1>1, <1>2 DEF Lineage

LEMMA LineageEnds ==
    ASSUME NEW t \in Node, NEW S \in SUBSET Node, t \notin S,
           \A k \in S : parent[k] \in Node => parent[k] \in S
    PROVE  \A n \in S : t \notin Lineage(n)
  BY DEF Lineage

\* The order of a sorted list, in one place
LEMMA SortedFacts ==
    ASSUME IInv, Family, organized, NEW pos \in [Node -> Nat], Numbered(pos), Sorted(pos)
    PROVE  /\ Alive \subseteq Node /\ Null \notin Node /\ Root \in Alive /\ parent[Root] = Null
           /\ \A n \in Alive : pos[n] \in Nat
           /\ \A m, n \in Alive : pos[m] = pos[n] => m = n
           /\ \A n \in Alive : next[n] # Null =>
                 /\ next[n] \in Alive /\ pos[n] < pos[next[n]] /\ next[n] # Root
                 /\ \A x \in Alive : pos[x] <= pos[n] \/ pos[next[n]] <= pos[x]
           /\ \A n \in Alive : next[n] = Null => \A x \in Alive : pos[x] <= pos[n]
           /\ \A n \in Alive \ {Root} : parent[n] \in Alive /\ pos[parent[n]] < pos[n]
           /\ \A n \in Alive : parent[n] \in Alive => n # Root
<1>1. /\ Alive \subseteq Node /\ Null \notin Node /\ Root \in Alive /\ parent[Root] = Null
  BY NodesAssumption DEF Alive, IInv, ListInv, Node
<1>2. \A n \in Alive : pos[n] \in Nat
  BY <1>1
<1>3. ASSUME NEW n \in Alive, next[n] # Null
      PROVE  /\ next[n] \in Alive /\ pos[n] < pos[next[n]] /\ next[n] # Root
             /\ \A x \in Alive : pos[x] <= pos[n] \/ pos[next[n]] <= pos[x]
  <2>1. next[n] \in Alive
    BY <1>3 DEF IInv, ListInv, DoublyLinked
  <2>2. pos[n] < pos[next[n]] /\ \A x \in Alive : pos[x] <= pos[n] \/ pos[next[n]] <= pos[x]
    BY <1>3 DEF Numbered
  <2>3. pos[Root] <= pos[n]
    BY DEF Numbered
  <2> QED BY <2>1, <2>2, <2>3, <1>1, <1>2
<1>4. \A n \in Alive \ {Root} : parent[n] \in Alive /\ pos[parent[n]] < pos[n]
  BY FamilyFacts DEF Sorted, Follows
<1>5. /\ \A m, n \in Alive : pos[m] = pos[n] => m = n
      /\ \A n \in Alive : next[n] = Null => \A x \in Alive : pos[x] <= pos[n]
  BY DEF Numbered
<1> QED BY <1>1, <1>2, <1>3, <1>4, <1>5

LEMMA DescendantsBehind ==
    ASSUME IInv, Family, organized, NEW pos \in [Node -> Nat], Numbered(pos), Sorted(pos),
           NEW t \in Alive, NEW n \in Descendants(t)
    PROVE  n \in Alive /\ n # t /\ t \in Lineage(n) /\ pos[t] < pos[n]
<1> DEFINE S == {x \in Alive : pos[x] < pos[t]}
<1>1. n \in Alive /\ n # t /\ t \in Lineage(n)
  BY DEF Descendants
<1>2. t \in Node /\ S \in SUBSET Node /\ t \notin S
  BY SortedFacts
<1>3. \A k \in S : parent[k] \in Node => parent[k] \in S
  BY SortedFacts
<1>4. n \notin S
  BY <1>1, <1>2, <1>3, LineageEnds
<1>5. pos[n] # pos[t] /\ pos[n] \in Nat /\ pos[t] \in Nat
  BY <1>1, SortedFacts
<1> QED BY <1>1, <1>4, <1>5

LEMMA ChildDescends ==
    ASSUME IInv, Family, organized, NEW pos \in [Node -> Nat], Numbered(pos), Sorted(pos),
           NEW t \in Alive, NEW n \in Alive, parent[n] = t
    PROVE  n \in Descendants(t)
<1>1. n \in Node /\ t \in Node /\ n # Root /\ n # t
  BY SortedFacts
<1>2. t \in Lineage(n)
  BY <1>1, LineageSelf, LineageStep
<1> QED BY <1>1, <1>2 DEF Descendants

\* Behind t, the first node whose parent stands in front of t ends the
\* descendants of t
LEMMA DescendantsEnd ==
    ASSUME IInv, Family, organized, NEW pos \in [Node -> Nat], Numbered(pos), Sorted(pos),
           NEW t \in Alive, NEW b \in Alive \ {Root}, pos[t] < pos[b], pos[parent[b]] < pos[t],
           NEW n \in Alive, pos[b] <= pos[n]
    PROVE  n \notin Descendants(t)
<1> DEFINE S == {x \in Alive : pos[b] <= pos[x] \/ pos[x] < pos[t]}
<1>1. /\ \A x \in Alive : pos[x] \in Nat
      /\ \A m, x \in Alive : pos[m] = pos[x] => m = x
      /\ \A x \in Alive \ {Root} : parent[x] \in Alive /\ pos[parent[x]] < pos[x]
      /\ Alive \subseteq Node /\ Null \notin Node /\ parent[Root] = Null
  BY SortedFacts
<1>2. t \in Node /\ S \in SUBSET Node /\ t \notin S /\ n \in S
  BY <1>1
<1>3. ASSUME NEW k \in S, parent[k] \in Node PROVE parent[k] \in S
  <2>1. k \in Alive \ {Root} /\ parent[k] \in Alive /\ pos[parent[k]] < pos[k]
    BY <1>1, <1>3
  <2>2. CASE pos[k] < pos[t]
    BY <2>1, <2>2, <1>1
  <2>3. CASE k = b
    BY <2>1, <2>3
  <2>4. CASE pos[b] < pos[k] /\ pos[parent[k]] < pos[b]
    <3>1. Follows(pos, k)
      BY <2>1 DEF Sorted
    <3>2. pos[parent[k]] <= pos[parent[b]]
      BY <2>4, <3>1 DEF Follows
    <3> QED BY <2>1, <3>2, <1>1
  <2>5. CASE pos[b] <= pos[parent[k]]
    BY <2>1, <2>5
  <2> QED BY <2>1, <2>2, <2>3, <2>4, <2>5, <1>1
<1>4. t \notin Lineage(n)
  BY <1>2, <1>3, LineageEnds
<1> QED BY <1>4 DEF Descendants

-----------------------------------------------------------------------------
(* set_level hands its level down the sorted list *)

Told(n) == lvl[n] = Unset => inh[n] = spread

\* The children of the target that the loop of set_level has passed are told,
\* and the search for the next one passes none over
Spreading(pos) ==
    /\ \A n \in touched : pos[target] < pos[n] /\ target \in Lineage(n)
    /\ \A n \in Alive :
           parent[n] = target /\ (child = Null \/ pos[n] < pos[child]) => Told(n)
    /\ pc = "children" => child = Null \/ child = next[target] \/ parent[child] = target
    /\ Syncing \/ pc = "advance" => parent[child] = target
    /\ pc = "sync" => branch = child \/ Told(child)
    /\ pc \in {"sibling", "return", "advance"} => Told(child)
    /\ pc = "advance" => \A n \in Alive :
           parent[n] = target /\ pos[child] < pos[n] => it # Null /\ pos[it] <= pos[n]

\* No context below the target has a level of its own
Bare == \A n \in Descendants(target) : lvl[n] = Unset

\* Then the recursion walks straight down the list: everyone below the target
\* and in front of the branch, or of the node returned, is told, and what is
\* returned is no descendant of the frame's siblings in front of it
Descending(pos) ==
    /\ pc # "sibling"
    /\ pc = "children" => \A n \in Descendants(target) :
           child = Null \/ pos[n] < pos[child] => inh[n] = spread
    /\ pc = "sync" =>
           /\ pos[child] <= pos[branch]
           /\ \A n \in Descendants(target) : pos[n] < pos[branch] => inh[n] = spread
    /\ pc = "return" =>
           /\ it # Null =>
                 pos[frame] < pos[it] /\ pos[parent[it]] <= pos[frame] /\ pos[child] < pos[it]
           /\ \A n \in Descendants(target) : it = Null \/ pos[n] < pos[it] => inh[n] = spread
    /\ pc = "advance" => \A n \in Descendants(target) :
           \/ inh[n] = spread
           \/ \E c \in Alive : parent[c] = target /\ pos[child] < pos[c] /\ pos[c] <= pos[n]

LevelInv(pos) ==
    /\ Sorting => touched = {}
    /\ Sorting \/ Walking => spread = Effective(target)
    /\ Walking => Spreading(pos) /\ (Bare => Descending(pos))
    /\ pc = "unlock" => LevelSpreads

\* The loop of set_level starts behind the target: no child is in front of it
LEMMA FirstChild ==
    ASSUME IInv, Family, organized, NEW pos \in [Node -> Nat], Numbered(pos), Sorted(pos),
           NEW t \in Alive, NEW n \in Descendants(t)
    PROVE  next[t] # Null /\ pos[next[t]] <= pos[n]
<1>1. n \in Alive /\ pos[t] < pos[n]
  BY DescendantsBehind
<1>2. pos[t] \in Nat /\ pos[n] \in Nat
  BY <1>1, SortedFacts
<1>3. next[t] # Null
  BY <1>1, <1>2, SortedFacts
<1> QED BY <1>1, <1>2, <1>3, SortedFacts

\* ... and when the first node behind the target is no child, there is none
LEMMA NoChild ==
    ASSUME IInv, Family, organized, NEW pos \in [Node -> Nat], Numbered(pos), Sorted(pos),
           NEW t \in Alive, next[t] # Null, parent[next[t]] # t
    PROVE  Descendants(t) = {}
<1>1. /\ next[t] \in Alive \ {Root} /\ pos[t] < pos[next[t]]
      /\ \A x \in Alive : pos[x] <= pos[t] \/ pos[next[t]] <= pos[x]
      /\ parent[next[t]] \in Alive /\ pos[parent[next[t]]] < pos[next[t]]
      /\ \A n \in Alive : pos[n] \in Nat
      /\ \A m, n \in Alive : pos[m] = pos[n] => m = n
  BY SortedFacts
<1>2. pos[parent[next[t]]] < pos[t]
  BY <1>1
<1>3. ASSUME NEW n \in Descendants(t) PROVE FALSE
  <2>1. n \in Alive /\ pos[next[t]] <= pos[n]
    BY <1>3, FirstChild, DescendantsBehind
  <2> QED BY <2>1, <1>1, <1>2, <1>3, DescendantsEnd
<1> QED BY <1>3

\* The branch being synced is a descendant of the target
LEMMA BranchDescends ==
    ASSUME IInv, Family, organized, NEW pos \in [Node -> Nat], Numbered(pos), Sorted(pos),
           pc = "sync", Spreading(pos)
    PROVE  /\ branch \in Descendants(target) /\ target \in Alive /\ branch \in Alive
           /\ target \in Lineage(branch) /\ branch # target /\ branch # Root
           /\ pos[target] < pos[branch]
           /\ frame \in Alive /\ parent[branch] = frame /\ pos[frame] < pos[branch]
           /\ child \in Alive
<1>1. /\ target \in Alive /\ branch \in Alive /\ parent[branch] = frame /\ child \in Alive
      /\ frame \in touched \union {target} /\ frame \in Alive
  BY DEF IInv, SyncInv, Syncing
<1>2. branch # Root /\ pos[frame] < pos[branch] /\ branch \in Node /\ frame \in Node /\ target \in Node
  BY <1>1, SortedFacts
<1>3. target \in Lineage(frame)
  BY <1>1, <1>2, LineageSelf DEF Spreading
<1>4. target \in Lineage(branch)
  BY <1>1, <1>2, <1>3, LineageStep
<1>5. pos[target] <= pos[frame]
  BY <1>1, SortedFacts DEF Spreading
<1>6. pos[target] < pos[branch]
  BY <1>1, <1>2, <1>5, SortedFacts
<1>7. branch # target
  BY <1>1, <1>6, SortedFacts
<1> QED BY <1>1, <1>2, <1>4, <1>6, <1>7 DEF Descendants

\* The steps of the walk that write no level
LEMMA WalkQuiet ==
    ASSUME UNCHANGED <<objects, links, levels, call>>
    PROVE  /\ Alive' = Alive /\ parent' = parent /\ next' = next /\ target' = target
           /\ Descendants(target)' = Descendants(target)
           /\ \A n : Lineage(n)' = Lineage(n) /\ (Told(n)' <=> Told(n))
           /\ Bare' <=> Bare
           /\ inh' = inh /\ spread' = spread
<1>1. \A n : Lineage(n)' = Lineage(n)
  BY DEF Lineage, objects
<1>2. Alive' = Alive /\ target' = target
  BY DEF Alive, objects, call
<1>3. Descendants(target)' = Descendants(target)
  BY <1>1, <1>2 DEF Descendants
<1> QED BY <1>1, <1>2, <1>3 DEF Bare, Told, objects, links, levels, call

LEMMA NextChildLevels ==
    ASSUME IInv, Family, organized, NEW pos \in [Node -> Nat], Numbered(pos), Sorted(pos),
           NextChild, LevelInv(pos)
    PROVE  LevelInv(pos)'
<1>1. /\ UNCHANGED <<objects, links, levels, call, child, touched>>
      /\ pc = "children" /\ target \in Alive /\ child \in Alive \union {Null}
  BY DEF NextChild, IInv, SyncInv, Walking
<1>2. /\ Alive' = Alive /\ parent' = parent /\ next' = next /\ target' = target
      /\ Descendants(target)' = Descendants(target)
      /\ \A n : Lineage(n)' = Lineage(n) /\ (Told(n)' <=> Told(n))
      /\ Bare' <=> Bare
      /\ inh' = inh /\ spread' = spread
  BY <1>1, WalkQuiet
<1>3. /\ spread = Effective(target) /\ Spreading(pos) /\ (Bare => Descending(pos))
  BY <1>1 DEF LevelInv, Walking
<1>4. spread' = Effective(target)'
  BY <1>1, <1>3 DEF Effective, levels, call
<1>5. CASE IsChild(child, target)
  <2>1. pc' = "sync" /\ branch' = child /\ frame' = target /\ parent[child] = target
        /\ child # Null /\ child \in Alive
    BY <1>1, <1>5 DEF NextChild, IsChild
  <2>2. Spreading(pos)'
    BY <1>1, <1>2, <1>3, <2>1 DEF Spreading, Syncing
  <2>3. Bare' => Descending(pos)'
    <3>1. pos[child] \in Nat
      BY <2>1, SortedFacts
    <3> QED BY <1>1, <1>2, <1>3, <2>1, <3>1 DEF Descending
  <2> QED BY <1>4, <2>1, <2>2, <2>3 DEF LevelInv, Sorting
<1>6. CASE ~IsChild(child, target)
  <2>1. pc' = "unlock"
    BY <1>6 DEF NextChild
  <2>2. \A n \in Alive : parent[n] = target => Told(n)
    <3>1. CASE child = Null
      BY <1>3, <3>1 DEF Spreading
    <3>2. CASE child # Null
      <4>1. child = next[target] /\ parent[child] # target
        BY <1>1, <1>3, <1>6, <3>2 DEF Spreading, IsChild
      <4>2. Descendants(target) = {}
        BY <1>1, <3>2, <4>1, NoChild
      <4> QED BY <1>1, <4>2, ChildDescends
    <3> QED BY <3>1, <3>2
  <2>3. Bare => \A n \in Descendants(target) : inh[n] = spread
    <3>1. CASE child = Null
      BY <1>1, <1>3, <3>1 DEF Descending
    <3>2. CASE child # Null
      <4>1. child = next[target] /\ parent[child] # target
        BY <1>1, <1>3, <1>6, <3>2 DEF Spreading, IsChild
      <4>2. Descendants(target) = {}
        BY <1>1, <3>2, <4>1, NoChild
      <4> QED BY <4>2
    <3> QED BY <3>1, <3>2
  <2>4. ChildrenUpdated'
    BY <1>1, <1>2, <1>4, <2>2 DEF ChildrenUpdated, Told, levels
  <2>5. SubtreeUpdated'
    BY <1>1, <1>2, <1>4, <2>3 DEF SubtreeUpdated, Bare, levels
  <2> QED BY <1>4, <2>1, <2>4, <2>5 DEF LevelInv, LevelSpreads, Sorting, Walking, Syncing
<1> QED BY <1>5, <1>6

LEMMA ShieldedLevels ==
    ASSUME IInv, Family, organized, NEW pos \in [Node -> Nat], Numbered(pos), Sorted(pos),
           Shielded, LevelInv(pos)
    PROVE  LevelInv(pos)'
<1>1. /\ UNCHANGED <<objects, links, levels, call, child, touched>>
      /\ pc = "sync" /\ pc' = "sibling" /\ lvl[branch] # Unset
  BY DEF Shielded, HasOwnLevel
<1>2. /\ Alive' = Alive /\ parent' = parent /\ next' = next /\ target' = target
      /\ \A n : Lineage(n)' = Lineage(n) /\ (Told(n)' <=> Told(n))
      /\ Bare' <=> Bare
  BY <1>1, WalkQuiet
<1>3. /\ spread = Effective(target) /\ Spreading(pos)
  BY <1>1 DEF LevelInv, Walking, Syncing
<1>4. spread' = Effective(target)'
  BY <1>1, <1>3 DEF Effective, levels, call
<1>5. Told(child)
  BY <1>1, <1>3 DEF Spreading, Told
<1>6. Spreading(pos)'
  BY <1>1, <1>2, <1>3, <1>5 DEF Spreading, Syncing
<1>7. ~Bare'
  BY <1>1, <1>2, <1>3, BranchDescends DEF Bare
<1> QED BY <1>1, <1>4, <1>6, <1>7 DEF LevelInv, Sorting

\* What the sorted list says of the node behind a branch that is neither its
\* sibling nor its child
LEMMA BehindBranch ==
    ASSUME IInv, Family, organized, NEW pos \in [Node -> Nat], Numbered(pos), Sorted(pos),
           NEW b \in Alive \ {Root}, next[b] # Null, parent[next[b]] # b
    PROVE  pos[parent[next[b]]] <= pos[parent[b]]
<1>1. /\ next[b] \in Alive \ {Root} /\ parent[next[b]] \in Alive /\ parent[b] \in Alive
      /\ pos[b] < pos[next[b]] /\ pos[parent[next[b]]] < pos[next[b]]
      /\ \A x \in Alive : pos[x] <= pos[b] \/ pos[next[b]] <= pos[x]
      /\ \A n \in Alive : pos[n] \in Nat
      /\ \A m, n \in Alive : pos[m] = pos[n] => m = n
  BY SortedFacts
<1>2. pos[parent[next[b]]] < pos[b]
  BY <1>1
<1>3. Follows(pos, next[b])
  BY <1>1 DEF Sorted
<1> QED BY <1>1, <1>2, <1>3 DEF Follows

LEMMA InheritLevels ==
    ASSUME IInv, Family, organized, NEW pos \in [Node -> Nat], Numbered(pos), Sorted(pos),
           Inherit, LevelInv(pos)
    PROVE  LevelInv(pos)'
<1>1. /\ UNCHANGED <<objects, links, lvl, call, child>>
      /\ pc = "sync" /\ lvl[branch] = Unset
      /\ inh' = [inh EXCEPT ![branch] = spread] /\ touched' = touched \union {branch}
  BY DEF Inherit, HasOwnLevel
<1>2. /\ spread = Effective(target) /\ Spreading(pos) /\ (Bare => Descending(pos))
  BY <1>1 DEF LevelInv, Walking, Syncing
<1>3. /\ branch \in Descendants(target) /\ target \in Alive /\ branch \in Alive
      /\ target \in Lineage(branch) /\ branch # target /\ branch # Root
      /\ pos[target] < pos[branch]
      /\ frame \in Alive /\ parent[branch] = frame /\ pos[frame] < pos[branch]
      /\ child \in Alive
  BY <1>1, <1>2, BranchDescends
<1>4. /\ Alive' = Alive /\ parent' = parent /\ next' = next /\ target' = target
      /\ spread' = spread /\ child' = child /\ lvl' = lvl
      /\ \A n : Lineage(n)' = Lineage(n)
      /\ Descendants(target)' = Descendants(target)
      /\ Bare' <=> Bare
  <2>1. \A n : Lineage(n)' = Lineage(n)
    BY <1>1 DEF Lineage, objects
  <2>2. Alive' = Alive /\ parent' = parent /\ next' = next /\ target' = target /\ spread' = spread
    BY <1>1 DEF Alive, objects, links, call
  <2>3. Descendants(target)' = Descendants(target)
    BY <2>1, <2>2 DEF Descendants
  <2>4. Bare' <=> Bare
    BY <1>1, <2>3 DEF Bare
  <2> QED BY <1>1, <2>1, <2>2, <2>3, <2>4
<1>5. /\ inh'[branch] = spread
      /\ \A n \in Node : inh[n] = spread => inh'[n] = spread
      /\ \A n \in Node : n # branch => inh'[n] = inh[n]
  BY <1>1, <1>3, SortedFacts DEF IInv, TypeOK
<1>6. spread' = Effective(target)'
  BY <1>1, <1>2, <1>3, <1>4, <1>5, SortedFacts DEF Effective
<1>7. \A n \in Alive : Told(n) \/ n = branch => Told(n)'
  BY <1>3, <1>4, <1>5, SortedFacts DEF Told
<1>8. \A n \in touched' : pos[target] < pos[n] /\ target \in Lineage(n)
  BY <1>1, <1>2, <1>3 DEF Spreading
<1>9. \A n \in Alive :
          parent[n] = target /\ (child = Null \/ pos[n] < pos[child]) => Told(n)'
  BY <1>2, <1>7 DEF Spreading
<1>10. parent[child] = target /\ Told(child)'
  <2>1. branch = child \/ Told(child)
    BY <1>1, <1>2 DEF Spreading
  <2>2. Told(child) => Told(child)'
    BY <1>3, <1>4, <1>5, SortedFacts DEF Told
  <2>3. branch = child => Told(child)'
    BY <1>3, <1>4, <1>5 DEF Told
  <2> QED BY <1>1, <1>2, <2>1, <2>2, <2>3 DEF Spreading, Syncing
<1>11. ASSUME Bare
       PROVE  /\ pos[child] <= pos[branch]
              /\ \A n \in Descendants(target) : pos[n] <= pos[branch] => inh'[n] = spread
  <2>1. /\ pos[child] <= pos[branch]
        /\ \A n \in Descendants(target) : pos[n] < pos[branch] => inh[n] = spread
    BY <1>1, <1>2, <1>11 DEF Descending
  <2> SUFFICES ASSUME NEW n \in Descendants(target), pos[n] <= pos[branch]
               PROVE  inh'[n] = spread
    BY <2>1
  <2>2. n \in Alive /\ n \in Node /\ pos[n] \in Nat /\ pos[branch] \in Nat
    BY <1>3, SortedFacts, DescendantsBehind
  <2>3. pos[n] = pos[branch] => n = branch
    BY <1>3, <2>2 DEF Numbered
  <2> QED BY <1>5, <2>1, <2>2, <2>3
<1> DEFINE succ == next[branch]
<1>12. /\ succ # Null => succ \in Alive /\ pos[branch] < pos[succ]
       /\ \A n \in Alive : succ = Null \/ pos[n] < pos[succ] => pos[n] <= pos[branch]
       /\ \A n \in Alive : pos[n] \in Nat
  <2>1. /\ succ # Null => succ \in Alive /\ pos[branch] < pos[succ]
        /\ \A n \in Alive : pos[n] \in Nat
    BY <1>3, SortedFacts
  <2>2. \A n \in Alive : succ = Null => pos[n] <= pos[branch]
    BY <1>3, SortedFacts
  <2>3. \A n \in Alive : succ # Null => pos[n] <= pos[branch] \/ pos[succ] <= pos[n]
    BY <1>3, SortedFacts
  <2> QED BY <2>1, <2>2, <2>3
<1>13. Descendants(target) \subseteq Alive
  BY DEF Descendants
<1>14. ASSUME pc' = "sync", branch' = succ, succ # Null
       PROVE  Spreading(pos)' /\ (Bare' => Descending(pos)')
  <2>1. Spreading(pos)'
    BY <1>4, <1>8, <1>9, <1>10, <1>14 DEF Spreading, Syncing
  <2>2. ASSUME Bare PROVE Descending(pos)'
    <3>1. pos[child] <= pos[succ]
      BY <1>3, <1>11, <1>12, <1>14, <2>2
    <3>2. \A n \in Descendants(target) : pos[n] < pos[succ] => inh'[n] = spread
      BY <1>11, <1>12, <1>13, <2>2
    <3> QED BY <1>4, <1>14, <3>1, <3>2 DEF Descending
  <2> QED BY <1>4, <2>1, <2>2
<1>15. ASSUME pc' = "return", it' = succ, frame' = frame,
              succ # Null => parent[succ] # parent[branch] /\ parent[succ] # branch
       PROVE  Spreading(pos)' /\ (Bare' => Descending(pos)')
  <2>1. Spreading(pos)'
    BY <1>4, <1>8, <1>9, <1>10, <1>15 DEF Spreading, Syncing
  <2>2. ASSUME Bare PROVE Descending(pos)'
    <3>1. succ # Null => pos[frame] < pos[succ] /\ pos[child] < pos[succ]
      BY <1>3, <1>11, <1>12, <2>2
    <3>2. succ # Null => pos[parent[succ]] <= pos[frame]
      BY <1>3, <1>15, BehindBranch
    <3>3. \A n \in Descendants(target) : succ = Null \/ pos[n] < pos[succ] => inh'[n] = spread
      BY <1>11, <1>12, <1>13, <2>2
    <3> QED BY <1>4, <1>15, <3>1, <3>2, <3>3 DEF Descending
  <2> QED BY <1>4, <2>1, <2>2
<1>16. Spreading(pos)' /\ (Bare' => Descending(pos)') /\ pc' \in {"sync", "return"}
  <2>1. \/ pc' = "sync" /\ branch' = succ /\ succ # Null
        \/ /\ pc' = "return" /\ it' = succ /\ frame' = frame
           /\ succ # Null => parent[succ] # parent[branch] /\ parent[succ] # branch
    <3>1. \/ IsChild(succ, parent[branch]) /\ branch' = succ /\ pc' = pc
          \/ IsChild(succ, branch) /\ branch' = succ /\ pc' = pc
          \/ /\ ~IsChild(succ, parent[branch]) /\ ~IsChild(succ, branch)
             /\ pc' = "return" /\ it' = succ /\ frame' = frame
      BY DEF Inherit
    <3> QED BY <1>1, <3>1 DEF IsChild
  <2> QED BY <2>1, <1>14, <1>15
<1> QED BY <1>6, <1>16 DEF LevelInv, Sorting

LEMMA FindSiblingLevels ==
    ASSUME FindSibling, NEW pos, LevelInv(pos)
    PROVE  LevelInv(pos)'
<1>1. /\ UNCHANGED <<objects, links, levels, call, child, touched>>
      /\ pc = "sibling" /\ pc' \in {"sibling", "return"}
  BY DEF FindSibling
<1>2. /\ Alive' = Alive /\ parent' = parent /\ target' = target
      /\ \A n : Lineage(n)' = Lineage(n) /\ (Told(n)' <=> Told(n))
      /\ Bare' <=> Bare
  BY <1>1, WalkQuiet
<1>3. /\ spread = Effective(target) /\ Spreading(pos) /\ ~Bare
  BY <1>1 DEF LevelInv, Walking, Syncing, Descending
<1>4. spread' = Effective(target)'
  BY <1>1, <1>3 DEF Effective, levels, call
<1>5. Spreading(pos)'
  BY <1>1, <1>2, <1>3 DEF Spreading, Syncing, Told, levels, call
<1> QED BY <1>1, <1>2, <1>3, <1>4, <1>5 DEF LevelInv, Sorting

LEMMA ReturnLevels ==
    ASSUME IInv, Family, organized, NEW pos \in [Node -> Nat], Numbered(pos), Sorted(pos),
           Return, LevelInv(pos)
    PROVE  LevelInv(pos)'
<1>1. /\ UNCHANGED <<objects, links, levels, call, child, touched>>
      /\ pc = "return" /\ child \in Alive /\ target \in Alive /\ it \in Alive \union {Null}
      /\ frame \in touched \union {target} /\ frame \in Alive
  BY DEF Return, IInv, SyncInv, Syncing
<1>2. /\ Alive' = Alive /\ parent' = parent /\ next' = next /\ target' = target
      /\ Descendants(target)' = Descendants(target)
      /\ \A n : Lineage(n)' = Lineage(n) /\ (Told(n)' <=> Told(n))
      /\ Bare' <=> Bare
      /\ inh' = inh /\ spread' = spread
  BY <1>1, WalkQuiet
<1>3. /\ spread = Effective(target) /\ Spreading(pos) /\ (Bare => Descending(pos))
  BY <1>1 DEF LevelInv, Walking, Syncing
<1>4. spread' = Effective(target)'
  BY <1>1, <1>3 DEF Effective, levels, call
<1>5. /\ parent[child] = target /\ Told(child)
      /\ \A n \in touched : pos[target] < pos[n] /\ target \in Lineage(n)
      /\ \A n \in Alive : parent[n] = target /\ (child = Null \/ pos[n] < pos[child]) => Told(n)
  BY <1>1, <1>3 DEF Spreading, Syncing
<1>6. ASSUME Bare
      PROVE  /\ it # Null =>
                   pos[frame] < pos[it] /\ pos[parent[it]] <= pos[frame] /\ pos[child] < pos[it]
             /\ \A n \in Descendants(target) : it = Null \/ pos[n] < pos[it] => inh[n] = spread
  BY <1>1, <1>3, <1>6 DEF Descending
<1>7. /\ \A n \in Alive : pos[n] \in Nat
      /\ \A m, n \in Alive : pos[m] = pos[n] => m = n
      /\ \A n \in Alive \ {Root} : parent[n] \in Alive /\ pos[parent[n]] < pos[n]
      /\ \A n \in Descendants(target) : n \in Alive
  BY SortedFacts DEF Descendants
<1>8. it # Null /\ Bare => it \in Alive \ {Root} /\ parent[it] \in Alive
  <2> SUFFICES ASSUME it # Null, Bare PROVE it # Root
    BY <1>1, <1>7
  <2>1. pos[frame] < pos[it]
    BY <1>6
  <2>2. pos[Root] <= pos[frame]
    BY <1>1 DEF Numbered
  <2> QED BY <2>1, <2>2, <1>1, <1>7
<1>9. CASE frame = target /\ pc' = "advance" /\ it' = next[child]
  <2>1. \A n \in Alive : pos[child] < pos[n] => next[child] # Null /\ pos[next[child]] <= pos[n]
    BY <1>1, SortedFacts
  <2>2. Spreading(pos)'
    BY <1>1, <1>2, <1>5, <1>9, <2>1 DEF Spreading, Syncing
  <2>3. ASSUME Bare, NEW n \in Descendants(target), inh[n] # spread
        PROVE  \E c \in Alive : parent[c] = target /\ pos[child] < pos[c] /\ pos[c] <= pos[n]
    <3>1. it # Null /\ pos[it] <= pos[n] /\ n \in Alive
      BY <1>1, <1>6, <1>7, <2>3
    <3>2. /\ pos[target] < pos[it] /\ pos[parent[it]] <= pos[target] /\ pos[child] < pos[it]
          /\ it \in Alive \ {Root} /\ parent[it] \in Alive
      BY <3>1, <1>6, <1>8, <1>9, <2>3
    <3>3. CASE parent[it] = target
      BY <3>1, <3>2, <3>3
    <3>4. CASE parent[it] # target
      <4>1. pos[parent[it]] < pos[target]
        BY <3>2, <3>4, <1>1, <1>7
      <4> QED BY <4>1, <3>1, <3>2, <1>1, <2>3, DescendantsEnd
    <3> QED BY <3>3, <3>4
  <2>4. Bare' => Descending(pos)'
    BY <1>1, <1>2, <1>9, <2>3 DEF Descending
  <2> QED BY <1>4, <1>9, <2>2, <2>4 DEF LevelInv, Sorting
<1>10. CASE AnotherTurn /\ pc' = "sync" /\ branch' = it
  <2>1. Spreading(pos)'
    BY <1>1, <1>2, <1>5, <1>10 DEF Spreading, Syncing
  <2>2. it # Null
    BY <1>10 DEF AnotherTurn, IsChild
  <2>3. ASSUME Bare PROVE Descending(pos)'
    <3>1. pos[child] <= pos[it]
      BY <1>1, <1>6, <1>7, <1>8, <2>2, <2>3
    <3> QED BY <1>1, <1>2, <1>6, <1>10, <2>2, <2>3, <3>1 DEF Descending
  <2> QED BY <1>2, <1>4, <1>10, <2>1, <2>3 DEF LevelInv, Sorting
<1>11. CASE frame # target /\ ~AnotherTurn /\ frame' = parent[frame] /\ pc' = pc /\ it' = it
  <2>1. Spreading(pos)'
    BY <1>1, <1>2, <1>5, <1>11 DEF Spreading, Syncing
  <2>2. frame # Root /\ parent[frame] \in Alive /\ pos[parent[frame]] < pos[frame]
    <3>1. pos[target] < pos[frame]
      BY <1>1, <1>5, <1>11
    <3>2. pos[Root] <= pos[target]
      BY <1>1 DEF Numbered
    <3>3. frame # Root
      BY <3>1, <3>2, <1>1, <1>7
    <3> QED BY <3>3, <1>1, <1>7
  <2>3. ASSUME Bare, it # Null
        PROVE  pos[parent[frame]] < pos[it] /\ pos[parent[it]] <= pos[parent[frame]]
    <3>1. /\ pos[frame] < pos[it] /\ pos[parent[it]] <= pos[frame]
          /\ it \in Alive \ {Root} /\ parent[it] \in Alive
      BY <1>6, <1>8, <2>3
    <3>2. pos[parent[it]] < pos[frame]
      BY <1>1, <1>7, <1>11, <2>3, <3>1 DEF AnotherTurn, IsChild
    <3>3. Follows(pos, it)
      BY <3>1 DEF Sorted
    <3>4. pos[parent[it]] <= pos[parent[frame]]
      BY <1>1, <3>1, <3>2, <3>3 DEF Follows
    <3> QED BY <1>1, <1>7, <2>2, <3>1, <3>4
  <2>4. ASSUME Bare PROVE Descending(pos)'
    BY <1>1, <1>2, <1>6, <1>11, <2>3, <2>4 DEF Descending
  <2> QED BY <1>1, <1>2, <1>4, <1>11, <2>1, <2>4 DEF LevelInv, Sorting
<1> QED BY <1>9, <1>10, <1>11 DEF Return, SearchFrom

LEMMA AdvanceLevels ==
    ASSUME IInv, Family, organized, NEW pos \in [Node -> Nat], Numbered(pos), Sorted(pos),
           Advance, LevelInv(pos)
    PROVE  LevelInv(pos)'
<1>1. /\ UNCHANGED <<objects, links, levels, call, touched>>
      /\ pc = "advance" /\ child \in Alive /\ target \in Alive /\ it \in Alive \union {Null}
  BY DEF Advance, IInv, SyncInv
<1>2. /\ Alive' = Alive /\ parent' = parent /\ next' = next /\ target' = target
      /\ Descendants(target)' = Descendants(target)
      /\ \A n : Lineage(n)' = Lineage(n) /\ (Told(n)' <=> Told(n))
      /\ Bare' <=> Bare
      /\ inh' = inh /\ spread' = spread
  BY <1>1, WalkQuiet
<1>3. /\ spread = Effective(target) /\ Spreading(pos) /\ (Bare => Descending(pos))
  BY <1>1 DEF LevelInv, Walking
<1>4. spread' = Effective(target)'
  BY <1>1, <1>3 DEF Effective, levels, call
<1>5. /\ parent[child] = target /\ Told(child)
      /\ \A n \in touched : pos[target] < pos[n] /\ target \in Lineage(n)
      /\ \A n \in Alive : parent[n] = target /\ (child = Null \/ pos[n] < pos[child]) => Told(n)
      /\ \A n \in Alive : parent[n] = target /\ pos[child] < pos[n] => it # Null /\ pos[it] <= pos[n]
  BY <1>1, <1>3 DEF Spreading
<1>6. Bare => \A n \in Descendants(target) :
           \/ inh[n] = spread
           \/ \E c \in Alive : parent[c] = target /\ pos[child] < pos[c] /\ pos[c] <= pos[n]
  BY <1>1, <1>3 DEF Descending
<1>7. /\ \A n \in Alive : pos[n] \in Nat
      /\ \A m, n \in Alive : pos[m] = pos[n] => m = n
      /\ \A n \in Descendants(target) : n \in Alive
  BY SortedFacts DEF Descendants
<1>8. CASE SearchEnds(it, child)
  <2>1. pc' = "children" /\ child' = it /\ (it = Null \/ parent[it] = target)
    BY <1>5, <1>8 DEF Advance, SearchEnds
  <2>2. \A n \in Alive : parent[n] = target /\ (it = Null \/ pos[n] < pos[it]) => Told(n)
    BY <1>1, <1>5, <1>7
  <2>3. Spreading(pos)'
    BY <1>1, <1>2, <1>5, <2>1, <2>2 DEF Spreading, Syncing
  <2>4. ASSUME Bare, NEW n \in Descendants(target), it = Null \/ pos[n] < pos[it]
        PROVE  inh[n] = spread
    <3> SUFFICES ASSUME NEW c \in Alive, parent[c] = target, pos[child] < pos[c], pos[c] <= pos[n]
                 PROVE  FALSE
      BY <1>6, <2>4
    <3>1. it # Null /\ pos[it] <= pos[c]
      BY <1>5
    <3> QED BY <3>1, <1>1, <1>7, <2>4
  <2>5. Bare' => Descending(pos)'
    BY <1>1, <1>2, <2>1, <2>4 DEF Descending
  <2> QED BY <1>4, <2>1, <2>3, <2>5 DEF LevelInv, Sorting
<1>9. CASE ~SearchEnds(it, child)
  <2>1. /\ pc' = "advance" /\ child' = child /\ it' = next[it]
        /\ it # Null /\ parent[it] # target
    BY <1>1, <1>5, <1>9 DEF Advance, SearchEnds
  <2>2. ASSUME NEW n \in Alive, parent[n] = target, pos[child] < pos[n]
        PROVE  next[it] # Null /\ pos[next[it]] <= pos[n]
    <3>1. pos[it] <= pos[n] /\ n # it
      BY <1>5, <2>1, <2>2
    <3>2. pos[it] < pos[n]
      BY <1>1, <1>7, <2>1, <3>1
    <3> QED BY <1>1, <1>7, <2>1, <3>2, SortedFacts
  <2>3. Spreading(pos)'
    BY <1>1, <1>2, <1>5, <2>1, <2>2 DEF Spreading, Syncing
  <2>4. Bare' => Descending(pos)'
    BY <1>1, <1>2, <1>6, <2>1 DEF Descending
  <2> QED BY <1>4, <2>1, <2>3, <2>4 DEF LevelInv, Sorting
<1> QED BY <1>8, <1>9

\* The walk starts, from set_level or at the end of organize
LEMMA StartLevels ==
    ASSUME IInv, Family, organized, NEW pos \in [Node -> Nat], Numbered(pos), Sorted(pos),
           pc = "children", child = next[target], touched = {}
    PROVE  Spreading(pos) /\ Descending(pos)
<1>1. target \in Alive /\ \A n \in Alive : pos[n] \in Nat
  BY SortedFacts DEF IInv, SyncInv
<1>2. \A n \in Descendants(target) :
          child # Null /\ pos[child] <= pos[n] /\ n \in Alive /\ child \in Alive
  BY <1>1, FirstChild, SortedFacts DEF Descendants
<1>3. \A n \in Descendants(target) : ~(child = Null \/ pos[n] < pos[child])
  BY <1>1, <1>2
<1>4. \A n \in Alive : parent[n] = target => n \in Descendants(target)
  BY <1>1, ChildDescends
<1>5. Spreading(pos)
  BY <1>3, <1>4 DEF Spreading, Syncing
<1>6. Descending(pos)
  BY <1>3 DEF Descending
<1> QED BY <1>5, <1>6

Leveled == Family /\ \E pos \in [Node -> Nat] : OrderInv(pos) /\ LevelInv(pos)

\* StartLevels, as a formula whose instance in the next state can be used
StartsLevel ==
    \A pos \in [Node -> Nat] :
        IInv /\ Family /\ organized /\ OrderInv(pos) /\ pc = "children"
             /\ child = next[target] /\ touched = {} => Spreading(pos) /\ Descending(pos)

LEMMA StartsLevels == StartsLevel
  BY StartLevels DEF StartsLevel, OrderInv

LEMMA LevelInvNext ==
    ASSUME Sensible, IInv, IInv', Family, Family', Next, StartsLevel',
           NEW pos \in [Node -> Nat], OrderInv(pos), LevelInv(pos), OrderInv(pos)'
    PROVE  LevelInv(pos)'
<1>1. CASE pc = "idle" /\ pc' = "idle"
  BY <1>1 DEF LevelInv, Sorting, Walking, Syncing
<1>2. ASSUME NEW m \in Settable, NEW l \in AnyLevel, SetLevel(m, l)
      PROVE  LevelInv(pos)'
  <2>1. touched' = touched /\ touched = {} /\ m \in Node
    BY <1>2 DEF SetLevel, IInv, SyncInv, Alive
  <2>2. spread' = Effective(target)'
    BY <1>2, <2>1 DEF SetLevel, Effective, IInv, TypeOK
  <2>3. CASE organized
    <3>1. pc' = "children" /\ child' = next'[target'] /\ organized'
      BY <1>2, <2>3 DEF SetLevel, links
    <3>2. Spreading(pos)' /\ Descending(pos)'
      BY <2>1, <3>1 DEF StartsLevel
    <3> QED BY <2>2, <3>1, <3>2 DEF LevelInv, Sorting
  <2>4. CASE ~organized
    <3>1. pc' = "organize"
      BY <1>2, <2>4 DEF SetLevel
    <3> QED BY <2>1, <2>2, <3>1 DEF LevelInv, Sorting, Walking, Syncing
  <2> QED BY <2>3, <2>4
<1>3. CASE Organize
  <2>1. Sorting /\ UNCHANGED <<objects, levels, call, touched>>
    BY <1>3 DEF Organize, PassOver, KeepInPlace, Relocate, NextParent, Sorting
  <2>2. touched' = {} /\ spread' = Effective(target)'
    BY <2>1 DEF LevelInv, Effective, levels, call
  <2>3. CASE pc' = "children"
    <3>1. child' = next'[target'] /\ organized'
      BY <1>3, <2>3 DEF Organize, PassOver, KeepInPlace, Relocate, NextParent, links, call
    <3>2. Spreading(pos)' /\ Descending(pos)'
      BY <2>2, <2>3, <3>1 DEF StartsLevel
    <3> QED BY <2>2, <2>3, <3>2 DEF LevelInv, Sorting
  <2>4. CASE pc' # "children"
    <3>1. pc' \in {"organize", "aborted", "segv"}
      BY <1>3, <2>4 DEF Organize, PassOver, KeepInPlace, Relocate, NextParent
    <3> QED BY <2>2, <3>1 DEF LevelInv, Sorting, Walking, Syncing
  <2> QED BY <2>3, <2>4
<1>4. CASE Sync
  <2>1. organized
    BY <1>4 DEF Sync, NextChild, Shielded, Inherit, FindSibling, Return, Advance, IInv,
        FreshInv, Walking, Syncing
  <2>2. Numbered(pos) /\ Sorted(pos)
    BY <2>1 DEF OrderInv
  <2> QED BY <1>4, <2>1, <2>2, NextChildLevels, ShieldedLevels, InheritLevels,
             FindSiblingLevels, ReturnLevels, AdvanceLevels DEF Sync
<1>5. CASE Unlock
  BY <1>5 DEF Unlock, LevelInv, Sorting, Walking, Syncing
<1>6. CASE (\E c \in Ctx : \E p \in Parents[c] : Construct(c, p)) \/ (\E c \in Ctx : Destroy(c))
  BY <1>1, <1>6 DEF Construct, Destroy
<1> QED BY <1>2, <1>3, <1>4, <1>5, <1>6 DEF Next, Holder

LEMMA LeveledInit == Init => Leveled
<1> SUFFICES ASSUME Init PROVE Leveled
  OBVIOUS
<1>1. PICK pos \in [Node -> Nat] : OrderInv(pos)
  BY InOrderInit DEF InOrder
<1>2. LevelInv(pos)
  BY DEF Init, LevelInv, Sorting, Walking, Syncing
<1> QED BY <1>1, <1>2, FamilyInit DEF Leveled

LEMMA LeveledNext ==
    Sensible /\ IInv /\ IInv' /\ StartsLevel' /\ Leveled /\ [Next]_vars => Leveled'
<1> SUFFICES ASSUME Sensible, IInv, IInv', StartsLevel', Leveled, [Next]_vars
             PROVE  Leveled'
  OBVIOUS
<1> PICK pos \in [Node -> Nat] : OrderInv(pos) /\ LevelInv(pos)
  BY DEF Leveled
<1>1. Family /\ Family'
  BY FamilyNext DEF Leveled
<1>2. CASE Next /\ OrderInv(pos)'
  <2>1. LevelInv(pos)'
    BY <1>1, <1>2, LevelInvNext
  <2> QED BY <1>1, <1>2, <2>1 DEF Leveled
<1>3. CASE Next /\ ~OrderInv(pos)'
  <2>1. PICK q \in [Node -> Nat] : OrderInv(q)'
    BY <1>1, <1>3, OrderStep
  <2>2. Relocate \/ \E c \in Ctx : \E p \in Parents[c] : Construct(c, p)
    BY <1>1, <1>3, OrderStep
  <2>3. LevelInv(q)'
    <3>1. CASE Relocate
      <4>1. Sorting /\ pc' \in {"organize", "segv"} /\ UNCHANGED <<levels, call, touched>>
        BY <3>1 DEF Relocate, Sorting
      <4> QED BY <4>1 DEF LevelInv, Sorting, Walking, Syncing, Effective, levels, call
    <3>2. CASE \E c \in Ctx : \E p \in Parents[c] : Construct(c, p)
      BY <3>2 DEF Construct, LevelInv, Sorting, Walking, Syncing
    <3> QED BY <2>2, <3>1, <3>2
  <2> QED BY <1>1, <2>1, <2>3 DEF Leveled
<1>4. CASE UNCHANGED vars
  <2>1. OrderInv(pos)'
    BY <1>4 DEF vars, OrderInv, Numbered, Sorted, SortedSoFar, Follows, Done, Sorting, NoFault,
        Alive, objects, links, sorting
  <2>2. UNCHANGED <<objects, links, levels, call>> /\ UNCHANGED <<syncing, pc, touched>>
    BY <1>4 DEF vars
  <2>3. /\ Alive' = Alive /\ parent' = parent /\ next' = next /\ target' = target
        /\ Descendants(target)' = Descendants(target)
        /\ \A n : Lineage(n)' = Lineage(n) /\ (Told(n)' <=> Told(n))
        /\ Bare' <=> Bare
        /\ inh' = inh /\ spread' = spread
    BY <2>2, WalkQuiet
  <2>4. Spreading(pos) => Spreading(pos)'
    BY <2>2, <2>3 DEF Spreading, Syncing, Told, syncing, levels
  <2>5. Descending(pos) => Descending(pos)'
    BY <2>2, <2>3 DEF Descending, syncing
  <2>6. LevelSpreads => LevelSpreads'
    BY <2>2, <2>3 DEF LevelSpreads, ChildrenUpdated, SubtreeUpdated, Effective, levels
  <2>7. LevelInv(pos)'
    BY <2>2, <2>3, <2>4, <2>5, <2>6 DEF LevelInv, Sorting, Walking, Syncing, Effective, levels
  <2> QED BY <1>1, <2>1, <2>7 DEF Leveled
<1> QED BY <1>2, <1>3, <1>4

LEMMA StaysLeveled == Sensible => (Spec => []Leveled)
<1> SUFFICES ASSUME Sensible PROVE Spec => []Leveled
  OBVIOUS
<1>1. IInv /\ IInv' /\ StartsLevel' /\ Leveled /\ [Next]_vars => Leveled'
  BY LeveledNext
<1> QED BY <1>1, StartsLevels, LeveledInit, Invariance, PTL DEF Spec

\* When set_level returns, every child without a level of its own has taken the
\* level over, and so has every descendant when none of them has one, wherever
\* in the tree the context stands: the loops over the sorted list stop neither
\* too early nor at somebody else's descendants.
THEOREM LevelReachesBelow == Sensible => (Spec => []LevelSpreads)
<1> SUFFICES ASSUME Sensible PROVE Spec => []LevelSpreads
  OBVIOUS
<1>1. Leveled => LevelSpreads
  BY DEF Leveled, LevelInv, LevelSpreads, ChildrenUpdated, SubtreeUpdated
<1> QED BY <1>1, StaysLeveled, PTL

-----------------------------------------------------------------------------
(* A program that sets the level of the root only *)

RootOnly == Settable \subseteq {Root}

\* Between calls all contexts have the level of the root
RootLevels ==
    /\ \A n \in Node \ {Root} : lvl[n] = Unset
    /\ pc # "idle" => target = Root
    /\ organized /\ pc = "idle" => \A n \in Alive : Effective(n) = Effective(Root)

LEMMA RootDescends ==
    ASSUME IInv, Family, organized, NEW pos \in [Node -> Nat], Numbered(pos), Sorted(pos)
    PROVE  Alive \ {Root} \subseteq Descendants(Root)
<1> DEFINE T == {x \in Alive : Root \notin Lineage(x)}
<1>1. ASSUME T # {} PROVE FALSE
  <2>1. T \in SUBSET Node
    BY SortedFacts
  <2>2. PICK m \in T : \A x \in T : pos[m] <= pos[x]
    BY <1>1, <2>1, FirstNode
  <2>3. Root \in Node /\ m \in Node /\ m \in Alive /\ m # Root
    BY <2>2, SortedFacts, LineageSelf
  <2>4. parent[m] \in Alive /\ parent[m] \in Node /\ pos[parent[m]] < pos[m]
    BY <2>3, SortedFacts
  <2>5. parent[m] \notin T
    BY <2>2, <2>3, <2>4
  <2>6. Root \in Lineage(m)
    BY <2>3, <2>4, <2>5, LineageStep
  <2> QED BY <2>2, <2>6
<1> QED BY <1>1 DEF Descendants

LEMMA RootLevelsNext ==
    ASSUME Sensible, RootOnly, IInv, Leveled, RootLevels, [Next]_vars
    PROVE  RootLevels'
<1> PICK pos \in [Node -> Nat] : OrderInv(pos) /\ LevelInv(pos)
  BY DEF Leveled
<1> USE NodesAssumption DEF Node
<1>1. CASE \E c \in Ctx : \E p \in Parents[c] : Construct(c, p)
  <2> PICK c \in Ctx : \E p \in Parents[c] : Construct(c, p)
    BY <1>1
  <2> PICK p \in Parents[c] : Construct(c, p)
    OBVIOUS
  <2>1. /\ c \in Node /\ c # Root /\ c \notin Alive /\ Root \in Alive /\ Alive \subseteq Node
        /\ pc = "idle" /\ pc' = "idle" /\ organized' = organized
        /\ lvl' = [lvl EXCEPT ![c] = Unset] /\ inh' = [inh EXCEPT ![c] = BirthLevel(p)]
        /\ organized => p \in Alive /\ BirthLevel(p) = Effective(p)
    BY ProgramAssumption DEF Construct, MayConstruct, BirthLevel, Alive, IInv, ListInv
  <2>2. Alive' = Alive \union {c}
    BY <2>1 DEF Construct, Alive, IInv, TypeOK
  <2>3. /\ lvl'[c] = Unset /\ inh'[c] = BirthLevel(p)
        /\ \A n \in Node : n # c => lvl'[n] = lvl[n] /\ inh'[n] = inh[n]
    BY <2>1 DEF IInv, TypeOK
  <2>4. \A n \in Alive : Effective(n)' = Effective(n)
    BY <2>1, <2>3 DEF Effective
  <2>5. Effective(c)' = BirthLevel(p)
    BY <2>3 DEF Effective
  <2>6. organized => \A n \in Alive \union {c} : Effective(n)' = Effective(Root)'
    BY <2>1, <2>4, <2>5 DEF RootLevels
  <2> QED BY <2>1, <2>2, <2>3, <2>6 DEF RootLevels
<1>2. CASE \E c \in Ctx : Destroy(c)
  <2> PICK c \in Ctx : Destroy(c)
    BY <1>2
  <2>1. /\ c \in Node /\ c # Root /\ Root \in Alive /\ Alive \subseteq Node
        /\ pc = "idle" /\ pc' = "idle" /\ organized' = organized
        /\ lvl' = [lvl EXCEPT ![c] = Unset] /\ inh' = [inh EXCEPT ![c] = Unset]
    BY DEF Destroy, Alive, IInv, ListInv
  <2>2. Alive' = Alive \ {c}
    BY <2>1 DEF Destroy, Alive, IInv, TypeOK
  <2>3. /\ lvl'[c] = Unset
        /\ \A n \in Node : n # c => lvl'[n] = lvl[n] /\ inh'[n] = inh[n]
    BY <2>1 DEF IInv, TypeOK
  <2>4. \A n \in Alive \ {c} : Effective(n)' = Effective(n)
    BY <2>1, <2>3 DEF Effective
  <2> QED BY <2>1, <2>2, <2>3, <2>4 DEF RootLevels
<1>3. CASE \E m \in Settable, l \in AnyLevel : SetLevel(m, l)
  <2> PICK l \in AnyLevel : SetLevel(Root, l)
    BY <1>3 DEF RootOnly
  <2>1. pc' # "idle" /\ target' = Root /\ lvl' = [lvl EXCEPT ![Root] = l]
    BY DEF SetLevel
  <2> QED BY <2>1 DEF RootLevels, IInv, TypeOK
<1>4. CASE Organize \/ Sync
  <2>1. pc # "idle" /\ pc' # "idle" /\ target' = target /\ lvl' = lvl
    BY <1>4 DEF Organize, PassOver, KeepInPlace, Relocate, NextParent, Sync, NextChild,
      Shielded, Inherit, FindSibling, Return, Advance, levels, call
  <2> QED BY <2>1 DEF RootLevels
<1>5. CASE Unlock
  <2>1. /\ pc = "unlock" /\ pc' = "idle" /\ organized /\ target = Root
        /\ UNCHANGED <<objects, levels, organized>>
    BY <1>5 DEF Unlock, RootLevels, IInv, FreshInv
  <2>2. SubtreeUpdated
    BY <2>1 DEF LevelInv, LevelSpreads
  <2>3. Alive \ {Root} \subseteq Descendants(Root) /\ Alive \subseteq Node
    BY <2>1, RootDescends DEF Leveled, OrderInv, Alive
  <2>4. \A n \in Descendants(Root) : n \in Node \ {Root}
    BY DEF Descendants, Alive
  <2>5. \A n \in Descendants(Root) : inh[n] = Effective(Root)
    BY <2>1, <2>2, <2>4 DEF SubtreeUpdated, RootLevels
  <2>6. \A n \in Alive : Effective(n) = Effective(Root)
    BY <2>3, <2>4, <2>5 DEF Effective, RootLevels
  <2> QED BY <2>1, <2>6 DEF RootLevels, Effective, Alive, objects, levels
<1>6. CASE UNCHANGED vars
  BY <1>6 DEF vars, RootLevels, Effective, Alive, objects, levels, call
<1> QED BY <1>1, <1>2, <1>3, <1>4, <1>5, <1>6 DEF Next, Holder

\* A program that sets the level of the root only, and any number of times, has
\* one level everywhere between calls: a context without a level of its own has
\* the effective level of its parent, also one constructed after the call.
THEOREM LevelInherited == Sensible /\ RootOnly => (Spec => []InheritsParent)
<1> SUFFICES ASSUME Sensible, RootOnly PROVE Spec => []InheritsParent
  OBVIOUS
<1>1. Init => RootLevels
  BY DEF Init, RootLevels
<1>2. IInv /\ Leveled /\ RootLevels /\ [Next]_vars => RootLevels'
  BY RootLevelsNext
<1>3. IInv /\ Leveled /\ RootLevels => InheritsParent
  <2> SUFFICES ASSUME IInv, RootLevels, pc = "idle", NEW n \in Alive \ {Root},
                      lvl[n] = Unset, parent[n] \in Alive
               PROVE  inh[n] = Effective(parent[n])
    BY DEF InheritsParent
  <2>1. CASE organized
    BY <2>1 DEF RootLevels, Effective
  <2>2. CASE ~organized
    BY <2>2 DEF IInv, FreshInv, Effective, Alive
  <2> QED BY <2>1, <2>2
<1> QED BY <1>1, <1>2, <1>3, StaysLeveled, Invariance, PTL DEF Spec
=============================================================================
