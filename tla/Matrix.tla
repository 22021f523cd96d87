------------------------------- MODULE Matrix -------------------------------
(***************************************************************************)
(* upp::math::mat and static_mat with their operators: elements in one     *)
(* array, row after row, behind the dimensions.  A behaviour is about      *)
(* objects of one of the two types.  A loop is a function `after`: the     *)
(* matrix after each of its iterations, in their order, since both         *)
(* operands may be the same object.                                        *)
(***************************************************************************)
EXTENDS Integers, Sequences, SequencesExt

CONSTANTS
    MatObj,         \* the matrix objects
    NullStore,      \* m_s after a move, or of an object that does not exist
    Dim,            \* the dimensions explored
    RowLists,       \* the rows matrices are constructed from
    MaxOps,         \* bound on the operations of a behaviour
    Aliased,        \* TRUE: a matrix may be multiplied by itself in place
    Rectangular     \* the operators used for products of any shape: others only
                    \* if the shape stays (in place) or the product is square

ASSUME MatrixAssumption ==
    /\ Dim \subseteq Nat \ {0} /\ MaxOps \in Nat
    /\ RowLists \subseteq Seq(Seq(Int)) \ {<<>>}
    /\ Aliased \in BOOLEAN /\ Rectangular \subseteq {"*", "*="}

VARIABLES
    static,     \* the objects are static_mats
    m_s,        \* the store of each object: h, w and the elements
    means,      \* history: the matrix each object stands for, by its rows
    outside,    \* history: an access was out of the range operator[] asserts
    ops         \* how many operations there were

matrixVars == <<static, m_s, means, outside, ops>>

MatrixInit ==
    /\ static \in BOOLEAN
    /\ m_s = [o \in MatObj |-> NullStore]
    /\ means = [o \in MatObj |-> <<>>]
    /\ outside = FALSE /\ ops = 0

-----------------------------------------------------------------------------
(* Storage *)

flatten_index(h, w, i, j) == w * i + j

InRange(s, i, j) == i < s.h /\ j < s.w

Elem(s, i, j) == s.elems[flatten_index(s.h, s.w, i, j)]

\* s[i, j] = v; an index that the assertions refuse shows in `outside`
Written(s, i, j, v) ==
    LET idx == flatten_index(s.h, s.w, i, j)
    IN [s EXCEPT !.elems = [x \in DOMAIN @ |-> IF x = idx THEN v ELSE @[x]]]

\* What the view of a column shows
columns_view(s, j) == [i \in 1 .. s.h |-> Elem(s, i - 1, j)]

\* The x-th element that loops over rows of w columns visit
Visited(w, x) == <<(x - 1) \div w, (x - 1) % w>>

\* make_mat_store, and what a constructor writes into it
Filled(h, w, f) ==
    LET after[x \in 0 .. h * w] ==
            IF x = 0 THEN [h |-> h, w |-> w, elems |-> [y \in 0 .. h * w - 1 |-> 0]]
            ELSE Written(after[x - 1], Visited(w, x)[1], Visited(w, x)[2], f[Visited(w, x)])
    IN after[h * w]

Larger(a, b) == IF a > b THEN a ELSE b

max_row_lenMutant(rows) == Len(rows[1])
max_row_len(rows) ==
    LET longest[n \in 0 .. Len(rows)] == IF n = 0 THEN 0 ELSE Larger(longest[n - 1], Len(rows[n]))
    IN longest[Len(rows)]

Total(summands) == FoldLeft(+, 0, summands)

-----------------------------------------------------------------------------
(* The matrices of mathematics that objects stand for *)

Entry(h, w, f(_, _)) == [i \in 1 .. h |-> [j \in 1 .. w |-> f(i, j)]]

Height(m) == Len(m)
Breadth(m) == Len(m[1])

Dot(a, b, i, j) == Total([k \in 1 .. Breadth(a) |-> a[i][k] * b[k][j]])

Sum(a, b) == Entry(Height(a), Breadth(a), LAMBDA i, j : a[i][j] + b[i][j])
Difference(a, b) == Entry(Height(a), Breadth(a), LAMBDA i, j : a[i][j] - b[i][j])
Product(a, b) == Entry(Height(a), Breadth(b), LAMBDA i, j : Dot(a, b, i, j))
Padded(rows) ==
    LET longest == CHOOSE n \in {Len(rows[i]) : i \in DOMAIN rows} :
                       \A i \in DOMAIN rows : Len(rows[i]) <= n
    IN Entry(Len(rows), longest, LAMBDA i, j : IF j <= Len(rows[i]) THEN rows[i][j] ELSE 0)

-----------------------------------------------------------------------------
(* Constructors *)

Becomes(o, store, meaning, out) ==
    /\ ops < MaxOps /\ ops' = ops + 1
    /\ m_s' = [m_s EXCEPT ![o] = store]
    /\ means' = [means EXCEPT ![o] = meaning]
    /\ outside' = (outside \/ out)
    /\ UNCHANGED static

zeros(h, w) == [c \in (0 .. h - 1) \X (0 .. w - 1) |-> 0]
eye(h, w) == [c \in (0 .. h - 1) \X (0 .. w - 1) |-> IF c[1] = c[2] THEN 1 ELSE 0]

ZerosTo(o, h, w) == Becomes(o, Filled(h, w, zeros(h, w)), Entry(h, w, LAMBDA i, j : 0), FALSE)

EyeTo(o, h, w) ==
    Becomes(o, Filled(h, w, eye(h, w)), Entry(h, w, LAMBDA i, j : IF i = j THEN 1 ELSE 0), FALSE)

\* What assign_rows leaves at an index: each row is copied over the beginning of
\* one of the matrix
assign_rows(rows, i, j) == IF j < Len(rows[i + 1]) THEN rows[i + 1][j + 1] ELSE 0

\* The dimensions a matrix of these rows gets, static or not
make_static_mat(rows) == [h |-> Len(rows), w |-> max_row_len(rows)]

FromRows(o, rows) ==
    LET dims == make_static_mat(rows)
        entry == [c \in (0 .. dims.h - 1) \X (0 .. dims.w - 1) |-> assign_rows(rows, c[1], c[2])]
    IN Becomes(o, Filled(dims.h, dims.w, entry), Padded(rows), \E i \in DOMAIN rows : Len(rows[i]) > dims.w)

\* Copies are of static_mats: those of a mat do not compile, since cpy_mat_store asks
\* a constant store for a span to write through
CopyTo(o, from) ==
    /\ static
    /\ o # from /\ m_s[from] # NullStore
    /\ Becomes(o, m_s[from], means[from], FALSE)

\* A static_mat is copied when it is moved
MoveTo(o, from) ==
    /\ o # from /\ m_s[from] # NullStore
    /\ ops < MaxOps /\ ops' = ops + 1
    /\ m_s' = [m_s EXCEPT ![o] = m_s[from], ![from] = IF static THEN @ ELSE NullStore]
    /\ means' = [means EXCEPT ![o] = means[from], ![from] = IF static THEN @ ELSE <<>>]
    /\ UNCHANGED <<static, outside>>

\* The deleter of m_s destroys elements and store together; the object may be
\* constructed again
DestroyMat(o) ==
    /\ m_s[o] # NullStore
    /\ Becomes(o, NullStore, <<>>, FALSE)

\* An element is written by index or through the view of its row
WriteElement(o, i, j, v) ==
    /\ m_s[o] # NullStore /\ InRange(m_s[o], i, j)
    /\ Becomes(o, Written(m_s[o], i, j, v), [means[o] EXCEPT ![i + 1][j + 1] = v], FALSE)

-----------------------------------------------------------------------------
(* The operators.  What throws on a mismatch of the dimensions changes     *)
(* nothing.                                                                *)

SameDims(a, b) == a.h = b.h /\ a.w = b.w

\* operator+= and operator-=; b may be a itself, and is then read anew each time
Accumulated(a, b, alias, sign) ==
    LET Combined(x, y) == IF sign = 1 THEN x + y ELSE x - y
        Next(acc, i, j) ==
            Written(acc, i, j, Combined(Elem(acc, i, j), Elem(IF alias THEN acc ELSE b, i, j)))
        after[x \in 0 .. b.h * b.w] ==
            IF x = 0 THEN a ELSE Next(after[x - 1], Visited(b.w, x)[1], Visited(b.w, x)[2])
    IN after[b.h * b.w]

\* a is copied to `to` unless the operator works in place; operator- does not
\* compile, since it asks whether `a += b` throws for a constant a
Accumulate(to, a, b, sign) ==
    LET sa == m_s[a]
        sb == m_s[b]
    IN /\ sa # NullStore /\ sb # NullStore
       /\ to = a \/ (static /\ sign = 1)
       /\ SameDims(sa, sb)
       /\ Becomes(to, Accumulated(sa, sb, to = a /\ a = b, sign),
                  IF sign = 1 THEN Sum(means[a], means[b]) ELSE Difference(means[a], means[b]), FALSE)

\* The sum over k that both products compute
RowTimesColumn(a, b, i, j) == Total([k \in 1 .. a.w |-> Elem(a, i, k - 1) * Elem(b, k - 1, j)])

TimesInPlaceMutant(a, b, alias) ==
    LET Next(acc, i, j) == Written(acc, i, j, RowTimesColumn(acc, b, i, j))
        after[x \in 0 .. a.h * b.w] ==
            IF x = 0 THEN a ELSE Next(after[x - 1], Visited(b.w, x)[1], Visited(b.w, x)[2])
    IN after[a.h * b.w]

\* The row of a is replaced by the vector
RowReplaced(a, i, vec) ==
    LET after[j \in 0 .. Len(vec)] == IF j = 0 THEN a ELSE Written(after[j - 1], i, j - 1, vec[j])
    IN after[Len(vec)]

\* operator*=: row by row, through a vector as wide as b
TimesInPlace(a, b, alias) ==
    LET Next(acc, i) ==
            RowReplaced(acc, i, [j \in 1 .. b.w |-> RowTimesColumn(acc, IF alias THEN acc ELSE b, i, j - 1)])
        after[i \in 0 .. a.h] == IF i = 0 THEN a ELSE Next(after[i - 1], i - 1)
    IN after[a.h]

MultiplyBy(a, b) ==
    LET sa == m_s[a]
        sb == m_s[b]
    IN /\ sa # NullStore /\ sb # NullStore
       /\ sa.w = sb.h
       /\ a # b \/ Aliased
       /\ sb.w = sa.w \/ "*=" \in Rectangular
       /\ Becomes(a, TimesInPlace(sa, sb, a = b), Product(means[a], means[b]), sb.w > sa.w)

\* The loop over the columns of operator* ends at the height of the product
ColumnsVisited(h, w) == h

\* The body of the loops; a write that operator[] refuses shows in `outside`
Multiplied(a, b) ==
    LET n == ColumnsVisited(a.h, b.w)
        Next(acc, i, j) == IF j < b.w THEN Written(acc, i, j, RowTimesColumn(a, b, i, j)) ELSE acc
        after[x \in 0 .. a.h * n] ==
            IF x = 0 THEN Filled(a.h, b.w, zeros(a.h, b.w))
            ELSE Next(after[x - 1], Visited(n, x)[1], Visited(n, x)[2])
    IN after[a.h * n]

MultiplyTo(o, a, b) ==
    LET sa == m_s[a]
        sb == m_s[b]
    IN /\ ~static
       /\ sa # NullStore /\ sb # NullStore
       /\ sa.w = sb.h
       /\ sa.h = sb.w \/ "*" \in Rectangular
       /\ Becomes(o, Multiplied(sa, sb), Product(means[a], means[b]), ColumnsVisited(sa.h, sb.w) > sb.w)

-----------------------------------------------------------------------------
MatrixNext ==
    \/ \E o \in MatObj, h, w \in Dim : ZerosTo(o, h, w) \/ EyeTo(o, h, w)
    \/ \E o \in MatObj, rows \in RowLists : FromRows(o, rows)
    \/ \E o, from \in MatObj : CopyTo(o, from) \/ MoveTo(o, from)
    \/ \E o \in MatObj : DestroyMat(o)
    \/ \E o \in MatObj, i, j \in Dim : WriteElement(o, i - 1, j - 1, 2)
    \/ \E a, b, to \in MatObj, sign \in {1, -1} : Accumulate(to, a, b, sign)
    \/ \E a, b \in MatObj : MultiplyBy(a, b) \/ \E o \in MatObj : MultiplyTo(o, a, b)

MatrixSpec == MatrixInit /\ [][MatrixNext]_matrixVars

-----------------------------------------------------------------------------
(* Properties *)

\* No operation indexes past a row or a column: the assertions of operator[] and
\* of assign_rows hold.
AccessesInRange == ~outside

\* Every object has the dimensions and, by row and column, the elements of the
\* matrix that mathematics says it stands for, after any sequence of
\* constructions, moves, writes and operators, with operands that are the same
\* object, and with rows of different lengths, which are filled up with zeros.
ElementsAreRight ==
    \A o \in MatObj : m_s[o] # NullStore =>
        /\ m_s[o].h = Height(means[o]) /\ m_s[o].w = Breadth(means[o])
        /\ \A i \in 1 .. m_s[o].h, j \in 1 .. m_s[o].w : Elem(m_s[o], i - 1, j - 1) = means[o][i][j]
        /\ \A j \in 1 .. m_s[o].w : columns_view(m_s[o], j - 1) = [i \in 1 .. m_s[o].h |-> means[o][i][j]]

\* The operators compute the matrices of linear algebra within the bounds that
\* operator[] asserts.
MatrixAsMeant == AccessesInRange /\ ElementsAreRight
=============================================================================
