------------------------------- MODULE Layout -------------------------------
(***************************************************************************)
(* Where the objects lie that upp puts behind a header in one allocation:  *)
(* namespace fam of fam.hpp, and flexible.hpp.  A behaviour allocates one  *)
(* object of each kind after another; the model checks sizes and           *)
(* alignments that C++ types can have.                                     *)
(***************************************************************************)
EXTENDS Integers

CONSTANTS
    Align,      \* the alignments of types, powers of two: one divides the other
    MaxUnits,   \* bound on a size, as a multiple of its alignment
    MaxCount,   \* bound on the number of elements
    NewAlign    \* what operator new aligns to unless it is told more

ASSUME LayoutAssumption ==
    /\ Align \subseteq Nat \ {0}
    /\ MaxUnits \in Nat /\ MaxCount \in Nat /\ NewAlign \in Nat \ {0}
    /\ \A a, b \in Align \union {NewAlign} : a % b = 0 \/ b % a = 0

VARIABLES
    block,      \* the block: its address and its length; <<>> if there is none
    hdr, elem,  \* the types of the header and the elements
    how         \* "fam" or "flexible"

layoutVars == <<block, hdr, elem, how>>

\* A type; its size is a multiple of its alignment
Type == UNION {{[size |-> a * n, align |-> a] : n \in 1 .. MaxUnits} : a \in Align}

LayoutInit ==
    /\ block = <<>>
    /\ hdr \in Type /\ elem \in Type
    /\ how \in {"fam", "flexible"}

larger(a, b) == IF a > b THEN a ELSE b

-----------------------------------------------------------------------------
alignment == larger(hdr.align, elem.align)

OffsetMutant == hdr.size
\* offset_impl, and offsetof(layout, value): the header and the padding behind it
Offset ==
    LET over == hdr.size % elem.align
    IN IF over = 0 THEN hdr.size ELSE hdr.size + elem.align - over

required_bytes(n) == Offset + elem.size * n

\* sizeof(flexible), which is padded to the alignment of both types
FlexibleSize ==
    LET over == hdr.size % alignment
    IN IF over = 0 THEN hdr.size ELSE hdr.size + alignment - over

\* fam::alloc asks for the alignment, flexible::create takes what it gets
AllocAlign == IF how = "fam" THEN alignment ELSE NewAlign

Alloc(n) ==
    /\ block = <<>>
    /\ how = "flexible" => alignment <= NewAlign
    /\ \E base \in {AllocAlign, 3 * AllocAlign} :
          block' = [base |-> base, bytes |-> required_bytes(n), count |-> n]
    /\ UNCHANGED <<hdr, elem, how>>

\* get_fam and data()
Element(i) == block.base + Offset + elem.size * i

Dealloc ==
    /\ block # <<>>
    /\ block' = <<>>
    /\ UNCHANGED <<hdr, elem, how>>

LayoutNext == Dealloc \/ \E n \in 0 .. MaxCount : Alloc(n)

LayoutSpec == LayoutInit /\ [][LayoutNext]_layoutVars

-----------------------------------------------------------------------------
(* Properties *)

\* Header and elements are aligned as their types demand, do not overlap, and end
\* where the block ends; the constructor of a flexible, which clears the whole
\* object, does not write behind it.
LayoutIsSound ==
    block # <<>> =>
        /\ block.base % hdr.align = 0
        /\ block.base + hdr.size <= Element(0)
        /\ \A i \in 0 .. block.count - 1 : Element(i) % elem.align = 0
        /\ Element(block.count) = block.base + block.bytes
        /\ Element(0) < block.base + hdr.size + elem.align
        /\ how = "flexible" => FlexibleSize <= block.bytes
=============================================================================
