-------------------------------- MODULE Bits --------------------------------
(***************************************************************************)
(* upp::bitset and what is built on it or beside it: enum_set, enum_array, *)
(* bitmask and count_set_bits.  A behaviour is about one object of one of  *)
(* these types.  A byte, an integer or a flag is the set of its one bits.  *)
(***************************************************************************)
EXTENDS Integers, Sequences, FiniteSets, SequencesExt

CONSTANTS
    N,              \* the bits of a bitset
    MaxDigits,      \* the longest "0b" literal the program contains
    HexDigit,       \* the digits of its "0x" literals
    Enumerators,    \* the values of an enum, as they are declared
    Cell,           \* the elements of an enum_array
    ZeroCell,       \* a value initialized one
    Flag,           \* the enumerators of a flag enum
    Width,          \* the bits of its underlying type
    IntWidth        \* the bits of int

ASSUME BitsAssumption ==
    /\ N \in Nat /\ MaxDigits \in Nat
    /\ Width \in Nat \ {0} /\ IntWidth \in Nat \ {0}
    /\ HexDigit \subseteq SUBSET (0 .. 3)
    /\ Enumerators \in Seq(Int)
    /\ Flag \subseteq SUBSET (0 .. Width - 1)

VARIABLES
    kind,       \* the type of the object
    m_arr,      \* bitset::m_arr
    cells,      \* enum_array::m_arr
    m_v,        \* bitmask::m_v
    meant       \* history: what the program has stored, as a set of bits or
                \* enumerators, or a function on enumerators

bitsVars == <<kind, m_arr, cells, m_v, meant>>

BitsInByte == 8

bitset_size == IF kind = "bitset" THEN N ELSE Len(Enumerators)

Bytes(bits) == 0 .. bits \div BitsInByte

Zeros(bits) == [i \in Bytes(bits) |-> {}]

-----------------------------------------------------------------------------
(* The constructors of bitset; digits are counted from the last one *)

\* A one at position 8 is shifted out of its byte, and the byte after it begins
\* at bit 1
BinaryDigit(acc, digit) ==
    LET wraps == digit = 1 /\ acc.bit = BitsInByte
        arr   == IF digit = 1 /\ acc.bit < BitsInByte
                 THEN [acc.arr EXCEPT ![acc.byte] = @ \union {acc.bit}] ELSE acc.arr
    IN [arr  |-> arr,
        byte |-> IF wraps THEN acc.byte + 1 ELSE acc.byte,
        bit  |-> IF wraps THEN 1 ELSE acc.bit + 1]

FromBinary(digits) ==
    LET acc[n \in 0 .. Len(digits)] ==
            IF n = 0 THEN [arr |-> Zeros(N), byte |-> 0, bit |-> 0]
            ELSE BinaryDigit(acc[n - 1], digits[n])
    IN acc[Len(digits)].arr

HalfByte(acc, val) ==
    [arr  |-> [acc.arr EXCEPT ![acc.byte] = @ \union {b + (IF acc.top THEN 4 ELSE 0) : b \in val}],
     byte |-> IF acc.top THEN acc.byte + 1 ELSE acc.byte,
     top  |-> ~acc.top]

FromHex(digits) ==
    LET acc[n \in 0 .. Len(digits)] ==
            IF n = 0 THEN [arr |-> Zeros(N), byte |-> 0, top |-> FALSE]
            ELSE HalfByte(acc[n - 1], digits[n])
    IN acc[Len(digits)].arr

BitsInit ==
    /\ kind \in {"bitset", "enum_set", "enum_array", "bitmask"}
    /\ cells = [i \in 0 .. Len(Enumerators) - 1 |-> ZeroCell]
    /\ m_v = {}
    /\ \/ /\ kind # "bitset"
          /\ m_arr = Zeros(Len(Enumerators))
          /\ meant = IF kind = "enum_array" THEN [v \in Range(Enumerators) |-> ZeroCell] ELSE {}
       \/ /\ kind = "bitset"
          /\ \/ \E digits \in BoundedSeq({0, 1}, MaxDigits) :
                   /\ m_arr = FromBinary(digits)
                   /\ meant = {p - 1 : p \in {q \in DOMAIN digits : digits[q] = 1}}
             \/ \E digits \in BoundedSeq(HexDigit, 2 * Cardinality(Bytes(N))) :
                   /\ \A q \in DOMAIN digits : \A b \in digits[q] : 4 * (q - 1) + b < N
                   /\ m_arr = FromHex(digits)
                   /\ meant = UNION {{4 * (q - 1) + b : b \in digits[q]} : q \in DOMAIN digits}

-----------------------------------------------------------------------------
(* bitset *)

AnySet == \E i \in DOMAIN m_arr : m_arr[i] # {}

\* The last byte counts with all its bits, of which at most seven belong to the set
AllSet == \A i \in DOMAIN m_arr : m_arr[i] = 0 .. BitsInByte - 1

BitMutant(idx) == idx % BitsInByte \in m_arr[(idx + 1) \div BitsInByte]
Bit(idx) == idx % BitsInByte \in m_arr[idx \div BitsInByte]

\* index_proxy::operator=
Stored(idx, b) ==
    [m_arr EXCEPT ![idx \div BitsInByte] =
        IF b THEN @ \union {idx % BitsInByte} ELSE @ \ {idx % BitsInByte}]

SetBit(idx, b) ==
    /\ kind = "bitset"
    /\ m_arr' = Stored(idx, b)
    /\ meant' = IF b THEN meant \union {idx} ELSE meant \ {idx}
    /\ UNCHANGED <<kind, cells, m_v>>

\* A byte written through byte(), with bits of the set
WriteByte(i, val) ==
    /\ kind = "bitset"
    /\ \A b \in val : i * BitsInByte + b < N
    /\ m_arr' = [m_arr EXCEPT ![i] = val]
    /\ meant' = {p \in meant : p \div BitsInByte # i} \union {i * BitsInByte + b : b \in val}
    /\ UNCHANGED <<kind, cells, m_v>>

-----------------------------------------------------------------------------
(* enum_set and enum_array *)

EnumIndexMutant(v) == v % Len(Enumerators)
\* enum_index: the first enumerator with this value; two may have the same one
EnumIndex(v) ==
    (CHOOSE i \in DOMAIN Enumerators :
        Enumerators[i] = v /\ \A j \in 1 .. i - 1 : Enumerators[j] # v) - 1

Insert(v) ==
    /\ kind = "enum_set"
    /\ m_arr' = Stored(EnumIndex(v), TRUE)
    /\ meant' = meant \union {v}
    /\ UNCHANGED <<kind, cells, m_v>>

InSet(v) == Bit(EnumIndex(v))

\* operator[], also for each pair of make_enum_array
AssignCell(v, c) ==
    /\ kind = "enum_array"
    /\ cells' = [cells EXCEPT ![EnumIndex(v)] = c]
    /\ meant' = [meant EXCEPT ![v] = c]
    /\ UNCHANGED <<kind, m_arr, m_v>>

-----------------------------------------------------------------------------
(* bitmask *)

\* 1 << i of type int, as an operand beside a wider one: the sign is extended,
\* and the shift wraps around in practice where it is undefined
ShiftedOne(i) ==
    {i % IntWidth} \union (IF i % IntWidth = IntWidth - 1 THEN IntWidth .. Width - 1 ELSE {})

CountSetBitsMutant(t) == Cardinality({i \in 0 .. Width - 2 : t \intersect ShiftedOne(i) # {}})
CountSetBits(t) == Cardinality({i \in 0 .. Width - 1 : t \intersect ShiftedOne(i) # {}})

\* bitmask::any
MaskAny == m_v # {}

\* bitmask::all skips enumerators of several bits
MaskAll == \A r \in Flag : CountSetBits(r) = 1 => m_v \intersect r # {}

\* bm | e begins a new mask
BuildMask(e) ==
    /\ kind = "bitmask"
    /\ m_v' = e
    /\ meant' = {e}
    /\ UNCHANGED <<kind, m_arr, cells>>

Or(e) ==
    /\ kind = "bitmask"
    /\ m_v' = m_v \union e
    /\ meant' = meant \union {e}
    /\ UNCHANGED <<kind, m_arr, cells>>

And(e) ==
    /\ kind = "bitmask"
    /\ m_v' = m_v \intersect e
    /\ meant' = {m_v \intersect e}
    /\ UNCHANGED <<kind, m_arr, cells>>

-----------------------------------------------------------------------------
BitsNext ==
    \/ \E idx \in 0 .. N - 1, b \in BOOLEAN : SetBit(idx, b)
    \/ \E i \in Bytes(N), val \in {{}} \union SUBSET (0 .. (N % BitsInByte) - 1) : WriteByte(i, val)
    \/ \E v \in Range(Enumerators) : Insert(v) \/ \E c \in Cell : AssignCell(v, c)
    \/ \E e \in Flag : BuildMask(e) \/ Or(e) \/ And(e)

BitsSpec == BitsInit /\ [][BitsNext]_bitsVars

-----------------------------------------------------------------------------
(* Properties *)

\* A bitset holds the bits that were written, by literals of up to eight binary
\* or any number of hexadecimal digits, by index or by byte; any() and none()
\* see no bit that is not of the set, and all() is never too optimistic.
BitsAsWritten ==
    kind = "bitset" =>
        /\ \A idx \in 0 .. N - 1 : Bit(idx) <=> idx \in meant
        /\ AnySet <=> meant # {}
        /\ AllSet => meant = 0 .. N - 1

\* An enum_set contains the values that were inserted, and an enum_array gives
\* for each what was assigned last, whatever the values are: they need not begin
\* at zero, be dense or be distinct.
EnumsKeptApart ==
    /\ kind = "enum_set" =>
          /\ \A v \in Range(Enumerators) : InSet(v) <=> v \in meant
          /\ AnySet <=> meant # {}
    /\ kind = "enum_array" => \A v \in Range(Enumerators) : cells[EnumIndex(v)] = meant[v]

\* bitmask::all is true once every bit that a flag names on its own has been
\* set, by that flag or by one of several bits; any() is true when only bits of
\* flags of several bits are left.
AllFlagsSeen ==
    kind = "bitmask" =>
        /\ MaskAll <=> UNION {e \in Flag : Cardinality(e) = 1} \subseteq UNION meant
        /\ MaskAny <=> UNION meant # {}

\* Bitsets, enum sets, enum arrays and masks hold what was stored in them, at the
\* boundaries of bytes and for enums with gaps and repeated values, too.
BitsAsMeant == BitsAsWritten /\ EnumsKeptApart /\ AllFlagsSeen
=============================================================================
