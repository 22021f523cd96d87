-------------------------- MODULE ContainersProofs --------------------------
(***************************************************************************)
(* Proofs about ChunkQueue, RingBuffer and IntrusiveList, for containers   *)
(* of any size, any number of them and any elements.                       *)
(***************************************************************************)
EXTENDS ChunkQueue, RingBuffer, IntrusiveList, FiniteSetTheorems, SequenceTheorems,
        WellFoundedInduction, TLAPS

-----------------------------------------------------------------------------
(* ChunkQueue: its indices, also when the program drains the queue at the    *)
(* end of a chunk                                                            *)

\* Before the first push there is no chunk, and the first slot is the next
NoChunkYet == m_back = Null => m_front = Null /\ m_idx_end = 0

IndexInv == QueueTypeOK /\ NoChunkYet

-----------------------------------------------------------------------------
LEMMA InitIndex == QueueInit => IndexInv
<1> SUFFICES ASSUME QueueInit PROVE IndexInv
  OBVIOUS
<1>1. data \in [Chunk -> [Slot -> Value \union {Empty}]]
  BY DEF QueueInit
<1>2. 0 \in Slot /\ 0 \in 0 .. chunk_elements
  BY QueueAssumption DEF Slot
<1>3. heap \in [Chunk -> BOOLEAN] /\ next \in [Chunk -> Chunk \union {Null}]
  BY DEF QueueInit
<1> QED
  BY <1>1, <1>2, <1>3 DEF QueueInit, IndexInv, QueueTypeOK, NoChunkYet

\* The slot push writes to is one of the chunk
LEMMA PushSlotInChunk == IndexInv => PushSlot \in Slot
BY QueueAssumption DEF IndexInv, QueueTypeOK, NoChunkYet, PushSlot, Slot

LEMMA GrowIndex ==
    ASSUME IndexInv, NEW c \in Chunk, Grow(c)
    PROVE  /\ heap' \in [Chunk -> BOOLEAN]
           /\ next' \in [Chunk -> Chunk \union {Null}]
           /\ m_front' \in Chunk \union {Null}
           /\ m_back' \in Chunk
BY DEF IndexInv, QueueTypeOK, Grow

LEMMA PushIndex ==
    ASSUME IndexInv, NEW v \in Value, Push(v)
    PROVE  IndexInv'
<1>1. PICK c \in Chunk :
        /\ Grow(c)
        /\ data' = [data EXCEPT ![c][PushSlot] = v]
        /\ misused' = (misused \/ (m_back # Null /\ ~heap'[m_back])
                               \/ ~heap'[c] \/ data[c][PushSlot] # Empty)
  BY DEF Push
<1>2. PushSlot \in Slot
  BY PushSlotInChunk
<1>3. data' \in [Chunk -> [Slot -> Value \union {Empty}]]
  BY <1>1, <1>2 DEF IndexInv, QueueTypeOK
<1>4. misused' \in BOOLEAN
  BY <1>1
<1>5. m_idx_end' \in 0 .. chunk_elements
  BY <1>2, QueueAssumption DEF Push, EndAfter, Slot
<1>6. life' = life /\ m_idx_front' = m_idx_front
  BY DEF Push
<1>7. m_back' # Null
  BY <1>1, GrowIndex, QueueAssumption
<1> QED
  BY <1>1, <1>3, <1>4, <1>5, <1>6, <1>7, GrowIndex DEF IndexInv, QueueTypeOK, NoChunkYet

LEMMA PushThrowsIndex == IndexInv /\ PushThrows => IndexInv'
<1> SUFFICES ASSUME IndexInv, PushThrows PROVE IndexInv'
  OBVIOUS
<1>1. PICK c \in Chunk :
        /\ Grow(c)
        /\ misused' = (misused \/ (m_back # Null /\ ~heap'[m_back]) \/ ~heap'[c])
  BY DEF PushThrows
<1>2. m_idx_end' \in 0 .. chunk_elements
  BY PushSlotInChunk, QueueAssumption DEF PushThrows, EndAfterThrow, Slot
<1>3. /\ life' \in {"building", "alive", "gone", "abandoned"}
      /\ data' = data /\ m_idx_front' = m_idx_front
  BY DEF PushThrows, IndexInv, QueueTypeOK
<1>4. m_back' # Null
  BY <1>1, GrowIndex, QueueAssumption
<1>5. misused' \in BOOLEAN
  BY <1>1
<1> QED
  BY <1>1, <1>2, <1>3, <1>4, <1>5, GrowIndex DEF IndexInv, QueueTypeOK, NoChunkYet

LEMMA BuiltIndex == IndexInv /\ Built => IndexInv'
BY DEF IndexInv, QueueTypeOK, NoChunkYet, Built, chunks, members

\* A pop leaves the first chunk with an index that is a slot of the next one
LEMMA PopIndex == IndexInv /\ Pop => IndexInv'
<1> SUFFICES ASSUME IndexInv, Pop PROVE IndexInv'
  OBVIOUS
<1>1. m_front \in Chunk /\ m_back # Null
  BY DEF IndexInv, QueueTypeOK, NoChunkYet, Pop, empty
<1>2. data' \in [Chunk -> [Slot -> Value \union {Empty}]]
  BY <1>1 DEF IndexInv, QueueTypeOK, Pop
<1>3. misused' \in BOOLEAN
  BY DEF Pop, IndexInv, QueueTypeOK
<1>4. /\ m_front' \in Chunk \union {Null}
      /\ heap' \in [Chunk -> BOOLEAN]
      /\ next' \in [Chunk -> Chunk \union {Null}]
  BY <1>1 DEF IndexInv, QueueTypeOK, Pop
<1>5. m_idx_front' \in Slot
  <2>1. CASE m_idx_front + 1 = chunk_elements
    BY <2>1, QueueAssumption DEF Pop, FrontAfter, Slot
  <2>2. CASE m_idx_front + 1 # chunk_elements
    BY <2>2, QueueAssumption DEF Pop, Slot, IndexInv, QueueTypeOK
  <2> QED BY <2>1, <2>2
<1>6. life' = life /\ m_back' = m_back /\ m_idx_end' = m_idx_end
  BY DEF Pop
<1> QED
  BY <1>1, <1>2, <1>3, <1>4, <1>5, <1>6 DEF IndexInv, QueueTypeOK, NoChunkYet

LEMMA DestroyIndex == IndexInv /\ QueueDestroy => IndexInv'
<1> SUFFICES ASSUME IndexInv, QueueDestroy PROVE IndexInv'
  OBVIOUS
<1>1. data' \in [Chunk -> [Slot -> Value \union {Empty}]]
  BY DEF QueueDestroy, IndexInv, QueueTypeOK
<1>2. heap' \in [Chunk -> BOOLEAN] /\ misused' \in BOOLEAN
  BY DEF QueueDestroy, IndexInv, QueueTypeOK
<1>3. life' = "gone" /\ UNCHANGED <<next, members>>
  BY DEF QueueDestroy
<1> QED
  BY <1>1, <1>2, <1>3 DEF IndexInv, QueueTypeOK, NoChunkYet, members

LEMMA NextIndex == IndexInv /\ [QueueNext]_queueVars => IndexInv'
<1> SUFFICES ASSUME IndexInv, [QueueNext]_queueVars PROVE IndexInv'
  OBVIOUS
<1>1. CASE UNCHANGED queueVars
  BY <1>1 DEF queueVars, chunks, members, IndexInv, QueueTypeOK, NoChunkYet
<1>2. CASE \E v \in Value : Push(v)
  BY <1>2, PushIndex
<1>3. CASE PushThrows \/ Built \/ Pop \/ QueueDestroy
  BY <1>3, PushThrowsIndex, BuiltIndex, PopIndex, DestroyIndex
<1> QED
  BY <1>1, <1>2, <1>3 DEF QueueNext

\* Whatever the program does, at the ends of the chunks and through throwing
\* copies, m_idx_front is a slot and m_idx_end at most one past the last: push
\* and pop of queue.hpp never index past the array of a chunk.
THEOREM IndicesInChunk == QueueSpec => []QueueTypeOK
<1>1. IndexInv => QueueTypeOK
  BY DEF IndexInv
<1> QED
  BY <1>1, InitIndex, NextIndex, PTL DEF QueueSpec

-----------------------------------------------------------------------------
(* The remainders RingBuffer wraps its indices with *)

LEMMA DivMod ==
    ASSUME NEW a \in Nat, NEW c \in Nat \ {0}
    PROVE  \E q \in Nat, r \in 0 .. c - 1 : a = (c * q) + r /\ r = a % c
<1>1. a = (c * (a \div c)) + (a % c) /\ a % c \in 0 .. c - 1 /\ a \div c \in Nat
  OBVIOUS
<1> QED
  BY <1>1

\* Two multiples of c that are less than c apart are the same
LEMMA SameMultiple ==
    ASSUME NEW c \in Nat \ {0}, NEW p \in Int, NEW q \in Int,
           c * (q - p) < c, c * (q - p) > -c
    PROVE  p = q
<1>1. CASE q - p >= 1
  <2>1. c * (q - p) >= c
    BY <1>1
  <2> QED
    BY <2>1
<1>2. CASE q - p <= -1
  <2>1. c * (q - p) <= -c
    BY <1>2
  <2> QED
    BY <2>1
<1> QED
  BY <1>1, <1>2

LEMMA SameRemainder ==
    ASSUME NEW c \in Nat \ {0}, NEW p \in Nat, NEW q \in Nat,
           NEW r \in 0 .. c - 1, NEW s \in 0 .. c - 1, (c * p) + r = (c * q) + s
    PROVE  p = q /\ r = s
<1>1. c * (q - p) = c * q - c * p /\ c * p \in Int /\ c * q \in Int
  OBVIOUS
<1>2. c * (q - p) = r - s
  BY <1>1
<1>3. p = q
  BY <1>2, SameMultiple
<1> QED
  BY <1>1, <1>2, <1>3

\* A whole turn later is the same place
LEMMA ModWrap ==
    ASSUME NEW a \in Nat, NEW c \in Nat \ {0}
    PROVE  (a + c) % c = a % c
<1>1. PICK p \in Nat, r \in 0 .. c - 1 : a = (c * p) + r /\ r = a % c
  BY DivMod
<1>2. a + c \in Nat
  OBVIOUS
<1>3. PICK q \in Nat, s \in 0 .. c - 1 : a + c = (c * q) + s /\ s = (a + c) % c
  BY <1>2, DivMod
<1>4. c * (p + 1) = c * p + c /\ c * p \in Int
  OBVIOUS
<1>5. (c * (p + 1)) + r = (c * q) + s /\ p + 1 \in Nat
  BY <1>1, <1>3, <1>4
<1>6. r = s
  BY <1>5, SameRemainder
<1> QED
  BY <1>1, <1>3, <1>6

\* Within one turn every place is met once
LEMMA ModInjective ==
    ASSUME NEW c \in Nat \ {0}, NEW a \in Nat, NEW b \in Nat,
           a <= b, b < a + c, a % c = b % c
    PROVE  a = b
<1>1. PICK p \in Nat, r \in 0 .. c - 1 : a = (c * p) + r /\ r = a % c
  BY DivMod
<1>2. PICK q \in Nat, s \in 0 .. c - 1 : b = (c * q) + s /\ s = b % c
  BY DivMod
<1>3. c * (q - p) = c * q - c * p /\ c * p \in Int /\ c * q \in Int
  OBVIOUS
<1>4. c * (q - p) = b - a
  BY <1>1, <1>2, <1>3
<1>5. p = q
  BY <1>4, SameMultiple
<1> QED
  BY <1>1, <1>2, <1>5

-----------------------------------------------------------------------------
(* One block of a ring buffer *)

HeaderOK(h) ==
    /\ h \in [capacity : Nat, offset : Nat, count : Nat]
    /\ h.capacity > 0 /\ h.count <= h.capacity

\* The slot of element j, the oldest being element 0
Place(h, j) == (h.offset + j) % h.capacity

SlotsOf(h) == 0 .. h.capacity - 1

Elements(h) == 0 .. h.count - 1

\* An element lives in the slots the header counts, and in no other
BlockOK(h, s) ==
    /\ HeaderOK(h)
    /\ s \in [SlotsOf(h) -> Item \union {NoItem}]
    /\ \A j \in Elements(h) : s[Place(h, j)] # NoItem
    /\ \A i \in SlotsOf(h) : s[i] # NoItem => \E j \in Elements(h) : i = Place(h, j)

\* The elements of a block in order
Order(h, s) == [i \in 1 .. h.count |-> s[(h.offset + i - 1) % h.capacity]]

LEMMA PlaceIsSlot ==
    ASSUME NEW h, HeaderOK(h), NEW j \in Nat
    PROVE  Place(h, j) \in SlotsOf(h)
BY DEF HeaderOK, Place, SlotsOf

LEMMA PlaceInjective ==
    ASSUME NEW h, HeaderOK(h), NEW i \in SlotsOf(h), NEW j \in SlotsOf(h),
           Place(h, i) = Place(h, j)
    PROVE  i = j
<1>1. /\ h.capacity \in Nat \ {0} /\ h.offset + i \in Nat /\ h.offset + j \in Nat
      /\ h.offset \in Nat /\ i \in Nat /\ j \in Nat /\ i < h.capacity /\ j < h.capacity
  BY DEF HeaderOK, SlotsOf
<1>2. (h.offset + i) % h.capacity = (h.offset + j) % h.capacity
  BY DEF Place
<1>3. CASE i <= j
  <2>1. h.offset + i <= h.offset + j /\ h.offset + j < (h.offset + i) + h.capacity
    BY <1>1, <1>3
  <2>2. h.offset + i = h.offset + j
    BY <1>1, <1>2, <2>1, ModInjective
  <2> QED
    BY <1>1, <2>2
<1>4. CASE j <= i
  <2>1. h.offset + j <= h.offset + i /\ h.offset + i < (h.offset + j) + h.capacity
    BY <1>1, <1>4
  <2>2. h.offset + j = h.offset + i
    BY <1>1, <1>2, <2>1, ModInjective
  <2> QED
    BY <1>1, <2>2
<1> QED
  BY <1>1, <1>3, <1>4

LEMMA PlaceWraps ==
    ASSUME NEW h, HeaderOK(h)
    PROVE  Place(h, h.capacity) = Place(h, 0)
<1>1. h.capacity \in Nat \ {0} /\ h.offset \in Nat
  BY DEF HeaderOK
<1>2. (h.offset + h.capacity) % h.capacity = h.offset % h.capacity
  BY <1>1, ModWrap
<1> QED
  BY <1>1, <1>2 DEF Place

\* The elements in order are those at their places
LEMMA OrderByPlace ==
    ASSUME NEW h, NEW s, BlockOK(h, s)
    PROVE  /\ Order(h, s) \in Seq(Item \union {NoItem})
           /\ Len(Order(h, s)) = h.count
           /\ \A i \in 1 .. h.count : Order(h, s)[i] = s[Place(h, i - 1)]
<1>1. h.count \in Nat /\ h.offset \in Nat
  BY DEF BlockOK, HeaderOK
<1>2. ASSUME NEW i \in 1 .. h.count
      PROVE  /\ Order(h, s)[i] = s[Place(h, i - 1)]
             /\ Order(h, s)[i] \in Item \union {NoItem}
  <2>1. h.offset + i - 1 = h.offset + (i - 1) /\ i - 1 \in Nat
    BY <1>1
  <2>2. Order(h, s)[i] = s[Place(h, i - 1)]
    BY <2>1 DEF Order, Place
  <2> QED
    BY <2>1, <2>2, PlaceIsSlot DEF BlockOK
<1>3. Order(h, s) \in [1 .. h.count -> Item \union {NoItem}]
  BY <1>2 DEF Order
<1>4. Order(h, s) \in Seq(Item \union {NoItem})
  BY <1>1, <1>3, SeqDef
<1>5. Len(Order(h, s)) = h.count
  BY <1>1, <1>3
<1> QED
  BY <1>2, <1>4, <1>5

\* With slots and header as a push or a pop leaves them
LEMMA PushRoom ==
    ASSUME NEW h, NEW s, BlockOK(h, s), h.count < h.capacity, NEW v \in Item,
           NEW g, g = [capacity |-> h.capacity, offset |-> h.offset, count |-> h.count + 1],
           NEW t, t = [i \in SlotsOf(h) |-> IF i = Place(h, h.count) THEN v ELSE s[i]]
    PROVE  /\ s[Place(h, h.count)] = NoItem
           /\ BlockOK(g, t)
           /\ Order(g, t) = Append(Order(h, s), v)
<1>1. /\ h \in [capacity : Nat, offset : Nat, count : Nat]
      /\ h.count \in Nat /\ h.capacity \in Nat /\ HeaderOK(h)
  BY DEF BlockOK, HeaderOK
<1>2. /\ g.count = h.count + 1 /\ g.capacity = h.capacity /\ g.offset = h.offset
      /\ HeaderOK(g)
  BY <1>1 DEF HeaderOK
<1>3. /\ SlotsOf(g) = SlotsOf(h) /\ \A j : Place(g, j) = Place(h, j)
      /\ Elements(g) = Elements(h) \union {h.count} /\ h.count \notin Elements(h)
      /\ h.count \in SlotsOf(h) /\ Elements(h) \subseteq SlotsOf(h)
  BY <1>1, <1>2 DEF SlotsOf, Place, Elements
<1>4. Place(h, h.count) \in SlotsOf(h)
  BY <1>1, PlaceIsSlot
<1>5. \A j \in Elements(h) : Place(h, j) # Place(h, h.count)
  <2> SUFFICES ASSUME NEW j \in Elements(h), Place(h, j) = Place(h, h.count) PROVE FALSE
    OBVIOUS
  <2>1. j = h.count
    BY <1>1, <1>3, PlaceInjective
  <2> QED
    BY <1>3, <2>1
<1>6. s[Place(h, h.count)] = NoItem
  BY <1>4, <1>5 DEF BlockOK
<1>7. t \in [SlotsOf(g) -> Item \union {NoItem}]
  BY <1>3 DEF BlockOK
<1>8. v # NoItem
  BY RingAssumption
<1>9. \A j \in Elements(g) : t[Place(g, j)] # NoItem
  <2> TAKE j \in Elements(g)
  <2>1. CASE j = h.count
    BY <1>3, <1>4, <1>8, <2>1
  <2>2. CASE j \in Elements(h)
    <3>1. Place(h, j) \in SlotsOf(h)
      BY <1>1, <1>3, <2>2, PlaceIsSlot DEF Elements
    <3> QED
      BY <1>3, <1>5, <2>2, <3>1 DEF BlockOK
  <2> QED
    BY <1>3, <2>1, <2>2
<1>10. \A i \in SlotsOf(g) : t[i] # NoItem => \E j \in Elements(g) : i = Place(g, j)
  <2> SUFFICES ASSUME NEW i \in SlotsOf(g), t[i] # NoItem
               PROVE  \E j \in Elements(g) : i = Place(g, j)
    OBVIOUS
  <2>1. CASE i = Place(h, h.count)
    BY <1>3, <2>1
  <2>2. CASE i # Place(h, h.count)
    BY <1>3, <2>2 DEF BlockOK
  <2> QED
    BY <2>1, <2>2
<1>11. BlockOK(g, t)
  BY <1>2, <1>7, <1>9, <1>10 DEF BlockOK
<1>12. ASSUME NEW i \in 1 .. h.count + 1
       PROVE  Order(g, t)[i] = Append(Order(h, s), v)[i]
  <2>1. Order(g, t)[i] = t[Place(h, i - 1)] /\ i - 1 \in Elements(g) /\ i - 1 \in Nat
    <3>1. i \in 1 .. g.count /\ i - 1 \in Elements(g) /\ i - 1 \in Nat
      BY <1>1, <1>2 DEF Elements
    <3>2. Order(g, t)[i] = t[Place(g, i - 1)]
      BY <1>11, <3>1, OrderByPlace
    <3> QED
      BY <1>3, <3>1, <3>2
  <2>2. Place(h, i - 1) \in SlotsOf(h)
    BY <1>1, <2>1, PlaceIsSlot
  <2>3. CASE i = h.count + 1
    <3>1. i - 1 = h.count
      BY <1>1, <2>3
    <3>2. Append(Order(h, s), v)[i] = v
      BY <2>3, OrderByPlace, AppendProperties
    <3> QED
      BY <2>1, <2>2, <3>1, <3>2
  <2>4. CASE i # h.count + 1
    <3>1. i - 1 \in Elements(h) /\ i \in 1 .. h.count
      BY <1>1, <1>2, <2>4 DEF Elements
    <3>2. Append(Order(h, s), v)[i] = s[Place(h, i - 1)]
      BY <3>1, OrderByPlace, AppendProperties
    <3>3. Place(h, i - 1) # Place(h, h.count)
      BY <1>5, <3>1
    <3> QED
      BY <2>1, <2>2, <3>2, <3>3
  <2> QED
    BY <2>3, <2>4
<1>13. Order(g, t) = Append(Order(h, s), v)
  <2> DEFINE S == Item \union {NoItem}
  <2>1. Order(g, t) \in Seq(S) /\ Len(Order(g, t)) = g.count
    BY <1>11, OrderByPlace
  <2>2. Order(h, s) \in Seq(S) /\ Len(Order(h, s)) = h.count
    BY OrderByPlace
  <2>3. v \in S
    OBVIOUS
  <2> HIDE DEF S
  <2>4. Append(Order(h, s), v) \in Seq(S) /\ Len(Append(Order(h, s), v)) = h.count + 1
    BY <2>2, <2>3, AppendProperties
  <2> QED
    BY <1>2, <1>12, <2>1, <2>4, SeqEqual
<1> QED
  BY <1>6, <1>11, <1>13

\* The element after the newest takes the place of the oldest
LEMMA PushOver ==
    ASSUME NEW h, NEW s, BlockOK(h, s), h.count = h.capacity, NEW v \in Item,
           NEW g, g = [capacity |-> h.capacity, offset |-> h.offset + 1, count |-> h.count],
           NEW t, t = [i \in SlotsOf(h) |-> IF i = Place(h, h.count) THEN v ELSE s[i]]
    PROVE  /\ s[Place(h, h.count)] # NoItem
           /\ BlockOK(g, t)
           /\ Order(g, t) = Append(Tail(Order(h, s)), v)
<1>1. /\ h \in [capacity : Nat, offset : Nat, count : Nat]
      /\ h.count \in Nat /\ h.capacity \in Nat /\ h.capacity > 0 /\ h.offset \in Nat
      /\ HeaderOK(h)
  BY DEF BlockOK, HeaderOK
<1>2. /\ g.count = h.count /\ g.capacity = h.capacity /\ g.offset = h.offset + 1
      /\ HeaderOK(g)
  BY <1>1 DEF HeaderOK
<1>3. /\ SlotsOf(g) = SlotsOf(h) /\ Elements(g) = Elements(h) /\ Elements(h) = SlotsOf(h)
      /\ 0 \in Elements(h) /\ h.count - 1 \in Elements(h) /\ Elements(h) \subseteq Nat
  BY <1>1, <1>2 DEF SlotsOf, Elements
<1>4. ASSUME NEW j \in Nat PROVE Place(g, j) = Place(h, j + 1)
  <2>1. (h.offset + 1) + j = h.offset + (j + 1)
    BY <1>1
  <2> QED
    BY <1>2, <2>1 DEF Place
<1>5. Place(h, h.count) = Place(h, 0) /\ Place(h, 0) \in SlotsOf(h)
  BY <1>1, PlaceWraps, PlaceIsSlot
<1>6. s[Place(h, h.count)] # NoItem
  BY <1>3, <1>5 DEF BlockOK
<1>7. t \in [SlotsOf(g) -> Item \union {NoItem}]
  BY <1>3 DEF BlockOK
<1>8. v # NoItem
  BY RingAssumption
<1>9. ASSUME NEW j \in Elements(g)
      PROVE  /\ Place(g, j) \in SlotsOf(h)
             /\ j = h.count - 1 => t[Place(g, j)] = v
             /\ j # h.count - 1 => /\ j + 1 \in Elements(h)
                                   /\ t[Place(g, j)] = s[Place(h, j + 1)]
  <2>1. j \in Nat /\ j + 1 \in Nat
    BY <1>3
  <2>2. Place(g, j) = Place(h, j + 1) /\ Place(g, j) \in SlotsOf(h)
    BY <1>1, <1>4, <2>1, PlaceIsSlot
  <2>3. CASE j = h.count - 1
    <3>1. j + 1 = h.count
      BY <1>1, <2>3
    <3> QED
      BY <2>2, <2>3, <3>1
  <2>4. CASE j # h.count - 1
    <3>1. j + 1 \in Elements(h) /\ j + 1 # 0
      BY <1>1, <1>2, <2>4 DEF Elements
    <3>2. Place(h, j + 1) # Place(h, 0)
      BY <1>1, <1>3, <3>1, PlaceInjective
    <3> QED
      BY <1>5, <2>2, <2>4, <3>1, <3>2
  <2> QED
    BY <2>3, <2>4
<1>10. \A j \in Elements(g) : t[Place(g, j)] # NoItem
  BY <1>8, <1>9 DEF BlockOK
<1>11. \A i \in SlotsOf(g) : t[i] # NoItem => \E j \in Elements(g) : i = Place(g, j)
  <2> SUFFICES ASSUME NEW i \in SlotsOf(g), t[i] # NoItem
               PROVE  \E j \in Elements(g) : i = Place(g, j)
    OBVIOUS
  <2>1. CASE i = Place(h, h.count)
    <3>1. h.count - 1 \in Nat /\ (h.count - 1) + 1 = h.count
      BY <1>1, <1>3
    <3>2. i = Place(g, h.count - 1)
      BY <1>4, <2>1, <3>1
    <3> QED
      BY <1>3, <3>2
  <2>2. CASE i # Place(h, h.count)
    <3>1. PICK j \in Elements(h) : i = Place(h, j)
      BY <1>3, <2>2 DEF BlockOK
    <3>2. j # 0
      BY <1>5, <2>2, <3>1
    <3>3. j - 1 \in Elements(g) /\ j - 1 \in Nat /\ (j - 1) + 1 = j
      BY <1>1, <1>3, <3>2 DEF Elements
    <3>4. i = Place(g, j - 1)
      BY <1>4, <3>1, <3>3
    <3> QED
      BY <3>3, <3>4
  <2> QED
    BY <2>1, <2>2
<1>12. BlockOK(g, t)
  BY <1>2, <1>7, <1>10, <1>11 DEF BlockOK
<1> DEFINE S == Item \union {NoItem}
<1>13. /\ Order(g, t) \in Seq(S) /\ Len(Order(g, t)) = h.count
       /\ Order(h, s) \in Seq(S) /\ Len(Order(h, s)) = h.count /\ Order(h, s) # << >>
       /\ v \in S
  BY <1>1, <1>2, <1>12, OrderByPlace, EmptySeq
<1> HIDE DEF S
<1>14. /\ Tail(Order(h, s)) \in Seq(S) /\ Len(Tail(Order(h, s))) = h.count - 1
       /\ \A i \in 1 .. h.count - 1 : Tail(Order(h, s))[i] = Order(h, s)[i + 1]
  BY <1>13, HeadTailProperties
<1> DEFINE after == Append(Tail(Order(h, s)), v)
<1>15. /\ after \in Seq(S) /\ Len(after) = (h.count - 1) + 1 /\ after[(h.count - 1) + 1] = v
       /\ \A i \in 1 .. h.count - 1 : after[i] = Order(h, s)[i + 1]
  BY <1>13, <1>14, AppendProperties
<1> HIDE DEF after
<1>16. ASSUME NEW i \in 1 .. h.count
       PROVE  Order(g, t)[i] = after[i]
  <2>1. Order(g, t)[i] = t[Place(g, i - 1)] /\ i - 1 \in Elements(g)
    BY <1>1, <1>2, <1>12, OrderByPlace DEF Elements
  <2>2. CASE i = h.count
    <3>1. i - 1 = h.count - 1 /\ (h.count - 1) + 1 = i
      BY <1>1, <2>2
    <3>2. t[Place(g, i - 1)] = v
      BY <1>9, <2>1, <3>1
    <3> QED
      BY <1>15, <2>1, <3>1, <3>2
  <2>3. CASE i # h.count
    <3>1. i \in 1 .. h.count - 1 /\ i + 1 \in 1 .. h.count /\ i - 1 # h.count - 1
          /\ (i - 1) + 1 = i /\ (i + 1) - 1 = i
      BY <1>1, <2>3
    <3>2. Order(h, s)[i + 1] = s[Place(h, (i + 1) - 1)]
      BY <3>1, OrderByPlace
    <3>3. t[Place(g, i - 1)] = s[Place(h, (i - 1) + 1)]
      BY <1>9, <2>1, <3>1
    <3> QED
      BY <1>15, <2>1, <3>1, <3>2, <3>3
  <2> QED
    BY <2>2, <2>3
<1>17. Len(after) = h.count
  BY <1>1, <1>15
<1>18. Order(g, t) = after
  BY <1>13, <1>15, <1>16, <1>17, SeqEqual
<1> QED
  BY <1>6, <1>12, <1>18 DEF after

\* On the first lap the oldest element is where pop looks for it
LEMMA PopOldest ==
    ASSUME NEW h, NEW s, BlockOK(h, s), h.count > 0, h.offset < h.capacity,
           NEW g, g = [capacity |-> h.capacity, offset |-> h.offset + 1, count |-> h.count - 1],
           NEW t, t = [i \in SlotsOf(h) |-> IF i = h.offset THEN NoItem ELSE s[i]]
    PROVE  /\ h.offset \in SlotsOf(h) /\ s[h.offset] # NoItem
           /\ BlockOK(g, t)
           /\ Order(h, s) # << >> /\ Order(g, t) = Tail(Order(h, s))
<1>1. /\ h \in [capacity : Nat, offset : Nat, count : Nat]
      /\ h.count \in Nat /\ h.capacity \in Nat /\ h.capacity > 0 /\ h.offset \in Nat
      /\ h.count <= h.capacity /\ HeaderOK(h)
  BY DEF BlockOK, HeaderOK
<1>2. /\ g.count = h.count - 1 /\ g.capacity = h.capacity /\ g.offset = h.offset + 1
      /\ HeaderOK(g)
  BY <1>1 DEF HeaderOK
<1>3. /\ SlotsOf(g) = SlotsOf(h)
      /\ 0 \in Elements(h) /\ 0 \in SlotsOf(h) /\ Elements(h) \subseteq SlotsOf(h)
      /\ \A j \in Elements(g) : j \in Nat /\ j + 1 \in Elements(h) /\ j + 1 # 0
  BY <1>1, <1>2 DEF SlotsOf, Elements
<1>4. ASSUME NEW j \in Nat PROVE Place(g, j) = Place(h, j + 1)
  <2>1. (h.offset + 1) + j = h.offset + (j + 1)
    BY <1>1
  <2> QED
    BY <1>2, <2>1 DEF Place
<1>5. Place(h, 0) = h.offset /\ h.offset \in SlotsOf(h)
  <2>1. h.offset + 0 = h.offset /\ h.offset % h.capacity = h.offset
    BY <1>1
  <2> QED
    BY <1>1, <2>1 DEF Place, SlotsOf
<1>6. s[h.offset] # NoItem
  BY <1>3, <1>5 DEF BlockOK
<1>7. t \in [SlotsOf(g) -> Item \union {NoItem}]
  BY <1>3 DEF BlockOK
<1>8. ASSUME NEW j \in Elements(g)
      PROVE  /\ Place(g, j) \in SlotsOf(h)
             /\ t[Place(g, j)] = s[Place(h, j + 1)]
  <2>1. Place(g, j) = Place(h, j + 1) /\ Place(g, j) \in SlotsOf(h)
    BY <1>1, <1>3, <1>4, PlaceIsSlot
  <2>2. Place(h, j + 1) # Place(h, 0)
    BY <1>1, <1>3, PlaceInjective
  <2> QED
    BY <1>5, <2>1, <2>2
<1>9. \A j \in Elements(g) : t[Place(g, j)] # NoItem
  BY <1>3, <1>8 DEF BlockOK
<1>10. \A i \in SlotsOf(g) : t[i] # NoItem => \E j \in Elements(g) : i = Place(g, j)
  <2> SUFFICES ASSUME NEW i \in SlotsOf(g), t[i] # NoItem
               PROVE  \E j \in Elements(g) : i = Place(g, j)
    OBVIOUS
  <2>1. i # h.offset /\ s[i] # NoItem
    BY <1>3
  <2>2. PICK j \in Elements(h) : i = Place(h, j)
    BY <1>3, <2>1 DEF BlockOK
  <2>3. j # 0
    BY <1>5, <2>1, <2>2
  <2>4. j - 1 \in Elements(g) /\ j - 1 \in Nat /\ (j - 1) + 1 = j
    BY <1>1, <1>2, <2>3 DEF Elements
  <2>5. i = Place(g, j - 1)
    BY <1>4, <2>2, <2>4
  <2> QED
    BY <2>4, <2>5
<1>11. BlockOK(g, t)
  BY <1>2, <1>7, <1>9, <1>10 DEF BlockOK
<1> DEFINE S == Item \union {NoItem}
<1>12. /\ Order(g, t) \in Seq(S) /\ Len(Order(g, t)) = h.count - 1
       /\ Order(h, s) \in Seq(S) /\ Len(Order(h, s)) = h.count /\ Order(h, s) # << >>
  <2>1. Order(g, t) \in Seq(S) /\ Len(Order(g, t)) = g.count
    BY <1>11, OrderByPlace
  <2>2. Order(h, s) \in Seq(S) /\ Len(Order(h, s)) = h.count
    BY OrderByPlace
  <2>3. Order(h, s) # << >>
    BY <1>1, <2>2, EmptySeq
  <2> QED
    BY <1>2, <2>1, <2>2, <2>3
<1> HIDE DEF S
<1>13. /\ Tail(Order(h, s)) \in Seq(S) /\ Len(Tail(Order(h, s))) = h.count - 1
       /\ \A i \in 1 .. h.count - 1 : Tail(Order(h, s))[i] = Order(h, s)[i + 1]
  BY <1>12, HeadTailProperties
<1>14. ASSUME NEW i \in 1 .. h.count - 1
       PROVE  Order(g, t)[i] = Tail(Order(h, s))[i]
  <2>1. Order(g, t)[i] = t[Place(g, i - 1)] /\ i - 1 \in Elements(g)
    <3>1. i \in 1 .. g.count /\ i - 1 \in Elements(g)
      BY <1>1, <1>2 DEF Elements
    <3> QED
      BY <1>11, <3>1, OrderByPlace
  <2>2. i + 1 \in 1 .. h.count /\ (i - 1) + 1 = i /\ (i + 1) - 1 = i
    BY <1>1
  <2>3. Order(h, s)[i + 1] = s[Place(h, (i + 1) - 1)]
    BY <2>2, OrderByPlace
  <2>4. t[Place(g, i - 1)] = s[Place(h, (i - 1) + 1)]
    BY <1>8, <2>1
  <2> QED
    BY <1>13, <2>1, <2>2, <2>3, <2>4
<1>15. Order(g, t) = Tail(Order(h, s))
  BY <1>12, <1>13, <1>14, SeqEqual
<1> QED
  BY <1>5, <1>6, <1>11, <1>12, <1>15

-----------------------------------------------------------------------------
(* The buffers *)

\* What a theorem about RingBuffer supposes of the program: constructors of
\* elements do not throw, elements are taken out on the first lap only, and no
\* buffer is assigned to itself
FirstLapOnly == Constructs \subseteq {TRUE} /\ ~SecondLap /\ ~SelfMoves

RingTypes ==
    /\ m_dat \in [Buf -> Block \union {NoBlock}]
    /\ header \in [Block -> [capacity : Nat, offset : Nat, count : Nat]]
    /\ slots = [k \in Block |-> slots[k]]
    /\ allocated \subseteq Block
    /\ corrupted = FALSE

BlocksOK ==
    /\ \A k \in allocated : BlockOK(header[k], slots[k])
    /\ \A k \in Block \ allocated : header[k] = Fresh

OwnersOK ==
    /\ \A b \in Buf : m_dat[b] # NoBlock => m_dat[b] \in allocated
    /\ \A b, c \in Buf : m_dat[b] = m_dat[c] /\ m_dat[b] # NoBlock => b = c
    /\ \A k \in allocated : \E b \in Buf : m_dat[b] = k

RingInv == RingTypes /\ BlocksOK /\ OwnersOK

LEMMA RingInvSound ==
    ASSUME RingInv
    PROVE  RingIsSound
<1>1. ASSUME NEW k \in Block PROVE header[k].count <= header[k].capacity
  <2>1. CASE k \in allocated
    BY <2>1 DEF RingInv, BlocksOK, BlockOK, HeaderOK
  <2>2. CASE k \notin allocated
    BY <2>2 DEF RingInv, BlocksOK, Fresh
  <2> QED
    BY <2>1, <2>2
<1>2. ASSUME NEW k \in allocated PROVE Cardinality({b \in Buf : m_dat[b] = k}) = 1
  <2>1. PICK b \in Buf : m_dat[b] = k
    BY DEF RingInv, OwnersOK
  <2>2. k # NoBlock
    BY RingAssumption DEF RingInv, RingTypes
  <2>3. {c \in Buf : m_dat[c] = k} = {b}
    BY <2>1, <2>2 DEF RingInv, OwnersOK
  <2> QED
    BY <2>3, FS_Singleton
<1>3. RingTypeOK
  BY <1>1 DEF RingInv, RingTypes, RingTypeOK
<1>4. RingNotCorrupted
  BY DEF RingInv, RingTypes, RingNotCorrupted
<1>5. OneOwner
  BY <1>2 DEF RingInv, OwnersOK, OneOwner
<1> QED
  BY <1>3, <1>4, <1>5 DEF RingIsSound

\* The elements and the capacity of a block, as Recent sees them
Items(k) == IF k \in allocated THEN Order(header[k], slots[k]) ELSE << >>
Room(k)  == IF k \in allocated THEN header[k].capacity ELSE 0

LEMMA PromiseOf ==
    ASSUME NEW k \in Block
    PROVE  /\ Promise(k)!Init <=> Items(k) = << >> /\ Room(k) = 0
           /\ Promise(k)!Step <=>
                \/ \E c \in Capacity : Room(k) = 0 /\ Room(k)' = c /\ Items(k)' = << >>
                \/ \E v \in Item :
                      /\ Room(k) # 0 /\ Room(k)' = Room(k)
                      /\ Items(k)' =
                           Append(IF Len(Items(k)) = Room(k) THEN Tail(Items(k)) ELSE Items(k), v)
                \/ Items(k) # << >> /\ Items(k)' = Tail(Items(k)) /\ Room(k)' = Room(k)
                \/ Room(k) # 0 /\ Room(k)' = 0 /\ Items(k)' = << >>
                \/ Items(k)' = Items(k) /\ Room(k)' = Room(k)
<1>1. Promise(k)!Init <=> Items(k) = << >> /\ Room(k) = 0
  BY DEF Promise!Init, Items, Room, Kept, Order
<1>2. Promise(k)!Step <=>
        \/ \E c \in Capacity : Room(k) = 0 /\ Room(k)' = c /\ Items(k)' = << >>
        \/ \E v \in Item :
              /\ Room(k) # 0 /\ Room(k)' = Room(k)
              /\ Items(k)' =
                   Append(IF Len(Items(k)) = Room(k) THEN Tail(Items(k)) ELSE Items(k), v)
        \/ Items(k) # << >> /\ Items(k)' = Tail(Items(k)) /\ Room(k)' = Room(k)
        \/ Room(k) # 0 /\ Room(k)' = 0 /\ Items(k)' = << >>
        \/ Items(k)' = Items(k) /\ Room(k)' = Room(k)
  BY DEF Promise!Step, Promise!Next, Promise!Open, Promise!Put, Promise!Take, Promise!Close,
     Items, Room, Kept, Order
<1> QED
  BY <1>1, <1>2

\* A step of a buffer, and what it is to each block
RingStep == RingInv' /\ \A k \in Block : Promise(k)!Step

LEMMA OnlyOneBlock ==
    ASSUME RingInv, NEW k \in Block, Promise(k)!Step,
           \A o \in Block \ {k} : /\ o \in allocated' <=> o \in allocated
                                  /\ header'[o] = header[o] /\ slots'[o] = slots[o]
    PROVE  \A o \in Block : Promise(o)!Step
<1> SUFFICES ASSUME NEW o \in Block, o # k PROVE Promise(o)!Step
  OBVIOUS
<1>1. Items(o)' = Items(o) /\ Room(o)' = Room(o)
  BY DEF Items, Room, Order
<1> QED
  BY <1>1, PromiseOf

LEMMA CreateStep ==
    ASSUME RingInv, NEW b \in Buf, NEW n \in Capacity, RingCreate(b, n)
    PROVE  RingStep
<1>1. PICK k \in Block \ allocated :
          /\ allocated' = allocated \union {k}
          /\ m_dat' = [m_dat EXCEPT ![b] = k]
          /\ header' = [header EXCEPT ![k] = [Fresh EXCEPT !.capacity = n]]
          /\ slots' = [slots EXCEPT ![k] = [i \in 0 .. n - 1 |-> NoItem]]
  BY DEF RingCreate
<1>2. m_dat[b] = NoBlock /\ corrupted' = corrupted
  BY DEF RingCreate
<1>3. n \in Nat /\ n > 0
  BY RingAssumption
<1>4. k # NoBlock /\ k \notin allocated
  BY RingAssumption
<1> DEFINE h == [capacity |-> n, offset |-> 0, count |-> 0]
           s == [i \in 0 .. n - 1 |-> NoItem]
<1>5. h = [Fresh EXCEPT !.capacity = n]
  BY DEF Fresh
<1>6. h \in [capacity : Nat, offset : Nat, count : Nat]
  BY <1>3
<1>7. HeaderOK(h)
  BY <1>3, <1>6 DEF HeaderOK
<1>8. SlotsOf(h) = 0 .. n - 1 /\ Elements(h) = {}
  BY <1>3 DEF SlotsOf, Elements
<1>9. BlockOK(h, s)
  BY <1>7, <1>8 DEF BlockOK
<1>10. h.count = 0 /\ h.capacity = n
  OBVIOUS
<1> HIDE DEF h, s
<1>11. /\ Order(h, s) \in Seq(Item \union {NoItem}) /\ Len(Order(h, s)) = 0
  BY <1>9, <1>10, OrderByPlace
<1>12. Order(h, s) = << >>
  BY <1>11, EmptySeq
<1>13. /\ header'[k] = h /\ \A o \in Block \ {k} : header'[o] = header[o]
       /\ header' \in [Block -> [capacity : Nat, offset : Nat, count : Nat]]
  BY <1>1, <1>5, <1>6 DEF RingInv, RingTypes
<1>14. /\ slots'[k] = s /\ \A o \in Block \ {k} : slots'[o] = slots[o]
       /\ slots' = [o \in Block |-> slots'[o]]
  BY <1>1 DEF RingInv, RingTypes, s
<1>15. RingTypes'
  BY <1>1, <1>2, <1>13, <1>14 DEF RingInv, RingTypes
<1>16. BlocksOK'
  <2>1. \A o \in allocated' : BlockOK(header'[o], slots'[o])
    BY <1>1, <1>9, <1>13, <1>14 DEF RingInv, RingTypes, BlocksOK
  <2>2. \A o \in Block \ allocated' : header'[o] = Fresh
    BY <1>1, <1>13 DEF RingInv, BlocksOK
  <2> QED
    BY <2>1, <2>2 DEF BlocksOK
<1>17. OwnersOK'
  <2>1. m_dat'[b] = k /\ \A c \in Buf \ {b} : m_dat'[c] = m_dat[c]
    BY <1>1 DEF RingInv, RingTypes
  <2>2. \A c \in Buf \ {b} : m_dat'[c] # k
    BY <1>4, <2>1 DEF RingInv, OwnersOK
  <2>3. \A c \in Buf : m_dat'[c] # NoBlock => m_dat'[c] \in allocated'
    BY <1>1, <2>1 DEF RingInv, OwnersOK
  <2>4. \A c, d \in Buf : m_dat'[c] = m_dat'[d] /\ m_dat'[c] # NoBlock => c = d
    BY <2>1, <2>2 DEF RingInv, OwnersOK
  <2>5. \A o \in allocated' : \E c \in Buf : m_dat'[c] = o
    <3> TAKE o \in allocated'
    <3>1. CASE o = k
      BY <2>1, <3>1
    <3>2. CASE o # k
      <4>1. PICK c \in Buf : m_dat[c] = o
        BY <1>1, <3>2 DEF RingInv, OwnersOK
      <4>2. c # b
        BY <1>1, <1>2, <3>2, <4>1, RingAssumption DEF RingInv, RingTypes
      <4> QED
        BY <2>1, <4>1, <4>2
    <3> QED
      BY <3>1, <3>2
  <2> QED
    BY <2>3, <2>4, <2>5 DEF OwnersOK
<1>18. Room(k) = 0 /\ Room(k)' = n /\ Items(k)' = << >>
  BY <1>1, <1>4, <1>10, <1>12, <1>13, <1>14 DEF Room, Items
<1>19. Promise(k)!Step
  BY <1>18, PromiseOf
<1> QED
  BY <1>1, <1>13, <1>14, <1>15, <1>16, <1>17, <1>19, OnlyOneBlock DEF RingStep, RingInv

\* The block of b goes, and the others stay
LEMMA ReleaseStep ==
    ASSUME RingInv, NEW b \in Buf, Release(b)
    PROVE  /\ \A k \in Block : Promise(k)!Step
           /\ BlocksOK'
           /\ header' \in [Block -> [capacity : Nat, offset : Nat, count : Nat]]
           /\ slots' = [k \in Block |-> slots'[k]]
           /\ corrupted' = FALSE
           /\ allocated' = allocated \ {m_dat[b]}
<1>1. /\ allocated' = allocated \ Released(b)
      /\ header' = [k \in Block |-> IF k \in Released(b) THEN Fresh ELSE header[k]]
      /\ slots' = [k \in Block |-> IF k \in Released(b) THEN <<>> ELSE slots[k]]
      /\ corrupted' = (corrupted \/ ~(Released(b) \subseteq allocated))
  BY DEF Release
<1>2. Released(b) \subseteq allocated /\ corrupted = FALSE
  BY DEF Released, RingInv, RingTypes, OwnersOK
<1>3. NoBlock \notin allocated
  BY RingAssumption DEF RingInv, RingTypes
<1>4. allocated' = allocated \ {m_dat[b]}
  BY <1>1, <1>3 DEF Released
<1>5. corrupted' = FALSE
  BY <1>1, <1>2
<1>6. Fresh \in [capacity : Nat, offset : Nat, count : Nat]
  BY DEF Fresh
<1>7. header' \in [Block -> [capacity : Nat, offset : Nat, count : Nat]]
  BY <1>1, <1>6 DEF RingInv, RingTypes
<1>8. slots' = [k \in Block |-> slots'[k]]
  BY <1>1
<1>9. BlocksOK'
  <2>1. \A k \in allocated' : BlockOK(header'[k], slots'[k])
    <3> TAKE k \in allocated'
    <3>1. k \in allocated /\ k \in Block /\ header'[k] = header[k] /\ slots'[k] = slots[k]
      BY <1>1 DEF RingInv, RingTypes
    <3> QED
      BY <3>1 DEF RingInv, BlocksOK
  <2>2. \A k \in Block \ allocated' : header'[k] = Fresh
    BY <1>1 DEF RingInv, BlocksOK
  <2> QED
    BY <2>1, <2>2 DEF BlocksOK
<1>10. ASSUME NEW k \in Block PROVE Promise(k)!Step
  <2>1. CASE k \in Released(b)
    <3>1. k \in allocated /\ k \notin allocated'
      BY <1>1, <1>2, <2>1
    <3>2. Room(k) # 0
      BY <3>1 DEF Room, RingInv, BlocksOK, BlockOK, HeaderOK
    <3>3. Room(k)' = 0 /\ Items(k)' = << >>
      BY <3>1 DEF Room, Items
    <3> QED
      BY <3>2, <3>3, PromiseOf
  <2>2. CASE k \notin Released(b)
    <3>1. /\ k \in allocated' <=> k \in allocated
          /\ header'[k] = header[k] /\ slots'[k] = slots[k]
      BY <1>1, <2>2
    <3>2. Items(k)' = Items(k) /\ Room(k)' = Room(k)
      BY <3>1 DEF Items, Room, Order
    <3> QED
      BY <3>2, PromiseOf
  <2> QED
    BY <2>1, <2>2
<1> QED
  BY <1>4, <1>5, <1>7, <1>8, <1>9, <1>10

LEMMA DestroyStep ==
    ASSUME RingInv, NEW b \in Buf, RingDestroy(b)
    PROVE  RingStep
<1>1. Release(b) /\ m_dat' = [m_dat EXCEPT ![b] = NoBlock]
  BY DEF RingDestroy
<1>2. /\ \A k \in Block : Promise(k)!Step
      /\ BlocksOK'
      /\ header' \in [Block -> [capacity : Nat, offset : Nat, count : Nat]]
      /\ slots' = [k \in Block |-> slots'[k]]
      /\ corrupted' = FALSE
      /\ allocated' = allocated \ {m_dat[b]}
  BY <1>1, ReleaseStep
<1>3. m_dat'[b] = NoBlock /\ \A c \in Buf \ {b} : m_dat'[c] = m_dat[c]
  BY <1>1 DEF RingInv, RingTypes
<1>4. RingTypes'
  BY <1>1, <1>2 DEF RingInv, RingTypes
<1>5. OwnersOK'
  BY <1>2, <1>3 DEF RingInv, OwnersOK
<1> QED
  BY <1>2, <1>4, <1>5 DEF RingStep, RingInv

LEMMA MoveStep ==
    ASSUME RingInv, FirstLapOnly, NEW b \in Buf, NEW other \in Buf, RingMove(b, other)
    PROVE  RingStep
<1>1. /\ Release(b) /\ b # other
      /\ m_dat' = [[m_dat EXCEPT ![other] = NoBlock] EXCEPT ![b] = m_dat[other]]
  BY DEF RingMove, Exchanged, FirstLapOnly
<1>2. /\ \A k \in Block : Promise(k)!Step
      /\ BlocksOK'
      /\ header' \in [Block -> [capacity : Nat, offset : Nat, count : Nat]]
      /\ slots' = [k \in Block |-> slots'[k]]
      /\ corrupted' = FALSE
      /\ allocated' = allocated \ {m_dat[b]}
  BY <1>1, ReleaseStep
<1>3. /\ m_dat'[b] = m_dat[other] /\ m_dat'[other] = NoBlock
      /\ \A c \in Buf \ {b, other} : m_dat'[c] = m_dat[c]
      /\ m_dat' \in [Buf -> Block \union {NoBlock}]
  BY <1>1 DEF RingInv, RingTypes
<1>4. RingTypes'
  BY <1>2, <1>3 DEF RingInv, RingTypes
<1>5. OwnersOK'
  <2>1. \A c \in Buf : m_dat'[c] # NoBlock => m_dat'[c] \in allocated'
    BY <1>1, <1>2, <1>3 DEF RingInv, OwnersOK
  <2>2. \A c, d \in Buf : m_dat'[c] = m_dat'[d] /\ m_dat'[c] # NoBlock => c = d
    BY <1>1, <1>3 DEF RingInv, OwnersOK
  <2>3. \A k \in allocated' : \E c \in Buf : m_dat'[c] = k
    <3> TAKE k \in allocated'
    <3>1. PICK c \in Buf : m_dat[c] = k
      BY <1>2 DEF RingInv, OwnersOK
    <3>2. c # b
      BY <1>2, <3>1
    <3>3. CASE c = other
      BY <1>3, <3>1, <3>3
    <3>4. CASE c # other
      BY <1>3, <3>1, <3>2, <3>4
    <3> QED
      BY <3>3, <3>4
  <2> QED
    BY <2>1, <2>2, <2>3 DEF OwnersOK
<1> QED
  BY <1>2, <1>4, <1>5 DEF RingStep, RingInv

\* An operation on the elements leaves the blocks with their owners
LEMMA ElementStep ==
    ASSUME RingInv, NEW k \in allocated, NEW h, NEW s, BlockOK(h, s),
           header' = [header EXCEPT ![k] = h],
           slots' = [slots EXCEPT ![k] = s],
           corrupted' = FALSE, UNCHANGED <<m_dat, allocated>>,
           Promise(k)!Step
    PROVE  RingStep
<1>1. k \in Block /\ h \in [capacity : Nat, offset : Nat, count : Nat]
  BY DEF RingInv, RingTypes, BlockOK, HeaderOK
<1>2. /\ header'[k] = h /\ slots'[k] = s
      /\ \A o \in Block \ {k} : header'[o] = header[o] /\ slots'[o] = slots[o]
      /\ header' \in [Block -> [capacity : Nat, offset : Nat, count : Nat]]
      /\ slots' = [o \in Block |-> slots'[o]]
  BY <1>1 DEF RingInv, RingTypes
<1>3. RingTypes'
  BY <1>2 DEF RingInv, RingTypes
<1>4. BlocksOK'
  <2>1. \A o \in allocated : BlockOK(header'[o], slots'[o])
    <3> TAKE o \in allocated
    <3>1. CASE o = k
      BY <1>2, <3>1
    <3>2. CASE o # k
      <4>1. o \in Block \ {k}
        BY <3>2 DEF RingInv, RingTypes
      <4> QED
        BY <1>2, <4>1 DEF RingInv, BlocksOK
    <3> QED
      BY <3>1, <3>2
  <2>2. \A o \in Block \ allocated : header'[o] = Fresh
    BY <1>2 DEF RingInv, BlocksOK
  <2> QED
    BY <2>1, <2>2 DEF BlocksOK
<1>5. OwnersOK'
  BY DEF RingInv, OwnersOK
<1>6. \A o \in Block : Promise(o)!Step
  BY <1>1, <1>2, OnlyOneBlock
<1> QED
  BY <1>3, <1>4, <1>5, <1>6 DEF RingStep, RingInv

\* The block of a buffer
LEMMA BlockOf ==
    ASSUME RingInv, NEW b \in Buf, m_dat[b] # NoBlock
    PROVE  /\ m_dat[b] \in allocated /\ m_dat[b] \in Block
           /\ BlockOK(header[m_dat[b]], slots[m_dat[b]])
           /\ DOMAIN slots[m_dat[b]] = SlotsOf(header[m_dat[b]])
           /\ Items(m_dat[b]) = Order(header[m_dat[b]], slots[m_dat[b]])
           /\ Room(m_dat[b]) = header[m_dat[b]].capacity
<1>1. m_dat[b] \in allocated /\ m_dat[b] \in Block
  BY DEF RingInv, RingTypes, OwnersOK
<1>2. BlockOK(header[m_dat[b]], slots[m_dat[b]])
  BY <1>1 DEF RingInv, BlocksOK
<1>3. DOMAIN slots[m_dat[b]] = SlotsOf(header[m_dat[b]])
  BY <1>2 DEF BlockOK
<1> QED
  BY <1>1, <1>2, <1>3 DEF Items, Room

LEMMA PushStep ==
    ASSUME RingInv, FirstLapOnly, NEW b \in Buf, NEW v \in Item, RingPush(b, v)
    PROVE  RingStep
<1>1. m_dat[b] # NoBlock
  BY DEF RingPush
<1>2. PICK k \in Block : k = m_dat[b]
  BY <1>1, BlockOf
<1>3. PICK h : h = header[k]
  OBVIOUS
<1>4. PICK s : s = slots[k]
  OBVIOUS
<1>5. /\ k \in allocated /\ BlockOK(h, s) /\ DOMAIN s = SlotsOf(h)
      /\ Items(k) = Order(h, s) /\ Room(k) = h.capacity
  BY <1>1, <1>2, <1>3, <1>4, BlockOf
<1>6. /\ h \in [capacity : Nat, offset : Nat, count : Nat] /\ h.capacity > 0
      /\ h.count <= h.capacity
  BY <1>5 DEF BlockOK, HeaderOK
<1>7. WriteIndex(h) = Place(h, h.count) /\ Place(h, h.count) \in DOMAIN s
  <2>1. HeaderOK(h) /\ h.count \in Nat
    BY <1>5, <1>6 DEF BlockOK
  <2> QED
    BY <1>5, <2>1, PlaceIsSlot DEF WriteIndex, Place
<1>8. PICK g : g = HeaderAfterPush(h)
  OBVIOUS
<1>9. PICK t : t = [i \in SlotsOf(h) |-> IF i = Place(h, h.count) THEN v ELSE s[i]]
  OBVIOUS
<1>10. /\ header' = [header EXCEPT ![k] = g]
       /\ corrupted' = (corrupted \/ k \notin allocated \/ Place(h, h.count) \notin DOMAIN s
                                  \/ (s[Place(h, h.count)] = NoItem) = Full(h))
       /\ UNCHANGED <<m_dat, allocated>>
  BY <1>2, <1>3, <1>4, <1>7, <1>8 DEF RingPush
<1>11. slots' = [slots EXCEPT ![k] = t]
  <2>1. PICK ok \in Constructs :
          slots' = [slots EXCEPT ![k] =
                      [i \in DOMAIN @ |-> IF i = WriteIndex(h) THEN IF ok THEN v ELSE NoItem
                                          ELSE @[i]]]
    BY <1>2, <1>3 DEF RingPush
  <2>2. ok = TRUE
    BY DEF FirstLapOnly
  <2> QED
    BY <1>4, <1>5, <1>7, <1>9, <2>1, <2>2
<1>12. header'[k] = g /\ slots'[k] = t
  BY <1>10, <1>11 DEF RingInv, RingTypes
<1>13. Items(k)' = Order(g, t) /\ Room(k)' = g.capacity
  BY <1>5, <1>10, <1>12 DEF Items, Room
<1>14. Len(Order(h, s)) = h.count
  BY <1>5, OrderByPlace
<1>15. corrupted = FALSE
  BY DEF RingInv, RingTypes
<1>16. CASE h.count = h.capacity
  <2>1. Full(h) /\ g = [capacity |-> h.capacity, offset |-> h.offset + 1, count |-> h.count]
    BY <1>6, <1>8, <1>16 DEF HeaderAfterPush, Full
  <2>2. /\ s[Place(h, h.count)] # NoItem /\ BlockOK(g, t)
        /\ Order(g, t) = Append(Tail(Order(h, s)), v)
    BY <1>5, <1>9, <1>16, <2>1, PushOver
  <2>3. corrupted' = FALSE
    BY <1>5, <1>7, <1>10, <1>15, <2>1, <2>2
  <2>4. Items(k)' = Append(Tail(Items(k)), v) /\ Room(k)' = Room(k)
    BY <1>5, <1>13, <2>1, <2>2
  <2>5. Promise(k)!Step
    BY <1>5, <1>6, <1>14, <1>16, <2>4, PromiseOf
  <2> QED
    BY <1>5, <1>10, <1>11, <2>2, <2>3, <2>5, ElementStep
<1>17. CASE h.count # h.capacity
  <2>1. ~Full(h) /\ g = [capacity |-> h.capacity, offset |-> h.offset, count |-> h.count + 1]
    BY <1>6, <1>8, <1>17 DEF HeaderAfterPush, Full
  <2>2. h.count < h.capacity
    BY <1>6, <1>17
  <2>3. /\ s[Place(h, h.count)] = NoItem /\ BlockOK(g, t)
        /\ Order(g, t) = Append(Order(h, s), v)
    BY <1>5, <1>9, <2>1, <2>2, PushRoom
  <2>4. corrupted' = FALSE
    BY <1>5, <1>7, <1>10, <1>15, <2>1, <2>3
  <2>5. Items(k)' = Append(Items(k), v) /\ Room(k)' = Room(k)
    BY <1>5, <1>13, <2>1, <2>3
  <2>6. Promise(k)!Step
    BY <1>5, <1>6, <1>14, <1>17, <2>5, PromiseOf
  <2> QED
    BY <1>5, <1>10, <1>11, <2>3, <2>4, <2>6, ElementStep
<1> QED
  BY <1>16, <1>17

LEMMA PopStep ==
    ASSUME RingInv, FirstLapOnly, NEW b \in Buf, RingPop(b)
    PROVE  RingStep
<1>1. m_dat[b] # NoBlock /\ header[m_dat[b]].count # 0
  BY DEF RingPop, RingSize
<1>2. PICK k \in Block : k = m_dat[b]
  BY <1>1, BlockOf
<1>3. PICK h : h = header[k]
  OBVIOUS
<1>4. PICK s : s = slots[k]
  OBVIOUS
<1>5. /\ k \in allocated /\ BlockOK(h, s) /\ DOMAIN s = SlotsOf(h)
      /\ Items(k) = Order(h, s) /\ Room(k) = h.capacity
  BY <1>1, <1>2, <1>3, <1>4, BlockOf
<1>6. h \in [capacity : Nat, offset : Nat, count : Nat] /\ h.count > 0
  BY <1>1, <1>2, <1>3, <1>5 DEF BlockOK, HeaderOK
<1>7. h.offset < h.capacity
  BY <1>2, <1>3 DEF RingPop, OnFirstLap, FirstLapOnly
<1>8. PICK g : g = [capacity |-> h.capacity, offset |-> h.offset + 1, count |-> h.count - 1]
  OBVIOUS
<1>9. PICK t : t = [i \in SlotsOf(h) |-> IF i = h.offset THEN NoItem ELSE s[i]]
  OBVIOUS
<1>10. /\ header' = [header EXCEPT ![k].offset = @ + 1, ![k].count = h.count - 1]
       /\ slots' = [slots EXCEPT ![k] =
                      [i \in DOMAIN @ |-> IF i = h.offset THEN NoItem ELSE @[i]]]
       /\ corrupted' = (corrupted \/ k \notin allocated \/ h.offset \notin DOMAIN s
                                  \/ s[h.offset] = NoItem)
       /\ UNCHANGED <<m_dat, allocated>>
  BY <1>2, <1>3, <1>4 DEF RingPop, CountAfterPop
<1>11. header' = [header EXCEPT ![k] = g]
  <2>1. header' = [header EXCEPT ![k] = [[h EXCEPT !.offset = h.offset + 1] EXCEPT !.count = h.count - 1]]
    BY <1>3, <1>10 DEF RingInv, RingTypes
  <2>2. [[h EXCEPT !.offset = h.offset + 1] EXCEPT !.count = h.count - 1] = g
    <3>1. PICK n : n = [h EXCEPT !.offset = h.offset + 1]
      OBVIOUS
    <3>2. n = [capacity |-> h.capacity, offset |-> h.offset + 1, count |-> h.count]
      BY <1>6, <3>1
    <3>3. n \in [capacity : Nat, offset : Nat, count : Nat]
      BY <1>6, <3>2
    <3>4. [n EXCEPT !.count = h.count - 1] = g
      BY <1>8, <3>2, <3>3
    <3> QED
      BY <3>1, <3>4
  <2> QED
    BY <2>1, <2>2
<1>12. slots' = [slots EXCEPT ![k] = t]
  BY <1>4, <1>5, <1>9, <1>10
<1>13. /\ h.offset \in SlotsOf(h) /\ s[h.offset] # NoItem
       /\ BlockOK(g, t)
       /\ Order(h, s) # << >> /\ Order(g, t) = Tail(Order(h, s))
  <2>1. BlockOK(h, s) /\ h.count > 0
    BY <1>5, <1>6
  <2> QED
    BY <1>7, <1>8, <1>9, <2>1, PopOldest
<1>14. corrupted' = FALSE
  BY <1>5, <1>10, <1>13 DEF RingInv, RingTypes
<1>15. header'[k] = g /\ slots'[k] = t
  BY <1>11, <1>12 DEF RingInv, RingTypes
<1>16. Items(k)' = Order(g, t) /\ Room(k)' = g.capacity
  BY <1>5, <1>10, <1>15 DEF Items, Room
<1>17. g.capacity = h.capacity
  BY <1>8
<1>18. Promise(k)!Step
  BY <1>5, <1>13, <1>16, <1>17, PromiseOf
<1> QED
  BY <1>5, <1>10, <1>11, <1>12, <1>13, <1>14, <1>18, ElementStep

LEMMA RingBegin == RingInit => RingInv /\ \A k \in Block : Promise(k)!Init
<1> SUFFICES ASSUME RingInit PROVE RingInv /\ \A k \in Block : Promise(k)!Init
  OBVIOUS
<1>1. Fresh \in [capacity : Nat, offset : Nat, count : Nat]
  BY DEF Fresh
<1>2. RingInv
  BY <1>1 DEF RingInit, RingInv, RingTypes, BlocksOK, OwnersOK
<1>3. \A k \in Block : Items(k) = << >> /\ Room(k) = 0
  BY DEF RingInit, Items, Room
<1> QED
  BY <1>2, <1>3, PromiseOf

LEMMA RingInvariance ==
    ASSUME FirstLapOnly, RingInv, [RingNext]_ringVars
    PROVE  RingStep
<1>1. CASE UNCHANGED ringVars
  <2>1. UNCHANGED <<m_dat, header, slots, allocated, corrupted>>
    BY <1>1 DEF ringVars
  <2>2. RingInv'
    BY <2>1 DEF RingInv, RingTypes, BlocksOK, OwnersOK
  <2>3. \A k \in Block : Items(k)' = Items(k) /\ Room(k)' = Room(k)
    BY <2>1 DEF Items, Room, Order
  <2> QED
    BY <2>2, <2>3, PromiseOf DEF RingStep
<1>2. ASSUME NEW b \in Buf, NEW n \in Capacity, RingCreate(b, n) PROVE RingStep
  BY <1>2, CreateStep
<1>3. ASSUME NEW b \in Buf, RingDestroy(b) \/ RingPop(b) PROVE RingStep
  BY <1>3, DestroyStep, PopStep
<1>4. ASSUME NEW b \in Buf, NEW other \in Buf, RingMove(b, other) PROVE RingStep
  BY <1>4, MoveStep
<1>5. ASSUME NEW b \in Buf, NEW v \in Item, RingPush(b, v) PROVE RingStep
  BY <1>5, PushStep
<1> QED
  BY <1>1, <1>2, <1>3, <1>4, <1>5 DEF RingNext

\* For buffers of any capacity, any number of them and any elements: counts,
\* slots and blocks stay sound through pushes that wrap around and overwrite,
\* pops, moves and destructions, if the program stays on the first lap, no
\* element throws and no buffer is assigned to itself.
THEOREM RingSound == FirstLapOnly => (RingSpec => []RingIsSound)
<1> SUFFICES ASSUME FirstLapOnly PROVE RingSpec => []RingIsSound
  OBVIOUS
<1>1. RingInit => RingInv
  BY RingBegin
<1>2. RingInv /\ [RingNext]_ringVars => RingInv'
  BY RingInvariance DEF RingStep
<1>3. RingInv => RingIsSound
  BY RingInvSound
<1> QED
  BY <1>1, <1>2, <1>3, PTL DEF RingSpec

\* And each buffer implements Recent: it keeps the newest elements, as many as
\* it has room for, and gives them back in order.
THEOREM RingKeepsNewest == FirstLapOnly => (RingSpec => KeepsNewest)
<1> SUFFICES ASSUME FirstLapOnly PROVE RingSpec => KeepsNewest
  OBVIOUS
<1>1. RingInit => RingInv /\ \A k \in Block : Promise(k)!Init
  BY RingBegin
<1>2. RingInv /\ [RingNext]_ringVars => RingInv' /\ \A k \in Block : Promise(k)!Step
  BY RingInvariance DEF RingStep
<1> QED
  BY <1>1, <1>2, PTL DEF RingSpec, KeepsNewest

-----------------------------------------------------------------------------
(* Chains of links *)

\* Any set of naturals has a least one: what proofs by induction rest on
LEMMA Least ==
    ASSUME NEW T, T \subseteq Nat, T # {}
    PROVE  \E x \in T : x \in Nat /\ \A y \in Nat : y < x => y \notin T
<1> DEFINE R == OpToRel(<, Nat)
<1>1. IsWellFoundedOn(R, Nat)
  BY NatLessThanWellFounded
<1>2. \A x, y \in Nat : y < x => <<y, x>> \in R
  BY DEF OpToRel
<1> HIDE DEF R
<1>3. PICK x \in T : \A y \in T : <<y, x>> \notin R
  BY <1>1, WFMin
<1> QED
  BY <1>2, <1>3

\* w follows the links nx from a, for n steps, up to the end of the chain
Follows(w, a, nx, nil, n) ==
    w = [i \in 0 .. n |-> IF i = 0 THEN a
                          ELSE IF w[i - 1] = nil THEN nil ELSE nx[w[i - 1]]]

\* The walk itself, as Step of IntrusiveList defines it
Walk(a, nx, nil, n) ==
    LET at[i \in 0 .. n] ==
            IF i = 0 THEN a
            ELSE IF at[i - 1] = nil THEN nil ELSE nx[at[i - 1]]
    IN at

LEMMA WalkExists ==
    ASSUME NEW a, NEW nx, NEW nil, NEW n \in Nat
    PROVE  \E w : Follows(w, a, nx, nil, n)
<1> DEFINE T == {m \in Nat : ~ \E w : Follows(w, a, nx, nil, m)}
<1>1. SUFFICES ASSUME T # {} PROVE FALSE
  OBVIOUS
<1>2. PICK m \in T : m \in Nat /\ \A y \in Nat : y < m => y \notin T
  <2> HIDE DEF T
  <2>1. T \subseteq Nat
    BY DEF T
  <2> QED
    BY <1>1, <2>1, Least
<1>3. CASE m = 0
  <2>1. PICK w : w = [i \in 0 .. 0 |-> a]
    OBVIOUS
  <2>2. Follows(w, a, nx, nil, 0)
    BY <2>1 DEF Follows
  <2> QED
    BY <1>2, <1>3, <2>2
<1>4. CASE m # 0
  <2>1. m - 1 \in Nat /\ m - 1 < m
    BY <1>2, <1>4
  <2>2. PICK v : Follows(v, a, nx, nil, m - 1)
    BY <1>2, <2>1
  <2>3. PICK w : w = [i \in 0 .. m |-> IF i = m
                        THEN IF v[m - 1] = nil THEN nil ELSE nx[v[m - 1]] ELSE v[i]]
    OBVIOUS
  <2>4. \A i \in 0 .. m - 1 : w[i] = v[i]
    BY <1>2, <2>1, <2>3
  <2>5. \A i \in 0 .. m - 1 :
          v[i] = IF i = 0 THEN a ELSE IF v[i - 1] = nil THEN nil ELSE nx[v[i - 1]]
    BY <2>2 DEF Follows
  <2>6. \A i \in 0 .. m :
          w[i] = IF i = 0 THEN a ELSE IF w[i - 1] = nil THEN nil ELSE nx[w[i - 1]]
    <3> TAKE i \in 0 .. m
    <3>1. CASE i = m
      BY <1>2, <1>4, <2>1, <2>3, <2>4, <3>1
    <3>2. CASE i # m
      <4>1. i \in 0 .. m - 1 /\ (i # 0 => i - 1 \in 0 .. m - 1)
        BY <1>2, <3>2
      <4> QED
        BY <2>4, <2>5, <4>1
    <3> QED
      BY <3>1, <3>2
  <2>7. Follows(w, a, nx, nil, m)
    BY <2>3, <2>6 DEF Follows
  <2> QED
    BY <1>2, <2>7
<1> QED
  BY <1>3, <1>4

LEMMA WalkFollows ==
    ASSUME NEW a, NEW nx, NEW nil, NEW n \in Nat
    PROVE  Follows(Walk(a, nx, nil, n), a, nx, nil, n)
<1>1. \E w : Follows(w, a, nx, nil, n)
  BY WalkExists
<1>2. Walk(a, nx, nil, n) = CHOOSE w : Follows(w, a, nx, nil, n)
  BY DEF Walk, Follows
<1> QED
  BY <1>1, <1>2

\* p lists the links from a to the end, each once
Path(p, a, nx, nil, S) ==
    /\ p \in Seq(S) /\ nil \notin S
    /\ p = << >> => a = nil
    /\ p # << >> => p[1] = a /\ nx[p[Len(p)]] = nil
    /\ \A i \in 1 .. Len(p) - 1 : nx[p[i]] = p[i + 1]
    /\ \A i, j \in 1 .. Len(p) : p[i] = p[j] => i = j

\* A path is no longer than there are places to visit
LEMMA PathFits ==
    ASSUME NEW p, NEW a, NEW nx, NEW nil, NEW S, IsFiniteSet(S), Path(p, a, nx, nil, S)
    PROVE  Len(p) \in Nat /\ Len(p) <= Cardinality(S) /\ Cardinality(S) \in Nat
<1>1. Len(p) \in Nat /\ DOMAIN p = 1 .. Len(p) /\ p \in [1 .. Len(p) -> S]
  BY LenProperties DEF Path
<1>2. p \in Injection(1 .. Len(p), S)
  BY <1>1 DEF Path, Injection, IsInjective
<1>3. Cardinality(1 .. Len(p)) <= Cardinality(S)
  BY <1>2, FS_Injection
<1>4. Cardinality(1 .. Len(p)) = Len(p)
  BY <1>1, FS_Interval
<1>5. Cardinality(S) \in Nat
  BY FS_CardinalityType
<1> QED
  BY <1>1, <1>3, <1>4, <1>5

\* A walk goes along the path and then stays at its end
LEMMA WalkIsPath ==
    ASSUME NEW p, NEW a, NEW nx, NEW nil, NEW S, Path(p, a, nx, nil, S),
           NEW n \in Nat, NEW w, Follows(w, a, nx, nil, n)
    PROVE  \A i \in 0 .. n : w[i] = IF i < Len(p) THEN p[i + 1] ELSE nil
<1>1. /\ Len(p) \in Nat
      /\ \A i \in 1 .. Len(p) : p[i] \in S /\ p[i] # nil
      /\ p # << >> <=> Len(p) > 0
  BY ElementOfSeq, LenProperties, EmptySeq DEF Path
<1>2. \A i \in 0 .. n :
        w[i] = IF i = 0 THEN a ELSE IF w[i - 1] = nil THEN nil ELSE nx[w[i - 1]]
  BY DEF Follows
<1> DEFINE Right(i) == w[i] = IF i < Len(p) THEN p[i + 1] ELSE nil
           T == {i \in 0 .. n : ~Right(i)}
<1>3. SUFFICES ASSUME T # {} PROVE FALSE
  OBVIOUS
<1>4. PICK m \in T : m \in Nat /\ \A y \in Nat : y < m => y \notin T
  <2> HIDE DEF T
  <2>1. T \subseteq Nat
    BY DEF T
  <2> QED
    BY <1>3, <2>1, Least
<1>5. m \in 0 .. n /\ ~Right(m)
  OBVIOUS
<1>6. CASE m = 0
  <2>1. w[0] = a
    BY <1>2, <1>5, <1>6
  <2>2. CASE Len(p) > 0
    BY <1>1, <1>5, <1>6, <2>1, <2>2 DEF Path
  <2>3. CASE Len(p) = 0
    BY <1>1, <1>5, <1>6, <2>1, <2>3 DEF Path
  <2> QED
    BY <1>1, <2>2, <2>3
<1>7. CASE m # 0
  <2>1. m - 1 \in 0 .. n /\ m - 1 \in Nat /\ m - 1 < m /\ (m - 1) + 1 = m
    BY <1>5, <1>7
  <2>2. Right(m - 1)
    BY <1>4, <2>1
  <2>3. w[m] = IF w[m - 1] = nil THEN nil ELSE nx[w[m - 1]]
    BY <1>2, <1>5, <1>7
  <2>4. CASE m - 1 < Len(p)
    <3>1. w[m - 1] = p[m] /\ m \in 1 .. Len(p) /\ w[m - 1] # nil
      BY <1>1, <1>5, <1>7, <2>1, <2>2, <2>4
    <3>2. w[m] = nx[p[m]]
      BY <2>3, <3>1
    <3>3. CASE m < Len(p)
      <4>1. nx[p[m]] = p[m + 1]
        BY <1>1, <3>1, <3>3 DEF Path
      <4> QED
        BY <1>5, <3>2, <3>3, <4>1
    <3>4. CASE ~(m < Len(p))
      <4>1. m = Len(p) /\ p # << >>
        BY <1>1, <3>1, <3>4
      <4>2. nx[p[m]] = nil
        BY <4>1 DEF Path
      <4> QED
        BY <1>5, <3>2, <3>4, <4>2
    <3> QED
      BY <3>3, <3>4
  <2>5. CASE ~(m - 1 < Len(p))
    <3>1. ~(m < Len(p)) /\ w[m - 1] = nil
      BY <1>1, <2>1, <2>2, <2>5
    <3> QED
      BY <1>5, <2>3, <3>1
  <2> QED
    BY <2>4, <2>5
<1> QED
  BY <1>6, <1>7

\* What is there to see along a walk
Seen(w, nil, n) == [i \in 1 .. Cardinality({j \in 0 .. n : w[j] # nil}) |-> w[i - 1]]

LEMMA SeenIsPath ==
    ASSUME NEW p, NEW a, NEW nx, NEW nil, NEW S, IsFiniteSet(S), Path(p, a, nx, nil, S)
    PROVE  Seen(Walk(a, nx, nil, Cardinality(S)), nil, Cardinality(S)) = p
<1>1. PICK n \in Nat : n = Cardinality(S)
  BY PathFits
<1>2. PICK w : w = Walk(a, nx, nil, n)
  OBVIOUS
<1>3. Follows(w, a, nx, nil, n)
  BY <1>2, WalkFollows
<1>4. \A i \in 0 .. n : w[i] = IF i < Len(p) THEN p[i + 1] ELSE nil
  BY <1>3, WalkIsPath
<1>5. /\ Len(p) \in Nat /\ Len(p) <= n /\ p \in Seq(S) /\ nil \notin S
      /\ \A i \in 1 .. Len(p) : p[i] \in S
  <2>1. Len(p) \in Nat /\ Len(p) <= n
    BY <1>1, PathFits
  <2>2. p \in Seq(S) /\ nil \notin S
    BY DEF Path
  <2> QED
    BY <2>1, <2>2, ElementOfSeq
<1>6. {j \in 0 .. n : w[j] # nil} = 0 .. Len(p) - 1
  <2>1. ASSUME NEW j \in 0 .. n PROVE w[j] # nil <=> j \in 0 .. Len(p) - 1
    <3>1. CASE j < Len(p)
      <4>1. j + 1 \in 1 .. Len(p) /\ j \in 0 .. Len(p) - 1
        BY <1>5, <3>1
      <4> QED
        BY <1>4, <1>5, <3>1, <4>1
    <3>2. CASE ~(j < Len(p))
      BY <1>4, <1>5, <3>2
    <3> QED
      BY <3>1, <3>2
  <2>2. 0 .. Len(p) - 1 \subseteq 0 .. n
    BY <1>5
  <2> QED
    BY <2>1, <2>2
<1>7. Cardinality(0 .. Len(p) - 1) = Len(p)
  <2>1. Len(p) - 1 \in Int /\ 0 \in Int
    BY <1>5
  <2>2. Cardinality(0 .. Len(p) - 1) = IF 0 > Len(p) - 1 THEN 0 ELSE Len(p) - 1 - 0 + 1
    BY <2>1, FS_Interval
  <2> QED
    BY <1>5, <2>2
<1>8. Seen(w, nil, n) = [i \in 1 .. Len(p) |-> w[i - 1]]
  BY <1>6, <1>7 DEF Seen
<1>9. ASSUME NEW i \in 1 .. Len(p) PROVE w[i - 1] = p[i]
  <2>1. i - 1 \in 0 .. n /\ i - 1 < Len(p) /\ (i - 1) + 1 = i
    BY <1>5
  <2> QED
    BY <1>4, <2>1
<1>10. p = [i \in 1 .. Len(p) |-> p[i]]
  BY <1>5, LenProperties
<1>11. Seen(w, nil, n) = p
  BY <1>8, <1>9, <1>10
<1> QED
  BY <1>1, <1>2, <1>11

LEMMA EmptyPath ==
    ASSUME NEW nx, NEW nil, NEW S, nil \notin S
    PROVE  Path(<< >>, nil, nx, nil, S)
<1>1. << >> \in Seq(S) /\ Len(<< >>) = 0
  BY EmptySeq
<1> QED
  BY <1>1 DEF Path

\* Links that no element of the path has may change
LEMMA PathElsewhere ==
    ASSUME NEW p, NEW a, NEW nx, NEW nil, NEW S, Path(p, a, nx, nil, S),
           NEW ny, \A i \in 1 .. Len(p) : ny[p[i]] = nx[p[i]]
    PROVE  Path(p, a, ny, nil, S)
<1>1. Len(p) \in Nat /\ (p # << >> => Len(p) \in 1 .. Len(p))
  BY LenProperties, EmptySeq DEF Path
<1>2. \A i \in 1 .. Len(p) - 1 : i \in 1 .. Len(p)
  BY <1>1
<1> QED
  BY <1>1, <1>2 DEF Path

\* push_back, seen from the path
LEMMA PathAppend ==
    ASSUME NEW p, NEW a, NEW nx, NEW nil, NEW S, Path(p, a, nx, nil, S),
           NEW e \in S, \A i \in 1 .. Len(p) : p[i] # e,
           NEW b, b = (IF p = << >> THEN e ELSE a),
           NEW ny, ny[e] = nil,
           p # << >> => ny[p[Len(p)]] = e,
           \A i \in 1 .. Len(p) - 1 : ny[p[i]] = nx[p[i]]
    PROVE  Path(Append(p, e), b, ny, nil, S)
<1>1. /\ p \in Seq(S) /\ Len(p) \in Nat /\ nil \notin S
      /\ p = << >> <=> Len(p) = 0
  BY LenProperties, EmptySeq DEF Path
<1>2. PICK q : q = Append(p, e)
  OBVIOUS
<1>3. /\ q \in Seq(S) /\ q # << >> /\ Len(q) = Len(p) + 1
      /\ \A i \in 1 .. Len(p) : q[i] = p[i]
      /\ q[Len(p) + 1] = e
  BY <1>1, <1>2, AppendProperties
<1>4. q[1] = b
  <2>1. CASE p = << >>
    BY <1>1, <1>3, <2>1
  <2>2. CASE p # << >>
    BY <1>1, <1>3, <2>2 DEF Path
  <2> QED
    BY <2>1, <2>2
<1>5. ny[q[Len(q)]] = nil
  BY <1>3
<1>6. ASSUME NEW i \in 1 .. Len(q) - 1 PROVE ny[q[i]] = q[i + 1]
  <2>1. i \in 1 .. Len(p) /\ q[i] = p[i] /\ p # << >>
    BY <1>1, <1>3
  <2>2. CASE i = Len(p)
    BY <1>3, <2>1, <2>2
  <2>3. CASE i # Len(p)
    <3>1. i \in 1 .. Len(p) - 1 /\ i + 1 \in 1 .. Len(p)
      BY <1>1, <2>1, <2>3
    <3>2. ny[p[i]] = p[i + 1]
      BY <3>1 DEF Path
    <3> QED
      BY <1>3, <2>1, <3>1, <3>2
  <2> QED
    BY <2>2, <2>3
<1>7. ASSUME NEW i \in 1 .. Len(q), NEW j \in 1 .. Len(q), q[i] = q[j] PROVE i = j
  <2>1. (i \in 1 .. Len(p) \/ i = Len(p) + 1) /\ (j \in 1 .. Len(p) \/ j = Len(p) + 1)
    BY <1>1, <1>3
  <2> QED
    BY <1>3, <1>7, <2>1 DEF Path
<1>8. Path(q, b, ny, nil, S)
  BY <1>1, <1>3, <1>4, <1>5, <1>6, <1>7 DEF Path
<1> QED
  BY <1>2, <1>8

\* pop_front, seen from the path
LEMMA PathTail ==
    ASSUME NEW p, NEW a, NEW nx, NEW nil, NEW S, Path(p, a, nx, nil, S), p # << >>
    PROVE  /\ Path(Tail(p), nx[a], nx, nil, S)
           /\ Len(Tail(p)) = Len(p) - 1 /\ Len(p) \in Nat
           /\ \A i \in 1 .. Len(Tail(p)) : Tail(p)[i] = p[i + 1]
<1>1. p \in Seq(S) /\ Len(p) \in Nat /\ Len(p) > 0 /\ nil \notin S
  BY LenProperties, EmptySeq DEF Path
<1>2. PICK q : q = Tail(p)
  OBVIOUS
<1>3. /\ q \in Seq(S) /\ Len(q) = Len(p) - 1
      /\ \A i \in 1 .. Len(q) : q[i] = p[i + 1]
  BY <1>1, <1>2, HeadTailProperties
<1>4. a = p[1] /\ nx[p[Len(p)]] = nil
  BY DEF Path
<1>5. q = << >> <=> Len(q) = 0
  BY <1>3, EmptySeq
<1>6. CASE q = << >>
  <2>1. Len(p) = 1
    BY <1>1, <1>3, <1>5, <1>6
  <2>2. nx[a] = nil
    BY <1>4, <2>1
  <2>3. Path(q, nx[a], nx, nil, S)
    BY <1>1, <1>6, <2>2, EmptyPath
  <2> QED
    BY <1>1, <1>2, <1>3, <2>3
<1>7. CASE q # << >>
  <2>1. Len(p) > 1
    BY <1>1, <1>3, <1>5, <1>7
  <2>2. q[1] = nx[a]
    <3>1. nx[p[1]] = p[1 + 1] /\ 1 \in 1 .. Len(q)
      BY <1>1, <1>3, <2>1 DEF Path
    <3> QED
      BY <1>3, <1>4, <3>1
  <2>3. nx[q[Len(q)]] = nil
    <3>1. Len(q) \in 1 .. Len(q) /\ Len(q) + 1 = Len(p)
      BY <1>1, <1>3, <2>1
    <3> QED
      BY <1>3, <1>4, <3>1
  <2>4. ASSUME NEW i \in 1 .. Len(q) - 1 PROVE nx[q[i]] = q[i + 1]
    <3>1. i \in 1 .. Len(q) /\ i + 1 \in 1 .. Len(q) /\ i + 1 \in 1 .. Len(p) - 1
      BY <1>1, <1>3
    <3>2. nx[p[i + 1]] = p[(i + 1) + 1]
      BY <3>1 DEF Path
    <3> QED
      BY <1>3, <3>1, <3>2
  <2>5. ASSUME NEW i \in 1 .. Len(q), NEW j \in 1 .. Len(q), q[i] = q[j] PROVE i = j
    <3>1. i + 1 \in 1 .. Len(p) /\ j + 1 \in 1 .. Len(p) /\ i \in Int /\ j \in Int
      BY <1>1, <1>3
    <3>2. p[i + 1] = p[j + 1]
      BY <1>3, <2>5
    <3>3. i + 1 = j + 1
      BY <3>1, <3>2 DEF Path
    <3> QED
      BY <3>1, <3>3
  <2>6. Path(q, nx[a], nx, nil, S)
    BY <1>1, <1>3, <1>7, <2>2, <2>3, <2>4, <2>5 DEF Path
  <2> QED
    BY <1>1, <1>2, <1>3, <2>6
<1> QED
  BY <1>6, <1>7

-----------------------------------------------------------------------------
(* IntrusiveList *)

ListTypes ==
    /\ list_front \in [List -> Node \union {NoNode}]
    /\ list_back \in [List -> Node \union {NoNode}]
    /\ link \in [Node -> Node \union {NoNode}]

\* What an iteration visits is the way from the front along the links, and ends
\* at list_back
ListPaths ==
    \A l \in List :
        /\ Path(Members(l), list_front[l], link, NoNode, Node)
        /\ Members(l) # << >> => Members(l)[Len(Members(l))] = list_back[l]

ListsApart ==
    \A l, o \in List : l # o =>
        \A i \in 1 .. Len(Members(l)), j \in 1 .. Len(Members(o)) : Members(l)[i] # Members(o)[j]

ListInv == ListTypes /\ ListPaths /\ ListsApart

\* What an iteration visits, from the first node and the links
Visits(a, nx) == Seen(Walk(a, nx, NoNode, Cardinality(Node)), NoNode, Cardinality(Node))

LEMMA MembersSeen ==
    ASSUME NEW l
    PROVE  /\ Members(l) = Visits(list_front[l], link)
           /\ Members(l)' = Visits(list_front'[l], link')
<1>1. Step(l) = Walk(list_front[l], link, NoNode, Cardinality(Node))
  BY DEF Step, Walk
<1>2. Step(l)' = Walk(list_front'[l], link', NoNode, Cardinality(Node))
  BY DEF Step, Walk
<1>3. Members(l) = Visits(list_front[l], link)
  BY <1>1 DEF Members, ListSize, Visits, Seen
<1>4. Members(l)' = Visits(list_front'[l], link')
  BY <1>2 DEF Members, ListSize, Visits, Seen
<1> QED
  BY <1>3, <1>4

LEMMA MembersAre ==
    ASSUME NEW l, NEW p, Path(p, list_front'[l], link', NoNode, Node)
    PROVE  Members(l)' = p
<1>1. PICK a : a = list_front'[l]
  OBVIOUS
<1>2. PICK nx : nx = link'
  OBVIOUS
<1>3. IsFiniteSet(Node) /\ Path(p, a, nx, NoNode, Node)
  BY <1>1, <1>2, ListAssumption
<1>4. Visits(a, nx) = p
  BY <1>3, SeenIsPath DEF Visits
<1> QED
  BY <1>1, <1>2, <1>4, MembersSeen

\* The members of a list that neither its front nor its links change
LEMMA MembersStay ==
    ASSUME ListInv, NEW l \in List, list_front'[l] = list_front[l],
           \A i \in 1 .. Len(Members(l)) : link'[Members(l)[i]] = link[Members(l)[i]]
    PROVE  Path(Members(l), list_front'[l], link', NoNode, Node) /\ Members(l)' = Members(l)
<1>1. PICK p : p = Members(l)
  OBVIOUS
<1>2. PICK a : a = list_front[l]
  OBVIOUS
<1>3. PICK nx : nx = link
  OBVIOUS
<1>4. PICK ny : ny = link'
  OBVIOUS
<1>5. Path(p, a, nx, NoNode, Node)
  BY <1>1, <1>2, <1>3 DEF ListInv, ListPaths
<1>6. \A i \in 1 .. Len(p) : ny[p[i]] = nx[p[i]]
  BY <1>1, <1>3, <1>4
<1>7. Path(p, a, ny, NoNode, Node)
  BY <1>5, <1>6, PathElsewhere
<1>8. Path(p, list_front'[l], link', NoNode, Node)
  BY <1>2, <1>4, <1>7
<1> QED
  BY <1>1, <1>8, MembersAre

\* A list is empty if its front is null
LEMMA EmptyMembers ==
    ASSUME ListInv, NEW l \in List
    PROVE  ListEmpty(l) <=> Members(l) = << >>
<1>1. Path(Members(l), list_front[l], link, NoNode, Node)
  BY DEF ListInv, ListPaths
<1>2. Members(l) # << >> => 1 \in 1 .. Len(Members(l)) /\ Members(l)[1] \in Node
  BY <1>1, EmptySeq, ElementOfSeq DEF Path
<1> QED
  BY <1>1, <1>2, ListAssumption DEF ListEmpty, Path

LEMMA ListInvSound ==
    ASSUME ListInv
    PROVE  ListsAreSound
<1>1. ASSUME NEW l \in List
      PROVE  /\ Members(l) \in Seq(Node) /\ DOMAIN Members(l) = 1 .. Len(Members(l))
             /\ IsInjective(Members(l))
             /\ ~ListEmpty(l) => Last(Members(l)) = list_back[l] /\ list_back[l] # NoNode
  <2>1. Path(Members(l), list_front[l], link, NoNode, Node)
    BY DEF ListInv, ListPaths
  <2>2. Members(l) \in Seq(Node) /\ DOMAIN Members(l) = 1 .. Len(Members(l))
    BY <2>1, LenProperties DEF Path
  <2>3. IsInjective(Members(l))
    BY <2>1, <2>2 DEF Path, IsInjective
  <2>4. Members(l) # << >> => Members(l)[Len(Members(l))] \in Node
    BY <2>2, EmptySeq, ElementOfSeq
  <2>5. ~ListEmpty(l) => Last(Members(l)) = list_back[l] /\ list_back[l] # NoNode
    BY <2>4, EmptyMembers, ListAssumption DEF ListInv, ListPaths, Last
  <2> QED
    BY <2>2, <2>3, <2>5
<1>2. ListTypeOK
  BY <1>1 DEF ListInv, ListTypes, ListTypeOK
<1>3. ASSUME NEW l \in List, NEW o \in List, l # o
      PROVE  ToSet(Members(l)) \intersect ToSet(Members(o)) = {}
  BY <1>1, <1>3 DEF ListInv, ListsApart, ToSet
<1> QED
  BY <1>1, <1>2, <1>3 DEF ListsAreSound

\* What Fifo allows each list to do
LEMMA FifoOf ==
    ASSUME NEW l \in List
    PROVE  /\ InOrder(l)!Init <=> Members(l) = << >>
           /\ InOrder(l)!Step <=>
                \/ \E n \in Node : Members(l)' = Append(Members(l), n)
                \/ Members(l) # << >> /\ Members(l)' = Tail(Members(l))
                \/ Members(l)' = Members(l)
BY DEF InOrder!Init, InOrder!Step, InOrder!Next, InOrder!Push, InOrder!Pop, InOrder!Close

\* A step of the lists, and what it is to each of them
ListStep == ListInv' /\ \A l \in List : InOrder(l)!Step

LEMMA PushBackStep ==
    ASSUME ListInv, NEW l \in List, NEW n \in Node, PushBack(l, n)
    PROVE  ListStep
<1>1. /\ \A o \in List : ~Contains(Members(o), n)
      /\ link' = LinkAfterPush(l, n)
      /\ list_front' = [list_front EXCEPT ![l] = IF ListEmpty(l) THEN n ELSE @]
      /\ list_back' = [list_back EXCEPT ![l] = n]
  BY DEF PushBack, BackAfterPush
<1>2. \A o \in List : \A i \in 1 .. Len(Members(o)) : Members(o)[i] # n
  BY <1>1 DEF Contains
<1>3. ASSUME NEW o \in List
      PROVE  /\ Path(Members(o), list_front[o], link, NoNode, Node)
             /\ Members(o) \in Seq(Node) /\ Len(Members(o)) \in Nat
             /\ Members(o) # << >> => Len(Members(o)) \in 1 .. Len(Members(o))
             /\ \A i \in 1 .. Len(Members(o)) : Members(o)[i] \in Node
  <2>1. Path(Members(o), list_front[o], link, NoNode, Node)
    BY DEF ListInv, ListPaths
  <2>2. Members(o) \in Seq(Node)
    BY <2>1 DEF Path
  <2> QED
    BY <2>1, <2>2, LenProperties, EmptySeq, ElementOfSeq
<1>4. /\ link'[n] = NoNode \/ (~ListEmpty(l) /\ n = list_back[l])
      /\ ~ListEmpty(l) => list_back[l] \in Node /\ link'[list_back[l]] = n
      /\ \A m \in Node : m # n /\ (ListEmpty(l) \/ m # list_back[l]) => link'[m] = link[m]
  <2>1. ~ListEmpty(l) => list_back[l] \in Node
    BY <1>3, EmptyMembers DEF ListInv, ListPaths
  <2> QED
    BY <1>1, <2>1 DEF LinkAfterPush
<1>5. /\ ListEmpty(l) <=> Members(l) = << >>
      /\ ~ListEmpty(l) => list_back[l] = Members(l)[Len(Members(l))]
  BY EmptyMembers DEF ListInv, ListPaths
<1>6. link'[n] = NoNode
  BY <1>2, <1>3, <1>4, <1>5
<1>7. Path(Append(Members(l), n), list_front'[l], link', NoNode, Node)
  <2>1. PICK p : p = Members(l)
    OBVIOUS
  <2>2. PICK a : a = list_front[l]
    OBVIOUS
  <2>3. PICK b : b = list_front'[l]
    OBVIOUS
  <2>4. PICK nx : nx = link
    OBVIOUS
  <2>5. PICK ny : ny = link'
    OBVIOUS
  <2>6. Path(p, a, nx, NoNode, Node) /\ \A i \in 1 .. Len(p) : p[i] # n
    BY <1>2, <1>3, <2>1, <2>2, <2>4
  <2>7. b = IF p = << >> THEN n ELSE a
    BY <1>1, <1>5, <2>1, <2>2, <2>3 DEF ListInv, ListTypes
  <2>8. ny[n] = NoNode /\ (p # << >> => ny[p[Len(p)]] = n)
    BY <1>4, <1>5, <1>6, <2>1, <2>5
  <2>9. ASSUME NEW i \in 1 .. Len(p) - 1 PROVE ny[p[i]] = nx[p[i]]
    <3>1. i \in 1 .. Len(p) /\ Len(p) \in 1 .. Len(p) /\ i # Len(p)
      BY <1>3, <2>1
    <3>2. p[i] # p[Len(p)] /\ p[i] \in Node /\ p[i] # n
      BY <1>3, <2>1, <2>6, <3>1 DEF Path
    <3> QED
      BY <1>4, <1>5, <2>1, <2>4, <2>5, <3>2
  <2>10. Path(Append(p, n), b, ny, NoNode, Node)
    BY <2>6, <2>7, <2>8, <2>9, PathAppend
  <2> QED
    BY <2>1, <2>3, <2>5, <2>10
<1>8. Members(l)' = Append(Members(l), n)
  BY <1>7, MembersAre
<1>9. ASSUME NEW o \in List, o # l
      PROVE  /\ Path(Members(o), list_front'[o], link', NoNode, Node)
             /\ Members(o)' = Members(o) /\ list_back'[o] = list_back[o]
  <2>1. list_front'[o] = list_front[o] /\ list_back'[o] = list_back[o]
    BY <1>1, <1>9 DEF ListInv, ListTypes
  <2>2. ASSUME NEW i \in 1 .. Len(Members(o)) PROVE link'[Members(o)[i]] = link[Members(o)[i]]
    <3>1. Members(o)[i] \in Node /\ Members(o)[i] # n
      BY <1>2, <1>3
    <3>2. ~ListEmpty(l) => Members(o)[i] # list_back[l]
      BY <1>3, <1>5, <1>9 DEF ListInv, ListsApart
    <3> QED
      BY <1>4, <3>1, <3>2
  <2> QED
    BY <2>1, <2>2, MembersStay
<1>10. ListTypes'
  <2>1. link' \in [Node -> Node \union {NoNode}]
    BY <1>1 DEF LinkAfterPush, ListInv, ListTypes
  <2> QED
    BY <1>1, <2>1 DEF ListInv, ListTypes
<1>11. /\ Len(Append(Members(l), n)) = Len(Members(l)) + 1
       /\ \A i \in 1 .. Len(Members(l)) : Append(Members(l), n)[i] = Members(l)[i]
       /\ Append(Members(l), n)[Len(Members(l)) + 1] = n
  BY <1>3, AppendProperties
<1>12. ListPaths'
  <2>1. list_back'[l] = n
    BY <1>1 DEF ListInv, ListTypes
  <2>2. ASSUME NEW o \in List
        PROVE  /\ Path(Members(o)', list_front'[o], link', NoNode, Node)
               /\ Members(o)' # << >> => Members(o)'[Len(Members(o)')] = list_back'[o]
    <3>1. CASE o = l
      BY <1>7, <1>8, <1>11, <2>1, <3>1
    <3>2. CASE o # l
      BY <1>9, <3>2 DEF ListInv, ListPaths
    <3> QED
      BY <3>1, <3>2
  <2> QED
    BY <2>2 DEF ListPaths
<1>13. ListsApart'
  <2>1. ASSUME NEW o \in List, o # l,
               NEW i \in 1 .. Len(Members(l)'), NEW j \in 1 .. Len(Members(o)')
        PROVE  Members(l)'[i] # Members(o)'[j]
    <3>1. j \in 1 .. Len(Members(o)) /\ Members(o)'[j] = Members(o)[j]
      BY <1>9, <2>1
    <3>2. i \in 1 .. Len(Members(l)) \/ i = Len(Members(l)) + 1
      BY <1>3, <1>8, <1>11
    <3>3. CASE i \in 1 .. Len(Members(l))
      BY <1>8, <1>11, <2>1, <3>1, <3>3 DEF ListInv, ListsApart
    <3>4. CASE i = Len(Members(l)) + 1
      BY <1>2, <1>8, <1>11, <3>1, <3>4
    <3> QED
      BY <3>2, <3>3, <3>4
  <2>2. ASSUME NEW o \in List, NEW q \in List, o # q, o # l, q # l,
               NEW i \in 1 .. Len(Members(o)'), NEW j \in 1 .. Len(Members(q)')
        PROVE  Members(o)'[i] # Members(q)'[j]
    BY <1>9, <2>2 DEF ListInv, ListsApart
  <2>3. ASSUME NEW o \in List, NEW q \in List, o # q,
               NEW i \in 1 .. Len(Members(o)'), NEW j \in 1 .. Len(Members(q)')
        PROVE  Members(o)'[i] # Members(q)'[j]
    <3>1. CASE o = l
      BY <2>1, <2>3, <3>1
    <3>2. CASE q = l
      BY <2>1, <2>3, <3>2
    <3> QED
      BY <2>2, <2>3, <3>1, <3>2
  <2> QED
    BY <2>3 DEF ListsApart
<1>14. ASSUME NEW o \in List PROVE InOrder(o)!Step
  BY <1>8, <1>9, FifoOf
<1> QED
  BY <1>10, <1>12, <1>13, <1>14 DEF ListStep, ListInv

LEMMA PopFrontStep ==
    ASSUME ListInv, NEW l \in List, PopFront(l)
    PROVE  ListStep
<1>1. /\ Members(l) # << >>
      /\ list_front' = [list_front EXCEPT ![l] = link[list_front[l]]]
      /\ list_back' = list_back /\ link' = link
  BY EmptyMembers DEF PopFront, FrontAfterPop
<1>2. Path(Members(l), list_front[l], link, NoNode, Node)
  BY DEF ListInv, ListPaths
<1>3. list_front'[l] = link[list_front[l]] /\ list_front[l] \in Node
  <2>1. 1 \in 1 .. Len(Members(l)) /\ Members(l)[1] \in Node
    BY <1>1, <1>2, EmptySeq, ElementOfSeq DEF Path
  <2>2. list_front[l] \in Node
    BY <1>1, <1>2, <2>1 DEF Path
  <2> QED
    BY <1>1, <2>2 DEF ListInv, ListTypes
<1>4. /\ Path(Tail(Members(l)), list_front'[l], link', NoNode, Node)
      /\ Len(Tail(Members(l))) = Len(Members(l)) - 1 /\ Len(Members(l)) \in Nat
      /\ \A i \in 1 .. Len(Tail(Members(l))) : Tail(Members(l))[i] = Members(l)[i + 1]
  <2>1. PICK p : p = Members(l)
    OBVIOUS
  <2>2. PICK a : a = list_front[l]
    OBVIOUS
  <2>3. PICK nx : nx = link
    OBVIOUS
  <2>4. /\ Path(Tail(p), nx[a], nx, NoNode, Node)
        /\ Len(Tail(p)) = Len(p) - 1 /\ Len(p) \in Nat
        /\ \A i \in 1 .. Len(Tail(p)) : Tail(p)[i] = p[i + 1]
    BY <1>1, <1>2, <2>1, <2>2, <2>3, PathTail
  <2> QED
    BY <1>1, <1>3, <2>1, <2>2, <2>3, <2>4
<1>5. Members(l)' = Tail(Members(l))
  BY <1>4, MembersAre
<1>6. ASSUME NEW o \in List, o # l
      PROVE  /\ Path(Members(o), list_front'[o], link', NoNode, Node)
             /\ Members(o)' = Members(o)
  <2>1. list_front'[o] = list_front[o]
    BY <1>1, <1>6 DEF ListInv, ListTypes
  <2> QED
    BY <1>1, <2>1, MembersStay
<1>7. ListTypes'
  BY <1>1, <1>3 DEF ListInv, ListTypes
<1>8. Tail(Members(l)) # << >> =>
        Tail(Members(l))[Len(Tail(Members(l)))] = list_back[l]
  <2>1. SUFFICES ASSUME Tail(Members(l)) # << >>
                 PROVE  Tail(Members(l))[Len(Tail(Members(l)))] = list_back[l]
    OBVIOUS
  <2>2. Tail(Members(l)) \in Seq(Node)
    BY <1>4 DEF Path
  <2>3. Len(Tail(Members(l))) \in 1 .. Len(Tail(Members(l)))
    BY <2>1, <2>2, EmptySeq
  <2>4. Tail(Members(l))[Len(Tail(Members(l)))] = Members(l)[(Len(Members(l)) - 1) + 1]
    BY <1>4, <2>3
  <2>5. (Len(Members(l)) - 1) + 1 = Len(Members(l))
    BY <1>4
  <2> QED
    BY <1>1, <2>4, <2>5 DEF ListInv, ListPaths
<1>9. ListPaths'
  <2>1. ASSUME NEW o \in List
        PROVE  /\ Path(Members(o)', list_front'[o], link', NoNode, Node)
               /\ Members(o)' # << >> => Members(o)'[Len(Members(o)')] = list_back'[o]
    <3>1. CASE o = l
      BY <1>1, <1>4, <1>5, <1>8, <3>1
    <3>2. CASE o # l
      BY <1>1, <1>6, <3>2 DEF ListInv, ListPaths
    <3> QED
      BY <3>1, <3>2
  <2> QED
    BY <2>1 DEF ListPaths
<1>10. ListsApart'
  <2>1. ASSUME NEW o \in List, NEW i \in 1 .. Len(Members(o)')
        PROVE  \E k \in 1 .. Len(Members(o)) : Members(o)'[i] = Members(o)[k]
    <3>1. CASE o = l
      <4>1. i + 1 \in 1 .. Len(Members(l)) /\ Members(l)'[i] = Members(l)[i + 1]
        <5>1. i \in 1 .. Len(Tail(Members(l)))
          BY <1>5, <3>1
        <5>2. i + 1 \in 1 .. Len(Members(l))
          BY <1>4, <5>1
        <5> QED
          BY <1>4, <1>5, <5>1, <5>2
      <4> QED
        BY <3>1, <4>1
    <3>2. CASE o # l
      BY <1>6, <3>2
    <3> QED
      BY <3>1, <3>2
  <2>2. ASSUME NEW o \in List, NEW q \in List, o # q,
               NEW i \in 1 .. Len(Members(o)'), NEW j \in 1 .. Len(Members(q)')
        PROVE  Members(o)'[i] # Members(q)'[j]
    <3>1. PICK k \in 1 .. Len(Members(o)) : Members(o)'[i] = Members(o)[k]
      BY <2>1
    <3>2. PICK m \in 1 .. Len(Members(q)) : Members(q)'[j] = Members(q)[m]
      BY <2>1
    <3> QED
      BY <2>2, <3>1, <3>2 DEF ListInv, ListsApart
  <2> QED
    BY <2>2 DEF ListsApart
<1>11. ASSUME NEW o \in List PROVE InOrder(o)!Step
  BY <1>1, <1>5, <1>6, FifoOf
<1> QED
  BY <1>7, <1>9, <1>10, <1>11 DEF ListStep, ListInv

\* A list is assigned to itself or an empty one to an empty one: nothing but a
\* stale list_back changes
LEMMA AssignStep ==
    ASSUME ListInv, ~SharesNodes, NEW l \in List, NEW other \in List, Assign(l, other)
    PROVE  ListStep
<1>1. /\ l = other \/ (list_front[l] = NoNode /\ list_front[other] = NoNode)
      /\ list_front' = [list_front EXCEPT ![l] = list_front[other]]
      /\ list_back' = [list_back EXCEPT ![l] = list_back[other]]
      /\ link' = link
      /\ l = other \/ Members(l) = << >>
  BY EmptyMembers DEF Assign, ListEmpty
<1>2. /\ list_front' = list_front
      /\ \A o \in List : list_back'[o] = list_back[o] \/ Members(o) = << >>
  BY <1>1 DEF ListInv, ListTypes
<1>3. ASSUME NEW o \in List
      PROVE  /\ Path(Members(o), list_front'[o], link', NoNode, Node)
             /\ Members(o)' = Members(o)
  BY <1>1, <1>2, MembersStay
<1>4. ListTypes'
  BY <1>1 DEF ListInv, ListTypes
<1>5. ListPaths'
  BY <1>1, <1>2, <1>3 DEF ListInv, ListPaths
<1>6. ListsApart'
  BY <1>3 DEF ListInv, ListsApart
<1>7. ASSUME NEW o \in List PROVE InOrder(o)!Step
  BY <1>3, FifoOf
<1> QED
  BY <1>4, <1>5, <1>6, <1>7 DEF ListStep, ListInv

LEMMA ListBegin == ListInit => ListInv /\ \A l \in List : InOrder(l)!Init
<1> SUFFICES ASSUME ListInit PROVE ListInv /\ \A l \in List : InOrder(l)!Init
  OBVIOUS
<1>1. ASSUME NEW l \in List
      PROVE  Members(l) = << >> /\ Path(<< >>, list_front[l], link, NoNode, Node)
  <2>1. PICK nx : nx = link
    OBVIOUS
  <2>2. Path(<< >>, NoNode, nx, NoNode, Node) /\ IsFiniteSet(Node)
    BY EmptyPath, ListAssumption
  <2>3. Visits(NoNode, nx) = << >>
    BY <2>2, SeenIsPath DEF Visits
  <2>4. list_front[l] = NoNode
    BY DEF ListInit
  <2> QED
    BY <2>1, <2>2, <2>3, <2>4, MembersSeen
<1>2. ListTypes
  BY DEF ListInit, ListTypes
<1>3. ListPaths
  BY <1>1 DEF ListPaths
<1>4. ListsApart
  BY <1>1, EmptySeq DEF ListsApart
<1> QED
  BY <1>1, <1>2, <1>3, <1>4, FifoOf DEF ListInv

LEMMA ListInvariance ==
    ASSUME ListInv, ~SharesNodes, [ListNext]_listVars
    PROVE  ListStep
<1>1. CASE UNCHANGED listVars
  <2>1. list_front' = list_front /\ list_back' = list_back /\ link' = link
    BY <1>1 DEF listVars
  <2>2. \A l \in List : Members(l)' = Members(l)
    BY <2>1, MembersStay
  <2>3. ListInv'
    BY <2>1, <2>2 DEF ListInv, ListTypes, ListPaths, ListsApart
  <2> QED
    BY <2>2, <2>3, FifoOf DEF ListStep
<1>2. ASSUME NEW l \in List, NEW n \in Node, PushBack(l, n) PROVE ListStep
  BY <1>2, PushBackStep
<1>3. ASSUME NEW l \in List, PopFront(l) PROVE ListStep
  BY <1>3, PopFrontStep
<1>4. ASSUME NEW l \in List, NEW other \in List, Assign(l, other) PROVE ListStep
  BY <1>4, AssignStep
<1> QED
  BY <1>1, <1>2, <1>3, <1>4 DEF ListNext

\* For any lists and nodes, whatever their links hold to begin with: every
\* iteration ends, at the node back() gives, and no two lists meet, if a list with
\* nodes is not copied.
THEOREM ListsSound == ~SharesNodes => (ListSpec => []ListsAreSound)
<1> SUFFICES ASSUME ~SharesNodes PROVE ListSpec => []ListsAreSound
  OBVIOUS
<1>1. ListInit => ListInv
  BY ListBegin
<1>2. ListInv /\ [ListNext]_listVars => ListInv'
  BY ListInvariance DEF ListStep
<1>3. ListInv => ListsAreSound
  BY ListInvSound
<1> QED
  BY <1>1, <1>2, <1>3, PTL DEF ListSpec

\* And each list implements Fifo: it gives its nodes back in the order they were
\* pushed, also after it was emptied with a stale list_back.
THEOREM ListsServeInOrder == ~SharesNodes => (ListSpec => ListServesInOrder)
<1> SUFFICES ASSUME ~SharesNodes PROVE ListSpec => ListServesInOrder
  OBVIOUS
<1>1. ListInit => ListInv /\ \A l \in List : InOrder(l)!Init
  BY ListBegin
<1>2. ListInv /\ [ListNext]_listVars => ListInv' /\ \A l \in List : InOrder(l)!Step
  BY ListInvariance DEF ListStep
<1> QED
  BY <1>1, <1>2, PTL DEF ListSpec, ListServesInOrder

-----------------------------------------------------------------------------
(* ChunkQueue: the order of the elements across the chunks *)

\* The place of slot j of the i-th chunk in the chain, and where place k is
Position(i, j) == (chunk_elements * (i - 1)) + j
ChunkOf(k)   == (k \div chunk_elements) + 1
SlotOf(k)    == k % chunk_elements

LEMMA PositionParts ==
    ASSUME NEW k \in Nat
    PROVE  /\ ChunkOf(k) \in Nat \ {0} /\ SlotOf(k) \in Slot
           /\ k = Position(ChunkOf(k), SlotOf(k))
<1>1. PICK c \in Nat \ {0} : c = chunk_elements
  BY QueueAssumption
<1>2. k = (c * (k \div c)) + (k % c) /\ k % c \in 0 .. c - 1 /\ k \div c \in Nat
  OBVIOUS
<1>3. PICK q \in Nat : q = k \div c
  BY <1>2
<1>4. q + 1 \in Nat \ {0} /\ (q + 1) - 1 = q
  OBVIOUS
<1> QED
  BY <1>1, <1>2, <1>3, <1>4 DEF ChunkOf, SlotOf, Position, Slot

LEMMA PositionOf ==
    ASSUME NEW i \in Nat \ {0}, NEW j \in Slot
    PROVE  Position(i, j) \in Nat /\ ChunkOf(Position(i, j)) = i /\ SlotOf(Position(i, j)) = j
<1>1. PICK c \in Nat \ {0} : c = chunk_elements
  BY QueueAssumption
<1>2. i - 1 \in Nat /\ j \in 0 .. c - 1 /\ j \in Nat
  BY <1>1 DEF Slot
<1>3. c * (i - 1) \in Nat
  BY <1>2
<1>4. PICK k \in Nat : k = (c * (i - 1)) + j
  BY <1>2, <1>3
<1>5. PICK q \in Nat, r \in 0 .. c - 1 : k = (c * q) + r /\ r = k % c /\ q = k \div c
  <2>1. k = (c * (k \div c)) + (k % c) /\ k % c \in 0 .. c - 1 /\ k \div c \in Nat
    OBVIOUS
  <2> QED
    BY <2>1
<1>6. q = i - 1 /\ r = j
  BY <1>2, <1>4, <1>5, SameRemainder
<1>7. Position(i, j) = k
  BY <1>1, <1>4 DEF Position
<1>8. q + 1 = i
  BY <1>6
<1> QED
  BY <1>1, <1>5, <1>6, <1>7, <1>8 DEF ChunkOf, SlotOf

\* A place is before another if its chunk is, or if it is in the same chunk
LEMMA PositionOrder ==
    ASSUME NEW i \in Nat \ {0}, NEW n \in Nat \ {0}, NEW j \in Slot,
           NEW e \in 0 .. chunk_elements
    PROVE  /\ Position(i, j) \in Nat /\ Position(n, e) \in Nat
           /\ i < n => Position(i, j) < Position(n, e)
           /\ i = n => (Position(i, j) < Position(n, e) <=> j < e)
           /\ i > n => Position(i, j) >= Position(n, e)
<1>1. PICK c \in Nat \ {0} : c = chunk_elements
  BY QueueAssumption
<1>2. j \in Nat /\ j < c /\ e \in Nat /\ e <= c
  BY <1>1 DEF Slot
<1>3. c * (i - 1) \in Nat /\ c * (n - 1) \in Nat
  <2>1. i - 1 \in Nat /\ n - 1 \in Nat
    OBVIOUS
  <2> QED
    BY <2>1
<1>4. PICK s \in Nat : s = c * (i - 1)
  BY <1>3
<1>5. PICK t \in Nat : t = c * (n - 1)
  BY <1>3
<1>6. Position(i, j) = s + j /\ Position(n, e) = t + e
  BY <1>1, <1>4, <1>5 DEF Position
<1>7. ASSUME i < n PROVE s + c <= t
  <2>1. n - 1 >= (i - 1) + 1 /\ n - 1 \in Nat /\ i - 1 \in Nat
    BY <1>7
  <2>2. PICK g \in Nat : n - 1 = (i - 1) + 1 + g
    <3>1. (n - 1) - ((i - 1) + 1) \in Nat
      BY <2>1
    <3> QED
      BY <3>1
  <2>3. c * (n - 1) = c * (i - 1) + c + c * g
    BY <2>1, <2>2
  <2>4. c * g \in Nat
    OBVIOUS
  <2> QED
    BY <1>4, <1>5, <2>3, <2>4
<1>8. ASSUME i > n PROVE t + c <= s
  <2>1. i - 1 >= (n - 1) + 1 /\ n - 1 \in Nat /\ i - 1 \in Nat
    BY <1>8
  <2>2. PICK g \in Nat : i - 1 = (n - 1) + 1 + g
    <3>1. (i - 1) - ((n - 1) + 1) \in Nat
      BY <2>1
    <3> QED
      BY <3>1
  <2>3. c * (i - 1) = c * (n - 1) + c + c * g
    BY <2>1, <2>2
  <2>4. c * g \in Nat
    OBVIOUS
  <2> QED
    BY <1>4, <1>5, <2>3, <2>4
<1>9. i = n => s = t
  BY <1>4, <1>5
<1> QED
  BY <1>2, <1>6, <1>7, <1>8, <1>9

\* The first chunk begins at place 0, and the end of a chunk is the beginning of
\* the next one
LEMMA PositionEdges ==
    /\ \A j \in 0 .. chunk_elements : Position(1, j) = j
    /\ \A i \in Nat : Position(i, chunk_elements) = Position(i + 1, 0)
    /\ \A i \in Nat, j \in Int : Position(i + 1, j) = Position(i, j) + chunk_elements
    /\ \A i \in Nat, j \in Int : Position(i, j) + 1 = Position(i, j + 1)
    /\ \A i \in Nat : Position(i + 1, 0) = i * chunk_elements
<1>1. PICK c \in Nat \ {0} : c = chunk_elements
  BY QueueAssumption
<1>2. \A j \in 0 .. c : (c * (1 - 1)) + j = j
  OBVIOUS
<1>3. ASSUME NEW i \in Nat
      PROVE c * ((i + 1) - 1) = c * (i - 1) + c /\ c * (i - 1) \in Int /\ c * ((i + 1) - 1) = i * c
  OBVIOUS
<1>4. \A i \in Nat : (c * (i - 1)) + c = (c * ((i + 1) - 1)) + 0
  BY <1>3
<1>5. \A i \in Nat, j \in Int : (c * ((i + 1) - 1)) + j = (c * (i - 1)) + j + c
  BY <1>3
<1>6. \A i \in Nat, j \in Int : (c * (i - 1)) + j + 1 = (c * (i - 1)) + (j + 1)
  BY <1>3
<1>7. \A i \in Nat : (c * ((i + 1) - 1)) + 0 = i * c
  BY <1>3
<1> QED
  BY <1>1, <1>2, <1>4, <1>5, <1>6, <1>7 DEF Position
\* w collects the slots of s that hold an element, in their order
Gathers(w, s, n) ==
    w = [k \in 0 .. n |-> IF k = 0 THEN << >>
                          ELSE IF s[k] = Empty THEN w[k - 1]
                          ELSE Append(w[k - 1], s[k])]

\* The collection itself, as Contents defines it
Gather(s, n) ==
    LET upto[k \in 0 .. n] ==
            IF k = 0 THEN << >>
            ELSE IF s[k] = Empty THEN upto[k - 1]
            ELSE Append(upto[k - 1], s[k])
    IN upto

LEMMA GatherExists ==
    ASSUME NEW s, NEW n \in Nat
    PROVE  \E w : Gathers(w, s, n)
<1> DEFINE T == {m \in Nat : ~ \E w : Gathers(w, s, m)}
<1>1. SUFFICES ASSUME T # {} PROVE FALSE
  OBVIOUS
<1>2. PICK m \in T : m \in Nat /\ \A y \in Nat : y < m => y \notin T
  <2> HIDE DEF T
  <2>1. T \subseteq Nat
    BY DEF T
  <2> QED
    BY <1>1, <2>1, Least
<1>3. CASE m = 0
  <2>1. PICK w : w = [k \in 0 .. 0 |-> << >>]
    OBVIOUS
  <2>2. Gathers(w, s, 0)
    BY <2>1 DEF Gathers
  <2> QED
    BY <1>2, <1>3, <2>2
<1>4. CASE m # 0
  <2>1. m - 1 \in Nat /\ m - 1 < m
    BY <1>2, <1>4
  <2>2. PICK v : Gathers(v, s, m - 1)
    BY <1>2, <2>1
  <2>3. PICK w : w = [k \in 0 .. m |-> IF k = m
                        THEN IF s[m] = Empty THEN v[m - 1] ELSE Append(v[m - 1], s[m])
                        ELSE v[k]]
    OBVIOUS
  <2>4. \A k \in 0 .. m - 1 : w[k] = v[k]
    BY <1>2, <2>1, <2>3
  <2>5. \A k \in 0 .. m - 1 :
          v[k] = IF k = 0 THEN << >> ELSE IF s[k] = Empty THEN v[k - 1]
                 ELSE Append(v[k - 1], s[k])
    BY <2>2 DEF Gathers
  <2>6. \A k \in 0 .. m :
          w[k] = IF k = 0 THEN << >> ELSE IF s[k] = Empty THEN w[k - 1]
                 ELSE Append(w[k - 1], s[k])
    <3> TAKE k \in 0 .. m
    <3>1. CASE k = m
      BY <1>2, <1>4, <2>1, <2>3, <2>4, <3>1
    <3>2. CASE k # m
      <4>1. k \in 0 .. m - 1 /\ (k # 0 => k - 1 \in 0 .. m - 1)
        BY <1>2, <3>2
      <4> QED
        BY <2>4, <2>5, <4>1
    <3> QED
      BY <3>1, <3>2
  <2>7. Gathers(w, s, m)
    BY <2>3, <2>6 DEF Gathers
  <2> QED
    BY <1>2, <2>7
<1> QED
  BY <1>3, <1>4

LEMMA GatherGathers ==
    ASSUME NEW s, NEW n \in Nat
    PROVE  Gathers(Gather(s, n), s, n)
<1>1. \E w : Gathers(w, s, n)
  BY GatherExists
<1>2. Gather(s, n) = CHOOSE w : Gathers(w, s, n)
  BY DEF Gather, Gathers
<1> QED
  BY <1>1, <1>2

\* A run of elements from behind lo
Run(s, lo, m) == [i \in 1 .. m |-> s[lo + i]]

LEMMA RunGrows ==
    ASSUME NEW s, NEW lo \in Nat, NEW m \in Nat,
           \A i \in 1 .. m + 1 : s[lo + i] \in Value
    PROVE  Append(Run(s, lo, m), s[lo + m + 1]) = Run(s, lo, m + 1)
<1>1. PICK r : r = Run(s, lo, m)
  OBVIOUS
<1>2. r \in Seq(Value) /\ Len(r) = m
  <2>1. \A i \in 1 .. m : i \in 1 .. m + 1
    OBVIOUS
  <2>2. r \in [1 .. m -> Value]
    BY <1>1, <2>1 DEF Run
  <2> QED
    BY <2>2, LenProperties, IsASeq
<1>3. PICK q : q = Append(r, s[lo + m + 1])
  OBVIOUS
<1>4. (lo + m) + 1 = lo + (m + 1) /\ m + 1 \in 1 .. m + 1 /\ lo + m + 1 = lo + (m + 1)
  OBVIOUS
<1>5. s[lo + m + 1] \in Value
  BY <1>4
<1>6. q \in Seq(Value) /\ Len(q) = m + 1 /\ (\A i \in 1 .. m : q[i] = r[i]) /\ q[m + 1] = s[lo + m + 1]
  BY <1>2, <1>3, <1>5, AppendProperties
<1>7. ASSUME NEW i \in 1 .. m + 1 PROVE q[i] = s[lo + i]
  <2>1. CASE i = m + 1
    BY <1>4, <1>6, <2>1
  <2>2. CASE i # m + 1
    <3>1. i \in 1 .. m
      BY <2>2
    <3> QED
      BY <1>1, <1>6, <3>1 DEF Run
  <2> QED
    BY <2>1, <2>2
<1>8. q = [i \in 1 .. m + 1 |-> q[i]]
  BY <1>6, LenProperties
<1>9. q = Run(s, lo, m + 1)
  BY <1>7, <1>8 DEF Run
<1> QED
  BY <1>1, <1>3, <1>9

\* Of n slots, those behind lo up to hi hold elements
Filled(s, n, lo, hi) ==
    \A k \in 1 .. n : s[k] \in Value \union {Empty} /\ (s[k] # Empty <=> lo < k /\ k <= hi)

\* ... and these are collected
LEMMA GatherInterval ==
    ASSUME NEW n \in Nat, NEW s, NEW lo \in Nat, NEW hi \in 0 .. n, lo <= hi,
           Filled(s, n, lo, hi), NEW w, Gathers(w, s, n)
    PROVE  w[n] = Run(s, lo, hi - lo)
<1> DEFINE Upto(k) == IF k <= lo THEN 0 ELSE IF k <= hi THEN k - lo ELSE hi - lo
           Right(k) == w[k] = Run(s, lo, Upto(k))
           T == {k \in 0 .. n : ~Right(k)}
<1>1. \A k \in 0 .. n :
        w[k] = IF k = 0 THEN << >> ELSE IF s[k] = Empty THEN w[k - 1]
               ELSE Append(w[k - 1], s[k])
  BY DEF Gathers
<1>a. \A k \in 1 .. n : s[k] \in Value \union {Empty} /\ (s[k] # Empty <=> lo < k /\ k <= hi)
  BY DEF Filled
<1>2. T = {}
  <2>1. SUFFICES ASSUME T # {} PROVE FALSE
    OBVIOUS
  <2>2. PICK m \in T : m \in Nat /\ \A y \in Nat : y < m => y \notin T
    <3> HIDE DEF T
    <3>1. T \subseteq Nat
      BY DEF T
    <3> QED
      BY <2>1, <3>1, Least
  <2>3. m \in 0 .. n /\ ~Right(m)
    OBVIOUS
  <2>4. CASE m = 0
    <3>1. w[0] = << >> /\ Upto(0) = 0
      BY <1>1, <2>3, <2>4
    <3>2. Run(s, lo, 0) = << >>
      BY DEF Run
    <3> QED
      BY <2>3, <2>4, <3>1, <3>2
  <2>5. CASE m # 0
    <3>1. m - 1 \in 0 .. n /\ m - 1 \in Nat /\ m - 1 < m /\ m \in 1 .. n
      BY <2>3, <2>5
    <3>2. Right(m - 1)
      BY <2>2, <3>1
    <3>3. w[m] = IF s[m] = Empty THEN w[m - 1] ELSE Append(w[m - 1], s[m])
      BY <1>1, <2>3, <2>5
    <3>4. CASE lo < m /\ m <= hi
      <4>1. Upto(m - 1) = m - 1 - lo /\ Upto(m) = m - lo /\ m - 1 - lo \in Nat
            /\ lo + (m - 1 - lo) + 1 = m /\ (m - 1 - lo) + 1 = m - lo
        BY <3>1, <3>4
      <4>2. s[m] # Empty
        BY <1>a, <3>1, <3>4
      <4>3. PICK g \in Nat : g = m - 1 - lo
        BY <4>1
      <4>4. \A i \in 1 .. g + 1 : s[lo + i] \in Value
        <5>1. \A i \in 1 .. g + 1 : lo + i \in 1 .. n /\ lo < lo + i /\ lo + i <= hi
          BY <3>1, <3>4, <4>3
        <5> QED
          BY <1>a, <5>1
      <4>5. Append(Run(s, lo, g), s[lo + g + 1]) = Run(s, lo, g + 1)
        BY <4>4, RunGrows
      <4>6. w[m] = Append(Run(s, lo, g), s[m]) /\ lo + g + 1 = m /\ Upto(m) = g + 1
        BY <3>2, <3>3, <4>1, <4>2, <4>3
      <4> QED
        BY <2>3, <4>5, <4>6
    <3>5. CASE ~(lo < m /\ m <= hi)
      <4>1. s[m] = Empty
        BY <1>a, <3>1, <3>5
      <4>2. Upto(m) = Upto(m - 1)
        BY <3>1, <3>5
      <4> QED
        BY <2>3, <3>2, <3>3, <4>1, <4>2
    <3> QED
      BY <3>4, <3>5
  <2> QED
    BY <2>4, <2>5
<1>3. n \in 0 .. n
  OBVIOUS
<1>4. Right(n)
  BY <1>2, <1>3
<1>5. Upto(n) = hi - lo
  OBVIOUS
<1> QED
  BY <1>4, <1>5
\* The slot at place k of the chain p, of chunks with the slots d
SlotAt(p, d, k) == d[p[ChunkOf(k)]][SlotOf(k)]

\* The slots of the places from lo up to hi
Held(p, d, lo, hi) == [i \in 1 .. hi - lo |-> SlotAt(p, d, (lo + i) - 1)]

\* The chunks, and the contents, from the first chunk, the links and the slots
Linked(a, nx) ==
    {Walk(a, nx, Null, Cardinality(Chunk))[i] : i \in 0 .. Cardinality(Chunk)} \ {Null}
Slots(a, nx, d, n) ==
    [k \in 1 .. n |->
        d[Walk(a, nx, Null, Cardinality(Chunk))[(k - 1) \div chunk_elements]]
            [(k - 1) % chunk_elements]]
Gathered(a, nx, d, n) == Gather(Slots(a, nx, d, n), n)[n]

LEMMA ContentsGathered ==
    /\ Chain = Linked(m_front, next) /\ Chain' = Linked(m_front', next')
    /\ Contents = Gathered(m_front, next, data, Cardinality(Chain) * chunk_elements)
    /\ Contents' = Gathered(m_front', next', data', Cardinality(Chain') * chunk_elements)
<1>1. /\ At = Walk(m_front, next, Null, Cardinality(Chunk))
      /\ At' = Walk(m_front', next', Null, Cardinality(Chunk))
  BY DEF At, Walk
<1>2. Chain = Linked(m_front, next) /\ Chain' = Linked(m_front', next')
  BY <1>1 DEF Chain, Linked
<1>3. Contents = Gathered(m_front, next, data, Cardinality(Chain) * chunk_elements)
  BY <1>1 DEF Contents, Gathered, Gather, Slots
<1>4. Contents' = Gathered(m_front', next', data', Cardinality(Chain') * chunk_elements)
  BY <1>1 DEF Contents, Gathered, Gather, Slots
<1> QED
  BY <1>2, <1>3, <1>4

LEMMA LinkedAre ==
    ASSUME NEW p, NEW a, NEW nx, Path(p, a, nx, Null, Chunk)
    PROVE  /\ Linked(a, nx) = {p[i] : i \in 1 .. Len(p)}
           /\ Cardinality(Linked(a, nx)) = Len(p)
           /\ \A i \in 1 .. Len(p) :
                Walk(a, nx, Null, Cardinality(Chunk))[i - 1] = p[i]
<1>1. Len(p) \in Nat /\ Len(p) <= Cardinality(Chunk) /\ Cardinality(Chunk) \in Nat
  BY QueueAssumption, PathFits
<1>2. PICK n \in Nat : n = Cardinality(Chunk)
  BY <1>1
<1>3. PICK w : w = Walk(a, nx, Null, n)
  OBVIOUS
<1>4. Follows(w, a, nx, Null, n)
  BY <1>3, WalkFollows
<1>5. \A i \in 0 .. n : w[i] = IF i < Len(p) THEN p[i + 1] ELSE Null
  BY <1>4, WalkIsPath
<1>6. p \in Seq(Chunk) /\ Null \notin Chunk /\ \A i \in 1 .. Len(p) : p[i] \in Chunk
  BY ElementOfSeq DEF Path
<1>7. ASSUME NEW i \in 1 .. Len(p) PROVE i - 1 \in 0 .. n /\ w[i - 1] = p[i]
  <2>1. i - 1 \in 0 .. n /\ i - 1 < Len(p) /\ (i - 1) + 1 = i
    BY <1>1, <1>2
  <2> QED
    BY <1>5, <2>1
<1>8. ASSUME NEW i \in 0 .. n, w[i] # Null PROVE i + 1 \in 1 .. Len(p) /\ w[i] = p[i + 1]
  BY <1>1, <1>5, <1>8
<1>9. PICK S : S = {w[i] : i \in 0 .. n} \ {Null}
  OBVIOUS
<1>10. S = {p[i] : i \in 1 .. Len(p)}
  BY <1>6, <1>7, <1>8, <1>9
<1>11. Cardinality(S) = Len(p)
  <2>1. p \in Surjection(1 .. Len(p), S) /\ p \in Injection(1 .. Len(p), S)
    <3>1. p \in [1 .. Len(p) -> S]
      BY <1>6, <1>10, LenProperties
    <3> QED
      BY <1>10, <3>1 DEF Path, Surjection, Injection, IsInjective
  <2>2. IsFiniteSet(1 .. Len(p)) /\ Cardinality(1 .. Len(p)) = Len(p)
    <3>1. PICK m \in Nat : m = Len(p)
      BY <1>1
    <3>2. IsFiniteSet(1 .. m) /\ Cardinality(1 .. m) = IF 1 > m THEN 0 ELSE m - 1 + 1
      BY FS_Interval
    <3> QED
      BY <3>1, <3>2
  <2> QED
    BY <2>1, <2>2, FS_Surjection
<1>12. Linked(a, nx) = S
  BY <1>2, <1>3, <1>9 DEF Linked
<1> QED
  BY <1>2, <1>3, <1>7, <1>10, <1>11, <1>12

\* If exactly the places from lo up to hi hold elements, these are the contents
LEMMA GatheredAre ==
    ASSUME NEW p, NEW a, NEW nx, Path(p, a, nx, Null, Chunk),
           NEW d \in [Chunk -> [Slot -> Value \union {Empty}]],
           NEW n \in Nat, n = Len(p) * chunk_elements,
           NEW lo \in Nat, NEW hi \in 0 .. n, lo <= hi,
           \A k \in 0 .. n - 1 : SlotAt(p, d, k) # Empty <=> lo <= k /\ k < hi
    PROVE  Gathered(a, nx, d, n) = Held(p, d, lo, hi)
<1>1. PICK m \in Nat : m = Len(p)
  BY LenProperties DEF Path
<1>2. PICK s : s = Slots(a, nx, d, n)
  OBVIOUS
<1>3. ASSUME NEW k \in 1 .. n
      PROVE  s[k] = SlotAt(p, d, k - 1) /\ s[k] \in Value \union {Empty}
  <2>1. k - 1 \in Nat
    OBVIOUS
  <2>2. PICK q \in Nat \ {0} : q = ChunkOf(k - 1)
    BY <2>1, PositionParts
  <2>3. PICK r \in Slot : r = SlotOf(k - 1)
    BY <2>1, PositionParts
  <2>4. k - 1 = Position(q, r)
    BY <2>1, <2>2, <2>3, PositionParts
  <2>5. q <= m
    <3>1. n = Position(m + 1, 0)
      BY <1>1, PositionEdges
    <3>2. m + 1 \in Nat \ {0} /\ 0 \in 0 .. chunk_elements
      BY QueueAssumption
    <3>3. q > m + 1 => Position(q, r) >= Position(m + 1, 0)
      BY <3>2, PositionOrder
    <3>4. q = m + 1 => (Position(q, r) < Position(m + 1, 0) <=> r < 0)
      BY <3>2, PositionOrder
    <3>5. ~(r < 0) /\ k - 1 < n
      BY QueueAssumption DEF Slot
    <3>6. ~(q > m + 1) /\ q # m + 1
      BY <2>4, <3>1, <3>3, <3>4, <3>5
    <3> QED
      BY <3>6
  <2>6. q \in 1 .. Len(p) /\ (k - 1) \div chunk_elements = q - 1 /\ (k - 1) % chunk_elements = r
    <3>1. (k - 1) \div chunk_elements \in Int
      BY QueueAssumption
    <3> QED
      BY <1>1, <2>2, <2>3, <2>5, <3>1 DEF ChunkOf, SlotOf
  <2>7. s[k] = d[Walk(a, nx, Null, Cardinality(Chunk))[q - 1]][r]
    BY <1>2, <2>6 DEF Slots
  <2>8. Walk(a, nx, Null, Cardinality(Chunk))[q - 1] = p[q]
    BY <2>6, LinkedAre
  <2>9. p[q] \in Chunk
    BY <2>6, ElementOfSeq DEF Path
  <2> QED
    BY <2>2, <2>3, <2>7, <2>8, <2>9 DEF SlotAt
<1>4. \A k \in 1 .. n : s[k] # Empty <=> lo < k /\ k <= hi
  <2> TAKE k \in 1 .. n
  <2>1. k - 1 \in 0 .. n - 1 /\ (lo <= k - 1 <=> lo < k) /\ (k - 1 < hi <=> k <= hi)
    OBVIOUS
  <2> QED
    BY <1>3, <2>1
<1>5. Filled(s, n, lo, hi)
  BY <1>3, <1>4 DEF Filled
<1>6. PICK w : w = Gather(s, n)
  OBVIOUS
<1>7. Gathers(w, s, n)
  BY <1>6, GatherGathers
<1>8. w[n] = Run(s, lo, hi - lo)
  BY <1>5, <1>7, GatherInterval
<1>9. Run(s, lo, hi - lo) = Held(p, d, lo, hi)
  <2>1. ASSUME NEW i \in 1 .. hi - lo PROVE s[lo + i] = SlotAt(p, d, (lo + i) - 1)
    <3>1. lo + i \in 1 .. n
      OBVIOUS
    <3> QED
      BY <1>3, <3>1
  <2> QED
    BY <2>1 DEF Run, Held
<1> QED
  BY <1>2, <1>6, <1>8, <1>9 DEF Gathered
\* p lists the chunks: the members, the links, the heap and the slots fit it
Typed(h, nx, d, f, e) ==
    /\ h \in [Chunk -> BOOLEAN] /\ nx \in [Chunk -> Chunk \union {Null}]
    /\ d \in [Chunk -> [Slot -> Value \union {Empty}]]
    /\ f \in Slot /\ e \in 0 .. chunk_elements

\* What lives in the i-th of n chunks
Lives(i, n, f, e, j) == (i = 1 => f <= j) /\ (i = n => j < e)

Shaped(p, h, nx, d, a, b, f, e) ==
    /\ Typed(h, nx, d, f, e)
    /\ Path(p, a, nx, Null, Chunk)
    /\ b = IF p = << >> THEN Null ELSE p[Len(p)]
    /\ p = << >> => f = 0 /\ e = 0
    /\ Len(p) = 1 => f <= e
    /\ \A c \in Chunk : h[c] <=> \E i \in 1 .. Len(p) : p[i] = c
    /\ \A c \in Chunk : ~h[c] => nx[c] = Null /\ \A j \in Slot : d[c][j] = Empty
    /\ \A i \in 1 .. Len(p), j \in Slot : d[p[i]][j] # Empty <=> Lives(i, Len(p), f, e, j)

\* The place behind the last element
Behind(p, e) == IF p = << >> THEN 0 ELSE Position(Len(p), e)

\* The chunk and the slot of a place in a chain of m chunks
LEMMA PlaceInChain ==
    ASSUME NEW m \in Nat, NEW k \in Nat, k < m * chunk_elements
    PROVE  ChunkOf(k) \in 1 .. m /\ SlotOf(k) \in Slot /\ k = Position(ChunkOf(k), SlotOf(k))
<1>1. PICK q \in Nat \ {0} : q = ChunkOf(k)
  BY PositionParts
<1>2. PICK r \in Slot : r = SlotOf(k)
  BY PositionParts
<1>3. k = Position(q, r)
  BY <1>1, <1>2, PositionParts
<1>4. m * chunk_elements = Position(m + 1, 0)
  BY PositionEdges
<1>5. m + 1 \in Nat \ {0} /\ 0 \in 0 .. chunk_elements
  BY QueueAssumption
<1>6. q > m + 1 => Position(q, r) >= Position(m + 1, 0)
  BY <1>5, PositionOrder
<1>7. q = m + 1 => (Position(q, r) < Position(m + 1, 0) <=> r < 0)
  BY <1>5, PositionOrder
<1>8. ~(r < 0)
  BY QueueAssumption DEF Slot
<1>9. Position(q, r) \in Nat /\ Position(m + 1, 0) \in Nat
  BY <1>5, PositionOrder
<1>10. Position(q, r) < Position(m + 1, 0)
  BY <1>3, <1>4
<1>11. ~(q > m + 1) /\ q # m + 1
  BY <1>6, <1>7, <1>8, <1>9, <1>10
<1>12. q <= m
  BY <1>11
<1> QED
  BY <1>1, <1>2, <1>3, <1>12

\* In a well formed chain the elements live in the places from f on, up to Behind
LEMMA LivePlaces ==
    ASSUME NEW p, NEW h, NEW nx, NEW d, NEW a, NEW b, NEW f, NEW e,
           Shaped(p, h, nx, d, a, b, f, e),
           NEW n, n = Len(p) * chunk_elements
    PROVE  /\ n \in Nat /\ f \in Nat /\ Behind(p, e) \in 0 .. n /\ f <= Behind(p, e)
           /\ \A k \in 0 .. n - 1 : SlotAt(p, d, k) # Empty <=> f <= k /\ k < Behind(p, e)
<1>1. PICK m \in Nat : m = Len(p) /\ (m = 0 <=> p = << >>)
  BY LenProperties, EmptySeq DEF Shaped, Path
<1>2. PICK ce \in Nat \ {0} : ce = chunk_elements
  BY QueueAssumption
<1>3. f \in Slot /\ f \in 0 .. ce /\ e \in 0 .. ce /\ f \in Nat /\ f < ce /\ e \in Nat
      /\ 0 \in Slot
  BY <1>2 DEF Shaped, Typed, Slot
<1>4. n \in Nat
  BY <1>1, <1>2
<1>5. CASE m = 0
  <2>1. n = 0
    BY <1>1, <1>2, <1>5
  <2>2. Behind(p, e) = 0 /\ f = 0
    BY <1>1, <1>5 DEF Behind, Shaped
  <2> QED
    BY <2>1, <2>2
<1>6. CASE m # 0
  <2>1. m \in Nat \ {0} /\ m + 1 \in Nat \ {0} /\ 1 \in Nat \ {0} /\ e \in 0 .. chunk_elements
    BY <1>2, <1>3, <1>6
  <2>2. Behind(p, e) = Position(m, e)
    BY <1>1, <1>6 DEF Behind
  <2>3. Position(m, e) \in Nat
    BY <1>3, <2>1, PositionOrder
  <2>4. n = Position(m, ce) /\ n = Position(m + 1, 0)
    BY <1>1, <1>2, PositionEdges
  <2>5. Position(m, e) <= n
    <3>1. Position(m, e) = (ce * (m - 1)) + e /\ Position(m, ce) = (ce * (m - 1)) + ce
      BY <1>2 DEF Position
    <3>2. PICK s \in Int : s = ce * (m - 1)
      OBVIOUS
    <3>3. s + e <= s + ce
      BY <1>2, <1>3
    <3> QED
      BY <2>4, <3>1, <3>2, <3>3
  <2>6. Position(1, f) = f
    BY <1>2, <1>3, PositionEdges
  <2>7. f <= Position(m, e)
    <3>1. CASE m = 1
      <4>1. Position(1, e) = e /\ f <= e
        BY <1>1, <1>2, <1>3, <3>1, PositionEdges DEF Shaped
      <4> QED
        BY <3>1, <4>1
    <3>2. CASE m # 1
      <4>1. 1 < m
        BY <1>6, <3>2
      <4>2. Position(1, f) < Position(m, e)
        BY <1>3, <2>1, <4>1, PositionOrder
      <4> QED
        BY <1>3, <2>3, <2>6, <4>2
    <3> QED
      BY <3>1, <3>2
  <2>8. ASSUME NEW k \in 0 .. n - 1
        PROVE  SlotAt(p, d, k) # Empty <=> f <= k /\ k < Position(m, e)
    <3>1. k \in Nat /\ k < m * chunk_elements
      BY <1>1, <1>4
    <3>2. PICK q \in 1 .. m : q = ChunkOf(k)
      BY <3>1, PlaceInChain
    <3>3. PICK r \in Slot : r = SlotOf(k)
      BY <3>1, PlaceInChain
    <3>4. k = Position(q, r) /\ q \in Nat \ {0}
      BY <3>1, <3>2, <3>3, PlaceInChain
    <3>5. SlotAt(p, d, k) = d[p[q]][r]
      BY <3>2, <3>3 DEF SlotAt
    <3>6. d[p[q]][r] # Empty <=> Lives(q, m, f, e, r)
      BY <1>1, <3>2 DEF Shaped
    <3>7. k < Position(m, e) <=> (q = m => r < e)
      <4>1. q < m => Position(q, r) < Position(m, e)
        BY <2>1, <3>4, PositionOrder
      <4>2. q = m => (Position(q, r) < Position(m, e) <=> r < e)
        BY <2>1, <3>4, PositionOrder
      <4>3. q < m \/ q = m
        BY <3>2
      <4>4. q < m => q # m
        BY <3>2
      <4> QED
        BY <3>4, <4>1, <4>2, <4>3, <4>4
    <3>8. f <= k <=> (q = 1 => f <= r)
      <4>1. q = 1 => k = r
        <5>1. r \in 0 .. chunk_elements
          BY QueueAssumption DEF Slot
        <5> QED
          BY <3>4, <5>1, PositionEdges
      <4>2. q # 1 => f <= k
        <5>1. SUFFICES ASSUME q # 1 PROVE f <= k
          OBVIOUS
        <5>2. 1 < q
          BY <3>2, <5>1
        <5>3. r \in 0 .. chunk_elements
          BY QueueAssumption DEF Slot
        <5>4. Position(1, f) < Position(q, r)
          BY <1>3, <2>1, <3>4, <5>2, <5>3, PositionOrder
        <5> QED
          BY <1>3, <2>6, <3>1, <3>4, <5>4
      <4> QED
        BY <4>1, <4>2
    <3> QED
      BY <3>5, <3>6, <3>7, <3>8 DEF Lives
  <2> QED
    BY <1>3, <1>4, <2>2, <2>3, <2>5, <2>7, <2>8
<1> QED
  BY <1>5, <1>6

\* What size(), empty() and a look at the slots then tell
LEMMA Observed ==
    ASSUME NEW p, NEW h, NEW nx, NEW d, NEW a, NEW b, NEW f, NEW e,
           Shaped(p, h, nx, d, a, b, f, e)
    PROVE  /\ Gathered(a, nx, d, Cardinality(Linked(a, nx)) * chunk_elements)
                = Held(p, d, f, Behind(p, e))
           /\ (IF Linked(a, nx) = {} THEN 0
               ELSE (Cardinality(Linked(a, nx)) - 1) * chunk_elements + e - f)
                = Behind(p, e) - f
           /\ (a = Null \/ (a = b /\ f = e)) <=> Behind(p, e) = f
           /\ Behind(p, e) - f \in Nat
<1>1. PICK m \in Nat : m = Len(p) /\ (m = 0 <=> p = << >>)
  BY LenProperties, EmptySeq DEF Shaped, Path
<1>2. PICK ce \in Nat \ {0} : ce = chunk_elements
  BY QueueAssumption
<1>3. PICK n \in Nat : n = m * ce
  BY <1>1, <1>2
<1>4. Path(p, a, nx, Null, Chunk) /\ d \in [Chunk -> [Slot -> Value \union {Empty}]]
      /\ f \in Nat /\ e \in Nat /\ f < ce /\ f \in 0 .. chunk_elements /\ e \in 0 .. chunk_elements
      /\ f \in Slot
  BY <1>2 DEF Shaped, Typed, Slot
<1>5. Cardinality(Linked(a, nx)) = m
  BY <1>1, <1>4, LinkedAre
<1>6. /\ Behind(p, e) \in 0 .. n /\ f <= Behind(p, e)
      /\ \A k \in 0 .. n - 1 : SlotAt(p, d, k) # Empty <=> f <= k /\ k < Behind(p, e)
  BY <1>1, <1>2, <1>3, LivePlaces
<1>7. PICK z \in 0 .. n : z = Behind(p, e)
  BY <1>6
<1>8. Gathered(a, nx, d, n) = Held(p, d, f, z)
  BY <1>1, <1>2, <1>3, <1>4, <1>6, <1>7, GatheredAre
<1>9. z - f \in Nat
  BY <1>4, <1>6, <1>7
<1>10. CASE m = 0
  <2>1. Linked(a, nx) = {} /\ a = Null /\ z = 0 /\ f = 0
    <3>1. 1 .. Len(p) = {}
      BY <1>1, <1>10
    <3>2. Linked(a, nx) = {}
      BY <1>4, <3>1, LinkedAre
    <3> QED
      BY <1>1, <1>7, <1>10, <3>2 DEF Shaped, Path, Behind
  <2> QED
    BY <1>2, <1>3, <1>5, <1>7, <1>8, <1>9, <2>1
<1>11. CASE m # 0
  <2>1. 1 \in 1 .. Len(p) /\ Len(p) \in 1 .. Len(p)
    BY <1>1, <1>11
  <2>2. a = p[1] /\ b = p[Len(p)] /\ a \in Chunk /\ a # Null
    BY <1>1, <1>4, <1>11, <2>1, QueueAssumption, ElementOfSeq DEF Shaped, Path
  <2>3. Linked(a, nx) # {}
    <3>1. PICK S : S = Linked(a, nx)
      OBVIOUS
    <3>2. S = {p[i] : i \in 1 .. Len(p)}
      BY <1>4, <3>1, LinkedAre
    <3>3. p[1] \in S
      BY <2>1, <3>2
    <3> QED
      BY <3>1, <3>3
  <2>4. z = Position(m, e)
    BY <1>1, <1>7, <1>11 DEF Behind
  <2>5. z = (ce * (m - 1)) + e /\ ce * (m - 1) = (m - 1) * ce /\ (m - 1) * ce \in Int
    BY <1>2, <2>4 DEF Position
  <2>6. (m - 1) * ce + e - f = z - f
    BY <1>4, <2>5
  <2>7. (a = b /\ f = e) <=> z = f
    <3>1. CASE m = 1
      <4>1. z = e /\ a = b
        BY <1>1, <1>4, <2>2, <2>4, <3>1, PositionEdges
      <4> QED
        BY <4>1
    <3>2. CASE m # 1
      <4>1. 1 < m
        BY <1>11, <3>2
      <4>2. a # b
        BY <1>1, <1>4, <2>1, <2>2, <4>1 DEF Path
      <4>3. Position(1, f) < Position(m, e) /\ Position(1, f) = f
        BY <1>4, <4>1, PositionOrder, PositionEdges
      <4>4. f # z
        BY <1>4, <2>4, <4>3
      <4> QED
        BY <4>2, <4>4
    <3> QED
      BY <3>1, <3>2
  <2> QED
    BY <1>2, <1>3, <1>5, <1>7, <1>8, <1>9, <2>2, <2>3, <2>6, <2>7
<1> QED
  BY <1>10, <1>11
\* The places from lo up to hi of one chain hold what is g places earlier in
\* another
Shifts(p, d, q, d2, lo, hi, g) ==
    \A k \in Nat : lo <= k /\ k < hi => SlotAt(q, d2, k - g) = SlotAt(p, d, k)

LEMMA HeldSame ==
    ASSUME NEW p, NEW d, NEW q, NEW d2, NEW lo \in Nat, NEW hi \in Nat,
           Shifts(p, d, q, d2, lo, hi, 0)
    PROVE  Held(q, d2, lo, hi) = Held(p, d, lo, hi)
<1>1. ASSUME NEW i \in 1 .. hi - lo
      PROVE  SlotAt(q, d2, (lo + i) - 1) = SlotAt(p, d, (lo + i) - 1)
  <2>1. PICK k \in Nat : k = (lo + i) - 1
    OBVIOUS
  <2>2. lo <= k /\ k < hi /\ k - 0 = k
    BY <2>1
  <2> QED
    BY <2>1, <2>2 DEF Shifts
<1> QED
  BY <1>1 DEF Held

\* t is s with v at its end
Extended(s, v, t) == t = Append(s, v)

LEMMA HeldAppend ==
    ASSUME NEW p, NEW d, NEW q, NEW d2, NEW lo \in Nat, NEW hi \in Nat, lo <= hi,
           Shifts(p, d, q, d2, lo, hi, 0), Held(p, d, lo, hi) \in Seq(Value),
           SlotAt(q, d2, hi) \in Value
    PROVE  Extended(Held(p, d, lo, hi), SlotAt(q, d2, hi), Held(q, d2, lo, hi + 1))
<1>a. PICK v \in Value : v = SlotAt(q, d2, hi)
  OBVIOUS
<1>1. PICK s : s = Held(p, d, lo, hi)
  OBVIOUS
<1>2. PICK m \in Nat : m = hi - lo
  OBVIOUS
<1>3. s = [i \in 1 .. m |-> SlotAt(p, d, (lo + i) - 1)]
  BY <1>1, <1>2 DEF Held
<1>4. Len(s) = m /\ s \in Seq(Value)
  BY <1>1, <1>3, LenProperties
<1>5. PICK t : t = Append(s, v)
  OBVIOUS
<1>6. t \in Seq(Value) /\ Len(t) = m + 1 /\ (\A i \in 1 .. m : t[i] = s[i]) /\ t[m + 1] = v
  BY <1>4, <1>5, AppendProperties
<1>7. t = [i \in 1 .. m + 1 |-> t[i]]
  BY <1>6, LenProperties
<1>8. ASSUME NEW i \in 1 .. m + 1 PROVE t[i] = SlotAt(q, d2, (lo + i) - 1)
  <2>1. CASE i = m + 1
    <3>1. (lo + i) - 1 = hi
      BY <1>2, <2>1
    <3> QED
      BY <1>a, <1>6, <2>1, <3>1
  <2>2. CASE i # m + 1
    <3>1. PICK k \in Nat : k = (lo + i) - 1
      OBVIOUS
    <3>2. i \in 1 .. m /\ lo <= k /\ k < hi /\ k - 0 = k
      BY <1>2, <2>2, <3>1
    <3>3. SlotAt(q, d2, k) = SlotAt(p, d, k)
      BY <3>2 DEF Shifts
    <3>4. t[i] = SlotAt(p, d, (lo + i) - 1)
      BY <1>3, <1>6, <3>2
    <3> QED
      BY <3>1, <3>3, <3>4
  <2> QED
    BY <2>1, <2>2
<1>9. (hi + 1) - lo = m + 1
  BY <1>2
<1>10. t = [i \in 1 .. m + 1 |-> SlotAt(q, d2, (lo + i) - 1)]
  BY <1>7, <1>8
<1>11. t = Held(q, d2, lo, hi + 1)
  BY <1>9, <1>10 DEF Held
<1> QED
  BY <1>a, <1>1, <1>5, <1>11 DEF Extended

\* t is s without its first element
Shortened(s, t) == t = Tail(s)

LEMMA HeldTail ==
    ASSUME NEW p, NEW d, NEW q, NEW d2, NEW lo \in Nat, NEW hi \in Nat, lo < hi,
           NEW g \in Int,
           Shifts(p, d, q, d2, lo + 1, hi, g), Held(p, d, lo, hi) \in Seq(Value)
    PROVE  Shortened(Held(p, d, lo, hi), Held(q, d2, (lo + 1) - g, hi - g))
<1>1. PICK s : s = Held(p, d, lo, hi)
  OBVIOUS
<1>2. PICK m \in Nat : m = (hi - lo) - 1
  OBVIOUS
<1>3. s = [i \in 1 .. m + 1 |-> SlotAt(p, d, (lo + i) - 1)]
  <2>1. hi - lo = m + 1
    BY <1>2
  <2> QED
    BY <1>1, <2>1 DEF Held
<1>4. Len(s) = m + 1 /\ s \in Seq(Value) /\ s # << >>
  <2>1. Len(s) = m + 1 /\ s \in Seq(Value)
    BY <1>1, <1>3, LenProperties
  <2> QED
    BY <2>1, EmptySeq
<1>5. PICK t : t = Tail(s)
  OBVIOUS
<1>6. t \in Seq(Value) /\ Len(t) = m /\ (\A i \in 1 .. m : t[i] = s[i + 1])
  <2>1. t \in Seq(Value) /\ Len(t) = Len(s) - 1 /\ (\A i \in 1 .. Len(t) : t[i] = s[i + 1])
    BY <1>4, <1>5, HeadTailProperties
  <2> QED
    BY <1>4, <2>1
<1>7. t = [i \in 1 .. m |-> t[i]]
  BY <1>6, LenProperties
<1>8. ASSUME NEW i \in 1 .. m PROVE t[i] = SlotAt(q, d2, (((lo + 1) - g) + i) - 1)
  <2>1. PICK k \in Nat : k = lo + i
    OBVIOUS
  <2>2. lo + 1 <= k /\ k < hi /\ k - g = (((lo + 1) - g) + i) - 1 /\ k = (lo + (i + 1)) - 1
        /\ i + 1 \in 1 .. m + 1
    BY <1>2, <2>1
  <2>3. SlotAt(q, d2, k - g) = SlotAt(p, d, k)
    BY <2>2 DEF Shifts
  <2>4. t[i] = SlotAt(p, d, k)
    BY <1>3, <1>6, <2>2
  <2> QED
    BY <2>2, <2>3, <2>4
<1>9. (hi - g) - ((lo + 1) - g) = m
  BY <1>2
<1>10. t = Held(q, d2, (lo + 1) - g, hi - g)
  BY <1>7, <1>8, <1>9 DEF Held
<1> QED
  BY <1>1, <1>5, <1>10 DEF Shortened

\* What is held are elements
LEMMA HeldElements ==
    ASSUME NEW p, NEW h, NEW nx, NEW d, NEW a, NEW b, NEW f, NEW e,
           Shaped(p, h, nx, d, a, b, f, e)
    PROVE  Held(p, d, f, Behind(p, e)) \in Seq(Value)
<1>1. PICK n \in Nat : n = Len(p) * chunk_elements
  BY LivePlaces
<1>2. PICK z \in 0 .. n : z = Behind(p, e)
  BY <1>1, LivePlaces
<1>3. f \in Nat /\ f <= z
  BY <1>1, <1>2, LivePlaces
<1>4. \A k \in 0 .. n - 1 : SlotAt(p, d, k) # Empty <=> f <= k /\ k < z
  BY <1>1, <1>2, LivePlaces
<1>5. ASSUME NEW i \in 1 .. z - f PROVE SlotAt(p, d, (f + i) - 1) \in Value
  <2>1. PICK k \in 0 .. n - 1 : k = (f + i) - 1
    BY <1>3
  <2>2. SlotAt(p, d, k) # Empty
    BY <1>3, <1>4, <2>1
  <2>3. ChunkOf(k) \in 1 .. Len(p) /\ SlotOf(k) \in Slot
    <3>1. Len(p) \in Nat /\ k \in Nat /\ k < Len(p) * chunk_elements
      BY <1>1, LenProperties DEF Shaped, Path
    <3> QED
      BY <3>1, PlaceInChain
  <2>4. p[ChunkOf(k)] \in Chunk
    BY <2>3, ElementOfSeq DEF Shaped, Path
  <2> QED
    BY <2>1, <2>2, <2>3, <2>4 DEF SlotAt, Shaped, Typed
<1>6. PICK m \in Nat : m = z - f
  BY <1>3
<1>7. Held(p, d, f, z) \in [1 .. m -> Value]
  BY <1>5, <1>6 DEF Held
<1> QED
  BY <1>2, <1>6, <1>7, IsASeq
\* Slot j of chunk c is written
Writes(d2, d, c, j, y) == d2 = [d EXCEPT ![c][j] = y]

LEMMA ShapeFacts ==
    ASSUME NEW p, NEW h, NEW nx, NEW d, NEW a, NEW b, NEW f, NEW e,
           Shaped(p, h, nx, d, a, b, f, e)
    PROVE  /\ p \in Seq(Chunk) /\ Len(p) \in Nat /\ (p = << >> <=> Len(p) = 0)
           /\ \A i \in 1 .. Len(p) : p[i] \in Chunk /\ h[p[i]]
           /\ \A i, j \in 1 .. Len(p) : p[i] = p[j] => i = j
           /\ p # << >> => /\ a = p[1] /\ b = p[Len(p)] /\ a \in Chunk /\ b \in Chunk
                           /\ a # Null /\ b # Null /\ h[a] /\ h[b]
           /\ f \in Nat /\ f < chunk_elements /\ e \in Nat /\ e <= chunk_elements
           /\ Behind(p, e) \in Nat /\ f <= Behind(p, e)
<1>1. p \in Seq(Chunk) /\ Len(p) \in Nat /\ (p = << >> <=> Len(p) = 0)
      /\ DOMAIN p = 1 .. Len(p)
  BY LenProperties, EmptySeq DEF Shaped, Path
<1>2. \A i \in 1 .. Len(p) : p[i] \in Chunk
  BY <1>1, ElementOfSeq
<1>3. \A i \in 1 .. Len(p) : h[p[i]]
  BY <1>2 DEF Shaped
<1>4. p # << >> => 1 \in 1 .. Len(p) /\ Len(p) \in 1 .. Len(p)
  BY <1>1
<1>5. p # << >> => a = p[1] /\ b = p[Len(p)]
  BY DEF Shaped, Path
<1>6. PICK ce \in Nat \ {0} : ce = chunk_elements
  BY QueueAssumption
<1>7. f \in Nat /\ f < chunk_elements /\ e \in Nat /\ e <= chunk_elements
  BY <1>6 DEF Shaped, Typed, Slot
<1>8. Behind(p, e) \in Nat /\ f <= Behind(p, e)
  <2>1. PICK n : n = Len(p) * chunk_elements
    OBVIOUS
  <2>2. n \in Nat /\ f <= Behind(p, e) /\ Behind(p, e) \in 0 .. n
    BY <2>1, LivePlaces
  <2> QED
    BY <2>2
<1>9. \A i, j \in 1 .. Len(p) : p[i] = p[j] => i = j
  BY DEF Shaped, Path
<1> QED
  BY <1>1, <1>2, <1>3, <1>4, <1>5, <1>7, <1>8, <1>9, QueueAssumption

\* The place of an element is in the chain
LEMMA HeldPlace ==
    ASSUME NEW p, NEW h, NEW nx, NEW d, NEW a, NEW b, NEW f, NEW e,
           Shaped(p, h, nx, d, a, b, f, e),
           NEW k \in Nat, f <= k, k < Behind(p, e)
    PROVE  /\ ChunkOf(k) \in 1 .. Len(p) /\ SlotOf(k) \in Slot
           /\ k = Position(ChunkOf(k), SlotOf(k))
           /\ p[ChunkOf(k)] \in Chunk /\ h[p[ChunkOf(k)]]
           /\ d[p[ChunkOf(k)]][SlotOf(k)] # Empty
<1>1. PICK n : n = Len(p) * chunk_elements
  OBVIOUS
<1>2. n \in Nat /\ Behind(p, e) \in 0 .. n
  BY <1>1, LivePlaces
<1>3. k < Len(p) * chunk_elements /\ Len(p) \in Nat /\ k \in 0 .. n - 1
  BY <1>1, <1>2, ShapeFacts
<1>4. ChunkOf(k) \in 1 .. Len(p) /\ SlotOf(k) \in Slot /\ k = Position(ChunkOf(k), SlotOf(k))
  BY <1>3, PlaceInChain
<1>5. SlotAt(p, d, k) # Empty
  BY <1>1, <1>3, LivePlaces
<1> QED
  BY <1>4, <1>5, ShapeFacts DEF SlotAt

\* Chunk c becomes the last one of the chain p, which makes q of it
Grown(p, h, nx, a, b, c, q, h2, nx2, a2) ==
    /\ q = Append(p, c)
    /\ h2 = [h EXCEPT ![c] = TRUE]
    /\ nx2 = IF p = << >> THEN nx ELSE [nx EXCEPT ![b] = c]
    /\ a2 = IF p = << >> THEN c ELSE a

\* A chunk is added behind a full one, or as the first one: nothing is seen of it
LEMMA GrowShape ==
    ASSUME NEW p, NEW h, NEW nx, NEW d, NEW a, NEW b, NEW f, NEW e,
           Shaped(p, h, nx, d, a, b, f, e), p = << >> \/ e = chunk_elements,
           NEW c \in Chunk, ~h[c],
           NEW q, NEW h2, NEW nx2, NEW a2, Grown(p, h, nx, a, b, c, q, h2, nx2, a2)
    PROVE  /\ Shaped(q, h2, nx2, d, a2, c, f, 0)
           /\ q # << >>
           /\ Held(q, d, f, Behind(q, 0)) = Held(p, d, f, Behind(p, e))
<1>1. PICK m \in Nat : m = Len(p) /\ (m = 0 <=> p = << >>)
  BY ShapeFacts
<1>2. /\ q = Append(p, c)
      /\ h2 = [h EXCEPT ![c] = TRUE]
      /\ nx2 = IF p = << >> THEN nx ELSE [nx EXCEPT ![b] = c]
      /\ a2 = IF p = << >> THEN c ELSE a
  BY DEF Grown
<1>3. /\ q \in Seq(Chunk) /\ q # << >> /\ Len(q) = m + 1
      /\ \A i \in 1 .. m : q[i] = p[i]
      /\ q[m + 1] = c
  BY <1>1, <1>2, ShapeFacts, AppendProperties
<1>4. \A i \in 1 .. m : p[i] \in Chunk /\ p[i] # c
  BY <1>1, ShapeFacts
<1>5. nx \in [Chunk -> Chunk \union {Null}] /\ nx[c] = Null
      /\ \A j \in Slot : d[c][j] = Empty
  BY DEF Shaped, Typed
<1>6. Path(q, a2, nx2, Null, Chunk)
  <2>1. \A i \in 1 .. Len(p) : p[i] # c
    BY <1>1, <1>4
  <2>2. Path(p, a, nx, Null, Chunk)
    BY DEF Shaped
  <2>3. nx2[c] = Null
    <3>1. p # << >> => b # c
      <4>1. p # << >> => b = p[Len(p)] /\ Len(p) \in 1 .. Len(p)
        BY <1>1, ShapeFacts
      <4> QED
        BY <2>1, <4>1
    <3> QED
      BY <1>2, <1>5, <3>1
  <2>4. p # << >> => nx2[p[Len(p)]] = c
    <3>1. p # << >> => b = p[Len(p)] /\ b \in Chunk
      BY ShapeFacts
    <3> QED
      BY <1>2, <1>5, <3>1
  <2>5. \A i \in 1 .. Len(p) - 1 : nx2[p[i]] = nx[p[i]]
    <3> TAKE i \in 1 .. Len(p) - 1
    <3>1. i \in 1 .. Len(p) /\ Len(p) \in 1 .. Len(p) /\ i # Len(p) /\ p # << >>
      BY <1>1
    <3>2. p[i] # b /\ p[i] \in Chunk /\ b \in Chunk
      BY <3>1, ShapeFacts
    <3> QED
      BY <1>2, <1>5, <3>2
  <2>6. PICK ny : ny = nx2
    OBVIOUS
  <2>7. PICK a3 : a3 = a2
    OBVIOUS
  <2>8. /\ a3 = IF p = << >> THEN c ELSE a
        /\ ny[c] = Null /\ (p # << >> => ny[p[Len(p)]] = c)
    BY <1>2, <2>3, <2>4, <2>6, <2>7
  <2>9. \A i \in 1 .. Len(p) - 1 : ny[p[i]] = nx[p[i]]
    BY <2>5, <2>6
  <2>10. Path(Append(p, c), a3, ny, Null, Chunk)
    BY <2>1, <2>2, <2>8, <2>9, PathAppend
  <2> QED
    BY <1>2, <2>6, <2>7, <2>10
<1>7. Typed(h2, nx2, d, f, 0)
  <2>1. p # << >> => b \in Chunk
    BY ShapeFacts
  <2>2. nx2 \in [Chunk -> Chunk \union {Null}]
    BY <1>2, <1>5, <2>1
  <2>3. h2 \in [Chunk -> BOOLEAN]
    BY <1>2 DEF Shaped, Typed
  <2>4. 0 \in 0 .. chunk_elements
    BY QueueAssumption
  <2> QED
    BY <2>2, <2>3, <2>4 DEF Shaped, Typed
<1>8. Len(q) = 1 => f <= 0
  <2>1. Len(q) = 1 => p = << >>
    <3>1. m + 1 = 1 => m = 0
      OBVIOUS
    <3> QED
      BY <1>1, <1>3, <3>1
  <2> QED
    BY <2>1 DEF Shaped
<1>9. \A x \in Chunk : h2[x] <=> \E i \in 1 .. Len(q) : q[i] = x
  <2> TAKE x \in Chunk
  <2>1. h2[x] <=> h[x] \/ x = c
    BY <1>2 DEF Shaped, Typed
  <2>2. h[x] <=> \E i \in 1 .. m : p[i] = x
    BY <1>1 DEF Shaped
  <2>3. (\E i \in 1 .. m + 1 : q[i] = x) <=> (\E i \in 1 .. m : q[i] = x) \/ q[m + 1] = x
    BY <1>1
  <2> QED
    BY <1>3, <2>1, <2>2, <2>3
<1>10. \A x \in Chunk : ~h2[x] => nx2[x] = Null /\ \A j \in Slot : d[x][j] = Empty
  <2> SUFFICES ASSUME NEW x \in Chunk, ~h2[x]
               PROVE  nx2[x] = Null /\ \A j \in Slot : d[x][j] = Empty
    OBVIOUS
  <2>1. ~h[x] /\ x # c
    BY <1>2 DEF Shaped, Typed
  <2>2. nx[x] = Null /\ \A j \in Slot : d[x][j] = Empty
    BY <2>1 DEF Shaped
  <2>3. p # << >> => b # x
    BY <2>1, ShapeFacts
  <2> QED
    BY <1>2, <1>5, <2>2, <2>3
<1>11. \A i \in 1 .. Len(q), j \in Slot : d[q[i]][j] # Empty <=> Lives(i, Len(q), f, 0, j)
  <2> TAKE i \in 1 .. Len(q), j \in Slot
  <2>1. PICK ce \in Nat \ {0} : ce = chunk_elements
    BY QueueAssumption
  <2>2. j \in Nat /\ j < ce
    BY <2>1 DEF Slot
  <2>3. CASE i = m + 1
    <3>1. d[q[i]][j] = Empty
      BY <1>3, <1>5, <2>3
    <3>2. ~ Lives(i, Len(q), f, 0, j)
      BY <1>3, <2>2, <2>3 DEF Lives
    <3> QED
      BY <3>1, <3>2
  <2>4. CASE i # m + 1
    <3>1. i \in 1 .. m /\ i # Len(q) /\ p # << >>
      BY <1>1, <1>3, <2>4
    <3>2. d[p[i]][j] # Empty <=> Lives(i, m, f, e, j)
      BY <1>1, <3>1 DEF Shaped
    <3>3. e = ce
      BY <2>1, <3>1
    <3>4. Lives(i, m, f, e, j) <=> Lives(i, Len(q), f, 0, j)
      BY <2>2, <3>1, <3>3 DEF Lives
    <3> QED
      BY <1>3, <3>1, <3>2, <3>4
  <2> QED
    BY <2>3, <2>4
<1>12. Shaped(q, h2, nx2, d, a2, c, f, 0)
  BY <1>3, <1>6, <1>7, <1>8, <1>9, <1>10, <1>11 DEF Shaped
<1>13. Behind(q, 0) = Behind(p, e)
  <2>1. Behind(q, 0) = Position(m + 1, 0)
    BY <1>3 DEF Behind
  <2>2. CASE p = << >>
    <3>1. Position(1, 0) = 0
      <4>1. 0 \in 0 .. chunk_elements
        BY QueueAssumption
      <4> QED
        BY <4>1, PositionEdges
    <3> QED
      BY <1>1, <2>1, <2>2, <3>1 DEF Behind
  <2>3. CASE p # << >>
    <3>1. Behind(p, e) = Position(m, chunk_elements)
      BY <1>1, <2>3 DEF Behind
    <3> QED
      BY <2>1, <3>1, PositionEdges
  <2> QED
    BY <2>2, <2>3
<1>14. Shifts(p, d, q, d, f, Behind(p, e), 0)
  <2>1. ASSUME NEW k \in Nat, f <= k, k < Behind(p, e)
        PROVE  SlotAt(q, d, k - 0) = SlotAt(p, d, k)
    <3>1. ChunkOf(k) \in 1 .. m /\ k - 0 = k
      BY <1>1, <2>1, HeldPlace
    <3> QED
      BY <1>3, <3>1 DEF SlotAt
  <2> QED
    BY <2>1 DEF Shifts
<1>15. Held(q, d, f, Behind(p, e)) = Held(p, d, f, Behind(p, e))
  BY <1>14, ShapeFacts, HeldSame
<1> QED
  BY <1>3, <1>12, <1>13, <1>15
\* An element is put behind the last one, in the last chunk
LEMMA PutShape ==
    ASSUME NEW p, NEW h, NEW nx, NEW d, NEW a, NEW b, NEW f, NEW e,
           Shaped(p, h, nx, d, a, b, f, e), p # << >>, e # chunk_elements,
           NEW v \in Value,
           NEW d2, Writes(d2, d, b, e, v)
    PROVE  /\ Shaped(p, h, nx, d2, a, b, f, e + 1)
           /\ Held(p, d2, f, Behind(p, e + 1)) = Append(Held(p, d, f, Behind(p, e)), v)
           /\ d[b][e] = Empty
<1> USE DEF Writes
<1>1. PICK m \in Nat \ {0} : m = Len(p)
  BY ShapeFacts
<1>2. PICK ce \in Nat \ {0} : ce = chunk_elements
  BY QueueAssumption
<1>3. /\ e \in Nat /\ e < ce /\ e \in Slot /\ e + 1 \in 0 .. ce /\ e \in 0 .. ce
      /\ b = p[m] /\ b \in Chunk /\ m \in 1 .. m
  <2>1. e \in Nat /\ e <= ce /\ e # ce
    BY <1>2, ShapeFacts
  <2>2. e < ce /\ e + 1 \in 0 .. ce /\ e \in 0 .. ce /\ e \in 0 .. ce - 1
    BY <2>1
  <2> QED
    BY <1>1, <1>2, <2>1, <2>2, ShapeFacts DEF Slot
<1>4. \A i \in 1 .. m : p[i] \in Chunk /\ (i # m => p[i] # b)
  BY <1>1, <1>3, ShapeFacts
<1>5. /\ d \in [Chunk -> [Slot -> Value \union {Empty}]]
      /\ d2 \in [Chunk -> [Slot -> Value \union {Empty}]]
      /\ d2[b][e] = v
      /\ \A c \in Chunk, j \in Slot : c # b \/ j # e => d2[c][j] = d[c][j]
  BY <1>3 DEF Shaped, Typed
<1>6. d[b][e] = Empty
  <2>1. d[p[m]][e] # Empty <=> Lives(m, m, f, e, e)
    BY <1>1, <1>3 DEF Shaped
  <2>2. ~ Lives(m, m, f, e, e)
    BY <1>3 DEF Lives
  <2> QED
    BY <1>3, <2>1, <2>2
<1>7. Typed(h, nx, d2, f, e + 1)
  BY <1>2, <1>3, <1>5 DEF Shaped, Typed
<1>8. Len(p) = 1 => f <= e + 1
  <2>1. f \in Nat
    BY ShapeFacts
  <2>2. f <= e => f <= e + 1
    BY <1>3, <2>1
  <2>3. Len(p) = 1 => f <= e
    BY DEF Shaped
  <2> QED
    BY <2>2, <2>3
<1>9. \A c \in Chunk : ~h[c] => nx[c] = Null /\ \A j \in Slot : d2[c][j] = Empty
  <2> SUFFICES ASSUME NEW c \in Chunk, ~h[c]
               PROVE  nx[c] = Null /\ \A j \in Slot : d2[c][j] = Empty
    OBVIOUS
  <2>1. c # b
    BY ShapeFacts
  <2> QED
    BY <1>5, <2>1 DEF Shaped
<1>10. \A i \in 1 .. Len(p), j \in Slot : d2[p[i]][j] # Empty <=> Lives(i, Len(p), f, e + 1, j)
  <2> TAKE i \in 1 .. Len(p), j \in Slot
  <2>1. i \in 1 .. m /\ j \in Nat /\ p[i] \in Chunk /\ i \in Nat
    BY <1>1, <1>2, <1>4 DEF Slot
  <2>2. d[p[i]][j] # Empty <=> Lives(i, m, f, e, j)
    BY <1>1 DEF Shaped
  <2>3. CASE i = m /\ j = e
    <3>1. d2[p[i]][j] # Empty
      BY <1>3, <1>5, <2>3, QueueAssumption
    <3>2. Lives(i, m, f, e + 1, j)
      <4>1. m = 1 => f <= e
        BY <1>1 DEF Shaped
      <4> QED
        BY <1>3, <2>3, <4>1 DEF Lives
    <3> QED
      BY <1>1, <3>1, <3>2
  <2>4. CASE ~(i = m /\ j = e)
    <3>1. d2[p[i]][j] = d[p[i]][j]
      BY <1>4, <1>5, <2>1, <2>4
    <3>2. Lives(i, m, f, e, j) <=> Lives(i, m, f, e + 1, j)
      BY <1>3, <2>1, <2>4 DEF Lives
    <3> QED
      BY <1>1, <2>2, <3>1, <3>2
  <2> QED
    BY <2>3, <2>4
<1>11. Shaped(p, h, nx, d2, a, b, f, e + 1)
  <2>1. /\ Path(p, a, nx, Null, Chunk) /\ b = p[Len(p)]
        /\ \A c \in Chunk : h[c] <=> \E i \in 1 .. Len(p) : p[i] = c
    BY DEF Shaped
  <2> QED
    BY <1>7, <1>8, <1>9, <1>10, <2>1 DEF Shaped
<1>12. PICK z \in Nat : z = Behind(p, e)
  BY ShapeFacts
<1>13. Behind(p, e + 1) = z + 1 /\ z = Position(m, e)
  BY <1>1, <1>3, <1>12, PositionEdges DEF Behind
<1>14. ChunkOf(z) = m /\ SlotOf(z) = e
  BY <1>3, <1>13, PositionOf
<1>15. SlotAt(p, d2, z) = v
  BY <1>3, <1>5, <1>14 DEF SlotAt
<1>16. Shifts(p, d, p, d2, f, z, 0)
  <2>1. ASSUME NEW k \in Nat, f <= k, k < z
        PROVE  SlotAt(p, d2, k - 0) = SlotAt(p, d, k)
    <3>1. /\ k - 0 = k /\ p[ChunkOf(k)] \in Chunk /\ SlotOf(k) \in Slot
          /\ d[p[ChunkOf(k)]][SlotOf(k)] # Empty
      BY <1>12, <2>1, HeldPlace
    <3> QED
      BY <1>5, <1>6, <3>1 DEF SlotAt
  <2> QED
    BY <2>1 DEF Shifts
<1>17. Held(p, d2, f, z + 1) = Append(Held(p, d, f, z), v)
  <2>1. f \in Nat /\ f <= z /\ Held(p, d, f, z) \in Seq(Value)
    BY <1>12, ShapeFacts, HeldElements
  <2>2. PICK d3 : d3 = d2
    OBVIOUS
  <2>3. SlotAt(p, d3, z) = v /\ Shifts(p, d, p, d3, f, z, 0)
    BY <1>15, <1>16, <2>2
  <2>4. SlotAt(p, d3, z) \in Value
    BY <2>3
  <2>5. Extended(Held(p, d, f, z), SlotAt(p, d3, z), Held(p, d3, f, z + 1))
    BY <2>1, <2>3, <2>4, HeldAppend
  <2> QED
    BY <2>2, <2>3, <2>5 DEF Extended
<1> QED
  BY <1>6, <1>11, <1>12, <1>13, <1>17

\* What a pop needs to know of the oldest element
LEMMA Oldest ==
    ASSUME NEW p, NEW h, NEW nx, NEW d, NEW a, NEW b, NEW f, NEW e,
           Shaped(p, h, nx, d, a, b, f, e), Behind(p, e) # f
    PROVE  /\ p # << >> /\ f < Behind(p, e) /\ f \in Slot
           /\ ChunkOf(f) = 1 /\ SlotOf(f) = f /\ d[a][f] # Empty
           /\ Len(p) = 1 => f < e
           /\ \A k \in Nat : f + 1 <= k /\ k < Behind(p, e) => ~(ChunkOf(k) = 1 /\ SlotOf(k) = f)
<1>1. f \in Nat /\ f < Behind(p, e) /\ f \in Slot
  <2>1. PICK z \in Nat : z = Behind(p, e)
    BY ShapeFacts
  <2>2. f \in Nat /\ f <= z /\ f # z
    BY <2>1, ShapeFacts
  <2>3. f < z
    BY <2>2
  <2> QED
    BY <2>1, <2>2, <2>3 DEF Shaped, Typed
<1>2. p # << >>
  BY DEF Behind, Shaped
<1>3. f \in 0 .. chunk_elements /\ Position(1, f) = f
  <2>1. f \in 0 .. chunk_elements
    BY <1>1, QueueAssumption DEF Slot
  <2> QED
    BY <2>1, PositionEdges
<1>4. ChunkOf(f) = 1 /\ SlotOf(f) = f
  <2>1. ChunkOf(Position(1, f)) = 1 /\ SlotOf(Position(1, f)) = f
    BY <1>1, PositionOf
  <2> QED
    BY <1>3, <2>1
<1>5. d[a][f] # Empty
  <2>1. d[p[ChunkOf(f)]][SlotOf(f)] # Empty
    BY <1>1, HeldPlace
  <2> QED
    BY <1>2, <1>4, <2>1, ShapeFacts
<1>6. Len(p) = 1 => f < e
  <2>1. SUFFICES ASSUME Len(p) = 1 PROVE f < e
    OBVIOUS
  <2>2. Behind(p, e) = Position(1, e) /\ e \in 0 .. chunk_elements
    BY <1>2, <2>1 DEF Behind, Shaped, Typed
  <2>3. Position(1, e) = e
    BY <2>2, PositionEdges
  <2> QED
    BY <1>1, <2>2, <2>3
<1>7. ASSUME NEW k \in Nat, f + 1 <= k, k < Behind(p, e), ChunkOf(k) = 1, SlotOf(k) = f
      PROVE  FALSE
  <2>1. k = Position(ChunkOf(k), SlotOf(k))
    BY PositionParts
  <2>2. k = f
    BY <1>3, <1>7, <2>1
  <2> QED
    BY <1>1, <1>7, <2>2
<1>8. \A k \in Nat : f + 1 <= k /\ k < Behind(p, e) => ~(ChunkOf(k) = 1 /\ SlotOf(k) = f)
  BY <1>7
<1> QED
  BY <1>1, <1>2, <1>4, <1>5, <1>6, <1>8
\* A pop within the first chunk
LEMMA TakeShape ==
    ASSUME NEW p, NEW h, NEW nx, NEW d, NEW a, NEW b, NEW f, NEW e,
           Shaped(p, h, nx, d, a, b, f, e), Behind(p, e) # f, f + 1 # chunk_elements,
           NEW d2, Writes(d2, d, a, f, Empty)
    PROVE  /\ Shaped(p, h, nx, d2, a, b, f + 1, e)
           /\ Held(p, d2, f + 1, Behind(p, e)) = Tail(Held(p, d, f, Behind(p, e)))
<1> USE DEF Writes
<1>1. PICK m \in Nat \ {0} : m = Len(p)
  BY Oldest, ShapeFacts
<1>2. PICK ce \in Nat \ {0} : ce = chunk_elements
  BY QueueAssumption
<1>3. f \in Nat /\ f < ce /\ f + 1 \in Slot /\ f \in Slot
  <2>1. f \in Nat /\ f < ce /\ f + 1 # ce
    BY <1>2, ShapeFacts
  <2>2. f + 1 \in 0 .. ce - 1 /\ f \in 0 .. ce - 1
    BY <2>1
  <2> QED
    BY <1>2, <2>1, <2>2 DEF Slot
<1>4. a = p[1] /\ a \in Chunk /\ p # << >>
  BY Oldest, ShapeFacts
<1>5. /\ d2 \in [Chunk -> [Slot -> Value \union {Empty}]]
      /\ d2[a][f] = Empty
      /\ \A c \in Chunk, j \in Slot : c # a \/ j # f => d2[c][j] = d[c][j]
  BY <1>3, <1>4 DEF Shaped, Typed
<1>6. e \in Nat /\ (m = 1 => f < e)
  <2>1. e \in Nat
    BY ShapeFacts
  <2>2. m = 1 => f < e
    BY <1>1, Oldest
  <2> QED
    BY <2>1, <2>2
<1>7. \A i \in 1 .. m : p[i] \in Chunk /\ (i # 1 => p[i] # a)
  <2>1. 1 \in 1 .. m
    BY <1>1
  <2> QED
    BY <1>1, <1>4, <2>1, ShapeFacts
<1>8. Typed(h, nx, d2, f + 1, e)
  BY <1>3, <1>5 DEF Shaped, Typed
<1>9. Len(p) = 1 => f + 1 <= e
  BY <1>1, <1>3, <1>6
<1>10. \A c \in Chunk : ~h[c] => nx[c] = Null /\ \A j \in Slot : d2[c][j] = Empty
  <2> SUFFICES ASSUME NEW c \in Chunk, ~h[c]
               PROVE  nx[c] = Null /\ \A j \in Slot : d2[c][j] = Empty
    OBVIOUS
  <2>1. nx[c] = Null /\ \A j \in Slot : d[c][j] = Empty
    BY DEF Shaped
  <2> QED
    BY <1>5, <2>1
<1>11. \A i \in 1 .. Len(p), j \in Slot : d2[p[i]][j] # Empty <=> Lives(i, Len(p), f + 1, e, j)
  <2> TAKE i \in 1 .. Len(p), j \in Slot
  <2>1. i \in 1 .. m /\ j \in Nat /\ p[i] \in Chunk /\ i \in Nat
    BY <1>1, <1>2, <1>7 DEF Slot
  <2>2. d[p[i]][j] # Empty <=> Lives(i, m, f, e, j)
    BY <1>1 DEF Shaped
  <2>3. CASE i = 1 /\ j = f
    <3>1. d2[p[i]][j] = Empty
      BY <1>4, <1>5, <2>3
    <3>2. ~ Lives(i, m, f + 1, e, j)
      BY <1>3, <2>3 DEF Lives
    <3> QED
      BY <1>1, <3>1, <3>2
  <2>4. CASE ~(i = 1 /\ j = f)
    <3>1. d2[p[i]][j] = d[p[i]][j]
      BY <1>5, <1>7, <2>1, <2>4
    <3>2. Lives(i, m, f, e, j) <=> Lives(i, m, f + 1, e, j)
      BY <1>3, <2>1, <2>4 DEF Lives
    <3> QED
      BY <1>1, <2>2, <3>1, <3>2
  <2> QED
    BY <2>3, <2>4
<1>12. Shaped(p, h, nx, d2, a, b, f + 1, e)
  <2>1. /\ Path(p, a, nx, Null, Chunk) /\ b = p[Len(p)]
        /\ \A c \in Chunk : h[c] <=> \E i \in 1 .. Len(p) : p[i] = c
    BY <1>4 DEF Shaped
  <2> QED
    BY <1>4, <1>8, <1>9, <1>10, <1>11, <2>1 DEF Shaped
<1>13. PICK z \in Nat : z = Behind(p, e)
  BY ShapeFacts
<1>14. Shifts(p, d, p, d2, f + 1, z, 0)
  <2>1. ASSUME NEW k \in Nat, f + 1 <= k, k < z
        PROVE  SlotAt(p, d2, k - 0) = SlotAt(p, d, k)
    <3>1. f <= k /\ k - 0 = k
      BY <1>3, <2>1
    <3>2. ChunkOf(k) \in 1 .. m /\ SlotOf(k) \in Slot
      BY <1>1, <1>13, <2>1, <3>1, HeldPlace
    <3>3. ~(ChunkOf(k) = 1 /\ SlotOf(k) = f)
      BY <1>13, <2>1, Oldest
    <3> QED
      BY <1>5, <1>7, <3>1, <3>2, <3>3 DEF SlotAt
  <2> QED
    BY <2>1 DEF Shifts
<1>15. Held(p, d2, f + 1, z) = Tail(Held(p, d, f, z))
  <2>1. f < z /\ Held(p, d, f, z) \in Seq(Value)
    BY <1>13, Oldest, HeldElements
  <2>2. PICK d3 : d3 = d2
    OBVIOUS
  <2>3. Shifts(p, d, p, d3, f + 1, z, 0)
    BY <1>14, <2>2
  <2>4. Shortened(Held(p, d, f, z), Held(p, d3, (f + 1) - 0, z - 0))
    BY <1>3, <2>1, <2>3, HeldTail
  <2>5. (f + 1) - 0 = f + 1 /\ z - 0 = z
    BY <1>3
  <2> QED
    BY <2>2, <2>4, <2>5 DEF Shortened
<1> QED
  BY <1>12, <1>13, <1>15

\* The first chunk of p is freed, which leaves q
Dropped(p, h, nx, d, a, f, q, h2, nx2, d2, a2) ==
    /\ q = Tail(p)
    /\ h2 = [h EXCEPT ![a] = FALSE]
    /\ nx2 = [nx EXCEPT ![a] = Null]
    /\ d2 = [d EXCEPT ![a][f] = Empty]
    /\ a2 = nx[a]

\* The pop that empties the first chunk and goes on to the next one
LEMMA DropShape ==
    ASSUME NEW p, NEW h, NEW nx, NEW d, NEW a, NEW b, NEW f, NEW e,
           Shaped(p, h, nx, d, a, b, f, e), Behind(p, e) # f, f + 1 = chunk_elements, a # b,
           NEW q, NEW h2, NEW nx2, NEW d2, NEW a2,
           Dropped(p, h, nx, d, a, f, q, h2, nx2, d2, a2)
    PROVE  /\ Shaped(q, h2, nx2, d2, a2, b, 0, e)
           /\ Held(q, d2, 0, Behind(q, e)) = Tail(Held(p, d, f, Behind(p, e)))
<1> USE DEF Dropped
<1>1. PICK m \in Nat \ {0} : m = Len(p)
  BY Oldest, ShapeFacts
<1>2. PICK ce \in Nat \ {0} : ce = chunk_elements
  BY QueueAssumption
<1>3. f \in Nat /\ f = ce - 1 /\ f \in Slot /\ 0 \in Slot /\ e \in 0 .. chunk_elements
  <2>1. f \in Nat /\ f + 1 = ce
    BY <1>2, ShapeFacts
  <2>2. f = ce - 1 /\ f \in 0 .. ce - 1 /\ 0 \in 0 .. ce - 1
    BY <2>1
  <2> QED
    BY <1>2, <2>1, <2>2 DEF Slot, Shaped, Typed
<1>4. a = p[1] /\ a \in Chunk /\ p # << >> /\ b = p[m]
  BY <1>1, Oldest, ShapeFacts
<1>5. /\ d2 \in [Chunk -> [Slot -> Value \union {Empty}]]
      /\ d2[a][f] = Empty
      /\ \A c \in Chunk, j \in Slot : c # a \/ j # f => d2[c][j] = d[c][j]
  BY <1>3, <1>4 DEF Shaped, Typed
<1>6. m # 1 /\ m - 1 \in Nat \ {0} /\ m - 1 # 0
  BY <1>4
<1>7. \A i \in 1 .. m : p[i] \in Chunk /\ (i # 1 => p[i] # a)
  <2>1. 1 \in 1 .. m
    BY <1>1
  <2> QED
    BY <1>1, <1>4, <2>1, ShapeFacts
<1>9. Path(q, nx[a], nx, Null, Chunk) /\ Len(q) = m - 1 /\ \A i \in 1 .. m - 1 : q[i] = p[i + 1]
  <2>1. Path(p, a, nx, Null, Chunk)
    BY DEF Shaped
  <2>2. /\ Path(Tail(p), nx[a], nx, Null, Chunk) /\ Len(Tail(p)) = Len(p) - 1
        /\ \A i \in 1 .. Len(Tail(p)) : Tail(p)[i] = p[i + 1]
    BY <1>4, <2>1, PathTail
  <2> QED
    BY <1>1, <2>2
<1>10. ASSUME NEW i \in 1 .. m - 1 PROVE i + 1 \in 1 .. m /\ i + 1 # 1 /\ q[i] \in Chunk /\ q[i] # a
  <2>1. i + 1 \in 1 .. m /\ i + 1 # 1
    OBVIOUS
  <2> QED
    BY <1>7, <1>9, <2>1
<1>11. nx \in [Chunk -> Chunk \union {Null}] /\ h \in [Chunk -> BOOLEAN]
  BY DEF Shaped, Typed
<1>12. Path(q, nx[a], nx2, Null, Chunk)
  <2>1. PICK g : g = nx[a]
    OBVIOUS
  <2>2. PICK ny : ny = nx2
    OBVIOUS
  <2>3. \A i \in 1 .. Len(q) : ny[q[i]] = nx[q[i]]
    BY <1>9, <1>10, <1>11, <2>2
  <2>4. Path(q, g, nx, Null, Chunk)
    BY <1>9, <2>1
  <2>5. Path(q, g, ny, Null, Chunk)
    BY <2>3, <2>4, PathElsewhere
  <2> QED
    BY <2>1, <2>2, <2>5
<1>13. q # << >> /\ b = q[Len(q)]
  <2>1. q # << >>
    BY <1>6, <1>9, EmptySeq
  <2>2. m - 1 \in 1 .. m - 1 /\ (m - 1) + 1 = m
    BY <1>6
  <2> QED
    BY <1>4, <1>9, <2>1, <2>2
<1>14. Typed(h2, nx2, d2, 0, e)
  BY <1>3, <1>4, <1>5, <1>11 DEF Typed
<1>15. \A c \in Chunk : h2[c] <=> \E i \in 1 .. Len(q) : q[i] = c
  <2> TAKE c \in Chunk
  <2>1. h2[c] <=> h[c] /\ c # a
    BY <1>11
  <2>2. h[c] <=> \E i \in 1 .. m : p[i] = c
    BY <1>1 DEF Shaped
  <2>3. ASSUME NEW i \in 1 .. m, p[i] = c, c # a PROVE \E j \in 1 .. m - 1 : q[j] = c
    <3>1. i # 1
      BY <1>4, <2>3
    <3>2. i - 1 \in 1 .. m - 1 /\ (i - 1) + 1 = i
      BY <3>1
    <3> QED
      BY <1>9, <2>3, <3>2
  <2>4. ASSUME NEW j \in 1 .. m - 1, q[j] = c PROVE c # a /\ \E i \in 1 .. m : p[i] = c
    BY <1>9, <1>10, <2>4
  <2> QED
    BY <1>9, <2>1, <2>2, <2>3, <2>4
<1>16. \A c \in Chunk : ~h2[c] => nx2[c] = Null /\ \A j \in Slot : d2[c][j] = Empty
  <2> SUFFICES ASSUME NEW c \in Chunk, ~h2[c]
               PROVE  nx2[c] = Null /\ \A j \in Slot : d2[c][j] = Empty
    OBVIOUS
  <2>1. CASE c = a
    <3>1. nx2[c] = Null
      BY <1>11, <2>1
    <3>2. ASSUME NEW j \in Slot PROVE d2[c][j] = Empty
      <4>1. j = f \/ j < f
        BY <1>2, <1>3 DEF Slot
      <4>2. 1 \in 1 .. Len(p) /\ 1 # Len(p)
        BY <1>1, <1>6
      <4>3. d[p[1]][j] # Empty <=> Lives(1, Len(p), f, e, j)
        BY <4>2 DEF Shaped
      <4>4. j < f => ~ Lives(1, Len(p), f, e, j)
        BY <1>2, <1>3 DEF Lives, Slot
      <4>5. CASE j = f
        BY <1>5, <2>1, <4>5
      <4>6. CASE j # f
        BY <1>4, <1>5, <2>1, <4>1, <4>3, <4>4, <4>6
      <4> QED
        BY <4>5, <4>6
    <3> QED
      BY <3>1, <3>2
  <2>2. CASE c # a
    <3>1. ~h[c]
      BY <1>11, <2>2
    <3>2. nx[c] = Null /\ \A j \in Slot : d[c][j] = Empty
      BY <3>1 DEF Shaped
    <3> QED
      BY <1>5, <1>11, <2>2, <3>2
  <2> QED
    BY <2>1, <2>2
<1>17. \A i \in 1 .. Len(q), j \in Slot : d2[q[i]][j] # Empty <=> Lives(i, Len(q), 0, e, j)
  <2> TAKE i \in 1 .. Len(q), j \in Slot
  <2>1. /\ i \in 1 .. m - 1 /\ i + 1 \in 1 .. m /\ i + 1 # 1 /\ q[i] \in Chunk /\ q[i] # a
        /\ q[i] = p[i + 1] /\ j \in Nat
    BY <1>2, <1>9, <1>10 DEF Slot
  <2>2. d2[q[i]][j] = d[p[i + 1]][j]
    BY <1>5, <2>1
  <2>3. d[p[i + 1]][j] # Empty <=> Lives(i + 1, m, f, e, j)
    BY <1>1, <2>1 DEF Shaped
  <2>4. Lives(i + 1, m, f, e, j) <=> Lives(i, m - 1, 0, e, j)
    BY <2>1 DEF Lives
  <2> QED
    BY <1>9, <2>2, <2>3, <2>4
<1>18. Shaped(q, h2, nx2, d2, a2, b, 0, e)
  <2>1. e \in Nat
    BY ShapeFacts
  <2>2. Len(q) = 1 => 0 <= e
    BY <2>1
  <2> QED
    BY <1>12, <1>13, <1>14, <1>15, <1>16, <1>17, <2>2 DEF Shaped
<1>19. PICK z \in Nat : z = Behind(p, e)
  BY ShapeFacts
<1>20. Behind(q, e) = z - ce /\ z \in Nat
  <2>1. Behind(q, e) = Position(m - 1, e) /\ z = Position(m, e)
    BY <1>1, <1>4, <1>9, <1>13, <1>19 DEF Behind
  <2>2. m - 1 \in Nat /\ e \in Int /\ (m - 1) + 1 = m
    BY <1>3, <1>6
  <2>3. Position((m - 1) + 1, e) = Position(m - 1, e) + chunk_elements
    BY <2>2, PositionEdges
  <2>4. Position(m - 1, e) \in Int
    BY <1>2, <1>3, <2>2 DEF Position
  <2> QED
    BY <1>2, <2>1, <2>2, <2>3, <2>4
<1>21. Shifts(p, d, q, d2, f + 1, z, ce)
  <2>1. ASSUME NEW k \in Nat, f + 1 <= k, k < z
        PROVE  SlotAt(q, d2, k - ce) = SlotAt(p, d, k)
    <3>1. f <= k /\ k - ce \in Nat
      BY <1>2, <1>3, <2>1
    <3>2. /\ ChunkOf(k) \in 1 .. m /\ SlotOf(k) \in Slot
          /\ k = Position(ChunkOf(k), SlotOf(k))
      BY <1>1, <1>19, <2>1, <3>1, HeldPlace
    <3>3. PICK i \in 1 .. m : i = ChunkOf(k)
      BY <3>2
    <3>4. PICK j \in Slot : j = SlotOf(k)
      BY <3>2
    <3>5. j \in Nat /\ j <= f /\ j \in 0 .. chunk_elements
      BY <1>2, <1>3 DEF Slot
    <3>6. i # 1
      <4>1. Position(1, j) = j
        BY <3>5, PositionEdges
      <4> QED
        BY <1>3, <2>1, <3>2, <3>3, <3>4, <3>5, <4>1
    <3>7. i - 1 \in Nat \ {0} /\ i - 1 \in 1 .. m - 1 /\ (i - 1) + 1 = i /\ i - 1 \in Nat
      BY <3>6
    <3>8. k - ce = Position(i - 1, j)
      <4>1. Position((i - 1) + 1, j) = Position(i - 1, j) + chunk_elements
        BY <3>5, <3>7, PositionEdges
      <4>2. Position(i - 1, j) \in Nat
        BY <3>7, PositionOf
      <4> QED
        BY <1>2, <3>2, <3>3, <3>4, <3>7, <4>1, <4>2
    <3>9. ChunkOf(k - ce) = i - 1 /\ SlotOf(k - ce) = j
      BY <3>7, <3>8, PositionOf
    <3>10. q[i - 1] = p[i] /\ q[i - 1] \in Chunk /\ q[i - 1] # a
      BY <1>9, <1>10, <3>7
    <3>11. d2[q[i - 1]][j] = d[p[i]][j]
      BY <1>5, <3>10
    <3> QED
      BY <3>3, <3>4, <3>9, <3>11 DEF SlotAt
  <2> QED
    BY <2>1 DEF Shifts
<1>22. Held(q, d2, 0, Behind(q, e)) = Tail(Held(p, d, f, z))
  <2>1. f < z /\ Held(p, d, f, z) \in Seq(Value)
    BY <1>19, Oldest, HeldElements
  <2>2. PICK d3 : d3 = d2
    OBVIOUS
  <2>3. Shifts(p, d, q, d3, f + 1, z, ce)
    BY <1>21, <2>2
  <2>4. Shortened(Held(p, d, f, z), Held(q, d3, (f + 1) - ce, z - ce))
    BY <1>2, <1>3, <2>1, <2>3, HeldTail
  <2>5. (f + 1) - ce = 0
    BY <1>2, <1>3
  <2> QED
    BY <1>20, <2>2, <2>4, <2>5 DEF Shortened
<1> QED
  BY <1>18, <1>19, <1>22
-----------------------------------------------------------------------------
\* The chunks of a queue that can be used are a chain of this form, and so far
\* nothing was misused
ShapedBy(p) == Shaped(p, heap, next, data, m_front, m_back, m_idx_front, m_idx_end)

Usable == life \in {"building", "alive"}

QueueInv ==
    /\ IndexInv
    /\ NotMisused
    /\ Usable => \E p : ShapedBy(p)

\* What the queue contains, before and after a step
LEMMA ContentsHeld ==
    ASSUME NEW p, ShapedBy(p)
    PROVE  /\ Contents = Held(p, data, m_idx_front, Behind(p, m_idx_end))
           /\ Contents \in Seq(Value)
           /\ size = Behind(p, m_idx_end) - m_idx_front
           /\ empty <=> Behind(p, m_idx_end) = m_idx_front
           /\ Behind(p, m_idx_end) - m_idx_front \in Nat
<1>1. Contents = Held(p, data, m_idx_front, Behind(p, m_idx_end))
  BY ContentsGathered, Observed DEF ShapedBy
<1>2. size = Behind(p, m_idx_end) - m_idx_front
  BY ContentsGathered, Observed DEF ShapedBy, size
<1>3. empty <=> Behind(p, m_idx_end) = m_idx_front
  BY Observed DEF ShapedBy, empty
<1>4. Behind(p, m_idx_end) - m_idx_front \in Nat
  BY Observed DEF ShapedBy
<1>5. Contents \in Seq(Value)
  BY <1>1, HeldElements DEF ShapedBy
<1> QED
  BY <1>1, <1>2, <1>3, <1>4, <1>5

LEMMA ContentsNext ==
    ASSUME NEW p, Shaped(p, heap', next', data', m_front', m_back', m_idx_front', m_idx_end')
    PROVE  Contents' = Held(p, data', m_idx_front', Behind(p, m_idx_end'))
BY ContentsGathered, Observed

LEMMA QueueInvSound ==
    ASSUME QueueInv
    PROVE  QueueIsSound
<1>1. ASSUME Usable PROVE size = Len(Contents) /\ empty = (Contents = << >>)
  <2>1. PICK p : ShapedBy(p)
    BY <1>1 DEF QueueInv
  <2>2. PICK n \in Nat : n = Behind(p, m_idx_end) - m_idx_front
    BY <2>1, ContentsHeld
  <2>3. Contents = Held(p, data, m_idx_front, Behind(p, m_idx_end)) /\ Contents \in Seq(Value)
    BY <2>1, ContentsHeld
  <2>4. DOMAIN Contents = 1 .. n
    BY <2>2, <2>3 DEF Held
  <2>5. Len(Contents) = n
    BY <2>2, <2>3, <2>4, LenProperties
  <2>6. size = n
    BY <2>1, <2>2, ContentsHeld
  <2>7. Contents = << >> <=> n = 0
    BY <2>3, <2>5, EmptySeq
  <2>8. Behind(p, m_idx_end) \in Nat /\ m_idx_front \in Nat
    BY <2>1, ShapeFacts DEF ShapedBy
  <2>9. Behind(p, m_idx_end) = m_idx_front <=> n = 0
    BY <2>2, <2>8
  <2>10. empty <=> Contents = << >>
    BY <2>1, <2>7, <2>9, ContentsHeld
  <2>11. empty = (Contents = << >>)
    BY <2>10 DEF empty
  <2> QED
    BY <2>5, <2>6, <2>11
<1> QED
  BY <1>1 DEF QueueInv, QueueIsSound, SizeIsRight, Usable

\* What Fifo allows the queue to do
LEMMA QueuePromise ==
    /\ life = "building" /\ Contents = << >> => FifoPromise!Init
    /\ \A v \in Value :
          Usable /\ life' = life /\ Contents' = Append(Contents, v) => FifoPromise!Step
    /\ Usable /\ life' = life /\ Contents # << >> /\ Contents' = Tail(Contents) => FifoPromise!Step
    /\ Usable /\ Usable' /\ Contents' = Contents => FifoPromise!Step
    /\ Usable /\ life' = "abandoned" => FifoPromise!Step
    /\ Usable /\ life' = "gone" /\ Contents' = << >> => FifoPromise!Step
    /\ UNCHANGED <<life, Contents>> => FifoPromise!Step
<1> USE DEF Usable, FifoPromise!Step, FifoPromise!Next, FifoPromise!Push, FifoPromise!Pop,
            FifoPromise!Close
<1>1. life = "building" /\ Contents = << >> => FifoPromise!Init
  BY DEF FifoPromise!Init
<1>2. ASSUME NEW v \in Value, Usable, life' = life, Contents' = Append(Contents, v)
      PROVE  FifoPromise!Step
  BY <1>2
<1>3. ASSUME Usable, life' = life, Contents # << >>, Contents' = Tail(Contents)
      PROVE  FifoPromise!Step
  BY <1>3
<1>4. ASSUME Usable, Usable', Contents' = Contents
      PROVE  FifoPromise!Step
  BY <1>4
<1>5. ASSUME Usable, life' = "abandoned"
      PROVE  FifoPromise!Step
  BY <1>5
<1>6. ASSUME Usable, life' = "gone", Contents' = << >>
      PROVE  FifoPromise!Step
  BY <1>6
<1>7. ASSUME UNCHANGED <<life, Contents>>
      PROVE  FifoPromise!Step
  BY <1>7
<1> HIDE DEF Usable, FifoPromise!Step, FifoPromise!Next, FifoPromise!Push, FifoPromise!Pop,
             FifoPromise!Close
<1> QED
  BY <1>1, <1>2, <1>3, <1>4, <1>5, <1>6, <1>7

QueueStep == QueueInv' /\ FifoPromise!Step
LEMMA QueueBegin == QueueInit => QueueInv /\ FifoPromise!Init
<1> SUFFICES ASSUME QueueInit PROVE QueueInv /\ FifoPromise!Init
  OBVIOUS
<1>1. IndexInv
  BY InitIndex
<1>2. Path(<< >>, Null, next, Null, Chunk)
  BY QueueAssumption, EmptyPath
<1>3. Len(<< >>) = 0 /\ 1 .. 0 = {}
  BY EmptySeq
<1>4. Typed(heap, next, data, m_idx_front, m_idx_end)
  BY <1>1 DEF IndexInv, QueueTypeOK, Typed
<1>5. ShapedBy(<< >>)
  BY <1>2, <1>3, <1>4 DEF QueueInit, ShapedBy, Shaped
<1>6. Contents = << >>
  <2>1. Contents = Held(<< >>, data, m_idx_front, Behind(<< >>, m_idx_end))
    BY <1>5, ContentsHeld
  <2>2. Held(<< >>, data, 0, 0) = << >>
    BY DEF Held
  <2> QED
    BY <2>1, <2>2 DEF QueueInit, Behind
<1> QED
  BY <1>1, <1>5, <1>6, QueuePromise DEF QueueInit, QueueInv, NotMisused

\* After the last chunk was made to have room, nothing has changed for a reader
LEMMA GrowStep ==
    ASSUME NEW p, ShapedBy(p), NEW c \in Chunk, Grow(c)
    PROVE  /\ \E q : /\ Shaped(q, heap', next', data, m_front', m_back', m_idx_front, PushSlot)
                     /\ q # << >>
                     /\ Held(q, data, m_idx_front, Behind(q, PushSlot)) = Contents
           /\ m_back' = c /\ PushSlot # chunk_elements
           /\ heap'[c] /\ (m_back # Null => heap'[m_back])
<1>1. Shaped(p, heap, next, data, m_front, m_back, m_idx_front, m_idx_end)
  BY DEF ShapedBy
<1>2. /\ p # << >> => m_back \in Chunk /\ m_back # Null /\ heap[m_back]
      /\ p = << >> => m_back = Null /\ m_idx_end = 0
  <2>1. p # << >> => m_back \in Chunk /\ m_back # Null /\ heap[m_back]
    BY <1>1, ShapeFacts
  <2> QED
    BY <1>1, <2>1 DEF Shaped
<1>3. heap \in [Chunk -> BOOLEAN] /\ next \in [Chunk -> Chunk \union {Null}]
  BY <1>1 DEF Shaped, Typed
<1>4. Contents = Held(p, data, m_idx_front, Behind(p, m_idx_end))
  BY ContentsHeld
<1>5. CASE p # << >> /\ m_idx_end # chunk_elements
  <2>1. c = m_back /\ heap' = heap /\ next' = next /\ m_front' = m_front /\ m_back' = m_back
        /\ PushSlot = m_idx_end
    BY <1>2, <1>5 DEF Grow, PushSlot
  <2> QED
    BY <1>1, <1>2, <1>4, <1>5, <2>1
<1>6. CASE p = << >> \/ m_idx_end = chunk_elements
  <2>1. /\ ~heap[c]
        /\ heap' = [heap EXCEPT ![c] = TRUE]
        /\ next' = IF p = << >> THEN next ELSE [next EXCEPT ![m_back] = c]
        /\ m_front' = IF p = << >> THEN c ELSE m_front
        /\ m_back' = c
        /\ PushSlot = 0
    BY <1>2, <1>6 DEF Grow, PushSlot
  <2>2. PICK q : q = Append(p, c)
    OBVIOUS
  <2>3. PICK h2 : h2 = heap'
    OBVIOUS
  <2>4. PICK nx2 : nx2 = next'
    OBVIOUS
  <2>5. PICK a2 : a2 = m_front'
    OBVIOUS
  <2>6. Grown(p, heap, next, m_front, m_back, c, q, h2, nx2, a2)
    BY <2>1, <2>2, <2>3, <2>4, <2>5 DEF Grown
  <2>7. /\ Shaped(q, h2, nx2, data, a2, c, m_idx_front, 0)
        /\ q # << >>
        /\ Held(q, data, m_idx_front, Behind(q, 0))
             = Held(p, data, m_idx_front, Behind(p, m_idx_end))
    BY <1>1, <1>6, <2>1, <2>6, GrowShape
  <2>8. 0 # chunk_elements
    BY QueueAssumption
  <2>9. heap'[c] /\ (m_back # Null => heap'[m_back])
    BY <1>2, <1>3, <2>1
  <2> QED
    BY <1>4, <2>1, <2>3, <2>4, <2>5, <2>7, <2>8, <2>9
<1> QED
  BY <1>5, <1>6

LEMMA QueuePushStep ==
    ASSUME QueueInv, NEW v \in Value, Push(v)
    PROVE  QueueStep
<1>1. Usable /\ life' = life
  BY DEF Push, Usable
<1>2. PICK p : ShapedBy(p)
  BY <1>1 DEF QueueInv
<1>3. PICK c \in Chunk :
        /\ Grow(c)
        /\ data' = [data EXCEPT ![c][PushSlot] = v]
        /\ misused' = (misused \/ (m_back # Null /\ ~heap'[m_back])
                               \/ ~heap'[c] \/ data[c][PushSlot] # Empty)
  BY DEF Push
<1>4. /\ m_back' = c /\ PushSlot # chunk_elements
      /\ heap'[c] /\ (m_back # Null => heap'[m_back])
  BY <1>2, <1>3, GrowStep
<1>5. PICK q : /\ Shaped(q, heap', next', data, m_front', m_back', m_idx_front, PushSlot)
               /\ q # << >>
               /\ Held(q, data, m_idx_front, Behind(q, PushSlot)) = Contents
  BY <1>2, <1>3, GrowStep
<1>6. PICK s : s = PushSlot
  OBVIOUS
<1>7. m_idx_end' = s + 1 /\ m_idx_front' = m_idx_front
  BY <1>6 DEF Push, EndAfter
<1>8. PICK h : h = heap'
  OBVIOUS
<1>9. PICK nx : nx = next'
  OBVIOUS
<1>10. PICK d2 : d2 = data'
  OBVIOUS
<1>11. PICK a : a = m_front'
  OBVIOUS
<1>12. PICK b : b = m_back'
  OBVIOUS
<1>13. /\ Shaped(q, h, nx, data, a, b, m_idx_front, s) /\ q # << >> /\ s # chunk_elements
       /\ Writes(d2, data, b, s, v)
  BY <1>3, <1>4, <1>5, <1>6, <1>8, <1>9, <1>10, <1>11, <1>12 DEF Writes
<1>14. /\ Shaped(q, h, nx, d2, a, b, m_idx_front, s + 1)
       /\ Held(q, d2, m_idx_front, Behind(q, s + 1))
            = Append(Held(q, data, m_idx_front, Behind(q, s)), v)
       /\ data[b][s] = Empty
  BY <1>13, PutShape
<1>15. Shaped(q, heap', next', data', m_front', m_back', m_idx_front', m_idx_end')
  BY <1>7, <1>8, <1>9, <1>10, <1>11, <1>12, <1>14
<1>16. Contents' = Append(Contents, v)
  BY <1>5, <1>6, <1>7, <1>10, <1>14, <1>15, ContentsNext
<1>17. ~misused'
  BY <1>3, <1>4, <1>6, <1>12, <1>14 DEF QueueInv, NotMisused
<1>18. IndexInv'
  BY NextIndex DEF QueueInv, QueueNext
<1>19. QueueInv'
  BY <1>15, <1>17, <1>18 DEF QueueInv, NotMisused, ShapedBy
<1> QED
  BY <1>1, <1>16, <1>19, QueuePromise DEF QueueStep

LEMMA QueueThrowStep ==
    ASSUME QueueInv, PushThrows
    PROVE  QueueStep
<1>1. Usable /\ life' = (IF life = "building" THEN "abandoned" ELSE life)
  BY DEF PushThrows, Usable
<1>2. PICK p : ShapedBy(p)
  BY <1>1 DEF QueueInv
<1>3. PICK c \in Chunk :
        /\ Grow(c)
        /\ misused' = (misused \/ (m_back # Null /\ ~heap'[m_back]) \/ ~heap'[c])
  BY DEF PushThrows
<1>4. heap'[c] /\ (m_back # Null => heap'[m_back])
  BY <1>2, <1>3, GrowStep
<1>5. PICK q : /\ Shaped(q, heap', next', data, m_front', m_back', m_idx_front, PushSlot)
               /\ Held(q, data, m_idx_front, Behind(q, PushSlot)) = Contents
  BY <1>2, <1>3, GrowStep
<1>6. m_idx_end' = PushSlot /\ m_idx_front' = m_idx_front /\ data' = data
  BY DEF PushThrows, EndAfterThrow
<1>7. Shaped(q, heap', next', data', m_front', m_back', m_idx_front', m_idx_end')
  BY <1>5, <1>6
<1>8. Contents' = Contents
  BY <1>5, <1>6, <1>7, ContentsNext
<1>9. ~misused'
  BY <1>3, <1>4 DEF QueueInv, NotMisused
<1>10. IndexInv'
  BY NextIndex DEF QueueInv, QueueNext
<1>11. QueueInv'
  BY <1>7, <1>9, <1>10 DEF QueueInv, NotMisused, ShapedBy
<1>12. FifoPromise!Step
  <2>1. CASE life = "building"
    BY <1>1, <2>1, QueuePromise
  <2>2. CASE life # "building"
    <3>1. Usable'
      BY <1>1, <2>2 DEF Usable
    <3> QED
      BY <1>1, <1>8, <3>1, QueuePromise
  <2> QED
    BY <2>1, <2>2
<1> QED
  BY <1>11, <1>12 DEF QueueStep

LEMMA QueueBuiltStep ==
    ASSUME QueueInv, Built
    PROVE  QueueStep
<1>1. Usable /\ Usable' /\ UNCHANGED <<heap, next, data, m_front, m_back, m_idx_front, m_idx_end, misused>>
  BY DEF Built, Usable, chunks, members
<1>2. PICK p : ShapedBy(p)
  BY <1>1 DEF QueueInv
<1>3. Shaped(p, heap', next', data', m_front', m_back', m_idx_front', m_idx_end')
  BY <1>1, <1>2 DEF ShapedBy
<1>4. Contents' = Contents
  <2>1. Contents = Held(p, data, m_idx_front, Behind(p, m_idx_end))
    BY <1>2, ContentsHeld
  <2> QED
    BY <1>1, <1>3, <2>1, ContentsNext
<1>5. IndexInv'
  BY NextIndex DEF QueueInv, QueueNext
<1>6. QueueInv'
  BY <1>1, <1>3, <1>5 DEF QueueInv, NotMisused, ShapedBy
<1> QED
  BY <1>1, <1>4, <1>6, QueuePromise DEF QueueStep
LEMMA QueuePopStep ==
    ASSUME ~DrainsAtEnd, QueueInv, Pop
    PROVE  QueueStep
<1>1. /\ Usable /\ life' = life /\ m_back' = m_back /\ m_idx_end' = m_idx_end
      /\ ~empty
      /\ m_idx_front + 1 = chunk_elements => m_front # m_back
      /\ data' = [data EXCEPT ![m_front][m_idx_front] = Empty]
      /\ misused' = (misused \/ data[m_front][m_idx_front] = Empty)
  BY DEF Pop, Usable, Drains
<1>2. PICK p : ShapedBy(p)
  BY <1>1 DEF QueueInv
<1>3. Shaped(p, heap, next, data, m_front, m_back, m_idx_front, m_idx_end)
  BY <1>2 DEF ShapedBy
<1>4. Behind(p, m_idx_end) # m_idx_front
  BY <1>1, <1>2, ContentsHeld
<1>5. Contents = Held(p, data, m_idx_front, Behind(p, m_idx_end))
  BY <1>2, ContentsHeld
<1>6. Contents # << >>
  <2>1. PICK z \in Nat : z = Behind(p, m_idx_end)
    BY <1>3, ShapeFacts
  <2>2. m_idx_front \in Nat /\ m_idx_front < z
    BY <1>3, <1>4, <2>1, Oldest, ShapeFacts
  <2>3. PICK n \in Nat : n = z - m_idx_front /\ 1 \in 1 .. n
    BY <2>2
  <2>4. Contents \in Seq(Value) /\ DOMAIN Contents = 1 .. n
    BY <1>2, <1>5, <2>1, <2>3, ContentsHeld DEF Held
  <2>5. Len(Contents) = n
    BY <2>3, <2>4, LenProperties
  <2> QED
    BY <2>3, <2>5, EmptySeq
<1>7. ~misused'
  <2>1. data[m_front][m_idx_front] # Empty
    BY <1>3, <1>4, Oldest
  <2> QED
    BY <1>1, <2>1 DEF QueueInv, NotMisused
<1>8. PICK d2 : d2 = data'
  OBVIOUS
<1>9. Writes(d2, data, m_front, m_idx_front, Empty)
  BY <1>1, <1>8 DEF Writes
<1>10. \E q : /\ Shaped(q, heap', next', data', m_front', m_back', m_idx_front', m_idx_end')
              /\ Held(q, data', m_idx_front', Behind(q, m_idx_end')) = Tail(Contents)
  <2>1. CASE m_idx_front + 1 # chunk_elements
    <3>1. m_idx_front' = m_idx_front + 1 /\ UNCHANGED <<heap, next, m_front>>
      BY <2>1 DEF Pop
    <3>2. /\ Shaped(p, heap, next, d2, m_front, m_back, m_idx_front + 1, m_idx_end)
          /\ Held(p, d2, m_idx_front + 1, Behind(p, m_idx_end))
               = Tail(Held(p, data, m_idx_front, Behind(p, m_idx_end)))
      BY <1>3, <1>4, <1>9, <2>1, TakeShape
    <3> QED
      BY <1>1, <1>5, <1>8, <3>1, <3>2
  <2>2. CASE m_idx_front + 1 = chunk_elements
    <3>1. /\ m_idx_front' = 0
          /\ m_front' = next[m_front]
          /\ heap' = [heap EXCEPT ![m_front] = FALSE]
          /\ next' = [next EXCEPT ![m_front] = Null]
      BY <2>2 DEF Pop, FrontAfter
    <3>2. PICK h2 : h2 = heap'
      OBVIOUS
    <3>3. PICK nx2 : nx2 = next'
      OBVIOUS
    <3>4. PICK q : q = Tail(p)
      OBVIOUS
    <3>5. PICK a2 : a2 = m_front'
      OBVIOUS
    <3>6. Dropped(p, heap, next, data, m_front, m_idx_front, q, h2, nx2, d2, a2)
      BY <1>1, <1>8, <3>1, <3>2, <3>3, <3>4, <3>5 DEF Dropped
    <3>7. /\ Shaped(q, h2, nx2, d2, a2, m_back, 0, m_idx_end)
          /\ Held(q, d2, 0, Behind(q, m_idx_end))
               = Tail(Held(p, data, m_idx_front, Behind(p, m_idx_end)))
      BY <1>1, <1>3, <1>4, <2>2, <3>6, DropShape
    <3> QED
      BY <1>1, <1>5, <1>8, <3>1, <3>2, <3>3, <3>5, <3>7
  <2> QED
    BY <2>1, <2>2
<1>11. PICK q : /\ Shaped(q, heap', next', data', m_front', m_back', m_idx_front', m_idx_end')
                /\ Held(q, data', m_idx_front', Behind(q, m_idx_end')) = Tail(Contents)
  BY <1>10
<1>12. Contents' = Tail(Contents)
  BY <1>11, ContentsNext
<1>13. IndexInv'
  BY NextIndex DEF QueueInv, QueueNext
<1>14. QueueInv'
  BY <1>7, <1>11, <1>13 DEF QueueInv, NotMisused, ShapedBy
<1> QED
  BY <1>1, <1>6, <1>12, <1>14, QueuePromise DEF QueueStep

\* The destructor destroys what lives in the chain, and nothing else
LEMMA DestroysLiving ==
    ASSUME NEW p, ShapedBy(p), NEW i \in 1 .. Len(p)
    PROVE  /\ p[i] \in Chunk
           /\ Destroyed(p[i]) \subseteq Slot
           /\ \A j \in Slot : data[p[i]][j] # Empty <=> j \in Destroyed(p[i])
<1>1. Shaped(p, heap, next, data, m_front, m_back, m_idx_front, m_idx_end)
  BY DEF ShapedBy
<1>2. PICK m \in Nat \ {0} : m = Len(p)
  BY <1>1, ShapeFacts
<1>3. PICK ce \in Nat \ {0} : ce = chunk_elements
  BY QueueAssumption
<1>4. p # << >> /\ m_front = p[1] /\ m_back = p[m] /\ 1 \in 1 .. m /\ m \in 1 .. m
  <2>1. p # << >>
    BY <1>1, <1>2, ShapeFacts
  <2> QED
    BY <1>1, <1>2, <2>1, ShapeFacts
<1>5. m_idx_front \in Nat /\ m_idx_front < ce /\ m_idx_end \in Nat /\ m_idx_end <= ce
  BY <1>1, <1>3, ShapeFacts
<1>6. (m_front = m_back <=> m = 1) /\ (p[i] = m_front <=> i = 1) /\ (p[i] = m_back <=> i = m)
      /\ p[i] \in Chunk /\ i \in 1 .. m
  BY <1>1, <1>2, <1>4, ShapeFacts
<1>7. ASSUME NEW j \in Slot PROVE j \in Destroyed(p[i]) <=> Lives(i, m, m_idx_front, m_idx_end, j)
  <2>1. j \in Nat /\ j < ce
    BY <1>3 DEF Slot
  <2>2. CASE m = 1
    <3>1. i = 1
      BY <1>6, <2>2
    <3>2. Destroyed(p[i]) = m_idx_front .. m_idx_end - 1
      BY <1>6, <2>2 DEF Destroyed
    <3>3. Lives(i, m, m_idx_front, m_idx_end, j) <=> m_idx_front <= j /\ j < m_idx_end
      BY <2>2, <3>1 DEF Lives
    <3> QED
      BY <1>5, <2>1, <3>2, <3>3
  <2>3. CASE m # 1 /\ i = 1
    <3>1. Destroyed(p[i]) = m_idx_front .. ce - 1
      BY <1>3, <1>6, <2>3 DEF Destroyed
    <3>2. Lives(i, m, m_idx_front, m_idx_end, j) <=> m_idx_front <= j
      BY <2>3 DEF Lives
    <3> QED
      BY <1>5, <2>1, <3>1, <3>2
  <2>4. CASE m # 1 /\ i # 1 /\ i = m
    <3>1. Destroyed(p[i]) = 0 .. m_idx_end - 1
      BY <1>3, <1>6, <2>4 DEF Destroyed
    <3>2. Lives(i, m, m_idx_front, m_idx_end, j) <=> j < m_idx_end
      BY <2>4 DEF Lives
    <3> QED
      BY <1>5, <2>1, <3>1, <3>2
  <2>5. CASE m # 1 /\ i # 1 /\ i # m
    BY <1>6, <2>5 DEF Destroyed, Lives
  <2> QED
    BY <2>2, <2>3, <2>4, <2>5
<1>8. Destroyed(p[i]) \subseteq Slot
  <2>1. Destroyed(p[i]) \in {m_idx_front .. m_idx_end - 1, m_idx_front .. ce - 1,
                             0 .. m_idx_end - 1, Slot}
    BY <1>3 DEF Destroyed
  <2>2. m_idx_front .. m_idx_end - 1 \subseteq 0 .. ce - 1
    BY <1>5
  <2>3. m_idx_front .. ce - 1 \subseteq 0 .. ce - 1
    BY <1>5
  <2>4. 0 .. m_idx_end - 1 \subseteq 0 .. ce - 1
    BY <1>5
  <2> QED
    BY <1>3, <2>1, <2>2, <2>3, <2>4 DEF Slot
<1>9. \A j \in Slot : data[p[i]][j] # Empty <=> Lives(i, m, m_idx_front, m_idx_end, j)
  BY <1>1, <1>2 DEF Shaped
<1> QED
  BY <1>6, <1>7, <1>8, <1>9

\* The chain holds nothing
LEMMA NothingHeld ==
    ASSUME NEW p, NEW a, NEW nx, Path(p, a, nx, Null, Chunk),
           NEW d \in [Chunk -> [Slot -> Value \union {Empty}]],
           \A i \in 1 .. Len(p), j \in Slot : d[p[i]][j] = Empty
    PROVE  Gathered(a, nx, d, Cardinality(Linked(a, nx)) * chunk_elements) = << >>
<1>1. PICK m \in Nat : m = Len(p)
  BY LenProperties DEF Path
<1>2. PICK n \in Nat : n = m * chunk_elements
  <2>1. m * chunk_elements \in Nat
    BY QueueAssumption
  <2> QED
    BY <2>1
<1>3. Cardinality(Linked(a, nx)) = m
  BY <1>1, LinkedAre
<1>4. ASSUME NEW k \in 0 .. n - 1 PROVE SlotAt(p, d, k) # Empty <=> 0 <= k /\ k < 0
  <2>1. k \in Nat /\ k < m * chunk_elements /\ ~(k < 0)
    BY <1>2
  <2>2. ChunkOf(k) \in 1 .. Len(p) /\ SlotOf(k) \in Slot
    BY <1>1, <2>1, PlaceInChain
  <2> QED
    BY <2>1, <2>2 DEF SlotAt
<1>5. 0 \in Nat /\ 0 \in 0 .. n /\ 0 <= 0
  OBVIOUS
<1>6. Gathered(a, nx, d, n) = Held(p, d, 0, 0)
  BY <1>1, <1>2, <1>4, <1>5, GatheredAre
<1>7. Held(p, d, 0, 0) = << >>
  BY DEF Held
<1> QED
  BY <1>2, <1>3, <1>6, <1>7

LEMMA QueueDestroyStep ==
    ASSUME QueueInv, QueueDestroy
    PROVE  QueueStep /\ (m_front # m_back => \A c \in Chunk : ~heap'[c])
<1>1. /\ Usable /\ life' = "gone" /\ next' = next /\ m_front' = m_front
      /\ heap' = [c \in Chunk |-> heap[c] /\ c \notin Freed]
      /\ data' = [c \in Chunk |->
                    IF c \in Chain
                      THEN [i \in Slot |-> IF i \in Destroyed(c) THEN Empty ELSE data[c][i]]
                      ELSE data[c]]
      /\ misused' = (misused \/ \E c \in Chain : \E i \in Destroyed(c) : data[c][i] = Empty)
  BY DEF QueueDestroy, Usable, members
<1>2. PICK p : ShapedBy(p)
  BY <1>1 DEF QueueInv
<1>3. Shaped(p, heap, next, data, m_front, m_back, m_idx_front, m_idx_end)
  BY <1>2 DEF ShapedBy
<1>4. Path(p, m_front, next, Null, Chunk)
  BY <1>3 DEF Shaped
<1>5. Chain = {p[i] : i \in 1 .. Len(p)}
  BY <1>4, LinkedAre, ContentsGathered
<1>6. IndexInv'
  BY NextIndex DEF QueueInv, QueueNext
<1>7. ~misused'
  <2>1. ASSUME NEW c \in Chain, NEW j \in Destroyed(c) PROVE data[c][j] # Empty
    <3>1. PICK i \in 1 .. Len(p) : c = p[i]
      BY <1>5
    <3> QED
      BY <1>2, <3>1, DestroysLiving
  <2> QED
    BY <1>1, <2>1 DEF QueueInv, NotMisused
<1>8. QueueInv'
  <2>1. ~Usable'
    BY <1>1 DEF Usable
  <2> QED
    BY <1>6, <1>7, <2>1 DEF QueueInv, NotMisused
<1>9. \A i \in 1 .. Len(p), j \in Slot : data'[p[i]][j] = Empty
  <2> TAKE i \in 1 .. Len(p), j \in Slot
  <2>1. p[i] \in Chunk /\ (data[p[i]][j] # Empty <=> j \in Destroyed(p[i]))
    BY <1>2, DestroysLiving
  <2>2. p[i] \in Chain
    BY <1>5
  <2>3. data'[p[i]][j] = IF j \in Destroyed(p[i]) THEN Empty ELSE data[p[i]][j]
    BY <1>1, <2>1, <2>2
  <2> QED
    BY <2>1, <2>3
<1>10. Contents' = << >>
  <2>1. PICK d2 : d2 = data'
    OBVIOUS
  <2>2. /\ d2 \in [Chunk -> [Slot -> Value \union {Empty}]]
        /\ \A i \in 1 .. Len(p), j \in Slot : d2[p[i]][j] = Empty
    BY <1>6, <1>9, <2>1 DEF IndexInv, QueueTypeOK
  <2>3. Gathered(m_front, next, d2, Cardinality(Linked(m_front, next)) * chunk_elements) = << >>
    BY <1>4, <2>2, NothingHeld
  <2>4. Contents' = Gathered(m_front', next', data', Cardinality(Linked(m_front', next')) * chunk_elements)
    BY ContentsGathered
  <2> QED
    BY <1>1, <2>1, <2>3, <2>4
<1>11. FifoPromise!Step
  BY <1>1, <1>10, QueuePromise
<1>12. ASSUME m_front # m_back, NEW c \in Chunk PROVE ~heap'[c]
  <2>1. heap'[c] <=> heap[c] /\ c \notin Chain
    BY <1>1, <1>12 DEF Freed
  <2>2. heap[c] => \E i \in 1 .. Len(p) : p[i] = c
    BY <1>3 DEF Shaped
  <2> QED
    BY <1>5, <2>1, <2>2
<1> QED
  BY <1>8, <1>11, <1>12 DEF QueueStep

\* One step of the queue
LEMMA QueueInvariance ==
    ASSUME ~DrainsAtEnd, QueueInv, [QueueNext]_queueVars
    PROVE  QueueStep /\ [QueueDestroy /\ m_front # m_back => \A c \in Chunk : ~heap'[c]]_queueVars
<1>1. ASSUME NEW v \in Value, Push(v) PROVE QueueStep
  BY <1>1, QueuePushStep
<1>2. ASSUME PushThrows PROVE QueueStep
  BY <1>2, QueueThrowStep
<1>3. ASSUME Built PROVE QueueStep
  BY <1>3, QueueBuiltStep
<1>4. ASSUME Pop PROVE QueueStep
  BY <1>4, QueuePopStep
<1>5. ASSUME QueueDestroy PROVE QueueStep /\ (m_front # m_back => \A c \in Chunk : ~heap'[c])
  BY <1>5, QueueDestroyStep
<1>6. ASSUME UNCHANGED queueVars PROVE QueueStep
  <2>1. UNCHANGED <<life, heap, next, data, m_front, m_back, m_idx_front, m_idx_end, misused>>
    BY <1>6 DEF queueVars, chunks, members
  <2>2. Contents' = Contents
    BY <2>1, ContentsGathered
  <2>3. IndexInv'
    BY NextIndex DEF QueueInv
  <2>4. QueueInv'
    BY <2>1, <2>3 DEF QueueInv, NotMisused, Usable, ShapedBy
  <2> QED
    BY <2>1, <2>2, <2>4, QueuePromise DEF QueueStep
<1>7. QueueStep
  BY <1>1, <1>2, <1>3, <1>4, <1>5, <1>6 DEF QueueNext
<1> QED
  BY <1>5, <1>7

\* If no pop empties the queue at the end of a chunk, whatever else the program
\* does and however often a copy throws: no freed memory is written, no element
\* destroyed twice or overwritten alive, and size() and empty() tell what is
\* there (push, pop, ~queue).
THEOREM QueueSound == ~DrainsAtEnd => (QueueSpec => []QueueIsSound)
<1> SUFFICES ASSUME ~DrainsAtEnd PROVE QueueSpec => []QueueIsSound
  OBVIOUS
<1>1. QueueInit => QueueInv
  BY QueueBegin
<1>2. QueueInv /\ [QueueNext]_queueVars => QueueInv'
  BY QueueInvariance DEF QueueStep
<1>3. QueueInv => QueueIsSound
  BY QueueInvSound
<1> QED
  BY <1>1, <1>2, <1>3, PTL DEF QueueSpec

\* Then the chunks implement a first in, first out queue, and the destructor
\* frees every chunk of a queue of several chunks.
THEOREM QueueServes == ~DrainsAtEnd => (QueueSpec => QueueKeepsPromise)
<1> SUFFICES ASSUME ~DrainsAtEnd PROVE QueueSpec => QueueKeepsPromise
  OBVIOUS
<1>1. QueueInit => QueueInv /\ FifoPromise!Init
  BY QueueBegin
<1>2. QueueInv /\ [QueueNext]_queueVars
        => QueueInv' /\ FifoPromise!Step
           /\ [QueueDestroy /\ m_front # m_back => \A c \in Chunk : ~heap'[c]]_queueVars
  BY QueueInvariance DEF QueueStep
<1>3. QueueSpec => ServesInOrder /\ FreesChunks
  BY <1>1, <1>2, PTL DEF QueueSpec, ServesInOrder, FreesChunks, FifoPromise!Spec, FifoPromise!Step
<1> QED
  BY <1>3 DEF QueueKeepsPromise
=============================================================================
