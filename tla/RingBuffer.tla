----------------------------- MODULE RingBuffer -----------------------------
(***************************************************************************)
(* upp::ring_buffer of core/include/upp/ring_buffer.hpp: a handle to one   *)
(* block of memory that holds a header (capacity, offset, count) and the   *)
(* slots.  A push into a full buffer overwrites the oldest element.        *)
(*                                                                         *)
(* The offset of the oldest element is wrapped where a push computes its   *)
(* slot, and nowhere else: front and pop index with the offset as it is.   *)
(* SecondLap says whether the program lets that happen.                    *)
(***************************************************************************)
EXTENDS Integers, Sequences, FiniteSets

CONSTANTS
    Buf,        \* the ring_buffer objects
    Block,      \* the addresses the allocator hands out
    NoBlock,    \* nullptr
    Capacity,   \* the capacities the program asks for
    Item,       \* the elements
    NoItem,     \* a slot without a living element
    Constructs, \* what a constructor of an element does: TRUE returns, FALSE throws
    SecondLap,  \* TRUE: front and pop may be called with the offset past the end
    SelfMoves,  \* TRUE: a buffer may be move assigned to itself
    MaxOffset   \* bound on the offsets explored

ASSUME RingAssumption ==
    /\ NoBlock \notin Block
    /\ Capacity \subseteq Nat \ {0}
    /\ NoItem \notin Item
    /\ Constructs \subseteq BOOLEAN
    /\ SecondLap \in BOOLEAN /\ SelfMoves \in BOOLEAN
    /\ MaxOffset \in Nat

VARIABLES
    m_dat,      \* ring_buffer::m_dat; of an object that does not exist: NoBlock
    header,     \* flexible::header of each block
    slots,      \* flexible::data of each block
    allocated,  \* the blocks that are allocated
    corrupted   \* history: an access left the slots of a living block, or met
                \* a slot in the wrong state

ringVars == <<m_dat, header, slots, allocated, corrupted>>

Fresh == [capacity |-> 0, offset |-> 0, count |-> 0]

RingInit ==
    /\ m_dat = [b \in Buf |-> NoBlock]
    /\ header = [k \in Block |-> Fresh]
    /\ slots = [k \in Block |-> <<>>]
    /\ allocated = {}
    /\ corrupted = FALSE

-----------------------------------------------------------------------------
(* The memory: flexible.hpp *)

\* flexible::create: room for n elements, a header of zeros
RingCreate(b, n) ==
    /\ m_dat[b] = NoBlock
    /\ \E k \in Block \ allocated :
          /\ allocated' = allocated \union {k}
          /\ m_dat' = [m_dat EXCEPT ![b] = k]
          /\ header' = [header EXCEPT ![k] = [Fresh EXCEPT !.capacity = n]]
          /\ slots' = [slots EXCEPT ![k] = [i \in 0 .. n - 1 |-> NoItem]]
    /\ UNCHANGED corrupted

\* The block that is freed when a buffer is destroyed or assigned to
Released(b) == {m_dat[b]} \ {NoBlock}

\* ~ring_buffer and flexible::destroy; elements still in the slots are not
\* destroyed
Release(b) ==
    /\ allocated' = allocated \ Released(b)
    /\ header' = [k \in Block |-> IF k \in Released(b) THEN Fresh ELSE header[k]]
    /\ slots' = [k \in Block |-> IF k \in Released(b) THEN <<>> ELSE slots[k]]
    /\ corrupted' = (corrupted \/ ~(Released(b) \subseteq allocated))

RingDestroy(b) ==
    /\ Release(b)
    /\ m_dat' = [m_dat EXCEPT ![b] = NoBlock]

ExchangedMutant(dat, other) == dat[other]
\* What std::exchange leaves in the object moved from
Exchanged(dat, other) == NoBlock

\* The move constructor (b has no block) and the move assignment, which
\* destroys b first
RingMove(b, other) ==
    /\ b # other \/ SelfMoves
    /\ Release(b)
    /\ m_dat' = [[m_dat EXCEPT ![other] = Exchanged(m_dat, other)] EXCEPT ![b] = m_dat[other]]

-----------------------------------------------------------------------------
(* push, pop and front *)

WriteIndexMutant(h) == h.offset + h.count
\* The slot behind the newest element; the oldest one when the buffer is full
WriteIndex(h) == (h.offset + h.count) % h.capacity

FullMutant(h) == h.count > h.capacity
Full(h) == h.count = h.capacity

HeaderAfterPushMutant(h) ==
    IF Full(h) THEN h ELSE [h EXCEPT !.count = @ + 1]
HeaderAfterPush(h) ==
    IF Full(h) THEN [h EXCEPT !.offset = @ + 1] ELSE [h EXCEPT !.count = @ + 1]

\* The header is brought up to date before the new element is constructed
RingPush(b, v) ==
    /\ m_dat[b] # NoBlock
    /\ LET k   == m_dat[b]
           h   == header[k]
           idx == WriteIndex(h)
       IN /\ Full(h) => h.offset < MaxOffset
          /\ header' = [header EXCEPT ![k] = HeaderAfterPush(h)]
          /\ \E ok \in Constructs :
                slots' = [slots EXCEPT ![k] =
                            [i \in DOMAIN @ |-> IF i = idx THEN IF ok THEN v ELSE NoItem
                                                ELSE @[i]]]
          /\ corrupted' = (corrupted \/ k \notin allocated \/ idx \notin DOMAIN slots[k]
                                     \/ (slots[k][idx] = NoItem) = Full(h))
    /\ UNCHANGED <<m_dat, allocated>>

\* size() and empty()
RingSize(b) == IF m_dat[b] = NoBlock THEN 0 ELSE header[m_dat[b]].count

\* The oldest element is where front() and pop() look for it
OnFirstLap(h) == h.offset < h.capacity

CountAfterPopMutant(h) == h.count
CountAfterPop(h) == h.count - 1

RingPop(b) ==
    /\ RingSize(b) # 0
    /\ LET k == m_dat[b]
           h == header[k]
       IN /\ OnFirstLap(h) \/ SecondLap
          /\ slots' = [slots EXCEPT ![k] = [i \in DOMAIN @ |-> IF i = h.offset THEN NoItem ELSE @[i]]]
          /\ header' = [header EXCEPT ![k].offset = @ + 1, ![k].count = CountAfterPop(h)]
          /\ corrupted' = (corrupted \/ k \notin allocated \/ h.offset \notin DOMAIN slots[k]
                                     \/ slots[k][h.offset] = NoItem)
    /\ UNCHANGED <<m_dat, allocated>>

-----------------------------------------------------------------------------
RingNext ==
    \/ \E b \in Buf, n \in Capacity : RingCreate(b, n)
    \/ \E b \in Buf : RingDestroy(b) \/ RingPop(b)
    \/ \E b, other \in Buf : RingMove(b, other)
    \/ \E b \in Buf, v \in Item : RingPush(b, v)

RingSpec == RingInit /\ [][RingNext]_ringVars

-----------------------------------------------------------------------------
(* Properties *)

\* Types; a buffer never counts more elements than it has room for.
RingTypeOK ==
    /\ m_dat \in [Buf -> Block \union {NoBlock}]
    /\ header \in [Block -> [capacity : Nat, offset : Nat, count : Nat]]
    /\ allocated \subseteq Block
    /\ corrupted \in BOOLEAN
    /\ \A k \in Block : header[k].count <= header[k].capacity

\* A push wraps around the end of the slots and destroys exactly the element it
\* overwrites, a pop meets a living element: no access leaves the slots and no
\* element is destroyed twice or constructed on top of a living one, for as
\* long as pops stay within the first lap (push, pop).
RingNotCorrupted == ~corrupted

\* The elements of a block, the oldest first, wherever the offset has got to
Kept(k) ==
    [i \in 1 .. header[k].count |->
        slots[k][(header[k].offset + i - 1) % header[k].capacity]]

\* front() refers to the oldest element: what it gives after a push to an empty
\* buffer is what was pushed (the test PushPop of core/test/ring_buffer.cpp), also
\* when elements were pushed and popped before.
FrontIsOldest ==
    \A k \in allocated : header[k].count > 0 =>
        /\ header[k].offset \in DOMAIN slots[k]
        /\ slots[k][header[k].offset] = Kept(k)[1]

\* Every block is owned by exactly one buffer until it is freed: a move leaves
\* nothing behind in its source, an assignment frees what it replaces.
OneOwner ==
    /\ \A k \in allocated : Cardinality({b \in Buf : m_dat[b] = k}) = 1
    /\ \A b \in Buf : m_dat[b] # NoBlock => m_dat[b] \in allocated

Promise(k) == INSTANCE Recent WITH
    items <- IF k \in allocated THEN Kept(k) ELSE <<>>,
    room  <- IF k \in allocated THEN header[k].capacity ELSE 0

\* A buffer keeps the newest elements, as many as it has room for, and gives
\* them back in order: while it fills up, overwrites and is emptied again, and
\* whichever object it is moved to.
KeepsNewest ==
    /\ \A k \in Block : Promise(k)!Init
    /\ [][\A k \in Block : Promise(k)!Step]_ringVars

\* Counts, slots and blocks of the buffers are sound after any sequence of
\* pushes, pops, moves and destructions.
RingIsSound == RingTypeOK /\ RingNotCorrupted /\ OneOwner
=============================================================================
