----------------------------- MODULE ChunkQueue -----------------------------
(***************************************************************************)
(* upp::experimental::queue of core/include/upp/queue.hpp: a chain of      *)
(* chunks of chunk_elements slots each.  Elements are constructed in the   *)
(* last chunk, at m_idx_end, and destroyed in the first one, at            *)
(* m_idx_front; a chunk is allocated when the last one is full and freed   *)
(* when its last element is popped.                                        *)
(*                                                                         *)
(* A queue serves one thread.  What may go wrong is the bookkeeping at the *)
(* ends of the chunks, and a copy constructor that throws half way.        *)
(***************************************************************************)
EXTENDS Integers, Sequences, FiniteSets

CONSTANTS
    Chunk,          \* the addresses the allocator hands out
    Null,           \* nullptr
    chunk_elements, \* the slots of a chunk
    Value,          \* the elements
    Empty,          \* a slot without a living element
    DrainsAtEnd     \* TRUE: a pop may empty the queue at the end of a chunk

ASSUME QueueAssumption ==
    /\ Null \notin Chunk
    /\ IsFiniteSet(Chunk)
    /\ chunk_elements \in Nat \ {0}
    /\ Empty \notin Value
    /\ DrainsAtEnd \in BOOLEAN

Slot == 0 .. chunk_elements - 1

VARIABLES
    life,       \* "building" (the list constructor runs), "alive", "gone" or
                \* "abandoned" (the list constructor threw)
    heap,       \* whether the chunk at an address is allocated
    next,       \* chunk::next
    data,       \* chunk::data
    m_front, m_back, m_idx_front, m_idx_end,
    misused     \* history: freed memory was written, or an element was
                \* destroyed twice or overwritten alive

chunks  == <<heap, next, data>>
members == <<m_front, m_back, m_idx_front, m_idx_end>>
queueVars == <<life, chunks, members, misused>>

QueueInit ==
    /\ life = "building"
    /\ heap = [c \in Chunk |-> FALSE]
    /\ next = [c \in Chunk |-> Null]
    /\ data = [c \in Chunk |-> [i \in Slot |-> Empty]]
    /\ m_front = Null /\ m_back = Null
    /\ m_idx_front = 0 /\ m_idx_end = 0
    /\ misused = FALSE

-----------------------------------------------------------------------------
(* empty() and size(), as they are computed from the members *)

\* The chunk i steps behind the first one
At == LET at[i \in 0 .. Cardinality(Chunk)] ==
            IF i = 0 THEN m_front
            ELSE IF at[i - 1] = Null THEN Null ELSE next[at[i - 1]]
      IN at

Chain == {At[i] : i \in 0 .. Cardinality(Chunk)} \ {Null}

empty == m_front = Null \/ (m_front = m_back /\ m_idx_front = m_idx_end)

size ==
    IF Chain = {} THEN 0
    ELSE (Cardinality(Chain) - 1) * chunk_elements + m_idx_end - m_idx_front

-----------------------------------------------------------------------------
(* push *)

\* Where the element goes: a new chunk starts at its first slot
PushSlot == IF m_back # Null /\ m_idx_end = chunk_elements THEN 0 ELSE m_idx_end

\* The chunk has room, or c is allocated and becomes the last chunk
Grow(c) ==
    \/ /\ m_back # Null /\ m_idx_end # chunk_elements
       /\ c = m_back
       /\ UNCHANGED <<heap, next, m_front, m_back>>
    \/ /\ m_back = Null
       /\ ~heap[c]
       /\ heap' = [heap EXCEPT ![c] = TRUE]
       /\ m_front' = c /\ m_back' = c
       /\ UNCHANGED next
    \/ /\ m_back # Null /\ m_idx_end = chunk_elements
       /\ ~heap[c]
       /\ heap' = [heap EXCEPT ![c] = TRUE]
       /\ next' = [next EXCEPT ![m_back] = c]
       /\ m_back' = c
       /\ UNCHANGED m_front

EndAfterMutant(i) == i
\* ++m_idx_end, once the element is constructed
EndAfter(i) == i + 1

Push(v) ==
    /\ life \in {"building", "alive"}
    /\ \E c \in Chunk :
          /\ Grow(c)
          /\ data' = [data EXCEPT ![c][PushSlot] = v]
          /\ misused' = (misused \/ (m_back # Null /\ ~heap'[m_back])
                                 \/ ~heap'[c] \/ data[c][PushSlot] # Empty)
    /\ m_idx_end' = EndAfter(PushSlot)
    /\ UNCHANGED <<life, m_idx_front>>

EndAfterThrowMutant(i) == i + 1
\* ... which stays where it is when the constructor throws
EndAfterThrow(i) == i

\* The copy constructor of the element throws out of push, and out of the list
\* constructor, in which case there is no queue to destroy
PushThrows ==
    /\ life \in {"building", "alive"}
    /\ \E c \in Chunk :
          /\ Grow(c)
          /\ misused' = (misused \/ (m_back # Null /\ ~heap'[m_back]) \/ ~heap'[c])
    /\ m_idx_end' = EndAfterThrow(PushSlot)
    /\ life' = IF life = "building" THEN "abandoned" ELSE life
    /\ UNCHANGED <<data, m_idx_front>>

\* The list constructor returns (at once in the default constructor)
Built ==
    /\ life = "building"
    /\ life' = "alive"
    /\ UNCHANGED <<chunks, members, misused>>

-----------------------------------------------------------------------------
(* pop and ~queue *)

\* The pop takes the last element out of the last slot of the last chunk
Drains == m_front = m_back /\ m_idx_front + 1 = chunk_elements

FrontAfterMutant(i) == i
\* m_idx_front after a chunk was freed
FrontAfter(i) == 0

Pop ==
    /\ life = "alive"
    /\ ~empty
    /\ Drains => DrainsAtEnd
    /\ LET old == m_front
           i   == m_idx_front
       IN /\ data' = [data EXCEPT ![old][i] = Empty]
          /\ misused' = (misused \/ data[old][i] = Empty)
          /\ IF i + 1 = chunk_elements
               THEN /\ m_front' = next[old]
                    /\ heap' = [heap EXCEPT ![old] = FALSE]
                    /\ next' = [next EXCEPT ![old] = Null]
                    /\ m_idx_front' = FrontAfter(i + 1)
               ELSE /\ m_idx_front' = i + 1
                    /\ UNCHANGED <<heap, next, m_front>>
    /\ UNCHANGED <<life, m_back, m_idx_end>>

\* The slots whose elements the destructor destroys
DestroyedMutant(c) ==
    IF m_front = m_back THEN m_idx_front .. m_idx_end - 1
    ELSE IF c = m_front THEN m_idx_front .. chunk_elements - 1
    ELSE IF c = m_back THEN 0 .. m_idx_end - 1
    ELSE {}
Destroyed(c) ==
    IF m_front = m_back THEN m_idx_front .. m_idx_end - 1
    ELSE IF c = m_front THEN m_idx_front .. chunk_elements - 1
    ELSE IF c = m_back THEN 0 .. m_idx_end - 1
    ELSE Slot

FreedMutant == IF m_front = m_back THEN {} ELSE Chain \ {m_back}
\* The chunks it frees: none of a queue that fits in one chunk
Freed == IF m_front = m_back THEN {} ELSE Chain

QueueDestroy ==
    /\ life = "alive"
    /\ life' = "gone"
    /\ data' = [c \in Chunk |-> IF c \in Chain
                                 THEN [i \in Slot |-> IF i \in Destroyed(c) THEN Empty ELSE data[c][i]]
                                 ELSE data[c]]
    /\ misused' = (misused \/ \E c \in Chain : \E i \in Destroyed(c) : data[c][i] = Empty)
    /\ heap' = [c \in Chunk |-> heap[c] /\ c \notin Freed]
    /\ UNCHANGED <<next, members>>

-----------------------------------------------------------------------------
QueueNext ==
    \/ \E v \in Value : Push(v)
    \/ PushThrows
    \/ Built
    \/ Pop
    \/ QueueDestroy

QueueSpec == QueueInit /\ [][QueueNext]_queueVars

-----------------------------------------------------------------------------
(* Properties *)

\* The elements that live in the chain, in order.  It is read off the slots,
\* not off the indices, which may be wrong.
Contents ==
    LET last  == Cardinality(Chain) * chunk_elements
        slots == [k \in 1 .. last |->
                    data[At[(k - 1) \div chunk_elements]][(k - 1) % chunk_elements]]
        upto[k \in 0 .. last] ==
            IF k = 0 THEN <<>>
            ELSE IF slots[k] = Empty THEN upto[k - 1]
            ELSE Append(upto[k - 1], slots[k])
    IN upto[last]

\* Types.  The indices stay within a chunk: m_idx_front is always a slot, so that
\* the first chunk is freed before the index leaves it, and m_idx_end passes
\* the last slot by one at most.
QueueTypeOK ==
    /\ life \in {"building", "alive", "gone", "abandoned"}
    /\ heap \in [Chunk -> BOOLEAN]
    /\ next \in [Chunk -> Chunk \union {Null}]
    /\ data \in [Chunk -> [Slot -> Value \union {Empty}]]
    /\ m_front \in Chunk \union {Null}
    /\ m_back \in Chunk \union {Null}
    /\ m_idx_front \in Slot
    /\ m_idx_end \in 0 .. chunk_elements
    /\ misused \in BOOLEAN

\* No call writes to a chunk that was freed, constructs an element on top of a
\* living one or destroys one twice, however pushes, pops and exceptions
\* follow each other over the ends of the chunks (push, pop, ~queue).
NotMisused == ~misused

\* size() and empty(), computed from the chunks and the two indices, tell the
\* elements that are really there: also when a throwing push has left an
\* empty last chunk behind, or a pop has just moved on to the next chunk.
SizeIsRight ==
    life \in {"building", "alive"} =>
        /\ size = Len(Contents)
        /\ empty = (Contents = <<>>)

FifoPromise == INSTANCE Fifo WITH
    items <- IF life = "abandoned" THEN <<>> ELSE Contents,
    open  <- life \in {"building", "alive"}

\* The chunks implement a first in, first out queue: elements leave in order
\* across the chunks, a push that throws changes nothing that can be observed
\* ("TODO: What to do on exception?", queue.hpp:131), and the destructor leaves
\* no element alive in any chunk.
ServesInOrder == FifoPromise!Spec

\* A queue that spans several chunks leaves none of them allocated, those that
\* are between the first and the last one included (~queue, lines 111-115).
FreesChunks == [][QueueDestroy /\ m_front # m_back => \A c \in Chunk : ~heap'[c]]_queueVars

\* No sequence of pushes, pops and exceptions touches freed memory, and size()
\* and empty() tell what is there.
QueueIsSound == NotMisused /\ SizeIsRight

\* First in, first out, and every chunk of a longer chain is freed.
QueueKeepsPromise == ServesInOrder /\ FreesChunks
=============================================================================
