-------------------------------- MODULE Demux --------------------------------
(***************************************************************************)
(* upp::codec::demux: the FFmpeg contexts a demuxer owns, and the two      *)
(* callbacks through which FFmpeg reads a buffer in memory.  The callbacks *)
(* reach the demuxer through the pointer it gave to its I/O context when   *)
(* it was constructed.                                                     *)
(***************************************************************************)
EXTENDS Integers, FiniteSets

CONSTANTS
    Dem,        \* the demux objects
    Ctx,        \* addresses of format contexts
    Io,         \* addresses of I/O contexts, and of their buffers
    Nullptr,
    NoDemux,    \* m_ctx of an object that does not exist
    Size,       \* m_buf.size()
    IntWidth,   \* the bits of an int
    Opened,     \* what avformat_open_input of a file does: TRUE succeeds
    Outcome,    \* how constructing a demuxer on a buffer may end
    MovesBuffers \* TRUE: demuxers on a buffer are moved too

ASSUME DemuxAssumption ==
    /\ Nullptr \notin Ctx \union Io /\ NoDemux \notin Ctx /\ NoDemux # Nullptr
    /\ Size \in Nat /\ IntWidth \in Nat \ {0}
    /\ Opened \subseteq BOOLEAN /\ MovesBuffers \in BOOLEAN
    /\ Outcome \subseteq {"opened", "no_buffer", "no_io_context", "not_opened"}

VARIABLES
    m_ctx, m_io_ctx, m_buf_offset,  \* members of each object
    contexts,   \* the format contexts that are allocated
    ios,        \* the I/O contexts
    buffers,    \* the buffers of I/O contexts
    pb,         \* AVFormatContext::pb
    opaque,     \* the object the callbacks of an I/O context are given
    position,   \* where FFmpeg takes the callbacks to be
    misfreed    \* history: something was freed that was not allocated

demuxVars == <<m_ctx, m_io_ctx, m_buf_offset, contexts, ios, buffers, pb, opaque, position,
               misfreed>>

DemuxInit ==
    /\ m_ctx = [d \in Dem |-> NoDemux]
    /\ m_io_ctx = [d \in Dem |-> Nullptr]
    /\ m_buf_offset = [d \in Dem |-> 0]
    /\ contexts = {} /\ ios = {} /\ buffers = {}
    /\ pb = [c \in Ctx |-> Nullptr]
    /\ opaque \in [Io -> Dem]
    /\ position = [i \in Io |-> 0]
    /\ misfreed = FALSE

-----------------------------------------------------------------------------
(* Construction and destruction *)

Constructed(d) == m_ctx[d] # NoDemux

\* demux() and demux(path): a context that could not be opened is freed by
\* FFmpeg, and the pointer reset before the destructor runs
OpenFile(d) ==
    /\ ~Constructed(d)
    /\ \E c \in Ctx \ contexts, ok \in Opened :
          /\ contexts' = IF ok THEN contexts \union {c} ELSE contexts
          /\ pb' = [pb EXCEPT ![c] = Nullptr]
          /\ m_ctx' = [m_ctx EXCEPT ![d] = IF ok THEN c ELSE @]
    /\ UNCHANGED <<m_io_ctx, m_buf_offset, ios, buffers, opaque, position, misfreed>>

FreesMutant(end) == CASE end = "not_opened" -> 2 [] OTHER -> 0
\* How often a constructor that ends so frees the I/O buffer: clean_iobuf does,
\* and the destructor of the object does if there is an I/O context already
Frees(end) ==
    CASE end = "no_io_context" -> 1
      [] end = "not_opened"    -> 2
      [] OTHER                 -> 0

\* demux(span).  Opening reads from the buffer and seeks in it.  However else
\* the constructor ends, the destructor frees the format context.
OpenBuffer(d) ==
    /\ ~Constructed(d)
    /\ \E c \in Ctx \ contexts, i \in Io \ (ios \union buffers), end \in Outcome, at \in 0 .. Size :
          LET ok == end = "opened"
          IN /\ contexts' = IF ok THEN contexts \union {c} ELSE contexts
             /\ ios' = IF ok THEN ios \union {i} ELSE ios
             /\ buffers' = IF end # "no_buffer" /\ Frees(end) = 0 THEN buffers \union {i} ELSE buffers
             /\ pb' = [pb EXCEPT ![c] = i]
             /\ opaque' = [opaque EXCEPT ![i] = d]
             /\ position' = [position EXCEPT ![i] = at]
             /\ m_buf_offset' = [m_buf_offset EXCEPT ![d] = at]
             /\ m_ctx' = [m_ctx EXCEPT ![d] = IF ok THEN c ELSE @]
             /\ m_io_ctx' = [m_io_ctx EXCEPT ![d] = IF ok THEN i ELSE @]
             /\ misfreed' = (misfreed \/ Frees(end) > 1)

ClosedMutant(d) == {m_ctx[d]} \intersect {c \in Ctx : pb[c] = Nullptr}
\* What the destructor frees
Closed(d) == {m_ctx[d]} \intersect Ctx
ClosedIo(d) == {m_io_ctx[d]} \intersect Io

Close(d) ==
    /\ contexts' = contexts \ Closed(d)
    /\ ios' = ios \ ClosedIo(d)
    /\ buffers' = buffers \ ClosedIo(d)
    /\ misfreed' = (misfreed \/ ~(Closed(d) \subseteq contexts)
                             \/ ~(ClosedIo(d) \subseteq ios \intersect buffers))

DestroyDemux(d) ==
    /\ Constructed(d)
    /\ Close(d)
    /\ m_ctx' = [m_ctx EXCEPT ![d] = NoDemux]
    /\ m_io_ctx' = [m_io_ctx EXCEPT ![d] = Nullptr]
    /\ UNCHANGED <<m_buf_offset, pb, opaque, position>>

\* What std::exchange leaves in the demuxer moved from
Left(from) == Nullptr

\* The move constructor and the move assignment.  Only m_ctx moves: the I/O
\* context, the span and the offset stay, and opaque still names the old object.
MoveDemux(d, from) ==
    /\ Constructed(from)
    /\ m_io_ctx[from] = Nullptr \/ MovesBuffers
    /\ Close(d)
    /\ m_ctx' = [m_ctx EXCEPT ![from] = Left(from),
                              ![d] = IF d = from THEN Nullptr ELSE m_ctx[from]]
    /\ m_io_ctx' = [m_io_ctx EXCEPT ![d] = Nullptr]
    /\ m_buf_offset' = [m_buf_offset EXCEPT ![d] = 0]
    /\ UNCHANGED <<pb, opaque, position>>

-----------------------------------------------------------------------------
(* The callbacks, while FFmpeg runs operator>> of a demuxer *)

\* static_cast<int>
ToInt(n) ==
    LET low == n % 2 ^ IntWidth
    IN IF low < 2 ^ (IntWidth - 1) THEN low ELSE low - 2 ^ IntWidth

LeftInBuf(d) == Size - m_buf_offset[d]

\* buffer_read; at the end it returns AVERROR_EOF and changes nothing
CountRead(d, buflen) ==
    IF buflen < ToInt(LeftInBuf(d)) THEN buflen ELSE ToInt(LeftInBuf(d))

\* The three origins of buffer_seek: the new offset, or -1
SeekSetMutant(offset) == IF offset < 0 THEN -1 ELSE offset
SeekSet(offset) == IF offset < 0 \/ offset > Size THEN -1 ELSE offset

SeekCurMutant(d, offset) ==
    IF m_buf_offset[d] + offset \notin 0 .. Size - 1 THEN -1 ELSE offset
SeekCur(d, offset) ==
    IF m_buf_offset[d] + offset \notin 0 .. Size - 1 THEN -1 ELSE m_buf_offset[d] + offset

SeekEndTo(offset) == IF offset > 0 \/ -offset >= Size THEN -1 ELSE Size + offset

Seeked(d, offset, origin) ==
    CASE origin = "SEEK_SET" -> SeekSet(offset)
      [] origin = "SEEK_CUR" -> SeekCur(d, offset)
      [] origin = "SEEK_END" -> SeekEndTo(offset)

\* What the caller of lseek takes the position to be after a seek that succeeds
Wanted(i, offset, origin) ==
    CASE origin = "SEEK_SET" -> offset
      [] origin = "SEEK_CUR" -> position[i] + offset
      [] origin = "SEEK_END" -> Size + offset

\* The I/O context FFmpeg uses for demuxer d
Through(d) == IF m_ctx[d] \in Ctx THEN pb[m_ctx[d]] ELSE Nullptr

ReadMore(d, buflen) ==
    /\ Through(d) # Nullptr
    /\ LET i == Through(d)
           self == opaque[i]
       IN /\ LeftInBuf(self) # 0
          /\ m_buf_offset' = [m_buf_offset EXCEPT ![self] = @ + CountRead(self, buflen)]
          /\ position' = [position EXCEPT ![i] = @ + CountRead(self, buflen)]
    /\ UNCHANGED <<m_ctx, m_io_ctx, contexts, ios, buffers, pb, opaque, misfreed>>

\* A seek that is refused changes nothing
Seek(d, offset, origin) ==
    /\ Through(d) # Nullptr
    /\ LET i == Through(d)
           self == opaque[i]
       IN /\ Seeked(self, offset, origin) # -1
          /\ m_buf_offset' = [m_buf_offset EXCEPT ![self] = Seeked(self, offset, origin)]
          /\ position' = [position EXCEPT ![i] = Wanted(i, offset, origin)]
    /\ UNCHANGED <<m_ctx, m_io_ctx, contexts, ios, buffers, pb, opaque, misfreed>>

DemuxNext ==
    \/ \E d \in Dem : OpenFile(d) \/ OpenBuffer(d) \/ DestroyDemux(d)
    \/ \E d, from \in Dem : MoveDemux(d, from)
    \/ \E d \in Dem, n \in 1 .. 2 : ReadMore(d, n)
    \/ \E d \in Dem, n \in -Size - 1 .. Size + 1, origin \in {"SEEK_SET", "SEEK_CUR", "SEEK_END"} :
          Seek(d, n, origin)

DemuxSpec == DemuxInit /\ [][DemuxNext]_demuxVars

-----------------------------------------------------------------------------
(* Properties *)

\* Types, and the assertion of buffer_read: the offset is inside the buffer or
\* at its end, so that the unsigned difference is what is left.
DemuxTypeOK ==
    /\ m_ctx \in [Dem -> Ctx \union {Nullptr, NoDemux}]
    /\ m_io_ctx \in [Dem -> Io \union {Nullptr}]
    /\ m_buf_offset \in [Dem -> 0 .. Size]
    /\ pb \in [Ctx -> Io \union {Nullptr}]

\* The offset of the demuxer and the position FFmpeg computes from the results
\* of the callbacks are the same after any sequence of reads and seeks, absolute
\* or relative: the packets are cut from the right bytes.
PositionsAgree ==
    \A i \in ios : position[i] = m_buf_offset[opaque[i]]

\* Whatever fails in a constructor, and whatever is moved: each context and
\* each buffer has one demuxer that frees it, and nothing is freed twice.
DemuxOwnsOnce ==
    /\ ~misfreed
    /\ buffers = ios
    /\ \A c \in contexts : Cardinality({d \in Dem : m_ctx[d] = c}) = 1
    /\ \A i \in ios : Cardinality({d \in Dem : m_io_ctx[d] = i}) = 1
    /\ \A d \in Dem : Closed(d) \subseteq contexts /\ ClosedIo(d) \subseteq ios

\* A context that reads through callbacks has its I/O context, and the object
\* the callbacks are given is alive and the one that owns the context.
CallbacksReachable ==
    \A c \in contexts :
        pb[c] # Nullptr => pb[c] \in ios /\ m_ctx[opaque[pb[c]]] = c

\* Demuxers free what they own once, and their callbacks reach them.
DemuxIsSound == DemuxTypeOK /\ DemuxOwnsOnce /\ CallbacksReachable
=============================================================================
