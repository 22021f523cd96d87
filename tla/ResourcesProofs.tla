--------------------------- MODULE ResourcesProofs ---------------------------
(***************************************************************************)
(* Proofs about Symbols, Demux, FileIO, Handles, HwRange and Decoding.     *)
(***************************************************************************)
EXTENDS Handles, FileIO, Demux, Symbols, HwRange, Decoding, NaturalsInduction,
        WellFoundedInduction, FiniteSetTheorems, SequenceTheorems, TLAPS

-----------------------------------------------------------------------------
(* Symbols *)

SymbolsInv == library \in Library \union {Missing} /\ ErrorIsItsOwn

\* For any libraries and symbols, and whatever the thread's last failure was: what
\* dynamic_library throws is about the path or the symbol of this call, and only a
\* symbol that is found and null leaves it without a message.
THEOREM MessageIsItsOwn == SymbolsSpec => []ErrorIsItsOwn
<1>1. SymbolsInit => SymbolsInv
  BY DEF SymbolsInit, SymbolsInv, Returned, ErrorIsItsOwn
<1>2. SymbolsInv /\ [SymbolsNext]_symbolVars => SymbolsInv'
  <2> SUFFICES ASSUME SymbolsInv, [SymbolsNext]_symbolVars PROVE SymbolsInv'
    OBVIOUS
  <2>1. CASE Distract \/ UNCHANGED symbolVars
    BY <2>1 DEF Distract, symbolVars, SymbolsInv, ErrorIsItsOwn
  <2>2. ASSUME NEW path \in Library \union {Missing}, Load(path) PROVE SymbolsInv'
    <3>1. CASE path \in Library
      BY <2>2, <3>1 DEF Load, Returned, SymbolsInv, ErrorIsItsOwn
    <3>2. CASE path \notin Library
      <4>1. PICK m \in AfterDlopen(path, dlmessage) : outcome' = Thrown(path, m) /\ library' = library
        BY <2>2, <3>2 DEF Load
      <4>2. m = About(path) /\ m # NoMessage
        BY <3>2, <4>1, AboutIsSomething DEF AfterDlopen
      <4> QED
        BY <4>1, <4>2 DEF Thrown, Threw, SymbolsInv, ErrorIsItsOwn
    <3> QED
      BY <3>1, <3>2
  <2>3. ASSUME NEW name \in Symbol, raw_symbol(name) PROVE SymbolsInv'
    <3>1. library \in Library /\ library' = library
      BY <2>3 DEF raw_symbol, SymbolsInv
    <3>2. CASE name \in Defines[library]
      BY <2>3, <3>1, <3>2 DEF raw_symbol, Returned, SymbolsInv, ErrorIsItsOwn
    <3>3. CASE name \notin Defines[library]
      <4>1. PICK m \in AfterDlsym(name, NoMessage) : outcome' = Thrown(name, m)
        BY <2>3, <3>3 DEF raw_symbol, AfterDlerror
      <4>2. CASE Found(name)
        <5>1. name \in IsNull[library] /\ m = NoMessage
          BY <3>3, <4>1, <4>2 DEF Found, AfterDlsym
        <5> QED
          BY <3>1, <4>1, <5>1, SymbolsAssumption DEF Thrown, Undefined, SymbolsInv, ErrorIsItsOwn
      <4>3. CASE ~Found(name)
        <5>1. m = About(name) /\ m # NoMessage
          BY <4>1, <4>3, AboutIsSomething DEF AfterDlsym
        <5> QED
          BY <3>1, <4>1, <5>1 DEF Thrown, Threw, SymbolsInv, ErrorIsItsOwn
      <4> QED
        BY <4>2, <4>3
    <3> QED
      BY <3>2, <3>3
  <2> QED
    BY <2>1, <2>2, <2>3 DEF SymbolsNext
<1>3. SymbolsInv => ErrorIsItsOwn
  BY DEF SymbolsInv
<1> QED
  BY <1>1, <1>2, <1>3, PTL DEF SymbolsSpec

-----------------------------------------------------------------------------
(* Demux.  What FFmpeg allocates belongs to one object: its context, the I/O *)
(* context that context reads through, and the object that I/O context names *)
(* point at each other.                                                      *)

\* The program of the theorems: demuxers on a buffer stay where they are, and
\* opening such a buffer does not fail halfway
StaysPut == ~MovesBuffers /\ "not_opened" \notin Outcome

\* The buffer is small enough for an int
SizeFits == \A n \in 0 .. Size : ToInt(n) = n

DemuxTypes ==
    /\ DemuxTypeOK
    /\ contexts \subseteq Ctx /\ ios \subseteq Io
    /\ opaque \in [Io -> Dem]
    /\ position \in [Io -> 0 .. Size]

\* From the object to what it owns
Forwards ==
    \A d \in Dem :
        /\ m_ctx[d] \in Ctx => m_ctx[d] \in contexts /\ pb[m_ctx[d]] = m_io_ctx[d]
        /\ m_io_ctx[d] # Nullptr =>
              /\ m_ctx[d] \in Ctx
              /\ m_io_ctx[d] \in ios
              /\ opaque[m_io_ctx[d]] = d

\* And back: everything has its object
Backwards ==
    /\ \A i \in ios : m_io_ctx[opaque[i]] = i
    /\ \A c \in contexts : \E d \in Dem : m_ctx[d] = c
    /\ \A d, e \in Dem : m_ctx[d] = m_ctx[e] /\ m_ctx[e] \in Ctx => d = e

DemuxInv ==
    /\ DemuxTypes /\ Forwards /\ Backwards
    /\ buffers = ios /\ ~misfreed
    /\ PositionsAgree

\* The inductive invariant gives what the runs check
LEMMA DemuxInvSound ==
    ASSUME DemuxInv
    PROVE  PositionsAgree /\ DemuxIsSound
<1>1. PositionsAgree /\ DemuxTypeOK
  BY DEF DemuxInv, DemuxTypes
<1>2. Nullptr \notin Ctx /\ Nullptr \notin Io /\ NoDemux \notin Ctx
  BY DemuxAssumption
<1>3. \A d \in Dem : Closed(d) \subseteq contexts /\ ClosedIo(d) \subseteq ios
  BY <1>2 DEF DemuxInv, Forwards, Closed, ClosedIo
<1>4. ASSUME NEW c \in contexts PROVE Cardinality({d \in Dem : m_ctx[d] = c}) = 1
  <2>1. c \in Ctx
    BY DEF DemuxInv, DemuxTypes
  <2>2. PICK d \in Dem : m_ctx[d] = c
    BY DEF DemuxInv, Backwards
  <2>3. {e \in Dem : m_ctx[e] = c} = {d}
    BY <2>1, <2>2 DEF DemuxInv, Backwards
  <2> QED
    BY <2>3, FS_Singleton
<1>5. ASSUME NEW i \in ios PROVE Cardinality({d \in Dem : m_io_ctx[d] = i}) = 1
  <2>1. i \in Io /\ i # Nullptr /\ opaque[i] \in Dem
    BY <1>2 DEF DemuxInv, DemuxTypes
  <2>2. {d \in Dem : m_io_ctx[d] = i} = {opaque[i]}
    BY <2>1 DEF DemuxInv, Forwards, Backwards
  <2> QED
    BY <2>2, FS_Singleton
<1>6. DemuxOwnsOnce
  BY <1>3, <1>4, <1>5 DEF DemuxInv, DemuxOwnsOnce
<1>7. CallbacksReachable
  <2> SUFFICES ASSUME NEW c \in contexts, pb[c] # Nullptr
               PROVE  pb[c] \in ios /\ m_ctx[opaque[pb[c]]] = c
    BY DEF CallbacksReachable
  <2>1. c \in Ctx
    BY DEF DemuxInv, DemuxTypes
  <2>2. PICK d \in Dem : m_ctx[d] = c
    BY DEF DemuxInv, Backwards
  <2> QED
    BY <2>1, <2>2 DEF DemuxInv, Forwards
<1> QED
  BY <1>1, <1>6, <1>7 DEF DemuxIsSound

LEMMA OpenFileKeeps ==
    ASSUME DemuxInv, NEW d \in Dem, OpenFile(d)
    PROVE  DemuxInv'
<1>1. PICK c \in Ctx \ contexts, ok \in Opened :
        /\ contexts' = IF ok THEN contexts \union {c} ELSE contexts
        /\ pb' = [pb EXCEPT ![c] = Nullptr]
        /\ m_ctx' = [m_ctx EXCEPT ![d] = IF ok THEN c ELSE @]
  BY DEF OpenFile
<1>2. /\ m_ctx[d] = NoDemux
      /\ UNCHANGED <<m_io_ctx, m_buf_offset, ios, buffers, opaque, position, misfreed>>
  BY DEF OpenFile, Constructed
<1>3. /\ Nullptr \notin Ctx /\ NoDemux \notin Ctx
      /\ m_io_ctx[d] = Nullptr
  BY <1>2, DemuxAssumption DEF DemuxInv, Forwards
<1>4. \A e \in Dem : m_ctx[e] \in Ctx => m_ctx[e] # c
  BY <1>1 DEF DemuxInv, Forwards
<1>5. CASE ~ok
  <2>1. contexts' = contexts /\ m_ctx' = m_ctx
    BY <1>1, <1>5 DEF DemuxInv, DemuxTypes, DemuxTypeOK
  <2>2. DemuxTypes'
    BY <1>1, <1>2, <2>1 DEF DemuxInv, DemuxTypes, DemuxTypeOK
  <2>3. Forwards' /\ Backwards'
    BY <1>1, <1>2, <1>4, <2>1 DEF DemuxInv, DemuxTypes, DemuxTypeOK, Forwards, Backwards
  <2> QED
    BY <1>2, <2>2, <2>3 DEF DemuxInv, PositionsAgree
<1>6. CASE ok
  <2>1. contexts' = contexts \union {c} /\ m_ctx' = [m_ctx EXCEPT ![d] = c]
    BY <1>1, <1>6
  <2>2. DemuxTypes'
    BY <1>1, <1>2, <2>1 DEF DemuxInv, DemuxTypes, DemuxTypeOK
  <2>3. /\ m_ctx'[d] = c /\ pb'[c] = Nullptr
        /\ \A e \in Dem \ {d} : m_ctx'[e] = m_ctx[e]
        /\ \A b \in Ctx \ {c} : pb'[b] = pb[b]
    BY <1>1, <2>1 DEF DemuxInv, DemuxTypes, DemuxTypeOK
  <2>4. Forwards'
    <3> SUFFICES ASSUME NEW e \in Dem
                 PROVE  /\ m_ctx'[e] \in Ctx => m_ctx'[e] \in contexts' /\ pb'[m_ctx'[e]] = m_io_ctx[e]
                        /\ m_io_ctx[e] # Nullptr =>
                              m_ctx'[e] \in Ctx /\ m_io_ctx[e] \in ios /\ opaque[m_io_ctx[e]] = e
      BY <1>2 DEF Forwards
    <3>1. CASE e = d
      BY <1>1, <1>3, <2>1, <2>3, <3>1
    <3>2. CASE e # d
      BY <1>4, <2>1, <2>3, <3>2 DEF DemuxInv, Forwards
    <3> QED
      BY <3>1, <3>2
  <2>5. Backwards'
    <3>1. \A i \in ios : m_io_ctx[opaque[i]] = i
      BY DEF DemuxInv, Backwards
    <3>2. ASSUME NEW b \in contexts' PROVE \E e \in Dem : m_ctx'[e] = b
      <4>1. CASE b = c
        BY <2>3, <4>1
      <4>2. CASE b # c
        <5>1. PICK e \in Dem : m_ctx[e] = b
          BY <2>1, <4>2 DEF DemuxInv, Backwards
        <5>2. b \in Ctx
          BY <2>1, <4>2 DEF DemuxInv, DemuxTypes
        <5> QED
          BY <1>2, <1>3, <2>3, <5>1, <5>2
      <4> QED
        BY <4>1, <4>2
    <3>3. \A e, f \in Dem : m_ctx'[e] = m_ctx'[f] /\ m_ctx'[f] \in Ctx => e = f
      BY <1>4, <2>3 DEF DemuxInv, Backwards
    <3> QED
      BY <1>2, <3>1, <3>2, <3>3 DEF Backwards
  <2> QED
    BY <1>2, <2>2, <2>4, <2>5 DEF DemuxInv, PositionsAgree
<1> QED
  BY <1>5, <1>6

LEMMA OpenBufferKeeps ==
    ASSUME StaysPut, DemuxInv, NEW d \in Dem, OpenBuffer(d)
    PROVE  DemuxInv'
<1>1. PICK c \in Ctx \ contexts, i \in Io \ (ios \union buffers), end \in Outcome, at \in 0 .. Size :
        /\ contexts' = IF end = "opened" THEN contexts \union {c} ELSE contexts
        /\ ios' = IF end = "opened" THEN ios \union {i} ELSE ios
        /\ buffers' = IF end # "no_buffer" /\ Frees(end) = 0 THEN buffers \union {i} ELSE buffers
        /\ pb' = [pb EXCEPT ![c] = i]
        /\ opaque' = [opaque EXCEPT ![i] = d]
        /\ position' = [position EXCEPT ![i] = at]
        /\ m_buf_offset' = [m_buf_offset EXCEPT ![d] = at]
        /\ m_ctx' = [m_ctx EXCEPT ![d] = IF end = "opened" THEN c ELSE @]
        /\ m_io_ctx' = [m_io_ctx EXCEPT ![d] = IF end = "opened" THEN i ELSE @]
        /\ misfreed' = (misfreed \/ Frees(end) > 1)
  BY DEF OpenBuffer
<1>2. /\ m_ctx[d] = NoDemux /\ Nullptr \notin Ctx /\ Nullptr \notin Io /\ NoDemux \notin Ctx
  BY DemuxAssumption DEF OpenBuffer, Constructed
<1>3. m_io_ctx[d] = Nullptr
  BY <1>2 DEF DemuxInv, Forwards
<1>4. /\ \A e \in Dem : m_ctx[e] \in Ctx => m_ctx[e] # c
      /\ \A e \in Dem : m_io_ctx[e] # i
  BY <1>1, <1>2 DEF DemuxInv, Forwards
<1>5. \A j \in ios : opaque[j] # d /\ j # i
  BY <1>1, <1>2, <1>3 DEF DemuxInv, DemuxTypes, Backwards
<1>6. end \in {"opened", "no_buffer", "no_io_context"}
  BY DemuxAssumption DEF StaysPut
<1>7. /\ Frees(end) \in {0, 1}
      /\ end = "opened" => Frees(end) = 0
      /\ end = "no_io_context" => Frees(end) = 1
  BY <1>6 DEF Frees
<1>8. ~misfreed'
  <2>1. ~(Frees(end) > 1)
    BY <1>7
  <2>2. ~misfreed
    BY DEF DemuxInv
  <2>3. misfreed' = (misfreed \/ Frees(end) > 1)
    BY <1>1
  <2> HIDE DEF Frees
  <2> QED
    BY <2>1, <2>2, <2>3
<1>9. /\ \A e \in Dem \ {d} : m_buf_offset'[e] = m_buf_offset[e]
      /\ m_buf_offset'[d] = at /\ position'[i] = at /\ opaque'[i] = d
      /\ \A j \in ios : opaque'[j] = opaque[j] /\ position'[j] = position[j]
      /\ \A b \in Ctx \ {c} : pb'[b] = pb[b]
      /\ pb'[c] = i
  BY <1>1, <1>5 DEF DemuxInv, DemuxTypes, DemuxTypeOK
<1>10. PositionsAgree'
  <2>1. \A j \in ios : position'[j] = m_buf_offset'[opaque'[j]]
    BY <1>5, <1>9 DEF DemuxInv, DemuxTypes, PositionsAgree
  <2> QED
    BY <1>1, <1>9, <2>1 DEF PositionsAgree
<1>11. CASE end # "opened"
  <2>1. contexts' = contexts /\ ios' = ios /\ buffers' = buffers
    BY <1>1, <1>6, <1>7, <1>11
  <2>2. m_ctx' = m_ctx /\ m_io_ctx' = m_io_ctx
    BY <1>1, <1>11 DEF DemuxInv, DemuxTypes, DemuxTypeOK
  <2>3. DemuxTypes'
    BY <1>1, <2>1, <2>2 DEF DemuxInv, DemuxTypes, DemuxTypeOK
  <2>4. Forwards'
    BY <1>4, <1>9, <2>1, <2>2 DEF DemuxInv, Forwards
  <2>5. Backwards'
    BY <1>9, <2>1, <2>2 DEF DemuxInv, Backwards
  <2> QED
    BY <1>8, <1>10, <2>1, <2>3, <2>4, <2>5 DEF DemuxInv
<1>12. CASE end = "opened"
  <2>1. /\ contexts' = contexts \union {c} /\ ios' = ios \union {i}
        /\ buffers' = buffers \union {i}
        /\ m_ctx' = [m_ctx EXCEPT ![d] = c] /\ m_io_ctx' = [m_io_ctx EXCEPT ![d] = i]
    BY <1>1, <1>7, <1>12
  <2>2. DemuxTypes'
    <3>1. DemuxTypeOK'
      BY <1>1, <2>1 DEF DemuxInv, DemuxTypes, DemuxTypeOK
    <3> QED
      BY <1>1, <2>1, <3>1 DEF DemuxInv, DemuxTypes
  <2>3. /\ m_ctx'[d] = c /\ m_io_ctx'[d] = i
        /\ \A e \in Dem \ {d} : m_ctx'[e] = m_ctx[e] /\ m_io_ctx'[e] = m_io_ctx[e]
    BY <2>1 DEF DemuxInv, DemuxTypes, DemuxTypeOK
  <2>4. Forwards'
    <3> SUFFICES ASSUME NEW e \in Dem
                 PROVE  /\ m_ctx'[e] \in Ctx => m_ctx'[e] \in contexts' /\ pb'[m_ctx'[e]] = m_io_ctx'[e]
                        /\ m_io_ctx'[e] # Nullptr =>
                              m_ctx'[e] \in Ctx /\ m_io_ctx'[e] \in ios' /\ opaque'[m_io_ctx'[e]] = e
      BY DEF Forwards
    <3>1. CASE e = d
      BY <1>1, <1>9, <2>1, <2>3, <3>1
    <3>2. CASE e # d
      BY <1>4, <1>9, <2>1, <2>3, <3>2 DEF DemuxInv, Forwards
    <3> QED
      BY <3>1, <3>2
  <2>5. Backwards'
    <3>1. \A j \in ios' : m_io_ctx'[opaque'[j]] = j
      <4> TAKE j \in ios'
      <4>1. CASE j = i
        BY <1>9, <2>3, <4>1
      <4>2. CASE j # i
        BY <1>5, <1>9, <2>1, <2>3, <4>2 DEF DemuxInv, DemuxTypes, Backwards
      <4> QED
        BY <4>1, <4>2
    <3>2. ASSUME NEW b \in contexts' PROVE \E e \in Dem : m_ctx'[e] = b
      <4>1. CASE b = c
        BY <2>3, <4>1
      <4>2. CASE b # c
        <5>1. PICK e \in Dem : m_ctx[e] = b
          BY <2>1, <4>2 DEF DemuxInv, Backwards
        <5>2. b \in Ctx
          BY <2>1, <4>2 DEF DemuxInv, DemuxTypes
        <5> QED
          BY <1>2, <2>3, <5>1, <5>2
      <4> QED
        BY <4>1, <4>2
    <3>3. \A e, f \in Dem : m_ctx'[e] = m_ctx'[f] /\ m_ctx'[f] \in Ctx => e = f
      BY <1>4, <2>3 DEF DemuxInv, Backwards
    <3> QED
      BY <3>1, <3>2, <3>3 DEF Backwards
  <2>6. buffers' = ios'
    BY <2>1 DEF DemuxInv
  <2> QED
    BY <1>8, <1>10, <2>2, <2>4, <2>5, <2>6 DEF DemuxInv
<1> QED
  BY <1>11, <1>12

\* What the destructor frees is there
LEMMA CloseFrees ==
    ASSUME DemuxInv, NEW d \in Dem, Close(d)
    PROVE  /\ contexts' = contexts \ {m_ctx[d]} /\ ios' = ios \ {m_io_ctx[d]}
           /\ buffers' = ios' /\ ~misfreed'
<1>1. Nullptr \notin Ctx /\ Nullptr \notin Io /\ NoDemux \notin Ctx
  BY DemuxAssumption
<1>2. Closed(d) \subseteq contexts /\ ClosedIo(d) \subseteq ios
  BY <1>1 DEF DemuxInv, Forwards, Closed, ClosedIo
<1>3. contexts \ Closed(d) = contexts \ {m_ctx[d]} /\ ios \ ClosedIo(d) = ios \ {m_io_ctx[d]}
  BY <1>1 DEF DemuxInv, DemuxTypes, Closed, ClosedIo
<1>4. buffers = ios /\ ~misfreed
  BY DEF DemuxInv
<1>5. ~misfreed'
  BY <1>2, <1>4 DEF Close
<1> QED
  BY <1>3, <1>4, <1>5 DEF Close

\* Closing d takes nothing from another object
LEMMA OthersKeepTheirs ==
    ASSUME DemuxInv, NEW d \in Dem, NEW e \in Dem \ {d}
    PROVE  /\ m_ctx[e] \in Ctx => m_ctx[e] # m_ctx[d]
           /\ m_io_ctx[e] # Nullptr => m_io_ctx[e] # m_io_ctx[d]
<1>1. m_ctx[e] \in Ctx => m_ctx[e] # m_ctx[d]
  BY DEF DemuxInv, Backwards
<1>2. m_io_ctx[e] # Nullptr => m_io_ctx[e] # m_io_ctx[d]
  BY DEF DemuxInv, Forwards
<1> QED
  BY <1>1, <1>2

LEMMA DestroyDemuxKeeps ==
    ASSUME DemuxInv, NEW d \in Dem, DestroyDemux(d)
    PROVE  DemuxInv'
<1>1. /\ m_ctx' = [m_ctx EXCEPT ![d] = NoDemux]
      /\ m_io_ctx' = [m_io_ctx EXCEPT ![d] = Nullptr]
      /\ UNCHANGED <<m_buf_offset, pb, opaque, position>>
      /\ Close(d)
  BY DEF DestroyDemux
<1>2. /\ contexts' = contexts \ {m_ctx[d]} /\ ios' = ios \ {m_io_ctx[d]}
      /\ buffers' = ios' /\ ~misfreed'
  BY <1>1, CloseFrees
<1>3. Nullptr \notin Ctx /\ Nullptr \notin Io /\ NoDemux \notin Ctx
  BY DemuxAssumption
<1>4. /\ m_ctx'[d] = NoDemux /\ m_io_ctx'[d] = Nullptr
      /\ \A e \in Dem \ {d} : m_ctx'[e] = m_ctx[e] /\ m_io_ctx'[e] = m_io_ctx[e]
  BY <1>1 DEF DemuxInv, DemuxTypes, DemuxTypeOK
<1>5. DemuxTypes'
  <2>1. DemuxTypeOK'
    BY <1>1 DEF DemuxInv, DemuxTypes, DemuxTypeOK
  <2> QED
    BY <1>1, <1>2, <2>1 DEF DemuxInv, DemuxTypes
<1>6. Forwards'
  <2> SUFFICES ASSUME NEW e \in Dem
               PROVE  /\ m_ctx'[e] \in Ctx => m_ctx'[e] \in contexts' /\ pb[m_ctx'[e]] = m_io_ctx'[e]
                      /\ m_io_ctx'[e] # Nullptr =>
                            m_ctx'[e] \in Ctx /\ m_io_ctx'[e] \in ios' /\ opaque[m_io_ctx'[e]] = e
    BY <1>1 DEF Forwards
  <2>1. CASE e = d
    BY <1>3, <1>4, <2>1
  <2>2. CASE e # d
    BY <1>2, <1>4, <2>2, OthersKeepTheirs DEF DemuxInv, Forwards
  <2> QED
    BY <2>1, <2>2
<1>7. Backwards'
  <2>1. ASSUME NEW i \in ios' PROVE m_io_ctx'[opaque'[i]] = i
    <3>1. i \in ios /\ i # m_io_ctx[d] /\ opaque[i] \in Dem
      BY <1>2 DEF DemuxInv, DemuxTypes
    <3> QED
      BY <1>1, <1>4, <3>1 DEF DemuxInv, Backwards
  <2>2. ASSUME NEW b \in contexts' PROVE \E e \in Dem : m_ctx'[e] = b
    <3>1. b \in contexts /\ b # m_ctx[d]
      BY <1>2
    <3>2. PICK e \in Dem : m_ctx[e] = b
      BY <3>1 DEF DemuxInv, Backwards
    <3> QED
      BY <1>4, <3>1, <3>2
  <2>3. \A e, f \in Dem : m_ctx'[e] = m_ctx'[f] /\ m_ctx'[f] \in Ctx => e = f
    BY <1>3, <1>4 DEF DemuxInv, Backwards
  <2> QED
    BY <2>1, <2>2, <2>3 DEF Backwards
<1>8. PositionsAgree'
  BY <1>1, <1>2 DEF DemuxInv, PositionsAgree
<1> QED
  BY <1>2, <1>5, <1>6, <1>7, <1>8 DEF DemuxInv

LEMMA MoveDemuxKeeps ==
    ASSUME StaysPut, DemuxInv, NEW d \in Dem, NEW from \in Dem, MoveDemux(d, from)
    PROVE  DemuxInv'
<1>1. /\ m_ctx[from] # NoDemux /\ m_io_ctx[from] = Nullptr
      /\ m_ctx' = [m_ctx EXCEPT ![from] = Nullptr,
                                ![d] = IF d = from THEN Nullptr ELSE m_ctx[from]]
      /\ m_io_ctx' = [m_io_ctx EXCEPT ![d] = Nullptr]
      /\ m_buf_offset' = [m_buf_offset EXCEPT ![d] = 0]
      /\ UNCHANGED <<pb, opaque, position>>
      /\ Close(d)
  BY DEF MoveDemux, StaysPut, Constructed, Left
<1>2. /\ contexts' = contexts \ {m_ctx[d]} /\ ios' = ios \ {m_io_ctx[d]}
      /\ buffers' = ios' /\ ~misfreed'
  BY <1>1, CloseFrees
<1>3. /\ Nullptr \notin Ctx /\ Nullptr \notin Io /\ NoDemux \notin Ctx /\ 0 \in 0 .. Size
  BY DemuxAssumption
<1>4. /\ m_ctx'[from] = Nullptr
      /\ d # from => m_ctx'[d] = m_ctx[from]
      /\ m_io_ctx'[d] = Nullptr
      /\ \A e \in Dem \ {d} : m_io_ctx'[e] = m_io_ctx[e] /\ m_buf_offset'[e] = m_buf_offset[e]
      /\ \A e \in Dem \ {d, from} : m_ctx'[e] = m_ctx[e]
  BY <1>1 DEF DemuxInv, DemuxTypes, DemuxTypeOK
<1>5. DemuxTypes'
  <2>1. m_ctx' \in [Dem -> Ctx \union {Nullptr, NoDemux}]
    BY <1>1 DEF DemuxInv, DemuxTypes, DemuxTypeOK
  <2>2. DemuxTypeOK'
    BY <1>1, <1>3, <2>1 DEF DemuxInv, DemuxTypes, DemuxTypeOK
  <2> QED
    BY <1>1, <1>2, <2>2 DEF DemuxInv, DemuxTypes
<1>6. Forwards'
  <2> SUFFICES ASSUME NEW e \in Dem
               PROVE  /\ m_ctx'[e] \in Ctx => m_ctx'[e] \in contexts' /\ pb[m_ctx'[e]] = m_io_ctx'[e]
                      /\ m_io_ctx'[e] # Nullptr =>
                            m_ctx'[e] \in Ctx /\ m_io_ctx'[e] \in ios' /\ opaque[m_io_ctx'[e]] = e
    BY <1>1 DEF Forwards
  <2>1. CASE e = from
    BY <1>1, <1>3, <1>4, <2>1
  <2>2. CASE e = d /\ d # from
    <3>1. m_ctx[from] \in Ctx => m_ctx[from] # m_ctx[d]
      BY <2>2, OthersKeepTheirs
    <3> QED
      BY <1>1, <1>2, <1>3, <1>4, <2>2, <3>1 DEF DemuxInv, Forwards
  <2>3. CASE e # d /\ e # from
    BY <1>2, <1>4, <2>3, OthersKeepTheirs DEF DemuxInv, Forwards
  <2> QED
    BY <2>1, <2>2, <2>3
<1>7. Backwards'
  <2>1. ASSUME NEW i \in ios' PROVE m_io_ctx'[opaque'[i]] = i
    <3>1. i \in ios /\ i # m_io_ctx[d] /\ opaque[i] \in Dem
      BY <1>2 DEF DemuxInv, DemuxTypes
    <3> QED
      BY <1>1, <1>4, <3>1 DEF DemuxInv, Backwards
  <2>2. ASSUME NEW b \in contexts' PROVE \E e \in Dem : m_ctx'[e] = b
    <3>1. b \in contexts /\ b # m_ctx[d]
      BY <1>2
    <3>2. PICK e \in Dem : m_ctx[e] = b
      BY <3>1 DEF DemuxInv, Backwards
    <3>3. CASE e = from
      BY <1>4, <3>1, <3>2, <3>3
    <3>4. CASE e # from
      BY <1>4, <3>1, <3>2, <3>4
    <3> QED
      BY <3>3, <3>4
  <2>3. \A e, f \in Dem : m_ctx'[e] = m_ctx'[f] /\ m_ctx'[f] \in Ctx => e = f
    <3> SUFFICES ASSUME NEW e \in Dem, NEW f \in Dem, m_ctx'[e] = m_ctx'[f], m_ctx'[f] \in Ctx
                 PROVE  e = f
      OBVIOUS
    <3>1. e # from /\ f # from
      BY <1>3, <1>4
    <3> QED
      BY <1>3, <1>4, <3>1 DEF DemuxInv, Backwards
  <2> QED
    BY <2>1, <2>2, <2>3 DEF Backwards
<1>8. PositionsAgree'
  <2> SUFFICES ASSUME NEW i \in ios' PROVE position[i] = m_buf_offset'[opaque[i]]
    BY <1>1 DEF PositionsAgree
  <2>1. i \in ios /\ opaque[i] \in Dem /\ opaque[i] # d
    BY <1>2 DEF DemuxInv, DemuxTypes, Backwards
  <2> QED
    BY <1>4, <2>1 DEF DemuxInv, PositionsAgree
<1> QED
  BY <1>2, <1>5, <1>6, <1>7, <1>8 DEF DemuxInv

\* A callback that moves the offset of the demuxer and the position of its I/O
\* context to the same place
LEMMA CallbackKeeps ==
    ASSUME DemuxInv, NEW d \in Dem, Through(d) # Nullptr, NEW to \in 0 .. Size,
           m_buf_offset' = [m_buf_offset EXCEPT ![opaque[Through(d)]] = to],
           position' = [position EXCEPT ![Through(d)] = to],
           UNCHANGED <<m_ctx, m_io_ctx, contexts, ios, buffers, pb, opaque, misfreed>>
    PROVE  DemuxInv'
<1>1. Through(d) = m_io_ctx[d] /\ m_io_ctx[d] \in ios /\ opaque[m_io_ctx[d]] = d
  BY DEF Through, DemuxInv, Forwards
<1>2. DemuxTypes' /\ Forwards' /\ Backwards'
  BY DEF DemuxInv, DemuxTypes, DemuxTypeOK, Forwards, Backwards
<1>3. PositionsAgree'
  <2> SUFFICES ASSUME NEW i \in ios PROVE position'[i] = m_buf_offset'[opaque[i]]
    BY DEF PositionsAgree
  <2>1. i \in Io /\ opaque[i] \in Dem
    BY DEF DemuxInv, DemuxTypes
  <2>2. CASE i = m_io_ctx[d]
    BY <1>1, <2>1, <2>2 DEF DemuxInv, DemuxTypes, DemuxTypeOK
  <2>3. CASE i # m_io_ctx[d]
    <3>1. opaque[i] # d
      BY <2>3 DEF DemuxInv, Backwards
    <3> QED
      BY <1>1, <2>1, <2>3, <3>1 DEF DemuxInv, DemuxTypes, DemuxTypeOK, PositionsAgree
  <2> QED
    BY <2>2, <2>3
<1> QED
  BY <1>2, <1>3 DEF DemuxInv

\* The object a callback is given, and where it is
LEMMA CallbackAgrees ==
    ASSUME DemuxInv, NEW d \in Dem, Through(d) # Nullptr
    PROVE  /\ opaque[Through(d)] = d
           /\ position[Through(d)] = m_buf_offset[d]
           /\ m_buf_offset[d] \in 0 .. Size /\ Size \in Nat
<1>1. Through(d) = m_io_ctx[d] /\ m_io_ctx[d] \in ios /\ opaque[m_io_ctx[d]] = d
  BY DEF Through, DemuxInv, Forwards
<1> QED
  BY <1>1, DemuxAssumption DEF DemuxInv, DemuxTypes, DemuxTypeOK, PositionsAgree

LEMMA ReadMoreKeeps ==
    ASSUME SizeFits, DemuxInv, NEW d \in Dem, NEW n \in 1 .. 2, ReadMore(d, n)
    PROVE  DemuxInv'
<1>1. Through(d) # Nullptr
  BY DEF ReadMore
<1>2. /\ opaque[Through(d)] = d /\ position[Through(d)] = m_buf_offset[d]
      /\ m_buf_offset[d] \in 0 .. Size /\ Size \in Nat
  BY <1>1, CallbackAgrees
<1> DEFINE to == m_buf_offset[d] + CountRead(d, n)
<1>3. /\ LeftInBuf(d) # 0
      /\ m_buf_offset' = [m_buf_offset EXCEPT ![d] = to]
      /\ position' = [position EXCEPT ![Through(d)] = to]
      /\ UNCHANGED <<m_ctx, m_io_ctx, contexts, ios, buffers, pb, opaque, misfreed>>
  BY <1>2 DEF ReadMore
<1>4. to \in 0 .. Size
  <2>1. LeftInBuf(d) = Size - m_buf_offset[d] /\ LeftInBuf(d) \in 0 .. Size
    BY <1>2 DEF LeftInBuf
  <2>2. ToInt(LeftInBuf(d)) = LeftInBuf(d)
    BY <2>1 DEF SizeFits
  <2>3. CountRead(d, n) = IF n < LeftInBuf(d) THEN n ELSE LeftInBuf(d)
    BY <2>2 DEF CountRead
  <2>4. CountRead(d, n) \in 0 .. LeftInBuf(d)
    BY <2>1, <2>3
  <2> QED
    BY <1>2, <2>1, <2>4
<1> HIDE DEF to
<1> QED
  BY <1>1, <1>2, <1>3, <1>4, CallbackKeeps

LEMMA SeekKeeps ==
    ASSUME DemuxInv, NEW d \in Dem, NEW n \in -Size - 1 .. Size + 1,
           NEW origin \in {"SEEK_SET", "SEEK_CUR", "SEEK_END"}, Seek(d, n, origin)
    PROVE  DemuxInv'
<1>1. Through(d) # Nullptr
  BY DEF Seek
<1>2. /\ opaque[Through(d)] = d /\ position[Through(d)] = m_buf_offset[d]
      /\ m_buf_offset[d] \in 0 .. Size /\ Size \in Nat
  BY <1>1, CallbackAgrees
<1> DEFINE to == Seeked(d, n, origin)
<1>3. /\ to # -1
      /\ m_buf_offset' = [m_buf_offset EXCEPT ![d] = to]
      /\ position' = [position EXCEPT ![Through(d)] = Wanted(Through(d), n, origin)]
      /\ UNCHANGED <<m_ctx, m_io_ctx, contexts, ios, buffers, pb, opaque, misfreed>>
  BY <1>2 DEF Seek
<1>4. to \in 0 .. Size /\ Wanted(Through(d), n, origin) = to
  <2>1. CASE origin = "SEEK_SET"
    <3>1. to = SeekSet(n) /\ Wanted(Through(d), n, origin) = n
      BY <2>1 DEF Seeked, Wanted
    <3> QED
      BY <1>2, <1>3, <3>1 DEF SeekSet
  <2>2. CASE origin = "SEEK_CUR"
    <3>1. to = SeekCur(d, n) /\ Wanted(Through(d), n, origin) = m_buf_offset[d] + n
      BY <1>2, <2>2 DEF Seeked, Wanted
    <3> QED
      BY <1>2, <1>3, <3>1 DEF SeekCur
  <2>3. CASE origin = "SEEK_END"
    <3>1. to = SeekEndTo(n) /\ Wanted(Through(d), n, origin) = Size + n
      BY <2>3 DEF Seeked, Wanted
    <3> QED
      BY <1>2, <1>3, <3>1 DEF SeekEndTo
  <2> QED
    BY <2>1, <2>2, <2>3
<1>5. position' = [position EXCEPT ![Through(d)] = to]
  BY <1>3, <1>4
<1> HIDE DEF to
<1> QED
  BY <1>1, <1>2, <1>3, <1>4, <1>5, CallbackKeeps

LEMMA DemuxInvariance == StaysPut /\ SizeFits => (DemuxSpec => []DemuxInv)
<1> SUFFICES ASSUME StaysPut, SizeFits PROVE DemuxSpec => []DemuxInv
  OBVIOUS
<1>1. DemuxInit => DemuxInv
  <2> SUFFICES ASSUME DemuxInit PROVE DemuxInv
    OBVIOUS
  <2>1. NoDemux \notin Ctx /\ 0 \in 0 .. Size
    BY DemuxAssumption
  <2>2. DemuxTypes
    BY <2>1 DEF DemuxInit, DemuxTypes, DemuxTypeOK
  <2>3. Forwards /\ Backwards /\ buffers = ios /\ ~misfreed /\ PositionsAgree
    BY <2>1 DEF DemuxInit, Forwards, Backwards, PositionsAgree
  <2> QED
    BY <2>2, <2>3 DEF DemuxInv
<1>2. DemuxInv /\ [DemuxNext]_demuxVars => DemuxInv'
  <2> SUFFICES ASSUME DemuxInv, [DemuxNext]_demuxVars PROVE DemuxInv'
    OBVIOUS
  <2>1. ASSUME NEW d \in Dem, OpenFile(d) PROVE DemuxInv'
    BY <2>1, OpenFileKeeps
  <2>2. ASSUME NEW d \in Dem, OpenBuffer(d) PROVE DemuxInv'
    BY <2>2, OpenBufferKeeps
  <2>3. ASSUME NEW d \in Dem, DestroyDemux(d) PROVE DemuxInv'
    BY <2>3, DestroyDemuxKeeps
  <2>4. ASSUME NEW d \in Dem, NEW from \in Dem, MoveDemux(d, from) PROVE DemuxInv'
    BY <2>4, MoveDemuxKeeps
  <2>5. ASSUME NEW d \in Dem, NEW n \in 1 .. 2, ReadMore(d, n) PROVE DemuxInv'
    BY <2>5, ReadMoreKeeps
  <2>6. ASSUME NEW d \in Dem, NEW n \in -Size - 1 .. Size + 1,
               NEW origin \in {"SEEK_SET", "SEEK_CUR", "SEEK_END"}, Seek(d, n, origin)
        PROVE  DemuxInv'
    BY <2>6, SeekKeeps
  <2>7. CASE UNCHANGED demuxVars
    BY <2>7 DEF demuxVars, DemuxInv, DemuxTypes, DemuxTypeOK, Forwards, Backwards, PositionsAgree
  <2> QED
    BY <2>1, <2>2, <2>3, <2>4, <2>5, <2>6, <2>7 DEF DemuxNext
<1> QED
  BY <1>1, <1>2, PTL DEF DemuxSpec

\* For any number of demuxers, with a buffer of any size that fits an int: the
\* offset of a demuxer is where FFmpeg takes it to be, after any sequence of
\* reads and seeks.
THEOREM OffsetsAgree == StaysPut /\ SizeFits => (DemuxSpec => []PositionsAgree)
<1>1. DemuxInv => PositionsAgree
  BY DEF DemuxInv
<1> QED
  BY <1>1, DemuxInvariance, PTL

\* And whatever is constructed, moved and destroyed, with opening that fails:
\* each context and each buffer has one demuxer that frees it, once, and the
\* object the callbacks are given is the one that owns the context.
THEOREM DemuxersAreSound == StaysPut /\ SizeFits => (DemuxSpec => []DemuxIsSound)
<1>1. DemuxInv => DemuxIsSound
  BY DemuxInvSound
<1> QED
  BY <1>1, DemuxInvariance, PTL

-----------------------------------------------------------------------------
(* FileIO *)

Bytes == Byte \union {Zero}

FileTypes ==
    /\ contents \in Seq(Bytes) /\ Length <= MaxLen
    /\ offset \in 0 .. MaxLen /\ curr \in 0 .. MaxLen
    /\ size \in -MaxLen .. MaxLen
    /\ quiet \in BOOLEAN

\* What read_bin knows at each of its steps: the size is that of the rest of the
\* file as long as nobody has changed it, and the offset is back where it was
\* before anything can throw
ReadSoFar ==
    /\ step \in {"seek_end", "allocate", "read", "threw"} => offset = curr
    /\ step \in {"seek_begin", "allocate", "read"} /\ quiet => size = Length - curr
    /\ step = "read" => size >= 0
    /\ step \in {"read", "returned"} => Len(result) = size

FileInv == FileTypes /\ ReadSoFar /\ ReadsWholeTail /\ PaddedOnly

LEMMA BoundedIsSeq ==
    ASSUME NEW S, NEW n \in Nat, NEW s \in BoundedSeq(S, n)
    PROVE  s \in Seq(S) /\ Len(s) \in 0 .. n
<1>1. PICK m \in 0 .. n : s \in [1 .. m -> S]
  BY DEF BoundedSeq, SeqOf
<1> QED
  BY <1>1

\* A part of a sequence
LEMMA PartOf ==
    ASSUME NEW S, NEW s \in Seq(S), NEW from \in Nat, NEW to \in Nat, from <= to, to <= Len(s)
    PROVE  /\ SubSeq(s, from + 1, to) \in Seq(S)
           /\ Len(SubSeq(s, from + 1, to)) = to - from
<1>1. PICK m \in Nat : m = from + 1
  OBVIOUS
<1>2. \A i \in m .. to : s[i] \in S
  BY <1>1
<1>3. SubSeq(s, m, to) \in Seq(S)
  BY <1>2, SubSeqProperties
<1>4. Len(SubSeq(s, m, to)) = IF m <= to THEN to - m + 1 ELSE 0
  BY <1>2, SubSeqProperties
<1> QED
  BY <1>1, <1>3, <1>4

\* A sequence without its last element
LEMMA FrontIsShorter ==
    ASSUME NEW S, NEW s \in Seq(S), Len(s) > 0
    PROVE  Front(s) \in Seq(S) /\ Len(Front(s)) = Len(s) - 1
<1>1. Len(s) \in Nat \ {0}
  OBVIOUS
<1>2. PICK n \in Nat : n = Len(s) - 1
  BY <1>1
<1>3. Front(s) = SubSeq(s, 1, n)
  BY <1>2 DEF Front
<1>4. \A i \in 1 .. n : s[i] \in S
  BY <1>1, <1>2
<1>5. SubSeq(s, 1, n) \in Seq(S)
  BY <1>2, <1>4, SubSeqProperties
<1>6. Len(SubSeq(s, 1, n)) = IF 1 <= n THEN n - 1 + 1 ELSE 0
  BY <1>2, <1>4, SubSeqProperties
<1> QED
  BY <1>2, <1>3, <1>5, <1>6

\* What read delivers: at most what was asked for, and all of it if it is there
LEMMA ReadDelivers ==
    ASSUME ~ShortReads, FileInv, NEW n \in 0 .. MaxLen, NEW got \in Readable(n)
    PROVE  /\ got \in Seq(Bytes) /\ Len(got) \in 0 .. n
           /\ offset + Len(got) \in 0 .. MaxLen
           /\ offset + n = Length =>
                 Len(got) = n /\ got = SubSeq(contents, offset + 1, Length)
<1>1. /\ contents \in Seq(Bytes) /\ Length \in Nat /\ Length <= MaxLen
      /\ offset \in 0 .. MaxLen /\ MaxLen \in Nat
  BY FileAssumption DEF FileInv, FileTypes, Length
<1>2. got = IF offset < Length
            THEN SubSeq(contents, offset + 1, IF offset + n < Length THEN offset + n ELSE Length)
            ELSE <<>>
  BY DEF Readable
<1>3. CASE offset < Length
  <2>1. PICK to \in Nat : to = IF offset + n < Length THEN offset + n ELSE Length
    BY <1>1
  <2>2. got = SubSeq(contents, offset + 1, to)
    BY <1>2, <1>3, <2>1
  <2>3. offset <= to /\ to <= Length /\ to - offset \in 0 .. n
    BY <1>1, <1>3, <2>1
  <2>4. got \in Seq(Bytes) /\ Len(got) = to - offset
    BY <1>1, <2>2, <2>3, PartOf DEF Length
  <2>5. offset + Len(got) \in 0 .. MaxLen
    BY <1>1, <2>3, <2>4
  <2>6. offset + n = Length => to = Length
    BY <1>1, <2>1
  <2> QED
    BY <1>1, <2>2, <2>3, <2>4, <2>5, <2>6
<1>4. CASE ~(offset < Length)
  <2>1. got = <<>> /\ Len(got) = 0 /\ got \in Seq(Bytes)
    BY <1>2, <1>4
  <2>2. ASSUME offset + n = Length PROVE n = 0 /\ offset = Length
    BY <1>1, <1>4, <2>2
  <2>3. SubSeq(contents, Length + 1, Length) = <<>>
    BY <1>1, SubSeqEmpty
  <2> QED
    BY <1>1, <2>1, <2>2, <2>3
<1> QED
  BY <1>3, <1>4

LEMMA PlainKeeps ==
    ASSUME ~ShortReads, FileInv, Plain
    PROVE  FileInv'
<1>1. step = "idle" /\ UNCHANGED <<step, curr, size, result, quiet>>
  BY DEF Plain
<1>2. MaxLen \in Nat
  BY FileAssumption
<1>3. SUFFICES contents' \in Seq(Bytes) /\ Length' <= MaxLen /\ offset' \in 0 .. MaxLen
  BY <1>1, <1>3 DEF FileInv, FileTypes, ReadSoFar, ReadsWholeTail, PaddedOnly
<1>4. ASSUME NEW to, SeekTo(to)
      PROVE  contents' \in Seq(Bytes) /\ Length' <= MaxLen /\ offset' \in 0 .. MaxLen
  <2>1. contents' = contents /\ offset' = IF to \in 0 .. MaxLen THEN to ELSE offset
    BY <1>4 DEF SeekTo, Seekable
  <2> QED
    BY <2>1 DEF FileInv, FileTypes, Length
<1>5. ASSUME NEW n \in 1 .. MaxLen, Read(n)
      PROVE  contents' \in Seq(Bytes) /\ Length' <= MaxLen /\ offset' \in 0 .. MaxLen
  <2>1. PICK got \in Readable(n) : offset' = offset + Len(got)
    BY <1>5 DEF Read
  <2>2. offset' \in 0 .. MaxLen
    BY <1>2, <2>1, ReadDelivers
  <2> QED
    BY <1>5, <2>2 DEF Read, FileInv, FileTypes, Length
<1>6. ASSUME NEW data \in BoundedSeq(Byte, 2), Write(data)
      PROVE  contents' \in Seq(Bytes) /\ Length' <= MaxLen /\ offset' \in 0 .. MaxLen
  <2>1. data \in Seq(Byte)
    BY <1>6, BoundedIsSeq
  <2>2. PICK n \in 1 .. Len(data) :
          /\ offset + n <= MaxLen
          /\ contents' = [i \in 1 .. (IF offset + n > Length THEN offset + n ELSE Length) |->
                              IF i \in offset + 1 .. offset + n THEN data[i - offset]
                              ELSE IF i <= Length THEN contents[i] ELSE Zero]
          /\ offset' = offset + n
    BY <1>6 DEF Write
  <2>3. /\ contents \in Seq(Bytes) /\ Length \in Nat /\ Length <= MaxLen
        /\ offset \in 0 .. MaxLen /\ n \in Nat /\ Len(data) \in Nat
    BY <2>1 DEF FileInv, FileTypes, Length
  <2>4. PICK m \in Nat : m = IF offset + n > Length THEN offset + n ELSE Length
    BY <2>3
  <2>5. ASSUME NEW i \in 1 .. m
        PROVE  (IF i \in offset + 1 .. offset + n THEN data[i - offset]
                ELSE IF i <= Length THEN contents[i] ELSE Zero) \in Bytes
    <3>1. CASE i \in offset + 1 .. offset + n
      <4>1. i - offset \in 1 .. Len(data)
        BY <2>3, <3>1
      <4>2. data[i - offset] \in Byte
        BY <2>1, <4>1
      <4> QED
        BY <3>1, <4>2 DEF Bytes
    <3>2. CASE i \notin offset + 1 .. offset + n /\ i <= Length
      BY <2>3, <3>2 DEF Length
    <3>3. CASE i \notin offset + 1 .. offset + n /\ ~(i <= Length)
      BY <3>3 DEF Bytes
    <3> QED
      BY <3>1, <3>2, <3>3
  <2>6. contents' \in [1 .. m -> Bytes]
    BY <2>2, <2>4, <2>5
  <2>7. contents' \in Seq(Bytes) /\ Len(contents') = m
    BY <2>4, <2>6
  <2>8. m <= MaxLen
    BY <2>2, <2>3, <2>4
  <2> QED
    BY <1>2, <2>2, <2>3, <2>7, <2>8 DEF Length
<1>7. \/ \E to : SeekTo(to)
      \/ \E n \in 1 .. MaxLen : Read(n)
      \/ \E data \in BoundedSeq(Byte, 2) : Write(data)
  BY DEF Plain, SeekBegin, SeekEnd, SeekCurrent
<1> QED
  BY <1>4, <1>5, <1>6, <1>7

LEMMA DisturbKeeps ==
    ASSUME FileInv, Disturb
    PROVE  FileInv'
<1>1. ~quiet' /\ quiet' \in BOOLEAN /\ UNCHANGED <<offset, step, curr, size, result>>
  BY DEF Disturb
<1>2. contents \in Seq(Bytes) /\ Len(contents) \in Nat /\ Len(contents) <= MaxLen /\ MaxLen \in Nat
  BY FileAssumption DEF FileInv, FileTypes, Length
<1>3. contents' \in Seq(Bytes) /\ Len(contents') <= MaxLen
  <2>1. ASSUME NEW b \in Byte, Length < MaxLen, contents' = Append(contents, b)
        PROVE  contents' \in Seq(Bytes) /\ Len(contents') <= MaxLen
    <3>1. b \in Bytes
      BY DEF Bytes
    <3> QED
      BY <1>2, <2>1, <3>1 DEF Length
  <2>2. ASSUME Length > 0, contents' = Front(contents)
        PROVE  contents' \in Seq(Bytes) /\ Len(contents') <= MaxLen
    BY <1>2, <2>2, FrontIsShorter DEF Length
  <2> QED
    BY <2>1, <2>2 DEF Disturb
<1> QED
  BY <1>1, <1>3 DEF FileInv, FileTypes, ReadSoFar, ReadsWholeTail, PaddedOnly, Length

LEMMA ReadKeeps ==
    ASSUME ~ShortReads, FileInv, Fill, step' = "returned"
    PROVE  FileInv'
<1>1. step = "read" /\ UNCHANGED <<contents, curr, size, quiet>>
  BY DEF Fill
<1>2. PICK got \in Readable(size) :
        result' = got \o [i \in 1 .. size - Len(got) |-> Zero] /\ offset' = offset + Len(got)
  BY DEF Fill, Delivered
<1>3. /\ offset = curr /\ size >= 0 /\ size \in 0 .. MaxLen
      /\ quiet => size = Length - curr
      /\ curr \in Nat /\ Length \in Nat
  BY <1>1, FileAssumption DEF FileInv, FileTypes, ReadSoFar, Length
<1>4. /\ got \in Seq(Bytes) /\ Len(got) \in 0 .. size
      /\ offset + Len(got) \in 0 .. MaxLen
      /\ offset + size = Length =>
            Len(got) = size /\ got = SubSeq(contents, offset + 1, Length)
  BY <1>3, ReadDelivers
<1>5. PICK k \in Nat : k = size - Len(got)
  BY <1>3, <1>4
<1>6. PICK zeros : zeros = [i \in 1 .. k |-> Zero]
  OBVIOUS
<1>7. zeros \in Seq(Bytes) /\ Len(zeros) = k /\ \A i \in 1 .. k : zeros[i] = Zero
  BY <1>6 DEF Bytes
<1>8. result' = got \o zeros
  BY <1>2, <1>5, <1>6
<1>9. Len(result') = size
  BY <1>3, <1>4, <1>5, <1>7, <1>8
<1>10. ASSUME quiet
       PROVE  result' = SubSeq(contents, curr + 1, Length) /\ offset' = Length
  <2>1. offset + size = Length
    BY <1>3, <1>10
  <2>2. Len(got) = size /\ got = SubSeq(contents, curr + 1, Length) /\ k = 0
    BY <1>3, <1>4, <1>5, <2>1
  <2>3. zeros = <<>>
    BY <1>6, <2>2
  <2>4. result' = got
    BY <1>4, <1>8, <2>3
  <2> QED
    BY <1>2, <2>1, <2>2, <2>4
<1>11. ASSUME NEW i \in 1 .. size, offset' < curr + i
       PROVE  result'[i] = Zero
  <2>1. Len(got) < i /\ i - Len(got) \in 1 .. k
    BY <1>2, <1>3, <1>4, <1>5, <1>11
  <2>2. i \in 1 .. Len(got) + Len(zeros) /\ ~(i <= Len(got))
    BY <1>3, <1>4, <1>5, <1>7, <2>1
  <2>3. result'[i] = zeros[i - Len(got)]
    BY <1>4, <1>7, <1>8, <2>2
  <2> QED
    BY <1>7, <2>1, <2>3
<1>12. FileTypes'
  BY <1>1, <1>2, <1>4 DEF FileInv, FileTypes, Length
<1>13. ReadSoFar'
  BY <1>1, <1>9 DEF ReadSoFar
<1>14. ReadsWholeTail'
  BY <1>1, <1>10 DEF ReadsWholeTail, Length
<1>15. PaddedOnly'
  BY <1>1, <1>11 DEF PaddedOnly
<1> QED
  BY <1>12, <1>13, <1>14, <1>15 DEF FileInv

LEMMA FillKeeps ==
    ASSUME ~ShortReads, FileInv, Fill
    PROVE  FileInv'
<1>1. CASE step' = "returned"
  BY <1>1, ReadKeeps
<1>2. CASE step' = "failed"
  <2>1. UNCHANGED <<contents, curr, size, quiet>> /\ offset' \in 0 .. MaxLen
    BY <1>2 DEF Fill, Seekable
  <2> QED
    BY <1>2, <2>1 DEF FileInv, FileTypes, ReadSoFar, ReadsWholeTail, PaddedOnly, Length
<1> QED
  BY <1>1, <1>2 DEF Fill

\* For files of any length, as long as read delivers what is there or fails: a call
\* of read_bin nobody disturbs returns the whole rest of the file from the offset
\* or throws, a disturbed one has zeros behind the offset it leaves, and a
\* call that throws before it reads leaves the offset where it was.
THEOREM ReadBinIsSound == ~ShortReads => (FileSpec => []ReadsOrRestores)
<1> SUFFICES ASSUME ~ShortReads PROVE FileSpec => []ReadsOrRestores
  OBVIOUS
<1>1. FileInit => FileInv
  <2> SUFFICES ASSUME FileInit PROVE FileInv
    OBVIOUS
  <2>1. MaxLen \in Nat /\ contents \in BoundedSeq(Byte, MaxLen)
    BY FileAssumption DEF FileInit
  <2>2. contents \in Seq(Byte) /\ Len(contents) \in 0 .. MaxLen
    BY <2>1, BoundedIsSeq
  <2>3. contents \in Seq(Bytes)
    BY <2>2 DEF Bytes
  <2>4. FileTypes
    BY <2>1, <2>2, <2>3 DEF FileInit, FileTypes, Length
  <2> QED
    BY <2>4 DEF FileInit, FileInv, ReadSoFar, ReadsWholeTail, PaddedOnly
<1>2. FileInv /\ [FileNext]_fileVars => FileInv'
  <2> SUFFICES ASSUME FileInv, [FileNext]_fileVars PROVE FileInv'
    OBVIOUS
  <2>1. CASE Call
    BY <2>1 DEF Call, FileInv, FileTypes, ReadSoFar, ReadsWholeTail, PaddedOnly, Length
  <2>2. CASE FindSize
    <3>1. /\ step = "seek_end" /\ step' = "seek_begin" /\ size' = Length - curr
          /\ contents' = contents /\ UNCHANGED <<curr, result, quiet>>
          /\ offset' = IF Length + 0 \in 0 .. MaxLen THEN Length + 0 ELSE offset
      BY <2>2 DEF FindSize, SeekEnd, SeekTo, Seekable, Remaining
    <3>2. Length \in 0 .. MaxLen /\ MaxLen \in Nat
      BY FileAssumption DEF FileInv, FileTypes, Length
    <3>3. size' \in -MaxLen .. MaxLen
      BY <3>1, <3>2 DEF FileInv, FileTypes
    <3>4. offset' \in 0 .. MaxLen
      BY <3>1, <3>2
    <3>5. FileTypes'
      BY <3>1, <3>3, <3>4 DEF FileInv, FileTypes, Length
    <3> QED
      BY <3>1, <3>5 DEF FileInv, ReadSoFar, ReadsWholeTail, PaddedOnly, Length
  <2>3. CASE Restore
    <3>1. /\ step = "seek_begin" /\ step' = "allocate" /\ offset' = curr
          /\ UNCHANGED <<contents, curr, size, result, quiet>>
      BY <2>3 DEF Restore, GoBack, SeekBegin, SeekTo, Seekable, FileInv, FileTypes
    <3> QED
      BY <3>1 DEF FileInv, FileTypes, ReadSoFar, ReadsWholeTail, PaddedOnly, Length
  <2>4. CASE Allocate
    <3>1. step = "allocate" /\ UNCHANGED <<contents, offset, curr, size, quiet>>
      BY <2>4 DEF Allocate
    <3>2. FileTypes'
      BY <3>1 DEF FileInv, FileTypes, Length
    <3>3. CASE size < 0
      BY <2>4, <3>1, <3>2, <3>3 DEF Allocate, FileInv, ReadSoFar, ReadsWholeTail, PaddedOnly, Length
    <3>4. CASE ~(size < 0)
      <4>1. PICK n \in Nat : n = size
        BY <3>4 DEF FileInv, FileTypes
      <4>2. step' = "read" /\ result' = [i \in 1 .. n |-> Zero]
        BY <2>4, <3>4, <4>1 DEF Allocate
      <4>3. Len(result') = size
        BY <4>1, <4>2
      <4> QED
        BY <3>1, <3>2, <4>1, <4>2, <4>3 DEF FileInv, ReadSoFar, ReadsWholeTail, PaddedOnly, Length
    <3> QED
      BY <3>3, <3>4
  <2>5. CASE Fill
    BY <2>5, FillKeeps
  <2>6. CASE Done
    BY <2>6 DEF Done, FileInv, FileTypes, ReadSoFar, ReadsWholeTail, PaddedOnly, Length
  <2>7. CASE Plain
    BY <2>7, PlainKeeps
  <2>8. CASE Disturb
    BY <2>8, DisturbKeeps
  <2>9. CASE UNCHANGED fileVars
    BY <2>9 DEF fileVars, FileInv, FileTypes, ReadSoFar, ReadsWholeTail, PaddedOnly, Length
  <2> QED
    BY <2>1, <2>2, <2>3, <2>4, <2>5, <2>6, <2>7, <2>8, <2>9 DEF FileNext
<1>3. FileInv => ReadsOrRestores
  BY DEF FileInv, FileTypes, ReadSoFar, Bytes, ReadsOrRestores, FileTypeOK, PaddedOnly, OffsetSurvives
<1> QED
  BY <1>1, <1>2, <1>3, PTL DEF FileSpec

-----------------------------------------------------------------------------
(* Handles.  Both counts, of references to a resource and of frames that     *)
(* show a picture, follow a function: who holds what, which frame shows what. *)

\* How often f has the value r
Tally(f, S, r) == Cardinality({y \in S : f[y] = r})

Is(a, b) == IF a = b THEN 1 ELSE 0

\* How often a value occurs
LEMMA TallyIsNat ==
    ASSUME NEW S, IsFiniteSet(S), NEW f, NEW r
    PROVE  /\ Tally(f, S, r) \in Nat
           /\ \A x \in S : f[x] = r => Tally(f, S, r) > 0
<1> DEFINE A == {y \in S : f[y] = r}
<1>1. IsFiniteSet(A)
  BY FS_Subset
<1>2. Cardinality(A) \in Nat /\ (Cardinality(A) = 0 <=> A = {})
  BY <1>1, FS_CardinalityType, FS_EmptySet
<1>3. \A x \in S : f[x] = r => A # {}
  OBVIOUS
<1> HIDE DEF A
<1>4. \A x \in S : f[x] = r => Cardinality(A) > 0
  BY <1>2, <1>3
<1> QED
  BY <1>2, <1>4 DEF A, Tally

\* g is f but for its value at x
DiffersAt(f, g, S, x) == \A y \in S \ {x} : g[y] = f[y]

\* What the tally of r becomes when a value changes from old to new
TallyMoves(after, before, old, new, r) == after = before - Is(old, r) + Is(new, r)

\* Two functions that differ at one place have tallies that differ by one
LEMMA TallyAfter ==
    ASSUME NEW S, IsFiniteSet(S), NEW f, NEW g, NEW x \in S, NEW r, DiffersAt(f, g, S, x)
    PROVE  TallyMoves(Tally(g, S, r), Tally(f, S, r), f[x], g[x], r)
<1> DEFINE Others == {y \in S \ {x} : f[y] = r}
<1>1. IsFiniteSet(Others) /\ x \notin Others
  BY FS_Subset
<1>2. /\ Cardinality(Others) \in Nat
      /\ Cardinality(Others \union {x}) = Cardinality(Others) + 1
  BY <1>1, FS_CardinalityType, FS_AddElement
<1>3. {y \in S : f[y] = r} = IF f[x] = r THEN Others \union {x} ELSE Others
  OBVIOUS
<1>4. {y \in S : g[y] = r} = IF g[x] = r THEN Others \union {x} ELSE Others
  BY DEF DiffersAt
<1> HIDE DEF Others
<1>5. Tally(f, S, r) = Cardinality(Others) + Is(f[x], r)
  BY <1>2, <1>3 DEF Tally, Is
<1>6. Tally(g, S, r) = Cardinality(Others) + Is(g[x], r)
  BY <1>2, <1>4 DEF Tally, Is
<1>7. Is(f[x], r) \in {0, 1} /\ Is(g[x], r) \in {0, 1}
  BY DEF Is
<1> QED
  BY <1>2, <1>5, <1>6, <1>7 DEF TallyMoves

\* The classes of upp; decoder is like packet
Classes == {File, DynamicLibrary, Tmpdir, Packet, Frame, Hwaccel}

\* What a theorem about Handles supposes of the program: its objects are of one
\* of these classes, av_frame_ref does not fail, no directory is overwritten, and
\* nothing is assigned to itself whose destructor leaves the handle as it is
UsedAsMeant ==
    Class \subseteq Classes /\ FALSE \notin Referenced /\ ~Overwrites /\ ~SelfAssigns

LEMMA ClassFacts ==
    ASSUME class \in Classes
    PROVE  /\ class.releases => class = File
           /\ class.copies = "duplicates" <=> class = Frame
           /\ class = File => class.copies = "no"
           /\ class = Frame => class.replaces /\ class.throws /\ ~class.null_default
           /\ class.copies \in {"no", "duplicates", "shares"}
<1>1. /\ ~DynamicLibrary.releases /\ ~Tmpdir.releases /\ ~Packet.releases
      /\ ~Frame.releases /\ ~Hwaccel.releases
  BY DEF File, DynamicLibrary, Tmpdir, Packet, Frame, Hwaccel
<1>2. /\ File.copies = "no" /\ DynamicLibrary.copies = "no" /\ Tmpdir.copies = "no"
      /\ Packet.copies = "no" /\ Frame.copies = "duplicates" /\ Hwaccel.copies = "shares"
  BY DEF File, DynamicLibrary, Tmpdir, Packet, Frame, Hwaccel
<1>3. Frame.replaces /\ Frame.throws /\ ~Frame.null_default
  BY DEF Packet, Frame
<1> QED
  BY <1>1, <1>2, <1>3 DEF Classes

-----------------------------------------------------------------------------

OwnTypes ==
    /\ class \in Classes
    /\ handle \in [Obj -> Res \union {Null, NoObject}]
    /\ held \in [Res -> Nat]
    /\ given \subseteq Res

\* Only references to a device are shared, and only descriptors are released
OneReference ==
    /\ class.copies # "shares" => \A r \in Res : held[r] <= 1
    /\ given # {} => class = File

OwnInv == OwnTypes /\ OwnedByHolders /\ OneReference

LEMMA HoldersTallied ==
    OwnedByHolders <=>
        \A r \in Res : held[r] = Tally(handle, Obj, r) + (IF r \in given THEN 1 ELSE 0)
BY DEF OwnedByHolders, Tally

\* A resource somebody holds is not free
LEMMA OwnedIsHeld ==
    ASSUME OwnInv, NEW o \in Obj, handle[o] \in Res
    PROVE  held[handle[o]] > 0
<1>1. /\ Tally(handle, Obj, handle[o]) \in Nat
      /\ Tally(handle, Obj, handle[o]) > 0
  BY TallyIsNat, HandlesAssumption
<1>2. held[handle[o]] = Tally(handle, Obj, handle[o]) + (IF handle[o] \in given THEN 1 ELSE 0)
  BY HoldersTallied DEF OwnInv
<1> QED
  BY <1>1, <1>2

\* An object gives up what it held for what is free, or shared, or nothing
LEMMA ExchangeKeeps ==
    ASSUME OwnInv, NEW o \in Obj, NEW v \in Res \union {Null, NoObject},
           v \in Res => held[v] = 0 \/ class.copies = "shares",
           handle' = [handle EXCEPT ![o] = v],
           held' = Counts(o, {v} \intersect Res),
           UNCHANGED <<class, given>>
    PROVE  /\ OwnInv'
           /\ \A r \in Res : held'[r] = held[r] - Is(handle[o], r) + Is(v, r)
<1>1. \A r \in Res : held'[r] = held[r] - Is(handle[o], r) + Is(v, r)
  BY DEF Counts, Is
<1>2. ASSUME NEW r \in Res
      PROVE  /\ Tally(handle', Obj, r) = Tally(handle, Obj, r) - Is(handle[o], r) + Is(v, r)
             /\ Tally(handle, Obj, r) \in Nat
             /\ Tally(handle', Obj, r) \in Nat
  <2>1. IsFiniteSet(Obj)
    BY HandlesAssumption
  <2>2. handle'[o] = v /\ DiffersAt(handle, handle', Obj, o)
    BY DEF OwnInv, OwnTypes, DiffersAt
  <2>3. TallyMoves(Tally(handle', Obj, r), Tally(handle, Obj, r), handle[o], handle'[o], r)
    BY <2>1, <2>2, TallyAfter
  <2>4. Tally(handle', Obj, r) = Tally(handle, Obj, r) - Is(handle[o], r) + Is(handle'[o], r)
    BY <2>3 DEF TallyMoves
  <2> QED
    BY <2>1, <2>2, <2>4, TallyIsNat
<1>3. \A r \in Res : held[r] = Tally(handle, Obj, r) + (IF r \in given THEN 1 ELSE 0)
  BY HoldersTallied DEF OwnInv
<1>4. \A a, b : Is(a, b) \in {0, 1}
  BY DEF Is
<1>5. ASSUME NEW r \in Res
      PROVE  /\ held'[r] = Tally(handle', Obj, r) + (IF r \in given THEN 1 ELSE 0)
             /\ held'[r] \in Nat
  <2> DEFINE released == IF r \in given THEN 1 ELSE 0
  <2>1. released \in {0, 1} /\ Is(handle[o], r) \in {0, 1} /\ Is(v, r) \in {0, 1}
    BY <1>4
  <2>2. held[r] = Tally(handle, Obj, r) + released
    BY <1>3
  <2>3. held'[r] = held[r] - Is(handle[o], r) + Is(v, r)
    BY <1>1
  <2> HIDE DEF released
  <2>4. /\ Tally(handle', Obj, r) = Tally(handle, Obj, r) - Is(handle[o], r) + Is(v, r)
        /\ Tally(handle, Obj, r) \in Nat /\ Tally(handle', Obj, r) \in Nat
    BY <1>2
  <2>5. held'[r] = Tally(handle', Obj, r) + released
    BY <2>1, <2>2, <2>3, <2>4
  <2>6. held'[r] \in Nat
    BY <2>1, <2>4, <2>5
  <2> QED
    BY <2>5, <2>6 DEF released
<1>6. OwnedByHolders'
  BY <1>5 DEF OwnedByHolders, Tally
<1>7. \A r \in Res : held'[r] \in Nat
  BY <1>5
<1>8. held' = [r \in Res |-> held'[r]]
  BY DEF Counts
<1>9. held' \in [Res -> Nat]
  BY <1>7, <1>8
<1>10. OwnTypes'
  BY <1>9 DEF OwnInv, OwnTypes
<1>11. OneReference'
  <2>1. ASSUME class.copies # "shares", NEW r \in Res PROVE held'[r] <= 1
    <3>1. held[r] <= 1 /\ held[r] \in Nat /\ (v = r => held[r] = 0)
      BY <2>1 DEF OwnInv, OwnTypes, OneReference
    <3>2. /\ v # r => Is(v, r) = 0
          /\ Is(v, r) \in {0, 1} /\ Is(handle[o], r) \in {0, 1}
      BY DEF Is
    <3>3. held'[r] = held[r] - Is(handle[o], r) + Is(v, r)
      BY <1>1
    <3> QED
      BY <3>1, <3>2, <3>3
  <2> QED
    BY <2>1 DEF OwnInv, OneReference
<1> QED
  BY <1>1, <1>6, <1>10, <1>11 DEF OwnInv

\* An object without a resource drops no reference
LEMMA CountsNothing ==
    ASSUME OwnInv, NEW o \in Obj, handle[o] \notin Res
    PROVE  /\ Counts(o, {}) = held
           /\ \A v : v \notin Res => Counts(o, {v} \intersect Res) = held
<1>1. held \in [Res -> Nat]
  BY DEF OwnInv, OwnTypes
<1>2. Counts(o, {}) = held
  BY <1>1 DEF Counts
<1>3. \A v : v \notin Res => {v} \intersect Res = {}
  OBVIOUS
<1> QED
  BY <1>2, <1>3

\* Whoever drops a reference drops one
LEMMA CountsLess ==
    ASSUME OwnInv, NEW o \in Obj, held' = Counts(o, {})
    PROVE  \A r \in Res : held'[r] = held[r] - Is(handle[o], r)
<1> TAKE r \in Res
<1>1. held[r] \in Nat
  BY DEF OwnInv, OwnTypes
<1>2. held'[r] = held[r] - (IF handle[o] = r THEN 1 ELSE 0) + 0
  BY DEF Counts
<1> QED
  BY <1>1, <1>2 DEF Is

\* An object without a resource takes another handle that is none
LEMMA EmptyKeeps ==
    ASSUME OwnInv, NEW o \in Obj, handle[o] \notin Res, NEW v \in {Null, NoObject},
           handle' = [handle EXCEPT ![o] = v], UNCHANGED <<class, held, given>>
    PROVE  OwnInv'
<1>1. v \notin Res
  BY HandlesAssumption
<1>2. held' = Counts(o, {v} \intersect Res)
  BY <1>1, CountsNothing
<1> QED
  BY <1>1, <1>2, ExchangeKeeps

\* A resource moves from one object to another, which gives up its own
LEMMA MoveKeeps ==
    ASSUME OwnInv, NEW o \in Obj, NEW from \in Obj, o # from,
           handle' = [handle EXCEPT ![o] = handle[from], ![from] = Null],
           held' = Counts(o, {}), UNCHANGED <<class, given>>
    PROVE  /\ OwnInv'
           /\ \A r \in Res : held'[r] = held[r] - Is(handle[o], r)
<1>1. /\ \A r \in Res : held'[r] = held[r] - Is(handle[o], r)
      /\ held' = [r \in Res |-> held'[r]]
  BY DEF Counts, Is, OwnInv, OwnTypes
<1>2. Null \notin Res
  BY HandlesAssumption
<1>3. /\ handle' \in [Obj -> Res \union {Null, NoObject}]
      /\ handle'[o] = handle[from] /\ handle'[from] = Null
      /\ \A y \in Obj \ {o, from} : handle'[y] = handle[y]
  BY DEF OwnInv, OwnTypes
<1>4. ASSUME NEW r \in Res
      PROVE  Tally(handle', Obj, r) = Tally(handle, Obj, r) - Is(handle[o], r)
  <2>1. PICK f : f = [handle EXCEPT ![o] = handle[from]]
    OBVIOUS
  <2>2. /\ f[o] = handle[from] /\ f[from] = handle[from]
        /\ \A y \in Obj \ {o} : f[y] = handle[y]
    BY <2>1 DEF OwnInv, OwnTypes
  <2>3. DiffersAt(handle, f, Obj, o) /\ DiffersAt(f, handle', Obj, from)
    BY <1>3, <2>2 DEF DiffersAt
  <2>9. IsFiniteSet(Obj)
    BY HandlesAssumption
  <2>10. TallyMoves(Tally(f, Obj, r), Tally(handle, Obj, r), handle[o], f[o], r)
    BY <2>3, <2>9, TallyAfter
  <2>11. TallyMoves(Tally(handle', Obj, r), Tally(f, Obj, r), f[from], handle'[from], r)
    BY <2>3, <2>9, TallyAfter
  <2>4. Tally(f, Obj, r) = Tally(handle, Obj, r) - Is(handle[o], r) + Is(handle[from], r)
    BY <2>2, <2>10 DEF TallyMoves
  <2>5. Tally(handle', Obj, r) = Tally(f, Obj, r) - Is(handle[from], r) + Is(Null, r)
    BY <1>3, <2>2, <2>11 DEF TallyMoves
  <2>6. Is(Null, r) = 0 /\ Is(handle[o], r) \in {0, 1} /\ Is(handle[from], r) \in {0, 1}
    BY <1>2 DEF Is
  <2>7. Tally(handle, Obj, r) \in Nat
    BY TallyIsNat, HandlesAssumption
  <2> QED
    BY <2>4, <2>5, <2>6, <2>7
<1>5. ASSUME NEW r \in Res
      PROVE  /\ held'[r] = Tally(handle', Obj, r) + (IF r \in given THEN 1 ELSE 0)
             /\ held'[r] \in Nat /\ held'[r] <= held[r]
  <2> DEFINE released == IF r \in given THEN 1 ELSE 0
  <2>1. released \in {0, 1} /\ Is(handle[o], r) \in {0, 1}
    BY DEF Is
  <2>2. held[r] = Tally(handle, Obj, r) + released
    BY HoldersTallied DEF OwnInv
  <2>3. Tally(handle, Obj, r) \in Nat /\ Tally(handle', Obj, r) \in Nat
    BY TallyIsNat, HandlesAssumption
  <2>4. held'[r] = held[r] - Is(handle[o], r)
    BY <1>1
  <2>5. Tally(handle', Obj, r) = Tally(handle, Obj, r) - Is(handle[o], r)
    BY <1>4
  <2> HIDE DEF released
  <2>6. held'[r] = Tally(handle', Obj, r) + released /\ held'[r] <= held[r]
    BY <2>1, <2>2, <2>3, <2>4, <2>5
  <2>7. held'[r] \in Nat
    BY <2>1, <2>3, <2>6
  <2> QED
    BY <2>6, <2>7 DEF released
<1>6. OwnTypes'
  BY <1>1, <1>3, <1>5 DEF OwnInv, OwnTypes
<1>7. OwnedByHolders'
  BY <1>5 DEF OwnedByHolders, Tally
<1>8. OneReference'
  <2>1. ASSUME class.copies # "shares", NEW r \in Res PROVE held'[r] <= 1
    <3>1. held[r] <= 1 /\ held[r] \in Nat
      BY <2>1 DEF OwnInv, OwnTypes, OneReference
    <3> QED
      BY <1>5, <3>1
  <2> QED
    BY <2>1 DEF OwnInv, OneReference
<1> QED
  BY <1>1, <1>6, <1>7, <1>8 DEF OwnInv

\* A descriptor goes from an object to the program, or back
LEMMA HandOverKeeps ==
    ASSUME OwnInv, class = File, NEW o \in Obj, NEW r \in Res,
           \/ /\ handle[o] = r /\ handle' = [handle EXCEPT ![o] = Null]
              /\ given' = given \union {r}
           \/ /\ handle[o] \notin Res /\ r \in given
              /\ handle' = [handle EXCEPT ![o] = r]
              /\ given' = given \ {r},
           UNCHANGED <<class, held>>
    PROVE  OwnInv'
<1>1. class.copies # "shares"
  BY ClassFacts DEF OwnInv, OwnTypes
<1>2. Null \notin Res
  BY HandlesAssumption
<1>3. /\ handle' \in [Obj -> Res \union {Null, NoObject}]
      /\ \A y \in Obj \ {o} : handle'[y] = handle[y]
      /\ given' \subseteq Res
  BY DEF OwnInv, OwnTypes
<1>4. ASSUME NEW s \in Res
      PROVE  held[s] = Tally(handle', Obj, s) + (IF s \in given' THEN 1 ELSE 0)
  <2>1. held[s] = Tally(handle, Obj, s) + (IF s \in given THEN 1 ELSE 0)
    BY HoldersTallied DEF OwnInv
  <2>2. Tally(handle, Obj, s) \in Nat /\ held[s] \in Nat /\ held[s] <= 1
        /\ (handle[o] = s => Tally(handle, Obj, s) > 0)
    BY <1>1, TallyIsNat, HandlesAssumption DEF OwnInv, OwnTypes, OneReference
  <2>6. DiffersAt(handle, handle', Obj, o)
    BY <1>3 DEF DiffersAt
  <2>7. TallyMoves(Tally(handle', Obj, s), Tally(handle, Obj, s), handle[o], handle'[o], s)
    BY <2>6, TallyAfter, HandlesAssumption
  <2>3. Tally(handle', Obj, s) = Tally(handle, Obj, s) - Is(handle[o], s) + Is(handle'[o], s)
    BY <2>7 DEF TallyMoves
  <2>4. CASE handle[o] = r /\ handle'[o] = Null /\ given' = given \union {r}
    <3>1. Is(handle'[o], s) = 0
      BY <1>2, <2>4 DEF Is
    <3>2. CASE s = r
      <4>1. Is(handle[o], s) = 1 /\ s \in given' /\ s \notin given
        BY <2>1, <2>2, <2>4, <3>2 DEF Is
      <4> QED
        BY <2>1, <2>2, <2>3, <3>1, <4>1
    <3>3. CASE s # r
      <4>1. Is(handle[o], s) = 0 /\ (s \in given' <=> s \in given)
        BY <2>4, <3>3 DEF Is
      <4> QED
        BY <2>1, <2>2, <2>3, <3>1, <4>1
    <3> QED
      BY <3>2, <3>3
  <2>5. CASE handle[o] \notin Res /\ r \in given /\ handle'[o] = r /\ given' = given \ {r}
    <3>1. Is(handle[o], s) = 0
      BY <2>5 DEF Is
    <3>2. CASE s = r
      <4>1. Is(handle'[o], s) = 1 /\ s \notin given' /\ s \in given
        BY <2>5, <3>2 DEF Is
      <4> QED
        BY <2>1, <2>2, <2>3, <3>1, <4>1
    <3>3. CASE s # r
      <4>1. Is(handle'[o], s) = 0 /\ (s \in given' <=> s \in given)
        BY <2>5, <3>3 DEF Is
      <4> QED
        BY <2>1, <2>2, <2>3, <3>1, <4>1
    <3> QED
      BY <3>2, <3>3
  <2> QED
    BY <2>4, <2>5 DEF OwnInv, OwnTypes
<1>5. OwnedByHolders'
  BY <1>4 DEF OwnedByHolders, Tally
<1> QED
  BY <1>3, <1>5 DEF OwnInv, OwnTypes, OneReference

-----------------------------------------------------------------------------
\* Only frames show pictures, and a resource nobody holds shows none
PicturesInv ==
    /\ picture \in [Res -> Pic \union {Null}]
    /\ users \in [Pic -> Nat]
    /\ class # Frame => \A r \in Res : picture[r] = Null
    /\ \A r \in Res : held[r] = 0 => picture[r] = Null
    /\ \A p \in Pic : users[p] = Tally(picture, Res, p)

HandlesInv == OwnInv /\ PicturesInv

LEMMA HandlesInvSound ==
    ASSUME HandlesInv
    PROVE  HandlesAreSound
<1>1. Null \notin Pic
  BY HandlesAssumption
<1>2. ASSUME NEW p \in Pic
      PROVE  users[p] = Cardinality({r \in Res : held[r] > 0 /\ picture[r] = p})
  <2>1. \A r \in Res : picture[r] = p => held[r] > 0
    BY <1>1 DEF HandlesInv, PicturesInv, OwnInv, OwnTypes
  <2>2. {r \in Res : held[r] > 0 /\ picture[r] = p} = {r \in Res : picture[r] = p}
    BY <2>1
  <2>3. users[p] = Cardinality({r \in Res : picture[r] = p})
    BY DEF HandlesInv, PicturesInv, Tally
  <2> QED
    BY <2>2, <2>3
<1> QED
  BY <1>2 DEF HandlesInv, OwnInv, OwnTypes, PicturesInv, HandlesAreSound, HandlesTypeOK,
     PicturesCounted

\* Nothing is shown that was not, and what is dropped shows nothing
LEMMA SameShownKeeps ==
    ASSUME PicturesInv, UNCHANGED <<class, picture, users>>,
           \A r \in Res : held'[r] = 0 => held[r] = 0 \/ picture[r] = Null
    PROVE  PicturesInv'
BY DEF PicturesInv, Tally

\* A frame shows another picture, or none
LEMMA ShowKeeps ==
    ASSUME PicturesInv, class = Frame, class' = class,
           NEW r \in Res, NEW p \in Pic \union {Null},
           picture' = [picture EXCEPT ![r] = p],
           users' = [q \in Pic |-> users[q] - (IF picture[r] = q THEN 1 ELSE 0)
                                            + (IF p = q THEN 1 ELSE 0)],
           held'[r] = 0 => p = Null,
           \A s \in Res \ {r} : held'[s] = 0 => held[s] = 0
    PROVE  PicturesInv'
<1>1. picture' \in [Res -> Pic \union {Null}]
  BY DEF PicturesInv
<1>2. picture'[r] = p /\ DiffersAt(picture, picture', Res, r)
  BY DEF PicturesInv, DiffersAt
<1>3. ASSUME NEW q \in Pic
      PROVE  users'[q] = Tally(picture', Res, q) /\ users'[q] \in Nat
  <2>1. IsFiniteSet(Res)
    BY HandlesAssumption
  <2>2. TallyMoves(Tally(picture', Res, q), Tally(picture, Res, q), picture[r], picture'[r], q)
    BY <1>2, <2>1, TallyAfter
  <2>3. Tally(picture', Res, q) = Tally(picture, Res, q) - Is(picture[r], q) + Is(p, q)
    BY <1>2, <2>2 DEF TallyMoves
  <2>4. users'[q] = users[q] - Is(picture[r], q) + Is(p, q)
    BY DEF Is
  <2>5. users[q] = Tally(picture, Res, q)
    BY DEF PicturesInv
  <2>6. users'[q] = Tally(picture', Res, q)
    BY <2>3, <2>4, <2>5
  <2>7. Tally(picture', Res, q) \in Nat
    BY <2>1, TallyIsNat
  <2> QED
    BY <2>6, <2>7
<1>4. users' \in [Pic -> Nat]
  BY <1>3
<1>5. \A s \in Res : held'[s] = 0 => picture'[s] = Null
  <2> TAKE s \in Res
  <2>1. CASE s = r
    BY <1>2, <2>1
  <2>2. CASE s # r
    BY <2>2 DEF PicturesInv
  <2> QED
    BY <2>1, <2>2
<1> QED
  BY <1>1, <1>3, <1>4, <1>5 DEF PicturesInv

\* Dropping the reference of o, and with it the picture of a frame
LEMMA DropShown ==
    ASSUME HandlesInv, NEW o \in Obj, Unshow(o), class' = class,
           \A r \in Res : held'[r] = held[r] - Is(handle[o], r)
    PROVE  PicturesInv'
<1>1. class \in Classes /\ PicturesInv
  BY DEF HandlesInv, OwnInv, OwnTypes
<1>2. \A r \in Res : handle[o] # r => held'[r] = held[r]
  <2> TAKE r \in Res
  <2>1. handle[o] # r => Is(handle[o], r) = 0
    BY DEF Is
  <2>2. held[r] \in Nat /\ held'[r] = held[r] - Is(handle[o], r)
    BY DEF HandlesInv, OwnInv, OwnTypes
  <2> QED
    BY <2>1, <2>2
<1>3. CASE Owns(o) /\ class = Frame
  <2>1. handle[o] \in Res /\ Show(handle[o], Null)
    BY <1>3 DEF Unshow, Owns
  <2> QED
    BY <1>1, <1>2, <1>3, <2>1, ShowKeeps DEF Show
<1>4. CASE ~(Owns(o) /\ class = Frame)
  <2>1. UNCHANGED <<picture, users>>
    BY <1>4 DEF Unshow
  <2>2. CASE class # Frame
    BY <1>1, <2>1, <2>2, SameShownKeeps DEF PicturesInv
  <2>3. CASE ~Owns(o)
    BY <1>1, <1>2, <2>1, <2>3, SameShownKeeps DEF Owns
  <2> QED
    BY <1>4, <2>2, <2>3
<1> QED
  BY <1>3, <1>4

-----------------------------------------------------------------------------
(* The operations *)

LEMMA AcquireKeeps ==
    ASSUME HandlesInv, NEW o \in Obj, Acquire(o)
    PROVE  HandlesInv'
<1>1. /\ handle[o] = NoObject /\ OwnInv /\ PicturesInv
      /\ UNCHANGED <<class, given, picture, users>>
  BY DEF Acquire, Exists, HandlesInv
<1>2. NoObject \notin Res
  BY HandlesAssumption
<1>3. PICK r \in Free, ok \in Acquired :
        /\ handle' = [handle EXCEPT ![o] = IF ok THEN r ELSE IF class.throws THEN @ ELSE Null]
        /\ held' = IF ok THEN Counts(o, {r}) ELSE held
  BY DEF Acquire
<1>4. r \in Res /\ held[r] = 0
  BY DEF Free
<1>5. CASE ok
  <2>1. handle' = [handle EXCEPT ![o] = r] /\ held' = Counts(o, {r} \intersect Res)
    <3>1. {r} \intersect Res = {r}
      BY <1>4
    <3> QED
      BY <1>3, <1>5, <3>1
  <2>2. OwnInv' /\ \A s \in Res : held'[s] = held[s] - Is(handle[o], s) + Is(r, s)
    BY <1>1, <1>4, <2>1, ExchangeKeeps
  <2>3. \A s \in Res : held'[s] = 0 => held[s] = 0
    <3> TAKE s \in Res
    <3>1. Is(handle[o], s) = 0 /\ Is(r, s) \in {0, 1} /\ held[s] \in Nat
      BY <1>1, <1>2 DEF Is, OwnInv, OwnTypes
    <3>2. held'[s] = held[s] - Is(handle[o], s) + Is(r, s)
      BY <2>2
    <3> QED
      BY <3>1, <3>2
  <2> QED
    BY <1>1, <2>2, <2>3, SameShownKeeps DEF HandlesInv
<1>6. CASE ~ok
  <2>1. PICK v \in {Null, NoObject} : v = IF class.throws THEN NoObject ELSE Null
    OBVIOUS
  <2>2. handle' = [handle EXCEPT ![o] = v] /\ held' = held
    BY <1>1, <1>3, <1>6, <2>1
  <2>3. OwnInv'
    BY <1>1, <1>2, <2>2, EmptyKeeps
  <2> QED
    BY <1>1, <2>2, <2>3, SameShownKeeps DEF HandlesInv
<1> QED
  BY <1>5, <1>6

LEMMA DestroyKeeps ==
    ASSUME HandlesInv, NEW o \in Obj, Destroy(o)
    PROVE  HandlesInv'
<1>1. /\ held' = Counts(o, {}) /\ Unshow(o) /\ OwnInv
      /\ handle' = [handle EXCEPT ![o] = NoObject]
      /\ UNCHANGED <<class, given>>
  BY DEF Destroy, HandlesInv
<1>2. NoObject \notin Res
  BY HandlesAssumption
<1>3. held' = Counts(o, {NoObject} \intersect Res)
  <2>1. {NoObject} \intersect Res = {}
    BY <1>2
  <2> QED
    BY <1>1, <2>1
<1>4. OwnInv' /\ \A r \in Res : held'[r] = held[r] - Is(handle[o], r) + Is(NoObject, r)
  BY <1>1, <1>2, <1>3, ExchangeKeeps
<1>5. \A r \in Res : held'[r] = held[r] - Is(handle[o], r)
  BY <1>1, CountsLess
<1> QED
  BY <1>1, <1>4, <1>5, DropShown DEF HandlesInv

LEMMA MoveAssignKeeps ==
    ASSUME UsedAsMeant, HandlesInv, NEW o \in Obj, NEW from \in Obj, MoveAssign(o, from)
    PROVE  HandlesInv'
<1>1. /\ o # from \/ class.resets
      /\ class.replaces \/ ~Owns(o) \/ o = from
      /\ OwnInv /\ PicturesInv /\ class \in Classes
      /\ UNCHANGED <<class, given>>
  BY DEF MoveAssign, UsedAsMeant, HandlesInv, OwnInv, OwnTypes
<1>2. Null \notin Res
  BY HandlesAssumption
<1>3. CASE class.replaces
  <2>1. held' = Counts(o, {}) /\ Unshow(o)
    BY <1>3 DEF MoveAssign
  <2>2. \A r \in Res : held'[r] = held[r] - Is(handle[o], r)
    BY <1>1, <2>1, CountsLess
  <2>3. OwnInv'
    <3>1. CASE o = from
      <4>1. handle' = [handle EXCEPT ![o] = Null]
        BY <1>1, <1>3, <3>1 DEF MoveAssign
      <4>2. held' = Counts(o, {Null} \intersect Res)
        <5>1. {Null} \intersect Res = {}
          BY <1>2
        <5> QED
          BY <2>1, <5>1
      <4> QED
        BY <1>1, <1>2, <4>1, <4>2, ExchangeKeeps
    <3>2. CASE o # from
      <4>1. handle' = [handle EXCEPT ![o] = handle[from], ![from] = Null]
        BY <3>2 DEF MoveAssign, Reset
      <4> QED
        BY <1>1, <2>1, <3>2, <4>1, MoveKeeps
    <3> QED
      BY <3>1, <3>2
  <2> QED
    BY <1>1, <2>1, <2>2, <2>3, DropShown DEF HandlesInv
<1>4. CASE ~class.replaces
  <2>1. UNCHANGED <<held, picture, users>>
    BY <1>4 DEF MoveAssign
  <2>2. OwnInv'
    <3>1. CASE o = from
      <4>1. handle' = handle
        BY <1>1, <1>4, <3>1 DEF MoveAssign, OwnInv, OwnTypes
      <4> QED
        BY <1>1, <2>1, <4>1 DEF OwnInv, OwnTypes, OwnedByHolders, OneReference
    <3>2. CASE o # from
      <4>1. handle' = [handle EXCEPT ![o] = handle[from], ![from] = Null]
        BY <3>2 DEF MoveAssign, Reset
      <4>2. held' = Counts(o, {})
        BY <1>1, <1>4, <2>1, <3>2, CountsNothing DEF Owns
      <4> QED
        BY <1>1, <3>2, <4>1, <4>2, MoveKeeps
    <3> QED
      BY <3>1, <3>2
  <2> QED
    BY <1>1, <2>1, <2>2, SameShownKeeps DEF HandlesInv
<1> QED
  BY <1>3, <1>4

\* Nothing of what a resource is to the others changes but for its holders
LEMMA DefaultConstructKeeps ==
    ASSUME HandlesInv, NEW o \in Obj, DefaultConstruct(o)
    PROVE  HandlesInv'
<1>1. /\ handle[o] = NoObject /\ OwnInv /\ PicturesInv
      /\ handle' = [handle EXCEPT ![o] = Null]
      /\ UNCHANGED <<class, held, given, picture, users>>
  BY DEF DefaultConstruct, Exists, HandlesInv
<1>2. handle[o] \notin Res
  BY <1>1, HandlesAssumption
<1>3. OwnInv'
  BY <1>1, <1>2, EmptyKeeps
<1> QED
  BY <1>1, <1>3, SameShownKeeps DEF HandlesInv

LEMMA MoveConstructKeeps ==
    ASSUME HandlesInv, NEW o \in Obj, NEW from \in Obj, MoveConstruct(o, from)
    PROVE  HandlesInv'
<1>1. /\ handle[o] = NoObject /\ handle[from] # NoObject /\ OwnInv /\ PicturesInv
      /\ handle' = [handle EXCEPT ![o] = handle[from], ![from] = Null]
      /\ UNCHANGED <<class, held, given, picture, users>>
  BY DEF MoveConstruct, Exists, Reset, HandlesInv
<1>2. handle[o] \notin Res /\ o # from
  BY <1>1, HandlesAssumption
<1>3. held' = Counts(o, {})
  BY <1>1, <1>2, CountsNothing
<1>4. OwnInv'
  BY <1>1, <1>2, <1>3, MoveKeeps
<1> QED
  BY <1>1, <1>4, SameShownKeeps DEF HandlesInv

LEMMA ReleaseKeeps ==
    ASSUME HandlesInv, NEW o \in Obj, Release(o)
    PROVE  HandlesInv'
<1>1. /\ class.releases /\ handle[o] \in Res /\ OwnInv /\ PicturesInv /\ class \in Classes
      /\ handle' = [handle EXCEPT ![o] = Null]
      /\ given' = given \union {handle[o]}
      /\ UNCHANGED <<class, held, picture, users>>
  BY DEF Release, Owns, HandlesInv, OwnInv, OwnTypes
<1>2. class = File
  BY <1>1, ClassFacts
<1>3. OwnInv'
  BY <1>1, <1>2, HandOverKeeps
<1> QED
  BY <1>1, <1>3, SameShownKeeps DEF HandlesInv

LEMMA AdoptKeeps ==
    ASSUME HandlesInv, NEW o \in Obj, NEW r \in Res, Adopt(o, r)
    PROVE  HandlesInv'
<1>1. /\ class = File /\ handle[o] = NoObject /\ r \in given /\ OwnInv /\ PicturesInv
      /\ handle' = [handle EXCEPT ![o] = r]
      /\ given' = given \ {r}
      /\ UNCHANGED <<class, held, picture, users>>
  BY DEF Adopt, Exists, HandlesInv
<1>2. handle[o] \notin Res
  BY <1>1, HandlesAssumption
<1>3. OwnInv'
  BY <1>1, <1>2, HandOverKeeps
<1> QED
  BY <1>1, <1>3, SameShownKeeps DEF HandlesInv

\* hwaccel: one more holder of the same device, or a null handle
LEMMA ShareKeeps ==
    ASSUME HandlesInv, NEW o \in Obj, NEW from \in Obj, ShareTo(o, from)
    PROVE  HandlesInv'
<1>1. /\ class.copies = "shares" /\ OwnInv /\ PicturesInv /\ class \in Classes
      /\ UNCHANGED <<class, given, picture, users>>
  BY DEF ShareTo, HandlesInv, OwnInv, OwnTypes
<1>2. class # Frame
  BY <1>1, ClassFacts
<1>3. Null \notin Res /\ NoObject \notin Res
  BY HandlesAssumption
<1>4. PICK ok \in Acquired :
          IF o = from \/ ~ok
          THEN /\ handle' = [handle EXCEPT ![o] = IF Exists(o) THEN Null ELSE @]
               /\ held' = Counts(o, {})
          ELSE /\ handle' = [handle EXCEPT ![o] = handle[from]]
               /\ held' = Shared(o, from)
  BY DEF ShareTo
<1>5. OwnInv'
  <2>1. CASE o = from \/ ~ok
    <3>1. PICK v \in {Null, NoObject} : v = IF Exists(o) THEN Null ELSE NoObject
      OBVIOUS
    <3>2. handle' = [handle EXCEPT ![o] = v] /\ held' = Counts(o, {})
      BY <1>4, <2>1, <3>1 DEF Exists
    <3>3. {v} \intersect Res = {}
      BY <1>3
    <3>4. held' = Counts(o, {v} \intersect Res)
      BY <3>2, <3>3
    <3> QED
      BY <1>1, <1>3, <3>2, <3>4, ExchangeKeeps
  <2>2. CASE ~(o = from \/ ~ok)
    <3>1. /\ handle' = [handle EXCEPT ![o] = handle[from]]
          /\ held' = Counts(o, {handle[from]} \intersect Res)
      BY <1>4, <2>2 DEF Shared
    <3>2. handle[from] \in Res \union {Null, NoObject}
      BY <1>1 DEF OwnInv, OwnTypes
    <3> QED
      BY <1>1, <3>1, <3>2, ExchangeKeeps
  <2> QED
    BY <2>1, <2>2
<1>6. PicturesInv'
  BY <1>1, <1>2, SameShownKeeps DEF PicturesInv
<1> QED
  BY <1>5, <1>6 DEF HandlesInv

\* frame: another AVFrame that shows the same picture
LEMMA DuplicateKeeps ==
    ASSUME UsedAsMeant, HandlesInv, NEW o \in Obj, NEW from \in Obj, DuplicateTo(o, from)
    PROVE  HandlesInv'
<1>1. /\ class.copies = "duplicates" /\ handle[o] = NoObject /\ handle[from] \in Res
      /\ OwnInv /\ PicturesInv /\ class \in Classes
      /\ UNCHANGED <<class, given>>
  BY DEF DuplicateTo, Exists, Owns, HandlesInv, OwnInv, OwnTypes
<1>2. class = Frame
  BY <1>1, ClassFacts
<1>3. NoObject \notin Res
  BY HandlesAssumption
<1>4. PICK r \in Free, ok \in Referenced :
          /\ held' = Counts(o, {r})
          /\ handle' = [handle EXCEPT ![o] = IF ok THEN r ELSE @]
          /\ IF ok THEN Show(r, picture[handle[from]]) ELSE UNCHANGED <<picture, users>>
  BY DEF DuplicateTo
<1>5. ok = TRUE
  BY HandlesAssumption DEF UsedAsMeant
<1>6. r \in Res /\ held[r] = 0
  BY DEF Free
<1>7. handle' = [handle EXCEPT ![o] = r] /\ held' = Counts(o, {r} \intersect Res)
  <2>1. {r} \intersect Res = {r}
    BY <1>6
  <2> QED
    BY <1>4, <1>5, <2>1
<1>8. OwnInv' /\ \A s \in Res : held'[s] = held[s] - Is(handle[o], s) + Is(r, s)
  BY <1>1, <1>6, <1>7, ExchangeKeeps
<1>9. \A s \in Res : (held'[s] = 0 => held[s] = 0) /\ (s = r => held'[s] # 0)
  <2> TAKE s \in Res
  <2>1. /\ Is(handle[o], s) = 0 /\ Is(r, s) \in {0, 1} /\ held[s] \in Nat
        /\ (s = r => Is(r, s) = 1)
    BY <1>1, <1>3 DEF Is, OwnInv, OwnTypes
  <2>2. held'[s] = held[s] - Is(handle[o], s) + Is(r, s)
    BY <1>8
  <2> QED
    BY <2>1, <2>2
<1>10. PICK p \in Pic \union {Null} : p = picture[handle[from]]
  BY <1>1 DEF PicturesInv
<1>11. Show(r, p)
  BY <1>4, <1>5, <1>10
<1>12. PicturesInv'
  BY <1>1, <1>2, <1>6, <1>9, <1>11, ShowKeeps DEF Show
<1> QED
  BY <1>8, <1>12 DEF HandlesInv

\* A frame that exists is told to show p
LEMMA ShownAnew ==
    ASSUME HandlesInv, class = Frame, NEW o \in Obj, handle[o] \in Res,
           NEW p \in Pic \union {Null}, Show(handle[o], p),
           UNCHANGED <<class, handle, held, given>>
    PROVE  HandlesInv'
<1>1. OwnInv /\ PicturesInv
  BY DEF HandlesInv
<1>2. held[handle[o]] > 0
  BY <1>1, OwnedIsHeld
<1>3. held'[handle[o]] = 0 => p = Null
  BY <1>2
<1>4. PicturesInv'
  BY <1>1, <1>3, ShowKeeps DEF Show
<1>5. OwnInv'
  BY <1>1 DEF OwnInv, OwnTypes, OwnedByHolders, OneReference
<1> QED
  BY <1>4, <1>5 DEF HandlesInv

LEMMA CopyAssignKeeps ==
    ASSUME HandlesInv, NEW o \in Obj, NEW from \in Obj, CopyAssign(o, from)
    PROVE  HandlesInv'
<1>1. /\ class.copies = "duplicates" /\ handle[o] \in Res /\ handle[from] \in Res
      /\ PicturesInv /\ class \in Classes
      /\ UNCHANGED <<class, handle, held, given>>
  BY DEF CopyAssign, Owns, HandlesInv, OwnInv, OwnTypes
<1>2. class = Frame
  BY <1>1, ClassFacts
<1>3. picture[handle[from]] \in Pic \union {Null}
  BY <1>1 DEF PicturesInv
<1>4. PICK p \in {Null} \union IF o = from THEN {} ELSE {picture[handle[from]]} :
          /\ picture' = [picture EXCEPT ![handle[o]] = p]
          /\ users' = [q \in Pic |-> users[q] - (IF picture[handle[o]] = q THEN 1 ELSE 0)
                                              + (IF p = q THEN 1 ELSE 0)]
  BY DEF CopyAssign, Dropped
<1>5. p \in Pic \union {Null}
  BY <1>3, <1>4
<1>6. Show(handle[o], p)
  BY <1>4 DEF Show
<1> QED
  BY <1>1, <1>2, <1>5, <1>6, ShownAnew

LEMMA ReceiveKeeps ==
    ASSUME HandlesInv, NEW o \in Obj, NEW p \in Pic, Receive(o, p)
    PROVE  HandlesInv'
<1>1. /\ class = Frame /\ handle[o] \in Res /\ Show(handle[o], p)
      /\ UNCHANGED <<class, handle, held, given>>
  BY DEF Receive, Owns
<1> QED
  BY <1>1, ShownAnew

\* pipe: both ends are opened, each for an object of its own
LEMMA PipeKeeps ==
    ASSUME HandlesInv, NEW o \in Obj, NEW other \in Obj, Pipe(o, other)
    PROVE  HandlesInv'
<1>1. /\ class = File /\ o # other /\ handle[o] = NoObject /\ handle[other] = NoObject
      /\ OwnInv /\ PicturesInv /\ class \in Classes
      /\ UNCHANGED <<class, given, picture, users>>
  BY DEF Pipe, Exists, HandlesInv, OwnInv, OwnTypes
<1>2. NoObject \notin Res /\ IsFiniteSet(Obj)
  BY HandlesAssumption
<1>3. PICK r, w \in Free :
          /\ r # w
          /\ handle' = [handle EXCEPT ![o] = r, ![other] = w]
          /\ held' = Counts(o, {r, w})
  BY DEF Pipe
<1>4. r \in Res /\ held[r] = 0 /\ w \in Res /\ held[w] = 0
  BY DEF Free
<1>5. /\ handle' \in [Obj -> Res \union {Null, NoObject}]
      /\ handle'[o] = r /\ handle'[other] = w
      /\ \A y \in Obj \ {o, other} : handle'[y] = handle[y]
  BY <1>1, <1>3, <1>4 DEF OwnInv, OwnTypes
<1>6. ASSUME NEW s \in Res
      PROVE  Tally(handle', Obj, s) = Tally(handle, Obj, s) + Is(r, s) + Is(w, s)
  <2>1. PICK f : f = [handle EXCEPT ![o] = r]
    OBVIOUS
  <2>2. /\ f[o] = r /\ f[other] = NoObject
        /\ \A y \in Obj \ {o} : f[y] = handle[y]
    BY <1>1, <2>1 DEF OwnInv, OwnTypes
  <2>3. DiffersAt(handle, f, Obj, o) /\ DiffersAt(f, handle', Obj, other)
    BY <1>5, <2>2 DEF DiffersAt
  <2>4. TallyMoves(Tally(f, Obj, s), Tally(handle, Obj, s), handle[o], f[o], s)
    BY <1>2, <2>3, TallyAfter
  <2>5. TallyMoves(Tally(handle', Obj, s), Tally(f, Obj, s), f[other], handle'[other], s)
    BY <1>2, <2>3, TallyAfter
  <2>6. Tally(f, Obj, s) = Tally(handle, Obj, s) - Is(NoObject, s) + Is(r, s)
    BY <1>1, <2>2, <2>4 DEF TallyMoves
  <2>7. Tally(handle', Obj, s) = Tally(f, Obj, s) - Is(NoObject, s) + Is(w, s)
    BY <1>5, <2>2, <2>5 DEF TallyMoves
  <2>8. Is(NoObject, s) = 0 /\ Is(r, s) \in {0, 1} /\ Is(w, s) \in {0, 1}
    BY <1>2 DEF Is
  <2>9. Tally(handle, Obj, s) \in Nat
    BY <1>2, TallyIsNat
  <2> QED
    BY <2>6, <2>7, <2>8, <2>9
<1>7. ASSUME NEW s \in Res
      PROVE  /\ held'[s] = Tally(handle', Obj, s) + (IF s \in given THEN 1 ELSE 0)
             /\ held'[s] \in Nat /\ held'[s] <= 1 /\ (held'[s] = 0 => held[s] = 0)
  <2> DEFINE released == IF s \in given THEN 1 ELSE 0
  <2>1. released \in {0, 1}
    OBVIOUS
  <2>2. held[s] = Tally(handle, Obj, s) + released
    BY <1>1, HoldersTallied DEF OwnInv
  <2>3. Tally(handle, Obj, s) \in Nat /\ held[s] \in Nat /\ held[s] <= 1
    <3>1. class.copies # "shares"
      BY <1>1, ClassFacts
    <3> QED
      BY <1>1, <1>2, <3>1, TallyIsNat DEF OwnInv, OwnTypes, OneReference
  <2>4. held'[s] = held[s] - Is(NoObject, s) + (IF s \in {r, w} THEN 1 ELSE 0)
    BY <1>1, <1>3 DEF Counts, Is
  <2>5. Is(NoObject, s) = 0
    BY <1>2 DEF Is
  <2>6. Tally(handle', Obj, s) = Tally(handle, Obj, s) + Is(r, s) + Is(w, s)
    BY <1>6
  <2>7. (IF s \in {r, w} THEN 1 ELSE 0) = Is(r, s) + Is(w, s)
    BY <1>3 DEF Is
  <2>8. Is(r, s) + Is(w, s) \in {0, 1} /\ (Is(r, s) + Is(w, s) = 1 => held[s] = 0)
    BY <1>3, <1>4 DEF Is
  <2>10. Is(r, s) \in {0, 1} /\ Is(w, s) \in {0, 1}
    BY DEF Is
  <2> HIDE DEF released
  <2>9. held'[s] = held[s] + (Is(r, s) + Is(w, s))
    BY <2>3, <2>4, <2>5, <2>7, <2>8
  <2>11. held'[s] = Tally(handle', Obj, s) + released
    BY <2>1, <2>2, <2>3, <2>6, <2>9, <2>10
  <2>12. held'[s] \in Nat /\ held'[s] <= 1 /\ (held'[s] = 0 => held[s] = 0)
    BY <2>3, <2>8, <2>9
  <2> QED
    BY <2>11, <2>12 DEF released
<1>8. held' = [s \in Res |-> held'[s]]
  BY <1>3 DEF Counts
<1>9. held' \in [Res -> Nat]
  BY <1>7, <1>8
<1>10. OwnTypes'
  BY <1>1, <1>5, <1>9 DEF OwnInv, OwnTypes
<1>11. OwnedByHolders'
  BY <1>1, <1>7 DEF OwnedByHolders, Tally
<1>12. OneReference'
  BY <1>1, <1>7 DEF OneReference
<1>13. PicturesInv'
  BY <1>1, <1>7, SameShownKeeps
<1> QED
  BY <1>10, <1>11, <1>12, <1>13 DEF HandlesInv, OwnInv

\* Nothing is held and nothing shown to begin with
LEMMA HandlesBegin ==
    ASSUME UsedAsMeant, HandlesInit
    PROVE  HandlesInv
<1>1. NoObject \notin Res /\ Null \notin Pic
  BY HandlesAssumption
<1>2. \A r \in Res : {o \in Obj : handle[o] = r} = {}
  BY <1>1 DEF HandlesInit
<1>3. \A p \in Pic : {r \in Res : picture[r] = p} = {}
  BY <1>1 DEF HandlesInit
<1>4. Cardinality({}) = 0
  BY FS_EmptySet
<1>5. /\ \A r \in Res : Tally(handle, Obj, r) = 0
      /\ \A p \in Pic : Tally(picture, Res, p) = 0
  BY <1>2, <1>3, <1>4 DEF Tally
<1>6. OwnedByHolders
  BY <1>5, HoldersTallied DEF HandlesInit
<1>7. OwnTypes /\ OneReference
  BY DEF HandlesInit, UsedAsMeant, OwnTypes, OneReference
<1>8. PicturesInv
  BY <1>5 DEF HandlesInit, PicturesInv
<1> QED
  BY <1>6, <1>7, <1>8 DEF HandlesInv, OwnInv

LEMMA HandlesInvariance ==
    ASSUME UsedAsMeant, HandlesInv, [HandlesNext]_handleVars
    PROVE  HandlesInv'
<1>1. CASE UNCHANGED handleVars
  BY <1>1 DEF handleVars, HandlesInv, OwnInv, OwnTypes, OwnedByHolders, OneReference,
     PicturesInv, Tally
<1>2. ASSUME NEW o \in Obj,
             DefaultConstruct(o) \/ Acquire(o) \/ Release(o) \/ Destroy(o)
      PROVE  HandlesInv'
  BY <1>2, DefaultConstructKeeps, AcquireKeeps, ReleaseKeeps, DestroyKeeps
<1>3. ASSUME NEW o \in Obj, NEW from \in Obj,
             \/ Pipe(o, from) \/ MoveConstruct(o, from) \/ MoveAssign(o, from)
             \/ ShareTo(o, from) \/ DuplicateTo(o, from) \/ CopyAssign(o, from)
      PROVE  HandlesInv'
  BY <1>3, PipeKeeps, MoveConstructKeeps, MoveAssignKeeps, ShareKeeps, DuplicateKeeps,
     CopyAssignKeeps
<1>4. ASSUME NEW o \in Obj, NEW r \in Res, Adopt(o, r) PROVE HandlesInv'
  BY <1>4, AdoptKeeps
<1>5. ASSUME NEW o \in Obj, NEW p \in Pic, Receive(o, p) PROVE HandlesInv'
  BY <1>5, ReceiveKeeps
<1> QED
  BY <1>1, <1>2, <1>3, <1>4, <1>5 DEF HandlesNext

\* For any objects, resources and pictures, whatever is constructed, moved,
\* copied, assigned, released, adopted and destroyed in whatever order, for each
\* class that owns a resource: no resource leaks, none is closed twice or used
\* after it was closed, and a picture goes back to its pool with its last frame.
THEOREM HandlesSound == UsedAsMeant => (HandlesSpec => []HandlesAreSound)
<1> SUFFICES ASSUME UsedAsMeant PROVE HandlesSpec => []HandlesAreSound
  OBVIOUS
<1>1. HandlesInit => HandlesInv
  BY HandlesBegin
<1>2. HandlesInv /\ [HandlesNext]_handleVars => HandlesInv'
  BY HandlesInvariance
<1>3. HandlesInv => HandlesAreSound
  BY HandlesInvSound
<1> QED
  BY <1>1, <1>2, <1>3, PTL DEF HandlesSpec

-----------------------------------------------------------------------------
(* Induction over data is done with the least counterexample *)

\* A set of numbers has a least member
LEMMA Smallest ==
    ASSUME NEW S \in SUBSET Nat, S # {}
    PROVE  \E m \in S : \A k \in S : m <= k
<1> DEFINE R == OpToRel(<, Nat)
<1>1. IsWellFoundedOn(R, Nat)
  BY NatLessThanWellFounded
<1>2. \A x, y \in Nat : y < x => <<y, x>> \in R
  BY DEF OpToRel
<1> HIDE DEF R
<1>3. PICK x \in S : \A y \in S : <<y, x>> \notin R
  BY <1>1, WFMin
<1>4. ASSUME NEW k \in S PROVE x <= k
  <2>1. x \in Nat /\ k \in Nat
    OBVIOUS
  <2>2. ~(k < x)
    BY <1>2, <1>3, <2>1
  <2> QED
    BY <2>1, <2>2
<1> QED
  BY <1>4

-----------------------------------------------------------------------------
(* HwRange *)

HwInv ==
    /\ built \subseteq Range(DeviceType)
    /\ m_type \in built \union {HwNone}
    /\ visited \in Seq(built)
    /\ VisitsEachOnce

\* A type of the list has one place in it
LEMMA PlaceIs ==
    ASSUME NEW t \in Range(DeviceType)
    PROVE  Place(t) \in DOMAIN DeviceType /\ DeviceType[Place(t)] = t /\ Place(t) \in Nat \ {0}
<1>1. PICK i \in DOMAIN DeviceType : DeviceType[i] = t
  BY DEF Range
<1>2. Place(t) \in DOMAIN DeviceType /\ DeviceType[Place(t)] = t
  BY <1>1 DEF Place
<1>3. DOMAIN DeviceType = 1 .. Len(DeviceType) /\ Len(DeviceType) \in Nat
  BY HwRangeAssumption
<1> QED
  BY <1>2, <1>3

LEMMA PlaceOf ==
    ASSUME NEW i \in DOMAIN DeviceType
    PROVE  Place(DeviceType[i]) = i
<1>1. DeviceType[i] \in Range(DeviceType)
  BY DEF Range
<1> QED
  BY <1>1, PlaceIs, HwRangeAssumption

\* FFmpeg gives the next type of this build, and "none" after the last
LEMMA FollowingIs ==
    ASSUME NEW prev \in built \union {HwNone}, built \subseteq Range(DeviceType),
           NEW from, from = IF prev = HwNone THEN 0 ELSE Place(prev)
    PROVE  /\ Following(prev) \in built \union {HwNone}
           /\ Following(prev) = HwNone => \A t \in built : Place(t) <= from
           /\ Following(prev) # HwNone =>
                 /\ Place(Following(prev)) > from
                 /\ \A t \in built : Place(t) > from => Place(t) >= Place(Following(prev))
<1> DEFINE rest == {i \in DOMAIN DeviceType : i > from /\ DeviceType[i] \in built}
<1>1. Following(prev) = IF rest = {} THEN HwNone ELSE DeviceType[CHOOSE i \in rest : \A j \in rest : i <= j]
  BY DEF Following
<1>2. from \in Nat
  BY PlaceIs
<1>3. \A t \in built : Place(t) > from => Place(t) \in rest
  BY PlaceIs
<1>4. CASE rest = {}
  <2>1. \A t \in built : Place(t) \in Nat
    BY PlaceIs
  <2> QED
    BY <1>1, <1>2, <1>3, <1>4, <2>1
<1>5. CASE rest # {}
  <2>1. rest \subseteq Nat
    BY HwRangeAssumption
  <2> HIDE DEF rest
  <2>2. \E i \in rest : \A j \in rest : i <= j
    BY <1>5, <2>1, Smallest
  <2>3. PICK i \in rest : (\A j \in rest : i <= j) /\ Following(prev) = DeviceType[i]
    BY <1>1, <1>5, <2>2
  <2>4. i \in DOMAIN DeviceType /\ i > from /\ DeviceType[i] \in built
    BY <2>3 DEF rest
  <2>5. Following(prev) \in built /\ Following(prev) # HwNone /\ Place(Following(prev)) = i
    BY <2>3, <2>4, PlaceOf, HwRangeAssumption
  <2>6. i \in Nat /\ \A t \in built : Place(t) \in Nat
    BY <2>1, PlaceIs
  <2> QED
    BY <1>3, <2>3, <2>4, <2>5, <2>6
<1> QED
  BY <1>4, <1>5

\* Going on from the type the iterator is at, and noting it
LEMMA VisitKeeps ==
    ASSUME HwInv, ~AtEnd(m_type), visited' = Append(visited, m_type),
           m_type' = Following(m_type), built' = built
    PROVE  HwInv'
<1>1. m_type \in built /\ visited \in Seq(built) /\ visited' \in Seq(built)
  BY DEF HwInv, AtEnd
<1>2. built \subseteq Range(DeviceType) /\ HwNone \notin built
  BY HwRangeAssumption DEF HwInv
<1>3. /\ m_type' \in built \union {HwNone}
      /\ m_type' = HwNone => \A t \in built : Place(t) <= Place(m_type)
      /\ m_type' # HwNone =>
            /\ Place(m_type') > Place(m_type)
            /\ \A t \in built : Place(t) > Place(m_type) => Place(t) >= Place(m_type')
  BY <1>1, <1>2, FollowingIs
<1>4. \A t \in built : Place(t) \in Nat /\ (Place(t) = Place(m_type) => t = m_type)
  BY <1>1, <1>2, PlaceIs
<1>5. /\ Range(visited) = {t \in built : Place(t) < Place(m_type)}
      /\ \A i, j \in DOMAIN visited : i < j => Place(visited[i]) < Place(visited[j])
  BY DEF HwInv, VisitsEachOnce
<1>6. \A t \in built : (Place(t) < Place(m_type) \/ t = m_type)
                          <=> (AtEnd(m_type') \/ Place(t) < Place(m_type'))
  BY <1>1, <1>3, <1>4 DEF AtEnd
<1>7. /\ Len(visited) \in Nat /\ DOMAIN visited = 1 .. Len(visited)
      /\ DOMAIN visited' = 1 .. Len(visited) + 1
      /\ \A i \in DOMAIN visited : visited'[i] = visited[i]
      /\ visited'[Len(visited) + 1] = m_type
  BY <1>1
<1>8. Range(visited') = Range(visited) \union {m_type}
  BY <1>7 DEF Range
<1>9. Range(visited') = {t \in built' : AtEnd(m_type') \/ Place(t) < Place(m_type')}
  BY <1>1, <1>5, <1>6, <1>8
<1>10. ASSUME NEW i \in DOMAIN visited', NEW j \in DOMAIN visited', i < j
       PROVE  Place(visited'[i]) < Place(visited'[j])
  <2>1. i \in DOMAIN visited
    BY <1>7, <1>10
  <2>2. CASE j \in DOMAIN visited
    BY <1>5, <1>7, <1>10, <2>1, <2>2
  <2>3. CASE j = Len(visited) + 1
    <3>1. visited[i] \in Range(visited)
      BY <2>1 DEF Range
    <3> QED
      BY <1>5, <1>7, <2>1, <2>3, <3>1
  <2> QED
    BY <1>7, <2>2, <2>3
<1>11. ~AtEnd(m_type') => m_type' \in built'
  BY <1>3 DEF AtEnd
<1> QED
  BY <1>1, <1>2, <1>3, <1>9, <1>10, <1>11 DEF HwInv, VisitsEachOnce

\* For any types and whatever a build of FFmpeg supports: a loop over the range
\* visits every accelerator of the build once, in order, and no other, with
\* either increment.
THEOREM RangeIsWhole == HwRangeSpec => []VisitsEachOnce
<1>1. HwRangeInit => HwInv
  <2> SUFFICES ASSUME HwRangeInit PROVE HwInv
    OBVIOUS
  <2>1. built \subseteq Range(DeviceType) /\ m_type = Following(HwNone) /\ visited = << >>
    BY DEF HwRangeInit, begin
  <2>2. HwNone \notin built
    BY <2>1, HwRangeAssumption
  <2>3. /\ m_type \in built \union {HwNone}
        /\ m_type = HwNone => \A t \in built : Place(t) <= 0
        /\ m_type # HwNone => \A t \in built : Place(t) > 0 => Place(t) >= Place(m_type)
    BY <2>1, FollowingIs
  <2>4. \A t \in built : Place(t) \in Nat \ {0}
    BY <2>1, PlaceIs
  <2>5. {t \in built : AtEnd(m_type) \/ Place(t) < Place(m_type)} = {}
    BY <2>3, <2>4 DEF AtEnd
  <2>6. visited \in Seq(built) /\ Range(visited) = {} /\ DOMAIN visited = {}
    BY <2>1 DEF Range
  <2> QED
    BY <2>1, <2>3, <2>5, <2>6 DEF HwInv, VisitsEachOnce, AtEnd
<1>2. HwInv /\ [HwRangeNext]_hwVars => HwInv'
  <2> SUFFICES ASSUME HwInv, [HwRangeNext]_hwVars PROVE HwInv'
    OBVIOUS
  <2>1. CASE Increment
    BY <2>1, VisitKeeps DEF Increment
  <2>2. CASE PostIncrement
    BY <2>2, VisitKeeps DEF PostIncrement, Old
  <2>3. CASE UNCHANGED hwVars
    BY <2>3 DEF hwVars, HwInv, VisitsEachOnce, AtEnd
  <2> QED
    BY <2>1, <2>2, <2>3 DEF HwRangeNext
<1>3. HwInv => VisitsEachOnce
  BY DEF HwInv
<1> QED
  BY <1>1, <1>2, <1>3, PTL DEF HwRangeSpec

-----------------------------------------------------------------------------
(* Decoding *)

\* Sequences of frames and concatenation, by names the provers leave alone
Frames == Seq(Nat)
Then(s, t) == s \o t

LEMMA ThenFacts ==
    /\ \A s, t \in Frames : Then(s, t) \in Frames /\ Len(Then(s, t)) = Len(s) + Len(t)
    /\ << >> \in Frames
    /\ \A s \in Frames : Then(s, << >>) = s /\ Then(<< >>, s) = s
    /\ \A s, t, u \in Frames : Then(Then(s, t), u) = Then(s, Then(t, u))
    /\ \A s, t \in Frames : \A i \in 1 .. Len(s) : Then(s, t)[i] = s[i]
<1>1. ASSUME NEW s \in Frames, NEW t \in Frames
      PROVE  Then(s, t) \in Frames /\ Len(Then(s, t)) = Len(s) + Len(t)
  BY ConcatProperties DEF Then, Frames
<1>2. ASSUME NEW s \in Frames
      PROVE  Then(s, << >>) = s /\ Then(<< >>, s) = s
  BY ConcatEmptySeq DEF Then, Frames
<1>3. ASSUME NEW s \in Frames, NEW t \in Frames, NEW u \in Frames
      PROVE  Then(Then(s, t), u) = Then(s, Then(t, u))
  <2>1. s \in Seq(Nat) /\ t \in Seq(Nat) /\ u \in Seq(Nat)
    BY DEF Frames
  <2>2. (s \o t) \o u = s \o (t \o u)
    BY <2>1
  <2> QED
    BY <2>2 DEF Then
<1>4. ASSUME NEW s \in Frames, NEW t \in Frames, NEW i \in 1 .. Len(s)
      PROVE  Then(s, t)[i] = s[i]
  BY ConcatProperties DEF Then, Frames
<1>5. << >> \in Frames
  BY DEF Frames
<1> QED
  BY <1>1, <1>2, <1>3, <1>4, <1>5

LEMMA ThenFrames == << >> \in Frames /\ \A s, t \in Frames : Then(s, t) \in Frames
  BY ThenFacts

VideoOf(i) == IF file[i].stream = Video THEN FramesOf(i) ELSE << >>

\* w[k] are the frames of the video stream in the first k packets
Joined(w, n) ==
    w = [k \in 0 .. n |-> IF k = 0 THEN << >> ELSE Then(w[k - 1], VideoOf(k))]

Packets == file \in Seq([stream : Stream, frames : Nat])

LEMMA VideoOfSeq ==
    ASSUME Packets, NEW i \in 1 .. Len(file)
    PROVE  VideoOf(i) \in Frames /\ FramesOf(i) \in Frames
<1>1. file[i].frames \in Nat /\ i \in Nat
  <2>1. file[i] \in [stream : Stream, frames : Nat]
    BY ElementOfSeq DEF Packets
  <2> QED
    BY <2>1
<1>2. FramesOf(i) \in [1 .. file[i].frames -> Nat]
  BY <1>1 DEF FramesOf
<1>3. FramesOf(i) \in Frames
  BY <1>1, <1>2, IsASeq DEF Frames
<1> QED
  BY <1>3, ThenFacts DEF VideoOf

LEMMA JoinedIs ==
    ASSUME NEW n \in Nat, NEW w, Joined(w, n)
    PROVE  /\ w[0] = << >>
           /\ \A k \in 1 .. n : w[k] = Then(w[k - 1], VideoOf(k))
<1>1. \A k \in 0 .. n : w[k] = IF k = 0 THEN << >> ELSE Then(w[k - 1], VideoOf(k))
  BY DEF Joined
<1> QED
  BY <1>1

LEMMA JoinedExists ==
    ASSUME NEW n \in Nat
    PROVE  \E w : Joined(w, n)
<1> DEFINE T == {m \in Nat : ~ \E w : Joined(w, m)}
<1>1. SUFFICES ASSUME T # {} PROVE FALSE
  OBVIOUS
<1>2. PICK m \in T : m \in Nat /\ \A y \in T : m <= y
  <2> HIDE DEF T
  <2>1. T \in SUBSET Nat
    BY DEF T
  <2> QED
    BY <1>1, <2>1, Smallest
<1>3. m # 0
  <2>1. Joined([k \in 0 .. 0 |-> << >>], 0)
    BY DEF Joined
  <2> QED
    BY <2>1
<1>4. m - 1 \in Nat /\ m - 1 \notin T
  BY <1>2, <1>3
<1>5. PICK v : Joined(v, m - 1)
  BY <1>4
<1>6. PICK w : w = [k \in 0 .. m |-> IF k = m THEN Then(v[m - 1], VideoOf(m)) ELSE v[k]]
  OBVIOUS
<1>7. \A k \in 0 .. m - 1 : w[k] = v[k]
  BY <1>2, <1>6
<1>8. \A k \in 0 .. m : w[k] = IF k = 0 THEN << >> ELSE Then(w[k - 1], VideoOf(k))
  <2> TAKE k \in 0 .. m
  <2>1. CASE k = m
    BY <1>2, <1>3, <1>4, <1>6, <1>7, <2>1
  <2>2. CASE k # m
    <3>1. k \in 0 .. m - 1 /\ (k # 0 => k - 1 \in 0 .. m - 1)
      BY <1>2, <2>2
    <3>2. v[k] = IF k = 0 THEN << >> ELSE Then(v[k - 1], VideoOf(k))
      BY <1>5, <3>1 DEF Joined
    <3> QED
      BY <1>7, <3>1, <3>2
  <2> QED
    BY <2>1, <2>2
<1>9. Joined(w, m)
  BY <1>6, <1>8 DEF Joined
<1> QED
  BY <1>9

LEMMA JoinedSeq ==
    ASSUME Packets, NEW w, Joined(w, Len(file)), NEW n \in 0 .. Len(file)
    PROVE  w[n] \in Frames
<1> DEFINE T == {m \in 0 .. Len(file) : w[m] \notin Frames}
<1>0. Len(file) \in Nat
  BY DEF Packets
<1>1. SUFFICES ASSUME T # {} PROVE FALSE
  OBVIOUS
<1>2. PICK m \in T : \A y \in T : m <= y
  <2> HIDE DEF T
  <2>1. T \in SUBSET Nat
    BY DEF T
  <2> QED
    BY <1>1, <2>1, Smallest
<1>3. m # 0
  <2>1. w[0] \in Frames
    BY <1>0, JoinedIs, ThenFrames
  <2> QED
    BY <2>1
<1>4. m - 1 \in 0 .. Len(file) /\ m \in 1 .. Len(file) /\ m - 1 \notin T
  BY <1>0, <1>2, <1>3
<1>5. w[m] = Then(w[m - 1], VideoOf(m)) /\ w[m - 1] \in Frames /\ VideoOf(m) \in Frames
  BY <1>0, <1>4, JoinedIs, VideoOfSeq
<1>6. w[m] \in Frames
  BY <1>5, ThenFrames
<1> QED
  BY <1>6

\* What comes first stays first
LEMMA JoinedGrows ==
    ASSUME Packets, NEW w, Joined(w, Len(file)), NEW n \in 0 .. Len(file)
    PROVE  \E t \in Frames : w[Len(file)] = Then(w[n], t)
<1> DEFINE Grown(k) == \E t \in Frames : w[k] = Then(w[n], t)
           T == {m \in Nat : m + n <= Len(file) /\ ~Grown(n + m)}
<1>0. Len(file) \in Nat
  BY DEF Packets
<1>1. T = {}
  <2>1. SUFFICES ASSUME T # {} PROVE FALSE
    OBVIOUS
  <2>2. PICK m \in T : \A y \in T : m <= y
    <3> HIDE DEF T
    <3>1. T \in SUBSET Nat
      BY DEF T
    <3> QED
      BY <2>1, <3>1, Smallest
  <2>3. m # 0
    <3>1. w[n] = Then(w[n], << >>) /\ << >> \in Frames
      BY JoinedSeq, ThenFacts
    <3>2. Grown(n)
      BY <3>1
    <3> HIDE DEF Grown
    <3>3. m = 0 => Grown(n + m)
      BY <1>0, <3>2
    <3> QED
      BY <3>3
  <2>4. m - 1 \in Nat /\ m - 1 \notin T /\ n + m \in 1 .. Len(file) /\ (n + m) - 1 = n + (m - 1)
    <3>1. m \in Nat /\ m + n <= Len(file) /\ n \in Nat
      BY <1>0
    <3> HIDE DEF Grown
    <3>2. m - 1 \in Nat /\ n + m \in 1 .. Len(file) /\ (n + m) - 1 = n + (m - 1)
      BY <1>0, <2>3, <3>1
    <3>3. m - 1 \notin T
      <4> HIDE DEF T
      <4> QED
        BY <2>2, <3>1, <3>2
    <3> QED
      BY <3>2, <3>3
  <2>5. PICK t \in Frames : w[n + (m - 1)] = Then(w[n], t)
    <3>1. Grown(n + (m - 1))
      <4> HIDE DEF Grown
      <4> QED
        BY <1>0, <2>4
    <3> QED
      BY <3>1
  <2>6. w[n + m] = Then(Then(w[n], t), VideoOf(n + m))
    BY <1>0, <2>4, <2>5, JoinedIs
  <2>7. VideoOf(n + m) \in Frames /\ w[n] \in Frames
    BY <2>4, VideoOfSeq, JoinedSeq
  <2>8. Then(Then(w[n], t), VideoOf(n + m)) = Then(w[n], Then(t, VideoOf(n + m))) /\ Then(t, VideoOf(n + m)) \in Frames
    BY <2>7, ThenFacts
  <2>9. Grown(n + m)
    BY <2>6, <2>8
  <2> HIDE DEF Grown
  <2> QED
    BY <2>9
<1>2. Grown(n + (Len(file) - n))
  <2> HIDE DEF Grown
  <2>1. Len(file) - n \in Nat /\ (Len(file) - n) + n <= Len(file)
    BY <1>0
  <2> QED
    BY <1>1, <2>1
<1>3. n + (Len(file) - n) = Len(file)
  BY <1>0
<1> QED
  BY <1>2, <1>3

LEMMA VideoFramesIs ==
    ASSUME Packets, NEW w, Joined(w, Len(file))
    PROVE  VideoFrames = w[Len(file)]
<1> DEFINE n == Len(file)
           seqs == [i \in DOMAIN file |-> VideoOf(i)]
           Flat(f) == f = [i \in 1 .. Len(seqs) |-> IF i = 1 THEN seqs[i] ELSE Then(f[i - 1], seqs[i])]
<1>0. n \in Nat /\ DOMAIN file = 1 .. n
  BY DEF Packets
<1>1. Len(seqs) = n /\ \A i \in 1 .. n : seqs[i] = VideoOf(i)
  BY <1>0
<1>2. VideoFrames = FlattenSeq(seqs)
  BY DEF VideoFrames, VideoOf
<1>3. FlattenSeq(seqs) = IF Len(seqs) = 0 THEN seqs ELSE (CHOOSE f : Flat(f))[Len(seqs)]
  BY DEF FlattenSeq, Then
<1>4. CASE n = 0
  <2>1. seqs = << >>
    BY <1>0, <1>4
  <2>2. w[0] = << >>
    BY <1>0, JoinedIs
  <2> QED
    BY <1>1, <1>2, <1>3, <1>4, <2>1, <2>2
<1>5. CASE n # 0
  <2>1. \E f : Flat(f)
    <3> DEFINE f == [i \in 1 .. n |-> w[i]]
    <3>1. ASSUME NEW i \in 1 .. n PROVE f[i] = IF i = 1 THEN seqs[i] ELSE Then(f[i - 1], seqs[i])
      <4>1. w[i] = Then(w[i - 1], VideoOf(i))
        BY <1>0, JoinedIs
      <4>2. CASE i = 1
        <5>1. w[1] = Then(<< >>, VideoOf(1))
          BY <1>0, <4>1, <4>2, JoinedIs
        <5>2. VideoOf(1) \in Frames
          BY <4>2, VideoOfSeq
        <5> QED
          BY <1>1, <4>2, <5>1, <5>2, ThenFacts
      <4>3. CASE i # 1
        <5>1. i - 1 \in 1 .. n
          BY <1>0, <4>3
        <5> QED
          BY <1>1, <4>1, <4>3, <5>1
      <4> QED
        BY <4>2, <4>3
    <3>2. [i \in 1 .. n |-> w[i]]
            = [i \in 1 .. Len(seqs) |-> IF i = 1 THEN seqs[i] ELSE Then(f[i - 1], seqs[i])]
      <4> HIDE DEF f, seqs
      <4>1. \A i \in 1 .. n : w[i] = IF i = 1 THEN seqs[i] ELSE Then(f[i - 1], seqs[i])
        <5>1. \A i \in 1 .. n : f[i] = w[i]
          BY DEF f
        <5> QED
          BY <3>1, <5>1
      <4> QED
        BY <1>1, <4>1
    <3>3. Flat(f)
      BY <3>2
    <3> QED
      BY <3>3
  <2>2. PICK f : Flat(f) /\ FlattenSeq(seqs) = f[n]
    <3> HIDE DEF Flat
    <3> QED
      BY <1>1, <1>3, <1>5, <2>1
  <2>3. \A i \in 1 .. n : f[i] = IF i = 1 THEN seqs[i] ELSE Then(f[i - 1], seqs[i])
    BY <1>1, <2>2
  <2> DEFINE T == {i \in 1 .. n : f[i] # w[i]}
  <2>4. T = {}
    <3>1. SUFFICES ASSUME T # {} PROVE FALSE
      OBVIOUS
    <3>2. PICK m \in T : \A y \in T : m <= y
      <4> HIDE DEF T
      <4>1. T \in SUBSET Nat
        BY <1>0 DEF T
      <4> QED
        BY <3>1, <4>1, Smallest
    <3>3. m \in 1 .. n /\ w[m] = Then(w[m - 1], VideoOf(m)) /\ VideoOf(m) \in Frames
      BY <1>0, JoinedIs, VideoOfSeq
    <3>4. CASE m = 1
      <4>1. w[1] = Then(<< >>, VideoOf(1))
        BY <1>0, <3>3, <3>4, JoinedIs
      <4>2. w[1] = VideoOf(1)
        BY <3>3, <3>4, <4>1, ThenFacts
      <4> QED
        BY <1>1, <2>3, <3>3, <3>4, <4>2
    <3>5. CASE m # 1
      <4>1. m - 1 \in 1 .. n /\ m - 1 \notin T
        BY <1>0, <3>2, <3>5
      <4> QED
        BY <1>1, <2>3, <3>3, <3>5, <4>1
    <3> QED
      BY <3>4, <3>5
  <2>5. n \in 1 .. n
    BY <1>0, <1>5
  <2> QED
    BY <1>2, <2>2, <2>4, <2>5
<1> QED
  BY <1>4, <1>5

\* How many packets have reached the codec, or were skipped
Received == IF pc = "send" THEN next - 1 ELSE next

\* What came out and what is in the codec are the frames of the packets read; the
\* codec keeps back what it can before anything comes out.
Flow(w) ==
    /\ loop \in {"decode_image", "void_player"}
    /\ delay \in Nat /\ Packets /\ next \in 0 .. Len(file)
    /\ loop = "decode_image" => \A i \in 1 .. Len(file) : file[i].stream = Video
    /\ out \in Frames /\ inside \in Frames
    /\ pc \in {"read", "send", "receive", "returned", "ended"}
    /\ m_stream_idx \in {NoStream, Video}
    /\ pc = "send" => next \in 1 .. Len(file) /\ file[next].stream = Video
    /\ pc = "ended" => next = Len(file)
    /\ pc = "returned" => loop = "decode_image"
    /\ w[Received] = Then(out, inside)
    /\ pc \in {"read", "send", "ended"} => Len(inside) <= delay
    /\ out # << >> => Len(inside) >= delay
    /\ loop = "decode_image" => IF pc = "returned" THEN Len(out) = 1 ELSE out = << >>

DecodingInv == \E w : Joined(w, Len(file)) /\ Flow(w)

LEMMA FlowMeans ==
    ASSUME DecodingInv
    PROVE  FramesComeOut
<1>1. PICK w : Joined(w, Len(file)) /\ Flow(w)
  BY DEF DecodingInv
<1>2. /\ out \in Frames /\ inside \in Frames /\ delay \in Nat /\ Packets
      /\ next \in 0 .. Len(file) /\ Received \in 0 .. Len(file) /\ Len(file) \in Nat
  <2>1. Len(file) \in Nat
    BY <1>1 DEF Flow, Packets
  <2> QED
    BY <1>1, <2>1 DEF Flow, Received
<1>3. VideoFrames = w[Len(file)] /\ VideoFrames \in Frames
  BY <1>1, <1>2, VideoFramesIs, JoinedSeq
<1>4. PICK t \in Frames : VideoFrames = Then(Then(out, inside), t)
  <2>1. PICK t \in Frames : w[Len(file)] = Then(w[Received], t)
    BY <1>1, <1>2, JoinedGrows
  <2> QED
    BY <1>1, <1>3, <2>1 DEF Flow
<1>5. VideoFrames = Then(out, Then(inside, t)) /\ Then(inside, t) \in Frames
  BY <1>2, <1>4, ThenFacts
<1>6. /\ Len(out) \in Nat /\ Len(out) <= Len(VideoFrames) /\ Len(VideoFrames) \in Nat
      /\ \A i \in 1 .. Len(out) : VideoFrames[i] = out[i]
  <2>1. Len(out) \in Nat /\ Len(VideoFrames) \in Nat /\ Len(Then(inside, t)) \in Nat
    BY <1>2, <1>3, <1>5, LenProperties DEF Frames
  <2>2. /\ Len(VideoFrames) = Len(out) + Len(Then(inside, t))
        /\ \A i \in 1 .. Len(out) : VideoFrames[i] = out[i]
    BY <1>2, <1>5, ThenFacts
  <2> QED
    BY <2>1, <2>2
<1>7. IsPrefix(out, VideoFrames)
  <2>1. SubSeq(out, 1, Len(out)) = SubSeq(VideoFrames, 1, Len(out))
    BY <1>2, <1>3, <1>6 DEF Frames
  <2> QED
    BY <1>6, <2>1 DEF IsPrefix
<1>8. pc = "ended" => VideoFrames = Then(out, inside)
  BY <1>1, <1>3 DEF Flow, Received
<1>9. Len(inside) \in Nat /\ Len(Then(out, inside)) = Len(out) + Len(inside)
  BY <1>2, ThenFacts DEF Frames
<1>10. out = << >> <=> Len(out) = 0
  BY <1>2 DEF Frames
<1>11. pc = "ended" => Len(VideoFrames) = Len(out) + Len(inside) /\ Len(inside) <= delay
  BY <1>1, <1>8, <1>9 DEF Flow
<1>12. ASSUME pc = "ended" PROVE Len(out) = Max({0, Len(VideoFrames) - delay})
  <2> DEFINE S == {0, Len(VideoFrames) - delay}
  <2>1. Len(out) \in S /\ \A y \in S : Len(out) >= y
    <3>1. CASE out = << >>
      BY <1>2, <1>6, <1>9, <1>10, <1>11, <1>12, <3>1
    <3>2. CASE out # << >>
      <4>1. Len(inside) >= delay
        BY <1>1, <3>2 DEF Flow
      <4> QED
        BY <1>2, <1>6, <1>9, <1>11, <1>12, <4>1
    <3> QED
      BY <3>1, <3>2
  <2>2. S \subseteq Int
    BY <1>2, <1>6
  <2>3. \A x \in S : (\A y \in S : x >= y) => x = Len(out)
    <3> HIDE DEF S
    <3>1. ASSUME NEW x \in S, \A y \in S : x >= y PROVE x = Len(out)
      <4>1. x >= Len(out) /\ Len(out) >= x /\ x \in Int /\ Len(out) \in Int
        BY <2>1, <2>2, <3>1
      <4> QED
        BY <4>1
    <3> QED
      BY <3>1
  <2>4. Max(S) = CHOOSE x \in S : \A y \in S : x >= y
    BY DEF Max
  <2> HIDE DEF S
  <2>5. Len(out) = Max(S)
    BY <2>1, <2>3, <2>4
  <2> QED
    BY <2>5 DEF S
<1>13. EveryFrameOnce
  BY <1>7, <1>12 DEF EveryFrameOnce
<1>14. ImageDecoded
  <2> SUFFICES ASSUME loop = "decode_image"
               PROVE  /\ pc = "returned" => out = << VideoFrames[1] >>
                      /\ pc = "ended" => Len(VideoFrames) <= delay
    BY DEF ImageDecoded
  <2>1. ASSUME pc = "returned" PROVE out = << VideoFrames[1] >>
    <3>1. Len(out) = 1
      BY <1>1, <2>1 DEF Flow
    <3>2. out = << out[1] >>
      BY <1>2, <3>1 DEF Frames
    <3>3. out[1] = VideoFrames[1]
      BY <1>6, <3>1
    <3> QED
      BY <3>2, <3>3
  <2>2. ASSUME pc = "ended" PROVE Len(VideoFrames) <= delay
    <3>1. Len(out) = 0
      BY <1>1, <1>10, <2>2 DEF Flow
    <3> QED
      BY <1>2, <1>9, <1>11, <2>2, <3>1
  <2> QED
    BY <2>1, <2>2
<1>15. DecodingTypeOK /\ NeverRefused
  BY <1>1 DEF Flow, DecodingTypeOK, NeverRefused
<1> QED
  BY <1>13, <1>14, <1>15 DEF FramesComeOut

LEMMA DecodingBegins ==
    ASSUME ~MixedImages, DecodingInit
    PROVE  DecodingInv
<1>1. file \in BoundedSeq(AVPacket, MaxPackets)
  BY DEF DecodingInit
<1>2. PICK n \in 0 .. MaxPackets : file \in [1 .. n -> AVPacket]
  BY <1>1 DEF BoundedSeq, SeqOf
<1>3. n \in Nat
  BY DecodingAssumption
<1>4. Packets
  <2> DEFINE P == [stream : Stream, frames : Nat]
  <2>1. AVPacket \subseteq P
    BY DecodingAssumption DEF AVPacket
  <2> HIDE DEF P
  <2>2. file \in [1 .. n -> P]
    BY <1>2, <2>1
  <2>3. file \in Seq(P)
    BY <1>3, <2>2, IsASeq
  <2> QED
    BY <2>3 DEF Packets, P
<1>5. Len(file) \in Nat /\ DOMAIN file = 1 .. Len(file)
  BY <1>4, LenProperties DEF Packets
<1>6. PICK w : Joined(w, Len(file))
  BY <1>5, JoinedExists
<1>7. w[0] = << >> /\ << >> \in Frames /\ Then(<< >>, << >>) = << >> /\ Len(<< >>) = 0
  BY <1>5, <1>6, JoinedIs, ThenFacts
<1>8. delay \in Nat
  BY DecodingAssumption DEF DecodingInit
<1>9. Flow(w)
  BY <1>4, <1>5, <1>7, <1>8 DEF DecodingInit, Flow, Received
<1> QED
  BY <1>6, <1>9 DEF DecodingInv

LEMMA ReadFlows ==
    ASSUME NEW w, Joined(w, Len(file)), Flow(w), ReadPacket
    PROVE  Flow(w)'
<1>1. /\ pc = "read" /\ Packets /\ next \in 0 .. Len(file) /\ Len(file) \in Nat
      /\ w[next] = Then(out, inside) /\ Len(inside) <= delay
  BY DEF ReadPacket, Flow, Packets, Received
<1>2. UNCHANGED <<loop, file, delay, inside, m_stream_idx, out>>
  BY DEF ReadPacket
<1>3. CASE next = Len(file)
  BY <1>1, <1>2, <1>3 DEF ReadPacket, Flow, Received, Packets
<1>4. CASE next # Len(file)
  <2>1. next + 1 \in 1 .. Len(file) /\ next' = next + 1 /\ (next + 1) - 1 = next
    BY <1>1, <1>4 DEF ReadPacket
  <2>2. CASE Filtered(file[next + 1].stream)
    <3>1. pc' = "read"
      BY <1>4, <2>2 DEF ReadPacket
    <3>2. VideoOf(next + 1) = << >>
      BY <2>2 DEF Filtered, VideoOf
    <3>3. w[next + 1] = Then(Then(out, inside), << >>)
      BY <1>1, <2>1, <3>2, JoinedIs
    <3>4. w[next + 1] = Then(out, inside)
      BY <3>3, ThenFacts DEF Flow
    <3> QED
      BY <1>1, <1>2, <2>1, <3>1, <3>4 DEF Flow, Received, Packets
  <2>3. CASE ~Filtered(file[next + 1].stream)
    <3>1. pc' = "send"
      BY <1>4, <2>3 DEF ReadPacket
    <3>2. file[next + 1].stream = Video
      BY <2>1, <2>3 DEF Filtered, Flow
    <3> QED
      BY <1>1, <1>2, <2>1, <3>1, <3>2 DEF Flow, Received, Packets
  <2> QED
    BY <2>2, <2>3
<1> QED
  BY <1>3, <1>4

LEMMA SendFlows ==
    ASSUME NEW w, Joined(w, Len(file)), Flow(w), SendPacket
    PROVE  Flow(w)'
<1>1. /\ pc = "send" /\ Packets /\ next \in 1 .. Len(file) /\ Len(file) \in Nat
      /\ w[next - 1] = Then(out, inside) /\ Len(inside) <= delay /\ file[next].stream = Video
      /\ inside \in Frames /\ out \in Frames /\ delay \in Nat
  BY DEF SendPacket, Flow, Packets, Received
<1>2. UNCHANGED <<loop, file, delay, next, out>>
  BY DEF SendPacket
<1>3. ~Waiting
  BY <1>1 DEF Waiting, Frames
<1>4. m_stream_idx' = Video
  BY <1>1 DEF SendPacket, pkt, Flow
<1>5. pc' = "receive" /\ inside' = Then(inside, FramesOf(next))
  BY <1>1, <1>3, <1>4 DEF SendPacket, AfterSend, pkt, Then
<1>6. FramesOf(next) \in Frames /\ VideoOf(next) = FramesOf(next)
  BY <1>1, VideoOfSeq DEF VideoOf
<1>7. inside' \in Frames /\ Len(inside') >= Len(inside) /\ Len(inside) \in Nat /\ Len(inside') \in Nat
  <2>1. inside' \in Frames
    BY <1>1, <1>5, <1>6, ThenFrames
  <2>2. Len(inside') = Len(inside) + Len(FramesOf(next))
    BY <1>1, <1>5, <1>6, ThenFacts
  <2>3. Len(inside) \in Nat /\ Len(FramesOf(next)) \in Nat
    BY <1>1, <1>6, LenProperties DEF Frames
  <2> QED
    BY <2>1, <2>2, <2>3
<1>8. w[next] = Then(out, inside')
  <2>1. w[next] = Then(Then(out, inside), FramesOf(next))
    BY <1>1, <1>6, JoinedIs
  <2> QED
    BY <1>1, <1>5, <1>6, <2>1, ThenFacts
<1>9. out # << >> => Len(inside') >= delay
  BY <1>1, <1>7 DEF Flow
<1> QED
  BY <1>1, <1>2, <1>4, <1>5, <1>7, <1>8, <1>9 DEF Flow, Received, Packets

LEMMA ReceiveFlows ==
    ASSUME NEW w, Joined(w, Len(file)), Flow(w), ReceiveFrame
    PROVE  Flow(w)'
<1>1. /\ pc = "receive" /\ Packets /\ next \in 0 .. Len(file) /\ Len(file) \in Nat
      /\ w[next] = Then(out, inside) /\ inside \in Frames /\ out \in Frames /\ delay \in Nat
  BY DEF ReceiveFrame, Flow, Packets, Received
<1>2. UNCHANGED <<loop, file, delay, next, m_stream_idx>>
  BY DEF ReceiveFrame
<1>3. Len(inside) \in Nat
  BY <1>1 DEF Frames
<1>4. CASE ~Waiting
  <2>1. pc' = "read" /\ out' = out /\ inside' = inside
    BY <1>4 DEF ReceiveFrame, WithoutFrame
  <2>2. Len(inside) <= delay
    BY <1>1, <1>3, <1>4 DEF Waiting
  <2> QED
    BY <1>1, <1>2, <2>1, <2>2 DEF Flow, Received, Packets
<1>5. CASE Waiting
  <2>1. out' = Append(out, Head(inside)) /\ inside' = Tail(inside) /\ pc' = AfterFrame
    BY <1>5 DEF ReceiveFrame
  <2>2. Len(inside) > delay
    BY <1>5 DEF Waiting
  <2>3. /\ out' \in Frames /\ inside' \in Frames /\ Len(out') = Len(out) + 1
        /\ Len(inside') = Len(inside) - 1 /\ Len(out) \in Nat
    BY <1>1, <1>3, <2>1, <2>2 DEF Frames
  <2>4. Then(out', inside') = Then(out, inside)
    <3>1. out \in Seq(Nat) /\ inside \in Seq(Nat) /\ inside # << >>
      BY <1>1, <1>3, <2>2 DEF Frames
    <3>2. Head(inside) \in Nat /\ Tail(inside) \in Seq(Nat) /\ << Head(inside) >> \in Seq(Nat)
      BY <3>1
    <3>3. Append(out, Head(inside)) = out \o << Head(inside) >>
      BY <3>1, <3>2, AppendIsConcat
    <3>4. inside = << Head(inside) >> \o Tail(inside)
      BY <3>1
    <3>5. (out \o << Head(inside) >>) \o Tail(inside) = out \o (<< Head(inside) >> \o Tail(inside))
      BY <3>1, <3>2, ConcatAssociative
    <3> QED
      BY <2>1, <3>3, <3>4, <3>5 DEF Then
  <2>5. w[next] = Then(out', inside')
    BY <1>1, <2>4
  <2>6. Len(inside') >= delay
    BY <1>1, <1>3, <2>2, <2>3
  <2>7. CASE loop = "decode_image"
    <3>1. pc' = "returned" /\ out = << >>
      BY <1>1, <2>1, <2>7 DEF AfterFrame, Flow
    <3>2. Len(out') = 1
      BY <2>3, <3>1
    <3> QED
      BY <1>1, <1>2, <2>3, <2>5, <2>6, <2>7, <3>1, <3>2 DEF Flow, Received, Packets
  <2>8. CASE loop = "void_player"
    <3>1. pc' = "receive"
      BY <2>1, <2>8 DEF AfterFrame
    <3> QED
      BY <1>1, <1>2, <2>3, <2>5, <2>6, <2>8, <3>1 DEF Flow, Received, Packets
  <2> QED
    BY <2>7, <2>8 DEF Flow
<1> QED
  BY <1>4, <1>5

\* For any file, delay and number of frames in a packet: neither loop sends a
\* packet that the decoder refuses, and what comes out are the frames of the
\* video stream, in order, but for those the codec keeps back; decode_image has to
\* be given files with one stream.
THEOREM FramesInOrder == ~MixedImages => (DecodingSpec => []FramesComeOut)
<1> SUFFICES ASSUME ~MixedImages PROVE DecodingSpec => []FramesComeOut
  OBVIOUS
<1>1. DecodingInit => DecodingInv
  BY DecodingBegins
<1>2. DecodingInv /\ [DecodingNext]_decodingVars => DecodingInv'
  <2> SUFFICES ASSUME DecodingInv, [DecodingNext]_decodingVars PROVE DecodingInv'
    OBVIOUS
  <2>1. PICK w : Joined(w, Len(file)) /\ Flow(w)
    BY DEF DecodingInv
  <2>2. file' = file
    BY DEF DecodingNext, ReadPacket, SendPacket, ReceiveFrame, decodingVars
  <2>3. Joined(w, Len(file))'
    BY <2>1, <2>2 DEF Joined, VideoOf, FramesOf
  <2>4. CASE UNCHANGED decodingVars
    <3>1. Flow(w)'
      BY <2>1, <2>4 DEF decodingVars, Flow, Received, Packets
    <3> QED
      BY <2>3, <3>1 DEF DecodingInv
  <2>5. CASE DecodingNext
    <3>1. Flow(w)'
      BY <2>1, <2>5, ReadFlows, SendFlows, ReceiveFlows DEF DecodingNext
    <3> QED
      BY <2>3, <3>1 DEF DecodingInv
  <2> QED
    BY <2>4, <2>5
<1>3. DecodingInv => FramesComeOut
  BY FlowMeans
<1> QED
  BY <1>1, <1>2, <1>3, PTL DEF DecodingSpec
=============================================================================
