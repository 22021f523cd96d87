SPECIFICATION Spec
CONSTANTS
    a1 = a1
    a2 = a2
    a3 = a3
    Subject = {"queue", "ring_buffer", "intrusive_list"}
    Chunk = {a1, a2, a3}
    Null = Null
    Value = {x1, x2}
    Empty = Empty
    chunk_elements = 3
    DrainsAtEnd = FALSE
    b1 = b1
    b2 = b2
    k1 = k1
    k2 = k2
    x1 = x1
    x2 = x2
    n1 = n1
    n2 = n2
    n3 = n3
    l1 = l1
    l2 = l2
    Buf = {b1, b2}
    Block = {k1, k2}
    NoBlock = NoBlock
    Capacity = {1, 3}
    Item = {x1, x2}
    NoItem = NoItem
    Constructs = {TRUE}
    SecondLap = FALSE
    SelfMoves = FALSE
    MaxOffset = 3
    List = {l1, l2}
    Node = {n1, n2, n3}
    NoNode = NoNode
    SharesNodes = FALSE
INVARIANTS
    QueueTypeOK
    QueueIsSound
    RingIsSound
    ListsAreSound
PROPERTIES
    QueueKeepsPromise
    KeepsNewest
    ListServesInOrder
\* A destroyed queue has no operation left
CHECK_DEADLOCK FALSE
