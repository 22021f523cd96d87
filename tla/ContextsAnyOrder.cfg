SPECIFICATION Spec
CONSTANTS
    Root = Root
    Null = Null
    c1 = c1
    c2 = c2
    c3 = c3
    c4 = c4
    Ctx = {c1, c2, c3}
    MaxLevel = 1
    Parents <- MCParents
    Settable <- MCNode
    Debug = TRUE
    StaticsFirst = FALSE
    ChildrenFirst = FALSE
INVARIANTS
    DoublyLinked
    NoDanglingParent
PROPERTIES
    KeepsPromise
\* An assertion may abort the program, or a null pointer end it
CHECK_DEADLOCK FALSE
