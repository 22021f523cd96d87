SPECIFICATION Spec
CONSTANTS
    Root = Root
    Null = Null
    c1 = c1
    c2 = c2
    c3 = c3
    c4 = c4
    Ctx = {c1, c2, c3, c4}
    MaxLevel = 0
    Parents <- MCParents
    Settable <- MCNode
    Debug = FALSE
    StaticsFirst = TRUE
    ChildrenFirst = TRUE
INVARIANTS
    TypeOK
    ListIsComplete
    NoFault
    Preorder
    LevelSpreads
