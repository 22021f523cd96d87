SPECIFICATION Spec
CONSTANTS
    Root = Root
    Null = Null
    c1 = c1
    c2 = c2
    c3 = c3
    c4 = c4
    Ctx = {c1, c2, c3, c4}
    MaxLevel = 1
    Parents <- MCParents
    Settable <- MCRootOnly
    Debug = FALSE
    StaticsFirst = TRUE
    ChildrenFirst = TRUE
INVARIANTS
    InheritsParent
PROPERTIES
    CallReturns
