SPECIFICATION Spec
CONSTANTS
    Root = Root
    Null = Null
    c1 = c1
    c2 = c2
    c3 = c3
    c4 = c4
    Ctx = {c1, c2, c3, c4}
    MaxLevel = 0
    Parents <- MCParents
    Settable <- MCRootOnly
    Debug = TRUE
    StaticsFirst = TRUE
    ChildrenFirst = TRUE
CONSTRAINT ParentsFirst
INVARIANTS
    PivotIsCurrent
\* An assertion may abort the program, or a null pointer end it
CHECK_DEADLOCK FALSE
