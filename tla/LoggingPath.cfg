SPECIFICATION LogSpec
CONSTANTS
    Root = Root
    Null = Null
    c1 = c1
    c2 = c2
    c3 = c3
    t1 = t1
    t2 = t2
    Ctx = {c1, c2}
    Thread = {t1, t2}
    Logged <- MCEnds
    MaxLevel = 0
    Parents <- MCParents
    Settable <- MCRootOnly
    Debug = FALSE
    StaticsFirst = TRUE
    ChildrenFirst = TRUE
INVARIANTS
    LogTypeOK
PROPERTIES
    LogReturns
