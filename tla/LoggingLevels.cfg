SPECIFICATION LogSpec
CONSTANTS
    Root = Root
    Null = Null
    c1 = c1
    c2 = c2
    c3 = c3
    t1 = t1
    t2 = t2
    Ctx = {c1, c2}
    Thread = {t1}
    Logged <- MCSecond
    MaxLevel = 1
    Parents <- MCParents
    Settable <- MCEnds
    Debug = FALSE
    StaticsFirst = TRUE
    ChildrenFirst = TRUE
INVARIANTS
    LevelWasEffective
