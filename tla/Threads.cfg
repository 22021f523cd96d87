SPECIFICATION Spec
CONSTANTS
    t1 = t1
    t2 = t2
    s1 = s1
    s2 = s2
    g1 = g1
    g2 = g2
    k1 = k1
    k2 = k2
    w1 = w1
    w2 = w2
    j1 = j1
    j2 = j2
    m = m
    h1 = h1
    h2 = h2
    sigint = sigint
    sigterm = sigterm
    Subject = {"guard", "cleanup", "asio", "detach", "signals"}
    Thread = {t1, t2}
    Slot = {s1, s2}
    Guarded = {g1, g2}
    Nobody = Nobody
    Empty = Empty
    NoLock = NoLock
    Excludes = TRUE
    AssignsItself = FALSE
    MaxValue = 2
    MaxDepth = 4
    ThrowsInside = FALSE
    Client = {k1, k2}
    Worker = {w1, w2}
    NoClient = NoClient
    MaxRuns = 2
    WorkGuard = {TRUE, FALSE}
    Job = {j1, j2}
    MaxYields = 1
    Main = m
    Child = {h1, h2}
    Signal = {sigint, sigterm}
    MaxKills = 2
    MainFirst = TRUE
INVARIANTS
    OneHolder
    NoLostUpdate
    RunsAsNamed
PROPERTIES
    RunsInTimeEnd
    DetachedRunToEnd
    ListenerGetsSignals
CHECK_DEADLOCK FALSE
