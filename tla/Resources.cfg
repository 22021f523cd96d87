SPECIFICATION Spec
CONSTANTS
    o1 = o1
    o2 = o2
    o3 = o3
    r1 = r1
    r2 = r2
    r3 = r3
    p1 = p1
    p2 = p2
    x = x
    y = y
    s1 = s1
    s2 = s2
    s3 = s3
    v1 = v1
    v2 = v2
    v3 = v3
    Library = {r1}
    Symbol = {s1, s2, s3}
    Missing = Missing
    NoMessage = NoMessage
    Elsewhere = Elsewhere
    Defines <- MCDefines
    IsNull <- MCNulls
    DeviceType <- MCDevices
    HwNone = HwNone
    Obj = {o1, o2, o3}
    Res = {r1, r2, r3}
    Pic = {p1, p2}
    Null = Null
    NoObject = NoObject
    Class <- MCClasses
    Acquired = {TRUE, FALSE}
    Referenced = {TRUE}
    Overwrites = FALSE
    SelfAssigns = FALSE
    Byte = {x, y}
    Zero = Zero
    MaxLen = 3
    Disturbed = TRUE
    ShortReads = FALSE
    d1 = d1
    d2 = d2
    c1 = c1
    c2 = c2
    i1 = i1
    i2 = i2
    video = video
    audio = audio
    Dem = {d1, d2}
    Ctx = {c1, c2}
    Io = {i1, i2}
    Nullptr = Nullptr
    NoDemux = NoDemux
    Size = 3
    IntWidth = 3
    Opened = {TRUE, FALSE}
    Outcome = {"opened", "no_buffer", "no_io_context"}
    MovesBuffers = FALSE
    Stream = {video, audio}
    Video = video
    NoStream = NoStream
    MaxPackets = 3
    Delays = {0, 1, 2}
    PerPacket = {0, 1, 2}
    Assertions = TRUE
    MixedImages = FALSE
INVARIANTS
    HandlesAreSound
    ReadsOrRestores
    PositionsAgree
    DemuxIsSound
    FramesComeOut
    ErrorIsItsOwn
    VisitsEachOnce
CHECK_DEADLOCK FALSE
