CONSTANTS
    o1 = o1
    i1 = i1
    n1 = n1
    n2 = n2
    n3 = n3
    u1 = u1
    s1 = s1
    Null = Null
    Dummy = Dummy
    Unread = Unread
    MaxBackoff = 1
    Thread = {u1, s1}
    Updater = {u1}
    Scanner = {u1, s1}
    MaxTimestamp = 1
    Obj <- OneObject
    Node <- Versions
    Initial <- OneInitial
    Left <- RootLeft
    Right <- RootRight
    AnnouncesBeforeCollect = 0
    BufferSize = 1
    MaxEpoch = 2
SPECIFICATION AllSpec
SYMMETRY VersionSymmetry
INVARIANTS
    AllTypeOK
    CoveredSnapshotView
CHECK_DEADLOCK FALSE
