CONSTANTS
    t1 = t1
    t2 = t2
    t3 = t3
    a = a
    b = b
    c = c
    NoItem = NoItem
    Thread = {t1, t2, t3}
    Item = {a}
    AnnouncesBeforeCollect = 0
    BufferSize = 1
    MaxEpoch = 2
SPECIFICATION Spec
SYMMETRY EpochSymmetry
INVARIANTS
    IInv
    EpochHeldBack
CHECK_DEADLOCK FALSE
