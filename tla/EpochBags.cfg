CONSTANTS
    t1 = t1
    t2 = t2
    t3 = t3
    a = a
    b = b
    c = c
    NoItem = NoItem
    Thread = {t1, t2}
    Item = {a, b, c}
    AnnouncesBeforeCollect = 1
    BufferSize = 2
    MaxEpoch = 2
SPECIFICATION Spec
SYMMETRY EpochSymmetry
INVARIANTS
    TypeOK
    RetiredHeldOnce
    BagsByEpoch
PROPERTIES
    ImplementsReclaimer
CHECK_DEADLOCK FALSE
