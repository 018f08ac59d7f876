CONSTANTS
    o1 = o1
    o2 = o2
    i1 = i1
    i2 = i2
    n1 = n1
    n2 = n2
    n3 = n3
    u1 = u1
    u2 = u2
    s1 = s1
    s2 = s2
    Null = Null
    Dummy = Dummy
    Unread = Unread
    MaxBackoff = 1
    Thread = {u1, s1, s2}
    Updater = {u1}
    Scanner = {s1, s2}
    MaxTimestamp = 1
    Obj <- TwoObjects
    Node <- TwoNodes
    Initial <- TwoInitial
    Left <- TwoLeft
    Right <- TwoRight
SPECIFICATION Spec
SYMMETRY ScannerSymmetry
INVARIANTS
    ScansComparable
PROPERTIES
    ImplementsStore
