CONSTANTS
    t1 = t1
    t2 = t2
    t3 = t3
    Thread <- MCThread
    MaxBackoff = 4
    MaxTimestamp = 4
SPECIFICATION Spec
INVARIANTS
    HistoryTypeOK
    SnapshotBelowClock
    RealTimeOrder
PROPERTIES
    TakeSnapshotReturns
CHECK_DEADLOCK FALSE
