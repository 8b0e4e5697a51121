\* Addresses, routes and WFP blocks of one session, with allocation failures.
CONSTANTS
    s1 = s1  s2 = s2  o1 = o1  o2 = o2  i1 = i1  i2 = i2
    Sessions = {s1}
    Ifaces = {i1}
    Objs = {o1}
    Msgs <- MsgsRowsWfp
    MaxMsgs = 3
    Capacity = 16
    InitLists = {NoValue}
    MetricVals <- MetricsSmall
    BlockMetric = 3000
    MayFail = TRUE
    MayCrash = FALSE
    NoValue = NoValue
    NoMsg = NoMsg
SPECIFICATION Spec
INVARIANTS
    LedgerCoversRows
    FiltersRecorded
    MetricsRestored
PROPERTIES
    StopEndsSessions
    LedgerRefined
CHECK_DEADLOCK FALSE
