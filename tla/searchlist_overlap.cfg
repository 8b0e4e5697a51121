\* A session pushing a suffix the system list already holds.
CONSTANTS
    s1 = s1  s2 = s2  o1 = o1  o2 = o2  i1 = i1  i2 = i2
    Sessions = {s1}
    Ifaces = {i1}
    Objs = {o1}
    Msgs <- MsgsDomains
    MaxMsgs = 2
    Capacity = 16
    InitLists <- ListsOverlap
    MetricVals <- MetricsNoAuto
    BlockMetric = 3000
    MayFail = FALSE
    MayCrash = FALSE
    NoValue = NoValue
    NoMsg = NoMsg
SPECIFICATION Spec
INVARIANTS
    SearchListRestored
CHECK_DEADLOCK FALSE
