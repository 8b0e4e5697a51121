\* Search domains of one session, pushed suffixes disjoint from the lists
\* found in the registry.
CONSTANTS
    s1 = s1  s2 = s2  o1 = o1  o2 = o2  i1 = i1  i2 = i2
    Sessions = {s1}
    Ifaces = {i1}
    Objs = {o1}
    Msgs <- MsgsDomains
    MaxMsgs = 3
    Capacity = 16
    InitLists <- ListsDisjoint
    MetricVals = {5}
    BlockMetric = 3000
    MayFail = TRUE
    MayCrash = TRUE
    NoValue = NoValue
    NoMsg = NoMsg
SPECIFICATION Spec
INVARIANTS
    SearchListRestored
    SearchListsRecovered
CHECK_DEADLOCK FALSE
