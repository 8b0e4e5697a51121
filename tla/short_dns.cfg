\* A session whose engine sends a dns_cfg message of header size only.
CONSTANTS
    s1 = s1  s2 = s2  o1 = o1  o2 = o2  i1 = i1  i2 = i2
    Sessions = {s1}
    Ifaces = {i1}
    Objs = {o1}
    Msgs <- MsgsShortDns
    MaxMsgs = 1
    Capacity = 16
    InitLists = {NoValue}
    MetricVals = {5}
    BlockMetric = 3000
    MayFail = FALSE
    MayCrash = FALSE
    NoValue = NoValue
    NoMsg = NoMsg
SPECIFICATION Spec
PROPERTIES
    ShortMessageChangesNothing
CHECK_DEADLOCK FALSE
