\* WINS, ring buffers, DHCP, MTU, neighbour flush, RegisterDNS, name
\* servers of both families and malformed messages of one session.
CONSTANTS
    s1 = s1  s2 = s2  o1 = o1  o2 = o2  i1 = i1  i2 = i2
    Sessions = {s1}
    Ifaces = {i1}
    Objs = {o1}
    Msgs <- MsgsOtherServers
    MaxMsgs = 3
    Capacity = 16
    InitLists = {NoValue}
    MetricVals <- MetricsNoAuto
    BlockMetric = 3000
    MayFail = TRUE
    MayCrash = FALSE
    NoValue = NoValue
    NoMsg = NoMsg
SPECIFICATION Spec
INVARIANTS
    SessionResourcesRecorded
    NameServersRecorded
CHECK_DEADLOCK FALSE
