\* The accept loop with three clients, a wait limit they reach, and
\* failing pipe instances, threads and list growth.
CONSTANTS
    Threads = {1, 2, 3}
    IoEvent = IoEvent
    ExitEvent = ExitEvent
    Kinds = {address}
    MaxWait = 3
    MaxClients = 3
    MayFail = TRUE
SPECIFICATION Spec
INVARIANTS
    ExitAfterSessions
PROPERTIES
    StopStopsService
CHECK_DEADLOCK FALSE
