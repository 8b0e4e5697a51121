\* Three clients against a wait limit of three handles, nothing failing.
CONSTANTS
    Threads = {1, 2, 3}
    IoEvent = IoEvent
    ExitEvent = ExitEvent
    Kinds = {address}
    MaxWait = 3
    MaxClients = 3
    MayFail = FALSE
SPECIFICATION Spec
INVARIANTS
    NothingLeftBehind
CHECK_DEADLOCK FALSE
