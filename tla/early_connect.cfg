\* One client, nothing failing: the client may connect before the
\* dispatcher calls ConnectNamedPipe.
CONSTANTS
    Threads = {1, 2}
    IoEvent = IoEvent
    ExitEvent = ExitEvent
    Kinds = {address}
    MaxWait = 3
    MaxClients = 1
    MayFail = FALSE
SPECIFICATION Spec
PROPERTIES
    ClientServed
CHECK_DEADLOCK FALSE
