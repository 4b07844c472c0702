SPECIFICATION QuietSpec
CONSTANTS
    c1 = c1
    c2 = c2
    Nil = Nil
    Stub = Stub
    None = None
    Foreign = Foreign
    Peer = {n2}
    Request <- ReadsAndWrite
    CookieSpace = 8
    DurableRsm = FALSE
    MaxLogLen = 3
    MaxBatch = 1
    MaxHeld = 1
    MaxStepDowns = 1
    MaxRestarts = 0
PROPERTIES WaitingIsAnswered
\* A failed assertion stops the process, and restarts are bounded.
CHECK_DEADLOCK FALSE
