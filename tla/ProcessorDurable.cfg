SPECIFICATION Spec
CONSTANTS
    c1 = c1
    c2 = c2
    Nil = Nil
    Stub = Stub
    None = None
    Foreign = Foreign
    Peer = {n2, n3}
    Request <- TwoWrites
    CookieSpace = 8
    DurableRsm = TRUE
    MaxLogLen = 4
    MaxBatch = 1
    MaxHeld = 1
    MaxStepDowns = 0
    MaxRestarts = 1
INVARIANTS ExecutedOnce
\* A failed assertion stops the process, and restarts are bounded.
CHECK_DEADLOCK FALSE
