SPECIFICATION Spec
CONSTANTS
    c1 = c1
    c2 = c2
    Nil = Nil
    Stub = Stub
    None = None
    Foreign = Foreign
    Peer = {n2, n3}
    Request <- TwoWrites
    CookieSpace = 8
    DurableRsm = FALSE
    MaxLogLen = 3
    MaxBatch = 2
    MaxHeld = 1
    MaxStepDowns = 2
    MaxRestarts = 0
INVARIANTS AnsweredWriteWasApplied
\* A failed assertion stops the process, and restarts are bounded.
CHECK_DEADLOCK FALSE
