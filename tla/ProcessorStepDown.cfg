SPECIFICATION Spec
CONSTANTS
    c1 = c1
    c2 = c2
    Nil = Nil
    Stub = Stub
    None = None
    Foreign = Foreign
    Peer = {n2, n3}
    Request <- WriteAndRead
    CookieSpace = 3
    DurableRsm = FALSE
    MaxLogLen = 3
    MaxBatch = 1
    MaxHeld = 2
    MaxStepDowns = 2
    MaxRestarts = 1
INVARIANTS TypeOK RsmFollowsLog ReadsSeeExecuted CookiesAgree RelayedToAsker NoneParkedUnderLeader WriteAnsweredOnce AnswersOfTheirIndex
PROPERTIES FailuresHaveCause
\* A failed assertion stops the process, and restarts are bounded.
CHECK_DEADLOCK FALSE
