SPECIFICATION Spec
CONSTANTS
    Servers = 3
    Election = 6
    Rpc = 12
    Draws = {6, 9}
    Poll = 1
    Delay = 1
    Gap = 3
    InTime = 9
    MaxTerm = 4
    MaxStops = 1
    MaxQueue = 3
    MaxMissed = 1
VIEW View
INVARIANTS
    TypeOK
    FollowerHasDeadline
    LeaderKeepsFollowers
    LeaderInTime
\* The bound on terms stops the system.
CHECK_DEADLOCK FALSE
