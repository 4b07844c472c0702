SPECIFICATION HistorySpec
CONSTANTS
    Server = {n1, n2, n3}
    Value = {v1}
    Nil = Nil
    Stub = Stub
    BatchLimit = 1024
    BackOffLimit = 2
    MaxElections = 2
    MaxAppends = 0
    MaxLogLen = 2
SYMMETRY Symmetry
VIEW ElectionView
INVARIANTS ElectionInv ElectionSafety LeaderHasCommitted
PROPERTIES ImplementsReplicatedLog ServersAreReplicas
\* The bounds stop the system: no election, append or message is left.
CHECK_DEADLOCK FALSE
