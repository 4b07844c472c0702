SPECIFICATION HistorySpec
CONSTANTS
    Server = {n1}
    Value = {v1, v2}
    Nil = Nil
    Stub = Stub
    BatchLimit = 1024
    BackOffLimit = 32768
    MaxElections = 3
    MaxAppends = 0
    MaxLogLen = 5
SYMMETRY Symmetry
VIEW View
PROPERTIES ImplementsReplicatedLog
\* The bounds stop the system: no election, append or message is left.
CHECK_DEADLOCK FALSE
