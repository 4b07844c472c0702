SPECIFICATION RebootedSpec
CONSTANTS
    Server = {n1, n2, n3}
    Value = {v1}
    Nil = Nil
    Stub = Stub
    BatchLimit = 1024
    BackOffLimit = 2
    MaxElections = 2
    MaxAppends = 4
    MaxLogLen = 2
SYMMETRY Symmetry
VIEW View
INVARIANTS TypeOK LogMatching StateMachineSafety LeaderCompleteness MatchIndexSound NextIndexInRange
PROPERTIES GrowsWithinTerm ImplementsReplicatedLog
\* The bounds stop the system: no election, append or message is left.
CHECK_DEADLOCK FALSE
