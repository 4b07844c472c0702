SPECIFICATION Spec
CONSTANTS
    Candidate = {n1, n2}
    NoVote = NoVote
    Unreadable = Unreadable
    MaxTerm = 2
    MaxLen = 3
    MaxPlaces = 4
SYMMETRY Symmetry
INVARIANTS ReadsWhatWasAppended LastLogTermIsLast
PROPERTIES PromisesKept
