SPECIFICATION Spec
CONSTANTS
    Reader = n1
    Server = {n1, n2, n3, n4, n5}
    Read = {r1}
    MaxSeqno = 4
SYMMETRY Symmetry
INVARIANTS NoStaleRead
\* In the end every server is in the second term and every read was asked for.
CHECK_DEADLOCK FALSE
