---------------------------- MODULE RaftQuorums ----------------------------
(***************************************************************************)
(* The two quorum rules of TRaft: how many votes make a leader (MinVotes,  *)
(* computed by the constructor) and which log index CommitAdvance takes    *)
(* for committed (an element of the sorted array of match indices).        *)
(* For an even number of servers the two quorums have different sizes.     *)
(***************************************************************************)
EXTENDS Naturals, FiniteSets

MaxOf(a, b) == IF a >= b THEN a ELSE b
MinOf(a, b) == IF a <= b THEN a ELSE b

\* MinVotes((nodes.size()+2+nodes.size()%2)/2), where nodes are the n-1 peers.
MinVotes(n) == ((n - 1) + 2 + ((n - 1) % 2)) \div 2

\* Indices[nservers / 2] of the array sorted in ascending order, for the
\* servers S with index idx[p] each: at most n/2 servers are below it and more
\* than n/2 are not above it.
SortedMiddleLargest(S, idx) ==   \* broken variant
    CHOOSE i \in {idx[p] : p \in S} : \A p \in S : idx[p] <= i
SortedMiddle(S, idx) ==
    LET half == Cardinality(S) \div 2
    IN  CHOOSE i \in {idx[p] : p \in S} :
            /\ Cardinality({p \in S : idx[p] < i}) <= half
            /\ Cardinality({p \in S : idx[p] <= i}) > half

\* The number of servers, the leader among them, that hold the index
\* SortedMiddle takes: those at positions n/2 .. n-1 of the sorted array.
CommitQuorumSize(n) == n - n \div 2
=============================================================================
