---------------------------- MODULE RaftHistory ----------------------------
(***************************************************************************)
(* Raft with two history variables: the longest sequence any server ever   *)
(* took for committed, and how far each server ever did.  Commit indices   *)
(* are lost in crashes, so no function of the state alone gives them.      *)
(* With them Raft implements ReplicatedLog, and each server a Replica.     *)
(***************************************************************************)
EXTENDS Raft

VARIABLES committed, reached

historyVars == <<vars, committed, reached>>

Known(s) == Prefix(log[s], commitIndex[s])

\* The longer of what was committed before the step and what a server takes
\* for committed after it.
RecordCommitted ==
    LET all == {committed} \cup {Known(s)' : s \in Server}
    IN  committed' = CHOOSE l \in all : \A m \in all : Len(l) >= Len(m)

RecordReached == reached' = [s \in Server |-> MaxOf(reached[s], commitIndex'[s])]

NothingRecorded == committed = << >> /\ reached = [s \in Server |-> 0]

HistoryInit == Init /\ NothingRecorded
HistoryNext == Next /\ RecordCommitted /\ RecordReached
HistoryStep == Step /\ RecordCommitted /\ RecordReached

HistorySpec == HistoryInit /\ [][HistoryNext]_historyVars

\* The abstract log: a committed entry stays committed, in its place, however
\* many servers crash or lead later, and a server's commit index only moves
\* forward along it until the server restarts.
Abstract == INSTANCE ReplicatedLog WITH known <- [s \in Server |-> Known(s)]

ImplementsReplicatedLog == Abstract!LogSpec

\* The part of a server's TRaft that TRequestProcessor looks at.
ReplicaOf(s) == [role |-> stateName[s], leaderId |-> leaderId[s], log |-> log[s],
                 commitIndex |-> commitIndex[s]]

Rep == INSTANCE Replica

\* To the code above it every server behaves as Replica says: a server that
\* does not follow knows no leader, an entry is never replaced once the server
\* took it for committed, even if a restart made it forget that, and the commit
\* index stays within the log.
ServersAreReplicas ==
    [][\A s \in Server :
          /\ ReplicaOf(s)' = ReplicaOf(s) \/ Rep!ReplicaStep(ReplicaOf(s), ReplicaOf(s)')
          /\ Rep!Agree(log[s], log[s]', reached[s])]_vars

\* A new leader has every entry that was ever committed, even one whose
\* commit no running server remembers (UpToDate, the two quorums).
LeaderHasCommitted ==
    \A s \in Server :
        stateName[s] = "LEADER" /\ (\A t \in Server : currentTerm[t] <= currentTerm[s])
            => /\ Len(committed) <= Len(log[s])
               /\ Prefix(log[s], Len(committed)) = committed
=============================================================================
