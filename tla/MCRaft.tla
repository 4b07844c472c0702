------------------------------- MODULE MCRaft -------------------------------
(***************************************************************************)
(* Finite instances of Raft for TLC.                                       *)
(***************************************************************************)
EXTENDS RaftHistory, RaftElection, TLC

Symmetry == Permutations(Server) \cup Permutations(Value)

\* A response nobody will ever act on: of a term its receiver has left, or
\* no leader, no candidate or no news for it.  (A server leads a term at most
\* once, so a response to a leader that stepped down stays without effect.)
Spent(m) ==
    /\ m.type \in {"RequestVoteResponse", "AppendEntriesResponse"}
    /\ m.term <= currentTerm[m.dst]
    /\ \/ m.term < currentTerm[m.dst]
       \/ m.type = "AppendEntriesResponse" /\ stateName[m.dst] # "LEADER"
       \/ m.type = "RequestVoteResponse" /\ stateName[m.dst] # "CANDIDATE"
       \/ m.type = "RequestVoteResponse" /\ (~m.granted \/ m.src \in votes[m.dst])

\* Two states that differ in nothing an action can read are one state for
\* TLC: the cursors of a server that does not lead, the votes of one that is
\* no candidate, leaderId (which only TRequestProcessor reads), a batch size
\* or back-off of 0 instead of 1, and spent responses.
Leading(s, f) == IF stateName[s] = "LEADER" THEN f ELSE << >>
AtLeastOne(f) == [p \in Server |-> MaxOf(1, f[p])]
View ==
    <<durable, stateName, commitIndex, committed,
      [s \in Server |-> IF stateName[s] = "CANDIDATE" THEN votes[s] ELSE {}],
      [s \in Server |-> Leading(s, <<nextIndex[s], matchIndex[s],
                                     AtLeastOne(batchSize[s]), AtLeastOne(backOff[s])>>)],
      {m \in msgs : ~Spent(m)}>>

\* As View, for properties of the votes that were cast, none of which is
\* forgotten, and of what the code above TRaft reads.
ElectionView == <<View, Granted, leaderId, reached>>

\* Three servers started again after two leaders, a of term 2 and b of term 3,
\* each crashed before it replicated anything.  b was elected by the third
\* server; a was refused a vote in term 3.
StubOf(t) == [term |-> t, value |-> Stub]
Rebooted ==
    \E a, b \in Server :
        /\ a # b
        /\ currentTerm = [s \in Server |-> 3]
        /\ votedFor = [s \in Server |-> IF s = a THEN Nil ELSE b]
        /\ log = [s \in Server |-> IF s = a THEN <<StubOf(2)>>
                                   ELSE IF s = b THEN <<StubOf(3)>> ELSE << >>]
        /\ Started
        /\ NothingRecorded

\* From an empty state or from conflicting logs, without further crashes.
RebootedSpec == (HistoryInit \/ Rebooted) /\ [][HistoryStep]_historyVars
=============================================================================
