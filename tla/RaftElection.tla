---------------------------- MODULE RaftElection ----------------------------
(***************************************************************************)
(* Why Raft elects at most one leader per term: the inductive invariant    *)
(* behind ElectionSafety.  ElectionSafety alone is not inductive, since a  *)
(* state may hold votes that elect a second leader in the next step.       *)
(***************************************************************************)
EXTENDS Raft

Granted == {m \in msgs : m.type = "RequestVoteResponse" /\ m.granted}

\* Who gave s its vote for term t, s not counted.
GrantedTo(s, t) == {m.src : m \in {n \in Granted : n.dst = s /\ n.term = t}}

\* The servers whose votes make s a leader of term t.
Electors(s, t) == GrantedTo(s, t) \cup {s}

\* No message goes back to its sender.
NoneToItself == \A m \in msgs : m.src # m.dst

\* A vote that was sent is remembered by whoever cast it until its term ends,
\* crashes included.
VotesRemembered ==
    \A m \in Granted :
        /\ m.term <= currentTerm[m.src]
        /\ m.term = currentTerm[m.src] => votedFor[m.src] = m.dst

\* Nobody voted for two servers in one term.
OneVotePerTerm ==
    \A m, n \in Granted : m.src = n.src /\ m.term = n.term => m.dst = n.dst

\* Who stands for election, or won it, voted for itself.
VotedForItself ==
    \A s \in Server : stateName[s] \in {"CANDIDATE", "LEADER"} => votedFor[s] = s

\* A candidate counts nothing but votes cast for it, in its term.
VotesWereGranted ==
    \A s \in Server :
        stateName[s] = "CANDIDATE" => votes[s] \subseteq GrantedTo(s, currentTerm[s])

\* A quorum voted for each leader.
LeadersWereElected ==
    \A s \in Server :
        stateName[s] = "LEADER" =>
            Cardinality(Electors(s, currentTerm[s])) >= MinVotes(Nservers)

\* Votes cast and votes counted agree, in every state: what OnRequestVote
\* of a request and of a response, the promotion in ProcessTimeout, the term
\* check of Process and a restart each have to keep, whichever comes first.
ElectionInv ==
    /\ NoneToItself
    /\ VotesRemembered
    /\ OneVotePerTerm
    /\ VotedForItself
    /\ VotesWereGranted
    /\ LeadersWereElected
=============================================================================
