---------------------------- MODULE MCDeadlines ----------------------------
(* Deadlines for TLC. *)
EXTENDS Deadlines

\* What a role does not use is set anew before it is used again: Stand, Lead
\* and OnAppendRequest write all that the role they lead to reads.
Used(s) ==
    LET v == server[s]
        Leads == v.role = "LEADER"
    IN  [v EXCEPT !.votes = IF v.role = "CANDIDATE" THEN @ ELSE {},
                  !.heard = IF v.role = "FOLLOWER" THEN @ ELSE 0,
                  !.behind = IF Leads THEN @ ELSE {},
                  !.heartbeatDue = IF Leads THEN @ ELSE ForPeers(s, 0),
                  !.rpcDue = IF v.role = "FOLLOWER" THEN ForPeers(s, 0) ELSE @]

AllUp == \A s \in Server : server[s].up
View == <<[s \in Server |-> Used(s)], channel, turn, leaderless, stopped,
          IF AllUp /\ Cardinality(stopped) = MaxStops THEN 0 ELSE first,
          IF AllUp /\ stopped = {} THEN Gap ELSE sinceStart>>
=============================================================================
