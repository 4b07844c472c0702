----------------------------- MODULE Deadlines -----------------------------
(***************************************************************************)
(* When TRaft acts: ElectionDue, HeartbeatDue and RpcDue on every server   *)
(* of a cluster, against a clock.  Module Raft lets what waits for a       *)
(* deadline happen at any time; here it is the log that is abstracted, to  *)
(* whether a server has entries and which peers are behind.                *)
(*                                                                         *)
(* A deadline is the time left until it: at 0 or less it is due.  Idle     *)
(* looks at the deadlines at least every Poll ticks.  A message takes from *)
(* 1 to Delay ticks and keeps the order of its connection.  What a server  *)
(* does in a tick thus reaches no other server in the same tick, so the    *)
(* servers take turns: every other order of their steps ends in the same   *)
(* state.  `server[s]` holds                                               *)
(*   up                      the process runs                              *)
(*   role, votes             StateName, Votes                              *)
(*   term, votedFor, hasLog  what IState keeps                             *)
(*   electionDue, heartbeatDue, rpcDue                                     *)
(*   behind                  the peers with NextIndex <= LastLogIndex      *)
(*   heard                   the term it last took AppendEntries of (a     *)
(*                           history variable)                             *)
(***************************************************************************)
EXTENDS Integers, FiniteSets, Sequences, RaftQuorums

CONSTANTS
    Servers,       \* their number
    Election,      \* TTimeout::Election
    Rpc,           \* TTimeout::Rpc
    Draws,         \* what MakeElection may add to the time: 1 to 2 times Election
    Poll,          \* at most this between two turns of Idle
    Delay,         \* at most this from Send to Process
    Gap,           \* at least this between the first starts of two servers
    InTime,        \* a leader is there this long after a majority started
    MaxTerm,       \* bound: terms
    MaxStops,      \* bound: servers that are restarted
    MaxQueue,      \* bound: messages a peer has for a server when that starts
    MaxMissed      \* bound: the same when that starts again

ASSUME DeadlineAssumption ==
    /\ Servers \in Nat \ {0}
    /\ Draws \subseteq Election..2 * Election
    /\ {Election, Rpc, Poll, Gap, InTime, MaxStops, MaxQueue, MaxMissed} \subseteq Nat
    /\ {Delay, MaxTerm} \subseteq Nat \ {0}

VARIABLES
    server,
    channel,       \* channel[s][p]: messages from s to p, with their age
    turn,          \* the server whose steps in this tick come now
    first,         \* the first number of rand_, the same with every server (Seed)
    sinceStart,    \* time since a server started, counted up to Gap
    leaderless,    \* time without any leader so far since a majority started
    stopped        \* servers that were stopped

vars == <<server, channel, turn, first, sinceStart, leaderless, stopped>>

Infinite == 2 * Election + Rpc   \* ITimeSource::Max
Due(d) == d <= 0
\* Servers are numbered in the order of their first start.
Server == 1..Servers
Nil == 0
Peers(s) == Server \ {s}
ForPeers(s, x) == [p \in Peers(s) |-> x]

-----------------------------------------------------------------------------
(* Messages. *)

Mail(type, v, ok) == [type |-> type, term |-> v.term, ok |-> ok, age |-> 0]
CreateVote(v)          == Mail("RequestVoteRequest", v, v.hasLog)
CreateAppendEntries(v) == Mail("AppendEntriesRequest", v, TRUE)

-----------------------------------------------------------------------------
(* ProcessTimeout.  The operators go from a server's state v to its next.  *)

Stand(s, v, draw) ==
    [v EXCEPT !.role = "CANDIDATE", !.term = @ + 1, !.votedFor = s,
              !.votes = {}, !.electionDue = draw, !.heartbeatDue = ForPeers(s, 0),
              !.rpcDue = ForPeers(s, 0), !.behind = {}]

\* The stub of the new term is appended: everybody is behind.
LeadTrackingSelf(s, v) ==   \* broken variant
    [v EXCEPT !.role = "LEADER", !.votes = {}, !.hasLog = TRUE, !.electionDue = Infinite,
              !.heartbeatDue = ForPeers(s, 0), !.rpcDue = ForPeers(s, Infinite),
              !.behind = Server]
Lead(s, v) ==
    [v EXCEPT !.role = "LEADER", !.votes = {}, !.hasLog = TRUE,
              !.electionDue = Infinite, !.heartbeatDue = ForPeers(s, 0),
              !.rpcDue = ForPeers(s, Infinite), !.behind = Peers(s)]

\* LeaderTimeout and CandidateTimeout: the peers that are sent a request.
Overdue(s, v) ==
    CASE v.role = "LEADER" -> {p \in Peers(s) : \/ Due(v.heartbeatDue[p])
                                                \/ (p \in v.behind /\ Due(v.rpcDue[p]))}
      [] v.role = "CANDIDATE" -> {p \in Peers(s) : Due(v.rpcDue[p])}
      [] OTHER -> {}

HeartbeatElection == Election   \* broken variant
Heartbeat == Election \div 2

Rearmed(s, v) ==
    [v EXCEPT !.rpcDue = [p \in Peers(s) |-> IF p \in Overdue(s, v) THEN Rpc ELSE @[p]],
              !.heartbeatDue = [p \in Peers(s) |->
                  IF v.role = "LEADER" /\ p \in Overdue(s, v) THEN Heartbeat ELSE @[p]]]

ElectedByPeers(s, v, draw) ==   \* broken variant
    LET w == IF v.role # "LEADER" /\ Due(v.electionDue) THEN Stand(s, v, draw) ELSE v
    IN  IF w.role = "CANDIDATE" /\ Cardinality(w.votes) >= MinVotes(Servers)
        THEN Lead(s, w) ELSE w
Elected(s, v, draw) ==
    LET w == IF v.role # "LEADER" /\ Due(v.electionDue) THEN Stand(s, v, draw) ELSE v
    IN  IF w.role = "CANDIDATE" /\ Cardinality(w.votes) + 1 >= MinVotes(Servers)
        THEN Lead(s, w) ELSE w

\* What server s sends in ProcessTimeout, added to what is in out already.
Requests(s, v, out) ==
    [p \in Server |->
        IF p \notin Overdue(s, v) THEN out[p]
        ELSE Append(out[p], IF v.role = "LEADER" THEN CreateAppendEntries(v)
                                                 ELSE CreateVote(v))]

ProcessTimeout(s, v, out, draw) ==
    LET w == Elected(s, v, draw)
    IN  /\ w.term <= MaxTerm
        /\ server'  = [server EXCEPT ![s] = Rearmed(s, w)]
        /\ channel' = [channel EXCEPT ![s] = Requests(s, w, out)]

-----------------------------------------------------------------------------
(* Process. *)

TermCheckKeepingMax(v, term, draw) ==   \* broken variant
    IF term <= v.term THEN v
    ELSE [v EXCEPT !.term = term, !.votedFor = Nil, !.role = "FOLLOWER",
                   !.electionDue = IF Due(@) THEN draw ELSE @]
TermCheck(v, term, draw) ==
    IF term <= v.term THEN v
    ELSE [v EXCEPT !.term = term, !.votedFor = Nil, !.role = "FOLLOWER",
                   !.electionDue = IF Due(@) \/ @ = Infinite THEN draw ELSE @]

\* Whether a candidate's log is up to date with a voter's: yes if the voter has
\* none, no if only the candidate has none, else it depends on what they hold.
UpToDate(v, m) == IF ~v.hasLog THEN {TRUE} ELSE IF ~m.ok THEN {FALSE} ELSE BOOLEAN

\* The outcomes of the handlers: the next state and the reply, if there is one.
OnVoteRequest(p, v, m, draw) ==
    {<<IF granted THEN [v EXCEPT !.electionDue = draw, !.votedFor = p] ELSE v,
       <<Mail("RequestVoteResponse", v, granted)>> >> :
     granted \in IF m.term = v.term /\ v.votedFor \in {Nil, p} THEN UpToDate(v, m)
                 ELSE {FALSE}}

OnVoteResponse(p, v, m) ==
    {<<IF m.ok /\ m.term = v.term
       THEN [v EXCEPT !.votes = @ \cup {p}, !.rpcDue[p] = Infinite] ELSE v, << >> >>}

OnAppendRequest(p, v, m, draw) ==
    IF m.term < v.term
    THEN {<<v, <<Mail("AppendEntriesResponse", v, FALSE)>> >>}
    ELSE {<<[v EXCEPT !.heard = v.term, !.electionDue = draw, !.role = "FOLLOWER",
                      !.hasLog = @ \/ fits],
            <<Mail("AppendEntriesResponse", v, fits)>> >> : fits \in BOOLEAN}

\* Where NextIndex moves depends on the logs: the peer is up to date or not.
OnAppendResponse(p, v, m) ==
    {<<IF m.term = v.term THEN [v EXCEPT !.rpcDue[p] = 0, !.behind = b] ELSE v, << >> >> :
        b \in {v.behind \ {p}, v.behind \cup {p}}}

Handle(p, v, m, draw) ==
    CASE m.type = "RequestVoteRequest" -> OnVoteRequest(p, v, m, draw)
      [] m.type = "AppendEntriesRequest" -> OnAppendRequest(p, v, m, draw)
      [] m.type = "RequestVoteResponse" /\ v.role = "CANDIDATE" -> OnVoteResponse(p, v, m)
      [] m.type = "AppendEntriesResponse" /\ v.role = "LEADER" -> OnAppendResponse(p, v, m)
      [] OTHER -> {<<v, << >> >>}

-----------------------------------------------------------------------------
(* Actions. *)

\* The constructor leaves ElectionDue at the epoch.
Fresh(s) ==
    [up |-> FALSE, role |-> "FOLLOWER", votes |-> {}, term |-> 1, heard |-> 0,
     votedFor |-> Nil, hasLog |-> FALSE, electionDue |-> 0,
     heartbeatDue |-> ForPeers(s, 0), rpcDue |-> ForPeers(s, 0), behind |-> {}]

Init ==
    /\ server = [s \in Server |-> Fresh(s)]
    /\ channel = [s \in Server |-> [p \in Server |-> << >>]]
    /\ turn = 1
    /\ first \in Draws
    /\ sinceStart = Gap /\ leaderless = 0 /\ stopped = {}

Majority == 2 * Cardinality({s \in Server : server[s].up}) > Servers
HadLeader == \E s \in Server : server[s].hasLog

\* A process starts, and Serve runs Idle at once.
Start(s) ==
    /\ turn = s /\ ~server[s].up
    /\ \A p \in 1..s - 1 : server[p].up \/ p \in stopped
    /\ s \in stopped \/ sinceStart >= Gap
    /\ ProcessTimeout(s, [server[s] EXCEPT !.up = TRUE], channel[s], first)
    /\ sinceStart' = 0
    /\ UNCHANGED <<turn, first, leaderless, stopped>>

\* A process ends, and with it its queues and connections; of what it sent, a
\* part may be on its way.
Stop(s) ==
    /\ turn = s /\ server[s].up
    /\ Cardinality(stopped) < MaxStops
    /\ stopped' = stopped \cup {s}
    /\ server' = [server EXCEPT ![s] = [Fresh(s) EXCEPT
           !.term = server[s].term, !.votedFor = server[s].votedFor,
           !.hasLog = server[s].hasLog]]
    /\ \E k \in {f \in [Peers(s) -> 0..1] : \A p \in Peers(s) : f[p] <= Len(channel[s][p])} :
          channel' = [p \in Server |-> [q \in Server |->
              IF q = s THEN << >>
              ELSE IF p = s THEN SubSeq(channel[p][q], 1, k[q]) ELSE channel[p][q]]]
    /\ UNCHANGED <<turn, first, sinceStart, leaderless>>

\* What is sent to a server that was stopped may hit its old connection, until
\* the peer has connected again, Gap after the start at the latest.
Lose(s, p) ==
    /\ turn = p /\ p \in stopped
    /\ ~server[p].up \/ sinceStart < Gap
    /\ channel[s][p] # << >>
    /\ channel' = [channel EXCEPT ![s][p] = Tail(@)]
    /\ UNCHANGED <<server, turn, first, sinceStart, leaderless, stopped>>

\* The deadlines Idle finds due at some time.
Waits(s) ==
    LET v == server[s] IN
    CASE v.role = "FOLLOWER"  -> {v.electionDue}
      [] v.role = "CANDIDATE" -> {v.electionDue} \cup {v.rpcDue[p] : p \in Peers(s)}
      [] v.role = "LEADER"    -> {v.heartbeatDue[p] : p \in Peers(s)}
                                 \cup {v.rpcDue[p] : p \in v.behind}

Idle(s, draw) ==
    /\ turn = s /\ server[s].up
    /\ \E d \in Waits(s) : Due(d)
    /\ ProcessTimeout(s, server[s], channel[s], draw)
    /\ UNCHANGED <<turn, first, sinceStart, leaderless, stopped>>

\* InboundConnection: Process, then ProcessTimeout.
Receive(p, s, draw) ==
    /\ turn = s /\ server[s].up
    /\ channel[p][s] # << >>
    /\ LET m == Head(channel[p][s])
       IN  /\ m.age >= 1
           /\ \E outcome \in Handle(p, TermCheck(server[s], m.term, draw), m, draw) :
                 LET w == Elected(s, outcome[1], draw)
                     out == [channel[s] EXCEPT ![p] = @ \o outcome[2]]
                 IN  /\ w.term <= MaxTerm
                     /\ server'  = [server EXCEPT ![s] = Rearmed(s, w)]
                     /\ channel' = [channel EXCEPT ![s] = Requests(s, w, out), ![p][s] = Tail(@)]
    /\ UNCHANGED <<turn, first, sinceStart, leaderless, stopped>>

\* InboundConnection: a leader appends a client's write, then ProcessTimeout.
Write(s) ==
    /\ turn = s /\ server[s].up /\ server[s].role = "LEADER"
    /\ server[s].behind # Peers(s)
    /\ ProcessTimeout(s, [server[s] EXCEPT !.behind = Peers(s)], channel[s], Election)
    /\ UNCHANGED <<turn, first, sinceStart, leaderless, stopped>>

\* Neither Idle nor a message of s would be late.
InPace(s) ==
    IF server[s].up
    THEN /\ \A d \in Waits(s) : d > -Poll
         /\ \A p \in Peers(s) : \A i \in 1..Len(channel[p][s]) : channel[p][s][i].age < Delay
    ELSE \A p \in Peers(s) : Len(channel[p][s]) < IF s \in stopped THEN MaxMissed ELSE MaxQueue

Pass ==
    /\ turn < Servers /\ InPace(turn)
    /\ turn' = turn + 1
    /\ UNCHANGED <<server, channel, first, sinceStart, leaderless, stopped>>

Later(d) == IF d = Infinite THEN d ELSE MaxOf(d - 1, -Poll)
Tick ==
    /\ turn = Servers /\ InPace(turn)
    /\ turn' = 1
    /\ server' = [s \in Server |-> [server[s] EXCEPT
           !.electionDue = Later(@),
           !.heartbeatDue = [p \in Peers(s) |-> Later(@[p])],
           !.rpcDue = [p \in Peers(s) |-> Later(@[p])]]]
    /\ channel' = [s \in Server |-> [p \in Server |-> [i \in 1..Len(channel[s][p]) |->
           [channel[s][p][i] EXCEPT !.age = IF server[p].up THEN @ + 1 ELSE 1]]]]
    /\ sinceStart' = MinOf(sinceStart + 1, Gap)
    /\ leaderless' = IF Majority /\ ~HadLeader /\ stopped = {}
                     THEN MinOf(leaderless + 1, InTime + 1) ELSE 0
    /\ UNCHANGED <<first, stopped>>

Next ==
    \/ \E s \in Server : Start(s) \/ Stop(s) \/ Write(s)
    \/ \E s, p \in Server : Lose(s, p)
    \/ \E s \in Server, draw \in Draws : Idle(s, draw)
    \/ \E s \in Server, draw \in Draws : \E p \in Peers(s) : Receive(p, s, draw)
    \/ Pass
    \/ Tick

Spec == Init /\ [][Next]_vars

-----------------------------------------------------------------------------
(* Properties. *)

\* Every variable holds values of its type, and no deadline is further away
\* than the code ever sets it: two election timeouts, Rpc, or Max.
TypeOK ==
    LET Times == -Poll..Infinite
        Messages == [type : {"RequestVoteRequest", "RequestVoteResponse",
                             "AppendEntriesRequest", "AppendEntriesResponse"},
                     term : 1..MaxTerm, ok : BOOLEAN, age : 0..Delay]
        TypeOKOf(s, v) ==
            /\ v.up \in BOOLEAN /\ v.hasLog \in BOOLEAN
            /\ v.role \in {"FOLLOWER", "CANDIDATE", "LEADER"}
            /\ v.votedFor \in Server \cup {Nil}
            /\ v.term \in 1..MaxTerm /\ v.heard \in 0..v.term
            /\ v.votes \subseteq Peers(s) /\ v.behind \subseteq Peers(s)
            /\ v.electionDue \in Times
            /\ v.heartbeatDue \in [Peers(s) -> Times]
            /\ v.rpcDue \in [Peers(s) -> Times]
    IN  /\ \A s \in Server : TypeOKOf(s, server[s])
        /\ \A s, p \in Server : channel[s][p] \in Seq(Messages)
        /\ turn \in Server /\ first \in Draws /\ sinceStart \in 0..Gap
        /\ leaderless \in 0..InTime + 1 /\ stopped \subseteq Server

\* Whoever is not leader stands for election some day: a leader, which has put
\* its ElectionDue at Max, gets a deadline on every way to step down, the newer
\* term of a response included.
FollowerHasDeadline ==
    \A s \in Server : server[s].role # "LEADER" => server[s].electionDue <= 2 * Election

\* Once a follower has heard from the leader of its term, its deadline does not
\* pass while that leader runs: a heartbeat every half Election leaves time for
\* the turns of Idle and for the message, whatever responses and clients do to
\* HeartbeatDue and RpcDue meanwhile.  (What is sent to a server that was
\* restarted may be lost, the heartbeats included.)
LeaderKeepsFollowers ==
    \A l, f \in Server :
        /\ server[l].role = "LEADER" /\ server[f].role = "FOLLOWER"
        /\ server[f].heard = server[l].term /\ server[f].term = server[l].term
        /\ f \notin stopped
        => ~Due(server[f].electionDue)

\* Servers that draw the same random numbers elect their first leader InTime
\* after a majority of them runs, if no two start within Gap: it is the time
\* between their starts that breaks the tie, nothing in the code.
LeaderInTime == leaderless <= InTime
=============================================================================
