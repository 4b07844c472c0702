--------------------------- MODULE DeadlinesProofs ---------------------------
(***************************************************************************)
(* Theorems about Deadlines, for any number of servers and any times: its  *)
(* types; that whoever does not lead has a deadline; that no deadline of a *)
(* follower passes while its leader runs, if an election timeout is longer *)
(* than a heartbeat, a turn of Idle and the way of a message; and, for two *)
(* or three servers that start far enough apart, that one leads in time.   *)
(*                                                                         *)
(* The third needs that a term has one leader.  Who a server voted for is  *)
(* forgotten with the term, so the invariant says that there is a record   *)
(* `cast` of all votes that fits the state: cast[q][t] is who q voted for  *)
(* in term t.                                                              *)
(***************************************************************************)
EXTENDS Deadlines, FiniteSetTheorems, SequenceTheorems, TLAPS

-----------------------------------------------------------------------------
(* The invariant. *)

Times == -Poll..Infinite
Messages == [type : {"RequestVoteRequest", "RequestVoteResponse",
                     "AppendEntriesRequest", "AppendEntriesResponse"},
             term : 1..MaxTerm, ok : BOOLEAN, age : 0..Delay]
NewMessages == {m \in Messages : m.age = 0}

Fields == {"up", "role", "votes", "term", "heard", "votedFor", "hasLog",
           "electionDue", "heartbeatDue", "rpcDue", "behind"}

\* The types of a server's state, up to the bound on terms.
Typed(s, v) ==
    /\ DOMAIN v = Fields
    /\ v.up \in BOOLEAN /\ v.hasLog \in BOOLEAN
    /\ v.role \in {"FOLLOWER", "CANDIDATE", "LEADER"}
    /\ v.votedFor \in Server \cup {Nil}
    /\ v.term \in Nat \ {0} /\ v.heard \in Nat /\ v.heard <= v.term
    /\ v.votes \subseteq Peers(s) /\ v.behind \subseteq Peers(s)
    /\ v.electionDue \in Times
    /\ v.heartbeatDue \in [Peers(s) -> Times]
    /\ v.rpcDue \in [Peers(s) -> Times]

\* What else a server's state alone must satisfy: a deadline, unless it leads;
\* heartbeats that are not put off; its own vote, if it stands.
Sound(s, v) ==
    /\ v.electionDue > 2 * Election => v.role = "LEADER" /\ v.electionDue = Infinite
    /\ v.role = "LEADER" => \A p \in Peers(s) : v.heartbeatDue[p] <= Heartbeat
    /\ v.role = "CANDIDATE" => v.heard < v.term
    /\ v.role # "FOLLOWER" => v.votedFor = s

Resting(v) == v.role = "FOLLOWER" /\ v.heard = 0

ServersInv ==
    /\ DOMAIN server = Server
    /\ \A s \in Server :
          /\ Typed(s, server[s]) /\ server[s].term <= MaxTerm
          /\ Sound(s, server[s])
          /\ ~server[s].up => Resting(server[s])

ChannelsInv ==
    /\ channel \in [Server -> [Server -> Seq(Messages)]]
    /\ \A s \in Server : channel[s][s] = << >>

RestInv ==
    /\ turn \in Server /\ first \in Draws /\ sinceStart \in 0..Gap
    /\ leaderless \in 0..InTime + 1 /\ stopped \subseteq Server

\* Neither Idle nor a message is late with server s.
OnTime(s) ==
    /\ \A d \in Waits(s) : d > -Poll
    /\ \A p \in Peers(s) : \A i \in 1..Len(channel[p][s]) : channel[p][s][i].age < Delay

\* Whoever had its turn in this tick was in pace, and still is.
PassedInv == \A q \in Server : q < turn /\ server[q].up => OnTime(q)

ClockInv == ServersInv /\ ChannelsInv /\ RestInv /\ PassedInv

-----------------------------------------------------------------------------
(* Constants. *)

LEMMA Times0 ==
    /\ Election \in Nat /\ Rpc \in Nat /\ Poll \in Nat /\ Delay \in Nat \ {0}
    /\ Gap \in Nat /\ InTime \in Nat /\ MaxTerm \in Nat /\ Servers \in Nat \ {0}
    /\ Heartbeat \in Nat /\ Heartbeat <= Election
    /\ Infinite \in Nat /\ 2 * Election <= Infinite /\ Rpc <= Infinite
    /\ \A d \in Draws : d \in Int /\ Election <= d /\ d <= 2 * Election
    /\ Server \subseteq Nat \ {0}
BY DeadlineAssumption DEF Heartbeat, Infinite, Server

LEMMA InTimes ==
    /\ 0 \in Times /\ Rpc \in Times /\ Infinite \in Times /\ Heartbeat \in Times
    /\ Draws \subseteq Times
BY Times0 DEF Times

LEMMA MessageFields ==
    ASSUME NEW m \in Messages
    PROVE  m.term \in Nat /\ m.age \in Nat
<1>1. PICK t, a : t = m.term /\ a = m.age
  OBVIOUS
<1>2. t \in 1..MaxTerm /\ a \in 0..Delay
  BY <1>1 DEF Messages
<1> QED  BY <1>1, <1>2

-----------------------------------------------------------------------------
(* What the operators do to a server's state. *)

LEMMA StandFields ==
    ASSUME NEW s \in Server, NEW v, Typed(s, v), NEW draw \in Draws
    PROVE  /\ Typed(s, Stand(s, v, draw))
           /\ Sound(s, Stand(s, v, draw))
           /\ Stand(s, v, draw).up = v.up
           /\ Stand(s, v, draw).role = "CANDIDATE"
           /\ Stand(s, v, draw).term = v.term + 1
           /\ Stand(s, v, draw).heard = v.heard
           /\ Stand(s, v, draw).votedFor = s
           /\ Stand(s, v, draw).votes = {}
           /\ Stand(s, v, draw).hasLog = v.hasLog
           /\ Stand(s, v, draw).electionDue = draw
           /\ Stand(s, v, draw).rpcDue = ForPeers(s, 0)
<1> DEFINE w == Stand(s, v, draw)
<1>1. /\ DOMAIN w = Fields
      /\ w.up = v.up /\ w.hasLog = v.hasLog /\ w.role = "CANDIDATE"
      /\ w.votedFor = s /\ w.term = v.term + 1 /\ w.heard = v.heard
      /\ w.votes = {} /\ w.behind = {} /\ w.electionDue = draw
      /\ w.heartbeatDue = ForPeers(s, 0) /\ w.rpcDue = ForPeers(s, 0)
  BY DEF Stand, Typed, Fields
<1> HIDE DEF w
<1>2. ForPeers(s, 0) \in [Peers(s) -> Times]
  BY InTimes DEF ForPeers
<1>3. Typed(s, w)
  BY <1>1, <1>2, InTimes DEF Typed
<1>4. Sound(s, w)
  BY <1>1, Times0 DEF Typed, Sound
<1> QED  BY <1>1, <1>3, <1>4 DEF w

LEMMA LeadFields ==
    ASSUME NEW s \in Server, NEW v, Typed(s, v), v.votedFor = s
    PROVE  /\ Typed(s, Lead(s, v))
           /\ Sound(s, Lead(s, v))
           /\ Lead(s, v).up = v.up
           /\ Lead(s, v).role = "LEADER"
           /\ Lead(s, v).term = v.term
           /\ Lead(s, v).heard = v.heard
           /\ Lead(s, v).votedFor = s
           /\ Lead(s, v).hasLog
<1> DEFINE w == Lead(s, v)
<1>1. /\ DOMAIN w = Fields
      /\ w.up = v.up /\ w.hasLog = TRUE /\ w.role = "LEADER"
      /\ w.votedFor = v.votedFor /\ w.term = v.term /\ w.heard = v.heard
      /\ w.votes = {} /\ w.behind = Peers(s) /\ w.electionDue = Infinite
      /\ w.heartbeatDue = ForPeers(s, 0) /\ w.rpcDue = ForPeers(s, Infinite)
  BY DEF Lead, Typed, Fields
<1> HIDE DEF w
<1>2. /\ ForPeers(s, 0) \in [Peers(s) -> Times]
      /\ ForPeers(s, Infinite) \in [Peers(s) -> Times]
      /\ \A p \in Peers(s) : ForPeers(s, 0)[p] = 0
  BY InTimes DEF ForPeers
<1>3. Typed(s, w)
  BY <1>1, <1>2, InTimes DEF Typed
<1>4. Sound(s, w)
  BY <1>1, <1>2, Times0 DEF Sound
<1> QED  BY <1>1, <1>3, <1>4 DEF w

\* Rearmed touches two tables of deadlines only.
LEMMA RearmedFields ==
    ASSUME NEW s \in Server, NEW v, Typed(s, v), Sound(s, v)
    PROVE  /\ Typed(s, Rearmed(s, v))
           /\ Sound(s, Rearmed(s, v))
           /\ Rearmed(s, v).up = v.up
           /\ Rearmed(s, v).role = v.role
           /\ Rearmed(s, v).term = v.term
           /\ Rearmed(s, v).heard = v.heard
           /\ Rearmed(s, v).votedFor = v.votedFor
           /\ Rearmed(s, v).votes = v.votes
           /\ Rearmed(s, v).hasLog = v.hasLog
           /\ Rearmed(s, v).electionDue = v.electionDue
           /\ \A p \in Peers(s) : v.role = "LEADER" /\ p \notin Overdue(s, v)
                 => Rearmed(s, v).heartbeatDue[p] = v.heartbeatDue[p]
<1> DEFINE w == Rearmed(s, v)
           rpc == [p \in Peers(s) |-> IF p \in Overdue(s, v) THEN Rpc ELSE v.rpcDue[p]]
           beat == [p \in Peers(s) |-> IF v.role = "LEADER" /\ p \in Overdue(s, v)
                                       THEN Heartbeat ELSE v.heartbeatDue[p]]
<1>1. w = [v EXCEPT !.rpcDue = rpc, !.heartbeatDue = beat]
  BY DEF Rearmed
<1>2. /\ rpc \in [Peers(s) -> Times]
      /\ beat \in [Peers(s) -> Times]
      /\ v.role = "LEADER" => \A p \in Peers(s) : beat[p] <= Heartbeat
  BY InTimes, Times0 DEF Typed, Sound
<1>3. \A p \in Peers(s) : v.role = "LEADER" /\ p \notin Overdue(s, v)
         => beat[p] = v.heartbeatDue[p]
  OBVIOUS
<1> HIDE DEF w, rpc, beat
<1>4. /\ DOMAIN w = Fields
      /\ w.up = v.up /\ w.hasLog = v.hasLog /\ w.role = v.role
      /\ w.votedFor = v.votedFor /\ w.term = v.term /\ w.heard = v.heard
      /\ w.votes = v.votes /\ w.behind = v.behind /\ w.electionDue = v.electionDue
      /\ w.heartbeatDue = beat /\ w.rpcDue = rpc
  BY <1>1 DEF Typed, Fields
<1>5. Typed(s, w)
  BY <1>2, <1>4 DEF Typed
<1>6. Sound(s, w)
  BY <1>2, <1>4 DEF Sound
<1> QED  BY <1>3, <1>4, <1>5, <1>6 DEF w

-----------------------------------------------------------------------------
(* What the handlers do to a server's state. *)

IsHeartbeat(m, t) == m.type = "AppendEntriesRequest" /\ m.term = t

\* No handler makes a candidate or a leader, or takes a log away.
Follows(v, x) ==
    /\ x.up = v.up /\ (v.hasLog => x.hasLog)
    /\ x.term >= v.term /\ x.term <= MaxTerm
    /\ x.role = "CANDIDATE" => v.role = "CANDIDATE" /\ x.term = v.term
    /\ x.role = "LEADER" => /\ v.role = "LEADER" /\ x.term = v.term
                            /\ x.heartbeatDue = v.heartbeatDue

\* Who follows the leader of its term has a new deadline, or the one it had
\* before a message that was no heartbeat of that leader.
KeepsDeadline(v, x, m) ==
    x.role = "FOLLOWER" /\ x.heard = x.term =>
        \/ x.electionDue >= Election
        \/ /\ v.role = "FOLLOWER" /\ v.heard = v.term /\ x.term = v.term
           /\ x.electionDue = v.electionDue
           /\ ~IsHeartbeat(m, v.term)

\* A reply to p is no heartbeat, and a promise only if x keeps it.
Reply(p, x, r) ==
    /\ r \in NewMessages
    /\ r.type # "AppendEntriesRequest"
    /\ r.type = "RequestVoteResponse" /\ r.ok => r.term = x.term /\ x.votedFor = p

VoteKept(v, x) == x.term = v.term /\ v.votedFor # Nil => x.votedFor = v.votedFor

\* A candidate counts the votes it had, and the one it was sent.
Counts(p, v, m, x) ==
    x.role = "CANDIDATE" =>
        \A q \in x.votes : \/ q \in v.votes
                           \/ /\ q = p /\ m.type = "RequestVoteResponse"
                              /\ m.ok /\ m.term = x.term

Handled(s, p, v, m, o) ==
    /\ Typed(s, o[1]) /\ Sound(s, o[1])
    /\ Follows(v, o[1])
    /\ KeepsDeadline(v, o[1], m)
    /\ VoteKept(v, o[1])
    /\ Counts(p, v, m, o[1])
    /\ \/ o[1].heard = v.heard
       \/ IsHeartbeat(m, o[1].term) /\ o[1].heard = o[1].term
    /\ o[2] = << >> \/ \E r \in NewMessages : o[2] = <<r>> /\ Reply(p, o[1], r)

LEMMA TermCheckFields ==
    ASSUME NEW s \in Server, NEW v, Typed(s, v), Sound(s, v), v.term <= MaxTerm,
           NEW term \in 1..MaxTerm, NEW draw \in Draws
    PROVE  /\ Typed(s, TermCheck(v, term, draw))
           /\ Sound(s, TermCheck(v, term, draw))
           /\ TermCheck(v, term, draw).term <= MaxTerm
           /\ TermCheck(v, term, draw).term >= term
           /\ \/ TermCheck(v, term, draw) = v
              \/ /\ TermCheck(v, term, draw).up = v.up
                 /\ TermCheck(v, term, draw).hasLog = v.hasLog
                 /\ TermCheck(v, term, draw).role = "FOLLOWER"
                 /\ TermCheck(v, term, draw).heard = v.heard
                 /\ TermCheck(v, term, draw).term > v.term
<1> DEFINE w == TermCheck(v, term, draw)
<1>1. CASE term <= v.term
  BY <1>1 DEF TermCheck
<1>2. CASE ~(term <= v.term)
  <2>1. PICK due : due = IF Due(v.electionDue) \/ v.electionDue = Infinite THEN draw
                         ELSE v.electionDue
    OBVIOUS
  <2>2. w = [v EXCEPT !.term = term, !.votedFor = Nil, !.role = "FOLLOWER",
                      !.electionDue = due]
    BY <1>2, <2>1 DEF TermCheck
  <2> HIDE DEF w
  <2>3. /\ DOMAIN w = Fields
        /\ w.up = v.up /\ w.hasLog = v.hasLog /\ w.role = "FOLLOWER"
        /\ w.votedFor = Nil /\ w.term = term /\ w.heard = v.heard
        /\ w.votes = v.votes /\ w.behind = v.behind /\ w.electionDue = due
        /\ w.heartbeatDue = v.heartbeatDue /\ w.rpcDue = v.rpcDue
    BY <2>2 DEF Typed, Fields
  <2>4. due \in Times /\ due <= 2 * Election
    BY <2>1, InTimes, Times0 DEF Typed, Sound, Times
  <2>5. term \in Nat \ {0} /\ term > v.term
    BY <1>2, Times0 DEF Typed
  <2>6. Typed(s, w)
    BY <2>3, <2>4, <2>5 DEF Typed
  <2>7. Sound(s, w)
    BY <2>3, <2>4, Times0 DEF Sound, Times
  <2> QED  BY <2>3, <2>5, <2>6, <2>7 DEF w
<1> QED  BY <1>1, <1>2

\* A message of a server whose term is within the bound.
LEMMA MailType ==
    ASSUME NEW s \in Server, NEW v, Typed(s, v), v.term <= MaxTerm, NEW ok \in BOOLEAN,
           NEW type \in {"RequestVoteRequest", "RequestVoteResponse",
                         "AppendEntriesRequest", "AppendEntriesResponse"}
    PROVE  /\ Mail(type, v, ok) \in NewMessages
           /\ Mail(type, v, ok).type = type /\ Mail(type, v, ok).ok = ok
           /\ Mail(type, v, ok).term = v.term
BY Times0 DEF Mail, NewMessages, Messages, Typed

LEMMA NothingDone ==
    ASSUME NEW s \in Server, NEW p, NEW v, Typed(s, v), Sound(s, v),
           v.term <= MaxTerm, NEW m, ~IsHeartbeat(m, v.term),
           NEW o, o[1] = v,
           o[2] = << >> \/ \E r \in NewMessages : o[2] = <<r>> /\ Reply(p, v, r)
    PROVE  Handled(s, p, v, m, o)
<1>1. Follows(v, v) /\ KeepsDeadline(v, v, m) /\ VoteKept(v, v) /\ Counts(p, v, m, v)
  BY Times0 DEF Follows, KeepsDeadline, VoteKept, Counts, Typed
<1> QED  BY <1>1 DEF Handled

LEMMA OnVoteRequestHandled ==
    ASSUME NEW s \in Server, NEW p \in Peers(s), NEW v, Typed(s, v), Sound(s, v),
           v.term <= MaxTerm, NEW m \in Messages, m.type = "RequestVoteRequest",
           NEW draw \in Draws, NEW o \in OnVoteRequest(p, v, m, draw)
    PROVE  Handled(s, p, v, m, o)
<1>1. PICK granted \in BOOLEAN :
         /\ granted => m.term = v.term /\ v.votedFor \in {Nil, p}
         /\ o = <<IF granted THEN [v EXCEPT !.electionDue = draw, !.votedFor = p] ELSE v,
                  <<Mail("RequestVoteResponse", v, granted)>> >>
  BY DEF OnVoteRequest, UpToDate
<1>2. ~IsHeartbeat(m, v.term)
  BY DEF IsHeartbeat
<1>3. PICK r \in NewMessages : /\ r = Mail("RequestVoteResponse", v, granted)
                               /\ r.type = "RequestVoteResponse"
                               /\ r.ok = granted /\ r.term = v.term
  BY MailType
<1>4. CASE granted
  <2>1. PICK x : x = [v EXCEPT !.electionDue = draw, !.votedFor = p]
    OBVIOUS
  <2>2. o[1] = x /\ o[2] = <<r>>
    BY <1>1, <1>3, <1>4, <2>1
  <2>3. /\ DOMAIN x = Fields
        /\ x.up = v.up /\ x.hasLog = v.hasLog /\ x.role = v.role
        /\ x.votedFor = p /\ x.term = v.term /\ x.heard = v.heard
        /\ x.votes = v.votes /\ x.behind = v.behind /\ x.electionDue = draw
        /\ x.heartbeatDue = v.heartbeatDue /\ x.rpcDue = v.rpcDue
    BY <2>1 DEF Typed, Fields
  <2>4. p \in Server /\ p # s /\ Nil \notin Server
    BY Times0 DEF Peers, Nil
  <2>5. v.role = "FOLLOWER" /\ v.votedFor \in {Nil, p}
    BY <1>1, <1>4, <2>4 DEF Sound, Typed
  <2>6. Typed(s, x)
    BY <2>3, <2>4, InTimes DEF Typed
  <2>7. Sound(s, x)
    BY <2>3, <2>5, Times0 DEF Sound
  <2>8. Follows(v, x) /\ VoteKept(v, x) /\ Counts(p, v, m, x) /\ KeepsDeadline(v, x, m)
    BY <2>3, <2>5, Times0 DEF Follows, VoteKept, Counts, KeepsDeadline, Typed
  <2>9. Reply(p, x, r)
    BY <1>3, <2>3 DEF Reply
  <2> QED  BY <2>2, <2>3, <2>6, <2>7, <2>8, <2>9 DEF Handled
<1>5. CASE ~granted
  <2>1. o[1] = v /\ o[2] = <<r>>
    BY <1>1, <1>3, <1>5
  <2>2. Reply(p, v, r)
    BY <1>3, <1>5 DEF Reply
  <2> QED  BY <1>2, <2>1, <2>2, NothingDone
<1> QED  BY <1>4, <1>5

LEMMA OnVoteResponseHandled ==
    ASSUME NEW s \in Server, NEW p \in Peers(s), NEW v, Typed(s, v), Sound(s, v),
           v.term <= MaxTerm, NEW m \in Messages, m.type = "RequestVoteResponse",
           v.role = "CANDIDATE", NEW o \in OnVoteResponse(p, v, m)
    PROVE  Handled(s, p, v, m, o)
<1>1. o = <<IF m.ok /\ m.term = v.term
            THEN [v EXCEPT !.votes = @ \cup {p}, !.rpcDue[p] = Infinite] ELSE v, << >> >>
  BY DEF OnVoteResponse
<1>2. ~IsHeartbeat(m, v.term)
  BY DEF IsHeartbeat
<1>3. CASE m.ok /\ m.term = v.term
  <2>1. PICK rpc : rpc = [v.rpcDue EXCEPT ![p] = Infinite]
    OBVIOUS
  <2>2. PICK x : x = [v EXCEPT !.votes = @ \cup {p}, !.rpcDue = rpc]
    OBVIOUS
  <2>3. o[1] = x /\ o[2] = << >>
    BY <1>1, <1>3, <2>1, <2>2
  <2>4. /\ DOMAIN x = Fields
        /\ x.up = v.up /\ x.hasLog = v.hasLog /\ x.role = v.role
        /\ x.votedFor = v.votedFor /\ x.term = v.term /\ x.heard = v.heard
        /\ x.votes = v.votes \cup {p} /\ x.behind = v.behind
        /\ x.electionDue = v.electionDue
        /\ x.heartbeatDue = v.heartbeatDue /\ x.rpcDue = rpc
    BY <2>2 DEF Typed, Fields
  <2>5. rpc \in [Peers(s) -> Times]
    BY <2>1, InTimes DEF Typed
  <2>6. Typed(s, x)
    BY <2>4, <2>5 DEF Typed
  <2>7. Sound(s, x)
    BY <2>4 DEF Sound
  <2>8. Follows(v, x) /\ VoteKept(v, x) /\ Counts(p, v, m, x) /\ KeepsDeadline(v, x, m)
    BY <1>3, <2>4, Times0 DEF Follows, VoteKept, Counts, KeepsDeadline, Typed
  <2> QED  BY <2>3, <2>4, <2>6, <2>7, <2>8 DEF Handled
<1>4. CASE ~(m.ok /\ m.term = v.term)
  BY <1>1, <1>2, <1>4, NothingDone
<1> QED  BY <1>3, <1>4

LEMMA OnAppendRequestHandled ==
    ASSUME NEW s \in Server, NEW p \in Peers(s), NEW v, Typed(s, v), Sound(s, v),
           v.term <= MaxTerm, NEW m \in Messages, m.type = "AppendEntriesRequest",
           m.term <= v.term,
           NEW draw \in Draws, NEW o \in OnAppendRequest(p, v, m, draw)
    PROVE  Handled(s, p, v, m, o)
<1>1. CASE m.term < v.term
  <2> PICK fits \in BOOLEAN : fits = FALSE
    OBVIOUS
  <2>1. o = <<v, <<Mail("AppendEntriesResponse", v, fits)>> >>
    BY <1>1 DEF OnAppendRequest
  <2>2. PICK r \in NewMessages : /\ r = Mail("AppendEntriesResponse", v, fits)
                                 /\ r.type = "AppendEntriesResponse"
    BY MailType
  <2>3. ~IsHeartbeat(m, v.term)
    BY <1>1 DEF IsHeartbeat, Messages, Typed
  <2>4. Reply(p, v, r)
    BY <2>2 DEF Reply
  <2>5. o[1] = v /\ o[2] = <<r>>
    BY <2>1, <2>2
  <2> QED  BY <2>3, <2>4, <2>5, NothingDone
<1>2. CASE ~(m.term < v.term)
  <2>1. PICK fits \in BOOLEAN :
           o = <<[v EXCEPT !.heard = v.term, !.electionDue = draw, !.role = "FOLLOWER",
                           !.hasLog = @ \/ fits],
                 <<Mail("AppendEntriesResponse", v, fits)>> >>
    BY <1>2 DEF OnAppendRequest
  <2>2. PICK x : x = [v EXCEPT !.heard = v.term, !.electionDue = draw, !.role = "FOLLOWER",
                               !.hasLog = @ \/ fits]
    OBVIOUS
  <2>3. PICK r \in NewMessages : /\ r = Mail("AppendEntriesResponse", v, fits)
                                 /\ r.type = "AppendEntriesResponse"
    BY MailType
  <2>4. o[1] = x /\ o[2] = <<r>>
    BY <2>1, <2>2, <2>3
  <2>5. /\ DOMAIN x = Fields
        /\ x.up = v.up /\ x.hasLog = (v.hasLog \/ fits) /\ x.role = "FOLLOWER"
        /\ x.votedFor = v.votedFor /\ x.term = v.term /\ x.heard = v.term
        /\ x.votes = v.votes /\ x.behind = v.behind /\ x.electionDue = draw
        /\ x.heartbeatDue = v.heartbeatDue /\ x.rpcDue = v.rpcDue
    BY <2>2 DEF Typed, Fields
  <2>6. m.term = v.term /\ IsHeartbeat(m, v.term)
    BY <1>2 DEF IsHeartbeat, Messages, Typed
  <2>7. Typed(s, x)
    BY <2>5, InTimes DEF Typed
  <2>8. Sound(s, x)
    BY <2>5, Times0 DEF Sound
  <2>9. Follows(v, x) /\ VoteKept(v, x) /\ Counts(p, v, m, x) /\ KeepsDeadline(v, x, m)
    BY <2>5, Times0 DEF Follows, VoteKept, Counts, KeepsDeadline, Typed
  <2>10. Reply(p, x, r)
    BY <2>3 DEF Reply
  <2> QED  BY <2>4, <2>5, <2>6, <2>7, <2>8, <2>9, <2>10 DEF Handled
<1> QED  BY <1>1, <1>2

LEMMA OnAppendResponseHandled ==
    ASSUME NEW s \in Server, NEW p \in Peers(s), NEW v, Typed(s, v), Sound(s, v),
           v.term <= MaxTerm, NEW m \in Messages, m.type = "AppendEntriesResponse",
           v.role = "LEADER", NEW o \in OnAppendResponse(p, v, m)
    PROVE  Handled(s, p, v, m, o)
<1>1. PICK b \in {v.behind \ {p}, v.behind \cup {p}} :
         o = <<IF m.term = v.term THEN [v EXCEPT !.rpcDue[p] = 0, !.behind = b] ELSE v, << >> >>
  BY DEF OnAppendResponse
<1>2. ~IsHeartbeat(m, v.term)
  BY DEF IsHeartbeat
<1>3. CASE m.term = v.term
  <2>1. PICK rpc : rpc = [v.rpcDue EXCEPT ![p] = 0]
    OBVIOUS
  <2>2. PICK x : x = [v EXCEPT !.rpcDue = rpc, !.behind = b]
    OBVIOUS
  <2>3. o[1] = x /\ o[2] = << >>
    BY <1>1, <1>3, <2>1, <2>2
  <2>4. /\ DOMAIN x = Fields
        /\ x.up = v.up /\ x.hasLog = v.hasLog /\ x.role = v.role
        /\ x.votedFor = v.votedFor /\ x.term = v.term /\ x.heard = v.heard
        /\ x.votes = v.votes /\ x.behind = b /\ x.electionDue = v.electionDue
        /\ x.heartbeatDue = v.heartbeatDue /\ x.rpcDue = rpc
    BY <2>2 DEF Typed, Fields
  <2>5. rpc \in [Peers(s) -> Times] /\ b \subseteq Peers(s)
    BY <2>1, InTimes DEF Typed
  <2>6. Typed(s, x)
    BY <2>4, <2>5 DEF Typed
  <2>7. Sound(s, x)
    BY <2>4 DEF Sound
  <2>8. Follows(v, x) /\ VoteKept(v, x) /\ Counts(p, v, m, x) /\ KeepsDeadline(v, x, m)
    BY <2>4, Times0 DEF Follows, VoteKept, Counts, KeepsDeadline, Typed
  <2> QED  BY <2>3, <2>4, <2>6, <2>7, <2>8 DEF Handled
<1>4. CASE m.term # v.term
  BY <1>1, <1>2, <1>4, NothingDone
<1> QED  BY <1>3, <1>4

\* The handler of a message on a state that has passed the term check.
LEMMA HandleHandled ==
    ASSUME NEW s \in Server, NEW p \in Peers(s), NEW v, Typed(s, v), Sound(s, v),
           v.term <= MaxTerm, NEW m \in Messages, m.term <= v.term,
           NEW draw \in Draws, NEW o \in Handle(p, v, m, draw)
    PROVE  Handled(s, p, v, m, o)
<1>1. CASE m.type = "RequestVoteRequest"
  BY <1>1, OnVoteRequestHandled DEF Handle
<1>2. CASE m.type = "AppendEntriesRequest"
  BY <1>2, OnAppendRequestHandled DEF Handle
<1>3. CASE m.type = "RequestVoteResponse" /\ v.role = "CANDIDATE"
  BY <1>3, OnVoteResponseHandled DEF Handle
<1>4. CASE m.type = "AppendEntriesResponse" /\ v.role = "LEADER"
  BY <1>4, OnAppendResponseHandled DEF Handle
<1>5. CASE /\ m.type \in {"RequestVoteResponse", "AppendEntriesResponse"}
           /\ ~(m.type = "RequestVoteResponse" /\ v.role = "CANDIDATE")
           /\ ~(m.type = "AppendEntriesResponse" /\ v.role = "LEADER")
  <2>1. o = <<v, << >> >>
    BY <1>5 DEF Handle
  <2>2. ~IsHeartbeat(m, v.term)
    BY <1>5 DEF IsHeartbeat
  <2> QED  BY <2>1, <2>2, NothingDone
<1> QED  BY <1>1, <1>2, <1>3, <1>4, <1>5 DEF Messages

\* The term check and the handler together.
LEMMA ReceiveHandled ==
    ASSUME NEW s \in Server, NEW p \in Peers(s), NEW v, Typed(s, v), Sound(s, v),
           v.term <= MaxTerm, NEW m \in Messages, NEW draw \in Draws,
           NEW o \in Handle(p, TermCheck(v, m.term, draw), m, draw)
    PROVE  Handled(s, p, v, m, o)
<1>1. m.term \in 1..MaxTerm
  BY DEF Messages
<1>2. PICK x : x = TermCheck(v, m.term, draw)
  OBVIOUS
<1>3. /\ Typed(s, x) /\ Sound(s, x) /\ x.term <= MaxTerm /\ x.term >= m.term
      /\ \/ x = v
         \/ /\ x.up = v.up /\ x.role = "FOLLOWER" /\ x.heard = v.heard
            /\ x.hasLog = v.hasLog /\ x.term > v.term
  BY <1>1, <1>2, TermCheckFields
<1>4. Handled(s, p, x, m, o)
  BY <1>1, <1>2, <1>3, HandleHandled
<1>5. CASE x = v
  BY <1>4, <1>5
<1>6. CASE /\ x.up = v.up /\ x.role = "FOLLOWER" /\ x.heard = v.heard
           /\ x.hasLog = v.hasLog /\ x.term > v.term
  <2>1. PICK y : y = o[1]
    OBVIOUS
  <2>2. /\ Typed(s, y) /\ Sound(s, y) /\ Follows(x, y) /\ KeepsDeadline(x, y, m)
        /\ y.heard = x.heard \/ (IsHeartbeat(m, y.term) /\ y.heard = y.term)
        /\ o[2] = << >> \/ \E r \in NewMessages : o[2] = <<r>> /\ Reply(p, y, r)
    BY <1>4, <2>1 DEF Handled
  <2>3. /\ v.term \in Nat /\ x.term \in Nat /\ y.term \in Nat /\ v.heard \in Nat
        /\ v.heard <= v.term
    BY <1>3, <2>2 DEF Typed
  <2>4. y.role \notin {"CANDIDATE", "LEADER"} /\ y.term >= x.term /\ y.up = v.up
        /\ y.term <= MaxTerm /\ (v.hasLog => y.hasLog)
    BY <1>6, <2>2 DEF Follows
  <2>5. y.term > v.term
    BY <1>6, <2>3, <2>4
  <2>6. Follows(v, y) /\ VoteKept(v, y) /\ Counts(p, v, m, y)
    BY <2>3, <2>4, <2>5 DEF Follows, VoteKept, Counts
  <2>7. KeepsDeadline(v, y, m)
    BY <1>6, <2>2, <2>3 DEF KeepsDeadline
  <2> QED  BY <1>6, <2>1, <2>2, <2>6, <2>7 DEF Handled
<1> QED  BY <1>3, <1>5, <1>6

-----------------------------------------------------------------------------
(* What ProcessTimeout does. *)

Remains(x, z) ==
    /\ z.role = x.role /\ z.term = x.term /\ z.votedFor = x.votedFor
    /\ z.votes = x.votes /\ z.electionDue = x.electionDue
Stands(s, x, z) ==
    /\ z.role = "CANDIDATE" /\ z.term = x.term + 1
    /\ z.votedFor = s /\ z.votes = {}
\* V are the peers that voted for the winner.
Wins(s, x, z) ==
    /\ z.role = "LEADER" /\ z.votedFor = s
    /\ \E V \in SUBSET Peers(s) :
          /\ Cardinality(V) + 1 >= MinVotes(Servers)
          /\ \/ x.role = "CANDIDATE" /\ z.term = x.term /\ V = x.votes
             \/ z.term = x.term + 1 /\ V = {}

\* d is what c was, with one request added at most.
RequestAdded(c, d, z) ==
    \E r \in NewMessages :
        /\ d = Append(c, r) /\ r.term = z.term
        /\ r.type = IF z.role = "LEADER" THEN "AppendEntriesRequest"
                                         ELSE "RequestVoteRequest"

\* ProcessTimeout makes z of x, and row d of the channels of row c.
Acts(s, x, z, c, d) ==
    /\ Typed(s, z) /\ Sound(s, z)
    /\ z.up = x.up /\ z.heard = x.heard /\ (x.hasLog => z.hasLog)
    /\ Remains(x, z) \/ Stands(s, x, z) \/ Wins(s, x, z)
    /\ d = [q \in Server |-> d[q]] /\ d[s] = c[s]
    /\ \A q \in Server : d[q] = c[q] \/ RequestAdded(c[q], d[q], z)
    /\ x.role = "LEADER" =>
          \A q \in Peers(s) : \/ z.heartbeatDue[q] = x.heartbeatDue[q]
                              \/ RequestAdded(c[q], d[q], z)

\* What Elected makes of x.
LEMMA ElectedFields ==
    ASSUME NEW s \in Server, NEW x, Typed(s, x), Sound(s, x),
           NEW draw, draw \in Draws \/ x.role = "LEADER"
    PROVE  /\ Typed(s, Elected(s, x, draw)) /\ Sound(s, Elected(s, x, draw))
           /\ Elected(s, x, draw).up = x.up
           /\ Elected(s, x, draw).heard = x.heard
           /\ x.hasLog => Elected(s, x, draw).hasLog
           /\ \/ Elected(s, x, draw) = x
              \/ Stands(s, x, Elected(s, x, draw))
              \/ Wins(s, x, Elected(s, x, draw))
           /\ x.role = "LEADER" => Elected(s, x, draw) = x
<1> PICK y : y = IF x.role # "LEADER" /\ Due(x.electionDue) THEN Stand(s, x, draw) ELSE x
  OBVIOUS
<1> PICK e : e = Elected(s, x, draw)
  OBVIOUS
<1>1. e = IF y.role = "CANDIDATE" /\ Cardinality(y.votes) + 1 >= MinVotes(Servers)
          THEN Lead(s, y) ELSE y
  BY DEF Elected
<1>2. \/ y = x
      \/ /\ x.role # "LEADER" /\ Stands(s, x, y)
         /\ Typed(s, y) /\ Sound(s, y) /\ y.up = x.up /\ y.heard = x.heard
         /\ y.hasLog = x.hasLog
  <2>1. CASE x.role # "LEADER" /\ Due(x.electionDue)
    <3>1. y = Stand(s, x, draw) /\ draw \in Draws
      BY <2>1
    <3> QED  BY <2>1, <3>1, StandFields DEF Stands
  <2>2. CASE ~(x.role # "LEADER" /\ Due(x.electionDue))
    BY <2>2
  <2> QED  BY <2>1, <2>2
<1>3. /\ Typed(s, y) /\ Sound(s, y) /\ y.up = x.up /\ y.heard = x.heard
      /\ y.hasLog = x.hasLog
  BY <1>2
<1>4. CASE y.role = "CANDIDATE" /\ Cardinality(y.votes) + 1 >= MinVotes(Servers)
  <2>1. e = Lead(s, y) /\ y.votedFor = s /\ y.votes \in SUBSET Peers(s)
    BY <1>1, <1>3, <1>4 DEF Sound, Typed
  <2>2. /\ Typed(s, e) /\ Sound(s, e) /\ e.up = x.up /\ e.heard = x.heard
        /\ e.role = "LEADER" /\ e.term = y.term /\ e.votedFor = s /\ e.hasLog
    BY <1>3, <2>1, LeadFields
  <2>3. Wins(s, x, e)
    BY <1>2, <1>4, <2>1, <2>2 DEF Wins, Stands
  <2>4. x.role # "LEADER"
    BY <1>2, <1>4
  <2> QED  BY <2>2, <2>3, <2>4
<1>5. CASE ~(y.role = "CANDIDATE" /\ Cardinality(y.votes) + 1 >= MinVotes(Servers))
  BY <1>1, <1>2, <1>3, <1>5
<1> QED  BY <1>4, <1>5

LEMMA TimeoutActs ==
    ASSUME NEW s \in Server, NEW x, Typed(s, x), Sound(s, x),
           NEW draw, draw \in Draws \/ x.role = "LEADER",
           NEW c, DOMAIN c = Server,
           Elected(s, x, draw).term <= MaxTerm
    PROVE  Acts(s, x, Rearmed(s, Elected(s, x, draw)), c, Requests(s, Elected(s, x, draw), c))
<1> PICK w : w = Elected(s, x, draw)
  OBVIOUS
<1> PICK z : z = Rearmed(s, w)
  OBVIOUS
<1> PICK d : d = Requests(s, w, c)
  OBVIOUS
<1>1. /\ Typed(s, w) /\ Sound(s, w) /\ w.up = x.up /\ w.heard = x.heard
      /\ x.hasLog => w.hasLog
      /\ w = x \/ Stands(s, x, w) \/ Wins(s, x, w)
      /\ x.role = "LEADER" => w = x
      /\ w.term <= MaxTerm
  BY ElectedFields
<1>2. /\ Typed(s, z) /\ Sound(s, z) /\ z.up = w.up /\ z.role = w.role
      /\ z.term = w.term /\ z.heard = w.heard /\ z.votedFor = w.votedFor
      /\ z.votes = w.votes /\ z.electionDue = w.electionDue
      /\ z.hasLog = w.hasLog
      /\ \A p \in Peers(s) : w.role = "LEADER" /\ p \notin Overdue(s, w)
             => z.heartbeatDue[p] = w.heartbeatDue[p]
  BY <1>1, RearmedFields
<1>3. Remains(x, z) \/ Stands(s, x, z) \/ Wins(s, x, z)
  BY <1>1, <1>2 DEF Remains, Stands, Wins
<1>4. Overdue(s, w) \subseteq Peers(s)
  BY DEF Overdue
<1>5. /\ d = [q \in Server |-> d[q]]
      /\ \A q \in Server : q \notin Overdue(s, w) => d[q] = c[q]
  BY DEF Requests
<1>6. \A q \in Server : q \in Overdue(s, w) => RequestAdded(c[q], d[q], z)
  <2> SUFFICES ASSUME NEW q \in Server, q \in Overdue(s, w)
               PROVE  RequestAdded(c[q], d[q], z)
    OBVIOUS
  <2>1. d[q] = Append(c[q], IF w.role = "LEADER" THEN CreateAppendEntries(w)
                                                ELSE CreateVote(w))
    BY DEF Requests
  <2>2. CASE w.role = "LEADER"
    <3>0. PICK ok \in BOOLEAN : ok = TRUE
      OBVIOUS
    <3>1. PICK r \in NewMessages : /\ r = Mail("AppendEntriesRequest", w, ok)
                                   /\ r.type = "AppendEntriesRequest" /\ r.term = w.term
      BY <1>1, MailType
    <3>2. d[q] = Append(c[q], r)
      BY <2>1, <2>2, <3>0, <3>1 DEF CreateAppendEntries
    <3> QED  BY <1>2, <2>2, <3>1, <3>2 DEF RequestAdded
  <2>3. CASE w.role # "LEADER"
    <3> PICK ok \in BOOLEAN : ok = w.hasLog
      BY <1>1 DEF Typed
    <3>1. PICK r \in NewMessages : /\ r = Mail("RequestVoteRequest", w, ok)
                                   /\ r.type = "RequestVoteRequest" /\ r.term = w.term
      BY <1>1, MailType
    <3>2. d[q] = Append(c[q], r)
      BY <2>1, <2>3, <3>1 DEF CreateVote
    <3> QED  BY <1>2, <2>3, <3>1, <3>2 DEF RequestAdded
  <2> QED  BY <2>2, <2>3
<1>7. s \notin Overdue(s, w)
  BY <1>4 DEF Peers
<1>8. \A q \in Server : d[q] = c[q] \/ RequestAdded(c[q], d[q], z)
  BY <1>5, <1>6
<1>9. x.role = "LEADER" =>
        \A q \in Peers(s) : \/ z.heartbeatDue[q] = x.heartbeatDue[q]
                            \/ RequestAdded(c[q], d[q], z)
  BY <1>1, <1>2, <1>6 DEF Peers
<1> QED  BY <1>1, <1>2, <1>3, <1>5, <1>7, <1>8, <1>9 DEF Acts


-----------------------------------------------------------------------------
(* A turn of one server: a message or none, then ProcessTimeout. *)

Silence == [type |-> "Silence"]

\* The server's state before: a server that starts is up first.
Begins(s, v) ==
    /\ turn = s /\ v.up
    /\ v = server[s] \/ v = [server[s] EXCEPT !.up = TRUE]

\* p's next message for s is taken, or none; the row of s becomes d.
Hears(p, s, m, d) ==
    \/ p = s /\ m = Silence /\ channel' = [channel EXCEPT ![s] = d]
    \/ /\ p \in Peers(s) /\ channel[p][s] # << >> /\ m = Head(channel[p][s])
       /\ channel' = [channel EXCEPT ![s] = d, ![p][s] = Tail(@)]

Turn(s, v, p, m, o, z, d) ==
    /\ Begins(s, v)
    /\ Hears(p, s, m, d)
    /\ Handled(s, p, v, m, o) /\ (p = s => o[2] = << >>)
    /\ Acts(s, o[1], z, [channel[s] EXCEPT ![p] = @ \o o[2]], d)
    /\ z.term <= MaxTerm
    /\ server' = [server EXCEPT ![s] = z]

TakesTurn(s) == \E v, p, m, o, z, d : Turn(s, v, p, m, o, z, d)

LEMMA BeginsFields ==
    ASSUME ServersInv, NEW s \in Server, NEW v, Begins(s, v)
    PROVE  /\ Typed(s, v) /\ Sound(s, v) /\ v.term <= MaxTerm
           /\ v.role = server[s].role /\ v.term = server[s].term
           /\ v.heard = server[s].heard /\ v.votedFor = server[s].votedFor
           /\ v.votes = server[s].votes /\ v.electionDue = server[s].electionDue
           /\ v.heartbeatDue = server[s].heartbeatDue /\ v.hasLog = server[s].hasLog
<1>1. Typed(s, server[s]) /\ Sound(s, server[s]) /\ server[s].term <= MaxTerm
  BY DEF ServersInv
<1>2. CASE v = server[s]
  BY <1>1, <1>2
<1>3. CASE v = [server[s] EXCEPT !.up = TRUE]
  <2>1. /\ DOMAIN v = Fields
        /\ v.up = TRUE /\ v.hasLog = server[s].hasLog /\ v.role = server[s].role
        /\ v.votedFor = server[s].votedFor /\ v.term = server[s].term
        /\ v.heard = server[s].heard
        /\ v.votes = server[s].votes /\ v.behind = server[s].behind
        /\ v.electionDue = server[s].electionDue
        /\ v.heartbeatDue = server[s].heartbeatDue /\ v.rpcDue = server[s].rpcDue
    BY <1>1, <1>3 DEF Typed, Fields
  <2>2. Typed(s, v)
    BY <1>1, <2>1 DEF Typed
  <2>3. Sound(s, v)
    BY <1>1, <2>1 DEF Sound
  <2> QED  BY <1>1, <2>1, <2>2, <2>3
<1> QED  BY <1>2, <1>3 DEF Begins

\* Without a message the handler's part is empty.
LEMMA SilentTurn ==
    ASSUME ServersInv, ChannelsInv, NEW s \in Server, NEW v, Begins(s, v),
           NEW x, Typed(s, x), Sound(s, x), x.up = v.up, x.role = v.role, x.term = v.term,
           x.heard = v.heard, x.votedFor = v.votedFor, x.votes = v.votes,
           x.electionDue = v.electionDue, x.heartbeatDue = v.heartbeatDue,
           x.hasLog = v.hasLog, NEW draw, draw \in Draws \/ x.role = "LEADER",
           ProcessTimeout(s, x, channel[s], draw)
    PROVE  TakesTurn(s)
<1>1. PICK w : w = Elected(s, x, draw)
  OBVIOUS
<1>2. PICK z : z = Rearmed(s, w)
  OBVIOUS
<1>3. PICK d : d = Requests(s, w, channel[s])
  OBVIOUS
<1>4. /\ w.term <= MaxTerm /\ server' = [server EXCEPT ![s] = z]
      /\ channel' = [channel EXCEPT ![s] = d]
  BY <1>1, <1>2, <1>3 DEF ProcessTimeout
<1>5. DOMAIN channel[s] = Server
  BY DEF ChannelsInv
<1>6. Acts(s, x, z, channel[s], d)
  BY <1>1, <1>2, <1>3, <1>4, <1>5, TimeoutActs
<1>7. PICK o : o = <<x, << >> >>
  OBVIOUS
<1>8. o[1] = x /\ o[2] = << >>
  BY <1>7
<1>9. v.term <= MaxTerm /\ v.term \in Nat
  BY BeginsFields DEF Typed
<1>10. ~IsHeartbeat(Silence, v.term)
  BY DEF IsHeartbeat, Silence
<1>11. Follows(v, x) /\ VoteKept(v, x) /\ Counts(s, v, Silence, x)
  BY <1>9 DEF Follows, VoteKept, Counts
<1>12. KeepsDeadline(v, x, Silence)
  BY <1>10 DEF KeepsDeadline
<1>13. Handled(s, s, v, Silence, o)
  BY <1>8, <1>11, <1>12 DEF Handled
<1>14. [channel[s] EXCEPT ![s] = @ \o o[2]] = channel[s]
  <2>1. channel[s] \in [Server -> Seq(Messages)] /\ channel[s][s] = << >>
    BY DEF ChannelsInv
  <2>2. channel[s][s] \o o[2] = channel[s][s]
    BY <1>8, <2>1
  <2> QED  BY <2>1, <2>2
<1>15. Acts(s, o[1], z, [channel[s] EXCEPT ![s] = @ \o o[2]], d)
  BY <1>6, <1>8, <1>14
<1>16. z.term <= MaxTerm
  <2>1. Typed(s, w) /\ Sound(s, w)
    BY <1>1, ElectedFields
  <2> QED  BY <1>2, <1>4, <2>1, RearmedFields
<1>17. Hears(s, s, Silence, d)
  BY <1>4 DEF Hears
<1> QED  BY <1>4, <1>8, <1>13, <1>15, <1>16, <1>17 DEF TakesTurn, Turn

LEMMA StartTurn ==
    ASSUME ServersInv, ChannelsInv, RestInv, NEW s \in Server, Start(s)
    PROVE  TakesTurn(s)
<1>1. PICK v : v = [server[s] EXCEPT !.up = TRUE]
  OBVIOUS
<1>2. v.up /\ Begins(s, v)
  <2>1. DOMAIN server[s] = Fields
    BY DEF ServersInv, Typed
  <2>2. v.up
    BY <1>1, <2>1 DEF Fields
  <2> QED  BY <1>1, <2>2 DEF Begins, Start
<1>3. Typed(s, v) /\ Sound(s, v)
  BY <1>2, BeginsFields
<1>4. first \in Draws /\ ProcessTimeout(s, v, channel[s], first)
  BY <1>1 DEF Start, RestInv
<1> QED  BY <1>2, <1>3, <1>4, SilentTurn

LEMMA IdleTurn ==
    ASSUME ServersInv, ChannelsInv, NEW s \in Server, NEW draw \in Draws, Idle(s, draw)
    PROVE  TakesTurn(s)
<1>1. Begins(s, server[s])
  BY DEF Begins, Idle
<1>2. Typed(s, server[s]) /\ Sound(s, server[s])
  BY DEF ServersInv
<1> QED  BY <1>1, <1>2, SilentTurn DEF Idle

LEMMA WriteTurn ==
    ASSUME ServersInv, ChannelsInv, NEW s \in Server, Write(s)
    PROVE  TakesTurn(s)
<1>1. Begins(s, server[s])
  BY DEF Begins, Write
<1>2. Typed(s, server[s]) /\ Sound(s, server[s])
  BY DEF ServersInv
<1>3. PICK x : x = [server[s] EXCEPT !.behind = Peers(s)]
  OBVIOUS
<1>4. /\ DOMAIN x = Fields
      /\ x.up = server[s].up /\ x.hasLog = server[s].hasLog /\ x.role = server[s].role
      /\ x.votedFor = server[s].votedFor /\ x.term = server[s].term
      /\ x.heard = server[s].heard
      /\ x.votes = server[s].votes /\ x.behind = Peers(s)
      /\ x.electionDue = server[s].electionDue
      /\ x.heartbeatDue = server[s].heartbeatDue /\ x.rpcDue = server[s].rpcDue
  BY <1>2, <1>3 DEF Typed, Fields
<1>5. Typed(s, x)
  BY <1>2, <1>4 DEF Typed
<1>6. Sound(s, x)
  BY <1>2, <1>4 DEF Sound
<1>7. x.role = "LEADER" /\ ProcessTimeout(s, x, channel[s], Election)
  BY <1>3, <1>4 DEF Write
<1> QED  BY <1>1, <1>4, <1>5, <1>6, <1>7, SilentTurn

LEMMA ReceiveTurn ==
    ASSUME ServersInv, ChannelsInv, NEW s \in Server, NEW p \in Peers(s),
           NEW draw \in Draws, Receive(p, s, draw)
    PROVE  TakesTurn(s)
<1>1. PICK m : m = Head(channel[p][s])
  OBVIOUS
<1>2. PICK o \in Handle(p, TermCheck(server[s], m.term, draw), m, draw) :
         LET w == Elected(s, o[1], draw)
             out == [channel[s] EXCEPT ![p] = @ \o o[2]]
         IN  /\ w.term <= MaxTerm
             /\ server'  = [server EXCEPT ![s] = Rearmed(s, w)]
             /\ channel' = [channel EXCEPT ![s] = Requests(s, w, out), ![p][s] = Tail(@)]
  BY <1>1 DEF Receive
<1>3. PICK x : x = o[1]
  OBVIOUS
<1>4. PICK c : c = [channel[s] EXCEPT ![p] = @ \o o[2]]
  OBVIOUS
<1>5. PICK w : w = Elected(s, x, draw)
  OBVIOUS
<1>6. PICK z : z = Rearmed(s, w)
  OBVIOUS
<1>7. PICK d : d = Requests(s, w, c)
  OBVIOUS
<1>8. /\ w.term <= MaxTerm /\ server' = [server EXCEPT ![s] = z]
      /\ channel' = [channel EXCEPT ![s] = d, ![p][s] = Tail(@)]
  BY <1>2, <1>3, <1>4, <1>5, <1>6, <1>7
<1>9. p \in Server /\ channel[p][s] \in Seq(Messages) /\ channel[p][s] # << >>
  BY DEF ChannelsInv, Receive, Peers
<1>10. m \in Messages
  BY <1>1, <1>9
<1>11. Typed(s, server[s]) /\ Sound(s, server[s]) /\ server[s].term <= MaxTerm
  BY DEF ServersInv
<1>12. Handled(s, p, server[s], m, o)
  BY <1>2, <1>10, <1>11, ReceiveHandled
<1>13. Typed(s, x) /\ Sound(s, x)
  BY <1>3, <1>12 DEF Handled
<1>14. DOMAIN c = Server
  BY <1>4 DEF ChannelsInv
<1>15. Acts(s, x, z, c, d)
  BY <1>5, <1>6, <1>7, <1>8, <1>13, <1>14, TimeoutActs
<1>16. z.term <= MaxTerm
  <2>1. Typed(s, w) /\ Sound(s, w)
    BY <1>5, <1>13, ElectedFields
  <2> QED  BY <1>6, <1>8, <2>1, RearmedFields
<1>17. Hears(p, s, m, d)
  BY <1>1, <1>8, <1>9 DEF Hears
<1>18. Begins(s, server[s])
  BY DEF Begins, Receive
<1>19. Acts(s, o[1], z, [channel[s] EXCEPT ![p] = @ \o o[2]], d)
  BY <1>3, <1>4, <1>15
<1>20. p # s
  BY DEF Peers
<1> QED  BY <1>8, <1>12, <1>16, <1>17, <1>18, <1>19, <1>20 DEF TakesTurn, Turn

-----------------------------------------------------------------------------
(* What a turn does to the channels. *)

Replies(p, x) == {r \in NewMessages : Reply(p, x, r)}
RequestsOf(z) ==
    {r \in NewMessages : /\ r.term = z.term
                         /\ r.type = IF z.role = "LEADER" THEN "AppendEntriesRequest"
                                                          ELSE "RequestVoteRequest"}
\* What may be sent to q in a turn that answers p.
News(q, p, x, z) == IF q = p THEN Replies(p, x) \cup RequestsOf(z) ELSE RequestsOf(z)

\* d is c with messages of N added at its end.
Added(c, d, N) ==
    /\ d \in Seq(Messages) /\ Len(c) <= Len(d)
    /\ \A i \in 1..Len(c) : d[i] = c[i]
    /\ \A i \in 1..Len(d) : i > Len(c) => d[i] \in N

OtherRows(s, p, m) ==
    \A q \in Server \ {s}, r \in Server :
        \/ channel'[q][r] = channel[q][r]
        \/ /\ q = p /\ r = s /\ channel[q][r] # << >> /\ m = Head(channel[q][r])
           /\ channel'[q][r] = Tail(channel[q][r])

LEMMA AddedNothing ==
    ASSUME NEW c \in Seq(Messages), NEW N
    PROVE  Added(c, c, N)
BY DEF Added

LEMMA AddedOne ==
    ASSUME NEW c \in Seq(Messages), NEW d, NEW N \in SUBSET NewMessages, NEW M, N \subseteq M,
           Added(c, d, M), NEW r \in N
    PROVE  Added(c, Append(d, r), M)
<1>1. r \in Messages /\ r \in M
  BY DEF NewMessages
<1>2. d \in Seq(Messages)
  BY DEF Added
<1>3. PICK e : e = Append(d, r)
  OBVIOUS
<1>4. /\ e \in Seq(Messages) /\ Len(e) = Len(d) + 1
      /\ \A i \in 1..Len(d) : e[i] = d[i]
      /\ e[Len(d) + 1] = r
  BY <1>1, <1>2, <1>3
<1>5. Len(c) \in Nat /\ Len(d) \in Nat
  BY <1>2
<1>6. /\ Len(c) <= Len(d) /\ \A i \in 1..Len(c) : d[i] = c[i]
      /\ \A i \in 1..Len(d) : i > Len(c) => d[i] \in M
  BY DEF Added
<1>7. ASSUME NEW i \in 1..Len(c) PROVE e[i] = c[i]
  <2>1. i \in 1..Len(d)
    BY <1>5, <1>6
  <2> QED  BY <1>4, <1>6, <2>1
<1>8. ASSUME NEW i \in 1..Len(e), i > Len(c) PROVE e[i] \in M
  <2>1. CASE i \in 1..Len(d)
    BY <1>4, <1>6, <1>8, <2>1
  <2>2. CASE i = Len(d) + 1
    BY <1>1, <1>4, <2>2
  <2> QED  BY <1>4, <1>5, <2>1, <2>2
<1>9. Len(c) <= Len(e)
  BY <1>4, <1>5, <1>6
<1>10. Added(c, e, M)
  BY <1>4, <1>7, <1>8, <1>9 DEF Added
<1> QED  BY <1>3, <1>10

LEMMA TurnRows ==
    ASSUME ChannelsInv, NEW s \in Server, NEW v, NEW p, NEW m, NEW o, NEW z, NEW d,
           Turn(s, v, p, m, o, z, d)
    PROVE  /\ d \in [Server -> Seq(Messages)] /\ d[s] = << >>
           /\ \A q \in Server : Added(channel[s][q], d[q], News(q, p, o[1], z))
<1>1. PICK x : x = o[1]
  OBVIOUS
<1>2. PICK c : c = [channel[s] EXCEPT ![p] = @ \o o[2]]
  OBVIOUS
<1>3. p \in Server /\ (p = s => o[2] = << >>)
  BY DEF Turn, Hears, Peers
<1>4. channel[s] \in [Server -> Seq(Messages)] /\ channel[s][s] = << >>
  BY DEF ChannelsInv
<1>5. o[2] = << >> \/ \E r \in NewMessages : o[2] = <<r>> /\ Reply(p, x, r)
  BY <1>1 DEF Turn, Handled
<1>6. ASSUME NEW q \in Server PROVE Added(channel[s][q], c[q], News(q, p, x, z))
  <2>1. CASE q # p
    <3>1. c[q] = channel[s][q]
      BY <1>2, <1>4, <2>1
    <3> QED  BY <1>4, <3>1, AddedNothing
  <2>2. CASE q = p
    <3>1. c[q] = channel[s][q] \o o[2]
      BY <1>2, <1>3, <1>4, <2>2
    <3>2. CASE o[2] = << >>
      <4>1. c[q] = channel[s][q]
        BY <1>4, <3>1, <3>2
      <4> QED  BY <1>4, <4>1, AddedNothing
    <3>3. CASE \E r \in NewMessages : o[2] = <<r>> /\ Reply(p, x, r)
      <4>1. PICK r \in NewMessages : o[2] = <<r>> /\ Reply(p, x, r)
        BY <3>3
      <4>2. r \in Messages
        BY DEF NewMessages
      <4>3. channel[s][q] \in Seq(Messages)
        BY <1>4
      <4>4. c[q] = Append(channel[s][q], r)
        BY <3>1, <4>1, <4>2, <4>3
      <4>5. r \in Replies(p, x) /\ Replies(p, x) \in SUBSET NewMessages
        BY <4>1 DEF Replies
      <4>6. Replies(p, x) \subseteq News(q, p, x, z)
        BY <2>2 DEF News
      <4>7. Added(channel[s][q], channel[s][q], News(q, p, x, z))
        BY <4>3, AddedNothing
      <4> QED  BY <4>3, <4>4, <4>5, <4>6, <4>7, AddedOne
    <3> QED  BY <1>5, <3>2, <3>3
  <2> QED  BY <2>1, <2>2
<1>7. Acts(s, x, z, c, d)
  BY <1>1, <1>2 DEF Turn
<1>8. ASSUME NEW q \in Server PROVE Added(channel[s][q], d[q], News(q, p, x, z))
  <2>1. CASE d[q] = c[q]
    BY <1>6, <2>1
  <2>2. CASE RequestAdded(c[q], d[q], z)
    <3>1. PICK r \in NewMessages :
             /\ d[q] = Append(c[q], r) /\ r.term = z.term
             /\ r.type = IF z.role = "LEADER" THEN "AppendEntriesRequest"
                                              ELSE "RequestVoteRequest"
      BY <2>2 DEF RequestAdded
    <3>2. r \in RequestsOf(z) /\ RequestsOf(z) \in SUBSET NewMessages
      BY <3>1 DEF RequestsOf
    <3>3. RequestsOf(z) \subseteq News(q, p, x, z)
      BY DEF News
    <3>4. channel[s][q] \in Seq(Messages)
      BY <1>4
    <3> QED  BY <1>6, <3>1, <3>2, <3>3, <3>4, AddedOne
  <2> QED  BY <1>7, <2>1, <2>2 DEF Acts
<1>9. d = [q \in Server |-> d[q]] /\ d[s] = c[s]
  BY <1>7 DEF Acts
<1>10. d \in [Server -> Seq(Messages)]
  <2>1. \A q \in Server : d[q] \in Seq(Messages)
    BY <1>8 DEF Added
  <2> QED  BY <1>9, <2>1
<1>11. d[s] = << >>
  <2>1. CASE p = s
    <3>1. o[2] = << >>
      BY <1>3, <2>1
    <3>2. channel[s][s] \o o[2] = << >>
      BY <1>4, <3>1
    <3>3. c[s] = channel[s][s] \o o[2]
      BY <1>2, <1>4, <2>1
    <3> QED  BY <1>9, <3>2, <3>3
  <2>2. CASE p # s
    BY <1>2, <1>4, <1>9, <2>2
  <2> QED  BY <2>1, <2>2
<1> QED  BY <1>1, <1>8, <1>10, <1>11

\* The rows of the channels after a turn of s, whose row becomes d.
LEMMA HearsRows ==
    ASSUME ChannelsInv, NEW s \in Server, NEW p, NEW m, NEW d, Hears(p, s, m, d),
           d \in [Server -> Seq(Messages)], d[s] = << >>
    PROVE  ChannelsInv' /\ channel'[s] = d /\ OtherRows(s, p, m)
<1>1. channel \in [Server -> [Server -> Seq(Messages)]]
  BY DEF ChannelsInv
<1>2. CASE p = s /\ m = Silence /\ channel' = [channel EXCEPT ![s] = d]
  <2>1. ChannelsInv'
    BY <1>2 DEF ChannelsInv
  <2>2. channel'[s] = d
    BY <1>1, <1>2
  <2>3. OtherRows(s, p, m)
    BY <1>1, <1>2 DEF OtherRows
  <2> QED  BY <2>1, <2>2, <2>3
<1>3. CASE /\ p \in Peers(s) /\ channel[p][s] # << >> /\ m = Head(channel[p][s])
           /\ channel' = [channel EXCEPT ![s] = d, ![p][s] = Tail(@)]
  <2>1. p \in Server /\ p # s
    BY <1>3 DEF Peers
  <2>2. Tail(channel[p][s]) \in Seq(Messages)
    BY <1>1, <1>3, <2>1
  <2>3. PICK row : row = [channel[p] EXCEPT ![s] = Tail(@)]
    OBVIOUS
  <2>4. row \in [Server -> Seq(Messages)] /\ row[s] = Tail(channel[p][s])
        /\ \A r \in Server : r # s => row[r] = channel[p][r]
    BY <1>1, <2>1, <2>2, <2>3
  <2>5. channel' = [channel EXCEPT ![s] = d, ![p] = row]
    BY <1>1, <1>3, <2>1, <2>3
  <2>6. /\ channel' \in [Server -> [Server -> Seq(Messages)]]
        /\ channel'[s] = d /\ channel'[p] = row
        /\ \A q \in Server : q \notin {s, p} => channel'[q] = channel[q]
    BY <1>1, <2>1, <2>4, <2>5
  <2>7. ChannelsInv'
    <3> SUFFICES ASSUME NEW q \in Server PROVE channel'[q][q] = << >>
      BY <2>6 DEF ChannelsInv
    <3>1. CASE q = s
      BY <2>6, <3>1
    <3>2. CASE q = p
      BY <2>1, <2>4, <2>6, <3>2 DEF ChannelsInv
    <3>3. CASE q \notin {s, p}
      BY <2>6, <3>3 DEF ChannelsInv
    <3> QED  BY <3>1, <3>2, <3>3
  <2>8. OtherRows(s, p, m)
    BY <1>3, <2>1, <2>4, <2>6 DEF OtherRows
  <2> QED  BY <2>6, <2>7, <2>8
<1> QED  BY <1>2, <1>3 DEF Hears

LEMMA TurnChannels ==
    ASSUME ChannelsInv, NEW s \in Server, NEW v, NEW p, NEW m, NEW o, NEW z, NEW d,
           Turn(s, v, p, m, o, z, d)
    PROVE  ChannelsInv' /\ channel'[s] = d /\ OtherRows(s, p, m)
<1>1. d \in [Server -> Seq(Messages)] /\ d[s] = << >>
  BY TurnRows
<1>2. Hears(p, s, m, d)
  BY DEF Turn
<1> QED  BY <1>1, <1>2, HearsRows

-----------------------------------------------------------------------------
(* Types and pace: the steps of one server. *)

\* A term in which a server stands or leads is new to it, or it stood in it.
Ascends(u, z) ==
    /\ z.up /\ z.term >= u.term
    /\ z.term = u.term /\ z.role = "CANDIDATE" => u.role = "CANDIDATE"
    /\ z.term = u.term /\ z.role = "LEADER" => u.role \in {"CANDIDATE", "LEADER"}

LEMMA TurnAscends ==
    ASSUME ServersInv, NEW s \in Server, NEW v, NEW p, NEW m, NEW o, NEW z, NEW d,
           Turn(s, v, p, m, o, z, d)
    PROVE  /\ Typed(s, z) /\ Sound(s, z) /\ z.term <= MaxTerm
           /\ Ascends(server[s], z) /\ (server[s].hasLog => z.hasLog)
<1>1. Begins(s, v) /\ z.term <= MaxTerm /\ v.up
  BY DEF Turn, Begins
<1>2. /\ v.role = server[s].role /\ v.term = server[s].term /\ v.term \in Nat
      /\ v.role \in {"FOLLOWER", "CANDIDATE", "LEADER"}
      /\ v.hasLog = server[s].hasLog
  BY <1>1, BeginsFields DEF Typed
<1>3. PICK x : x = o[1]
  OBVIOUS
<1>4. Follows(v, x) /\ x.term \in Nat /\ x.role \in {"FOLLOWER", "CANDIDATE", "LEADER"}
  BY <1>3 DEF Turn, Handled, Typed
<1>5. /\ Typed(s, z) /\ Sound(s, z) /\ z.up = x.up
      /\ x.hasLog => z.hasLog
      /\ Remains(x, z) \/ Stands(s, x, z) \/ Wins(s, x, z)
  BY <1>3 DEF Turn, Acts
<1>6. z.term \in Nat /\ z.up
  BY <1>1, <1>4, <1>5 DEF Typed, Follows
<1>7. CASE Remains(x, z)
  BY <1>1, <1>2, <1>4, <1>5, <1>6, <1>7 DEF Remains, Follows, Ascends
<1>8. CASE Stands(s, x, z)
  BY <1>1, <1>2, <1>4, <1>5, <1>6, <1>8 DEF Stands, Follows, Ascends
<1>9. CASE Wins(s, x, z)
  <2>1. z.role = "LEADER" /\ (z.term = x.term + 1 \/ (x.role = "CANDIDATE" /\ z.term = x.term))
    BY <1>9 DEF Wins
  <2> QED  BY <1>1, <1>2, <1>4, <1>5, <1>6, <2>1 DEF Follows, Ascends
<1>10. server[s].hasLog => z.hasLog
  BY <1>2, <1>4, <1>5 DEF Follows
<1> QED  BY <1>5, <1>7, <1>8, <1>9, <1>10

LEMMA TurnServers ==
    ASSUME ServersInv, NEW s \in Server, NEW v, NEW p, NEW m, NEW o, NEW z, NEW d,
           Turn(s, v, p, m, o, z, d)
    PROVE  /\ ServersInv' /\ server'[s] = z
           /\ \A q \in Server : q # s => server'[q] = server[q]
<1>1. server' = [server EXCEPT ![s] = z] /\ DOMAIN server = Server
  BY DEF Turn, ServersInv
<1>2. /\ DOMAIN server' = Server /\ server'[s] = z
      /\ \A q \in Server : q # s => server'[q] = server[q]
  BY <1>1
<1>3. Typed(s, z) /\ Sound(s, z) /\ z.term <= MaxTerm /\ z.up
  BY TurnAscends DEF Ascends
<1>4. ServersInv'
  <2> SUFFICES ASSUME NEW q \in Server
               PROVE  /\ Typed(q, server'[q]) /\ server'[q].term <= MaxTerm
                      /\ Sound(q, server'[q])
                      /\ ~server'[q].up => Resting(server'[q])
    BY <1>2 DEF ServersInv
  <2> QED  BY <1>2, <1>3 DEF ServersInv
<1> QED  BY <1>2, <1>4

\* Server s is in pace when its state is the same and what it is sent is, too,
\* or sent in this tick.
LEMMA StaysOnTime ==
    ASSUME ChannelsInv, NEW q \in Server, server'[q] = server[q], OnTime(q),
           \A p \in Peers(q) : \A i \in 1..Len(channel'[p][q]) :
              \/ channel'[p][q][i].age = 0
              \/ i \in 1..Len(channel[p][q]) /\ channel'[p][q][i] = channel[p][q][i]
    PROVE  OnTime(q)'
<1>1. Waits(q)' = Waits(q)
  BY DEF Waits
<1>2. \A d \in Waits(q)' : d > -Poll
  BY <1>1 DEF OnTime
<1>3. ASSUME NEW p \in Peers(q), NEW i \in 1..Len(channel'[p][q])
      PROVE  channel'[p][q][i].age < Delay
  <2>1. CASE channel'[p][q][i].age = 0
    BY <2>1, Times0
  <2>2. CASE i \in 1..Len(channel[p][q]) /\ channel'[p][q][i] = channel[p][q][i]
    BY <2>2 DEF OnTime
  <2> QED  BY <2>1, <2>2
<1> QED  BY <1>2, <1>3 DEF OnTime

LEMMA TurnClock ==
    ASSUME ClockInv, NEW s \in Server, TakesTurn(s), turn' = turn
    PROVE  ServersInv' /\ ChannelsInv' /\ PassedInv'
<1>1. PICK v, p, m, o, z, d : Turn(s, v, p, m, o, z, d)
  BY DEF TakesTurn
<1>2. ServersInv' /\ \A q \in Server : q # s => server'[q] = server[q]
  BY <1>1, TurnServers DEF ClockInv
<1>3. ChannelsInv' /\ channel'[s] = d /\ OtherRows(s, p, m)
  BY <1>1, TurnChannels DEF ClockInv
<1>4. \A q \in Server : Added(channel[s][q], d[q], News(q, p, o[1], z))
  BY <1>1, TurnRows DEF ClockInv
<1>5. turn = s
  BY <1>1 DEF Turn, Begins
<1>6. ASSUME NEW q \in Server, q < turn', server'[q].up PROVE OnTime(q)'
  <2>1. q # s /\ server'[q] = server[q] /\ OnTime(q)
    BY <1>2, <1>5, <1>6, Times0 DEF ClockInv, PassedInv
  <2>2. ASSUME NEW r \in Peers(q), NEW i \in 1..Len(channel'[r][q])
        PROVE  \/ channel'[r][q][i].age = 0
               \/ i \in 1..Len(channel[r][q]) /\ channel'[r][q][i] = channel[r][q][i]
    <3>1. CASE r = s
      <4>1. Added(channel[s][q], channel'[s][q], News(q, p, o[1], z))
        BY <1>3, <1>4
      <4>2. channel[s][q] \in Seq(Messages)
        BY DEF ClockInv, ChannelsInv
      <4>3. CASE i <= Len(channel[s][q])
        BY <3>1, <4>1, <4>2, <4>3 DEF Added
      <4>4. CASE i > Len(channel[s][q])
        <5>1. channel'[r][q][i] \in News(q, p, o[1], z)
          BY <3>1, <4>1, <4>4 DEF Added
        <5>2. News(q, p, o[1], z) \subseteq NewMessages
          BY DEF News, Replies, RequestsOf
        <5> QED  BY <5>1, <5>2 DEF NewMessages
      <4> QED  BY <4>2, <4>3, <4>4
    <3>2. CASE r # s
      <4>1. channel'[r][q] = channel[r][q]
        BY <1>3, <2>1, <3>2 DEF OtherRows, Peers
      <4> QED  BY <4>1
    <3> QED  BY <3>1, <3>2
  <2> QED  BY <2>1, <2>2, StaysOnTime DEF ClockInv
<1> QED  BY <1>2, <1>3, <1>6 DEF PassedInv

\* What is left of s when it stops.
Stopped(s) ==
    [Fresh(s) EXCEPT !.term = server[s].term, !.votedFor = server[s].votedFor,
                     !.hasLog = server[s].hasLog]

LEMMA StoppedFields ==
    ASSUME ServersInv, NEW s \in Server
    PROVE  /\ Typed(s, Stopped(s)) /\ Sound(s, Stopped(s))
           /\ ~Stopped(s).up /\ Stopped(s).role = "FOLLOWER" /\ Stopped(s).heard = 0
           /\ Stopped(s).term = server[s].term /\ Stopped(s).votedFor = server[s].votedFor
<1>1. Typed(s, server[s])
  BY DEF ServersInv
<1>2. PICK w : w = Stopped(s)
  OBVIOUS
<1>3. /\ DOMAIN w = Fields
      /\ w.up \in BOOLEAN /\ ~w.up /\ w.hasLog = server[s].hasLog /\ w.role = "FOLLOWER"
      /\ w.votedFor = server[s].votedFor /\ w.term = server[s].term /\ w.heard = 0
      /\ w.votes = {} /\ w.behind = {} /\ w.electionDue = 0
      /\ w.heartbeatDue = ForPeers(s, 0) /\ w.rpcDue = ForPeers(s, 0)
  BY <1>2 DEF Stopped, Fresh, Fields
<1>4. ForPeers(s, 0) \in [Peers(s) -> Times] /\ 0 \in Times
  BY InTimes DEF ForPeers
<1>5. Typed(s, w)
  BY <1>1, <1>3, <1>4 DEF Typed
<1>6. Sound(s, w)
  BY <1>3, Times0 DEF Sound
<1> QED  BY <1>2, <1>3, <1>5, <1>6

LEMMA FreshFields ==
    ASSUME NEW s \in Server
    PROVE  /\ Typed(s, Fresh(s)) /\ Sound(s, Fresh(s))
           /\ ~Fresh(s).up /\ Fresh(s).role = "FOLLOWER" /\ Fresh(s).heard = 0
           /\ Fresh(s).term = 1 /\ Fresh(s).votedFor = Nil
<1>1. PICK w : w = Fresh(s)
  OBVIOUS
<1>2. /\ DOMAIN w = Fields
      /\ w.up \in BOOLEAN /\ ~w.up /\ w.hasLog \in BOOLEAN /\ w.role = "FOLLOWER"
      /\ w.votedFor = Nil /\ w.term = 1 /\ w.heard = 0
      /\ w.votes = {} /\ w.behind = {} /\ w.electionDue = 0
      /\ w.heartbeatDue = ForPeers(s, 0) /\ w.rpcDue = ForPeers(s, 0)
  BY <1>1 DEF Fresh, Fields
<1>3. ForPeers(s, 0) \in [Peers(s) -> Times] /\ 0 \in Times
  BY InTimes DEF ForPeers
<1>4. Typed(s, w)
  BY <1>2, <1>3 DEF Typed
<1>5. Sound(s, w)
  BY <1>2, Times0 DEF Sound
<1> QED  BY <1>1, <1>2, <1>4, <1>5

\* s stops: what others had for it is lost, of what it sent a part is left.
StopRows(s) ==
    /\ channel' \in [Server -> [Server -> Seq(Messages)]]
    /\ \A q \in Server : channel'[q][s] = << >>
    /\ \A q \in Server \ {s} :
          /\ Len(channel'[s][q]) <= Len(channel[s][q])
          /\ \A i \in 1..Len(channel'[s][q]) : channel'[s][q][i] = channel[s][q][i]
    /\ \A q, r \in Server \ {s} : channel'[q][r] = channel[q][r]

LEMMA StopChannels ==
    ASSUME ChannelsInv, NEW s \in Server, Stop(s)
    PROVE  StopRows(s) /\ ChannelsInv'
<1>1. PICK k \in [Peers(s) -> 0..1] :
         /\ \A p \in Peers(s) : k[p] <= Len(channel[s][p])
         /\ channel' = [p \in Server |-> [q \in Server |->
               IF q = s THEN << >>
               ELSE IF p = s THEN SubSeq(channel[p][q], 1, k[q]) ELSE channel[p][q]]]
  BY DEF Stop
<1>2. channel \in [Server -> [Server -> Seq(Messages)]]
  BY DEF ChannelsInv
<1>3. ASSUME NEW q \in Server \ {s}
      PROVE  /\ SubSeq(channel[s][q], 1, k[q]) \in Seq(Messages)
             /\ Len(SubSeq(channel[s][q], 1, k[q])) <= Len(channel[s][q])
             /\ \A i \in 1..Len(SubSeq(channel[s][q], 1, k[q])) :
                   SubSeq(channel[s][q], 1, k[q])[i] = channel[s][q][i]
  <2>1. PICK n : n = k[q]
    OBVIOUS
  <2>2. PICK c : c = channel[s][q]
    OBVIOUS
  <2>3. n \in Nat /\ n <= Len(c) /\ c \in Seq(Messages)
    <3>1. q \in Peers(s) /\ q \in Server
      BY DEF Peers
    <3>2. n \in 0..1 /\ n <= Len(c)
      BY <1>1, <2>1, <2>2, <3>1
    <3>3. c \in Seq(Messages)
      BY <1>2, <2>2, <3>1
    <3> QED  BY <3>2, <3>3
  <2>4. /\ SubSeq(c, 1, n) \in Seq(Messages) /\ Len(SubSeq(c, 1, n)) = n
        /\ \A i \in 1..n : SubSeq(c, 1, n)[i] = c[i]
    BY <2>3
  <2> QED  BY <2>1, <2>2, <2>3, <2>4
<1>4. \A p, q \in Server :
         channel'[p][q] = IF q = s THEN << >>
                          ELSE IF p = s THEN SubSeq(channel[s][q], 1, k[q])
                          ELSE channel[p][q]
  BY <1>1
<1>5. ASSUME NEW p \in Server, NEW q \in Server PROVE channel'[p][q] \in Seq(Messages)
  <2>1. CASE q = s
    <3>1. channel'[p][q] = << >>
      BY <1>4, <2>1
    <3> QED  BY <3>1
  <2>2. CASE q # s /\ p = s
    BY <1>3, <1>4, <2>2
  <2>3. CASE q # s /\ p # s
    BY <1>2, <1>4, <2>3
  <2> QED  BY <2>1, <2>2, <2>3
<1>6. channel' \in [Server -> [Server -> Seq(Messages)]]
  <2>1. \A p \in Server : channel'[p] \in [Server -> Seq(Messages)]
    <3> SUFFICES ASSUME NEW p \in Server PROVE channel'[p] \in [Server -> Seq(Messages)]
      OBVIOUS
    <3>1. channel'[p] = [q \in Server |->
               IF q = s THEN << >>
               ELSE IF p = s THEN SubSeq(channel[p][q], 1, k[q]) ELSE channel[p][q]]
      BY <1>1
    <3>2. channel'[p] = [q \in Server |-> channel'[p][q]]
      BY <3>1
    <3> QED  BY <1>5, <3>2
  <2>2. channel' = [p \in Server |-> channel'[p]]
    BY <1>1
  <2> QED  BY <2>1, <2>2
<1>7. StopRows(s)
  <2>1. \A q \in Server : channel'[q][s] = << >>
    BY <1>4
  <2>2. \A q \in Server \ {s} :
          /\ Len(channel'[s][q]) <= Len(channel[s][q])
          /\ \A i \in 1..Len(channel'[s][q]) : channel'[s][q][i] = channel[s][q][i]
    <3> SUFFICES ASSUME NEW q \in Server \ {s}
                 PROVE  /\ Len(channel'[s][q]) <= Len(channel[s][q])
                        /\ \A i \in 1..Len(channel'[s][q]) :
                              channel'[s][q][i] = channel[s][q][i]
      OBVIOUS
    <3>1. channel'[s][q] = SubSeq(channel[s][q], 1, k[q])
      BY <1>4
    <3> QED  BY <1>3, <3>1
  <2>3. \A q, r \in Server \ {s} : channel'[q][r] = channel[q][r]
    <3> SUFFICES ASSUME NEW q \in Server, NEW r \in Server, q # s, r # s
                 PROVE  channel'[q][r] = channel[q][r]
      OBVIOUS
    <3> QED  BY <1>4
  <2> QED  BY <1>6, <2>1, <2>2, <2>3 DEF StopRows
<1>8. ChannelsInv'
  BY <1>7 DEF StopRows, ChannelsInv
<1> QED  BY <1>7, <1>8

LEMMA StopClock ==
    ASSUME ClockInv, NEW s \in Server, Stop(s)
    PROVE  /\ ClockInv' /\ server'[s] = Stopped(s)
           /\ \A q \in Server : q # s => server'[q] = server[q]
<1>1. /\ turn = s /\ turn' = turn /\ stopped' = stopped \cup {s}
      /\ server' = [server EXCEPT ![s] = Stopped(s)]
      /\ first' = first /\ sinceStart' = sinceStart /\ leaderless' = leaderless
  BY DEF Stop, Stopped
<1>2. DOMAIN server = Server
  BY DEF ClockInv, ServersInv
<1>3. /\ DOMAIN server' = Server /\ server'[s] = Stopped(s)
      /\ \A q \in Server : q # s => server'[q] = server[q]
  BY <1>1, <1>2
<1>4. /\ Typed(s, Stopped(s)) /\ Sound(s, Stopped(s)) /\ Stopped(s).term <= MaxTerm
      /\ Resting(Stopped(s))
  <2>1. server[s].term <= MaxTerm
    BY DEF ClockInv, ServersInv
  <2> QED  BY <2>1, StoppedFields DEF ClockInv, Resting
<1>5. ServersInv'
  <2> SUFFICES ASSUME NEW q \in Server
               PROVE  /\ Typed(q, server'[q]) /\ server'[q].term <= MaxTerm
                      /\ Sound(q, server'[q])
                      /\ ~server'[q].up => Resting(server'[q])
    BY <1>3 DEF ServersInv
  <2> QED  BY <1>3, <1>4 DEF ClockInv, ServersInv
<1>6. StopRows(s) /\ ChannelsInv'
  BY StopChannels DEF ClockInv
<1>7. RestInv'
  BY <1>1 DEF ClockInv, RestInv
<1>8. ASSUME NEW q \in Server, q < turn', server'[q].up PROVE OnTime(q)'
  <2>1. q # s /\ server'[q] = server[q] /\ OnTime(q)
    BY <1>1, <1>3, <1>8, Times0 DEF ClockInv, PassedInv
  <2>2. ASSUME NEW r \in Peers(q), NEW i \in 1..Len(channel'[r][q])
        PROVE  i \in 1..Len(channel[r][q]) /\ channel'[r][q][i] = channel[r][q][i]
    <3>1. r \in Server /\ channel[r][q] \in Seq(Messages) /\ channel'[r][q] \in Seq(Messages)
      BY <1>6 DEF ClockInv, ChannelsInv, Peers
    <3>2. Len(channel'[r][q]) <= Len(channel[r][q])
          /\ \A j \in 1..Len(channel'[r][q]) : channel'[r][q][j] = channel[r][q][j]
      <4>1. CASE r = s
        BY <1>6, <2>1, <4>1 DEF StopRows
      <4>2. CASE r # s
        <5>1. channel'[r][q] = channel[r][q]
          BY <1>6, <2>1, <3>1, <4>2 DEF StopRows
        <5>2. Len(channel[r][q]) \in Nat
          BY <3>1
        <5> QED  BY <5>1, <5>2
      <4> QED  BY <4>1, <4>2
    <3>3. Len(channel[r][q]) \in Nat /\ Len(channel'[r][q]) \in Nat
      BY <3>1
    <3> QED  BY <3>2, <3>3
  <2> QED  BY <2>1, <2>2, StaysOnTime DEF ClockInv
<1> QED  BY <1>3, <1>5, <1>6, <1>7, <1>8 DEF ClockInv, PassedInv

LEMMA LoseRows ==
    ASSUME ChannelsInv, NEW s \in Server, NEW p \in Server, Lose(s, p)
    PROVE  /\ ChannelsInv' /\ channel[s][p] # << >> /\ channel'[s][p] = Tail(channel[s][p])
           /\ \A q, r \in Server : q # s \/ r # p => channel'[q][r] = channel[q][r]
<1>1. /\ channel[s][p] # << >> /\ channel \in [Server -> [Server -> Seq(Messages)]]
      /\ channel' = [channel EXCEPT ![s][p] = Tail(@)]
      /\ \A q \in Server : channel[q][q] = << >>
  BY DEF Lose, ChannelsInv
<1>2. s # p
  BY <1>1
<1>3. channel[s][p] \in Seq(Messages) /\ Tail(channel[s][p]) \in Seq(Messages)
  BY <1>1
<1>4. channel' \in [Server -> [Server -> Seq(Messages)]]
  BY <1>1, <1>3
<1>5. /\ channel'[s][p] = Tail(channel[s][p])
      /\ \A q, r \in Server : q # s \/ r # p => channel'[q][r] = channel[q][r]
  BY <1>1
<1>6. \A q \in Server : channel'[q][q] = << >>
  BY <1>1, <1>2, <1>5
<1> QED  BY <1>1, <1>4, <1>5, <1>6 DEF ChannelsInv

LEMMA LoseClock ==
    ASSUME ClockInv, NEW s \in Server, NEW p \in Server, Lose(s, p)
    PROVE  ClockInv'
<1>1. /\ turn = p /\ turn' = turn /\ server' = server /\ stopped' = stopped
      /\ first' = first /\ sinceStart' = sinceStart /\ leaderless' = leaderless
  BY DEF Lose
<1>2. /\ ChannelsInv'
      /\ \A q, r \in Server : q # s \/ r # p => channel'[q][r] = channel[q][r]
  BY LoseRows DEF ClockInv
<1>3. ASSUME NEW q \in Server, q < turn', server'[q].up PROVE OnTime(q)'
  <2>1. q # p /\ server'[q] = server[q] /\ OnTime(q)
    BY <1>1, <1>3, Times0 DEF ClockInv, PassedInv
  <2>2. ASSUME NEW r \in Peers(q), NEW i \in 1..Len(channel'[r][q])
        PROVE  i \in 1..Len(channel[r][q]) /\ channel'[r][q][i] = channel[r][q][i]
    BY <1>2, <2>1 DEF Peers
  <2> QED  BY <2>1, <2>2, StaysOnTime DEF ClockInv
<1> QED  BY <1>1, <1>2, <1>3 DEF ClockInv, ServersInv, RestInv, PassedInv

\* Only a server in pace passes.
LEMMA PassedOnTime ==
    ASSUME NEW s \in Server, InPace(s), server[s].up
    PROVE  OnTime(s)
BY DEF InPace, OnTime

LEMMA PassClock ==
    ASSUME ClockInv, Pass
    PROVE  ClockInv'
<1>1. /\ turn < Servers /\ InPace(turn) /\ turn' = turn + 1
      /\ server' = server /\ channel' = channel /\ stopped' = stopped
      /\ first' = first /\ sinceStart' = sinceStart /\ leaderless' = leaderless
  BY DEF Pass
<1>2. turn \in Server /\ turn' \in Server
  BY <1>1, DeadlineAssumption DEF ClockInv, RestInv, Server
<1>3. ASSUME NEW q \in Server, q < turn', server'[q].up PROVE OnTime(q)'
  <2>1. OnTime(q)
    <3>1. CASE q = turn
      BY <1>1, <1>2, <1>3, <3>1, PassedOnTime
    <3>2. CASE q < turn
      BY <1>1, <1>3, <3>2 DEF ClockInv, PassedInv
    <3> QED  BY <1>1, <1>2, <1>3, <3>1, <3>2, Times0
  <2> QED  BY <1>1, <2>1 DEF OnTime, Waits
<1>4. ServersInv' /\ ChannelsInv' /\ RestInv'
  BY <1>1, <1>2 DEF ClockInv, ServersInv, ChannelsInv, RestInv
<1> QED  BY <1>3, <1>4 DEF ClockInv, PassedInv

-----------------------------------------------------------------------------
(* A tick of the clock. *)

LEMMA LaterFields ==
    ASSUME NEW d \in Times
    PROVE  /\ Later(d) \in Times /\ Later(d) <= d /\ Later(d) >= d - 1
           /\ d > -Poll /\ d # Infinite => Later(d) = d - 1
           /\ d = Infinite => Later(d) = Infinite
BY Times0 DEF Later, Times, MaxOf

LEMMA AllOnTime ==
    ASSUME ClockInv, Tick, NEW s \in Server, server[s].up
    PROVE  OnTime(s)
<1>1. turn = Servers /\ InPace(turn)
  BY DEF Tick
<1>2. CASE s = turn
  BY <1>1, <1>2, PassedOnTime
<1>3. CASE s < turn
  BY <1>3 DEF ClockInv, PassedInv
<1> QED  BY <1>1, <1>2, <1>3, DeadlineAssumption DEF Server

\* A tick brings the deadlines of a server nearer and touches nothing else.
Ticks(s, u, w) ==
    /\ w.up = u.up /\ w.role = u.role /\ w.term = u.term /\ w.heard = u.heard
    /\ w.votedFor = u.votedFor /\ w.votes = u.votes /\ w.hasLog = u.hasLog
    /\ w.electionDue = Later(u.electionDue)
    /\ \A p \in Peers(s) : w.heartbeatDue[p] = Later(u.heartbeatDue[p])

LEMMA TickServers ==
    ASSUME ServersInv, Tick
    PROVE  ServersInv' /\ \A s \in Server : Ticks(s, server[s], server'[s])
<1>1. DOMAIN server' = Server
  BY DEF Tick
<1>2. ASSUME NEW s \in Server
      PROVE  /\ Ticks(s, server[s], server'[s])
             /\ Typed(s, server'[s]) /\ server'[s].term <= MaxTerm /\ Sound(s, server'[s])
             /\ ~server'[s].up => Resting(server'[s])
  <2>1. PICK u : u = server[s]
    OBVIOUS
  <2>2. PICK w : w = server'[s]
    OBVIOUS
  <2>3. PICK beat : beat = [p \in Peers(s) |-> Later(u.heartbeatDue[p])]
    OBVIOUS
  <2>4. PICK rpc : rpc = [p \in Peers(s) |-> Later(u.rpcDue[p])]
    OBVIOUS
  <2>5. PICK due : due = Later(u.electionDue)
    OBVIOUS
  <2>6. /\ Typed(s, u) /\ Sound(s, u) /\ u.term <= MaxTerm
        /\ ~u.up => Resting(u)
    BY <2>1 DEF ServersInv
  <2>7. w = [u EXCEPT !.electionDue = due, !.heartbeatDue = beat, !.rpcDue = rpc]
    BY <2>1, <2>2, <2>3, <2>4, <2>5 DEF Tick
  <2>8. /\ DOMAIN w = Fields
        /\ w.up = u.up /\ w.hasLog = u.hasLog /\ w.role = u.role
        /\ w.votedFor = u.votedFor /\ w.term = u.term /\ w.heard = u.heard
        /\ w.votes = u.votes /\ w.behind = u.behind /\ w.electionDue = due
        /\ w.heartbeatDue = beat /\ w.rpcDue = rpc
    BY <2>6, <2>7 DEF Typed, Fields
  <2>9. /\ due \in Times /\ beat \in [Peers(s) -> Times] /\ rpc \in [Peers(s) -> Times]
        /\ \A p \in Peers(s) : beat[p] = Later(u.heartbeatDue[p])
    BY <2>3, <2>4, <2>5, <2>6, LaterFields DEF Typed
  <2>10. Typed(s, w)
    BY <2>6, <2>8, <2>9 DEF Typed
  <2>11. /\ u.electionDue \in Times
         /\ \A p \in Peers(s) : u.heartbeatDue[p] \in Times
    BY <2>6 DEF Typed
  <2>12. due > 2 * Election => u.electionDue > 2 * Election
    BY <2>5, <2>11, LaterFields, Times0 DEF Times
  <2>13. u.electionDue = Infinite => due = Infinite
    BY <2>5, <2>11, LaterFields
  <2>14. u.role = "LEADER" => \A p \in Peers(s) : beat[p] <= Heartbeat
    <3> SUFFICES ASSUME u.role = "LEADER", NEW p \in Peers(s) PROVE beat[p] <= Heartbeat
      OBVIOUS
    <3>1. u.heartbeatDue[p] <= Heartbeat /\ u.heartbeatDue[p] \in Times
      BY <2>6, <2>11 DEF Sound
    <3>2. beat[p] \in Times /\ beat[p] <= u.heartbeatDue[p]
      BY <2>9, <3>1, LaterFields
    <3> QED  BY <3>1, <3>2, Times0 DEF Times
  <2>15. Sound(s, w)
    BY <2>6, <2>8, <2>12, <2>13, <2>14 DEF Sound
  <2>16. Ticks(s, u, w)
    BY <2>5, <2>8, <2>9 DEF Ticks
  <2> QED  BY <2>1, <2>2, <2>6, <2>8, <2>10, <2>15, <2>16 DEF Resting
<1> QED  BY <1>1, <1>2 DEF ServersInv

\* A tick makes messages older, those to a server that is down by one only.
TickRows ==
    \A s, p \in Server :
        /\ Len(channel'[s][p]) = Len(channel[s][p])
        /\ \A i \in 1..Len(channel[s][p]) :
              /\ channel'[s][p][i].type = channel[s][p][i].type
              /\ channel'[s][p][i].term = channel[s][p][i].term
              /\ channel'[s][p][i].ok = channel[s][p][i].ok
              /\ channel'[s][p][i].age = IF server[p].up THEN channel[s][p][i].age + 1 ELSE 1

Older(m, up) == [m EXCEPT !.age = IF up THEN @ + 1 ELSE 1]

LEMMA OlderType ==
    ASSUME NEW m \in Messages, NEW up \in BOOLEAN, up => m.age < Delay
    PROVE  /\ Older(m, up) \in Messages
           /\ Older(m, up).type = m.type /\ Older(m, up).term = m.term
           /\ Older(m, up).ok = m.ok
           /\ Older(m, up).age = IF up THEN m.age + 1 ELSE 1
BY Times0 DEF Older, Messages

LEMMA TickChannels ==
    ASSUME ClockInv, Tick
    PROVE  ChannelsInv' /\ TickRows
<1>1. channel' = [s \in Server |-> [p \in Server |-> [i \in 1..Len(channel[s][p]) |->
                     Older(channel[s][p][i], server[p].up)]]]
  BY DEF Tick, Older
<1>2. channel \in [Server -> [Server -> Seq(Messages)]]
  BY DEF ClockInv, ChannelsInv
<1>3. ASSUME NEW s \in Server, NEW p \in Server, NEW i \in 1..Len(channel[s][p])
      PROVE  /\ channel[s][p][i] \in Messages /\ server[p].up \in BOOLEAN
             /\ server[p].up => channel[s][p][i].age < Delay
  <2>1. channel[s][p] \in Seq(Messages)
    BY <1>2
  <2>2. channel[s][p][i] \in Messages
    BY <2>1
  <2>3. server[p].up \in BOOLEAN
    BY DEF ClockInv, ServersInv, Typed
  <2>4. s # p
    <3> SUFFICES ASSUME s = p PROVE FALSE
      OBVIOUS
    <3>1. channel[s][p] = << >>
      BY DEF ClockInv, ChannelsInv
    <3> QED  BY <3>1
  <2>5. server[p].up => OnTime(p)
    BY AllOnTime
  <2>6. server[p].up => channel[s][p][i].age < Delay
    BY <2>4, <2>5 DEF OnTime, Peers
  <2> QED  BY <2>2, <2>3, <2>6
<1>4. ASSUME NEW s \in Server, NEW p \in Server
      PROVE  /\ \A i \in 1..Len(channel[s][p]) :
                   channel'[s][p][i] = Older(channel[s][p][i], server[p].up)
             /\ channel'[s][p] \in Seq(Messages)
             /\ Len(channel'[s][p]) = Len(channel[s][p])
  <2>1. channel'[s][p] = [i \in 1..Len(channel[s][p]) |->
                             Older(channel[s][p][i], server[p].up)]
    BY <1>1
  <2>2. \A i \in 1..Len(channel[s][p]) : Older(channel[s][p][i], server[p].up) \in Messages
    BY <1>3, OlderType
  <2>3. Len(channel[s][p]) \in Nat
    BY <1>2
  <2> QED  BY <2>1, <2>2, <2>3
<1>5. channel' \in [Server -> [Server -> Seq(Messages)]]
  <2>1. \A s \in Server : channel'[s] = [p \in Server |-> channel'[s][p]]
    BY <1>1
  <2>2. channel' = [s \in Server |-> channel'[s]]
    BY <1>1
  <2>3. \A s \in Server : channel'[s] \in [Server -> Seq(Messages)]
    BY <1>4, <2>1
  <2> QED  BY <2>2, <2>3
<1>6. \A s \in Server : channel'[s][s] = << >>
  <2> SUFFICES ASSUME NEW s \in Server PROVE channel'[s][s] = << >>
    OBVIOUS
  <2>1. channel[s][s] = << >>
    BY DEF ClockInv, ChannelsInv
  <2>2. Len(channel'[s][s]) = 0 /\ channel'[s][s] \in Seq(Messages)
    BY <1>4, <2>1
  <2> QED  BY <2>2
<1>7. TickRows
  <2> SUFFICES ASSUME NEW s \in Server, NEW p \in Server
               PROVE  /\ Len(channel'[s][p]) = Len(channel[s][p])
                      /\ \A i \in 1..Len(channel[s][p]) :
                           /\ channel'[s][p][i].type = channel[s][p][i].type
                           /\ channel'[s][p][i].term = channel[s][p][i].term
                           /\ channel'[s][p][i].ok = channel[s][p][i].ok
                           /\ channel'[s][p][i].age =
                                 IF server[p].up THEN channel[s][p][i].age + 1 ELSE 1
    BY DEF TickRows
  <2>1. Len(channel'[s][p]) = Len(channel[s][p])
    BY <1>4
  <2>2. ASSUME NEW i \in 1..Len(channel[s][p])
        PROVE  /\ channel'[s][p][i].type = channel[s][p][i].type
               /\ channel'[s][p][i].term = channel[s][p][i].term
               /\ channel'[s][p][i].ok = channel[s][p][i].ok
               /\ channel'[s][p][i].age =
                     IF server[p].up THEN channel[s][p][i].age + 1 ELSE 1
    <3>1. channel'[s][p][i] = Older(channel[s][p][i], server[p].up)
      BY <1>4
    <3> QED  BY <1>3, <3>1, OlderType
  <2> QED  BY <2>1, <2>2
<1> QED  BY <1>5, <1>6, <1>7 DEF ChannelsInv

LEMMA TickClock ==
    ASSUME ClockInv, Tick
    PROVE  ClockInv'
<1>1. ServersInv' /\ ChannelsInv'
  BY TickServers, TickChannels DEF ClockInv
<1>2. turn' = 1 /\ first' = first /\ stopped' = stopped
  BY DEF Tick
<1>3. sinceStart' \in 0..Gap
  <2>1. sinceStart' = MinOf(sinceStart + 1, Gap) /\ sinceStart \in 0..Gap
    BY DEF Tick, ClockInv, RestInv
  <2> QED  BY <2>1, Times0 DEF MinOf
<1>4. leaderless' \in 0..InTime + 1
  <2>1. leaderless' = 0 \/ leaderless' = MinOf(leaderless + 1, InTime + 1)
    BY DEF Tick
  <2>2. leaderless \in 0..InTime + 1
    BY DEF ClockInv, RestInv
  <2> QED  BY <2>1, <2>2, Times0 DEF MinOf
<1>5. RestInv'
  <2>1. 1 \in Server
    BY DeadlineAssumption DEF Server
  <2> QED  BY <1>2, <1>3, <1>4, <2>1 DEF ClockInv, RestInv
<1>6. PassedInv'
  BY <1>2, Times0 DEF PassedInv
<1> QED  BY <1>1, <1>5, <1>6 DEF ClockInv

-----------------------------------------------------------------------------
(* Types, and a deadline for whoever does not lead. *)

LEMMA InitClock ==
    ASSUME Init
    PROVE  ClockInv
<1>1. /\ server = [s \in Server |-> Fresh(s)]
      /\ channel = [s \in Server |-> [p \in Server |-> << >>]]
      /\ turn = 1 /\ first \in Draws
      /\ sinceStart = Gap /\ leaderless = 0 /\ stopped = {}
  BY DEF Init
<1>2. ServersInv
  <2>1. \A s \in Server : server[s] = Fresh(s)
    BY <1>1
  <2>2. 1 <= MaxTerm
    BY DeadlineAssumption
  <2>3. DOMAIN server = Server
    BY <1>1
  <2> SUFFICES ASSUME NEW s \in Server
               PROVE  /\ Typed(s, server[s]) /\ server[s].term <= MaxTerm
                      /\ Sound(s, server[s])
                      /\ ~server[s].up => Resting(server[s])
    BY <2>3 DEF ServersInv
  <2> QED  BY <2>1, <2>2, FreshFields DEF Resting
<1>3. ChannelsInv
  BY <1>1 DEF ChannelsInv
<1>4. RestInv
  <2>1. 1 \in Server
    BY DeadlineAssumption DEF Server
  <2> QED  BY <1>1, <2>1, Times0 DEF RestInv
<1>5. PassedInv
  BY <1>1, Times0 DEF PassedInv
<1> QED  BY <1>2, <1>3, <1>4, <1>5 DEF ClockInv

\* Every step of the system keeps types and pace.
LEMMA NextClock ==
    ASSUME ClockInv, [Next]_vars
    PROVE  ClockInv'
<1>1. ASSUME NEW s \in Server, TakesTurn(s), turn' = turn, RestInv' PROVE ClockInv'
  BY <1>1, TurnClock DEF ClockInv
<1>2. ASSUME NEW s \in Server, Start(s) PROVE ClockInv'
  <2>1. turn' = turn /\ RestInv'
    BY <1>2, Times0 DEF Start, ClockInv, RestInv
  <2> QED  BY <1>1, <1>2, <2>1, StartTurn DEF ClockInv
<1>3. ASSUME NEW s \in Server, Stop(s) PROVE ClockInv'
  BY <1>3, StopClock
<1>4. ASSUME NEW s \in Server, Write(s) PROVE ClockInv'
  <2>1. turn' = turn /\ RestInv'
    BY <1>4 DEF Write, ClockInv, RestInv
  <2> QED  BY <1>1, <1>4, <2>1, WriteTurn DEF ClockInv
<1>5. ASSUME NEW s \in Server, NEW p \in Server, Lose(s, p) PROVE ClockInv'
  BY <1>5, LoseClock
<1>6. ASSUME NEW s \in Server, NEW draw \in Draws, Idle(s, draw) PROVE ClockInv'
  <2>1. turn' = turn /\ RestInv'
    BY <1>6 DEF Idle, ClockInv, RestInv
  <2> QED  BY <1>1, <1>6, <2>1, IdleTurn DEF ClockInv
<1>7. ASSUME NEW s \in Server, NEW draw \in Draws, NEW p \in Peers(s), Receive(p, s, draw)
      PROVE  ClockInv'
  <2>1. turn' = turn /\ RestInv'
    BY <1>7 DEF Receive, ClockInv, RestInv
  <2> QED  BY <1>1, <1>7, <2>1, ReceiveTurn DEF ClockInv
<1>8. CASE Pass
  BY <1>8, PassClock
<1>9. CASE Tick
  BY <1>9, TickClock
<1>10. CASE UNCHANGED vars
  <2>1. /\ server' = server /\ channel' = channel /\ turn' = turn /\ first' = first
        /\ sinceStart' = sinceStart /\ leaderless' = leaderless /\ stopped' = stopped
    BY <1>10 DEF vars
  <2>2. ServersInv' /\ ChannelsInv' /\ RestInv'
    BY <2>1 DEF ClockInv, ServersInv, ChannelsInv, RestInv
  <2>3. ASSUME NEW q \in Server, q < turn', server'[q].up PROVE OnTime(q)'
    <3>1. OnTime(q)
      BY <2>1, <2>3 DEF ClockInv, PassedInv
    <3> QED  BY <2>1, <3>1 DEF OnTime, Waits
  <2> QED  BY <2>2, <2>3 DEF ClockInv, PassedInv
<1> QED  BY <1>2, <1>3, <1>4, <1>5, <1>6, <1>7, <1>8, <1>9, <1>10 DEF Next

\* No server, and no message, falls behind the clock by more than Poll and Delay,
\* and what each server keeps is well-formed in every role it passes through.
THEOREM KeepsPace == Spec => []ClockInv
<1>1. Init => ClockInv
  BY InitClock
<1>2. ClockInv /\ [Next]_vars => ClockInv'
  BY NextClock
<1> QED  BY <1>1, <1>2, PTL DEF Spec

\* Every variable of Deadlines keeps its type; no deadline is further away than
\* the code ever sets one, no message older than Delay.
THEOREM TimesAreTyped == Spec => []TypeOK
<1>1. ClockInv => TypeOK
  <2> SUFFICES ASSUME ClockInv PROVE TypeOK
    OBVIOUS
  <2>1. ASSUME NEW s \in Server
        PROVE  /\ server[s].term \in 1..MaxTerm
               /\ server[s].heard \in 0..server[s].term
    BY Times0 DEF ClockInv, ServersInv, Typed
  <2>2. \A s \in Server : Typed(s, server[s])
    BY DEF ClockInv, ServersInv
  <2>3. \A s, p \in Server : channel[s][p] \in Seq(Messages)
    BY DEF ClockInv, ChannelsInv
  <2>4. RestInv
    BY DEF ClockInv
  <2> QED  BY <2>1, <2>2, <2>3, <2>4 DEF TypeOK, Typed, Times, Messages, RestInv
<1> QED  BY <1>1, KeepsPace, PTL

\* Whoever does not lead stands for election within two election timeouts of
\* its own, however it came to follow.
THEOREM StandsSomeDay == Spec => []FollowerHasDeadline
<1>1. ClockInv => FollowerHasDeadline
  BY Times0 DEF ClockInv, ServersInv, Typed, Sound, Times, FollowerHasDeadline
<1> QED  BY <1>1, KeepsPace, PTL

-----------------------------------------------------------------------------
(* The record of votes. *)

Casts == [Server -> [Nat -> Server \cup {Nil}]]

\* Enough servers voted for p in term t.
Chosen(cast, t, p) ==
    \E Q \in SUBSET Server : /\ Cardinality(Q) >= MinVotes(Servers)
                             /\ \A q \in Q : cast[q][t] = p

\* Whoever has won in term t is no candidate in it any more; u is its state.
IsPast(u, t) == u.term > t \/ (u.term = t /\ u.role # "CANDIDATE")

\* Server s knows its vote of this term, cast none in a later one, and counts
\* no vote it was not given.
Honest(cast, s, v) ==
    /\ cast[s][v.term] = v.votedFor
    /\ \A t \in Nat : t > v.term => cast[s][t] = Nil
    /\ v.role = "CANDIDATE" => \A q \in v.votes : cast[q][v.term] = s
    /\ v.role = "LEADER" => Chosen(cast, v.term, s)

\* What message m of p, whose state is u, says to q.
Truthful(cast, p, u, q, m) ==
    /\ m.type = "RequestVoteResponse" /\ m.ok => cast[p][m.term] = q
    /\ m.type = "AppendEntriesRequest" => Chosen(cast, m.term, p) /\ IsPast(u, m.term)

\* There was a leader in a term some server heard a leader of.
Witnessed(cast, t) ==
    t > 0 => \E p \in Server : Chosen(cast, t, p) /\ IsPast(server[p], t)

VotesInv(cast) ==
    /\ \A s \in Server : Honest(cast, s, server[s])
    /\ \A p, q \in Server : \A i \in 1..Len(channel[p][q]) :
          Truthful(cast, p, server[p], q, channel[p][q][i])
    /\ \A s \in Server : Witnessed(cast, server[s].heard)

\* cast2 is cast with more votes, of server s.
Grows(cast, cast2, s) ==
    /\ \A q \in Server : \A t \in Nat : cast[q][t] # Nil => cast2[q][t] = cast[q][t]
    /\ \A q \in Server : q # s => cast2[q] = cast[q]

LEMMA ServerFinite == IsFiniteSet(Server) /\ Cardinality(Server) = Servers
<1>1. Servers \in Nat \ {0} /\ Servers \in Int /\ 1 \in Int
  BY DeadlineAssumption
<1>2. /\ IsFiniteSet(1..Servers)
      /\ Cardinality(1..Servers) = IF 1 > Servers THEN 0 ELSE Servers - 1 + 1
  BY <1>1, FS_Interval
<1> QED  BY <1>1, <1>2 DEF Server

LEMMA MinVotesMajority ==
    ASSUME NEW n \in Nat \ {0}
    PROVE  MinVotes(n) \in Nat /\ 2 * MinVotes(n) > n
BY DEF MinVotes

\* A term has one winner.
LEMMA ChosenOnce ==
    ASSUME NEW cast, NEW t, NEW p, NEW q, Chosen(cast, t, p), Chosen(cast, t, q)
    PROVE  p = q
<1>1. PICK P \in SUBSET Server : /\ Cardinality(P) >= MinVotes(Servers)
                                 /\ \A r \in P : cast[r][t] = p
  BY DEF Chosen
<1>2. PICK Q \in SUBSET Server : /\ Cardinality(Q) >= MinVotes(Servers)
                                 /\ \A r \in Q : cast[r][t] = q
  BY DEF Chosen
<1>3. Cardinality(P) \in Nat /\ Cardinality(Q) \in Nat
  BY ServerFinite, FS_Subset, FS_CardinalityType
<1>4. MinVotes(Servers) \in Nat /\ 2 * MinVotes(Servers) > Servers /\ Servers \in Nat
  BY MinVotesMajority, DeadlineAssumption
<1>5. Cardinality(P) + Cardinality(Q) > Servers
  BY <1>1, <1>2, <1>3, <1>4
<1>6. P \cap Q # {}
  BY <1>5, ServerFinite, FS_MajoritiesIntersect
<1> QED  BY <1>1, <1>2, <1>6

LEMMA StaysChosen ==
    ASSUME NEW cast, NEW cast2, NEW s, Grows(cast, cast2, s),
           NEW t \in Nat, NEW p \in Server, Chosen(cast, t, p)
    PROVE  Chosen(cast2, t, p)
<1>1. PICK Q \in SUBSET Server : /\ Cardinality(Q) >= MinVotes(Servers)
                                 /\ \A q \in Q : cast[q][t] = p
  BY DEF Chosen
<1>2. p # Nil
  BY Times0 DEF Nil
<1>3. \A q \in Q : cast2[q][t] = p
  BY <1>1, <1>2 DEF Grows
<1> QED  BY <1>1, <1>3 DEF Chosen

\* The votes of its peers and its own make a winner.
LEMMA VotesChoose ==
    ASSUME NEW cast, NEW s \in Server, NEW t, NEW V \in SUBSET Peers(s),
           Cardinality(V) + 1 >= MinVotes(Servers),
           cast[s][t] = s, \A q \in V : cast[q][t] = s
    PROVE  Chosen(cast, t, s)
<1>1. V \in SUBSET Server /\ s \notin V /\ IsFiniteSet(V)
  BY ServerFinite, FS_Subset DEF Peers
<1>2. Cardinality(V \cup {s}) = Cardinality(V) + 1
  BY <1>1, FS_AddElement
<1>3. V \cup {s} \in SUBSET Server /\ \A q \in V \cup {s} : cast[q][t] = s
  BY <1>1
<1> QED  BY <1>2, <1>3 DEF Chosen

Recorded(cast, s, t, p) == [cast EXCEPT ![s] = [@ EXCEPT ![t] = p]]

LEMMA RecordedGrows ==
    ASSUME NEW cast \in Casts, NEW s \in Server, NEW t \in Nat,
           NEW p \in Server \cup {Nil}, cast[s][t] \in {Nil, p}
    PROVE  /\ Recorded(cast, s, t, p) \in Casts
           /\ Grows(cast, Recorded(cast, s, t, p), s)
           /\ Recorded(cast, s, t, p)[s][t] = p
           /\ \A u \in Nat : u # t => Recorded(cast, s, t, p)[s][u] = cast[s][u]
<1>1. PICK row : row = [cast[s] EXCEPT ![t] = p]
  OBVIOUS
<1>2. cast[s] \in [Nat -> Server \cup {Nil}]
  BY DEF Casts
<1>3. /\ row \in [Nat -> Server \cup {Nil}] /\ row[t] = p
      /\ \A u \in Nat : u # t => row[u] = cast[s][u]
  BY <1>1, <1>2
<1>4. PICK c2 : c2 = Recorded(cast, s, t, p)
  OBVIOUS
<1>5. c2 = [cast EXCEPT ![s] = row]
  BY <1>1, <1>4 DEF Recorded
<1>6. /\ c2 \in Casts /\ c2[s] = row
      /\ \A q \in Server : q # s => c2[q] = cast[q]
  BY <1>3, <1>5 DEF Casts
<1>7. Grows(cast, c2, s)
  BY <1>3, <1>6 DEF Grows
<1> QED  BY <1>3, <1>4, <1>6, <1>7

LEMMA GrowsNone ==
    ASSUME NEW cast, NEW s
    PROVE  Grows(cast, cast, s)
BY DEF Grows

LEMMA GrowsTwice ==
    ASSUME NEW c1, NEW c2, NEW c3, NEW s, Grows(c1, c2, s), Grows(c2, c3, s)
    PROVE  Grows(c1, c3, s)
BY DEF Grows

\* A handler casts one vote at most, in a term in which the server had none.
LEMMA HandlerVotes ==
    ASSUME NEW cast \in Casts, NEW s \in Server, NEW v, Typed(s, v), Honest(cast, s, v),
           NEW p \in Server, NEW m, NEW o, Handled(s, p, v, m, o),
           m.type = "RequestVoteResponse" /\ m.ok => cast[p][m.term] = s
    PROVE  \E cast2 \in Casts : Grows(cast, cast2, s) /\ Honest(cast2, s, o[1])
<1>1. PICK x : x = o[1]
  OBVIOUS
<1>2. Typed(s, x) /\ Follows(v, x) /\ VoteKept(v, x) /\ Counts(p, v, m, x)
  BY <1>1 DEF Handled
<1>3. x.term \in Nat /\ v.term \in Nat /\ x.term >= v.term /\ x.votedFor \in Server \cup {Nil}
  BY <1>2 DEF Typed, Follows
<1>4. cast[s][x.term] \in {Nil, x.votedFor}
  BY <1>2, <1>3 DEF Honest, VoteKept
<1>5. PICK c2 : c2 = Recorded(cast, s, x.term, x.votedFor)
  OBVIOUS
<1>6. /\ c2 \in Casts /\ Grows(cast, c2, s) /\ c2[s][x.term] = x.votedFor
      /\ \A u \in Nat : u # x.term => c2[s][u] = cast[s][u]
  BY <1>3, <1>4, <1>5, RecordedGrows
<1>7. \A t \in Nat : t > x.term => c2[s][t] = Nil
  BY <1>3, <1>6 DEF Honest
<1>8. ASSUME x.role = "CANDIDATE", NEW q \in x.votes PROVE c2[q][x.term] = s
  <2>1. v.role = "CANDIDATE" /\ x.term = v.term
    BY <1>2, <1>8 DEF Follows
  <2>2. q \in Server /\ q # s
    BY <1>2 DEF Typed, Peers
  <2>3. cast[q][x.term] = s
    BY <1>2, <1>8, <2>1 DEF Counts, Honest
  <2> QED  BY <1>6, <2>2, <2>3 DEF Grows
<1>9. ASSUME x.role = "LEADER" PROVE Chosen(c2, x.term, s)
  <2>1. v.role = "LEADER" /\ x.term = v.term
    BY <1>2, <1>9 DEF Follows
  <2> QED  BY <1>3, <1>6, <2>1, StaysChosen DEF Honest
<1>10. Honest(c2, s, x)
  BY <1>6, <1>7, <1>8, <1>9 DEF Honest
<1> QED  BY <1>1, <1>6, <1>10

\* Standing is a vote for itself, and a winner has been chosen.
LEMMA TimeoutVotes ==
    ASSUME NEW cast \in Casts, NEW s \in Server, NEW x, Typed(s, x), Sound(s, x),
           Honest(cast, s, x), NEW z, NEW c, NEW d, Acts(s, x, z, c, d)
    PROVE  \E cast2 \in Casts : Grows(cast, cast2, s) /\ Honest(cast2, s, z)
<1>1. x.term \in Nat /\ s # Nil
  BY Times0 DEF Typed, Nil
<1>2. Typed(s, z)
  BY DEF Acts
<1>3. CASE Remains(x, z)
  <2>1. Honest(cast, s, z)
    BY <1>3 DEF Honest, Remains
  <2> QED  BY <2>1, GrowsNone
<1>4. ASSUME z.term = x.term + 1, z.votedFor = s,
             NEW V \in SUBSET Peers(s), V = {},
             z.role = "LEADER" => Cardinality(V) + 1 >= MinVotes(Servers),
             z.role = "CANDIDATE" => z.votes = {}
      PROVE  \E cast2 \in Casts : Grows(cast, cast2, s) /\ Honest(cast2, s, z)
  <2>1. z.term \in Nat /\ cast[s][z.term] \in {Nil, s}
    BY <1>1, <1>4 DEF Honest
  <2>2. PICK c2 : c2 = Recorded(cast, s, z.term, s)
    OBVIOUS
  <2>3. /\ c2 \in Casts /\ Grows(cast, c2, s) /\ c2[s][z.term] = s
        /\ \A u \in Nat : u # z.term => c2[s][u] = cast[s][u]
    BY <2>1, <2>2, RecordedGrows
  <2>4. \A t \in Nat : t > z.term => c2[s][t] = Nil
    BY <1>1, <1>4, <2>3 DEF Honest
  <2>5. z.role = "LEADER" => Chosen(c2, z.term, s)
    BY <1>4, <2>3, VotesChoose
  <2>6. Honest(c2, s, z)
    BY <1>4, <2>3, <2>4, <2>5 DEF Honest
  <2> QED  BY <2>3, <2>6
<1>5. CASE Stands(s, x, z)
  BY <1>4, <1>5 DEF Stands
<1>6. CASE Wins(s, x, z)
  <2>1. PICK V \in SUBSET Peers(s) :
           /\ Cardinality(V) + 1 >= MinVotes(Servers)
           /\ \/ x.role = "CANDIDATE" /\ z.term = x.term /\ V = x.votes
              \/ z.term = x.term + 1 /\ V = {}
    BY <1>6 DEF Wins
  <2>2. z.role = "LEADER" /\ z.votedFor = s
    BY <1>6 DEF Wins
  <2>3. CASE z.term = x.term + 1 /\ V = {}
    BY <1>4, <2>1, <2>2, <2>3
  <2>4. CASE x.role = "CANDIDATE" /\ z.term = x.term /\ V = x.votes
    <3>1. x.votedFor = s
      BY <2>4 DEF Sound
    <3>2. cast[s][z.term] = s /\ \A q \in V : cast[q][z.term] = s
      BY <2>4, <3>1 DEF Honest
    <3>3. Chosen(cast, z.term, s)
      BY <2>1, <3>2, VotesChoose
    <3>4. Honest(cast, s, z)
      BY <2>2, <2>4, <3>2, <3>3 DEF Honest
    <3> QED  BY <3>4, GrowsNone
  <2> QED  BY <2>1, <2>3, <2>4
<1> QED  BY <1>3, <1>5, <1>6 DEF Acts

-----------------------------------------------------------------------------
(* The record of votes through the steps. *)

LEMMA StaysHonest ==
    ASSUME NEW cast \in Casts, NEW cast2, NEW s, Grows(cast, cast2, s),
           NEW q \in Server, q # s, NEW v, Typed(q, v), Honest(cast, q, v)
    PROVE  Honest(cast2, q, v)
<1>1. v.term \in Nat /\ v.votes \subseteq Server /\ q # Nil
  BY Times0 DEF Typed, Peers, Nil
<1>2. cast2[q] = cast[q]
  BY DEF Grows
<1>3. v.role = "CANDIDATE" => \A r \in v.votes : cast2[r][v.term] = q
  BY <1>1 DEF Grows, Honest
<1>4. v.role = "LEADER" => Chosen(cast2, v.term, q)
  BY <1>1, StaysChosen DEF Honest
<1> QED  BY <1>2, <1>3, <1>4 DEF Honest

LEMMA StaysTruthful ==
    ASSUME NEW cast, NEW cast2, NEW s, Grows(cast, cast2, s),
           NEW p \in Server, NEW u, NEW w, \A t \in Nat : IsPast(u, t) => IsPast(w, t),
           NEW q \in Server, NEW m \in Messages, Truthful(cast, p, u, q, m)
    PROVE  Truthful(cast2, p, w, q, m)
<1>1. m.term \in Nat /\ q # Nil
  BY Times0 DEF Messages, Nil
<1>2. m.type = "RequestVoteResponse" /\ m.ok => cast2[p][m.term] = q
  BY <1>1 DEF Truthful, Grows
<1>3. m.type = "AppendEntriesRequest" => Chosen(cast2, m.term, p) /\ IsPast(w, m.term)
  BY <1>1, StaysChosen DEF Truthful
<1> QED  BY <1>2, <1>3 DEF Truthful

LEMMA StaysWitnessed ==
    ASSUME NEW cast, NEW cast2, NEW s, Grows(cast, cast2, s), NEW t \in Nat,
           \A p \in Server : IsPast(server[p], t) => IsPast(server'[p], t),
           Witnessed(cast, t)
    PROVE  Witnessed(cast2, t)'
BY StaysChosen DEF Witnessed

LEMMA AscendsPast ==
    ASSUME NEW s, NEW u, NEW z, Typed(s, u), Typed(s, z), Ascends(u, z), NEW t \in Nat,
           IsPast(u, t)
    PROVE  IsPast(z, t)
BY DEF Typed, Ascends, IsPast

\* The votes after a turn, and who is told what.
LEMMA TurnCasts ==
    ASSUME ClockInv, NEW cast \in Casts, VotesInv(cast),
           NEW s \in Server, NEW v, NEW p, NEW m, NEW o, NEW z, NEW d,
           Turn(s, v, p, m, o, z, d)
    PROVE  \E cast2 \in Casts :
              /\ Grows(cast, cast2, s) /\ Honest(cast2, s, z)
              /\ \A r \in Replies(p, o[1]) :
                    r.type = "RequestVoteResponse" /\ r.ok => cast2[s][r.term] = p
<1>1. PICK x : x = o[1]
  OBVIOUS
<1>2. p \in Server /\ Handled(s, p, v, m, o) /\ Typed(s, x) /\ Sound(s, x)
  BY <1>1 DEF Turn, Hears, Peers, Handled
<1>3. Typed(s, v) /\ Honest(cast, s, v)
  <2>1. Honest(cast, s, server[s]) /\ Begins(s, v)
    BY DEF VotesInv, Turn
  <2> QED  BY <2>1, BeginsFields DEF Honest, ClockInv
<1>4. m.type = "RequestVoteResponse" /\ m.ok => cast[p][m.term] = s
  <2>1. CASE m = Silence
    BY <2>1 DEF Silence
  <2>2. CASE p \in Peers(s) /\ channel[p][s] # << >> /\ m = Head(channel[p][s])
    <3>1. channel[p][s] \in Seq(Messages)
      BY <1>2 DEF ClockInv, ChannelsInv
    <3>2. 1 \in 1..Len(channel[p][s]) /\ m = channel[p][s][1]
      BY <2>2, <3>1
    <3>3. Truthful(cast, p, server[p], s, m)
      BY <1>2, <3>2 DEF VotesInv
    <3> QED  BY <3>3 DEF Truthful
  <2> QED  BY <2>1, <2>2 DEF Turn, Hears
<1>5. PICK c1 \in Casts : Grows(cast, c1, s) /\ Honest(c1, s, x)
  BY <1>1, <1>2, <1>3, <1>4, HandlerVotes
<1>6. PICK c : Acts(s, x, z, c, d)
  BY <1>1 DEF Turn
<1>7. PICK c2 \in Casts : Grows(c1, c2, s) /\ Honest(c2, s, z)
  BY <1>2, <1>5, <1>6, TimeoutVotes
<1>8. ASSUME NEW r \in Replies(p, x), r.type = "RequestVoteResponse", r.ok
      PROVE  c2[s][r.term] = p
  <2>1. r.term = x.term /\ x.votedFor = p
    BY <1>8 DEF Replies, Reply
  <2>2. c1[s][r.term] = p /\ r.term \in Nat /\ p # Nil
    BY <1>2, <1>5, <2>1, Times0 DEF Honest, Typed, Nil
  <2> QED  BY <1>7, <2>2 DEF Grows
<1>9. Grows(cast, c2, s)
  BY <1>5, <1>7, GrowsTwice
<1> QED  BY <1>1, <1>7, <1>8, <1>9

\* What a turn leaves in the channels was there or is its news.
LEMMA TurnMessages ==
    ASSUME ChannelsInv, NEW s \in Server, NEW v, NEW p, NEW m, NEW o, NEW z, NEW d,
           Turn(s, v, p, m, o, z, d),
           NEW q \in Server, NEW r \in Server, NEW i \in 1..Len(channel'[q][r])
    PROVE  \/ \E j \in 1..Len(channel[q][r]) : channel'[q][r][i] = channel[q][r][j]
           \/ q = s /\ channel'[q][r][i] \in News(r, p, o[1], z)
<1>1. ChannelsInv' /\ channel'[s] = d /\ OtherRows(s, p, m)
  BY TurnChannels
<1>2. channel[q][r] \in Seq(Messages) /\ channel'[q][r] \in Seq(Messages)
  BY <1>1 DEF ChannelsInv
<1>3. CASE q = s
  <2>1. Added(channel[s][r], channel'[s][r], News(r, p, o[1], z))
    BY <1>1, TurnRows
  <2>2. CASE i <= Len(channel[s][r])
    <3>1. i \in 1..Len(channel[s][r])
      BY <1>2, <1>3, <2>2
    <3> QED  BY <1>3, <2>1, <3>1 DEF Added
  <2>3. CASE i > Len(channel[s][r])
    BY <1>3, <2>1, <2>3 DEF Added
  <2> QED  BY <1>2, <1>3, <2>2, <2>3
<1>4. CASE q # s
  <2>1. CASE channel'[q][r] = channel[q][r]
    BY <2>1
  <2>2. CASE channel[q][r] # << >> /\ channel'[q][r] = Tail(channel[q][r])
    <3>1. i + 1 \in 1..Len(channel[q][r]) /\ channel'[q][r][i] = channel[q][r][i + 1]
      BY <1>2, <2>2
    <3> QED  BY <3>1
  <2> QED  BY <1>1, <1>4, <2>1, <2>2 DEF OtherRows
<1> QED  BY <1>3, <1>4

\* A message of the news is truthful.
LEMMA TruthfulNews ==
    ASSUME NEW cast2, NEW s \in Server, NEW p, NEW x, NEW z, Typed(s, z), Honest(cast2, s, z),
           \A r \in Replies(p, x) :
              r.type = "RequestVoteResponse" /\ r.ok => cast2[s][r.term] = p,
           NEW q \in Server, NEW m \in News(q, p, x, z)
    PROVE  Truthful(cast2, s, z, q, m)
<1>1. CASE q = p /\ m \in Replies(p, x)
  BY <1>1 DEF Truthful, Replies, Reply
<1>2. CASE m \in RequestsOf(z)
  <2>1. m.term = z.term /\ m.type = IF z.role = "LEADER" THEN "AppendEntriesRequest"
                                                        ELSE "RequestVoteRequest"
    BY <1>2 DEF RequestsOf
  <2>2. m.type = "AppendEntriesRequest" => Chosen(cast2, m.term, s) /\ IsPast(z, m.term)
    BY <2>1 DEF Honest, IsPast
  <2> QED  BY <2>1, <2>2 DEF Truthful
<1> QED  BY <1>1, <1>2 DEF News

LEMMA TurnVotes ==
    ASSUME ClockInv, NEW cast \in Casts, VotesInv(cast),
           NEW s \in Server, NEW v, NEW p, NEW m, NEW o, NEW z, NEW d,
           Turn(s, v, p, m, o, z, d),
           NEW cast2 \in Casts, Grows(cast, cast2, s), Honest(cast2, s, z),
           \A r \in Replies(p, o[1]) :
              r.type = "RequestVoteResponse" /\ r.ok => cast2[s][r.term] = p
    PROVE  VotesInv(cast2)'
<1>1. ServersInv' /\ server'[s] = z /\ \A q \in Server : q # s => server'[q] = server[q]
  BY TurnServers DEF ClockInv
<1>2. ChannelsInv'
  BY TurnChannels DEF ClockInv
<1>3. \A q \in Server : Typed(q, server[q]) /\ Typed(q, server'[q])
  BY <1>1 DEF ClockInv, ServersInv
<1>4. Ascends(server[s], z)
  BY TurnAscends DEF ClockInv
<1>5. ASSUME NEW q \in Server, NEW t \in Nat, IsPast(server[q], t) PROVE IsPast(server'[q], t)
  <2>1. CASE q = s
    BY <1>1, <1>3, <1>4, <1>5, <2>1, AscendsPast
  <2>2. CASE q # s
    BY <1>1, <1>5, <2>2
  <2> QED  BY <2>1, <2>2
<1>6. ASSUME NEW q \in Server PROVE Honest(cast2, q, server'[q])
  <2>1. CASE q = s
    BY <1>1, <2>1
  <2>2. CASE q # s
    <3>1. Honest(cast, q, server[q]) /\ Typed(q, server[q]) /\ server'[q] = server[q]
      BY <1>1, <1>3, <2>2 DEF VotesInv
    <3> QED  BY <2>2, <3>1, StaysHonest
  <2> QED  BY <2>1, <2>2
<1>7. ASSUME NEW q \in Server, NEW r \in Server, NEW i \in 1..Len(channel'[q][r])
      PROVE  Truthful(cast2, q, server'[q], r, channel'[q][r][i])
  <2>1. CASE \E j \in 1..Len(channel[q][r]) : channel'[q][r][i] = channel[q][r][j]
    <3>1. PICK j \in 1..Len(channel[q][r]) : channel'[q][r][i] = channel[q][r][j]
      BY <2>1
    <3>2. channel[q][r] \in Seq(Messages)
      BY DEF ClockInv, ChannelsInv
    <3>3. channel[q][r][j] \in Messages
      BY <3>2
    <3>4. Truthful(cast, q, server[q], r, channel[q][r][j])
      BY DEF VotesInv
    <3> QED  BY <1>5, <3>1, <3>3, <3>4, StaysTruthful
  <2>2. CASE q = s /\ channel'[q][r][i] \in News(r, p, o[1], z)
    <3>1. Typed(s, z)
      BY <1>1, <1>3
    <3> QED  BY <1>1, <2>2, <3>1, TruthfulNews
  <2> QED  BY <2>1, <2>2, TurnMessages DEF ClockInv
<1>8. ASSUME NEW q \in Server PROVE Witnessed(cast2, server[q].heard)'
  <2>1. PICK t : t = server'[q].heard
    OBVIOUS
  <2>2. t \in Nat
    BY <1>3, <2>1 DEF Typed
  <2>3. Witnessed(cast, t)
    <3>1. CASE q # s
      BY <1>1, <2>1, <3>1 DEF VotesInv
    <3>2. CASE q = s
      <4>1. z.heard = o[1].heard
        BY DEF Turn, Acts
      <4>2. CASE o[1].heard = v.heard
        <5>1. v.heard = server[s].heard
          BY BeginsFields DEF Turn, ClockInv
        <5> QED  BY <1>1, <2>1, <3>2, <4>1, <4>2, <5>1 DEF VotesInv
      <4>3. CASE IsHeartbeat(m, o[1].term) /\ o[1].heard = o[1].term
        <5>1. p \in Server /\ channel[p][s] # << >> /\ m = Head(channel[p][s])
          BY <4>3 DEF Turn, Hears, IsHeartbeat, Silence, Peers
        <5>2. channel[p][s] \in Seq(Messages)
          BY <5>1 DEF ClockInv, ChannelsInv
        <5>3. 1 \in 1..Len(channel[p][s]) /\ m = channel[p][s][1]
          BY <5>1, <5>2
        <5>4. Truthful(cast, p, server[p], s, m)
          BY <5>1, <5>3 DEF VotesInv
        <5>5. m.type = "AppendEntriesRequest" /\ m.term = t
          BY <1>1, <2>1, <3>2, <4>1, <4>3 DEF IsHeartbeat
        <5> QED  BY <5>1, <5>4, <5>5 DEF Truthful, Witnessed
      <4> QED  BY <4>2, <4>3 DEF Turn, Handled
    <3> QED  BY <3>1, <3>2
  <2>4. Witnessed(cast2, t)'
    BY <1>5, <2>2, <2>3, StaysWitnessed
  <2>5. t > 0 => \E r \in Server : Chosen(cast2, t, r) /\ IsPast(server'[r], t)
    BY <2>4 DEF Witnessed
  <2> QED  BY <2>1, <2>5 DEF Witnessed
<1> QED  BY <1>6, <1>7, <1>8 DEF VotesInv

\* Nobody has heard of a leader of the term a server comes to lead in.
LEMMA NewLeaderUnheard ==
    ASSUME ClockInv, NEW cast \in Casts, VotesInv(cast),
           NEW s \in Server, NEW v, NEW p, NEW m, NEW o, NEW z, NEW d,
           Turn(s, v, p, m, o, z, d),
           NEW cast2 \in Casts, Grows(cast, cast2, s), Honest(cast2, s, z),
           z.role = "LEADER", server[s].role # "LEADER" \/ server[s].term # z.term,
           NEW f \in Server
    PROVE  server[f].heard # z.term
<1> SUFFICES ASSUME server[f].heard = z.term PROVE FALSE
  OBVIOUS
<1>1. Typed(s, z) /\ Ascends(server[s], z)
  BY TurnAscends DEF ClockInv
<1>2. z.term \in Nat \ {0} /\ server[s].term \in Nat
  BY <1>1 DEF Typed, ClockInv, ServersInv
<1>3. Chosen(cast2, z.term, s)
  BY DEF Honest
<1>4. PICK r \in Server : Chosen(cast, z.term, r) /\ IsPast(server[r], z.term)
  BY <1>2 DEF VotesInv, Witnessed
<1>5. Chosen(cast2, z.term, r)
  BY <1>2, <1>4, StaysChosen
<1>6. r = s
  BY <1>3, <1>5, ChosenOnce
<1> QED  BY <1>1, <1>2, <1>4, <1>6 DEF IsPast, Ascends

\* Steps in which nobody votes and nobody wins.
SameVotes(u, w) ==
    /\ w.term = u.term /\ w.votedFor = u.votedFor
    /\ \/ w.role = u.role /\ w.votes = u.votes /\ w.heard = u.heard
       \/ w.role = "FOLLOWER" /\ w.heard = 0

SameWords(a, b) == a.type = b.type /\ a.term = b.term /\ a.ok = b.ok

LEMMA QuietVotes ==
    ASSUME ClockInv, NEW cast \in Casts, VotesInv(cast),
           \A s \in Server : SameVotes(server[s], server'[s]),
           \A p, q \in Server : \A i \in 1..Len(channel'[p][q]) :
              \E j \in 1..Len(channel[p][q]) : SameWords(channel'[p][q][i], channel[p][q][j])
    PROVE  VotesInv(cast)'
<1>1. \A s \in Server : Typed(s, server[s])
  BY DEF ClockInv, ServersInv
<1>2. \A s \in Server, t \in Nat : IsPast(server[s], t) => IsPast(server'[s], t)
  BY DEF SameVotes, IsPast
<1>3. ASSUME NEW s \in Server PROVE Honest(cast, s, server'[s])
  BY <1>3 DEF VotesInv, Honest, SameVotes
<1>4. ASSUME NEW p \in Server, NEW q \in Server, NEW i \in 1..Len(channel'[p][q])
      PROVE  Truthful(cast, p, server'[p], q, channel'[p][q][i])
  <2>1. PICK j \in 1..Len(channel[p][q]) : SameWords(channel'[p][q][i], channel[p][q][j])
    OBVIOUS
  <2>2. Truthful(cast, p, server[p], q, channel[p][q][j])
    BY DEF VotesInv
  <2>3. channel[p][q] \in Seq(Messages)
    BY DEF ClockInv, ChannelsInv
  <2>4. channel[p][q][j].term \in Nat
    <3>1. channel[p][q][j] \in Messages
      BY <2>3
    <3> QED  BY <3>1, MessageFields
  <2> QED  BY <1>2, <2>1, <2>2, <2>4 DEF SameWords, Truthful
<1>5. ASSUME NEW s \in Server PROVE Witnessed(cast, server[s].heard)'
  <2>1. PICK t : t = server'[s].heard
    OBVIOUS
  <2>2. t = server[s].heard \/ t = 0
    BY <2>1 DEF SameVotes
  <2>3. server[s].heard \in Nat
    BY <1>1 DEF Typed
  <2>4. Witnessed(cast, t)
    BY <2>2 DEF VotesInv, Witnessed
  <2>5. t > 0 => \E r \in Server : Chosen(cast, t, r) /\ IsPast(server'[r], t)
    BY <1>2, <2>2, <2>3, <2>4 DEF Witnessed
  <2> QED  BY <2>1, <2>5 DEF Witnessed
<1> QED  BY <1>3, <1>4, <1>5 DEF VotesInv

LEMMA InitVotes ==
    ASSUME Init
    PROVE  \E cast \in Casts : VotesInv(cast)
<1>1. PICK cast : cast = [s \in Server |-> [t \in Nat |-> Nil]]
  OBVIOUS
<1>2. cast \in Casts
  BY <1>1 DEF Casts
<1>3. /\ server = [s \in Server |-> Fresh(s)]
      /\ channel = [s \in Server |-> [p \in Server |-> << >>]]
  BY DEF Init
<1>4. ASSUME NEW s \in Server PROVE Honest(cast, s, server[s]) /\ server[s].heard = 0
  <2>1. /\ server[s].term = 1 /\ server[s].votedFor = Nil
        /\ server[s].role = "FOLLOWER" /\ server[s].heard = 0
    BY <1>3, FreshFields
  <2> QED  BY <1>1, <2>1 DEF Honest
<1>5. \A p, q \in Server : 1..Len(channel[p][q]) = {}
  BY <1>3
<1>6. VotesInv(cast)
  BY <1>4, <1>5 DEF VotesInv, Witnessed
<1> QED  BY <1>2, <1>6

-----------------------------------------------------------------------------
(* A leader keeps its followers. *)

Unhurried == Heartbeat + Poll + Delay < Election

Led(l, f) ==
    /\ server[l].role = "LEADER" /\ server[f].role = "FOLLOWER"
    /\ server[f].heard = server[l].term /\ server[f].term = server[l].term
    /\ f \notin stopped

\* A heartbeat is on its way to f, or will be, and arrives before the deadline.
Awaits(l, f) ==
    \/ server[f].electionDue > server[l].heartbeatDue[f] + Poll + Delay
    \/ \E i \in 1..Len(channel[l][f]) :
          /\ IsHeartbeat(channel[l][f][i], server[l].term)
          /\ server[f].electionDue > Delay - channel[l][f][i].age

BeatsInv == \A l, f \in Server : Led(l, f) => Awaits(l, f)

KeeperInv == ClockInv /\ (\E cast \in Casts : VotesInv(cast)) /\ BeatsInv

LEMMA BeatsKeep ==
    ASSUME ClockInv, BeatsInv
    PROVE  LeaderKeepsFollowers
<1> SUFFICES ASSUME NEW l \in Server, NEW f \in Server, Led(l, f)
             PROVE  ~Due(server[f].electionDue)
  BY DEF LeaderKeepsFollowers, Led
<1>1. Awaits(l, f)
  BY DEF BeatsInv
<1>2. f \in Peers(l) /\ Typed(l, server[l]) /\ Typed(f, server[f])
  BY DEF Led, Peers, ClockInv, ServersInv
<1>3. server[l].heartbeatDue[f] \in Times /\ server[f].electionDue \in Times
  BY <1>2 DEF Typed
<1>4. CASE server[f].electionDue > server[l].heartbeatDue[f] + Poll + Delay
  BY <1>3, <1>4, Times0 DEF Times, Due
<1>5. CASE \E i \in 1..Len(channel[l][f]) :
              server[f].electionDue > Delay - channel[l][f][i].age
  <2>1. PICK i \in 1..Len(channel[l][f]) :
           server[f].electionDue > Delay - channel[l][f][i].age
    BY <1>5
  <2>2. channel[l][f] \in Seq(Messages)
    BY DEF ClockInv, ChannelsInv
  <2>3. PICK m : m = channel[l][f][i]
    OBVIOUS
  <2>4. m \in Messages
    BY <2>2, <2>3
  <2>5. PICK a : a = m.age
    OBVIOUS
  <2>6. a \in 0..Delay
    BY <2>4, <2>5 DEF Messages
  <2>7. PICK e : e = server[f].electionDue
    OBVIOUS
  <2>8. e > Delay - a /\ e \in Int
    BY <1>3, <2>1, <2>3, <2>5, <2>7, Times0 DEF Times
  <2>9. e > 0
    BY <2>6, <2>8, Times0
  <2> QED  BY <2>7, <2>8, <2>9 DEF Due
<1> QED  BY <1>1, <1>4, <1>5 DEF Awaits

LEMMA InitBeats ==
    ASSUME Init
    PROVE  BeatsInv
<1>1. \A s \in Server : server[s].role = "FOLLOWER"
  BY FreshFields DEF Init
<1> QED  BY <1>1 DEF BeatsInv, Led

\* What a turn does with the heartbeats of a leader that stays one.
LEMMA TurnBeats ==
    ASSUME ClockInv, NEW s \in Server, NEW v, NEW p, NEW m, NEW o, NEW z, NEW d,
           Turn(s, v, p, m, o, z, d),
           server[s].role = "LEADER", z.role = "LEADER", z.term = server[s].term,
           NEW q \in Peers(s)
    PROVE  \/ z.heartbeatDue[q] = server[s].heartbeatDue[q]
           \/ \E i \in 1..Len(d[q]) : IsHeartbeat(d[q][i], z.term) /\ d[q][i].age = 0
<1>1. PICK x : x = o[1]
  OBVIOUS
<1>2. PICK c : c = [channel[s] EXCEPT ![p] = @ \o o[2]]
  OBVIOUS
<1>3. Acts(s, x, z, c, d) /\ Handled(s, p, v, m, o) /\ Follows(v, x) /\ Typed(s, x)
  BY <1>1, <1>2 DEF Turn, Handled
<1>4. /\ v.role = "LEADER" /\ v.term = server[s].term /\ v.term \in Nat
      /\ v.heartbeatDue = server[s].heartbeatDue
  BY BeginsFields DEF Turn, ClockInv, Typed
<1>5. x.term \in Nat /\ x.term >= v.term
  BY <1>3 DEF Typed, Follows
<1>6. x.role = "LEADER"
  <2>1. CASE Remains(x, z)
    BY <2>1 DEF Remains
  <2>2. CASE Stands(s, x, z)
    BY <2>2 DEF Stands
  <2>3. CASE Wins(s, x, z)
    BY <1>3, <1>4, <1>5, <2>3 DEF Wins, Follows
  <2> QED  BY <1>3, <2>1, <2>2, <2>3 DEF Acts
<1>7. x.heartbeatDue = server[s].heartbeatDue
  BY <1>3, <1>4, <1>6 DEF Follows
<1>8. CASE z.heartbeatDue[q] = x.heartbeatDue[q]
  BY <1>7, <1>8
<1>9. CASE RequestAdded(c[q], d[q], z)
  <2>1. PICK r \in NewMessages : /\ d[q] = Append(c[q], r) /\ r.term = z.term
                                 /\ r.type = "AppendEntriesRequest"
    BY <1>9 DEF RequestAdded
  <2>2. q \in Server
    BY DEF Peers
  <2>3. channel[s][q] \in Seq(Messages)
    BY <2>2 DEF ClockInv, ChannelsInv
  <2>4. c[q] \in Seq(Messages)
    <3>1. CASE q # p
      <4>1. c[q] = channel[s][q]
        BY <1>2, <2>2, <3>1 DEF ClockInv, ChannelsInv
      <4> QED  BY <2>3, <4>1
    <3>2. CASE q = p
      <4>1. c[q] = channel[s][q] \o o[2]
        BY <1>2, <2>2, <3>2 DEF ClockInv, ChannelsInv
      <4>2. o[2] = << >> \/ \E n \in NewMessages : o[2] = <<n>>
        BY <1>3 DEF Handled
      <4>3. o[2] \in Seq(Messages)
        <5>1. CASE o[2] = << >>
          BY <5>1
        <5>2. CASE \E n \in NewMessages : o[2] = <<n>>
          <6>1. PICK n \in NewMessages : o[2] = <<n>>
            BY <5>2
          <6>2. n \in Messages
            BY DEF NewMessages
          <6> QED  BY <6>1, <6>2
        <5> QED  BY <4>2, <5>1, <5>2
      <4> QED  BY <2>3, <4>1, <4>3
    <3> QED  BY <3>1, <3>2
  <2>5. r \in Messages /\ r.age = 0
    BY DEF NewMessages
  <2>6. Len(c[q]) \in Nat /\ Len(d[q]) = Len(c[q]) + 1 /\ d[q][Len(c[q]) + 1] = r
    BY <2>1, <2>4, <2>5
  <2>7. Len(c[q]) + 1 \in 1..Len(d[q]) /\ IsHeartbeat(d[q][Len(c[q]) + 1], z.term)
        /\ d[q][Len(c[q]) + 1].age = 0
    BY <2>1, <2>5, <2>6 DEF IsHeartbeat
  <2> QED  BY <2>7
<1>10. \A r \in Peers(s) : \/ z.heartbeatDue[r] = x.heartbeatDue[r]
                           \/ RequestAdded(c[r], d[r], z)
  BY <1>3, <1>6 DEF Acts
<1> QED  BY <1>8, <1>9, <1>10

\* The follower's turn.
LEMMA TurnOfFollower ==
    ASSUME Unhurried, ClockInv, BeatsInv, stopped' = stopped,
           NEW s \in Server, NEW v, NEW p, NEW m, NEW o, NEW z, NEW d,
           Turn(s, v, p, m, o, z, d),
           NEW l \in Server, l # s, Led(l, s)'
    PROVE  Awaits(l, s)'
<1>1. server'[s] = z /\ server'[l] = server[l]
  BY TurnServers DEF ClockInv
<1>2. OtherRows(s, p, m) /\ ChannelsInv'
  BY TurnChannels DEF ClockInv
<1>3. /\ server[l].role = "LEADER" /\ z.role = "FOLLOWER"
      /\ z.heard = server[l].term /\ z.term = server[l].term /\ s \notin stopped
  BY <1>1 DEF Led
<1>4. s \in Peers(l) /\ Typed(l, server[l]) /\ Sound(l, server[l])
  BY DEF Peers, ClockInv, ServersInv
<1>5. server[l].heartbeatDue[s] \in Times /\ server[l].heartbeatDue[s] <= Heartbeat
  BY <1>3, <1>4 DEF Typed, Sound
<1>6. KeepsDeadline(v, z, m)
  <2>1. PICK x : x = o[1]
    OBVIOUS
  <2>2. KeepsDeadline(v, x, m) /\ \E c : Acts(s, x, z, c, d)
    BY <2>1 DEF Turn, Handled
  <2>3. PICK c : Acts(s, x, z, c, d)
    BY <2>2
  <2>4. Remains(x, z) /\ z.heard = x.heard
    BY <1>3, <2>3 DEF Acts, Stands, Wins
  <2> QED  BY <2>2, <2>4 DEF Remains, KeepsDeadline
<1>7. z.electionDue \in Int
  <2>1. Typed(s, z)
    BY TurnAscends DEF ClockInv
  <2> QED  BY <2>1, Times0 DEF Typed, Times
<1>8. CASE z.electionDue >= Election
  <2>1. z.electionDue > server[l].heartbeatDue[s] + Poll + Delay
    BY <1>5, <1>7, <1>8, Times0 DEF Unhurried, Times
  <2> QED  BY <1>1, <2>1 DEF Awaits
<1>9. CASE /\ v.role = "FOLLOWER" /\ v.heard = v.term /\ z.term = v.term
           /\ z.electionDue = v.electionDue
           /\ ~IsHeartbeat(m, v.term)
  <2>1. /\ v.role = server[s].role /\ v.term = server[s].term
        /\ v.heard = server[s].heard /\ v.electionDue = server[s].electionDue
    BY BeginsFields DEF Turn, ClockInv
  <2>2. Led(l, s)
    BY <1>3, <1>9, <2>1 DEF Led
  <2>3. Awaits(l, s)
    BY <2>2 DEF BeatsInv
  <2>4. CASE server[s].electionDue > server[l].heartbeatDue[s] + Poll + Delay
    BY <1>1, <1>9, <2>1, <2>4 DEF Awaits
  <2>5. CASE \E i \in 1..Len(channel[l][s]) :
                /\ IsHeartbeat(channel[l][s][i], server[l].term)
                /\ server[s].electionDue > Delay - channel[l][s][i].age
    <3>1. PICK i \in 1..Len(channel[l][s]) :
                /\ IsHeartbeat(channel[l][s][i], server[l].term)
                /\ server[s].electionDue > Delay - channel[l][s][i].age
      BY <2>5
    <3>2. channel[l][s] \in Seq(Messages)
      BY DEF ClockInv, ChannelsInv
    <3>3. \E j \in 1..Len(channel'[l][s]) : channel'[l][s][j] = channel[l][s][i]
      <4>1. CASE channel'[l][s] = channel[l][s]
        BY <4>1
      <4>2. CASE /\ channel[l][s] # << >> /\ m = Head(channel[l][s])
                 /\ channel'[l][s] = Tail(channel[l][s])
        <5>1. i # 1
          <6> SUFFICES ASSUME i = 1 PROVE FALSE
            OBVIOUS
          <6>1. m = channel[l][s][i]
            BY <3>2, <4>2
          <6> QED  BY <1>3, <1>9, <3>1, <6>1
        <5>2. i - 1 \in 1..Len(channel'[l][s]) /\ channel'[l][s][i - 1] = channel[l][s][i]
          BY <3>2, <4>2, <5>1
        <5> QED  BY <5>2
      <4> QED  BY <1>2, <4>1, <4>2 DEF OtherRows
    <3>4. z.electionDue = server[s].electionDue
      BY <1>9, <2>1
    <3> QED  BY <1>1, <3>1, <3>3, <3>4 DEF Awaits
  <2> QED  BY <2>3, <2>4, <2>5 DEF Awaits
<1> QED  BY <1>3, <1>6, <1>8, <1>9 DEF KeepsDeadline

\* The leader's turn.
LEMMA TurnOfLeader ==
    ASSUME ClockInv, BeatsInv, stopped' = stopped, NEW cast \in Casts, VotesInv(cast),
           NEW s \in Server, NEW v, NEW p, NEW m, NEW o, NEW z, NEW d,
           Turn(s, v, p, m, o, z, d),
           NEW cast2 \in Casts, Grows(cast, cast2, s), Honest(cast2, s, z),
           NEW f \in Server, f # s, Led(s, f)'
    PROVE  Awaits(s, f)'
<1>1. server'[s] = z /\ server'[f] = server[f]
  BY TurnServers DEF ClockInv
<1>2. channel'[s] = d
  BY TurnChannels DEF ClockInv
<1>3. /\ z.role = "LEADER" /\ server[f].role = "FOLLOWER"
      /\ server[f].heard = z.term /\ server[f].term = z.term /\ f \notin stopped
  BY <1>1 DEF Led
<1>4. server[s].role = "LEADER" /\ server[s].term = z.term
  BY <1>3, NewLeaderUnheard
<1>5. Led(s, f)
  BY <1>3, <1>4 DEF Led
<1>6. Awaits(s, f)
  BY <1>5 DEF BeatsInv
<1>7. f \in Peers(s) /\ Typed(s, server[s]) /\ Typed(f, server[f])
  BY DEF Peers, ClockInv, ServersInv
<1>8. server[s].heartbeatDue[f] \in Times /\ server[f].electionDue \in Times
  BY <1>7 DEF Typed
<1>9. CASE server[f].electionDue > server[s].heartbeatDue[f] + Poll + Delay
  <2>1. CASE z.heartbeatDue[f] = server[s].heartbeatDue[f]
    BY <1>1, <1>9, <2>1 DEF Awaits
  <2>2. CASE \E i \in 1..Len(d[f]) : IsHeartbeat(d[f][i], z.term) /\ d[f][i].age = 0
    <3>1. server[f].electionDue > Delay - 0
      BY <1>8, <1>9, Times0 DEF Times
    <3> QED  BY <1>1, <1>2, <2>2, <3>1 DEF Awaits
  <2> QED  BY <1>3, <1>4, <1>7, <2>1, <2>2, TurnBeats
<1>10. CASE \E i \in 1..Len(channel[s][f]) :
               /\ IsHeartbeat(channel[s][f][i], server[s].term)
               /\ server[f].electionDue > Delay - channel[s][f][i].age
  <2>1. PICK i \in 1..Len(channel[s][f]) :
               /\ IsHeartbeat(channel[s][f][i], server[s].term)
               /\ server[f].electionDue > Delay - channel[s][f][i].age
    BY <1>10
  <2>2. Added(channel[s][f], d[f], News(f, p, o[1], z))
    BY TurnRows DEF ClockInv
  <2>3. channel[s][f] \in Seq(Messages) /\ d[f] \in Seq(Messages)
    BY <2>2 DEF Added, ClockInv, ChannelsInv
  <2>4. i \in 1..Len(d[f]) /\ d[f][i] = channel[s][f][i]
    BY <2>2, <2>3 DEF Added
  <2> QED  BY <1>1, <1>2, <1>4, <2>1, <2>4 DEF Awaits
<1> QED  BY <1>6, <1>9, <1>10 DEF Awaits

LEMMA TurnKeeper ==
    ASSUME Unhurried, KeeperInv, NEW s \in Server, TakesTurn(s), turn' = turn,
           stopped' = stopped
    PROVE  (\E cast \in Casts : VotesInv(cast))' /\ BeatsInv'
<1>1. PICK v, p, m, o, z, d : Turn(s, v, p, m, o, z, d)
  BY DEF TakesTurn
<1>2. ClockInv /\ BeatsInv
  BY DEF KeeperInv
<1>3. PICK cast \in Casts : VotesInv(cast)
  BY DEF KeeperInv
<1>4. PICK cast2 \in Casts :
         /\ Grows(cast, cast2, s) /\ Honest(cast2, s, z)
         /\ \A r \in Replies(p, o[1]) :
               r.type = "RequestVoteResponse" /\ r.ok => cast2[s][r.term] = p
  BY <1>1, <1>2, <1>3, TurnCasts
<1>5. VotesInv(cast2)'
  BY <1>1, <1>2, <1>3, <1>4, TurnVotes
<1>6. /\ \A q \in Server : q # s => server'[q] = server[q]
      /\ OtherRows(s, p, m)
  BY <1>1, <1>2, TurnServers, TurnChannels DEF ClockInv
<1>7. ASSUME NEW l \in Server, NEW f \in Server, Led(l, f)' PROVE Awaits(l, f)'
  <2>1. l # f
    BY <1>7 DEF Led
  <2>2. CASE f = s
    BY <1>1, <1>2, <1>7, <2>1, <2>2, TurnOfFollower
  <2>3. CASE l = s
    BY <1>1, <1>2, <1>3, <1>4, <1>7, <2>1, <2>3, TurnOfLeader
  <2>4. CASE f # s /\ l # s
    <3>1. server'[l] = server[l] /\ server'[f] = server[f] /\ channel'[l][f] = channel[l][f]
      BY <1>6, <2>4 DEF OtherRows
    <3>2. Led(l, f)
      BY <1>7, <3>1 DEF Led
    <3>3. Awaits(l, f)
      BY <1>2, <3>2 DEF BeatsInv
    <3> QED  BY <3>1, <3>3 DEF Awaits
  <2> QED  BY <2>2, <2>3, <2>4
<1> QED  BY <1>5, <1>7 DEF BeatsInv

LEMMA StopKeeper ==
    ASSUME KeeperInv, NEW s \in Server, Stop(s)
    PROVE  (\E cast \in Casts : VotesInv(cast))' /\ BeatsInv'
<1>1. ClockInv /\ BeatsInv
  BY DEF KeeperInv
<1>2. PICK cast \in Casts : VotesInv(cast)
  BY DEF KeeperInv
<1>3. /\ server'[s] = Stopped(s) /\ StopRows(s)
      /\ \A q \in Server : q # s => server'[q] = server[q]
  BY <1>1, StopClock, StopChannels DEF ClockInv
<1>4. /\ Stopped(s).role = "FOLLOWER" /\ Stopped(s).heard = 0
      /\ Stopped(s).term = server[s].term /\ Stopped(s).votedFor = server[s].votedFor
  BY <1>1, StoppedFields DEF ClockInv
<1>5. \A r \in Server : SameVotes(server[r], server'[r])
  BY <1>3, <1>4 DEF SameVotes
<1>6. ASSUME NEW p \in Server, NEW q \in Server, NEW i \in 1..Len(channel'[p][q])
      PROVE  \E j \in 1..Len(channel[p][q]) : SameWords(channel'[p][q][i], channel[p][q][j])
  <2>1. channel[p][q] \in Seq(Messages) /\ channel'[p][q] \in Seq(Messages)
    BY <1>1, <1>3 DEF StopRows, ClockInv, ChannelsInv
  <2>2. q # s
    <3> SUFFICES ASSUME q = s PROVE FALSE
      OBVIOUS
    <3>1. channel'[p][q] = << >>
      BY <1>3 DEF StopRows
    <3> QED  BY <3>1
  <2>3. i \in 1..Len(channel[p][q]) /\ channel'[p][q][i] = channel[p][q][i]
    <3>1. CASE p = s
      <4>1. /\ Len(channel'[p][q]) <= Len(channel[p][q])
            /\ channel'[p][q][i] = channel[p][q][i]
        BY <1>3, <2>2, <3>1 DEF StopRows
      <4> QED  BY <2>1, <4>1
    <3>2. CASE p # s
      <4>1. channel'[p][q] = channel[p][q]
        BY <1>3, <2>2, <3>2 DEF StopRows
      <4> QED  BY <4>1
    <3> QED  BY <3>1, <3>2
  <2> QED  BY <2>3 DEF SameWords
<1>7. VotesInv(cast)'
  BY <1>1, <1>2, <1>5, <1>6, QuietVotes
<1>8. ASSUME NEW l \in Server, NEW f \in Server, Led(l, f)' PROVE Awaits(l, f)'
  <2>1. stopped' = stopped \cup {s}
    BY DEF Stop
  <2>2. f # s /\ l # s /\ f \notin stopped
    BY <1>3, <1>4, <1>8, <2>1 DEF Led
  <2>3. /\ server'[l] = server[l] /\ server'[f] = server[f]
        /\ channel'[l][f] = channel[l][f]
    BY <1>3, <2>2 DEF StopRows
  <2>4. Led(l, f)
    BY <1>8, <2>2, <2>3 DEF Led
  <2>5. Awaits(l, f)
    BY <1>1, <2>4 DEF BeatsInv
  <2> QED  BY <2>3, <2>5 DEF Awaits
<1> QED  BY <1>7, <1>8 DEF BeatsInv

\* Only what goes to a server that was stopped is lost.
LEMMA LoseKeeper ==
    ASSUME KeeperInv, NEW s \in Server, NEW p \in Server, Lose(s, p)
    PROVE  (\E cast \in Casts : VotesInv(cast))' /\ BeatsInv'
<1>1. ClockInv /\ BeatsInv
  BY DEF KeeperInv
<1>2. PICK cast \in Casts : VotesInv(cast)
  BY DEF KeeperInv
<1>3. /\ channel[s][p] # << >> /\ channel'[s][p] = Tail(channel[s][p])
      /\ \A q, r \in Server : q # s \/ r # p => channel'[q][r] = channel[q][r]
  BY <1>1, LoseRows DEF ClockInv
<1>4. server' = server /\ stopped' = stopped /\ p \in stopped
  BY DEF Lose
<1>5. \A r \in Server : SameVotes(server[r], server'[r])
  BY <1>4 DEF SameVotes
<1>6. ASSUME NEW q \in Server, NEW r \in Server, NEW i \in 1..Len(channel'[q][r])
      PROVE  \E j \in 1..Len(channel[q][r]) : SameWords(channel'[q][r][i], channel[q][r][j])
  <2>1. CASE q = s /\ r = p
    <3>1. PICK c : c = channel[s][p]
      OBVIOUS
    <3>2. c \in Seq(Messages) /\ c # << >>
      BY <1>1, <1>3, <3>1 DEF ClockInv, ChannelsInv
    <3>3. i \in 1..Len(Tail(c))
      BY <1>3, <2>1, <3>1
    <3>4. Len(Tail(c)) = Len(c) - 1 /\ Tail(c)[i] = c[i + 1]
      BY <3>2, <3>3, HeadTailProperties
    <3>5. i + 1 \in 1..Len(c)
      BY <3>2, <3>3, <3>4
    <3>6. /\ channel'[q][r][i] = channel[q][r][i + 1]
          /\ i + 1 \in 1..Len(channel[q][r])
      BY <1>3, <2>1, <3>1, <3>4, <3>5
    <3>7. SameWords(channel'[q][r][i], channel[q][r][i + 1])
      BY <3>6 DEF SameWords
    <3> QED  BY <3>6, <3>7
  <2>2. CASE q # s \/ r # p
    <3>1. channel'[q][r] = channel[q][r]
      BY <1>3, <2>2
    <3> QED  BY <3>1 DEF SameWords
  <2> QED  BY <2>1, <2>2
<1>7. VotesInv(cast)'
  BY <1>1, <1>2, <1>5, <1>6, QuietVotes
<1>8. ASSUME NEW l \in Server, NEW f \in Server, Led(l, f)' PROVE Awaits(l, f)'
  <2>1. Led(l, f) /\ f # p
    BY <1>4, <1>8 DEF Led
  <2>2. Awaits(l, f)
    BY <1>1, <2>1 DEF BeatsInv
  <2>3. channel'[l][f] = channel[l][f]
    BY <1>3, <2>1
  <2> QED  BY <1>4, <2>2, <2>3 DEF Awaits
<1> QED  BY <1>7, <1>8 DEF BeatsInv

LEMMA StillKeeper ==
    ASSUME KeeperInv, server' = server, channel' = channel, stopped' = stopped
    PROVE  (\E cast \in Casts : VotesInv(cast))' /\ BeatsInv'
<1>1. PICK cast \in Casts : VotesInv(cast)
  BY DEF KeeperInv
<1>2. VotesInv(cast)'
  <2>1. VotesInv(cast)' <=> VotesInv(cast)
    BY DEF VotesInv, Honest, Truthful, Witnessed, IsPast, Chosen
  <2> QED  BY <1>1, <2>1
<1>3. BeatsInv'
  BY DEF KeeperInv, BeatsInv, Led, Awaits
<1> QED  BY <1>2, <1>3

\* A tick brings the deadline nearer, and the heartbeat too.
LEMMA TickKeeper ==
    ASSUME Unhurried, KeeperInv, Tick
    PROVE  (\E cast \in Casts : VotesInv(cast))' /\ BeatsInv'
<1>1. ClockInv /\ BeatsInv
  BY DEF KeeperInv
<1>2. PICK cast \in Casts : VotesInv(cast)
  BY DEF KeeperInv
<1>3. \A q \in Server : Ticks(q, server[q], server'[q])
  BY <1>1, TickServers DEF ClockInv
<1>4. TickRows /\ stopped' = stopped
  BY <1>1, TickChannels DEF Tick
<1>5. \A r \in Server : SameVotes(server[r], server'[r])
  BY <1>3 DEF SameVotes, Ticks
<1>6. ASSUME NEW p \in Server, NEW q \in Server, NEW i \in 1..Len(channel'[p][q])
      PROVE  \E j \in 1..Len(channel[p][q]) : SameWords(channel'[p][q][i], channel[p][q][j])
  BY <1>4 DEF TickRows, SameWords
<1>7. VotesInv(cast)'
  BY <1>1, <1>2, <1>5, <1>6, QuietVotes
<1>8. ASSUME NEW l \in Server, NEW f \in Server, Led(l, f)' PROVE Awaits(l, f)'
  <2>1. /\ Ticks(l, server[l], server'[l]) /\ Ticks(f, server[f], server'[f])
        /\ Typed(l, server[l]) /\ Typed(f, server[f]) /\ Sound(l, server[l])
    BY <1>1, <1>3 DEF ClockInv, ServersInv
  <2>2. Led(l, f)
    BY <1>4, <1>8, <2>1 DEF Led, Ticks
  <2>3. Awaits(l, f)
    BY <1>1, <2>2 DEF BeatsInv
  <2>4. server[l].up /\ server[f].up /\ f \in Peers(l)
    <3>1. server[f].heard > 0 /\ server[l].role = "LEADER" /\ l # f
      BY <2>1, <2>2 DEF Led, Typed
    <3> QED  BY <1>1, <3>1 DEF ClockInv, ServersInv, Resting, Peers
  <2>5. PICK e, e2, h, h2 :
           /\ e = server[f].electionDue /\ e2 = server'[f].electionDue
           /\ h = server[l].heartbeatDue[f] /\ h2 = server'[l].heartbeatDue[f]
    OBVIOUS
  <2>6. e \in Times /\ h \in Times /\ h <= Heartbeat /\ e2 = Later(e) /\ h2 = Later(h)
    BY <2>1, <2>2, <2>4, <2>5 DEF Typed, Sound, Ticks, Led
  <2>7. e2 \in Times /\ e2 >= e - 1
    BY <2>6, LaterFields
  <2>8. CASE e > h + Poll + Delay
    <3>1. h > -Poll
      <4>1. OnTime(l) /\ server[l].role = "LEADER"
        BY <1>1, <2>2, <2>4, AllOnTime DEF Led
      <4>2. h \in Waits(l)
        BY <2>4, <2>5, <4>1 DEF Waits
      <4> QED  BY <4>1, <4>2 DEF OnTime
    <3>2. h # Infinite
      BY <2>6, Times0 DEF Unhurried, Times
    <3>3. h2 = h - 1
      BY <2>6, <3>1, <3>2, LaterFields
    <3>4. e2 > h2 + Poll + Delay
      BY <2>6, <2>7, <2>8, <3>3, Times0 DEF Times
    <3> QED  BY <2>5, <3>4 DEF Awaits
  <2>9. CASE \E i \in 1..Len(channel[l][f]) :
                /\ IsHeartbeat(channel[l][f][i], server[l].term)
                /\ server[f].electionDue > Delay - channel[l][f][i].age
    <3>1. PICK i \in 1..Len(channel[l][f]) :
                /\ IsHeartbeat(channel[l][f][i], server[l].term)
                /\ server[f].electionDue > Delay - channel[l][f][i].age
      BY <2>9
    <3>2. PICK m, n : m = channel[l][f][i] /\ n = channel'[l][f][i]
      OBVIOUS
    <3>3. i \in 1..Len(channel'[l][f]) /\ n.type = m.type /\ n.term = m.term
          /\ n.age = m.age + 1
      BY <1>4, <2>4, <3>2 DEF TickRows
    <3>4. m.age \in Nat
      <4>1. channel[l][f] \in Seq(Messages)
        BY <1>1 DEF ClockInv, ChannelsInv
      <4>2. m \in Messages
        BY <3>2, <4>1
      <4> QED  BY <4>2, MessageFields
    <3>5. PICK a, b : a = m.age /\ b = n.age
      OBVIOUS
    <3>6. a \in Nat /\ b = a + 1 /\ e > Delay - a
      BY <2>5, <3>1, <3>2, <3>3, <3>4, <3>5
    <3>7. e2 > Delay - b
      BY <2>6, <2>7, <3>6, Times0 DEF Times
    <3>8. server'[l].term = server[l].term
      BY <2>1 DEF Ticks
    <3>9. IsHeartbeat(n, server'[l].term)
      BY <3>1, <3>2, <3>3, <3>8 DEF IsHeartbeat
    <3> QED  BY <2>5, <3>2, <3>3, <3>5, <3>7, <3>9 DEF Awaits
  <2> QED  BY <2>3, <2>5, <2>8, <2>9 DEF Awaits
<1> QED  BY <1>7, <1>8 DEF BeatsInv

\* Every step of the system leaves each follower a heartbeat to wait for.
LEMMA NextKeeper ==
    ASSUME Unhurried, KeeperInv, [Next]_vars
    PROVE  KeeperInv'
<1>1. ClockInv /\ ClockInv'
  BY NextClock DEF KeeperInv
<1> DEFINE Kept == (\E cast \in Casts : VotesInv(cast))' /\ BeatsInv'
<1>2. SUFFICES Kept
  BY <1>1 DEF KeeperInv
<1> HIDE DEF Kept
<1>3. ASSUME NEW s \in Server, TakesTurn(s), turn' = turn, stopped' = stopped PROVE Kept
  BY <1>3, TurnKeeper DEF Kept
<1>4. ASSUME NEW s \in Server, Start(s) PROVE Kept
  <2>1. turn' = turn /\ stopped' = stopped
    BY <1>4 DEF Start
  <2> QED  BY <1>1, <1>3, <1>4, <2>1, StartTurn DEF ClockInv
<1>5. ASSUME NEW s \in Server, Stop(s) PROVE Kept
  BY <1>5, StopKeeper DEF Kept
<1>6. ASSUME NEW s \in Server, Write(s) PROVE Kept
  <2>1. turn' = turn /\ stopped' = stopped
    BY <1>6 DEF Write
  <2> QED  BY <1>1, <1>3, <1>6, <2>1, WriteTurn DEF ClockInv
<1>7. ASSUME NEW s \in Server, NEW p \in Server, Lose(s, p) PROVE Kept
  BY <1>7, LoseKeeper DEF Kept
<1>8. ASSUME NEW s \in Server, NEW draw \in Draws, Idle(s, draw) PROVE Kept
  <2>1. turn' = turn /\ stopped' = stopped
    BY <1>8 DEF Idle
  <2> QED  BY <1>1, <1>3, <1>8, <2>1, IdleTurn DEF ClockInv
<1>9. ASSUME NEW s \in Server, NEW draw \in Draws, NEW p \in Peers(s), Receive(p, s, draw)
      PROVE  Kept
  <2>1. turn' = turn /\ stopped' = stopped
    BY <1>9 DEF Receive
  <2> QED  BY <1>1, <1>3, <1>9, <2>1, ReceiveTurn DEF ClockInv
<1>10. CASE Pass
  BY <1>10, StillKeeper DEF Pass, Kept
<1>11. CASE Tick
  BY <1>11, TickKeeper DEF Kept
<1>12. CASE UNCHANGED vars
  BY <1>12, StillKeeper DEF vars, Kept
<1> QED  BY <1>4, <1>5, <1>6, <1>7, <1>8, <1>9, <1>10, <1>11, <1>12 DEF Next

\* While the leader of its term runs, no deadline passes of a follower that has
\* heard from it and was never restarted, whatever else happens: if a heartbeat's
\* period, the longest wait for Idle and the longest way of a message together
\* are shorter than an election timeout (2.5 s, 0.1 s and the way, against 5 s).
THEOREM FollowersAreKept ==
    ASSUME Heartbeat + Poll + Delay < Election
    PROVE  Spec => []LeaderKeepsFollowers
<1>1. Unhurried
  BY DEF Unhurried
<1>2. Init => KeeperInv
  BY InitClock, InitVotes, InitBeats DEF KeeperInv
<1>3. KeeperInv /\ [Next]_vars => KeeperInv'
  BY <1>1, NextKeeper
<1>4. KeeperInv => LeaderKeepsFollowers
  BY BeatsKeep DEF KeeperInv
<1> QED  BY <1>2, <1>3, <1>4, PTL DEF Spec

-----------------------------------------------------------------------------
(* The first leader.  All servers draw the same numbers, so what tells two  *)
(* candidates apart is only when they started.  As long as nobody has won   *)
(* and nobody was stopped, server 1, which stood first, is the one that     *)
(* wins: the others asked for votes in term 2 only, and hear of its next    *)
(* term before their own deadlines.                                         *)

\* All but the one that started first.
Others == Server \ {1}

\* Nobody has led yet, and nobody was stopped.
Undecided == stopped = {} /\ ~HadLeader

\* The messages of a queue.
Carried(c) == {c[i] : i \in 1..Len(c)}

IsRequest(m, t) == m.type = "RequestVoteRequest" /\ m.term = t
IsGrant(m, t) == m.type = "RequestVoteResponse" /\ m.ok /\ m.term = t

\* The term server 1 stands in, the newest there is.
Newest == server[1].term

\* Server 1 stands.  Another stood for term 2 when it started, and has left that
\* term for one of server 1 since, or not.
Stood(s, v, newest) ==
    /\ 2 <= v.term /\ v.term <= newest
    /\ v.role = "CANDIDATE" => v.term = 2
    /\ v.term = 2 => v.votedFor = s
    /\ v.term = newest /\ newest > 2 => v.votedFor \in {Nil, 1}

\* Servers start in order, and those that run have stood; none has a vote of
\* another.
Started ==
    /\ \A s \in Server : /\ server[s].votes = {} /\ server[s].role # "LEADER"
                         /\ server[s].up => \A p \in 1..s - 1 : server[p].up
                         /\ ~server[s].up => /\ server[s].term = 1
                                             /\ server[s].electionDue <= 0
                                             /\ \A p \in Server : channel[s][p] = << >>
    /\ server[1].up => server[1].role = "CANDIDATE" /\ Newest >= 2
    /\ \A s \in Others : server[s].up => Stood(s, server[s], Newest)
    /\ ~server[2].up => leaderless = 0

\* Nobody but server 1 asks for a vote in a newer term than 2, or is given one.
MaySay(s, p, m) ==
    /\ m.type \in {"RequestVoteRequest", "RequestVoteResponse"} /\ m.term <= Newest
    /\ m.type = "RequestVoteRequest" => s = 1 \/ m.term = 2
    /\ IsGrant(m, m.term) => p = 1
Said == \A s, p \in Server : \A m \in Carried(channel[s][p]) : MaySay(s, p, m)

\* While all that run stand in term 2, the deadlines are apart as the starts were.
Tied ==
    /\ ~server[2].up => server[1].electionDue + sinceStart <= first
    /\ server[2].up => server[2].electionDue + leaderless <= first
    /\ \A p \in Others : server[p].up => server[p].electionDue >= server[1].electionDue + Gap

\* In a newer term, p's vote is asked for and comes before p's deadline, or given.
Asked(p) ==
    \E m \in Carried(channel[1][p]) :
       IsRequest(m, Newest) /\ (server[p].up => server[p].electionDue + m.age > Delay)
Granted(p) ==
    /\ server[p].up
    /\ \E m \in Carried(channel[p][1]) :
          IsGrant(m, Newest) /\ server[p].electionDue + m.age >= Election

\* Server 2's vote arrives in w ticks or less.
Near(w) ==
    \/ \E m \in Carried(channel[1][2]) : IsRequest(m, Newest) /\ 2 * Delay <= m.age + w
    \/ \E m \in Carried(channel[2][1]) : IsGrant(m, Newest) /\ Delay <= m.age + w
\* Either no deadline has passed since the others stood, or there is time.
Early(w) ==
    /\ leaderless + w <= 2 * Delay
    /\ \A p \in Others : server[p].up => server[p].electionDue + leaderless >= Election
Late(w) == leaderless + w <= InTime /\ server[1].electionDue > w

\* Server 1 asked everybody for its newest term, and server 2 answers in time.
Ahead ==
    /\ \A p \in Others : Asked(p) \/ Granted(p)
    /\ server[2].up => \E w \in 0..2 * Delay : Near(w) /\ (Early(w) \/ Late(w))

\* Until somebody leads or is stopped.
Race ==
    /\ Started /\ Said
    /\ server[1].up => IF Newest = 2 THEN Tied ELSE Ahead

RaceInv == leaderless <= InTime /\ (Undecided => Race)

\* With four servers the first two may stand again and again before the third
\* starts, and then split its vote and theirs; servers that start within
\* Poll + Delay of each other may stand again before they hear of each other.
\* The rest is time enough for the messages of a vote.
Timely ==
    /\ Servers \in 2..3 /\ Rpc > 0
    /\ Poll + Delay < Gap
    /\ 3 * Delay < Election /\ 4 * Delay <= InTime
    /\ \A d \in Draws : d + Poll + 2 * Delay <= InTime + Gap

LEMMA TimelyNumbers ==
    ASSUME Timely
    PROVE  /\ 1 \in Server /\ 2 \in Server /\ 2 \in Others /\ 1 \notin Others
           /\ Others \subseteq {2, 3} /\ Others \subseteq Server
           /\ Server = {1} \cup Others
           /\ MinVotes(Servers) = 2
           /\ 2 * Election < Infinite
           /\ 3 * Delay < Election /\ 4 * Delay <= InTime /\ Poll + Delay < Gap
           /\ \A d \in Draws : d + Poll + 2 * Delay <= InTime + Gap
<1>1. Servers = 2 \/ Servers = 3
  BY DEF Timely
<1>2. MinVotes(Servers) = 2
  BY <1>1 DEF MinVotes
<1>3. Server = {1, 2} \/ Server = {1, 2, 3}
  BY <1>1 DEF Server
<1>4. 2 * Election < Infinite
  BY Times0 DEF Timely, Infinite
<1> QED  BY <1>2, <1>3, <1>4 DEF Timely, Others

-----------------------------------------------------------------------------
(* Carried. *)

\* A message that is sent is carried, and the one that is handled no more.
LEMMA CarriedAppend ==
    ASSUME NEW c \in Seq(Messages), NEW r \in Messages
    PROVE  Carried(Append(c, r)) = Carried(c) \cup {r}
<1>1. PICK d : d = Append(c, r)
  OBVIOUS
<1>2. /\ Len(d) = Len(c) + 1 /\ Len(c) \in Nat
      /\ \A i \in 1..Len(c) : d[i] = c[i]
      /\ d[Len(c) + 1] = r
  BY <1>1
<1>3. 1..Len(d) = 1..Len(c) \cup {Len(c) + 1}
  BY <1>2
<1>4. Carried(d) = Carried(c) \cup {r}
  BY <1>2, <1>3 DEF Carried
<1> QED  BY <1>1, <1>4

LEMMA CarriedTail ==
    ASSUME NEW c \in Seq(Messages), c # << >>
    PROVE  Head(c) \in Carried(c) /\ Carried(c) = {Head(c)} \cup Carried(Tail(c))
<1>1. Len(c) \in Nat \ {0} /\ Head(c) = c[1] /\ Len(Tail(c)) = Len(c) - 1
  BY HeadTailProperties
<1>2. \A i \in 1..Len(Tail(c)) : Tail(c)[i] = c[i + 1]
  BY HeadTailProperties
<1>3. ASSUME NEW m \in Carried(c) PROVE m = Head(c) \/ m \in Carried(Tail(c))
  <2>1. PICK i \in 1..Len(c) : m = c[i]
    BY DEF Carried
  <2>2. CASE i = 1
    BY <1>1, <2>1, <2>2
  <2>3. CASE i # 1
    <3>1. i - 1 \in 1..Len(Tail(c))
      BY <1>1, <2>3
    <3>2. (i - 1) + 1 = i
      BY <2>1
    <3>3. Tail(c)[i - 1] = c[i]
      BY <1>2, <3>1, <3>2
    <3> QED  BY <2>1, <3>1, <3>3 DEF Carried
  <2> QED  BY <2>2, <2>3
<1>4. ASSUME NEW m \in Carried(Tail(c)) PROVE m \in Carried(c)
  <2>1. PICK i \in 1..Len(Tail(c)) : m = Tail(c)[i]
    BY DEF Carried
  <2>2. m = c[i + 1] /\ i + 1 \in 1..Len(c)
    BY <1>1, <1>2, <2>1
  <2> QED  BY <2>2 DEF Carried
<1>5. Head(c) \in Carried(c)
  BY <1>1 DEF Carried
<1> QED  BY <1>3, <1>4, <1>5

LEMMA CarriedMessage ==
    ASSUME ChannelsInv, NEW s \in Server, NEW p \in Server,
           NEW m \in Carried(channel[s][p])
    PROVE  m \in Messages /\ m.term \in Nat /\ m.age \in Nat /\ m.age <= Delay
<1>1. channel[s][p] \in Seq(Messages)
  BY DEF ChannelsInv
<1>2. m \in Messages
  BY <1>1 DEF Carried
<1>3. PICK a, d : a = m.age /\ d = Delay /\ a \in 0..d
  BY <1>2 DEF Messages
<1>4. d \in Nat
  BY <1>3, Times0
<1> QED  BY <1>2, <1>3, <1>4, MessageFields

LEMMA CarriedNothing ==
    ASSUME NEW c, c = << >>
    PROVE  Carried(c) = {}
<1>1. Len(c) = 0
  OBVIOUS
<1> QED  BY <1>1 DEF Carried

LEMMA NothingCarried ==
    ASSUME NEW c \in Seq(Messages), Carried(c) = {}
    PROVE  c = << >>
<1>1. Len(c) \in Nat
  OBVIOUS
<1>2. Len(c) = 0
  <2> SUFFICES ASSUME Len(c) # 0 PROVE FALSE
    OBVIOUS
  <2>1. 1 \in 1..Len(c)
    BY <1>1
  <2>2. c[1] \in Carried(c)
    BY <2>1 DEF Carried
  <2> QED  BY <2>2
<1> QED  BY <1>2

-----------------------------------------------------------------------------
(* The turns of the race. *)

\* In a turn of s the other rows lose messages only, its own row loses none, and
\* what is new in it may be said.
Fewer(s) == \A q \in Server \ {s}, r \in Server :
               Carried(channel'[q][r]) \subseteq Carried(channel[q][r])
Adds(s) == \A r \in Server : Carried(channel[s][r]) \subseteq Carried(channel'[s][r])
Speaks(s) == \A r \in Server : \A n \in Carried(channel'[s][r]) :
               n \in Carried(channel[s][r]) \/ MaySay(s, r, n)'

\* Server 1 waits on, and misses no vote; or it stands again and asks everybody.
Waited(u, z) ==
    /\ u.up /\ z.term = u.term /\ z.electionDue = u.electionDue
    /\ \A q \in Others : \A n \in Carried(channel[q][1]) :
          IsGrant(n, u.term) => n \in Carried(channel'[q][1])
StoodAgain(u, z) ==
    /\ u.electionDue <= 0 /\ z.term = u.term + 1 /\ z.electionDue \in Draws
    /\ ~u.up => z.electionDue = first
    /\ \A q \in Others : \E n \in Carried(channel'[1][q]) :
          IsRequest(n, z.term) /\ n.age = 0
FirstTurn(u, z) ==
    /\ \A q \in Others : server'[q] = server[q]
    /\ z.up /\ z.role = "CANDIDATE" /\ z.votes = {}
    /\ Fewer(1) /\ Adds(1) /\ Speaks(1)
    /\ Waited(u, z) \/ StoodAgain(u, z)

\* Another server starts; or it answers server 1's newest request, if it was that,
\* and has a new deadline if it gives its vote.
JustStarted(s, u, z) ==
    /\ ~u.up /\ z.electionDue = first /\ sinceStart >= Gap
    /\ Carried(channel[1][s]) \subseteq Carried(channel'[1][s])
Answered(s, u, z) ==
    /\ u.up
    /\ z.electionDue = u.electionDue \/ (Newest > 2 /\ z.electionDue \in Draws)
    /\ \A n \in Carried(channel[1][s]) :
          IsRequest(n, Newest) /\ Newest > 2 =>
              \/ n \in Carried(channel'[1][s])
              \/ /\ z.electionDue \in Draws
                 /\ \E g \in Carried(channel'[s][1]) : IsGrant(g, Newest) /\ g.age = 0
OtherTurn(s, u, z) ==
    /\ \A q \in Server \ {s} : server'[q] = server[q]
    /\ z.up /\ z.role # "LEADER" /\ z.votes = {} /\ Stood(s, z, Newest)
    /\ \A p \in 1..s - 1 : server[p].up
    /\ Fewer(s) /\ Adds(s) /\ Speaks(s)
    /\ \A q \in Others \ {s} :
          /\ Carried(channel[1][q]) \subseteq Carried(channel'[1][q])
          /\ Carried(channel[q][1]) \subseteq Carried(channel'[q][1])
    /\ JustStarted(s, u, z) \/ Answered(s, u, z)

\* What no turn touches; a start ends the wait for one.
Frame(s) ==
    /\ first' = first /\ leaderless' = leaderless /\ stopped' = stopped
    /\ sinceStart' = IF server[s].up THEN sinceStart ELSE 0

LEMMA RaceNumbers ==
    ASSUME ClockInv
    PROVE  /\ \A s \in Server : /\ server[s].electionDue \in Int
                                /\ server[s].electionDue >= -Poll
                                /\ server[s].term \in Nat
           /\ leaderless \in Nat /\ sinceStart \in Nat /\ sinceStart <= Gap
           /\ first \in Draws /\ first \in Int
<1>1. ASSUME NEW s \in Server
      PROVE  /\ server[s].electionDue \in Int /\ server[s].electionDue >= -Poll
             /\ server[s].term \in Nat
  BY Times0 DEF ClockInv, ServersInv, Typed, Times
<1>2. /\ leaderless \in Nat /\ sinceStart \in Nat /\ sinceStart <= Gap
      /\ first \in Draws /\ first \in Int
  BY Times0 DEF ClockInv, RestInv
<1> QED  BY <1>1, <1>2

\* A request or a grant that is carried has an age.
LEMMA Ages ==
    ASSUME ClockInv, NEW s \in Server, NEW p \in Server
    PROVE  \A m \in Carried(channel[s][p]) : m.age \in Nat /\ m.age <= Delay
BY CarriedMessage DEF ClockInv

\* What is said stays sayable when server 1 goes on to a newer term.
LEMMA SaidKept ==
    ASSUME NEW s \in Server, Said, Fewer(s), Speaks(s), server'[1].term >= Newest,
           Newest \in Nat, server'[1].term \in Nat, ClockInv
    PROVE  Said'
<1> SUFFICES ASSUME NEW q \in Server, NEW r \in Server, NEW m \in Carried(channel'[q][r])
             PROVE  MaySay(q, r, m)'
  BY DEF Said
<1>1. CASE m \in Carried(channel[q][r])
  <2>1. MaySay(q, r, m) /\ m.term \in Nat
    BY <1>1, CarriedMessage DEF Said, ClockInv
  <2> QED  BY <2>1 DEF MaySay, Newest
<1>2. CASE m \notin Carried(channel[q][r])
  BY <1>2 DEF Fewer, Speaks
<1> QED  BY <1>1, <1>2

\* When server 1 stands again, no other is about to, and there is time for votes.
LEMMA StandsInTime ==
    ASSUME Timely, ClockInv, Race, server[1].up, server[1].electionDue <= 0
    PROVE  /\ \A p \in Others : server[p].up => server[p].electionDue > Delay
           /\ server[2].up => leaderless + 2 * Delay <= InTime
<1>1. /\ server[1].electionDue \in Int /\ server[1].electionDue >= -Poll
      /\ server[2].electionDue \in Int /\ leaderless \in Nat /\ first \in Draws
      /\ first \in Int
  BY RaceNumbers, TimelyNumbers
<1>2. \A p \in Others : server[p].electionDue \in Int
  BY RaceNumbers, TimelyNumbers
<1>3. Started /\ IF Newest = 2 THEN Tied ELSE Ahead
  BY DEF Race
<1>4. CASE Newest = 2
  <2>1. \A p \in Others : server[p].up => server[p].electionDue >= server[1].electionDue + Gap
    BY <1>3, <1>4 DEF Tied
  <2>2. server[2].up => server[2].electionDue + leaderless <= first
    BY <1>3, <1>4 DEF Tied
  <2>3. Poll + Delay < Gap /\ first + Poll + 2 * Delay <= InTime + Gap
    BY <1>1, TimelyNumbers
  <2>4. \A p \in Others : server[p].up => server[p].electionDue > Delay
    BY <1>1, <1>2, <2>1, <2>3, Times0
  <2>5. server[2].up => leaderless + 2 * Delay <= InTime
    BY <1>1, <2>1, <2>2, <2>3, Times0, TimelyNumbers
  <2> QED  BY <2>4, <2>5
<1>5. CASE Newest # 2
  <2>1. ASSUME server[2].up
        PROVE  /\ \A p \in Others : server[p].up => server[p].electionDue > Delay
               /\ leaderless + 2 * Delay <= InTime
    <3>1. PICK w \in 0..2 * Delay : Early(w) \/ Late(w)
      BY <1>3, <1>5, <2>1 DEF Ahead
    <3>2. w \in Nat
      BY <3>1, Times0
    <3>3. Early(w)
      BY <1>1, <3>1, <3>2 DEF Late
    <3>4. leaderless + w <= 2 * Delay
      BY <3>3 DEF Early
    <3>5. \A p \in Others : server[p].up => server[p].electionDue + leaderless >= Election
      BY <3>3 DEF Early
    <3>6. 3 * Delay < Election /\ 4 * Delay <= InTime
      BY TimelyNumbers
    <3> QED  BY <1>1, <1>2, <3>2, <3>4, <3>5, <3>6, Times0
  <2>2. ASSUME NEW p \in Others, server[p].up PROVE server[2].up
    <3>1. p = 2 \/ 2 \in 1..p - 1
      BY TimelyNumbers
    <3> QED  BY <1>3, <2>2, <3>1, TimelyNumbers DEF Started
  <2> QED  BY <2>1, <2>2
<1> QED  BY <1>4, <1>5

\* A turn of server 1 keeps it ahead.
LEMMA FirstRace ==
    ASSUME Timely, ClockInv, ClockInv', leaderless <= InTime, Race,
           FirstTurn(server[1], server'[1]), Frame(1)
    PROVE  Race'
<1> DEFINE u == server[1]
           z == server'[1]
<1>1. /\ \A q \in Others : server'[q] = server[q]
      /\ z.up /\ z.role = "CANDIDATE" /\ z.votes = {}
      /\ Fewer(1) /\ Adds(1) /\ Speaks(1)
      /\ Waited(u, z) \/ StoodAgain(u, z)
  BY DEF FirstTurn
<1>2. /\ u.term \in Nat /\ z.term \in Nat /\ z.term >= u.term
      /\ z.electionDue \in Int /\ u.electionDue \in Int /\ u.electionDue >= -Poll
  BY <1>1, RaceNumbers, TimelyNumbers, Times0 DEF Waited, StoodAgain
<1>3. Started /\ Said /\ (u.up => IF u.term = 2 THEN Tied ELSE Ahead)
  BY DEF Race, Newest
<1>4. Said'
  BY <1>1, <1>2, <1>3, SaidKept, TimelyNumbers DEF Newest
<1>5. z.term >= 2 /\ (z.term = 2 \/ z.term > 2)
  <2>1. u.up => u.term >= 2
    BY <1>3 DEF Started, Newest
  <2>2. ~u.up => u.term = 1
    BY <1>3, TimelyNumbers DEF Started
  <2> QED  BY <1>1, <1>2, <2>1, <2>2 DEF Waited, StoodAgain
<1>6. Started'
  <2>1. ASSUME NEW s \in Server
        PROVE  /\ server'[s].votes = {} /\ server'[s].role # "LEADER"
               /\ server'[s].up => \A p \in 1..s - 1 : server'[p].up
               /\ ~server'[s].up => /\ server'[s].term = 1
                                    /\ server'[s].electionDue <= 0
                                    /\ \A p \in Server : channel'[s][p] = << >>
    <3>1. CASE s = 1
      BY <1>1, <3>1
    <3>2. CASE s \in Others
      <4>1. /\ server'[s] = server[s]
            /\ server[s].votes = {} /\ server[s].role # "LEADER"
            /\ server[s].up => \A p \in 1..s - 1 : server[p].up
            /\ ~server[s].up => /\ server[s].term = 1
                                /\ server[s].electionDue <= 0
                                /\ \A p \in Server : channel[s][p] = << >>
        BY <1>1, <1>3, <3>2 DEF Started
      <4>2. \A p \in 1..s - 1 : p = 1 \/ p \in Others
        BY TimelyNumbers, Times0 DEF Others, Server
      <4>3. server'[s].up => \A p \in 1..s - 1 : server'[p].up
        BY <1>1, <4>1, <4>2
      <4>4. ASSUME NEW p \in Server, channel[s][p] = << >> PROVE channel'[s][p] = << >>
        <5>1. Carried(channel[s][p]) = {}
          BY <4>4, CarriedNothing
        <5>2. Carried(channel'[s][p]) = {}
          BY <1>1, <3>2, <5>1, TimelyNumbers DEF Fewer
        <5>3. channel'[s][p] \in Seq(Messages)
          BY DEF ClockInv, ChannelsInv
        <5> QED  BY <5>2, <5>3, NothingCarried
      <4> QED  BY <4>1, <4>3, <4>4
    <3> QED  BY <3>1, <3>2, TimelyNumbers
  <2>2. \A s \in Others : server'[s].up => Stood(s, server'[s], z.term)
    <3> SUFFICES ASSUME NEW s \in Others, server'[s].up PROVE Stood(s, server'[s], z.term)
      OBVIOUS
    <3>1. server'[s] = server[s] /\ Stood(s, server[s], u.term)
      BY <1>1, <1>3 DEF Started, Newest
    <3>2. server[s].term \in Nat
      BY RaceNumbers, TimelyNumbers
    <3> QED  BY <1>1, <1>2, <3>1, <3>2 DEF Stood, Newest, Waited, StoodAgain
  <2>3. ~server'[2].up => leaderless' = 0
    BY <1>1, <1>3, TimelyNumbers DEF Frame, Started
  <2> QED  BY <1>1, <1>5, <2>1, <2>2, <2>3 DEF Started, Newest
<1>7. ASSUME u.up, z.term = 2 PROVE Tied'
  <2>1. Waited(u, z) /\ Tied
    <3>1. u.term >= 2
      BY <1>3, <1>7 DEF Started, Newest
    <3> QED  BY <1>1, <1>2, <1>3, <1>7, <3>1 DEF StoodAgain, Waited
  <2>2. \A q \in Server : /\ server'[q].up = server[q].up
                          /\ server'[q].electionDue = server[q].electionDue
    <3> SUFFICES ASSUME NEW q \in Server
                 PROVE  /\ server'[q].up = server[q].up
                        /\ server'[q].electionDue = server[q].electionDue
      OBVIOUS
    <3>1. CASE q = 1
      <4>1. z.up = TRUE /\ u.up = TRUE
        BY <1>1, <1>7, TimelyNumbers DEF ClockInv, ServersInv, Typed
      <4> QED  BY <1>1, <2>1, <3>1, <4>1 DEF Waited
    <3>2. CASE q \in Others
      BY <1>1, <3>2
    <3> QED  BY <3>1, <3>2, TimelyNumbers
  <2> QED  BY <1>7, <2>1, <2>2, TimelyNumbers DEF Tied, Frame
<1>8. ASSUME Waited(u, z), z.term > 2 PROVE Ahead'
  <2>1. Ahead /\ u.up /\ z.term = u.term
    BY <1>2, <1>3, <1>8 DEF Waited
  <2>2. ASSUME NEW p \in Others PROVE (Asked(p) \/ Granted(p))'
    <3>1. server'[p] = server[p] /\ p \in Server
      BY <1>1, TimelyNumbers
    <3>2. CASE Asked(p)
      BY <1>1, <2>1, <3>1, <3>2, TimelyNumbers DEF Asked, Adds, Newest
    <3>3. CASE Granted(p)
      BY <1>8, <2>1, <3>1, <3>3 DEF Granted, Waited, Newest
    <3> QED  BY <2>1, <3>2, <3>3 DEF Ahead
  <2>3. ASSUME server'[2].up PROVE \E w \in 0..2 * Delay : (Near(w) /\ (Early(w) \/ Late(w)))'
    <3>1. server'[2] = server[2]
      BY <1>1, TimelyNumbers
    <3>2. PICK w \in 0..2 * Delay : Near(w) /\ (Early(w) \/ Late(w))
      BY <2>1, <2>3, <3>1 DEF Ahead
    <3>3. Near(w)'
      BY <1>1, <1>8, <2>1, <3>2, TimelyNumbers DEF Near, Adds, Waited, Newest
    <3>4. (Early(w) \/ Late(w))'
      BY <1>1, <1>8, <3>2 DEF Early, Late, Waited, Frame
    <3> QED  BY <3>3, <3>4
  <2> QED  BY <2>2, <2>3 DEF Ahead
<1>9. ASSUME StoodAgain(u, z), u.up, z.term > 2 PROVE Ahead'
  <2>1. /\ \A p \in Others : server[p].up => server[p].electionDue > Delay
        /\ server[2].up => leaderless + 2 * Delay <= InTime
    BY <1>9, StandsInTime DEF StoodAgain
  <2>2. ASSUME NEW p \in Others PROVE Asked(p)'
    <3>1. server'[p] = server[p] /\ server[p].electionDue \in Int
      BY <1>1, RaceNumbers, TimelyNumbers
    <3>2. PICK n \in Carried(channel'[1][p]) : IsRequest(n, z.term) /\ n.age = 0
      BY <1>9 DEF StoodAgain
    <3>3. server'[p].up => server'[p].electionDue + n.age > Delay
      BY <2>1, <3>1, <3>2
    <3> QED  BY <3>2, <3>3 DEF Asked, Newest
  <2>3. ASSUME server'[2].up PROVE \E w \in 0..2 * Delay : (Near(w) /\ (Early(w) \/ Late(w)))'
    <3>1. PICK w : w = 2 * Delay
      OBVIOUS
    <3>2. w \in 0..2 * Delay
      BY <3>1, Times0
    <3>3. PICK n \in Carried(channel'[1][2]) : IsRequest(n, z.term) /\ n.age = 0
      BY <1>9, TimelyNumbers DEF StoodAgain
    <3>4. Near(w)'
      BY <3>1, <3>2, <3>3, Times0 DEF Near, Newest
    <3>5. server[2].up
      BY <1>1, <2>3, TimelyNumbers
    <3>6. leaderless' + w <= InTime
      BY <2>1, <3>1, <3>5 DEF Frame
    <3>7. z.electionDue > w
      BY <1>9, <3>1, Times0, TimelyNumbers DEF StoodAgain
    <3> QED  BY <3>2, <3>4, <3>6, <3>7 DEF Late
  <2> QED  BY <2>2, <2>3 DEF Ahead
<1>10. ASSUME ~u.up PROVE z.term = 2 /\ Tied'
  <2>1. StoodAgain(u, z) /\ u.term = 1
    BY <1>1, <1>3, <1>10, TimelyNumbers DEF Waited, Started
  <2>2. \A q \in Others : ~server'[q].up
    <3> SUFFICES ASSUME NEW q \in Others PROVE ~server'[q].up
      OBVIOUS
    <3>1. 1 \in 1..q - 1 /\ q \in Server
      BY TimelyNumbers
    <3> QED  BY <1>1, <1>3, <1>10, <3>1 DEF Started
  <2>3. z.electionDue = first /\ sinceStart' = 0 /\ first' = first
    BY <1>10, <2>1 DEF StoodAgain, Frame
  <2>4. z.electionDue + sinceStart' <= first'
    BY <1>2, <2>3
  <2> QED  BY <2>1, <2>2, <2>4, TimelyNumbers DEF StoodAgain, Tied
<1>11. IF z.term = 2 THEN Tied' ELSE Ahead'
  BY <1>1, <1>5, <1>7, <1>8, <1>9, <1>10
<1> QED  BY <1>1, <1>4, <1>6, <1>11 DEF Race, Newest

\* A turn of another server does, too.
LEMMA OtherRace ==
    ASSUME Timely, ClockInv, ClockInv', leaderless <= InTime, Race,
           NEW s \in Others, OtherTurn(s, server[s], server'[s]), Frame(s)
    PROVE  Race'
<1> DEFINE u == server[s]
           z == server'[s]
<1>1. /\ \A q \in Server \ {s} : server'[q] = server[q]
      /\ z.up /\ z.role # "LEADER" /\ z.votes = {} /\ Stood(s, z, Newest)
      /\ \A p \in 1..s - 1 : server[p].up
      /\ Fewer(s) /\ Adds(s) /\ Speaks(s)
      /\ \A q \in Others \ {s} :
            /\ Carried(channel[1][q]) \subseteq Carried(channel'[1][q])
            /\ Carried(channel[q][1]) \subseteq Carried(channel'[q][1])
      /\ JustStarted(s, u, z) \/ Answered(s, u, z)
  BY DEF OtherTurn
<1>2. /\ s \in Server /\ s # 1 /\ 1 \in Server \ {s} /\ 1 \in 1..s - 1
      /\ server'[1] = server[1] /\ server[1].up /\ Newest' = Newest
      /\ Newest \in Nat
  BY <1>1, RaceNumbers, TimelyNumbers DEF Newest
<1>3. Started /\ Said /\ IF Newest = 2 THEN Tied ELSE Ahead
  BY <1>2 DEF Race
<1>4. /\ \A q \in Server : server[q].electionDue \in Int
      /\ z.electionDue \in Int /\ leaderless \in Nat /\ first \in Int /\ first \in Draws
      /\ leaderless' = leaderless /\ first' = first
      /\ \A d \in Draws : d \in Int /\ d >= Election
      /\ s = 2 \/ 2 \in 1..s - 1
  BY <1>1, <1>2, RaceNumbers, TimelyNumbers, Times0 DEF Frame, JustStarted, Answered
<1>5. Said'
  BY <1>1, <1>2, <1>3, SaidKept DEF Newest
<1>6. server'[2].up
  BY <1>1, <1>4, TimelyNumbers
<1>7. Started'
  <2>1. ASSUME NEW q \in Server
        PROVE  /\ server'[q].votes = {} /\ server'[q].role # "LEADER"
               /\ server'[q].up => \A p \in 1..q - 1 : server'[p].up
               /\ ~server'[q].up => /\ server'[q].term = 1
                                    /\ server'[q].electionDue <= 0
                                    /\ \A p \in Server : channel'[q][p] = << >>
    <3>1. CASE q = s
      <4>1. \A p \in 1..s - 1 : p \in Server \ {s}
        BY <1>2, Times0 DEF Server
      <4> QED  BY <1>1, <3>1, <4>1
    <3>2. CASE q # s
      <4>1. /\ server'[q] = server[q]
            /\ server[q].votes = {} /\ server[q].role # "LEADER"
            /\ server[q].up => \A p \in 1..q - 1 : server[p].up
            /\ ~server[q].up => /\ server[q].term = 1
                                /\ server[q].electionDue <= 0
                                /\ \A p \in Server : channel[q][p] = << >>
        BY <1>1, <1>3, <3>2 DEF Started
      <4>2. \A p \in 1..q - 1 : p = s \/ p \in Server \ {s}
        BY Times0 DEF Server
      <4>3. server'[q].up => \A p \in 1..q - 1 : server'[p].up
        BY <1>1, <4>1, <4>2
      <4>4. ASSUME NEW p \in Server, channel[q][p] = << >> PROVE channel'[q][p] = << >>
        <5>1. Carried(channel[q][p]) = {}
          BY <4>4, CarriedNothing
        <5>2. Carried(channel'[q][p]) = {}
          BY <1>1, <3>2, <5>1 DEF Fewer
        <5>3. channel'[q][p] \in Seq(Messages)
          BY DEF ClockInv, ChannelsInv
        <5> QED  BY <5>2, <5>3, NothingCarried
      <4> QED  BY <4>1, <4>3, <4>4
    <3> QED  BY <3>1, <3>2
  <2>2. \A q \in Others : server'[q].up => Stood(q, server'[q], Newest)
    <3> SUFFICES ASSUME NEW q \in Others, server'[q].up PROVE Stood(q, server'[q], Newest)
      OBVIOUS
    <3>1. CASE q = s
      BY <1>1, <3>1
    <3>2. CASE q # s
      BY <1>1, <1>3, <3>2, TimelyNumbers DEF Started
    <3> QED  BY <3>1, <3>2
  <2>3. server'[1].up => server'[1].role = "CANDIDATE" /\ Newest >= 2
    BY <1>2, <1>3 DEF Started
  <2> QED  BY <1>2, <1>6, <2>1, <2>2, <2>3 DEF Started
<1>8. ASSUME Newest = 2 PROVE Tied'
  <2>1. Tied /\ server'[1].electionDue = server[1].electionDue
    BY <1>2, <1>3, <1>8
  <2>2. CASE JustStarted(s, u, z)
    <3>1. server[1].electionDue + Gap <= first
      <4>1. CASE s = 2
        <5>1. server[1].electionDue + sinceStart <= first /\ sinceStart >= Gap
          BY <2>1, <2>2, <4>1 DEF Tied, JustStarted
        <5>2. sinceStart \in Nat
          BY RaceNumbers
        <5> QED  BY <1>2, <1>4, <5>1, <5>2, Times0
      <4>2. CASE 2 \in 1..s - 1
        <5>1. server[2].up
          BY <1>1, <4>2
        <5>2. /\ server[2].electionDue + leaderless <= first
              /\ server[2].electionDue >= server[1].electionDue + Gap
          BY <2>1, <5>1, TimelyNumbers DEF Tied
        <5> QED  BY <1>2, <1>4, <5>2, Times0, TimelyNumbers
      <4> QED  BY <1>4, <4>1, <4>2
    <3>2. server'[2].electionDue + leaderless' <= first'
      <4>1. CASE s = 2
        <5>1. ~server[2].up /\ z.electionDue = first
          BY <2>2, <4>1 DEF JustStarted
        <5>2. leaderless = 0
          BY <1>3, <5>1 DEF Started
        <5> QED  BY <1>4, <4>1, <5>1, <5>2
      <4>2. CASE 2 \in 1..s - 1
        <5>1. server[2].up /\ server'[2] = server[2]
          BY <1>1, <4>2, TimelyNumbers
        <5> QED  BY <1>4, <2>1, <5>1 DEF Tied
      <4> QED  BY <1>4, <4>1, <4>2
    <3>3. ASSUME NEW p \in Others, server'[p].up
          PROVE  server'[p].electionDue >= server[1].electionDue + Gap
      <4>1. CASE p = s
        BY <1>4, <2>2, <3>1, <4>1 DEF JustStarted
      <4>2. CASE p # s
        BY <1>1, <2>1, <3>3, <4>2, TimelyNumbers DEF Tied
      <4> QED  BY <4>1, <4>2
    <3> QED  BY <1>6, <2>1, <3>2, <3>3 DEF Tied
  <2>3. CASE Answered(s, u, z)
    <3>1. z.electionDue = u.electionDue /\ u.up
      BY <1>8, <2>3 DEF Answered
    <3>2. ASSUME NEW q \in Others, server'[q].up
          PROVE  server[q].up /\ server'[q].electionDue = server[q].electionDue
      BY <1>1, <3>1, <3>2, TimelyNumbers
    <3> QED  BY <1>4, <1>6, <2>1, <3>2, TimelyNumbers DEF Tied
  <2> QED  BY <1>1, <2>2, <2>3
<1>9. ASSUME Newest # 2 PROVE Ahead'
  <2>1. Ahead /\ Newest > 2
    BY <1>2, <1>3, <1>9 DEF Started
  <2>2. ASSUME NEW p \in Others, p # s PROVE (Asked(p) \/ Granted(p))'
    <3>1. server'[p] = server[p] /\ (Asked(p) \/ Granted(p))
      BY <1>1, <2>1, <2>2, TimelyNumbers DEF Ahead
    <3>2. CASE Asked(p)
      BY <1>1, <1>2, <2>2, <3>1, <3>2 DEF Asked
    <3>3. CASE Granted(p)
      BY <1>1, <1>2, <2>2, <3>1, <3>3 DEF Granted
    <3> QED  BY <3>1, <3>2, <3>3
  <2>3. (Asked(s) \/ Granted(s))'
    <3>1. \A m \in Carried(channel[1][s]) : m.age \in Nat /\ m.age <= Delay
      BY <1>2, Ages
    <3>2. \A m \in Carried(channel[s][1]) : m.age \in Nat /\ m.age <= Delay
      BY <1>2, Ages
    <3>3. CASE Asked(s)
      <4>1. PICK m \in Carried(channel[1][s]) :
               IsRequest(m, Newest) /\ (u.up => u.electionDue + m.age > Delay)
        BY <3>3 DEF Asked
      <4>2. CASE m \in Carried(channel'[1][s]) /\ z.electionDue + m.age > Delay
        BY <1>2, <4>1, <4>2 DEF Asked
      <4>3. CASE m \in Carried(channel'[1][s]) /\ ~(z.electionDue + m.age > Delay)
        <5>1. z.electionDue \in Draws
          BY <1>1, <1>4, <4>1, <4>3 DEF JustStarted, Answered
        <5>2. Delay < Election /\ m.age \in Nat
          BY <3>1, Times0, TimelyNumbers
        <5> QED  BY <1>4, <4>3, <5>1, <5>2, Times0
      <4>4. CASE m \notin Carried(channel'[1][s])
        <5>1. Answered(s, u, z)
          BY <1>1, <4>1, <4>4 DEF JustStarted
        <5>2. PICK g \in Carried(channel'[s][1]) :
                 IsGrant(g, Newest) /\ g.age = 0 /\ z.electionDue \in Draws
          BY <2>1, <4>1, <4>4, <5>1 DEF Answered
        <5>3. z.electionDue + g.age >= Election
          BY <1>4, <5>2
        <5> QED  BY <1>1, <1>2, <5>2, <5>3 DEF Granted
      <4> QED  BY <4>2, <4>3, <4>4
    <3>4. CASE Granted(s)
      <4>1. PICK m \in Carried(channel[s][1]) :
               IsGrant(m, Newest) /\ u.electionDue + m.age >= Election
        BY <3>4 DEF Granted
      <4>2. m \in Carried(channel'[s][1]) /\ m.age \in Nat
        BY <1>1, <1>2, <3>2 DEF Adds
      <4>3. z.electionDue = u.electionDue \/ z.electionDue \in Draws
        BY <1>1, <3>4 DEF Granted, JustStarted, Answered
      <4>4. z.electionDue + m.age >= Election
        BY <1>4, <4>1, <4>2, <4>3, Times0
      <4> QED  BY <1>1, <1>2, <4>1, <4>2, <4>4 DEF Granted
    <3> QED  BY <2>1, <3>3, <3>4 DEF Ahead
  <2>4. CASE ~server[2].up
    <3>1. s = 2 /\ JustStarted(s, u, z)
      BY <1>1, <1>4, <2>4 DEF Answered
    <3>2. PICK w : w = 2 * Delay
      OBVIOUS
    <3>3. w \in 0..2 * Delay
      BY <3>2, Times0
    <3>4. PICK m \in Carried(channel[1][2]) : IsRequest(m, Newest)
      BY <2>1, <2>4, TimelyNumbers DEF Ahead, Asked, Granted
    <3>5. m \in Carried(channel'[1][2]) /\ m.age \in Nat
      BY <3>1, Ages, TimelyNumbers DEF JustStarted
    <3>6. Near(w)'
      BY <1>2, <3>2, <3>4, <3>5, Times0 DEF Near
    <3>7. leaderless' = 0
      BY <1>3, <1>4, <2>4 DEF Started
    <3>8. ASSUME NEW p \in Others, server'[p].up PROVE server'[p].electionDue + leaderless' >= Election
      <4>1. p = 2 \/ (p # s /\ 2 \in 1..p - 1)
        BY <3>1, TimelyNumbers
      <4>2. p = 2
        BY <1>1, <1>3, <2>4, <3>8, <4>1, TimelyNumbers DEF Started
      <4>3. z.electionDue = first
        BY <3>1 DEF JustStarted
      <4> QED  BY <1>4, <3>1, <3>7, <4>2, <4>3
    <3>9. Early(w)'
      BY <3>2, <3>7, <3>8, Times0 DEF Early
    <3> QED  BY <2>2, <2>3, <3>3, <3>6, <3>9 DEF Ahead
  <2>5. CASE server[2].up
    <3>1. PICK w \in 0..2 * Delay : Near(w) /\ (Early(w) \/ Late(w))
      BY <2>1, <2>5 DEF Ahead
    <3>2. w \in Nat
      BY <3>1, Times0
    <3>3. ASSUME NEW m \in Carried(channel[1][2]), IsRequest(m, Newest), 2 * Delay <= m.age + w
          PROVE  Near(w)'
      <4>1. CASE m \in Carried(channel'[1][2])
        BY <1>2, <3>3, <4>1 DEF Near
      <4>2. CASE m \notin Carried(channel'[1][2])
        <5>1. s = 2
          BY <1>1, <4>2, TimelyNumbers
        <5>2. Answered(s, u, z)
          BY <1>1, <2>5, <5>1 DEF JustStarted
        <5>3. PICK g \in Carried(channel'[2][1]) : IsGrant(g, Newest) /\ g.age = 0
          BY <2>1, <3>3, <4>2, <5>1, <5>2 DEF Answered
        <5>4. m.age \in Nat /\ m.age <= Delay
          BY Ages, TimelyNumbers
        <5>5. Delay <= g.age + w
          BY <3>2, <3>3, <5>3, <5>4, Times0
        <5> QED  BY <1>2, <5>3, <5>5 DEF Near
      <4> QED  BY <4>1, <4>2
    <3>4. ASSUME NEW m \in Carried(channel[2][1]), IsGrant(m, Newest), Delay <= m.age + w
          PROVE  Near(w)'
      <4>1. Carried(channel[2][1]) \subseteq Carried(channel'[2][1])
        BY <1>1, <1>2, TimelyNumbers DEF Adds
      <4> QED  BY <1>2, <3>4, <4>1 DEF Near
    <3>5. Near(w)'
      BY <3>1, <3>3, <3>4 DEF Near
    <3>6. ASSUME Early(w) PROVE (Early(w) \/ Late(w))'
      <4>1. ASSUME NEW p \in Others, server'[p].up
            PROVE  server'[p].electionDue + leaderless' >= Election
        <5>1. CASE p = s /\ z.electionDue \in Draws
          BY <1>4, <5>1, Times0
        <5>2. CASE p = s /\ z.electionDue \notin Draws
          <6>1. u.up /\ z.electionDue = u.electionDue
            BY <1>1, <1>4, <5>2 DEF JustStarted, Answered
          <6> QED  BY <1>4, <3>6, <5>2, <6>1 DEF Early
        <5>3. CASE p # s
          BY <1>1, <1>4, <3>6, <4>1, <5>3, TimelyNumbers DEF Early
        <5> QED  BY <5>1, <5>2, <5>3
      <4> QED  BY <1>4, <3>6, <4>1 DEF Early
    <3>7. ASSUME Late(w) PROVE (Early(w) \/ Late(w))'
      BY <1>2, <1>4, <3>7 DEF Late
    <3>8. (Early(w) \/ Late(w))'
      BY <3>1, <3>6, <3>7
    <3> QED  BY <2>2, <2>3, <3>1, <3>5, <3>8 DEF Ahead
  <2> QED  BY <2>4, <2>5
<1> QED  BY <1>2, <1>5, <1>7, <1>8, <1>9 DEF Race

-----------------------------------------------------------------------------
(* A tick of the race. *)

\* Messages grow older by one, if who they are for runs.
LEMMA TickCarried ==
    ASSUME ClockInv, Tick, NEW s \in Server, NEW p \in Server
    PROVE  /\ \A m \in Carried(channel'[s][p]) : \E n \in Carried(channel[s][p]) :
                 m.type = n.type /\ m.term = n.term /\ m.ok = n.ok
           /\ \A n \in Carried(channel[s][p]) : \E m \in Carried(channel'[s][p]) :
                 /\ m.type = n.type /\ m.term = n.term /\ m.ok = n.ok
                 /\ server[p].up => m.age = n.age + 1 /\ n.age < Delay
<1>1. TickRows
  BY TickChannels
<1>2. /\ Len(channel'[s][p]) = Len(channel[s][p])
      /\ \A i \in 1..Len(channel[s][p]) :
            /\ channel'[s][p][i].type = channel[s][p][i].type
            /\ channel'[s][p][i].term = channel[s][p][i].term
            /\ channel'[s][p][i].ok = channel[s][p][i].ok
            /\ channel'[s][p][i].age = IF server[p].up THEN channel[s][p][i].age + 1 ELSE 1
  BY <1>1 DEF TickRows
<1>3. ASSUME server[p].up, NEW i \in 1..Len(channel[s][p])
      PROVE  channel[s][p][i].age < Delay
  <2>1. OnTime(p)
    BY <1>3, AllOnTime
  <2>2. s # p
    <3> SUFFICES ASSUME s = p PROVE FALSE
      OBVIOUS
    <3>1. channel[s][p] = << >>
      BY DEF ClockInv, ChannelsInv
    <3> QED  BY <1>3, <3>1
  <2> QED  BY <1>3, <2>1, <2>2 DEF OnTime, Peers
<1>4. ASSUME NEW m \in Carried(channel'[s][p])
      PROVE  \E n \in Carried(channel[s][p]) :
                m.type = n.type /\ m.term = n.term /\ m.ok = n.ok
  <2>1. PICK i \in 1..Len(channel[s][p]) : m = channel'[s][p][i]
    BY <1>2 DEF Carried
  <2>2. channel[s][p][i] \in Carried(channel[s][p])
    BY DEF Carried
  <2> QED  BY <1>2, <2>1, <2>2
<1>5. ASSUME NEW n \in Carried(channel[s][p])
      PROVE  \E m \in Carried(channel'[s][p]) :
                /\ m.type = n.type /\ m.term = n.term /\ m.ok = n.ok
                /\ server[p].up => m.age = n.age + 1 /\ n.age < Delay
  <2>1. PICK i \in 1..Len(channel[s][p]) : n = channel[s][p][i]
    BY DEF Carried
  <2>2. channel'[s][p][i] \in Carried(channel'[s][p])
    BY <1>2 DEF Carried
  <2> QED  BY <1>2, <1>3, <2>1, <2>2
<1> QED  BY <1>4, <1>5

\* In a race no deadline of election is at Max or was missed.
LEMMA TickDeadline ==
    ASSUME Timely, ClockInv, Tick, NEW s \in Server, server[s].role # "LEADER"
    PROVE  /\ server'[s].electionDue <= server[s].electionDue
           /\ server[s].up => server'[s].electionDue = server[s].electionDue - 1
<1>1. /\ Typed(s, server[s]) /\ Sound(s, server[s])
      /\ server'[s].electionDue = Later(server[s].electionDue)
  BY TickServers DEF ClockInv, ServersInv, Ticks
<1>2. PICK e : e = server[s].electionDue
  OBVIOUS
<1>3. e \in Times /\ e # Infinite
  BY <1>1, <1>2, Times0, TimelyNumbers DEF Typed, Sound, Times
<1>4. server[s].up => e > -Poll
  <2> SUFFICES ASSUME server[s].up PROVE e > -Poll
    OBVIOUS
  <2>1. OnTime(s)
    BY AllOnTime
  <2>2. e \in Waits(s)
    <3>1. server[s].role = "FOLLOWER" \/ server[s].role = "CANDIDATE"
      BY <1>1 DEF Typed
    <3> QED  BY <1>2, <3>1 DEF Waits
  <2> QED  BY <2>1, <2>2 DEF OnTime
<1> QED  BY <1>1, <1>2, <1>3, <1>4, LaterFields

\* The time without a leader grows by one when two run.
LEMMA TickLeaderless ==
    ASSUME Timely, ClockInv, leaderless <= InTime, Undecided, Started, Tick
    PROVE  leaderless' = IF server[2].up THEN leaderless + 1 ELSE 0
<1>1. leaderless \in Nat
  BY RaceNumbers
<1>2. leaderless' = IF Majority THEN leaderless + 1 ELSE 0
  <2>1. leaderless' = IF Majority /\ ~HadLeader /\ stopped = {}
                      THEN MinOf(leaderless + 1, InTime + 1) ELSE 0
    BY DEF Tick
  <2>2. MinOf(leaderless + 1, InTime + 1) = leaderless + 1
    BY <1>1, Times0 DEF MinOf
  <2> QED  BY <2>1, <2>2 DEF Undecided
<1> DEFINE Ups == {s \in Server : server[s].up}
<1>3. IsFiniteSet(Ups)
  <2>1. IsFiniteSet(Server)
    BY FS_Interval, Times0 DEF Server
  <2>2. Ups \subseteq Server
    OBVIOUS
  <2> HIDE DEF Ups
  <2> QED  BY <2>1, <2>2, FS_Subset
<1>4. ASSUME server[2].up PROVE Majority
  <2>1. {1, 2} \subseteq Ups
    <3>1. 1 \in 1..2 - 1
      OBVIOUS
    <3>2. server[1].up
      BY <1>4, <3>1, TimelyNumbers DEF Started
    <3> QED  BY <1>4, <3>2, TimelyNumbers
  <2>2. Cardinality({1, 2}) = 2 /\ IsFiniteSet({1, 2})
    <3>1. Cardinality({1}) = 1 /\ IsFiniteSet({1})
      BY FS_Singleton
    <3>2. {1, 2} = {1} \cup {2} /\ 2 \notin {1}
      OBVIOUS
    <3> QED  BY <3>1, <3>2, FS_AddElement
  <2>3. Cardinality(Ups) \in Nat /\ Cardinality({1, 2}) <= Cardinality(Ups)
    BY <1>3, <2>1, FS_Subset, FS_CardinalityType
  <2>4. 2 * Cardinality(Ups) > Servers
    BY <2>2, <2>3 DEF Timely
  <2> QED  BY <2>4 DEF Majority
<1>5. ASSUME ~server[2].up PROVE ~Majority
  <2>1. Ups \subseteq {1}
    <3> SUFFICES ASSUME NEW q \in Server, server[q].up PROVE q = 1
      OBVIOUS
    <3>1. q = 2 \/ q = 1 \/ 2 \in 1..q - 1
      BY TimelyNumbers
    <3> QED  BY <1>5, <3>1 DEF Started
  <2>2. Cardinality({1}) = 1 /\ IsFiniteSet({1})
    BY FS_Singleton
  <2>3. Cardinality(Ups) \in Nat /\ Cardinality(Ups) <= 1
    BY <1>3, <2>1, <2>2, FS_Subset, FS_CardinalityType
  <2>4. ~(2 * Cardinality(Ups) > Servers)
    BY <2>3 DEF Timely
  <2> QED  BY <2>4 DEF Majority
<1> QED  BY <1>2, <1>4, <1>5

LEMMA TickRace ==
    ASSUME Timely, ClockInv, ClockInv', leaderless <= InTime, Undecided, Race, Tick
    PROVE  Race' /\ leaderless' <= InTime
<1>1. ASSUME NEW s \in Server
      PROVE  /\ server'[s].up = server[s].up /\ server'[s].role = server[s].role
             /\ server'[s].term = server[s].term /\ server'[s].votes = server[s].votes
             /\ server'[s].votedFor = server[s].votedFor
             /\ server'[s].electionDue <= server[s].electionDue
             /\ server[s].up => server'[s].electionDue = server[s].electionDue - 1
             /\ server[s].electionDue \in Int /\ server'[s].electionDue \in Int
             /\ server[s].term \in Nat
  <2>1. Ticks(s, server[s], server'[s])
    BY TickServers DEF ClockInv
  <2>2. server[s].role # "LEADER"
    BY DEF Race, Started
  <2>3. server[s].electionDue \in Int /\ server'[s].electionDue \in Int
        /\ server[s].term \in Nat
    BY RaceNumbers DEF ClockInv, ServersInv, Typed, Times
  <2> QED  BY <2>1, <2>2, <2>3, TickDeadline DEF Ticks
<1>2. /\ leaderless' = IF server[2].up THEN leaderless + 1 ELSE 0
      /\ leaderless \in Nat /\ leaderless' \in Nat
  BY TickLeaderless, RaceNumbers DEF Race
<1>3. /\ first' = first /\ sinceStart' <= sinceStart + 1 /\ sinceStart \in Nat
      /\ sinceStart' \in Nat /\ first \in Draws /\ first \in Int
  <2>1. /\ first' = first /\ sinceStart' = MinOf(sinceStart + 1, Gap)
        /\ sinceStart \in Nat /\ first \in Draws /\ first \in Int
    BY RaceNumbers DEF Tick
  <2> QED  BY <2>1, Times0 DEF MinOf
<1>4. Newest' = Newest /\ 1 \in Server /\ Newest \in Nat
  BY <1>1, TimelyNumbers DEF Newest
<1>5. Started /\ Said
  BY DEF Race
<1>6. Said'
  <2> SUFFICES ASSUME NEW s \in Server, NEW p \in Server, NEW m \in Carried(channel'[s][p])
               PROVE  MaySay(s, p, m)'
    BY DEF Said
  <2>1. PICK n \in Carried(channel[s][p]) :
           m.type = n.type /\ m.term = n.term /\ m.ok = n.ok
    BY TickCarried
  <2>2. MaySay(s, p, n)
    BY <1>5 DEF Said
  <2> QED  BY <1>4, <2>1, <2>2 DEF MaySay, IsGrant
<1>7. Started'
  <2>1. ASSUME NEW s \in Server
        PROVE  /\ server'[s].votes = {} /\ server'[s].role # "LEADER"
               /\ server'[s].up => \A p \in 1..s - 1 : server'[p].up
               /\ ~server'[s].up => /\ server'[s].term = 1
                                    /\ server'[s].electionDue <= 0
                                    /\ \A p \in Server : channel'[s][p] = << >>
    <3>1. /\ server[s].votes = {} /\ server[s].role # "LEADER"
          /\ server[s].up => \A p \in 1..s - 1 : server[p].up
          /\ ~server[s].up => /\ server[s].term = 1
                              /\ server[s].electionDue <= 0
                              /\ \A p \in Server : channel[s][p] = << >>
      BY <1>5 DEF Started
    <3>2. 1..s - 1 \subseteq Server
      BY Times0 DEF Server
    <3>3. ASSUME NEW p \in Server, channel[s][p] = << >> PROVE channel'[s][p] = << >>
      <4>1. Carried(channel[s][p]) = {}
        BY <3>3, CarriedNothing
      <4>2. Carried(channel'[s][p]) = {}
        BY <4>1, TickCarried
      <4>3. channel'[s][p] \in Seq(Messages)
        BY DEF ClockInv, ChannelsInv
      <4> QED  BY <4>2, <4>3, NothingCarried
    <3>4. server'[s].up => \A p \in 1..s - 1 : server'[p].up
      BY <1>1, <3>1, <3>2
    <3>5. server'[s].electionDue <= server[s].electionDue
          /\ server[s].electionDue \in Int /\ server'[s].electionDue \in Int
      BY <1>1
    <3> QED  BY <1>1, <3>1, <3>3, <3>4, <3>5
  <2>2. ASSUME NEW s \in Others, server'[s].up PROVE Stood(s, server'[s], Newest)
    <3>1. s \in Server
      BY TimelyNumbers
    <3>2. Stood(s, server[s], Newest)
      BY <1>1, <1>5, <2>2, <3>1 DEF Started
    <3>3. /\ server'[s].role = server[s].role /\ server'[s].term = server[s].term
          /\ server'[s].votedFor = server[s].votedFor
      BY <1>1, <3>1
    <3> QED  BY <3>2, <3>3 DEF Stood
  <2>3. server'[1].up => server'[1].role = "CANDIDATE" /\ Newest >= 2
    BY <1>1, <1>4, <1>5 DEF Started
  <2>4. ~server'[2].up => leaderless' = 0
    BY <1>1, <1>2, TimelyNumbers
  <2> QED  BY <1>4, <2>1, <2>2, <2>3, <2>4 DEF Started
<1>8. ASSUME server[1].up, Newest = 2 PROVE Tied'
  <2>1. Tied
    BY <1>8 DEF Race
  <2>2. ~server'[2].up => server'[1].electionDue + sinceStart' <= first'
    BY <1>1, <1>3, <1>4, <1>8, <2>1, TimelyNumbers DEF Tied
  <2>3. server'[2].up => server'[2].electionDue + leaderless' <= first'
    BY <1>1, <1>2, <1>3, <2>1, TimelyNumbers DEF Tied
  <2>4. ASSUME NEW p \in Others, server'[p].up
        PROVE  server'[p].electionDue >= server'[1].electionDue + Gap
    <3>1. server[p].up /\ server[p].electionDue >= server[1].electionDue + Gap
      BY <1>1, <2>1, <2>4, TimelyNumbers DEF Tied
    <3> QED  BY <1>1, <1>4, <1>8, <3>1, Times0, TimelyNumbers
  <2> QED  BY <2>2, <2>3, <2>4 DEF Tied
<1>9. ASSUME server[1].up, Newest # 2 PROVE Ahead'
  <2>1. Ahead
    BY <1>9 DEF Race
  <2>2. ASSUME NEW p \in Others PROVE (Asked(p) \/ Granted(p))'
    <3>0. p \in Server
      BY TimelyNumbers
    <3>1. CASE Asked(p)
      <4>1. PICK n \in Carried(channel[1][p]) :
               /\ IsRequest(n, Newest)
               /\ server[p].up => server[p].electionDue + n.age > Delay
        BY <3>1 DEF Asked
      <4>2. PICK m \in Carried(channel'[1][p]) :
               /\ m.type = n.type /\ m.term = n.term
               /\ server[p].up => m.age = n.age + 1
        BY <1>4, <3>0, TickCarried
      <4>3. n.age \in Nat
        BY <1>4, <3>0, Ages
      <4>4. server'[p].up => server'[p].electionDue + m.age > Delay
        BY <1>1, <3>0, <4>1, <4>2, <4>3
      <4> QED  BY <1>4, <4>1, <4>2, <4>4 DEF Asked, IsRequest
    <3>2. CASE Granted(p)
      <4>1. PICK n \in Carried(channel[p][1]) :
               IsGrant(n, Newest) /\ server[p].electionDue + n.age >= Election
        BY <3>2 DEF Granted
      <4>2. PICK m \in Carried(channel'[p][1]) :
               m.type = n.type /\ m.term = n.term /\ m.ok = n.ok /\ m.age = n.age + 1
        BY <1>4, <1>9, <3>0, TickCarried
      <4>3. n.age \in Nat /\ server[p].up
        BY <1>4, <3>0, <3>2, Ages DEF Granted
      <4>4. server'[p].electionDue + m.age >= Election
        BY <1>1, <3>0, <4>1, <4>2, <4>3, Times0
      <4> QED  BY <1>1, <1>4, <3>0, <4>1, <4>2, <4>3, <4>4 DEF Granted, IsGrant
    <3> QED  BY <2>1, <3>1, <3>2 DEF Ahead
  <2>3. ASSUME server'[2].up PROVE \E w \in 0..2 * Delay : (Near(w) /\ (Early(w) \/ Late(w)))'
    <3>1. server[2].up /\ leaderless' = leaderless + 1
      BY <1>1, <1>2, <2>3, TimelyNumbers
    <3>2. PICK w \in 0..2 * Delay : Near(w) /\ (Early(w) \/ Late(w))
      BY <2>1, <3>1 DEF Ahead
    <3>3. PICK x : x = w - 1
      OBVIOUS
    <3>4. w \in Nat /\ x \in Int /\ w = x + 1 /\ w <= 2 * Delay
      BY <3>2, <3>3, Times0
    <3>5. ASSUME NEW n \in Carried(channel[1][2]), IsRequest(n, Newest), 2 * Delay <= n.age + w
          PROVE  Near(x)' /\ x >= 0
      <4>1. PICK m \in Carried(channel'[1][2]) :
               m.type = n.type /\ m.term = n.term /\ m.age = n.age + 1 /\ n.age < Delay
        BY <1>4, <3>1, TickCarried, TimelyNumbers
      <4>2. n.age \in Nat
        BY <1>4, Ages, TimelyNumbers
      <4>3. 2 * Delay <= m.age + x /\ x >= 0
        BY <3>4, <3>5, <4>1, <4>2, Times0
      <4> QED  BY <1>4, <3>5, <4>1, <4>3 DEF Near, IsRequest
    <3>6. ASSUME NEW n \in Carried(channel[2][1]), IsGrant(n, Newest), Delay <= n.age + w
          PROVE  Near(x)' /\ x >= 0
      <4>1. PICK m \in Carried(channel'[2][1]) :
               /\ m.type = n.type /\ m.term = n.term /\ m.ok = n.ok
               /\ m.age = n.age + 1 /\ n.age < Delay
        BY <1>4, <1>9, TickCarried, TimelyNumbers
      <4>2. n.age \in Nat
        BY <1>4, Ages, TimelyNumbers
      <4>3. Delay <= m.age + x /\ x >= 0
        BY <3>4, <3>6, <4>1, <4>2, Times0
      <4> QED  BY <1>4, <3>6, <4>1, <4>3 DEF Near, IsGrant
    <3>7. Near(x)' /\ x \in 0..2 * Delay
      <4>1. Near(x)' /\ x >= 0
        BY <3>2, <3>5, <3>6 DEF Near
      <4> QED  BY <3>4, <4>1, Times0
    <3>8. ASSUME Early(w) PROVE Early(x)'
      <4>1. leaderless' + x <= 2 * Delay
        BY <1>2, <3>1, <3>4, <3>8, Times0 DEF Early
      <4>2. ASSUME NEW p \in Others, server'[p].up
            PROVE  server'[p].electionDue + leaderless' >= Election
        <5>1. server[p].up /\ server[p].electionDue + leaderless >= Election
          BY <1>1, <3>8, <4>2, TimelyNumbers DEF Early
        <5> QED  BY <1>1, <1>2, <3>1, <5>1, Times0, TimelyNumbers
      <4> QED  BY <4>1, <4>2 DEF Early
    <3>9. ASSUME Late(w) PROVE Late(x)'
      <4>1. leaderless' + x <= InTime
        BY <1>2, <3>1, <3>4, <3>9, Times0 DEF Late
      <4>2. server'[1].electionDue > x
        BY <1>1, <1>4, <1>9, <3>4, <3>9 DEF Late
      <4> QED  BY <4>1, <4>2 DEF Late
    <3> QED  BY <3>2, <3>7, <3>8, <3>9
  <2> QED  BY <2>2, <2>3 DEF Ahead
<1>10. Race'
  BY <1>1, <1>4, <1>6, <1>7, <1>8, <1>9 DEF Race
<1>11. leaderless' <= InTime
  <2>1. CASE ~server[2].up
    BY <1>2, <2>1, Times0
  <2>2. CASE server[2].up
    <3>1. server[1].up
      <4>1. 1 \in 1..2 - 1
        OBVIOUS
      <4> QED  BY <1>5, <2>2, <4>1, TimelyNumbers DEF Started
    <3>2. server'[1].up /\ server'[2].up /\ 0 <= Poll /\ server'[1].electionDue >= -Poll
      BY <1>1, <2>2, <3>1, TimelyNumbers, Times0 DEF ClockInv, ServersInv, Typed, Times
    <3>3. CASE Newest = 2
      <4>1. /\ server'[2].electionDue + leaderless' <= first
            /\ server'[2].electionDue >= server'[1].electionDue + Gap
        BY <1>3, <1>8, <3>1, <3>2, <3>3, TimelyNumbers DEF Tied
      <4>2. first + Poll + 2 * Delay <= InTime + Gap
        BY <1>3, TimelyNumbers
      <4> QED  BY <1>1, <1>2, <1>3, <1>4, <3>2, <4>1, <4>2, Times0, TimelyNumbers
    <3>4. CASE Newest # 2
      <4>1. PICK w \in 0..2 * Delay : (Early(w) \/ Late(w))'
        BY <1>9, <3>1, <3>2, <3>4 DEF Ahead
      <4>2. leaderless' + w <= 2 * Delay \/ leaderless' + w <= InTime
        BY <4>1 DEF Early, Late
      <4>3. w \in Nat
        BY <4>1, Times0
      <4> QED  BY <1>2, <4>2, <4>3, Times0, TimelyNumbers
    <3> QED  BY <3>3, <3>4
  <2> QED  BY <2>1, <2>2
<1> QED  BY <1>10, <1>11

-----------------------------------------------------------------------------
(* The turns are those of the race. *)

Lacks(v) == ~v.hasLog

\* Who wins becomes a leader and has a log: without a log, a server stands when
\* it is due, or waits on without a vote.
LEMMA Campaign ==
    ASSUME Timely, NEW s \in Server, NEW x, Typed(s, x), Sound(s, x),
           x.role # "LEADER", NEW draw \in Draws, Lacks(Elected(s, x, draw))
    PROVE  \/ x.electionDue <= 0 /\ Elected(s, x, draw) = Stand(s, x, draw)
           \/ /\ x.electionDue > 0 /\ Elected(s, x, draw) = x
              /\ x.role = "CANDIDATE" => x.votes = {}
<1>1. PICK y : y = IF x.role # "LEADER" /\ Due(x.electionDue) THEN Stand(s, x, draw) ELSE x
  OBVIOUS
<1>2. PICK w : w = Elected(s, x, draw)
  OBVIOUS
<1>3. w = IF y.role = "CANDIDATE" /\ Cardinality(y.votes) + 1 >= MinVotes(Servers)
          THEN Lead(s, y) ELSE y
  BY <1>1, <1>2 DEF Elected
<1>4. Typed(s, y) /\ Sound(s, y)
  <2>1. CASE Due(x.electionDue)
    BY <1>1, <2>1, StandFields
  <2>2. CASE ~Due(x.electionDue)
    BY <1>1, <2>2
  <2> QED  BY <2>1, <2>2
<1>5. ~(y.role = "CANDIDATE" /\ Cardinality(y.votes) + 1 >= MinVotes(Servers))
  <2> SUFFICES ASSUME y.role = "CANDIDATE", Cardinality(y.votes) + 1 >= MinVotes(Servers)
               PROVE  FALSE
    OBVIOUS
  <2>1. w = Lead(s, y) /\ y.votedFor = s
    BY <1>3, <1>4 DEF Sound
  <2>2. w.hasLog
    BY <1>4, <2>1, LeadFields
  <2> QED  BY <1>2, <2>2 DEF Lacks
<1>6. w = y
  BY <1>3, <1>5
<1>7. x.electionDue \in Int
  BY Times0 DEF Typed, Times
<1>8. CASE x.electionDue <= 0
  BY <1>1, <1>2, <1>6, <1>8 DEF Due
<1>9. CASE x.electionDue > 0
  <2>1. y = x
    BY <1>1, <1>7, <1>9 DEF Due
  <2>2. ASSUME x.role = "CANDIDATE", x.votes # {} PROVE FALSE
    <3>1. IsFiniteSet(Server)
      BY FS_Interval, Times0 DEF Server
    <3>2. IsFiniteSet(x.votes)
      BY <3>1, FS_Subset DEF Typed, Peers
    <3>3. Cardinality(x.votes) \in Nat /\ Cardinality(x.votes) # 0
      BY <2>2, <3>2, FS_CardinalityType, FS_EmptySet
    <3>4. Cardinality(x.votes) + 1 >= MinVotes(Servers)
      BY <3>3, TimelyNumbers
    <3> QED  BY <1>5, <2>1, <2>2, <3>4
  <2> QED  BY <1>2, <1>6, <1>9, <2>1, <2>2
<1> QED  BY <1>7, <1>8, <1>9

\* d is the row c with the requests of w in it, if w is a candidate.
Asks(s, w, c, d) ==
    /\ d \in [Server -> Seq(Messages)] /\ d[s] = << >>
    /\ \A q \in Server :
          /\ Carried(c[q]) \subseteq Carried(d[q])
          /\ \A n \in Carried(d[q]) :
                \/ n \in Carried(c[q])
                \/ w.role = "CANDIDATE" /\ IsRequest(n, w.term) /\ n.age = 0
    /\ w.role = "CANDIDATE" /\ w.rpcDue = ForPeers(s, 0) =>
          \A q \in Peers(s) : \E n \in Carried(d[q]) : IsRequest(n, w.term) /\ n.age = 0

Row(s, c) == c \in [Server -> Seq(Messages)] /\ c[s] = << >>

\* What ProcessTimeout sends when nobody leads: the requests of a candidate.
LEMMA RequestRow ==
    ASSUME NEW s \in Server, NEW w, Typed(s, w), w.role # "LEADER", w.term <= MaxTerm,
           NEW c, Row(s, c), NEW d, d = Requests(s, w, c)
    PROVE  Asks(s, w, c, d)
<1>0. c \in [Server -> Seq(Messages)] /\ c[s] = << >>
  BY DEF Row
<1>2. d = [q \in Server |-> IF q \notin Overdue(s, w) THEN c[q]
                            ELSE Append(c[q], CreateVote(w))]
  BY DEF Requests
<1>3. /\ Overdue(s, w) \subseteq Peers(s)
      /\ Overdue(s, w) # {} => w.role = "CANDIDATE"
      /\ w.role = "CANDIDATE" => Overdue(s, w) = {p \in Peers(s) : Due(w.rpcDue[p])}
  BY DEF Overdue
<1>4. PICK r \in NewMessages : r = CreateVote(w) /\ IsRequest(r, w.term) /\ r.age = 0
  <2>1. PICK ok \in BOOLEAN : ok = w.hasLog
    BY DEF Typed
  <2>2. PICK r \in NewMessages : /\ r = Mail("RequestVoteRequest", w, ok)
                                 /\ r.type = "RequestVoteRequest" /\ r.term = w.term
    BY MailType
  <2> QED  BY <2>1, <2>2 DEF CreateVote, NewMessages, IsRequest
<1>5. r \in Messages
  BY DEF NewMessages
<1>6. ASSUME NEW q \in Server
      PROVE  /\ d[q] \in Seq(Messages)
             /\ Carried(c[q]) \subseteq Carried(d[q])
             /\ \A n \in Carried(d[q]) :
                   \/ n \in Carried(c[q])
                   \/ w.role = "CANDIDATE" /\ IsRequest(n, w.term) /\ n.age = 0
             /\ q \in Overdue(s, w) => r \in Carried(d[q])
  <2>1. CASE q \notin Overdue(s, w)
    BY <1>0, <1>2, <2>1
  <2>2. CASE q \in Overdue(s, w)
    <3>1. d[q] = Append(c[q], r)
      BY <1>2, <1>4, <2>2
    <3>2. Carried(d[q]) = Carried(c[q]) \cup {r} /\ d[q] \in Seq(Messages)
      BY <1>0, <1>5, <3>1, CarriedAppend
    <3> QED  BY <1>3, <1>4, <2>2, <3>2
  <2> QED  BY <2>1, <2>2
<1>7. d \in [Server -> Seq(Messages)]
  BY <1>2, <1>6
<1>8. d[s] = << >>
  BY <1>0, <1>2, <1>3 DEF Peers
<1>9. ASSUME w.role = "CANDIDATE", w.rpcDue = ForPeers(s, 0), NEW q \in Peers(s)
      PROVE  \E n \in Carried(d[q]) : IsRequest(n, w.term) /\ n.age = 0
  <2>1. q \in Overdue(s, w) /\ q \in Server
    BY <1>3, <1>9 DEF ForPeers, Due, Peers
  <2> QED  BY <1>4, <1>6, <2>1
<1> QED  BY <1>6, <1>7, <1>8, <1>9 DEF Asks

\* The other rows lose the message that is handled, if one is.
LEMMA HeardCarried ==
    ASSUME ChannelsInv, NEW s \in Server, NEW p, NEW m, OtherRows(s, p, m)
    PROVE  /\ Fewer(s)
           /\ \A q \in Server \ {s}, r \in Server : \A n \in Carried(channel[q][r]) :
                 n \in Carried(channel'[q][r]) \/ (q = p /\ r = s /\ n = m)
<1>1. ASSUME NEW q \in Server \ {s}, NEW r \in Server
      PROVE  /\ Carried(channel'[q][r]) \subseteq Carried(channel[q][r])
             /\ \A n \in Carried(channel[q][r]) :
                   n \in Carried(channel'[q][r]) \/ (q = p /\ r = s /\ n = m)
  <2>1. CASE channel'[q][r] = channel[q][r]
    BY <2>1
  <2>2. CASE /\ q = p /\ r = s /\ channel[q][r] # << >> /\ m = Head(channel[q][r])
             /\ channel'[q][r] = Tail(channel[q][r])
    <3>1. channel[q][r] \in Seq(Messages)
      BY DEF ChannelsInv
    <3>2. Carried(channel[q][r]) = {m} \cup Carried(channel'[q][r])
      BY <2>2, <3>1, CarriedTail
    <3> QED  BY <2>2, <3>2
  <2> QED  BY <2>1, <2>2 DEF OtherRows
<1> QED  BY <1>1 DEF Fewer

\* Nobody but server 1 is about to stand.
LEMMA OthersWait ==
    ASSUME Timely, ClockInv, Race, NEW s \in Others, server[s].up
    PROVE  server[s].electionDue > 0 /\ server[1].up
<1>1. s \in Server /\ 1 \in Server /\ 1 \in 1..s - 1
  BY TimelyNumbers
<1>2. server[1].up /\ IF Newest = 2 THEN Tied ELSE Ahead
  BY <1>1 DEF Race, Started
<1>3. /\ server[s].electionDue \in Int /\ server[1].electionDue \in Int
      /\ server[1].electionDue >= -Poll
  BY <1>1, RaceNumbers
<1>4. CASE Newest = 2
  <2>1. server[s].electionDue >= server[1].electionDue + Gap
    BY <1>2, <1>4 DEF Tied
  <2> QED  BY <1>2, <1>3, <2>1, Times0, TimelyNumbers
<1>5. CASE Newest # 2
  <2>1. Asked(s) \/ Granted(s)
    BY <1>2, <1>5 DEF Ahead
  <2>2. CASE Asked(s)
    <3>1. PICK m \in Carried(channel[1][s]) : server[s].electionDue + m.age > Delay
      BY <2>2 DEF Asked
    <3>2. m.age \in Nat /\ m.age <= Delay
      BY <1>1, Ages
    <3> QED  BY <1>2, <1>3, <3>1, <3>2, Times0
  <2>3. CASE Granted(s)
    <3>1. PICK m \in Carried(channel[s][1]) : server[s].electionDue + m.age >= Election
      BY <2>3 DEF Granted
    <3>2. m.age \in Nat /\ m.age <= Delay
      BY <1>1, Ages
    <3> QED  BY <1>2, <1>3, <3>1, <3>2, Times0, TimelyNumbers
  <2> QED  BY <2>1, <2>2, <2>3
<1> QED  BY <1>4, <1>5

\* ProcessTimeout ends a turn of s: x is what the handler made of it, c its row
\* with the reply, m the message of p.
Ends(s, x, c, p, m, draw) ==
    /\ Elected(s, x, draw).term <= MaxTerm
    /\ Hears(p, s, m, Requests(s, Elected(s, x, draw), c))
    /\ server' = [server EXCEPT ![s] = Rearmed(s, Elected(s, x, draw))]

\* It stands and asks everybody for a vote, or waits on.
StandsNow(s, x, z, draw) ==
    /\ x.electionDue <= 0
    /\ z.role = "CANDIDATE" /\ z.term = x.term + 1 /\ z.votedFor = s /\ z.votes = {}
    /\ z.electionDue = draw
    /\ \A q \in Peers(s) : \E n \in Carried(channel'[s][q]) :
          IsRequest(n, z.term) /\ n.age = 0
WaitsOn(x, z) ==
    /\ x.electionDue > 0
    /\ z.role = x.role /\ z.term = x.term /\ z.votedFor = x.votedFor /\ z.votes = x.votes
    /\ z.electionDue = x.electionDue
    /\ x.role = "CANDIDATE" => x.votes = {}

\* What the turn does to the rows.
RowsEnd(s, z, c, p, m) ==
    /\ Fewer(s)
    /\ \A q \in Server \ {s}, r \in Server : \A n \in Carried(channel[q][r]) :
          n \in Carried(channel'[q][r]) \/ (q = p /\ r = s /\ n = m)
    /\ \A r \in Server :
          /\ Carried(c[r]) \subseteq Carried(channel'[s][r])
          /\ \A n \in Carried(channel'[s][r]) :
                \/ n \in Carried(c[r])
                \/ z.role = "CANDIDATE" /\ IsRequest(n, z.term) /\ n.age = 0

\* What a turn of a server that does not win comes to.
LEMMA TurnEnds ==
    ASSUME Timely, ClockInv, NEW s \in Server, NEW x, Typed(s, x), Sound(s, x), x.up,
           x.role # "LEADER", NEW draw \in Draws,
           NEW c, Row(s, c), NEW p, NEW m, Ends(s, x, c, p, m, draw), Lacks(server'[s])
    PROVE  /\ \A q \in Server \ {s} : server'[q] = server[q]
           /\ server'[s].up /\ server'[s].role # "LEADER"
           /\ StandsNow(s, x, server'[s], draw) \/ WaitsOn(x, server'[s])
           /\ RowsEnd(s, server'[s], c, p, m)
<1>1. PICK w : w = Elected(s, x, draw)
  OBVIOUS
<1>2. PICK z : z = Rearmed(s, w)
  OBVIOUS
<1>3. PICK d : d = Requests(s, w, c)
  OBVIOUS
<1>4. /\ w.term <= MaxTerm /\ Hears(p, s, m, d) /\ server' = [server EXCEPT ![s] = z]
  BY <1>1, <1>2, <1>3 DEF Ends
<1>5. /\ server'[s] = z
      /\ \A q \in Server \ {s} : server'[q] = server[q]
  BY <1>4 DEF ClockInv, ServersInv
<1>6. Typed(s, w) /\ Sound(s, w) /\ w.up
  BY <1>1, ElectedFields
<1>7. /\ z.up = w.up /\ z.role = w.role /\ z.term = w.term /\ z.votes = w.votes
      /\ z.votedFor = w.votedFor /\ z.electionDue = w.electionDue /\ z.hasLog = w.hasLog
  BY <1>2, <1>6, RearmedFields
<1>8. \/ x.electionDue <= 0 /\ w = Stand(s, x, draw)
      \/ /\ x.electionDue > 0 /\ w = x
         /\ x.role = "CANDIDATE" => x.votes = {}
  <2>1. Lacks(w)
    BY <1>5, <1>7 DEF Lacks
  <2> QED  BY <1>1, <2>1, Campaign
<1>9. /\ w.role # "LEADER"
      /\ w = Stand(s, x, draw) =>
            /\ w.role = "CANDIDATE" /\ w.term = x.term + 1 /\ w.votes = {} /\ w.votedFor = s
            /\ w.electionDue = draw /\ w.rpcDue = ForPeers(s, 0)
  BY <1>8, StandFields
<1>10. Asks(s, w, c, d)
  BY <1>3, <1>4, <1>6, <1>9, RequestRow
<1>11. channel'[s] = d /\ OtherRows(s, p, m)
  BY <1>4, <1>10, HearsRows DEF ClockInv, Asks
<1>12. RowsEnd(s, z, c, p, m)
  <2>1. /\ Fewer(s)
        /\ \A q \in Server \ {s}, r \in Server : \A n \in Carried(channel[q][r]) :
              n \in Carried(channel'[q][r]) \/ (q = p /\ r = s /\ n = m)
    BY <1>11, HeardCarried DEF ClockInv
  <2>2. \A r \in Server :
           /\ Carried(c[r]) \subseteq Carried(channel'[s][r])
           /\ \A n \in Carried(channel'[s][r]) :
                 \/ n \in Carried(c[r])
                 \/ z.role = "CANDIDATE" /\ IsRequest(n, z.term) /\ n.age = 0
    BY <1>7, <1>10, <1>11 DEF Asks
  <2> QED  BY <2>1, <2>2 DEF RowsEnd
<1>13. StandsNow(s, x, z, draw) \/ WaitsOn(x, z)
  <2>1. CASE x.electionDue <= 0 /\ w = Stand(s, x, draw)
    BY <1>7, <1>9, <1>10, <1>11, <2>1 DEF StandsNow, Asks
  <2>2. CASE x.electionDue > 0 /\ w = x
    BY <1>7, <1>8, <2>2, Times0 DEF WaitsOn, Typed, Times
  <2> QED  BY <1>8, <2>1, <2>2
<1> QED  BY <1>5, <1>6, <1>7, <1>9, <1>12, <1>13

Refusal(r, t) == r.type = "RequestVoteResponse" /\ ~r.ok /\ r.term = t

\* The turn of server 1 is one of the race, if the handler left its deadline and
\* missed no vote.
LEMMA FirstActs ==
    ASSUME Timely, ClockInv, Race, NEW x, NEW c, NEW p, NEW m, NEW draw \in Draws,
           Typed(1, x), Sound(1, x), x.up, x.role # "LEADER",
           x.term = server[1].term, x.electionDue = server[1].electionDue,
           server[1].up => x.role = "CANDIDATE",
           ~server[1].up => draw = first,
           p \in Others /\ IsGrant(m, x.term) => x.votes # {},
           Row(1, c),
           \A q \in Server : /\ Carried(channel[1][q]) \subseteq Carried(c[q])
                             /\ \A n \in Carried(c[q]) : \/ n \in Carried(channel[1][q])
                                                         \/ Refusal(n, x.term),
           Ends(1, x, c, p, m, draw), Lacks(server'[1])
    PROVE  FirstTurn(server[1], server'[1])
<1> DEFINE u == server[1]
           z == server'[1]
<1>1. 1 \in Server /\ Peers(1) = Others
  BY TimelyNumbers DEF Peers, Others
<1>2. /\ \A q \in Server \ {1} : server'[q] = server[q]
      /\ z.up /\ z.role # "LEADER"
      /\ StandsNow(1, x, z, draw) \/ WaitsOn(x, z)
      /\ RowsEnd(1, z, c, p, m)
  BY <1>1, TurnEnds
<1>3. \A q \in Others : server'[q] = server[q]
  BY <1>2 DEF Others
<1>4. x.term \in Nat /\ z.term \in Nat /\ z.term >= x.term
  BY <1>1, <1>2 DEF Typed, StandsNow, WaitsOn
<1>5. Fewer(1) /\ Adds(1)
  BY <1>2 DEF RowsEnd, Adds
<1>6. Speaks(1)
  <2> SUFFICES ASSUME NEW r \in Server, NEW n \in Carried(channel'[1][r]),
                      n \notin Carried(channel[1][r])
               PROVE  MaySay(1, r, n)'
    BY DEF Speaks
  <2>1. CASE n \in Carried(c[r])
    <3>1. Refusal(n, x.term)
      BY <2>1
    <3> QED  BY <1>4, <3>1 DEF Refusal, MaySay, IsGrant, Newest
  <2>2. CASE IsRequest(n, z.term)
    BY <1>4, <2>2 DEF MaySay, IsGrant, IsRequest, Newest
  <2> QED  BY <1>2, <2>1, <2>2 DEF RowsEnd
<1>7. CASE StandsNow(1, x, z, draw)
  <2>1. StoodAgain(u, z) /\ z.role = "CANDIDATE" /\ z.votes = {}
    BY <1>1, <1>7 DEF StandsNow, StoodAgain
  <2> QED  BY <1>2, <1>3, <1>5, <1>6, <2>1 DEF FirstTurn
<1>8. CASE WaitsOn(x, z)
  <2>1. u.up
    <3>1. ~u.up => u.electionDue <= 0
      BY <1>1 DEF Race, Started
    <3>2. u.electionDue \in Int
      BY <1>1, RaceNumbers
    <3> QED  BY <1>8, <3>1, <3>2 DEF WaitsOn
  <2>2. z.role = "CANDIDATE" /\ z.votes = {} /\ x.votes = {}
    BY <1>8, <2>1 DEF WaitsOn
  <2>3. \A q \in Others : \A n \in Carried(channel[q][1]) :
           n \in Carried(channel'[q][1]) \/ (q = p /\ n = m)
    <3> SUFFICES ASSUME NEW q \in Others, NEW n \in Carried(channel[q][1])
                 PROVE  n \in Carried(channel'[q][1]) \/ (q = p /\ n = m)
      OBVIOUS
    <3>1. q \in Server \ {1}
      BY DEF Others
    <3> QED  BY <1>1, <1>2, <3>1 DEF RowsEnd
  <2>4. Waited(u, z)
    BY <1>8, <2>1, <2>2, <2>3 DEF Waited, WaitsOn
  <2> QED  BY <1>2, <1>3, <1>5, <1>6, <2>2, <2>4 DEF FirstTurn
<1> QED  BY <1>2, <1>7, <1>8

\* The turn of another server is, if it gave its vote to nobody but server 1.
LEMMA OtherActs ==
    ASSUME Timely, ClockInv, Race, NEW s \in Others, server[s].up, NEW x, NEW c, NEW p, NEW m,
           NEW draw \in Draws, Typed(s, x), Sound(s, x), x.up, x.role # "LEADER",
           x.votes = {}, Stood(s, x, Newest),
           \/ x.electionDue = server[s].electionDue
           \/ Newest > 2 /\ x.electionDue \in Draws,
           p = 1 /\ IsRequest(m, Newest) /\ Newest > 2 =>
              /\ x.electionDue \in Draws
              /\ \E g \in Carried(c[1]) : IsGrant(g, Newest) /\ g.age = 0,
           Row(s, c),
           \A q \in Server : /\ Carried(channel[s][q]) \subseteq Carried(c[q])
                             /\ \A n \in Carried(c[q]) : \/ n \in Carried(channel[s][q])
                                                         \/ MaySay(s, q, n),
           Ends(s, x, c, p, m, draw), Lacks(server'[s])
    PROVE  OtherTurn(s, server[s], server'[s])
<1> DEFINE u == server[s]
           z == server'[s]
<1>1. /\ s \in Server /\ 1 \in Server /\ s # 1 /\ 1 \in Server \ {s}
      /\ \A q \in Others \ {s} : q \in Server \ {s}
  BY TimelyNumbers
<1>2. /\ \A q \in Server \ {s} : server'[q] = server[q]
      /\ z.up /\ z.role # "LEADER"
      /\ StandsNow(s, x, z, draw) \/ WaitsOn(x, z)
      /\ RowsEnd(s, z, c, p, m)
  BY <1>1, TurnEnds
<1>3. x.electionDue > 0
  <2>1. u.electionDue > 0
    BY OthersWait
  <2>2. \A d \in Draws : d > 0
    BY Times0, TimelyNumbers
  <2> QED  BY <2>1, <2>2
<1>4. WaitsOn(x, z)
  BY <1>2, <1>3, Times0 DEF StandsNow, Typed, Times
<1>5. z.votes = {} /\ Stood(s, z, Newest) /\ Newest' = Newest
  BY <1>1, <1>2, <1>4 DEF WaitsOn, Stood, Newest
<1>6. Fewer(s) /\ Adds(s)
  BY <1>1, <1>2 DEF RowsEnd, Adds
<1>7. Speaks(s)
  <2> SUFFICES ASSUME NEW r \in Server, NEW n \in Carried(channel'[s][r]),
                      n \notin Carried(channel[s][r])
               PROVE  MaySay(s, r, n)'
    BY DEF Speaks
  <2>1. CASE n \in Carried(c[r])
    BY <1>5, <2>1 DEF MaySay
  <2>2. CASE z.role = "CANDIDATE" /\ IsRequest(n, z.term)
    BY <1>5, <2>2 DEF MaySay, IsGrant, IsRequest, Stood
  <2> QED  BY <1>2, <2>1, <2>2 DEF RowsEnd
<1>8. \A q \in Others \ {s} :
         /\ Carried(channel[1][q]) \subseteq Carried(channel'[1][q])
         /\ Carried(channel[q][1]) \subseteq Carried(channel'[q][1])
  BY <1>1, <1>2 DEF RowsEnd
<1>9. Answered(s, u, z)
  <2>1. z.electionDue = u.electionDue \/ (Newest > 2 /\ z.electionDue \in Draws)
    BY <1>4 DEF WaitsOn
  <2>2. ASSUME NEW n \in Carried(channel[1][s]), IsRequest(n, Newest), Newest > 2,
               n \notin Carried(channel'[1][s])
        PROVE  /\ z.electionDue \in Draws
               /\ \E g \in Carried(channel'[s][1]) : IsGrant(g, Newest) /\ g.age = 0
    <3>1. p = 1 /\ n = m
      BY <1>1, <1>2, <2>2 DEF RowsEnd
    <3>2. PICK g \in Carried(c[1]) : IsGrant(g, Newest) /\ g.age = 0 /\ x.electionDue \in Draws
      BY <2>2, <3>1
    <3> QED  BY <1>1, <1>2, <1>4, <3>2 DEF RowsEnd, WaitsOn
  <2> QED  BY <2>1, <2>2 DEF Answered
<1>10. \A q \in 1..s - 1 : server[q].up
  BY <1>1 DEF Race, Started
<1> QED  BY <1>2, <1>5, <1>6, <1>7, <1>8, <1>9, <1>10 DEF OtherTurn

-----------------------------------------------------------------------------
(* The handlers in the race. *)

\* c is the row of s with a reply to p, or none.
OneOrNone(out) == out = << >> \/ \E r \in NewMessages : out = <<r>>
Replied(s, p, out, c) ==
    /\ Row(s, c)
    /\ \A q \in Server :
          /\ Carried(channel[s][q]) \subseteq Carried(c[q])
          /\ \A n \in Carried(c[q]) :
                n \in Carried(channel[s][q]) \/ (q = p /\ out = <<n>>)
    /\ \A r \in NewMessages : out = <<r>> => r \in Carried(c[p])

LEMMA ReplyRow ==
    ASSUME ChannelsInv, NEW s \in Server, NEW p \in Peers(s), NEW out, OneOrNone(out),
           NEW c, c = [channel[s] EXCEPT ![p] = @ \o out]
    PROVE  Replied(s, p, out, c)
<1>1. p \in Server /\ p # s
  BY DEF Peers
<1>2. channel[s] \in [Server -> Seq(Messages)] /\ channel[s][s] = << >>
  BY DEF ChannelsInv
<1>3. /\ \A q \in Server : q # p => c[q] = channel[s][q]
      /\ c[p] = channel[s][p] \o out
      /\ c = [q \in Server |-> c[q]]
  BY <1>1, <1>2
<1>4. CASE out = << >>
  <2>1. c[p] = channel[s][p]
    BY <1>1, <1>2, <1>3, <1>4
  <2>2. \A q \in Server : c[q] = channel[s][q]
    BY <1>3, <2>1
  <2>3. Row(s, c)
    BY <1>2, <1>3, <2>2 DEF Row
  <2> QED  BY <1>4, <2>2, <2>3 DEF Replied
<1>5. ASSUME NEW r \in NewMessages, out = <<r>> PROVE Replied(s, p, out, c)
  <2>1. r \in Messages /\ channel[s][p] \in Seq(Messages)
    BY <1>1, <1>2 DEF NewMessages
  <2>2. c[p] = Append(channel[s][p], r)
    BY <1>3, <1>5, <2>1
  <2>3. Carried(c[p]) = Carried(channel[s][p]) \cup {r} /\ c[p] \in Seq(Messages)
    <3>1. PICK row \in Seq(Messages) : row = channel[s][p]
      BY <2>1
    <3>2. Carried(Append(row, r)) = Carried(row) \cup {r} /\ Append(row, r) \in Seq(Messages)
      BY <2>1, CarriedAppend
    <3> QED  BY <2>2, <3>1, <3>2
  <2>4. Row(s, c)
    <3>1. \A q \in Server : c[q] \in Seq(Messages)
      BY <1>2, <1>3, <2>3
    <3> QED  BY <1>1, <1>2, <1>3, <3>1 DEF Row
  <2>5. \A n \in NewMessages : out = <<n>> => n = r
    BY <1>5
  <2> QED  BY <1>3, <1>5, <2>3, <2>4, <2>5 DEF Replied
<1> QED  BY <1>4, <1>5 DEF OneOrNone

\* Server 1 counts a vote, and gives none.
HeardByFirst(v, m, o) ==
    /\ Typed(1, o[1]) /\ Sound(1, o[1])
    /\ o[1].up = v.up /\ o[1].role = "CANDIDATE"
    /\ o[1].term = v.term /\ o[1].electionDue = v.electionDue
    /\ IsGrant(m, v.term) => o[1].votes # {}
    /\ o[2] = << >> \/ \E r \in NewMessages : o[2] = <<r>> /\ Refusal(r, v.term)

LEMMA FirstHandles ==
    ASSUME Timely, ClockInv, Race, server[1].up, NEW p \in Others,
           NEW m \in Carried(channel[p][1]), NEW draw \in Draws,
           NEW o \in Handle(p, TermCheck(server[1], m.term, draw), m, draw)
    PROVE  HeardByFirst(server[1], m, o)
<1> DEFINE v == server[1]
<1>1. 1 \in Server /\ p \in Server /\ p # 1 /\ p \in Peers(1) /\ Nil # 1
  BY TimelyNumbers DEF Peers, Others, Nil
<1>2. m \in Messages /\ m.term \in Nat /\ v.term \in Nat
  BY <1>1, CarriedMessage, RaceNumbers DEF ClockInv
<1>3. Typed(1, v) /\ Sound(1, v) /\ v.term <= MaxTerm /\ v.role = "CANDIDATE" /\ v.votedFor = 1
  BY <1>1 DEF ClockInv, ServersInv, Sound, Race, Started
<1>4. MaySay(p, 1, m)
  BY <1>1 DEF Race, Said
<1>5. TermCheck(v, m.term, draw) = v
  BY <1>2, <1>4 DEF MaySay, Newest, TermCheck
<1>6. o \in Handle(p, v, m, draw)
  BY <1>5
<1>7. Handled(1, p, v, m, o)
  BY <1>1, <1>2, <1>3, <1>5, ReceiveHandled
<1>8. CASE m.type = "RequestVoteRequest"
  <2>1. PICK ok \in BOOLEAN : ok = FALSE
    OBVIOUS
  <2>2. o = <<v, <<Mail("RequestVoteResponse", v, ok)>> >>
    BY <1>1, <1>3, <1>6, <1>8, <2>1 DEF Handle, OnVoteRequest
  <2>3. PICK r \in NewMessages : /\ r = Mail("RequestVoteResponse", v, ok)
                                 /\ r.type = "RequestVoteResponse"
                                 /\ r.ok = ok /\ r.term = v.term
    BY <1>1, <1>3, MailType
  <2>4. o[1] = v /\ o[2] = <<r>> /\ Refusal(r, v.term)
    BY <2>1, <2>2, <2>3 DEF Refusal
  <2>5. ~IsGrant(m, v.term)
    BY <1>8 DEF IsGrant
  <2> QED  BY <1>3, <2>4, <2>5 DEF HeardByFirst
<1>9. CASE m.type = "RequestVoteResponse" /\ ~IsGrant(m, v.term)
  <2>1. o \in OnVoteResponse(p, v, m)
    BY <1>3, <1>6, <1>9 DEF Handle
  <2>2. o = <<v, << >> >>
    BY <1>9, <2>1 DEF OnVoteResponse, IsGrant
  <2> QED  BY <1>3, <1>9, <2>2 DEF HeardByFirst
<1>10. CASE m.type = "RequestVoteResponse" /\ IsGrant(m, v.term)
  <2>1. o \in OnVoteResponse(p, v, m)
    BY <1>3, <1>6, <1>10 DEF Handle
  <2>2. PICK x : x = [v EXCEPT !.votes = @ \cup {p}, !.rpcDue[p] = Infinite]
    OBVIOUS
  <2>3. o[1] = x /\ o[2] = << >>
    BY <1>10, <2>1, <2>2 DEF OnVoteResponse, IsGrant
  <2>4. /\ x.up = v.up /\ x.role = v.role /\ x.term = v.term
        /\ x.electionDue = v.electionDue /\ x.votes = v.votes \cup {p}
    BY <1>3, <2>2 DEF Typed, Fields
  <2> QED  BY <1>3, <1>7, <2>3, <2>4 DEF HeardByFirst, Handled
<1> QED  BY <1>4, <1>8, <1>9, <1>10 DEF MaySay

\* Another server gives its vote to server 1 if to anybody, and at once if it is
\* asked in the newest term.
HeardByOther(s, p, v, m, o) ==
    /\ Typed(s, o[1]) /\ Sound(s, o[1])
    /\ o[1].up = v.up /\ o[1].role # "LEADER" /\ o[1].votes = {}
    /\ Stood(s, o[1], Newest)
    /\ o[1].electionDue = v.electionDue \/ (Newest > 2 /\ o[1].electionDue \in Draws)
    /\ o[2] = << >> \/ \E r \in NewMessages : o[2] = <<r>> /\ MaySay(s, p, r)
    /\ p = 1 /\ IsRequest(m, Newest) /\ Newest > 2 =>
          /\ o[1].electionDue \in Draws
          /\ \E g \in NewMessages : o[2] = <<g>> /\ IsGrant(g, Newest)

\* The term check leaves another server that stood, or voted, for no newer term.
Checked(s, v, term, newest, x) ==
    /\ x.up = v.up /\ x.role # "LEADER" /\ x.votes = {} /\ Stood(s, x, newest)
    /\ x.electionDue = v.electionDue /\ Lacks(x) /\ x.term >= term

LEMMA OtherChecks ==
    ASSUME NEW s \in Server, NEW v, Typed(s, v), Sound(s, v), v.role # "LEADER", v.votes = {},
           v.electionDue > 0, NEW newest \in Nat, Stood(s, v, newest), Lacks(v),
           2 * Election < Infinite,
           NEW term \in 1..MaxTerm, term <= newest, NEW draw, NEW x, x = TermCheck(v, term, draw)
    PROVE  Checked(s, v, term, newest, x)
<1>1. CASE term <= v.term
  BY <1>1 DEF TermCheck, Checked
<1>2. CASE ~(term <= v.term)
  <2>1. v.electionDue \in Int /\ v.electionDue <= 2 * Election /\ v.term \in Nat /\ term \in Nat
    BY Times0 DEF Typed, Sound, Times
  <2>2. ~(Due(v.electionDue) \/ v.electionDue = Infinite)
    BY <2>1, Times0 DEF Due
  <2>3. x = [v EXCEPT !.term = term, !.votedFor = Nil, !.role = "FOLLOWER",
                      !.electionDue = v.electionDue]
    BY <1>2, <2>2 DEF TermCheck
  <2>4. /\ x.up = v.up /\ x.role = "FOLLOWER" /\ x.votes = v.votes /\ x.term = term
        /\ x.votedFor = Nil /\ x.electionDue = v.electionDue /\ x.hasLog = v.hasLog
    BY <2>3 DEF Typed, Fields
  <2>5. Stood(s, x, newest)
    BY <1>2, <2>1, <2>4 DEF Stood
  <2>6. Lacks(x)
    BY <2>4 DEF Lacks
  <2> QED  BY <2>1, <2>4, <2>5, <2>6 DEF Checked
<1> QED  BY <1>1, <1>2

LEMMA OtherHandles ==
    ASSUME Timely, ClockInv, Race, NEW s \in Others, server[s].up, Lacks(server[s]),
           NEW p \in Peers(s), NEW m \in Carried(channel[p][s]), NEW draw \in Draws,
           NEW o \in Handle(p, TermCheck(server[s], m.term, draw), m, draw)
    PROVE  HeardByOther(s, p, server[s], m, o)
<1> DEFINE v == server[s]
<1>1. /\ 1 \in Server /\ s \in Server /\ s # 1 /\ p \in Server /\ p # s /\ Nil \notin Server
      /\ server[1].up
  BY TimelyNumbers, OthersWait, Times0 DEF Peers, Nil
<1>2. m \in Messages /\ m.term \in Nat /\ Newest \in Nat /\ m.term \in 1..MaxTerm
  BY <1>1, CarriedMessage, RaceNumbers DEF ClockInv, Newest, Messages
<1>3. /\ Typed(s, v) /\ Sound(s, v) /\ v.term <= MaxTerm /\ v.role # "LEADER" /\ v.votes = {}
      /\ Stood(s, v, Newest) /\ v.electionDue > 0
  BY <1>1, OthersWait DEF ClockInv, ServersInv, Race, Started
<1>4. MaySay(p, s, m)
  BY <1>1 DEF Race, Said
<1>5. PICK x : x = TermCheck(v, m.term, draw)
  OBVIOUS
<1>6. /\ x.up = v.up /\ x.role # "LEADER" /\ x.votes = {} /\ Stood(s, x, Newest)
      /\ x.electionDue = v.electionDue /\ Lacks(x) /\ x.term >= m.term
  <2>1. m.term <= Newest /\ 2 * Election < Infinite
    BY <1>4, TimelyNumbers DEF MaySay
  <2>2. PICK newest \in Nat : newest = Newest
    BY <1>2
  <2>3. PICK term \in 1..MaxTerm : term = m.term
    BY <1>2
  <2>4. term <= newest /\ Stood(s, v, newest)
    BY <1>3, <2>1, <2>2, <2>3
  <2>5. x = TermCheck(v, term, draw)
    BY <1>5, <2>3
  <2>6. Checked(s, v, term, newest, x)
    BY <1>1, <1>3, <2>1, <2>4, <2>5, OtherChecks
  <2> QED  BY <2>2, <2>3, <2>6 DEF Checked
<1>7. Typed(s, x) /\ Sound(s, x) /\ x.term <= MaxTerm /\ x.term \in Nat
  BY <1>1, <1>2, <1>3, <1>5, TermCheckFields DEF Typed
<1>8. o \in Handle(p, x, m, draw) /\ Handled(s, p, v, m, o)
  BY <1>1, <1>2, <1>3, <1>5, ReceiveHandled
<1>9. CASE m.type = "RequestVoteRequest"
  <2>1. PICK granted \in BOOLEAN : granted = (m.term = x.term /\ x.votedFor \in {Nil, p})
    OBVIOUS
  <2>2. UpToDate(x, m) = {TRUE}
    BY <1>6 DEF UpToDate, Lacks
  <2>3. o = <<IF granted THEN [x EXCEPT !.electionDue = draw, !.votedFor = p] ELSE x,
              <<Mail("RequestVoteResponse", x, granted)>> >>
    BY <1>8, <1>9, <2>1, <2>2 DEF Handle, OnVoteRequest
  <2>4. PICK r \in NewMessages : /\ r = Mail("RequestVoteResponse", x, granted)
                                 /\ r.type = "RequestVoteResponse"
                                 /\ r.ok = granted /\ r.term = x.term
    BY <1>1, <1>7, MailType
  <2>5. CASE granted
    <3>1. PICK y : y = [x EXCEPT !.electionDue = draw, !.votedFor = p]
      OBVIOUS
    <3>2. o[1] = y /\ o[2] = <<r>>
      BY <2>3, <2>4, <2>5, <3>1
    <3>3. /\ y.up = x.up /\ y.role = x.role /\ y.votes = x.votes /\ y.term = x.term
          /\ y.votedFor = p /\ y.electionDue = draw
      BY <1>7, <3>1 DEF Typed, Fields
    <3>4. x.term = m.term /\ x.term # 2
      BY <1>1, <1>6, <2>1, <2>5 DEF Stood
    <3>5. p = 1 /\ x.term > 2 /\ Newest > 2
      BY <1>2, <1>4, <1>6, <1>7, <1>9, <3>4 DEF MaySay, Stood
    <3>6. Stood(s, y, Newest)
      BY <1>6, <3>3, <3>4, <3>5 DEF Stood
    <3>7. MaySay(s, p, r)
      BY <1>4, <2>4, <3>4, <3>5 DEF MaySay
    <3>8. IsRequest(m, Newest) => IsGrant(r, Newest)
      BY <2>4, <2>5, <3>4 DEF IsRequest, IsGrant
    <3> QED  BY <1>6, <1>8, <3>2, <3>3, <3>5, <3>6, <3>7, <3>8 DEF HeardByOther, Handled
  <2>6. CASE ~granted
    <3>1. o[1] = x /\ o[2] = <<r>>
      BY <2>3, <2>4, <2>6
    <3>2. MaySay(s, p, r)
      BY <1>6, <2>4, <2>6 DEF MaySay, IsGrant, Stood
    <3>3. ~(p = 1 /\ IsRequest(m, Newest) /\ Newest > 2)
      <4>1. x.term <= Newest
        BY <1>6 DEF Stood
      <4>2. IsRequest(m, Newest) => x.term = Newest /\ m.term = x.term
        BY <1>2, <1>6, <1>7, <4>1 DEF IsRequest
      <4> QED  BY <1>6, <2>1, <2>6, <4>2 DEF Stood
    <3> QED  BY <1>6, <1>7, <3>1, <3>2, <3>3 DEF HeardByOther
  <2> QED  BY <2>5, <2>6
<1>10. CASE m.type = "RequestVoteResponse"
  <2>1. ~IsGrant(m, m.term)
    BY <1>1, <1>4 DEF MaySay
  <2>2. o = <<x, << >> >>
    BY <1>8, <1>10, <2>1 DEF Handle, OnVoteResponse, IsGrant
  <2>3. ~IsRequest(m, Newest)
    BY <1>10 DEF IsRequest
  <2> QED  BY <1>6, <1>7, <2>2, <2>3 DEF HeardByOther
<1> QED  BY <1>4, <1>9, <1>10 DEF MaySay

-----------------------------------------------------------------------------
(* The steps of the race. *)

\* The actions as ends of turns.
LEMMA SilentEnds ==
    ASSUME ChannelsInv, NEW s \in Server, NEW x, NEW draw,
           ProcessTimeout(s, x, channel[s], draw)
    PROVE  Ends(s, x, channel[s], s, Silence, draw) /\ Row(s, channel[s])
<1>1. Row(s, channel[s])
  BY DEF ChannelsInv, Row
<1>2. Ends(s, x, channel[s], s, Silence, draw)
  BY DEF ProcessTimeout, Ends, Hears
<1> QED  BY <1>1, <1>2

LEMMA ReceiveEnds ==
    ASSUME ChannelsInv, NEW s \in Server, NEW p \in Peers(s), NEW draw, Receive(p, s, draw)
    PROVE  \E m \in Carried(channel[p][s]) :
           \E o \in Handle(p, TermCheck(server[s], m.term, draw), m, draw) :
              Ends(s, o[1], [channel[s] EXCEPT ![p] = @ \o o[2]], p, m, draw)
<1>1. PICK m : m = Head(channel[p][s])
  OBVIOUS
<1>2. p \in Server /\ channel[p][s] \in Seq(Messages) /\ channel[p][s] # << >>
  BY DEF ChannelsInv, Receive, Peers
<1>3. m \in Carried(channel[p][s])
  BY <1>1, <1>2, CarriedTail
<1>4. PICK o \in Handle(p, TermCheck(server[s], m.term, draw), m, draw) :
         LET w == Elected(s, o[1], draw)
             out == [channel[s] EXCEPT ![p] = @ \o o[2]]
         IN  /\ w.term <= MaxTerm
             /\ server'  = [server EXCEPT ![s] = Rearmed(s, w)]
             /\ channel' = [channel EXCEPT ![s] = Requests(s, w, out), ![p][s] = Tail(@)]
  BY <1>1 DEF Receive
<1>5. Ends(s, o[1], [channel[s] EXCEPT ![p] = @ \o o[2]], p, m, draw)
  BY <1>1, <1>2, <1>4 DEF Ends, Hears
<1> QED  BY <1>3, <1>4, <1>5

\* Server 1 starts, or Idle finds it due for something.
LEMMA FirstSilent ==
    ASSUME Timely, ClockInv, Race, NEW v, Begins(1, v), v.up, NEW draw \in Draws,
           ~server[1].up => draw = first,
           ProcessTimeout(1, v, channel[1], draw), Lacks(server'[1])
    PROVE  FirstTurn(server[1], server'[1])
<1>1. 1 \in Server /\ 1 \notin Others
  BY TimelyNumbers
<1>2. /\ Typed(1, v) /\ Sound(1, v) /\ v.role = server[1].role
      /\ v.term = server[1].term /\ v.electionDue = server[1].electionDue
  BY <1>1, BeginsFields DEF ClockInv
<1>3. v.role # "LEADER" /\ (server[1].up => v.role = "CANDIDATE")
  BY <1>1, <1>2 DEF Race, Started
<1>4. Ends(1, v, channel[1], 1, Silence, draw) /\ Row(1, channel[1])
  BY <1>1, SilentEnds DEF ClockInv
<1> QED  BY <1>1, <1>2, <1>3, <1>4, FirstActs

\* Server 1 takes a message.
LEMMA FirstReceives ==
    ASSUME Timely, ClockInv, Race, server[1].up, NEW p \in Peers(1), NEW draw \in Draws,
           Receive(p, 1, draw), Lacks(server'[1])
    PROVE  FirstTurn(server[1], server'[1])
<1>1. 1 \in Server /\ p \in Others
  BY TimelyNumbers DEF Peers, Others
<1>2. PICK m \in Carried(channel[p][1]) :
      \E o \in Handle(p, TermCheck(server[1], m.term, draw), m, draw) :
         Ends(1, o[1], [channel[1] EXCEPT ![p] = @ \o o[2]], p, m, draw)
  BY <1>1, ReceiveEnds DEF ClockInv
<1>3. PICK o \in Handle(p, TermCheck(server[1], m.term, draw), m, draw) :
         Ends(1, o[1], [channel[1] EXCEPT ![p] = @ \o o[2]], p, m, draw)
  BY <1>2
<1>4. HeardByFirst(server[1], m, o)
  BY <1>1, <1>2, <1>3, FirstHandles
<1>5. PICK x : x = o[1]
  OBVIOUS
<1>6. PICK c : c = [channel[1] EXCEPT ![p] = @ \o o[2]]
  OBVIOUS
<1>7. /\ Typed(1, x) /\ Sound(1, x) /\ x.up /\ x.role = "CANDIDATE"
      /\ x.term = server[1].term /\ x.electionDue = server[1].electionDue
      /\ IsGrant(m, x.term) => x.votes # {}
      /\ o[2] = << >> \/ \E r \in NewMessages : o[2] = <<r>> /\ Refusal(r, x.term)
  BY <1>4, <1>5 DEF HeardByFirst
<1>8. Replied(1, p, o[2], c)
  <2>1. OneOrNone(o[2])
    BY <1>7 DEF OneOrNone
  <2> QED  BY <1>1, <1>6, <2>1, ReplyRow DEF ClockInv
<1>9. ASSUME NEW q \in Server
      PROVE  /\ Carried(channel[1][q]) \subseteq Carried(c[q])
             /\ \A n \in Carried(c[q]) : n \in Carried(channel[1][q]) \/ Refusal(n, x.term)
  <2> SUFFICES ASSUME NEW n \in Carried(c[q]), o[2] = <<n>> PROVE Refusal(n, x.term)
    BY <1>8 DEF Replied
  <2>1. PICK r \in NewMessages : o[2] = <<r>> /\ Refusal(r, x.term)
    BY <1>7
  <2>2. r = n
    BY <2>1
  <2> QED  BY <2>1, <2>2
<1>10. Ends(1, x, c, p, m, draw)
  BY <1>3, <1>5, <1>6
<1>11. Row(1, c)
  BY <1>8 DEF Replied
<1> QED  BY <1>1, <1>7, <1>9, <1>10, <1>11, FirstActs

\* Idle finds another server due for its requests.
LEMMA OtherIdles ==
    ASSUME Timely, ClockInv, Race, NEW s \in Others, server[s].up, NEW draw \in Draws,
           Idle(s, draw), Lacks(server'[s])
    PROVE  OtherTurn(s, server[s], server'[s])
<1> DEFINE x == server[s]
<1>1. s \in Server /\ s # 1
  BY TimelyNumbers
<1>2. /\ Typed(s, x) /\ Sound(s, x) /\ x.role # "LEADER" /\ x.votes = {}
      /\ Stood(s, x, Newest)
  BY <1>1 DEF ClockInv, ServersInv, Race, Started
<1>3. ProcessTimeout(s, x, channel[s], draw)
  BY DEF Idle
<1>4. Ends(s, x, channel[s], s, Silence, draw) /\ Row(s, channel[s])
  BY <1>1, <1>3, SilentEnds DEF ClockInv
<1> QED  BY <1>1, <1>2, <1>4, OtherActs

\* Another server takes a message.
LEMMA OtherReceives ==
    ASSUME Timely, ClockInv, Race, NEW s \in Others, server[s].up, Lacks(server[s]),
           NEW p \in Peers(s), NEW draw \in Draws, Receive(p, s, draw), Lacks(server'[s])
    PROVE  OtherTurn(s, server[s], server'[s])
<1>1. s \in Server
  BY TimelyNumbers
<1>2. PICK m \in Carried(channel[p][s]) :
      \E o \in Handle(p, TermCheck(server[s], m.term, draw), m, draw) :
         Ends(s, o[1], [channel[s] EXCEPT ![p] = @ \o o[2]], p, m, draw)
  BY <1>1, ReceiveEnds DEF ClockInv
<1>3. PICK o \in Handle(p, TermCheck(server[s], m.term, draw), m, draw) :
         Ends(s, o[1], [channel[s] EXCEPT ![p] = @ \o o[2]], p, m, draw)
  BY <1>2
<1>4. HeardByOther(s, p, server[s], m, o)
  BY <1>2, <1>3, OtherHandles
<1>5. PICK x : x = o[1]
  OBVIOUS
<1>6. PICK c : c = [channel[s] EXCEPT ![p] = @ \o o[2]]
  OBVIOUS
<1>7. /\ Typed(s, x) /\ Sound(s, x) /\ x.up /\ x.role # "LEADER" /\ x.votes = {}
      /\ Stood(s, x, Newest)
      /\ x.electionDue = server[s].electionDue \/ (Newest > 2 /\ x.electionDue \in Draws)
      /\ o[2] = << >> \/ \E r \in NewMessages : o[2] = <<r>> /\ MaySay(s, p, r)
      /\ p = 1 /\ IsRequest(m, Newest) /\ Newest > 2 =>
            /\ x.electionDue \in Draws
            /\ \E g \in NewMessages : o[2] = <<g>> /\ IsGrant(g, Newest)
  BY <1>4, <1>5 DEF HeardByOther
<1>8. Replied(s, p, o[2], c)
  <2>1. OneOrNone(o[2])
    BY <1>7 DEF OneOrNone
  <2> QED  BY <1>1, <1>6, <2>1, ReplyRow DEF ClockInv
<1>9. ASSUME NEW q \in Server
      PROVE  /\ Carried(channel[s][q]) \subseteq Carried(c[q])
             /\ \A n \in Carried(c[q]) : n \in Carried(channel[s][q]) \/ MaySay(s, q, n)
  <2> SUFFICES ASSUME NEW n \in Carried(c[q]), q = p, o[2] = <<n>> PROVE MaySay(s, q, n)
    BY <1>8 DEF Replied
  <2>1. PICK r \in NewMessages : o[2] = <<r>> /\ MaySay(s, p, r)
    BY <1>7
  <2>2. r = n
    BY <2>1
  <2> QED  BY <2>1, <2>2
<1>10. p = 1 /\ IsRequest(m, Newest) /\ Newest > 2 =>
          /\ x.electionDue \in Draws
          /\ \E g \in Carried(c[1]) : IsGrant(g, Newest) /\ g.age = 0
  <2> SUFFICES ASSUME p = 1, IsRequest(m, Newest), Newest > 2
               PROVE  /\ x.electionDue \in Draws
                      /\ \E g \in Carried(c[1]) : IsGrant(g, Newest) /\ g.age = 0
    OBVIOUS
  <2>1. PICK g \in NewMessages : o[2] = <<g>> /\ IsGrant(g, Newest)
    BY <1>7
  <2>2. g \in Carried(c[1]) /\ g.age = 0
    BY <1>8, <2>1 DEF Replied, NewMessages
  <2> QED  BY <1>7, <2>1, <2>2
<1>11. Ends(s, x, c, p, m, draw)
  BY <1>3, <1>5, <1>6
<1>12. Row(s, c)
  BY <1>8 DEF Replied
<1> QED  BY <1>7, <1>9, <1>10, <1>11, <1>12, OtherActs

\* Another server starts when all before it run, Gap after the last of them, and
\* stands for term 2.
LEMMA OtherStarts ==
    ASSUME Timely, ClockInv, Race, stopped = {}, NEW s \in Others, Start(s), Lacks(server'[s])
    PROVE  OtherTurn(s, server[s], server'[s])
<1> DEFINE u == server[s]
           z == server'[s]
<1>1. /\ s \in Server /\ 1 \in Server /\ s # 1 /\ 1 \in 1..s - 1
      /\ \A q \in Others \ {s} : q \in Server \ {s}
  BY TimelyNumbers
<1>2. /\ ~u.up /\ sinceStart >= Gap /\ turn = s
      /\ \A p \in 1..s - 1 : server[p].up
      /\ ProcessTimeout(s, [u EXCEPT !.up = TRUE], channel[s], first)
  BY DEF Start
<1>3. PICK v : v = [u EXCEPT !.up = TRUE]
  OBVIOUS
<1>4. v.up /\ Begins(s, v)
  <2>1. DOMAIN u = Fields
    BY <1>1 DEF ClockInv, ServersInv, Typed
  <2>2. v.up
    BY <1>3, <2>1 DEF Fields
  <2> QED  BY <1>2, <1>3, <2>2 DEF Begins
<1>5. /\ Typed(s, v) /\ Sound(s, v) /\ v.role = u.role /\ v.term = u.term
      /\ v.electionDue = u.electionDue
  BY <1>1, <1>4, BeginsFields DEF ClockInv
<1>6. /\ u.role # "LEADER" /\ u.term = 1 /\ u.electionDue <= 0
      /\ server[1].up /\ Newest >= 2
  BY <1>1, <1>2 DEF Race, Started
<1>7. first \in Draws
  BY RaceNumbers
<1>8. Ends(s, v, channel[s], s, Silence, first) /\ Row(s, channel[s])
  BY <1>1, <1>2, <1>3, SilentEnds DEF ClockInv
<1>9. /\ \A q \in Server \ {s} : server'[q] = server[q]
      /\ z.up /\ z.role # "LEADER"
      /\ StandsNow(s, v, z, first) \/ WaitsOn(v, z)
      /\ RowsEnd(s, z, channel[s], s, Silence)
  BY <1>1, <1>4, <1>5, <1>6, <1>7, <1>8, TurnEnds
<1>10. /\ z.role = "CANDIDATE" /\ z.term = 2 /\ z.votedFor = s /\ z.votes = {}
       /\ z.electionDue = first
  <2>1. u.electionDue \in Int
    BY <1>1, RaceNumbers
  <2> QED  BY <1>5, <1>6, <1>9, <2>1 DEF StandsNow, WaitsOn
<1>11. Newest \in Nat /\ Newest' = Newest
  BY <1>1, <1>9, RaceNumbers DEF Newest
<1>12. Stood(s, z, Newest)
  BY <1>6, <1>10, <1>11 DEF Stood
<1>13. Fewer(s) /\ Adds(s)
  BY <1>1, <1>9 DEF RowsEnd, Adds
<1>14. Speaks(s)
  <2> SUFFICES ASSUME NEW r \in Server, NEW n \in Carried(channel'[s][r]),
                      n \notin Carried(channel[s][r])
               PROVE  MaySay(s, r, n)'
    BY DEF Speaks
  <2>1. IsRequest(n, z.term)
    BY <1>9 DEF RowsEnd
  <2> QED  BY <1>6, <1>10, <1>11, <2>1 DEF MaySay, IsGrant, IsRequest
<1>15. \A q \in Others : Carried(channel[1][q]) \subseteq Carried(channel'[1][q])
  <2> SUFFICES ASSUME NEW q \in Others, NEW n \in Carried(channel[1][q])
               PROVE  n \in Carried(channel'[1][q])
    OBVIOUS
  <2>1. q \in Server /\ 1 \in Server \ {s}
    BY <1>1, TimelyNumbers
  <2> QED  BY <1>1, <1>9, <2>1 DEF RowsEnd
<1>16. \A q \in Others \ {s} : Carried(channel[q][1]) \subseteq Carried(channel'[q][1])
  <2> SUFFICES ASSUME NEW q \in Others \ {s}, NEW n \in Carried(channel[q][1])
               PROVE  n \in Carried(channel'[q][1])
    OBVIOUS
  <2> QED  BY <1>1, <1>9 DEF RowsEnd
<1>17. JustStarted(s, u, z)
  BY <1>2, <1>10, <1>15 DEF JustStarted
<1> QED  BY <1>2, <1>9, <1>10, <1>12, <1>13, <1>14, <1>15, <1>16, <1>17 DEF OtherTurn

LEMMA TurnOfFirst ==
    ASSUME Timely, ClockInv, Race, Undecided, Lacks(server'[1]),
           \/ Start(1)
           \/ \E draw \in Draws : Idle(1, draw) \/ \E p \in Peers(1) : Receive(p, 1, draw)
    PROVE  FirstTurn(server[1], server'[1]) /\ Frame(1)
<1>1. 1 \in Server /\ first \in Draws
  BY TimelyNumbers, RaceNumbers
<1>2. CASE Start(1)
  <2>1. PICK v : v = [server[1] EXCEPT !.up = TRUE]
    OBVIOUS
  <2>2. /\ ~server[1].up /\ turn = 1 /\ ProcessTimeout(1, v, channel[1], first)
        /\ Frame(1)
    BY <1>2, <2>1 DEF Start, Frame
  <2>3. v.up
    <3>1. DOMAIN server[1] = Fields
      BY <1>1 DEF ClockInv, ServersInv, Typed
    <3> QED  BY <2>1, <3>1 DEF Fields
  <2>4. Begins(1, v)
    BY <2>1, <2>2, <2>3 DEF Begins
  <2> QED  BY <1>1, <2>2, <2>3, <2>4, FirstSilent
<1>3. ASSUME NEW draw \in Draws, Idle(1, draw)
      PROVE  FirstTurn(server[1], server'[1]) /\ Frame(1)
  <2>1. /\ Begins(1, server[1]) /\ server[1].up
        /\ ProcessTimeout(1, server[1], channel[1], draw) /\ Frame(1)
    BY <1>3 DEF Idle, Begins, Frame
  <2> QED  BY <2>1, FirstSilent
<1>4. ASSUME NEW draw \in Draws, NEW p \in Peers(1), Receive(p, 1, draw)
      PROVE  FirstTurn(server[1], server'[1]) /\ Frame(1)
  <2>1. server[1].up /\ Frame(1)
    BY <1>4 DEF Receive, Frame
  <2> QED  BY <1>4, <2>1, FirstReceives
<1> QED  BY <1>2, <1>3, <1>4

LEMMA TurnOfOther ==
    ASSUME Timely, ClockInv, Race, Undecided, NEW s \in Others,
           Lacks(server[s]), Lacks(server'[s]),
           \/ Start(s)
           \/ \E draw \in Draws : Idle(s, draw) \/ \E p \in Peers(s) : Receive(p, s, draw)
    PROVE  OtherTurn(s, server[s], server'[s]) /\ Frame(s)
<1>1. CASE Start(s)
  <2>1. Frame(s)
    BY <1>1 DEF Start, Frame
  <2> QED  BY <1>1, <2>1, OtherStarts DEF Undecided
<1>2. ASSUME NEW draw \in Draws, Idle(s, draw)
      PROVE  OtherTurn(s, server[s], server'[s]) /\ Frame(s)
  <2>1. server[s].up /\ Frame(s)
    BY <1>2 DEF Idle, Frame
  <2> QED  BY <1>2, <2>1, OtherIdles
<1>3. ASSUME NEW draw \in Draws, NEW p \in Peers(s), Receive(p, s, draw)
      PROVE  OtherTurn(s, server[s], server'[s]) /\ Frame(s)
  <2>1. server[s].up /\ Frame(s)
    BY <1>3 DEF Receive, Frame
  <2> QED  BY <1>3, <2>1, OtherReceives
<1> QED  BY <1>1, <1>2, <1>3

\* Who has a log keeps it: what is undecided after a turn was so before.
LEMMA TurnUndecided ==
    ASSUME ClockInv, NEW s \in Server, TakesTurn(s), stopped' = stopped, Undecided'
    PROVE  Undecided /\ Lacks(server[s]) /\ Lacks(server'[s])
<1>1. PICK v, p, m, o, z, d : Turn(s, v, p, m, o, z, d)
  BY DEF TakesTurn
<1>2. server'[s] = z /\ \A q \in Server : q # s => server'[q] = server[q]
  BY <1>1, TurnServers DEF ClockInv
<1>3. server[s].hasLog => z.hasLog
  BY <1>1, TurnAscends DEF ClockInv
<1>4. \A q \in Server : Lacks(server'[q])
  BY DEF Undecided, HadLeader, Lacks
<1>5. \A q \in Server : Lacks(server[q])
  BY <1>2, <1>3, <1>4 DEF Lacks
<1> QED  BY <1>4, <1>5 DEF Undecided, HadLeader, Lacks

\* Every turn but a leader's keeps the race.
LEMMA TurnRace ==
    ASSUME Timely, ClockInv, ClockInv', RaceInv, NEW s \in Server, TakesTurn(s),
           leaderless' = leaderless, stopped' = stopped,
           \/ Start(s)
           \/ \E draw \in Draws : Idle(s, draw) \/ \E p \in Peers(s) : Receive(p, s, draw)
    PROVE  RaceInv'
<1>1. ASSUME Undecided' PROVE Race'
  <2>1. Undecided /\ Lacks(server[s]) /\ Lacks(server'[s])
    BY <1>1, TurnUndecided
  <2>2. Race /\ leaderless <= InTime
    BY <2>1 DEF RaceInv
  <2>3. CASE s = 1
    <3>1. FirstTurn(server[1], server'[1]) /\ Frame(1)
      BY <2>1, <2>2, <2>3, TurnOfFirst
    <3> QED  BY <2>2, <3>1, FirstRace
  <2>4. CASE s \in Others
    <3>1. OtherTurn(s, server[s], server'[s]) /\ Frame(s)
      BY <2>1, <2>2, <2>4, TurnOfOther
    <3> QED  BY <2>2, <2>4, <3>1, OtherRace
  <2> QED  BY <2>3, <2>4 DEF Others
<1> QED  BY <1>1 DEF RaceInv

LEMMA InitRace ==
    ASSUME Timely, Init
    PROVE  RaceInv
<1>1. ClockInv
  BY InitClock
<1>2. \A s \in Server : server[s] = Fresh(s) /\ \A p \in Server : channel[s][p] = << >>
  BY DEF Init
<1>3. \A s \in Server : /\ ~server[s].up /\ server[s].votes = {} /\ server[s].role = "FOLLOWER"
                        /\ server[s].term = 1 /\ server[s].electionDue = 0
  <2> SUFFICES ASSUME NEW s \in Server
               PROVE  /\ ~server[s].up /\ server[s].votes = {}
                      /\ server[s].role = "FOLLOWER"
                      /\ server[s].term = 1 /\ server[s].electionDue = 0
    OBVIOUS
  <2>1. Fresh(s).votes = {} /\ Fresh(s).electionDue = 0
    BY DEF Fresh
  <2> QED  BY <1>2, <2>1, FreshFields
<1>4. leaderless = 0
  BY DEF Init
<1>5. Started
  BY <1>2, <1>3, <1>4, TimelyNumbers DEF Started
<1>6. Said
  BY <1>2, CarriedNothing DEF Said
<1> QED  BY <1>3, <1>4, <1>5, <1>6, TimelyNumbers, Times0 DEF RaceInv, Race

\* Every step does.
LEMMA NextRace ==
    ASSUME Timely, ClockInv, RaceInv, [Next]_vars
    PROVE  RaceInv'
<1>1. ClockInv'
  BY NextClock
<1>2. ASSUME NEW s \in Server, Start(s) PROVE RaceInv'
  <2>1. TakesTurn(s) /\ leaderless' = leaderless /\ stopped' = stopped
    BY <1>2, StartTurn DEF ClockInv, Start
  <2> QED  BY <1>1, <1>2, <2>1, TurnRace
<1>3. ASSUME NEW s \in Server, NEW draw \in Draws, Idle(s, draw) PROVE RaceInv'
  <2>1. TakesTurn(s) /\ leaderless' = leaderless /\ stopped' = stopped
    BY <1>3, IdleTurn DEF ClockInv, Idle
  <2> QED  BY <1>1, <1>3, <2>1, TurnRace
<1>4. ASSUME NEW s \in Server, NEW draw \in Draws, NEW p \in Peers(s), Receive(p, s, draw)
      PROVE  RaceInv'
  <2>1. TakesTurn(s) /\ leaderless' = leaderless /\ stopped' = stopped
    BY <1>4, ReceiveTurn DEF ClockInv, Receive
  <2> QED  BY <1>1, <1>4, <2>1, TurnRace
<1>5. ASSUME NEW s \in Server, Write(s) PROVE RaceInv'
  <2>1. /\ TakesTurn(s) /\ leaderless' = leaderless /\ stopped' = stopped
        /\ server[s].role = "LEADER"
    BY <1>5, WriteTurn DEF ClockInv, Write
  <2>2. ~Undecided'
    <3> SUFFICES ASSUME Undecided' PROVE FALSE
      OBVIOUS
    <3>1. Undecided
      BY <2>1, TurnUndecided
    <3> QED  BY <2>1, <3>1 DEF RaceInv, Race, Started
  <2> QED  BY <2>1, <2>2 DEF RaceInv
<1>6. ASSUME NEW s \in Server, Stop(s) PROVE RaceInv'
  <2>1. leaderless' = leaderless /\ s \in stopped'
    BY <1>6 DEF Stop
  <2> QED  BY <2>1 DEF RaceInv, Undecided
<1>7. ASSUME NEW s \in Server, NEW p \in Server, Lose(s, p) PROVE RaceInv'
  <2>1. leaderless' = leaderless /\ p \in stopped'
    BY <1>7 DEF Lose
  <2> QED  BY <2>1 DEF RaceInv, Undecided
<1>8. ASSUME server' = server, channel' = channel, first' = first, sinceStart' = sinceStart,
             leaderless' = leaderless, stopped' = stopped
      PROVE  RaceInv'
  <2>1. Undecided' = Undecided /\ Started' = Started
    BY <1>8 DEF Undecided, HadLeader, Started, Newest
  <2>2. Said' = Said
    BY <1>8 DEF Said, MaySay, Newest
  <2>3. Tied' = Tied
    BY <1>8 DEF Tied
  <2>4. Ahead' = Ahead
    BY <1>8 DEF Ahead, Asked, Granted, Near, Early, Late, Newest
  <2> QED  BY <1>8, <2>1, <2>2, <2>3, <2>4 DEF RaceInv, Race, Newest
<1>9. CASE Tick
  <2>1. stopped' = stopped /\ \A s \in Server : server'[s].hasLog = server[s].hasLog
    BY <1>9, TickServers DEF ClockInv, ServersInv, Ticks, Tick
  <2>2. CASE Undecided
    BY <1>1, <1>9, <2>2, TickRace DEF RaceInv
  <2>3. CASE ~Undecided
    <3>1. ~Undecided'
      BY <2>1, <2>3 DEF Undecided, HadLeader
    <3>2. leaderless' = 0
      BY <1>9, <2>3 DEF Tick, Undecided
    <3> QED  BY <3>1, <3>2, Times0 DEF RaceInv
  <2> QED  BY <2>2, <2>3
<1> QED  BY <1>2, <1>3, <1>4, <1>5, <1>6, <1>7, <1>8, <1>9 DEF Next, Pass, vars

\* Of two or three servers, of which none starts within Poll + Delay of another,
\* one leads InTime after a majority runs, whatever they draw and however slow
\* their messages are.
THEOREM FirstLeaderInTime ==
    ASSUME Timely
    PROVE  Spec => []LeaderInTime
<1>1. Init => ClockInv /\ RaceInv
  BY InitClock, InitRace
<1>2. ClockInv /\ RaceInv /\ [Next]_vars => ClockInv' /\ RaceInv'
  BY NextClock, NextRace
<1>3. RaceInv => LeaderInTime
  BY DEF RaceInv, LeaderInTime
<1> QED  BY <1>1, <1>2, <1>3, PTL DEF Spec
=============================================================================
