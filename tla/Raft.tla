-------------------------------- MODULE Raft --------------------------------
(***************************************************************************)
(* TRaft (miniraft/raft.cpp): one consensus node per server, the messages  *)
(* between them, and crashes.  Every API call of TRaft (Process,           *)
(* ProcessTimeout, Append) is atomic: the server runs it on one thread     *)
(* with no suspension inside.  Deadlines are abstracted: an election, a    *)
(* heartbeat or an RPC may be due at any moment.                           *)
(*                                                                         *)
(* msgs holds every message ever sent.  A message in it may be received    *)
(* at any later moment or never, which covers loss (a broken connection    *)
(* drops what TNode was writing) and reordering (across reconnections); it *)
(* also admits duplicates, which the handlers must tolerate anyway since   *)
(* the same vote or entry is sent again by a later timeout.                *)
(*                                                                         *)
(* Seqno and CommitSeqno serve only consistent reads and are not part of   *)
(* this module.  A definition marked "broken variant" is what a mistake    *)
(* would make of the next one; only the mutation runs use it.              *)
(***************************************************************************)
EXTENDS Naturals, FiniteSets, Sequences, RaftQuorums

CONSTANTS
    Server,        \* node identifiers
    Value,         \* commands a client may have appended
    Nil,           \* "nobody": VotedFor == 0, LeaderId == 0
    Stub,          \* the value of the EStub entry a new leader appends
    BatchLimit,    \* batch size after a success (1024)
    BackOffLimit,  \* cap of the back-off after failures (32768)
    MaxElections,  \* bound: no more candidacies than this
    MaxAppends,    \* bound: no more AppendEntries requests by LeaderTimeout
    MaxLogLen      \* bound: no entry past this index

ASSUME ServerAssumption == IsFiniteSet(Server) /\ Server # {} /\ Nil \notin Server
ASSUME ValueAssumption  == Stub \notin Value
ASSUME LimitAssumption  == /\ BatchLimit \in Nat \ {0}
                           /\ BackOffLimit \in Nat \ {0}
                           /\ MaxElections \in Nat
                           /\ MaxAppends \in Nat
                           /\ MaxLogLen \in Nat

VARIABLES
    currentTerm, votedFor, log,                   \* IState: durable
    stateName, commitIndex, leaderId, votes,      \* lost in a crash
    nextIndex, matchIndex, batchSize, backOff,    \* lost in a crash, per peer
    msgs

durable == <<currentTerm, votedFor, log>>
cursors == <<nextIndex, matchIndex, batchSize, backOff>>
vars == <<durable, stateName, commitIndex, leaderId, votes, cursors, msgs>>

Peers(s) == Server \ {s}
Nservers == Cardinality(Server)

-----------------------------------------------------------------------------
(* Logs and messages. *)

Entry == [term : Nat, value : Value \cup {Stub}]

LogTerm(l, i) == IF i \in 1..Len(l) THEN l[i].term ELSE 0
LastLogTerm(l) == LogTerm(l, Len(l))

Prefix(l, n) == SubSeq(l, 1, MinOf(n, Len(l)))

RequestVoteRequest ==
    [type : {"RequestVoteRequest"}, src : Server, dst : Server, term : Nat,
     lastLogIndex : Nat, lastLogTerm : Nat]
RequestVoteResponse ==
    [type : {"RequestVoteResponse"}, src : Server, dst : Server, term : Nat,
     granted : BOOLEAN]
AppendEntriesRequest ==
    [type : {"AppendEntriesRequest"}, src : Server, dst : Server, term : Nat,
     prevLogIndex : Nat, prevLogTerm : Nat, leaderCommit : Nat,
     entries : Seq(Entry)]
AppendEntriesResponse ==
    [type : {"AppendEntriesResponse"}, src : Server, dst : Server, term : Nat,
     matchIndex : Nat, success : BOOLEAN]
Message == RequestVoteRequest \cup RequestVoteResponse
           \cup AppendEntriesRequest \cup AppendEntriesResponse

\* CandidateId and LeaderId of the requests always equal their Src.
CreateVote(s, d) ==
    [type |-> "RequestVoteRequest", src |-> s, dst |-> d, term |-> currentTerm[s],
     lastLogIndex |-> Len(log[s]), lastLogTerm |-> LastLogTerm(log[s])]

\* A request never names a commit index behind the entries it vouches for.
SentCommitUnclamped(s, last) == commitIndex[s]   \* broken variant
SentCommit(s, last) == MinOf(commitIndex[s], last)

\* Until a peer has matched right up to its next index, a request carries no
\* entries: it only probes for the place where the logs agree.
CreateAppendEntries(s, d) ==
    LET prev    == nextIndex[s][d] - 1
        batch   == MaxOf(1, batchSize[s][d])
        probing == matchIndex[s][d] + 1 < nextIndex[s][d]
        last    == IF probing THEN prev ELSE MinOf(prev + batch, Len(log[s]))
    IN  [type |-> "AppendEntriesRequest", src |-> s, dst |-> d,
         term |-> currentTerm[s],
         prevLogIndex |-> prev, prevLogTerm |-> LogTerm(log[s], prev),
         leaderCommit |-> SentCommit(s, last),
         entries |-> SubSeq(log[s], prev + 1, last)]

\* A request's previous entry is one the receiver's log l has.
MatchesAnyTerm(l, m) == m.prevLogIndex <= Len(l)   \* broken variant
Matches(l, m) ==
    \/ m.prevLogIndex = 0
    \/ /\ m.prevLogIndex <= Len(l)
       /\ LogTerm(l, m.prevLogIndex) = m.prevLogTerm

\* Positions of the entries of m whose term differs from what l has there.
Conflicts(l, m) ==
    {i \in 1..Len(m.entries) : LogTerm(l, m.prevLogIndex + i) # m.entries[i].term}

FirstConflict(l, m) ==
    CHOOSE i \in Conflicts(l, m) : \A j \in Conflicts(l, m) : i <= j

\* The loop over the payload: at the first conflict the tail of the log goes,
\* and from there on every entry of the message is appended.
MergeKeepingTail(l, m) ==   \* broken variant
    l \o SubSeq(m.entries, Len(l) - m.prevLogIndex + 1, Len(m.entries))
MergeAlwaysCutting(l, m) == Prefix(l, m.prevLogIndex) \o m.entries   \* broken variant
Merge(l, m) ==
    IF Conflicts(l, m) = {} THEN l
    ELSE LET c == FirstConflict(l, m)
         IN  Prefix(l, m.prevLogIndex + c - 1)
                 \o SubSeq(m.entries, c, Len(m.entries))

\* The index a successful reply acknowledges: the last one the message speaks
\* of, whatever the receiver's log l holds after it.
LastMatchedWholeLog(l, m) == MaxOf(Len(l), m.prevLogIndex + Len(m.entries))   \* broken variant
LastMatched(l, m) == m.prevLogIndex + Len(m.entries)

\* The logs the loop passes through: each RemoveLast and each Append is
\* made durable on its own.
PartialMerges(l, m) ==
    IF Conflicts(l, m) = {} THEN {l}
    ELSE LET c    == FirstConflict(l, m)
             keep == m.prevLogIndex + c - 1
         IN  {Prefix(l, j) : j \in keep..Len(l)}
                 \cup {Prefix(l, keep) \o SubSeq(m.entries, c, j) :
                           j \in c..Len(m.entries)}

\* CommitAdvance: only an entry of the leader's own term is committed by
\* counting, and the commit index never goes back.
CommitAdvanceAnyTerm(s, l, match) ==   \* broken variant
    LET idx == [p \in Server |-> IF p = s THEN Len(l) ELSE match[p]]
    IN  MaxOf(commitIndex[s], SortedMiddle(Server, idx))
CommitAdvance(s, l, match) ==
    LET idx == [p \in Server |-> IF p = s THEN Len(l) ELSE match[p]]
        c   == MaxOf(commitIndex[s], SortedMiddle(Server, idx))
    IN  IF LogTerm(l, c) = currentTerm[s] THEN c ELSE commitIndex[s]

-----------------------------------------------------------------------------
(* The constructor, on the durable state it is given. *)

None == [p \in Server |-> 0]
AllFrom(i) == [p \in Server |-> i]

Started ==
    /\ stateName   = [s \in Server |-> "FOLLOWER"]
    /\ commitIndex = [s \in Server |-> 0]
    /\ leaderId    = [s \in Server |-> Nil]
    /\ votes       = [s \in Server |-> {}]
    /\ nextIndex   = [s \in Server |-> AllFrom(1)]
    /\ matchIndex  = [s \in Server |-> None]
    /\ batchSize   = [s \in Server |-> None]
    /\ backOff     = [s \in Server |-> None]
    /\ msgs        = {}

\* The first start of every server, on an empty state.
Init ==
    /\ currentTerm = [s \in Server |-> 1]
    /\ votedFor    = [s \in Server |-> Nil]
    /\ log         = [s \in Server |-> << >>]
    /\ Started

\* A TVolatileState made anew: cursors from index `next`, nobody's votes.
FreshVolatileKeepingLeader(s, next) ==   \* broken variant
    /\ leaderId'   = leaderId
    /\ votes'      = [votes      EXCEPT ![s] = {}]
    /\ nextIndex'  = [nextIndex  EXCEPT ![s] = AllFrom(next)]
    /\ matchIndex' = [matchIndex EXCEPT ![s] = None]
    /\ batchSize'  = [batchSize  EXCEPT ![s] = None]
    /\ backOff'    = [backOff    EXCEPT ![s] = None]
FreshVolatile(s, next) ==
    /\ leaderId'   = [leaderId   EXCEPT ![s] = Nil]
    /\ votes'      = [votes      EXCEPT ![s] = {}]
    /\ nextIndex'  = [nextIndex  EXCEPT ![s] = AllFrom(next)]
    /\ matchIndex' = [matchIndex EXCEPT ![s] = None]
    /\ batchSize'  = [batchSize  EXCEPT ![s] = None]
    /\ backOff'    = [backOff    EXCEPT ![s] = None]

-----------------------------------------------------------------------------
(* ProcessTimeout. *)

\* The candidacies there have been, for the bound only.
Candidacies ==
    {<<m.src, m.term>> : m \in {n \in msgs : n.type = "RequestVoteRequest"}}

\* A follower's or a candidate's election is due, and one vote is not enough:
\* it becomes a candidate of the next term and asks every peer for its vote.
\* Requests go out once per candidacy: an RPC deadline is never sooner than
\* the election deadline set with it.
StartElection(s) ==
    /\ stateName[s] \in {"FOLLOWER", "CANDIDATE"}
    /\ MinVotes(Nservers) > 1
    /\ Cardinality(Candidacies) < MaxElections
    /\ currentTerm' = [currentTerm EXCEPT ![s] = @ + 1]
    /\ votedFor'    = [votedFor    EXCEPT ![s] = s]
    /\ stateName'   = [stateName   EXCEPT ![s] = "CANDIDATE"]
    /\ FreshVolatile(s, 1)
    /\ UNCHANGED <<log, commitIndex>>
    /\ msgs' = msgs \cup {CreateVote(s, d)' : d \in Peers(s)}

\* A candidate with enough votes becomes the leader, appends an empty entry
\* of its term and sends the first round of AppendEntries, all in one call.
\* Every next index points at the empty entry.
WinElection(s) ==
    /\ stateName[s] = "CANDIDATE"
    /\ Cardinality(votes[s]) + 1 >= MinVotes(Nservers)
    /\ Len(log[s]) < MaxLogLen
    /\ stateName' = [stateName EXCEPT ![s] = "LEADER"]
    /\ FreshVolatile(s, Len(log[s]) + 1)
    /\ log' = [log EXCEPT ![s] = Append(@, [term |-> currentTerm[s], value |-> Stub])]
    /\ UNCHANGED <<currentTerm, votedFor, commitIndex>>
    /\ msgs' = msgs \cup {CreateAppendEntries(s, d)' : d \in Peers(s)}

\* A single server elects itself and commits in one call.
SoloElection(s) ==
    /\ stateName[s] \in {"FOLLOWER", "CANDIDATE"}
    /\ MinVotes(Nservers) = 1
    /\ currentTerm[s] <= MaxElections
    /\ Len(log[s]) < MaxLogLen
    /\ currentTerm' = [currentTerm EXCEPT ![s] = @ + 1]
    /\ votedFor'    = [votedFor    EXCEPT ![s] = s]
    /\ stateName'   = [stateName   EXCEPT ![s] = "LEADER"]
    /\ FreshVolatile(s, Len(log[s]) + 1)
    /\ log' = [log EXCEPT ![s] = Append(@, [term |-> currentTerm'[s], value |-> Stub])]
    /\ commitIndex' = [commitIndex EXCEPT ![s] = Len(log'[s])]
    /\ UNCHANGED msgs

\* LeaderTimeout: AppendEntries to the peers whose heartbeat is due, or whose
\* RPC is due with entries left to send.
LeaderTimeout(s, due) ==
    /\ stateName[s] = "LEADER"
    /\ due \subseteq Peers(s)
    /\ due # {}
    /\ Cardinality({m \in msgs : m.type = "AppendEntriesRequest"}) < MaxAppends
    /\ msgs' = msgs \cup {CreateAppendEntries(s, d) : d \in due}
    /\ UNCHANGED <<durable, stateName, commitIndex, leaderId, votes, cursors>>

\* LeaderTimeout of a single server: it commits what it appended.
SoloCommit(s) ==
    /\ stateName[s] = "LEADER"
    /\ Nservers = 1
    /\ commitIndex' = [commitIndex EXCEPT ![s] = CommitAdvance(s, log[s], matchIndex[s])]
    /\ UNCHANGED <<durable, stateName, leaderId, votes, cursors, msgs>>

-----------------------------------------------------------------------------
(* Append: a leader's own command. *)

AppendValue(s, v) ==
    /\ stateName[s] = "LEADER"
    /\ Len(log[s]) < MaxLogLen
    /\ log' = [log EXCEPT ![s] = Append(@, [term |-> currentTerm[s], value |-> v])]
    /\ UNCHANGED <<currentTerm, votedFor, stateName, commitIndex, leaderId, votes,
                   cursors, msgs>>

-----------------------------------------------------------------------------
(* Process: every message first passes the term check, which may make a    *)
(* follower of the receiver; its new role then decides what handles it.    *)

NewTerm(s, m) == MaxOf(currentTerm[s], m.term)
NewVoteInSameTerm(s, m) ==   \* broken variant
    IF m.term >= currentTerm[s] THEN Nil ELSE votedFor[s]
NewVote(s, m) == IF m.term > currentTerm[s] THEN Nil ELSE votedFor[s]
NewName(s, m) == IF m.term > currentTerm[s] THEN "FOLLOWER" ELSE stateName[s]

TermCheck(s, m) ==
    /\ currentTerm' = [currentTerm EXCEPT ![s] = NewTerm(s, m)]
    /\ stateName'   = [stateName   EXCEPT ![s] = NewName(s, m)]

Reply(m) == msgs' = msgs \cup {m}

\* The candidate's log is no older than the voter's.
UpToDate(l, m) ==
    \/ m.lastLogTerm > LastLogTerm(l)
    \/ /\ m.lastLogTerm = LastLogTerm(l)
       /\ m.lastLogIndex >= Len(l)

MayVoteAlways(s, m) == NewVote(s, m) \in {Nil, m.src}   \* broken variant
MayVote(s, m) ==
    /\ NewVote(s, m) \in {Nil, m.src}
    /\ UpToDate(log[s], m)

\* OnRequestVote of a request, in any role.
OnVoteRequest(s, m) ==
    LET grant == m.term >= currentTerm[s] /\ MayVote(s, m)
    IN  /\ m.type = "RequestVoteRequest" /\ m.dst = s
        /\ TermCheck(s, m)
        /\ votedFor' = [votedFor EXCEPT ![s] = IF grant THEN m.src ELSE NewVote(s, m)]
        /\ Reply([type |-> "RequestVoteResponse", src |-> s, dst |-> m.src,
                  term |-> NewTerm(s, m), granted |-> grant])
        /\ UNCHANGED <<log, commitIndex, leaderId, votes, cursors>>

\* A response from a newer term, of either kind: the receiver steps down, and
\* as a follower it has no use for responses.  (A response that no role
\* handles and that brings no newer term changes nothing: it is no action.)
StepDown(s, m) ==
    /\ m.type \in {"RequestVoteResponse", "AppendEntriesResponse"} /\ m.dst = s
    /\ m.term > currentTerm[s]
    /\ TermCheck(s, m)
    /\ votedFor' = [votedFor EXCEPT ![s] = NewVote(s, m)]
    /\ UNCHANGED <<log, commitIndex, leaderId, votes, cursors, msgs>>

\* OnRequestVote of a response: a candidate of that term counts a vote.
OnVoteResponse(s, m) ==
    /\ m.type = "RequestVoteResponse" /\ m.dst = s
    /\ stateName[s] = "CANDIDATE"
    /\ m.granted /\ m.term = currentTerm[s]
    /\ votes' = [votes EXCEPT ![s] = @ \cup {m.src}]
    /\ UNCHANGED <<durable, stateName, commitIndex, leaderId, cursors, msgs>>

\* OnAppendEntries of a request from an older term: refused.
RefuseAppend(s, m) ==
    /\ m.type = "AppendEntriesRequest" /\ m.dst = s
    /\ m.term < currentTerm[s]
    /\ Reply([type |-> "AppendEntriesResponse", src |-> s, dst |-> m.src,
              term |-> currentTerm[s], matchIndex |-> 0, success |-> FALSE])
    /\ UNCHANGED <<durable, stateName, commitIndex, leaderId, votes, cursors>>

\* OnAppendEntries of a request of the receiver's term, in any role: merge
\* the entries if the previous one matches, and follow the sender.
AcceptAppend(s, m) ==
    LET success == Matches(log[s], m)
    IN  /\ m.type = "AppendEntriesRequest" /\ m.dst = s
        /\ m.term >= currentTerm[s]
        /\ currentTerm' = [currentTerm EXCEPT ![s] = m.term]
        /\ votedFor'    = [votedFor    EXCEPT ![s] = NewVote(s, m)]
        /\ log' = IF success THEN [log EXCEPT ![s] = Merge(@, m)] ELSE log
        /\ commitIndex' = IF success
                          THEN [commitIndex EXCEPT ![s] = MaxOf(@, m.leaderCommit)]
                          ELSE commitIndex
        /\ leaderId'    = [leaderId  EXCEPT ![s] = m.src]
        /\ stateName'   = [stateName EXCEPT ![s] = "FOLLOWER"]
        /\ Reply([type |-> "AppendEntriesResponse", src |-> s, dst |-> m.src,
                  term |-> m.term,
                  matchIndex |-> IF success THEN LastMatched(log[s], m) ELSE 0,
                  success |-> success])
        /\ UNCHANGED <<votes, cursors>>

\* OnAppendEntries of a success: the peer's log agrees up to matchIndex.
OnAppendSuccess(s, m) ==
    LET p == m.src
        match == [matchIndex[s] EXCEPT ![p] = MaxOf(@, m.matchIndex)]
    IN  /\ m.type = "AppendEntriesResponse" /\ m.dst = s
        /\ stateName[s] = "LEADER" /\ m.term = currentTerm[s]
        /\ m.success
        /\ matchIndex'  = [matchIndex  EXCEPT ![s] = match]
        /\ nextIndex'   = [nextIndex   EXCEPT ![s][p] = m.matchIndex + 1]
        /\ batchSize'   = [batchSize   EXCEPT ![s][p] = BatchLimit]
        /\ backOff'     = [backOff     EXCEPT ![s][p] = 1]
        /\ commitIndex' = [commitIndex EXCEPT ![s] = CommitAdvance(s, log[s], match)]
        /\ UNCHANGED <<durable, stateName, leaderId, votes, msgs>>

StepBackToZero(next, back) == IF next > back THEN next - back ELSE 0   \* broken variant
StepBack(next, back) == MaxOf(1, IF next > back THEN next - back ELSE 0)

\* OnAppendEntries of a failure: step back, twice as far each time.
OnAppendFailure(s, m) ==
    LET p    == m.src
        back == MaxOf(backOff[s][p], 1)
    IN  /\ m.type = "AppendEntriesResponse" /\ m.dst = s
        /\ stateName[s] = "LEADER" /\ m.term = currentTerm[s]
        /\ ~m.success
        /\ nextIndex' = [nextIndex EXCEPT ![s][p] = StepBack(@, back)]
        /\ batchSize' = [batchSize EXCEPT ![s][p] = 1]
        /\ backOff'   = [backOff   EXCEPT ![s][p] = MinOf(BackOffLimit, 2 * back)]
        /\ UNCHANGED <<durable, stateName, commitIndex, leaderId, votes, matchIndex, msgs>>

-----------------------------------------------------------------------------
(* Crashes.  What IState made durable survives; the process starts again   *)
(* with the constructor's volatile state.                                  *)

Restarted(s) ==
    /\ stateName'   = [stateName   EXCEPT ![s] = "FOLLOWER"]
    /\ commitIndex' = [commitIndex EXCEPT ![s] = 0]
    /\ FreshVolatile(s, 1)
    /\ UNCHANGED msgs

RestartForgetsVote(s) ==   \* broken variant
    /\ Restarted(s)
    /\ votedFor' = [votedFor EXCEPT ![s] = Nil]
    /\ UNCHANGED <<currentTerm, log>>
RestartLosesEntry(s) ==   \* broken variant
    /\ Restarted(s)
    /\ log' = [log EXCEPT ![s] = Prefix(@, IF @ = << >> THEN 0 ELSE Len(@) - 1)]
    /\ UNCHANGED <<currentTerm, votedFor>>
Restart(s) ==
    /\ Restarted(s)
    /\ UNCHANGED durable

\* A crash after the term check made the new term durable, before the role's
\* own handler ran.
CrashInTermCheck(s, m) ==
    /\ m.dst = s
    /\ m.term > currentTerm[s]
    /\ currentTerm' = [currentTerm EXCEPT ![s] = m.term]
    /\ votedFor'    = [votedFor    EXCEPT ![s] = Nil]
    /\ Restarted(s)
    /\ UNCHANGED log

\* A crash inside OnAppendEntries, with the log part way through the merge.
CrashInAppend(s, m) ==
    /\ m.type = "AppendEntriesRequest" /\ m.dst = s
    /\ m.term >= currentTerm[s]
    /\ Matches(log[s], m)
    /\ currentTerm' = [currentTerm EXCEPT ![s] = m.term]
    /\ votedFor'    = [votedFor    EXCEPT ![s] = NewVote(s, m)]
    /\ \E l \in PartialMerges(log[s], m) : log' = [log EXCEPT ![s] = l]
    /\ Restarted(s)

-----------------------------------------------------------------------------
Timeout(s) ==
    \/ StartElection(s)
    \/ WinElection(s)
    \/ SoloElection(s)
    \/ SoloCommit(s)
    \/ \E due \in SUBSET Peers(s) : LeaderTimeout(s, due)

Process(s, m) ==
    \/ OnVoteRequest(s, m)
    \/ StepDown(s, m)
    \/ OnVoteResponse(s, m)
    \/ RefuseAppend(s, m)
    \/ AcceptAppend(s, m)
    \/ OnAppendSuccess(s, m)
    \/ OnAppendFailure(s, m)

Crash(s) ==
    \/ Restart(s)
    \/ \E m \in msgs : CrashInTermCheck(s, m) \/ CrashInAppend(s, m)

\* Crashes apart, so that instances without them can be larger.
Step ==
    \/ \E s \in Server : Timeout(s)
    \/ \E s \in Server, v \in Value : AppendValue(s, v)
    \/ \E m \in msgs : Process(m.dst, m)

Next == Step \/ \E s \in Server : Crash(s)

Spec == Init /\ [][Next]_vars

-----------------------------------------------------------------------------
(* Type invariant and safety. *)

\* Every variable has its type.  Terms start at 1, so that 0 can stand for "no
\* entry" in LogTerm.  A next index is never 0: the index before it,
\* which every request names, would wrap around (CreateAppendEntries).
TypeOK ==
    /\ currentTerm \in [Server -> Nat \ {0}]
    /\ votedFor    \in [Server -> Server \cup {Nil}]
    /\ log         \in [Server -> Seq(Entry)]
    /\ stateName   \in [Server -> {"FOLLOWER", "CANDIDATE", "LEADER"}]
    /\ commitIndex \in [Server -> Nat]
    /\ leaderId    \in [Server -> Server \cup {Nil}]
    /\ votes       \in [Server -> SUBSET Server]
    /\ nextIndex   \in [Server -> [Server -> Nat \ {0}]]
    /\ matchIndex  \in [Server -> [Server -> Nat]]
    /\ batchSize   \in [Server -> [Server -> Nat]]
    /\ backOff     \in [Server -> [Server -> Nat]]
    /\ msgs        \subseteq Message

\* No two servers lead in the same term, whatever votes are lost, late or
\* cast around a crash (MinVotes, OnRequestVote, the durable VotedFor).
ElectionSafety ==
    \A s, t \in Server :
        /\ stateName[s] = "LEADER"
        /\ stateName[t] = "LEADER"
        /\ currentTerm[s] = currentTerm[t]
        => s = t

\* Two logs with an entry of the same term at the same index agree up to it
\* (the previous-entry check and the replace-or-append loop of OnAppendEntries).
LogMatching ==
    \A s, t \in Server :
        \A i \in 1..MinOf(Len(log[s]), Len(log[t])) :
            log[s][i].term = log[t][i].term => Prefix(log[s], i) = Prefix(log[t], i)

\* What one server takes for committed, every server that does so as well has
\* in the same place, and no commit index points past its log (CommitAdvance,
\* the LeaderCommit a leader sends, what a follower makes of it).
StateMachineSafety ==
    \A s, t \in Server :
        LET c == MinOf(commitIndex[s], commitIndex[t])
        IN  /\ commitIndex[s] <= Len(log[s])
            /\ Prefix(log[s], c) = Prefix(log[t], c)

\* A leader holds everything that was committed by the terms up to its own:
\* its next CommitAdvance can not commit something else (UpToDate, the term
\* test of CommitAdvance).
LeaderCompleteness ==
    \A s, t \in Server :
        /\ stateName[t] = "LEADER"
        /\ currentTerm[t] >= currentTerm[s]
        => /\ commitIndex[s] <= Len(log[t])
           /\ Prefix(log[s], commitIndex[s]) = Prefix(log[t], commitIndex[s])

\* What a leader believes a peer has, the peer has, as long as it is still in
\* the leader's term: the index in a reply may not count what happens to lie
\* behind the entries the request brought (OnAppendEntries of both kinds).
MatchIndexSound ==
    \A s \in Server : \A p \in Peers(s) :
        /\ stateName[s] = "LEADER"
        /\ currentTerm[p] = currentTerm[s]
        => /\ matchIndex[s][p] <= MinOf(Len(log[s]), Len(log[p]))
           /\ Prefix(log[s], matchIndex[s][p]) = Prefix(log[p], matchIndex[s][p])

\* A leader's next index is at most one past its log and never runs ahead of
\* what it could still have to send: otherwise Nentries, the difference of two
\* unsigned indices in CreateAppendEntries, wraps around.
NextIndexInRange ==
    \A s \in Server : \A p \in Peers(s) :
        stateName[s] = "LEADER" => nextIndex[s][p] <= Len(log[s]) + 1

\* A log that has an entry of its server's term only grows for the rest of that
\* term: no late, repeated or shorter request of the term's leader removes what
\* a later one brought, and no crash between the two does (the loop over the
\* payload in OnAppendEntries cuts only at an entry of another term).
GrowsWithinTerm ==
    [][\A s \in Server :
          /\ LastLogTerm(log[s]) = currentTerm[s]
          /\ currentTerm'[s] = currentTerm[s]
          => /\ Len(log[s]) <= Len(log'[s])
             /\ Prefix(log'[s], Len(log[s])) = log[s]]_vars
=============================================================================
