-------------------------- MODULE RequestProcessor --------------------------
(***************************************************************************)
(* TRequestProcessor (miniraft/raft.cpp) with the loop of TRaftServer that *)
(* drives it (net/server.cpp), on one server of a cluster of several.      *)
(*                                                                         *)
(* What a connection does with one message runs without suspension: the    *)
(* command or the Raft message is handled, then CheckStateChange,          *)
(* ProcessCommitted and ProcessWaiting run.  The model composes these as   *)
(* operators from server state to server state; `server` holds             *)
(*   raft           what TRaft shows of itself, see Replica                *)
(*   waiting        Waiting: commands to answer once an index is applied   *)
(*   strongWaiting  StrongWaiting: reads that also wait for a CommitSeqno  *)
(*   parked         WaitingStateChange: commands nobody could take yet     *)
(*   answers        WriteAnswers: results of Rsm->Write, by index          *)
(*   cookieOwner    Cookie2Client, as a set of pairs                       *)
(*   clientCookies  Client2Cookie, as a set of pairs                       *)
(*   nextCookie     ForwardCookie                                          *)
(*   rsm, lastApplied, savedApplied    the writes the IRsm has executed,   *)
(*                  its LastAppliedIndex, and what it stored of it         *)
(*   seqno, commitSeqno                TRaft's counters for consistent reads *)
(*   failed         the assertion that stopped the process, or None        *)
(* the world around it                                                     *)
(*   asked          requests that reached the server                       *)
(*   gone           clients that disconnected                              *)
(*   forwarded      commands on their way to another server, or there      *)
(*   replies        what this server answered to each request              *)
(*   relayed        who was sent the answer of another server to a request *)
(* and history variables                                                   *)
(*   reached        the highest commit index the server ever had           *)
(*   knew           how many writes these were when a request arrived      *)
(***************************************************************************)
EXTENDS Naturals, FiniteSets, Sequences, SequencesExt, Replica

CONSTANTS
    Request,        \* records [id, client, kind, fromPeer], one for each command
    Peer,           \* the other servers
    Foreign,        \* the value of an entry some other leader appended
    None,           \* no assertion has failed
    CookieSpace,    \* ForwardCookie counts modulo this (2^32)
    DurableRsm,     \* the IRsm is on disk (TSql), not in memory (TDummyRsm)
    MaxLogLen,      \* bound: no entry but a stub of this server past this index
    MaxBatch,       \* bound: entries a leader sends that are new to the server
    MaxHeld,        \* bound: commands in the waiting queues at a time
    MaxStepDowns,   \* bound: how often the server obeys another leader or term
    MaxRestarts     \* bound: restarts of the process

ASSUME RequestAssumption ==
    /\ IsFiniteSet(Request) /\ IsFiniteSet(Peer) /\ Nil \notin Peer
    /\ \A q \in Request : q.kind \in {"write", "stale", "default", "consistent"}
                           /\ q.fromPeer \in BOOLEAN
    /\ CookieSpace \in Nat /\ CookieSpace >= 2
    /\ MaxLogLen \in Nat /\ MaxBatch \in Nat
    /\ MaxStepDowns \in Nat /\ MaxRestarts \in Nat

\* The entry a leader adds on its election is no command of a client.
ASSUME StubAssumption == Stub \notin Request

VARIABLES server, asked, gone, stepDowns, restarts

vars == <<server, asked, gone, stepDowns, restarts>>

Client == {q.client : q \in Request}
Entry(value) == [value |-> value]
LastIndex(v) == Len(v.raft.log)

Fail(v, assertion) == [v EXCEPT !.failed = assertion]

\* Send to the connection a request came from; a closed one drops it.
Send(v, q, reply) ==
    IF q.client \in gone THEN v ELSE [v EXCEPT !.replies[q] = Append(@, reply)]

-----------------------------------------------------------------------------
(* The state machine.  What its reads return depends on the writes it has  *)
(* executed: a reply tells how many these are.                             *)

RsmRead(v, w) ==
    Send(v, w.request, [index |-> w.index, kind |-> "read", of |-> Nil, saw |-> Len(v.rsm)])

RsmWriteNext(v, w) ==   \* broken variant
    IF v.lastApplied + 1 # w.index THEN v
    ELSE [v EXCEPT !.rsm = Append(@, w.value), !.lastApplied = w.index, !.savedApplied = w.index]
RsmWrite(v, w) ==
    IF v.lastApplied >= w.index THEN v
    ELSE [v EXCEPT !.rsm = Append(@, w.value), !.lastApplied = w.index, !.savedApplied = w.index]

-----------------------------------------------------------------------------
(* Commands. *)

\* A forwarded command takes the cookie that its answer will bring back.
ForwardToLeaderSameCookie(v, q) ==   \* broken variant
    [v EXCEPT
        !.forwarded     = @ \cup {[to |-> v.raft.leaderId, request |-> q,
                                   cookie |-> v.nextCookie]},
        !.cookieOwner   = {p \in @ : p[1] # v.nextCookie} \cup {<<v.nextCookie, q.client>>},
        !.clientCookies = @ \cup {<<q.client, v.nextCookie>>}]
ForwardToLeaderUnbounded(v, q) ==   \* broken variant
    [v EXCEPT
        !.forwarded     = @ \cup {[to |-> v.raft.leaderId, request |-> q,
                                   cookie |-> v.nextCookie]},
        !.cookieOwner   = {p \in @ : p[1] # v.nextCookie} \cup {<<v.nextCookie, q.client>>},
        !.clientCookies = @ \cup {<<q.client, v.nextCookie>>},
        !.nextCookie    = @ + 1]
ForwardToLeader(v, q) ==
    [v EXCEPT
        !.forwarded     = @ \cup {[to |-> v.raft.leaderId, request |-> q,
                                   cookie |-> IF v.nextCookie = 0 THEN 1
                                              ELSE v.nextCookie]},
        !.cookieOwner   = {p \in @ : p[1] # v.nextCookie} \cup {<<v.nextCookie, q.client>>},
        !.clientCookies = @ \cup {<<q.client, v.nextCookie>>},
        !.nextCookie    = (v.nextCookie + 1) % CookieSpace]

Forward(v, q) ==
    IF q.fromPeer
    THEN Send(v, q, [index |-> 0, kind |-> "error", of |-> Nil])
    ELSE IF v.raft.role = "CANDIDATE" \/ v.raft.leaderId = Nil
    THEN [v EXCEPT !.parked = Append(@, q)]
    ELSE IF v.raft.role = "FOLLOWER"
    THEN ForwardToLeader(v, q)
    ELSE Fail(v, "wrong state")

\* The assertion that a waiting queue stays sorted by index, then the push.
PushWaiting(v, q, index) ==
    IF v.waiting # << >> /\ Last(v.waiting).index > index
    THEN Fail(v, "queue order")
    ELSE [v EXCEPT !.waiting = Append(@, [index |-> index, request |-> q])]

\* ApproveRead sends a round of AppendEntries; the read waits for an answer
\* to one of that round or a later one.
PushStrongWaiting(v, q) ==
    LET w == [index |-> LastIndex(v), seqno |-> v.seqno, request |-> q]
        asking == [v EXCEPT !.seqno = @ + Cardinality(Peer)]
    IN  IF /\ v.strongWaiting # << >>
           /\ \/ Last(v.strongWaiting).index > w.index
              \/ Last(v.strongWaiting).seqno > w.seqno
        THEN Fail(asking, "queue order")
        ELSE [asking EXCEPT !.strongWaiting = Append(@, w)]

OnReadRequestCommitted(v, q) ==   \* broken variant
    IF q.kind = "stale" \/ (q.kind = "default" /\ v.raft.role = "LEADER")
    THEN PushWaiting(v, q, v.raft.commitIndex)
    ELSE IF v.raft.role # "LEADER" THEN Forward(v, q)
    ELSE PushStrongWaiting(v, q)
OnReadRequest(v, q) ==
    IF q.kind = "stale" \/ (q.kind = "default" /\ v.raft.role = "LEADER")
    THEN PushWaiting(v, q, LastIndex(v))
    ELSE IF v.raft.role # "LEADER" THEN Forward(v, q)
    ELSE PushStrongWaiting(v, q)

OnWriteRequest(v, q) ==
    IF v.raft.role # "LEADER" THEN Forward(v, q)
    ELSE PushWaiting([v EXCEPT !.raft = Submit(@, Entry(q))], q, LastIndex(v) + 1)

OnCommandRequest(v, q) ==
    IF v.failed # None THEN v
    ELSE IF q.kind = "write" THEN OnWriteRequest(v, q) ELSE OnReadRequest(v, q)

-----------------------------------------------------------------------------
(* What follows every message. *)

\* What was parked is handled again, in order.
Resumed(v) ==
    LET turn[k \in 0..Len(v.parked)] ==
            IF k = 0 THEN [v EXCEPT !.parked = << >>]
            ELSE OnCommandRequest(turn[k - 1], v.parked[k])
    IN  turn[Len(v.parked)]

CheckStateChangeUnlessLeader(v) ==   \* broken variant
    IF v.parked = << >> \/ v.raft.role # "LEADER" THEN v ELSE Resumed(v)
CheckStateChange(v) ==
    IF v.parked = << >> \/ v.raft.role = "CANDIDATE" \/ v.raft.leaderId = Nil THEN v
    ELSE Resumed(v)

\* How many entries up to index n are no stubs.
WritesUpTo(v, n) == Cardinality({i \in 1..n : v.raft.log[i].value # Stub})

\* A write is executed and its result kept for whoever may be waiting.
ApplyEntryBelowCommit(v, w) ==   \* broken variant
    IF w.value = Stub \/ w.index = v.raft.commitIndex THEN v
    ELSE [RsmWrite(v, w) EXCEPT !.answers = Append(@, w)]
ApplyEntry(v, w) ==
    IF w.value = Stub THEN v ELSE [RsmWrite(v, w) EXCEPT !.answers = Append(@, w)]

\* Every committed entry past LastAppliedIndex is applied, which then becomes
\* the commit index, whatever it was.
ProcessCommitted(v) ==
    LET log == v.raft.log
        last == v.raft.commitIndex
        done[i \in 0..last] ==
            IF i <= v.lastApplied THEN v
            ELSE ApplyEntry(done[i - 1], [index |-> i, value |-> log[i].value])
    IN  IF v.failed # None THEN v
        ELSE [done[last] EXCEPT !.lastApplied = last,
                                !.reached     = IF last > @ THEN last ELSE @]

\* The results that are left once those of earlier entries are popped.
AnswersFrom(v, index) ==
    LET n == CHOOSE n \in 0..Len(v.answers) :
                 /\ \A i \in 1..n : v.answers[i].index < index
                 /\ n < Len(v.answers) => v.answers[n + 1].index >= index
    IN  SubSeq(v.answers, n + 1, Len(v.answers))

\* One turn of the loop over Waiting, which looks at the newest element.
AnswerNewestBlindly(v, w) ==   \* broken variant
    IF w.request.kind # "write"
    THEN RsmRead(v, w)
    ELSE IF v.answers = << >> THEN Fail(v, "no answer")
    ELSE Send([v EXCEPT !.answers = Tail(@)], w.request,
              [index |-> w.index, kind |-> "write", of |-> Head(v.answers).value])
AnswerNewestKeeping(v, w) ==   \* broken variant
    LET rest == AnswersFrom(v, w.index)
    IN  IF w.request.kind # "write"
        THEN RsmRead(v, w)
        ELSE IF rest = << >> THEN Fail(v, "no answer")
        ELSE Send(v, w.request,
                  [index |-> w.index, kind |-> "write", of |-> Head(rest).value])
AnswerNewest(v, w) ==
    LET rest == AnswersFrom(v, w.index)
    IN  IF v.failed # None THEN v
        ELSE IF w.request.kind # "write"
        THEN RsmRead(v, w)
        ELSE IF rest = << >> THEN Fail([v EXCEPT !.answers = rest], "no answer")
        ELSE IF Head(rest).index # w.index
        THEN Fail([v EXCEPT !.answers = Tail(rest)], "other answer")
        ELSE Send([v EXCEPT !.answers = Tail(rest)], w.request,
                  [index |-> w.index, kind |-> "write", of |-> Head(rest).value])

\* Both loops look at the newest element and pop the oldest, so once the newest
\* is due they run until the queue is empty.
AnswerAll(v, queue) ==
    LET turn[k \in 0..Len(queue)] ==
            IF k = 0 THEN v ELSE AnswerNewest(turn[k - 1], Last(queue))
    IN  turn[Len(queue)]

ProcessWeakWaitingLate(v) ==   \* broken variant
    IF v.waiting = << >> \/ Last(v.waiting).index >= v.lastApplied THEN v
    ELSE AnswerAll([v EXCEPT !.waiting = << >>], v.waiting)
ProcessWeakWaiting(v) ==
    IF v.waiting = << >> \/ Last(v.waiting).index > v.lastApplied THEN v
    ELSE AnswerAll([v EXCEPT !.waiting = << >>], v.waiting)

ProcessStrongWaiting(v) ==
    IF \/ v.strongWaiting = << >>
       \/ Last(v.strongWaiting).index > v.lastApplied
       \/ Last(v.strongWaiting).seqno > v.commitSeqno
    THEN v
    ELSE AnswerAll([v EXCEPT !.strongWaiting = << >>], v.strongWaiting)

ProcessWaiting(v) ==
    LET u == ProcessWeakWaiting(v)
    IN  IF v.failed # None \/ u.failed # None THEN u ELSE ProcessStrongWaiting(u)

AfterMessage(v) == ProcessWaiting(ProcessCommitted(CheckStateChange(v)))

-----------------------------------------------------------------------------
(* The loop. *)

Init ==
    /\ server = [raft |-> [role |-> "FOLLOWER", leaderId |-> Nil, log |-> << >>,
                           commitIndex |-> 0],
                 waiting |-> << >>, strongWaiting |-> << >>, parked |-> << >>,
                 answers |-> << >>, cookieOwner |-> {}, clientCookies |-> {},
                 nextCookie |-> 1, rsm |-> << >>, lastApplied |-> 0,
                 savedApplied |-> 0, seqno |-> 0, commitSeqno |-> 0, failed |-> None,
                 forwarded |-> {}, relayed |-> {}, replies |-> [q \in Request |-> << >>],
                 reached |-> 0, knew |-> [q \in Request |-> 0]]
    /\ asked = {} /\ gone = {}
    /\ stepDowns = 0 /\ restarts = 0

Answered(q) == server.replies[q] # << >> \/ \E c \in Client : <<c, q>> \in server.relayed
Held == Len(server.waiting) + Len(server.strongWaiting) + Len(server.parked)

Running == server.failed = None
Room == LastIndex(server) < MaxLogLen

\* InboundConnection: a command of a client, or one another server forwarded.
Ask(q) ==
    /\ Running
    /\ q \notin asked /\ q.client \notin gone
    /\ Held < MaxHeld
    /\ q.kind = "write" => Room
    /\ server' = AfterMessage(OnCommandRequest(
           [server EXCEPT !.knew[q] = WritesUpTo(server, server.reached)], q))
    /\ asked' = asked \cup {q}
    /\ UNCHANGED <<gone, stepDowns, restarts>>

\* InboundConnection: a message that TRaft handles, then the rest.
OnRaftMessage(v) ==
    /\ Running
    /\ server' = AfterMessage(v)
    /\ UNCHANGED <<asked, gone, restarts>>

Tails == UNION {[1..k -> {Entry(Foreign), Entry(Stub)}] : k \in 0..MaxBatch}

\* A leader has every committed entry, those of before a restart too.
ObeyLeader(l, keep, tail, c) ==
    LET log == SubSeq(server.raft.log, 1, keep) \o tail
    IN  /\ stepDowns < MaxStepDowns
        /\ Len(log) <= MaxLogLen /\ c <= Len(log)
        /\ Merged(server.raft.log, log)
        /\ OnRaftMessage([server EXCEPT !.raft = Follow(l, log, c)])
        /\ stepDowns' = stepDowns + 1

LoseOffice ==
    /\ stepDowns < MaxStepDowns
    /\ server.raft.role # "FOLLOWER"
    /\ OnRaftMessage([server EXCEPT !.raft = Depose(@)])
    /\ stepDowns' = stepDowns + 1

\* A successful AppendEntries response that lets a leader commit up to c: at
\* least the stub of its own term.  It confirms every round up to k.
Confirm(c, k) ==
    /\ server.raft.role = "LEADER"
    /\ CountsStubs(server.raft.log, c)
    /\ OnRaftMessage([server EXCEPT !.raft = Advance(@, c), !.commitSeqno = k])
    /\ UNCHANGED stepDowns

\* Idle runs ProcessTimeout alone.  (After a connection's ProcessTimeout the
\* rest follows, but it finds nothing to do: a server that became candidate
\* or leader knows no leader and committed nothing.)
Timeout(v) ==
    /\ Running
    /\ server' = v
    /\ UNCHANGED <<asked, gone, stepDowns, restarts>>

StandForElection ==
    /\ server.raft.role = "FOLLOWER"
    /\ Timeout([server EXCEPT !.raft = Stand(@), !.commitSeqno = 0])

WinElection ==
    /\ server.raft.role = "CANDIDATE"
    /\ Timeout([server EXCEPT !.raft = Lead(@, Entry(Stub)), !.commitSeqno = 0,
                              !.seqno = @ + Cardinality(Peer)])

\* OutboundServe: another server answered a command it was forwarded.
OnCommandResponse(m) ==
    /\ Running
    /\ \E p \in server.cookieOwner :
          /\ p[1] = m.cookie
          /\ server' = [server EXCEPT
                !.relayed       = IF p[2] \in gone THEN @ ELSE @ \cup {<<p[2], m.request>>},
                !.clientCookies = @ \ {<<p[2], m.cookie>>},
                !.cookieOwner   = @ \ {p}]
    /\ UNCHANGED <<asked, gone, stepDowns, restarts>>

\* A connection ends: CleanUp forgets the cookies of its client.
CleanUpOwnerOnly(v, c) ==   \* broken variant
    [v EXCEPT !.cookieOwner = {p \in @ : p[2] # c}]
CleanUp(v, c) ==
    [v EXCEPT !.cookieOwner   = {p \in @ : <<c, p[1]>> \notin v.clientCookies},
              !.clientCookies = {p \in @ : p[1] # c}]
Disconnect(c) ==
    /\ Running
    /\ \E q \in asked : q.client = c
    /\ gone' = gone \cup {c}
    /\ c \notin gone
    /\ server' = CleanUp(server, c)
    /\ UNCHANGED <<asked, stepDowns, restarts>>

\* The process starts again, with that log.  What a durable IRsm stored remains;
\* every connection is gone.
Start(log) ==
    /\ restarts < MaxRestarts
    /\ restarts' = restarts + 1
    /\ server' = [server EXCEPT
          !.raft = Reboot(log),
          !.waiting = << >>, !.strongWaiting = << >>, !.parked = << >>, !.answers = << >>,
          !.cookieOwner = {}, !.clientCookies = {}, !.nextCookie = 1, !.forwarded = {},
          !.rsm = IF DurableRsm THEN @ ELSE << >>,
          !.lastApplied = IF DurableRsm THEN server.savedApplied ELSE 0,
          !.savedApplied = IF DurableRsm THEN @ ELSE 0,
          !.seqno = 0, !.commitSeqno = 0, !.failed = None]
    /\ gone' = gone \cup {q.client : q \in asked}
    /\ UNCHANGED asked

\* The process ends, by a crash or a failed assertion, and starts again.
Restart ==
    /\ Start(server.raft.log)
    /\ UNCHANGED stepDowns

\* A crash while a leader is obeyed: entries are gone and others not there yet.
CrashInAppend(keep, tail) ==
    LET log == SubSeq(server.raft.log, 1, keep) \o tail
    IN  /\ Running
        /\ stepDowns < MaxStepDowns
        /\ Len(log) <= MaxLogLen
        /\ Start(log)
        /\ stepDowns' = stepDowns + 1

Next ==
    \/ \E q \in Request : Ask(q)
    \/ \E l \in Peer, keep \in server.reached..LastIndex(server) :
          \E tail \in Tails, c \in server.raft.commitIndex..MaxLogLen :
              ObeyLeader(l, keep, tail, c)
    \/ LoseOffice
    \/ \E c \in server.raft.commitIndex..LastIndex(server),
          k \in server.commitSeqno..server.seqno - 1 : Confirm(c, k)
    \/ StandForElection
    \/ WinElection
    \/ \E m \in server.forwarded : OnCommandResponse(m)
    \/ \E c \in Client : Disconnect(c)
    \/ Restart
    \/ \E keep \in server.reached..LastIndex(server), tail \in Tails :
          CrashInAppend(keep, tail)

Spec == Init /\ [][Next]_vars

\* Elections end, and as long as a server leads, its peers keep answering the
\* requests TRaft keeps sending: in the end one answer covers the whole log and
\* the last round.
Progress ==
    /\ WF_vars(StandForElection)
    /\ WF_vars(WinElection)
    /\ WF_vars(Confirm(LastIndex(server), server.seqno - 1))

\* The behaviours in which no command is waiting when a leader loses its
\* office or a log is cut, unless in a crash.
Quiet ==
    \/ stepDowns' = stepDowns \/ restarts' # restarts
    \/ server.waiting = << >> /\ server.strongWaiting = << >>
    \/ server.raft.role # "LEADER" /\ IsPrefix(server.raft.log, server'.raft.log)
QuietSpec == Init /\ [][Next /\ Quiet]_vars /\ Progress

-----------------------------------------------------------------------------
(* Properties. *)

\* Every variable keeps its type: what waits was asked for, the commit index is
\* within the log, and cookies stay below CookieSpace.
TypeOK ==
    /\ asked \subseteq Request
    /\ gone \subseteq Client
    /\ stepDowns \in 0..MaxStepDowns
    /\ restarts \in 0..MaxRestarts
    /\ server.raft.role \in {"FOLLOWER", "CANDIDATE", "LEADER"}
    /\ server.raft.leaderId \in Peer \cup {Nil}
    /\ server.raft.commitIndex \in 0..LastIndex(server)
    /\ \A i \in 1..LastIndex(server) :
          server.raft.log[i].value \in Request \cup {Foreign, Stub}
    /\ \A i \in 1..Len(server.waiting) : server.waiting[i].request \in asked
    /\ \A i \in 1..Len(server.strongWaiting) : server.strongWaiting[i].request \in asked
    /\ \A i \in 1..Len(server.parked) : server.parked[i] \in asked
    /\ server.nextCookie \in 0..CookieSpace - 1
    /\ server.cookieOwner \subseteq (0..CookieSpace - 1) \X Client
    /\ server.clientCookies \subseteq Client \X (0..CookieSpace - 1)

\* The state machine has executed the committed writes, each once and in log
\* order, whichever leaders wrote them (ProcessCommitted, IRsm::Write).
RsmFollowsLog ==
    /\ Len(server.rsm) = WritesUpTo(server, server.lastApplied)
    /\ \A i \in 1..server.lastApplied :
          server.raft.log[i].value # Stub =>
              server.rsm[WritesUpTo(server, i)] = server.raft.log[i].value

\* A read of any kind sees every write this server had executed when it was
\* asked, also if a restart emptied the state machine since (OnReadRequest waits
\* for the whole log, and what was executed is in it).
ReadsSeeExecuted ==
    \A q \in Request : \A i \in 1..Len(server.replies[q]) :
        server.replies[q][i].kind = "read" => server.replies[q][i].saw >= server.knew[q]

\* No write of a client is executed twice, restarts of a server with a durable
\* state machine included (LastAppliedIndex, which TSql stores for that).
ExecutedOnce ==
    \A i, j \in 1..Len(server.rsm) :
        server.rsm[i] = server.rsm[j] /\ server.rsm[i] # Foreign => i = j

\* The two maps of forwarded commands say the same (Forward, CleanUp,
\* OnCommandResponse): otherwise a client that leaves takes away the answer
\* of another, or its entries stay for good.
CookiesAgree ==
    server.cookieOwner = {<<p[2], p[1]>> : p \in server.clientCookies}

\* The answer of another server reaches the client that asked, and only it.
RelayedToAsker ==
    \A p \in server.relayed : p[1] = p[2].client

\* Once a leader is known no command stays behind (CheckStateChange).
NoneParkedUnderLeader ==
    server.parked # << >> => server.raft.leaderId = Nil

\* A client that is told its write was done had it done, at that index
\* (raft.h: "CommandRequest -> Write? -> ... -> Applied As Index (Same) ->
\* Index -> CommandResponse").
AnsweredWriteWasApplied ==
    \A q \in Request : \A i \in 1..Len(server.replies[q]) :
        server.replies[q][i].kind = "write" => server.replies[q][i].of = q

\* No client is told twice that its write was done or refused: where several
\* commands are due at once and the newest is a write, the second turn of the
\* loop fails an assertion, as the write's result is gone (ProcessWaiting looks
\* at back() and pops the front).  A read is answered again in this case.
WriteAnsweredOnce ==
    \A q \in Request : q.kind = "write" => Len(server.replies[q]) <= 1

\* What a client is told of a write is what became of the entry at the index
\* that its command was given, for good: it is wrong only where another entry
\* has taken that index (ProcessCommitted, ProcessWaiting).
AnswersOfTheirIndex ==
    \A q \in Request : \A i \in 1..Len(server.replies[q]) :
        LET r == server.replies[q][i]
        IN  r.kind = "write" => /\ r.index \in 1..server.reached
                                /\ server.raft.log[r.index].value = r.of

\* Whose entry was cut off the log, or replaced.
Overtaken(w, log) ==
    \/ w.index > Len(log)
    \/ w.request.kind = "write" /\ log[w.index].value # w.request

\* An assertion fails for one of two reasons only: commands are due at once
\* and the newest is a write, or the entry that a command waits for was cut off
\* the log or replaced.  Else the waiting queues stay sorted by index, and the
\* result of a waiting write is there when its turn comes and is its own
\* (OnReadRequest, OnWriteRequest, ProcessCommitted, ProcessWaiting).
FailuresHaveCause ==
    [][server'.failed # None =>
          \/ Len(server.waiting) >= 2 /\ Last(server.waiting).request.kind = "write"
          \/ \E i \in 1..Len(server.waiting) :
                Overtaken(server.waiting[i], server'.raft.log)
          \/ \E i \in 1..Len(server.strongWaiting) :
                Overtaken(server.strongWaiting[i], server'.raft.log)]_vars

WaitsIn(queue, q) == \E i \in 1..Len(queue) : queue[i].request = q

\* A command that waits to be applied, or for a round of answers to confirm that
\* this server leads, is answered, unless its client leaves (ProcessWaiting;
\* raft.h: a CommandRequest ends in a CommandResponse).
WaitingIsAnswered ==
    \A q \in Request :
        (WaitsIn(server.waiting, q) \/ WaitsIn(server.strongWaiting, q))
            ~> (Answered(q) \/ q.client \in gone)
=============================================================================
