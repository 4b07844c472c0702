----------------------------- MODULE RaftLedger -----------------------------
(***************************************************************************)
(* Why logs agree and what is committed stays: the inductive invariant     *)
(* behind LogMatching, StateMachineSafety and the other invariants of Raft *)
(* that relate the servers' logs.                                          *)
(*                                                                         *)
(* The argument speaks of logs that may exist no more: what the leader of  *)
(* a term wrote, before it crashed and others overwrote it.  They are kept *)
(* in a ledger h, a function from the terms that have had a leader to      *)
(* h[t].leader and h[t].log, its log when it last led.  The ledger is no   *)
(* variable of Raft: the invariant says that a fitting one exists.         *)
(***************************************************************************)
EXTENDS RaftElection

Ledger == UNION {[D -> [leader : Server, log : Seq(Entry)]] : D \in SUBSET (Nat \ {0})}

\* The first i entries of l and of m are there and are the same.
Same(l, m, i) ==
    /\ i <= Len(l) /\ i <= Len(m)
    /\ \A j \in 1..i : l[j] = m[j]

-----------------------------------------------------------------------------
(* Logs. *)

\* Every entry of l was written by the leader of its term, after the entries
\* before it.
Written(h, l) ==
    \A i \in 1..Len(l) :
        l[i].term \in DOMAIN h /\ Same(l, h[l[i].term].log, i)

\* Terms do not decrease along l.
Ordered(l) == \A i, j \in 1..Len(l) : i <= j => l[i].term <= l[j].term

\* Entry i is the first of its term in l.
StartsTerm(l, i) == i = 1 \/ l[i - 1].term # l[i].term

\* The first entry of each term in l is a stub, and no other entry is.
StubsFirst(l) == \A i \in 1..Len(l) : StartsTerm(l, i) <=> l[i].value = Stub

\* A leader's log is in order, every term in it starts with a stub, and it ends
\* with an entry of its own term.
PagesInv(h) ==
    \A t \in DOMAIN h :
        /\ h[t].log # << >> /\ LastLogTerm(h[t].log) = t
        /\ Ordered(h[t].log) /\ StubsFirst(h[t].log)
        /\ Written(h, h[t].log)

\* No log has an entry of a term its server has not heard of.
LogsInv(h) ==
    \A s \in Server :
        /\ Written(h, log[s])
        /\ \A i \in 1..Len(log[s]) : log[s][i].term <= currentTerm[s]

\* The ledger is up to date.
Led(h, t, s, l) == t \in DOMAIN h /\ h[t].leader = s /\ h[t].log = l

LeadersInv(h) ==
    \A s \in Server :
        stateName[s] = "LEADER" => Led(h, currentTerm[s], s, log[s])

\* Server l was elected in term t, voted for nobody else in it, and will not
\* be a candidate of that term again.
Elected(l, t) ==
    /\ Cardinality(Electors(l, t)) >= MinVotes(Nservers)
    /\ \A m \in Granted : m.src = l => m.term # t
    /\ t <= currentTerm[l]
    /\ t = currentTerm[l] => votedFor[l] = l /\ stateName[l] # "CANDIDATE"

ElectedInv(h) == \A t \in DOMAIN h : Elected(h[t].leader, t)

-----------------------------------------------------------------------------
(* Messages about entries. *)

Requests == {m \in msgs : m.type = "AppendEntriesRequest"}
Acks == {m \in msgs : m.type = "AppendEntriesResponse" /\ m.success}

\* Request m carries a piece of its leader's log.
Quotes(h, m) ==
    /\ m.term \in DOMAIN h /\ m.src = h[m.term].leader
    /\ m.prevLogIndex + Len(m.entries) <= Len(h[m.term].log)
    /\ m.prevLogTerm = LogTerm(h[m.term].log, m.prevLogIndex)
    /\ \A j \in 1..Len(m.entries) : m.entries[j] = h[m.term].log[m.prevLogIndex + j]
    /\ m.leaderCommit <= m.prevLogIndex + Len(m.entries)

RequestsInv(h) == \A m \in Requests : Quotes(h, m)

\* Success m goes to the leader of its term and counts entries it has.
Answers(h, m) ==
    /\ m.term \in DOMAIN h /\ m.dst = h[m.term].leader
    /\ m.matchIndex <= Len(h[m.term].log)
    /\ m.term <= currentTerm[m.src]

AcksInv(h) == \A m \in Acks : Answers(h, m)

\* A leader's match index is one the peer acknowledged.
Cursor(s, p) ==
    /\ nextIndex[s][p] <= Len(log[s]) + 1
    /\ matchIndex[s][p] = 0
       \/ \E m \in Acks : /\ m.src = p /\ m.dst = s /\ m.term = currentTerm[s]
                          /\ m.matchIndex = matchIndex[s][p]

CursorsInv ==
    \A s \in Server : stateName[s] = "LEADER" => \A p \in Peers(s) : Cursor(s, p)

\* Server p had the first i entries of the leader of term t while in term t.
Acked(h, p, t, i) ==
    \/ p = h[t].leader
    \/ \E m \in Acks : m.src = p /\ m.term = t /\ m.matchIndex >= i

\* The entries the leader of t wrote in its own term.
Own(h, t) == {i \in 1..Len(h[t].log) : h[t].log[i].term = t}

Holders(h, t, i) == {p \in Server : Acked(h, p, t, i)}

\* Who acknowledged entry i of term t or still can.
MayHold(h, t, i) == {p \in Server : currentTerm[p] <= t \/ Acked(h, p, t, i)}

Committed(h, t, i) == Cardinality(Holders(h, t, i)) >= CommitQuorumSize(Nservers)
Lost(h, t, i) == ~(Cardinality(MayHold(h, t, i)) >= CommitQuorumSize(Nservers))

-----------------------------------------------------------------------------
(* What can still be committed is in the log of every later leader. *)

LaterLeadersInv(h) ==
    \A t, u \in DOMAIN h : t < u =>
        \A i \in Own(h, t) : Same(h[t].log, h[u].log, i) \/ Lost(h, t, i)

\* Who acknowledged entries keeps them, for the rest of the term at least.
Kept(h, p, t, i) ==
    \/ Same(h[t].log, log[p], i)
    \/ t < currentTerm[p] /\ (i \in Own(h, t) => Lost(h, t, i))

AcksKeptInv(h) ==
    \A t \in DOMAIN h, p \in Server : \A i \in 1..Len(h[t].log) :
        Acked(h, p, t, i) => Kept(h, p, t, i)

\* A candidate's request describes its log.
Describes(m) ==
    /\ m.term <= currentTerm[m.src]
    /\ stateName[m.src] = "CANDIDATE" /\ m.term = currentTerm[m.src] =>
          /\ m.lastLogIndex = Len(log[m.src])
          /\ m.lastLogTerm = LastLogTerm(log[m.src])

CandidatesInv == \A m \in msgs : m.type = "RequestVoteRequest" => Describes(m)

\* What voter p acknowledged in earlier terms, candidate c has as far as it matters.
Covers(h, c, p, u) ==
    \A t \in DOMAIN h : t < u =>
        \A i \in Own(h, t) :
            Acked(h, p, t, i) => Same(h[t].log, log[c], i) \/ Lost(h, t, i)

Covered(h, m) ==
    /\ m.term <= currentTerm[m.dst]
    /\ stateName[m.dst] = "CANDIDATE" /\ m.term = currentTerm[m.dst]
          => Covers(h, m.dst, m.src, m.term)

VotesInv(h) == \A m \in Granted : Covered(h, m)

\* The first c entries of l are part of what was committed by term u.
CommittedBy(h, l, c, u) ==
    \/ c = 0
    \/ \E t \in DOMAIN h : /\ t <= u
                           /\ \E i \in Own(h, t) : /\ c <= i /\ Committed(h, t, i)
                                                   /\ Same(l, h[t].log, c)

CommitInv(h) ==
    /\ \A s \in Server : CommittedBy(h, log[s], commitIndex[s], currentTerm[s])
    /\ \A m \in Requests : CommittedBy(h, h[m.term].log, m.leaderCommit, m.term)

-----------------------------------------------------------------------------
\* The ledger fits: logs and messages quote it.
WritingInv(h) ==
    /\ PagesInv(h)
    /\ LogsInv(h)
    /\ LeadersInv(h)
    /\ ElectedInv(h)
    /\ RequestsInv(h)
    /\ AcksInv(h)
    /\ CursorsInv

\* What is committed stays.
AgreementInv(h) ==
    /\ LaterLeadersInv(h)
    /\ AcksKeptInv(h)
    /\ CandidatesInv
    /\ VotesInv(h)
    /\ CommitInv(h)

LogsWereWritten == \E h \in Ledger : WritingInv(h)
LogsAgree == \E h \in Ledger : WritingInv(h) /\ AgreementInv(h)
=============================================================================
