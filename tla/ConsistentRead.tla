--------------------------- MODULE ConsistentRead ---------------------------
(***************************************************************************)
(* Consistent reads (TCommandRequest::EConsistent): the leader stamps its  *)
(* AppendEntries requests with a growing Seqno, a peer's response brings   *)
(* the number back, and a read waits until CommitSeqno has reached the     *)
(* first number of the round that was sent for it.                         *)
(*                                                                         *)
(* The module follows one leader, Reader, from the moment every server has *)
(* its stub and the stub is committed, while the others may elect a leader *)
(* of the next term, which commits an entry that Reader does not have.  Of *)
(* TRaft it keeps what decides whether a read may be answered: the terms,  *)
(* the votes, who holds the new entry, and the numbers.  All logs are      *)
(* equal until then, so no vote is refused for the sake of the log, and    *)
(* every AppendEntries request that is not refused succeeds.               *)
(***************************************************************************)
EXTENDS Naturals, FiniteSets, RaftQuorums

CONSTANTS
    Server,
    Reader,      \* the leader of the older term, 1
    Read,        \* the consistent reads clients ask for
    MaxSeqno     \* bound: no request numbered from this on

ASSUME ReaderAssumption == IsFiniteSet(Server) /\ Reader \in Server

VARIABLES
    currentTerm,          \* 1 or 2, per server
    leading,              \* Reader has not stepped down
    seqno, commitSeqno,   \* of Reader
    waiting,              \* StrongWaiting of Reader, as a function from reads to numbers
    answered,             \* the reads Reader answered
    stale,                \* the reads asked for after the new entry was committed
    pings, pongs,         \* requests and successful responses of term 1
    voters, holders,      \* who elected the new leader, who has its entry
    committed             \* the new leader counts its entry as committed

vars == <<currentTerm, leading, seqno, commitSeqno, waiting, answered, stale,
          pings, pongs, voters, holders, committed>>
reading == <<seqno, commitSeqno, waiting, answered, stale>>
electing == <<voters, holders, committed>>

Peers == Server \ {Reader}
Nservers == Cardinality(Server)

\* Number 0 is the next request of Reader: what it sent before only has
\* smaller numbers, which confirm no read asked for from here on.
Init ==
    /\ currentTerm = [s \in Server |-> 1]
    /\ leading = TRUE
    /\ seqno = 0 /\ commitSeqno = 0
    /\ waiting = << >> /\ answered = {} /\ stale = {}
    /\ pings = {} /\ pongs = {}
    /\ voters = {} /\ holders = {} /\ committed = FALSE

-----------------------------------------------------------------------------
(* Reader. *)

\* LeaderTimeout: a heartbeat, or entries, to one peer.
Ping(p) ==
    /\ leading /\ seqno < MaxSeqno
    /\ pings' = pings \cup {[dst |-> p, seqno |-> seqno]}
    /\ seqno' = seqno + 1
    /\ UNCHANGED <<currentTerm, leading, commitSeqno, waiting, answered, stale, pongs, electing>>

\* ApproveRead numbers one request to each peer, in whatever order the peers
\* come, and the read keeps the first of the numbers.
ApproveRead(r, first) ==
    /\ leading /\ seqno + Cardinality(Peers) <= MaxSeqno
    /\ r \notin DOMAIN waiting /\ r \notin answered
    /\ \E number \in [Peers -> seqno .. seqno + Cardinality(Peers) - 1] :
          /\ \A p, q \in Peers : number[p] = number[q] => p = q
          /\ pings' = pings \cup {[dst |-> p, seqno |-> number[p]] : p \in Peers}
    /\ seqno' = seqno + Cardinality(Peers)
    /\ waiting' = [q \in DOMAIN waiting \cup {r} |-> IF q = r THEN first ELSE waiting[q]]
    /\ stale' = IF committed THEN stale \cup {r} ELSE stale
    /\ UNCHANGED <<currentTerm, leading, commitSeqno, answered, pongs, electing>>

ConsistentReadOfLastRound(r) ==   \* broken variant
    ApproveRead(r, IF seqno = 0 THEN 0 ELSE seqno - 1)
ConsistentReadOf(r) == ApproveRead(r, seqno)

\* A success: CommitAdvance takes its number whoever sent it, since the entry
\* at the commit index is of Reader's term.  ProcessWaiting then answers, and
\* looks at the newest read only.
OnPong(m) ==
    /\ leading
    /\ commitSeqno' = MaxOf(commitSeqno, m.seqno)
    /\ LET due == waiting # << >> /\ \A r \in DOMAIN waiting : waiting[r] <= commitSeqno'
       IN  /\ answered' = IF due THEN answered \cup DOMAIN waiting ELSE answered
           /\ waiting'  = IF due THEN << >> ELSE waiting
    /\ UNCHANGED <<currentTerm, leading, seqno, stale, pings, pongs, electing>>

\* A response, a vote request or an AppendEntries request of term 2.
StepDown ==
    /\ leading
    /\ \E s \in Peers : currentTerm[s] = 2
    /\ leading' = FALSE
    /\ currentTerm' = [currentTerm EXCEPT ![Reader] = 2]
    /\ UNCHANGED <<reading, pings, pongs, electing>>

-----------------------------------------------------------------------------
(* The other servers. *)

\* A request of term 1 reaches a server that is still in that term.
OnPing(m) ==
    /\ currentTerm[m.dst] = 1
    /\ pongs' = pongs \cup {[src |-> m.dst, seqno |-> m.seqno]}
    /\ UNCHANGED <<currentTerm, leading, reading, pings, electing>>

\* A peer stands for election in term 2, or votes for the one that does.
Vote(s) ==
    /\ voters # {} \/ s # Reader
    /\ currentTerm[s] = 1 \/ (s = Reader /\ s \notin voters)
    /\ currentTerm' = [currentTerm EXCEPT ![s] = 2]
    /\ leading' = (leading /\ s # Reader)
    /\ voters' = voters \cup {s}
    /\ UNCHANGED <<reading, pings, pongs, holders, committed>>

\* The new leader's entry reaches a server; the first to hold it is one of
\* those that elected it.
Accept(s) ==
    /\ Cardinality(voters) >= MinVotes(Nservers)
    /\ s \notin holders
    /\ holders = {} => s \in voters \ {Reader}
    /\ holders' = holders \cup {s}
    /\ currentTerm' = [currentTerm EXCEPT ![s] = 2]
    /\ leading' = (leading /\ s # Reader)
    /\ UNCHANGED <<reading, pings, pongs, voters, committed>>

Commit ==
    /\ ~committed
    /\ Cardinality(holders) >= CommitQuorumSize(Nservers)
    /\ committed' = TRUE
    /\ UNCHANGED <<currentTerm, leading, reading, pings, pongs, voters, holders>>

Next ==
    \/ \E p \in Peers : Ping(p)
    \/ \E r \in Read : ConsistentReadOf(r)
    \/ \E m \in pongs : OnPong(m)
    \/ StepDown
    \/ \E m \in pings : OnPing(m)
    \/ \E s \in Server : Vote(s) \/ Accept(s)
    \/ Commit

Spec == Init /\ [][Next]_vars

-----------------------------------------------------------------------------
(* Properties. *)

\* A consistent read is never answered from a log that lacks an entry which
\* was committed before the read was asked for (messages.h: "strong consistent
\* read (wait for pings, low latency, no stale read)").
NoStaleRead == answered \cap stale = {}
=============================================================================
