------------------------------ MODULE RaftProofs ------------------------------
(***************************************************************************)
(* Theorems about Raft, for any finite set of servers and any bounds: its  *)
(* types, that no two servers lead in one term, and that logs match.       *)
(*                                                                         *)
(* Any two sets of MinVotes servers share one, and whoever is in both      *)
(* would have voted twice in the term.  A candidate counts itself without  *)
(* a message, so the shared server may be one of the two leaders.          *)
(*                                                                         *)
(* Logs match because every step takes a ledger that fits to one that      *)
(* fits, the same one or, when a leader writes, one with that leader's log *)
(* entered anew.                                                           *)
(***************************************************************************)
EXTENDS RaftLedger, SequenceTheorems, FiniteSetTheorems, WellFoundedInduction, TLAPS

-----------------------------------------------------------------------------
(* Logs. *)

\* A set of naturals that is not empty has a least element.
LEMMA LeastNatural ==
    ASSUME NEW S \in SUBSET Nat, S # {}
    PROVE  \E x \in S : \A y \in S : x <= y
<1>1. PICK x \in S : \A y \in S : ~ (<<y, x>> \in OpToRel(<, Nat))
  BY NatLessThanWellFounded, WFMin
<1>2. x \in Nat /\ \A y \in S : y \in Nat
  OBVIOUS
<1>3. \A y \in S : ~ (y < x)
  BY <1>1, <1>2 DEF OpToRel
<1>4. \A y \in S : x <= y
  BY <1>2, <1>3
<1> QED  BY <1>4

\* The term at an index is a natural, 0 where the log has no entry.
LEMMA LogTermType ==
    ASSUME NEW l \in Seq(Entry), NEW i
    PROVE  LogTerm(l, i) \in Nat
<1>1. CASE i \in 1..Len(l)
  <2>1. l[i] \in Entry
    BY <1>1
  <2> QED  BY <1>1, <2>1 DEF LogTerm, Entry
<1>2. CASE i \notin 1..Len(l)
  BY <1>2 DEF LogTerm
<1> QED  BY <1>1, <1>2

\* RemoveLast leaves a log.
LEMMA PrefixType ==
    ASSUME NEW l \in Seq(Entry), NEW n \in Nat
    PROVE  Prefix(l, n) \in Seq(Entry)
<1>1. MinOf(n, Len(l)) \in Int /\ MinOf(n, Len(l)) <= Len(l)
  BY DEF MinOf
<1>2. \A i \in 1..MinOf(n, Len(l)) : l[i] \in Entry
  BY <1>1
<1> QED  BY <1>1, <1>2, SubSeqProperties DEF Prefix

\* The entries a request carries are a log of their own.
LEMMA SegmentType ==
    ASSUME NEW l \in Seq(Entry), NEW m \in Nat \ {0}, NEW n \in Nat, n < m \/ n <= Len(l)
    PROVE  SubSeq(l, m, n) \in Seq(Entry)
<1>1. \A i \in m..n : l[i] \in Entry
  OBVIOUS
<1> QED  BY <1>1, SubSeqProperties

\* The first conflict exists: conflicts are naturals, so there is a least one.
LEMMA FirstConflictType ==
    ASSUME NEW l, NEW m, m.entries \in Seq(Entry), Conflicts(l, m) # {}
    PROVE  /\ FirstConflict(l, m) \in Conflicts(l, m)
           /\ \A j \in Conflicts(l, m) : FirstConflict(l, m) <= j
<1>1. Conflicts(l, m) \in SUBSET Nat
  BY DEF Conflicts
<1> QED  BY <1>1, LeastNatural DEF FirstConflict

\* Whatever the payload loop of OnAppendEntries leaves, finished or not, is a log.
LEMMA MergeType ==
    ASSUME NEW l \in Seq(Entry), NEW m, m.entries \in Seq(Entry), m.prevLogIndex \in Nat
    PROVE  /\ Merge(l, m) \in Seq(Entry)
           /\ PartialMerges(l, m) \subseteq Seq(Entry)
<1>1. CASE Conflicts(l, m) = {}
  BY <1>1 DEF Merge, PartialMerges
<1>2. CASE Conflicts(l, m) # {}
  <2> DEFINE c == FirstConflict(l, m)
             keep == m.prevLogIndex + c - 1
  <2>1. c \in 1..Len(m.entries)
    BY <1>2, FirstConflictType DEF Conflicts
  <2> HIDE DEF c
  <2>2. keep \in Nat
    BY <2>1
  <2>3. \A j \in c..Len(m.entries) : Prefix(l, keep) \o SubSeq(m.entries, c, j) \in Seq(Entry)
    <3> TAKE j \in c..Len(m.entries)
    <3>1. SubSeq(m.entries, c, j) \in Seq(Entry)
      BY <2>1, SegmentType
    <3> QED  BY <3>1, <2>2, PrefixType, ConcatProperties
  <2>4. \A j \in keep..Len(l) : Prefix(l, j) \in Seq(Entry)
    BY <2>2, PrefixType
  <2>5. Merge(l, m) = Prefix(l, keep) \o SubSeq(m.entries, c, Len(m.entries))
    BY <1>2 DEF Merge, c
  <2>6. PartialMerges(l, m) = {Prefix(l, j) : j \in keep..Len(l)}
           \cup {Prefix(l, keep) \o SubSeq(m.entries, c, j) : j \in c..Len(m.entries)}
    BY <1>2 DEF PartialMerges, c
  <2>7. Merge(l, m) \in Seq(Entry)
    BY <2>1, <2>3, <2>5
  <2>8. PartialMerges(l, m) \subseteq Seq(Entry)
    BY <2>3, <2>4, <2>6
  <2> QED  BY <2>7, <2>8
<1> QED  BY <1>1, <1>2
-----------------------------------------------------------------------------
(* The type invariant. *)

\* There is at least one server.
LEMMA NserversType == Nservers \in Nat \ {0}
BY ServerAssumption, FS_CardinalityType, FS_EmptySet DEF Nservers

\* The commit index stays a natural without looking into the sorted array:
\* an index whose entry has a term is one of the log.
LEMMA CommitAdvanceType ==
    ASSUME TypeOK, NEW s \in Server, NEW l \in Seq(Entry), NEW match
    PROVE  CommitAdvance(s, l, match) \in Nat
<1>1. \A c : LogTerm(l, c) = currentTerm[s] => c \in Nat
  BY DEF LogTerm, TypeOK
<1> QED  BY <1>1 DEF CommitAdvance, TypeOK

\* The last index a request may name, for any cursors and any log length.
LEMMA LastSent ==
    ASSUME NEW next \in Nat \ {0}, NEW match \in Nat, NEW batch \in Nat, NEW len \in Nat,
           NEW last,
           last = IF match + 1 < next THEN next - 1
                  ELSE MinOf(next - 1 + MaxOf(1, batch), len)
    PROVE  last \in Nat /\ (last < next - 1 + 1 \/ last <= len)
<1>1. MaxOf(1, batch) \in Nat
  BY DEF MaxOf
<1>2. next - 1 + MaxOf(1, batch) \in Nat
  BY <1>1
<1>3. \A a \in Nat : MinOf(a, len) \in Nat /\ MinOf(a, len) <= len
  BY DEF MinOf
<1> QED  BY <1>2, <1>3

\* The fields of an AppendEntries request that are computed from the log.
LEMMA AppendRequestFields ==
    ASSUME NEW l \in Seq(Entry), NEW prev \in Nat, NEW last \in Nat,
           last < prev + 1 \/ last <= Len(l), NEW c \in Nat
    PROVE  /\ LogTerm(l, prev) \in Nat
           /\ MinOf(c, last) \in Nat
           /\ SubSeq(l, prev + 1, last) \in Seq(Entry)
BY SegmentType, LogTermType DEF MinOf

\* What a leader sends is a message, whatever its cursors are.
LEMMA CreateAppendEntriesType ==
    ASSUME TypeOK, NEW s \in Server, NEW d \in Server
    PROVE  CreateAppendEntries(s, d) \in Message
<1>1. /\ log[s] \in Seq(Entry) /\ Len(log[s]) \in Nat
      /\ nextIndex[s][d] \in Nat \ {0}
      /\ matchIndex[s][d] \in Nat /\ batchSize[s][d] \in Nat
      /\ commitIndex[s] \in Nat /\ currentTerm[s] \in Nat
  BY DEF TypeOK
<1> DEFINE prev == nextIndex[s][d] - 1
           last == IF matchIndex[s][d] + 1 < nextIndex[s][d] THEN nextIndex[s][d] - 1
                   ELSE MinOf(nextIndex[s][d] - 1 + MaxOf(1, batchSize[s][d]), Len(log[s]))
<1>2. last \in Nat /\ (last < nextIndex[s][d] - 1 + 1 \/ last <= Len(log[s]))
  BY <1>1, LastSent
<1>3. prev \in Nat
  BY <1>1
<1>4. CreateAppendEntries(s, d) =
        [type |-> "AppendEntriesRequest", src |-> s, dst |-> d, term |-> currentTerm[s],
         prevLogIndex |-> prev, prevLogTerm |-> LogTerm(log[s], prev),
         leaderCommit |-> MinOf(commitIndex[s], last),
         entries |-> SubSeq(log[s], prev + 1, last)]
  BY DEF CreateAppendEntries, SentCommit
<1>5. last < prev + 1 \/ last <= Len(log[s])
  BY <1>2
<1> HIDE DEF prev, last
<1>6. /\ LogTerm(log[s], prev) \in Nat
      /\ MinOf(commitIndex[s], last) \in Nat
      /\ SubSeq(log[s], prev + 1, last) \in Seq(Entry)
  BY <1>1, <1>2, <1>3, <1>5, AppendRequestFields
<1> QED  BY <1>1, <1>3, <1>4, <1>6 DEF Message, AppendEntriesRequest

\* The fields of a message, by its type.
LEMMA MessageFields ==
    ASSUME NEW m \in Message
    PROVE  /\ m.src \in Server /\ m.dst \in Server /\ m.term \in Nat
           /\ m.type = "RequestVoteRequest" =>
                  m.lastLogIndex \in Nat /\ m.lastLogTerm \in Nat
           /\ m.type = "RequestVoteResponse" => m.granted \in BOOLEAN
           /\ m.type = "AppendEntriesRequest" =>
                  /\ m.prevLogIndex \in Nat /\ m.prevLogTerm \in Nat
                  /\ m.leaderCommit \in Nat /\ m.entries \in Seq(Entry)
           /\ m.type = "AppendEntriesResponse" =>
                  m.matchIndex \in Nat /\ m.success \in BOOLEAN
BY DEF Message, RequestVoteRequest, RequestVoteResponse,
       AppendEntriesRequest, AppendEntriesResponse

\* A volatile state made anew has its types.
LEMMA FreshVolatileType ==
    ASSUME TypeOK, NEW s \in Server, NEW next \in Nat \ {0}, FreshVolatile(s, next)
    PROVE  /\ leaderId'   \in [Server -> Server \cup {Nil}]
           /\ votes'      \in [Server -> SUBSET Server]
           /\ nextIndex'  \in [Server -> [Server -> Nat \ {0}]]
           /\ matchIndex' \in [Server -> [Server -> Nat]]
           /\ batchSize'  \in [Server -> [Server -> Nat]]
           /\ backOff'    \in [Server -> [Server -> Nat]]
<1>1. AllFrom(next) \in [Server -> Nat \ {0}] /\ None \in [Server -> Nat]
  BY DEF AllFrom, None
<1> QED  BY <1>1 DEF FreshVolatile, TypeOK

\* Every server starts with its types right.
LEMMA InitTypeOK == Init => TypeOK
<1>1. AllFrom(1) \in [Server -> Nat \ {0}] /\ None \in [Server -> Nat]
  BY DEF AllFrom, None
<1> QED  BY <1>1 DEF Init, Started, TypeOK

\* Every handler of a message keeps the types.
LEMMA ProcessTypeOK ==
    ASSUME TypeOK, NEW m \in msgs, Process(m.dst, m)
    PROVE  TypeOK'
<1> DEFINE s == m.dst
<1>0. /\ m \in Message /\ s \in Server /\ m.src \in Server /\ m.term \in Nat
      /\ log[s] \in Seq(Entry) /\ currentTerm[s] \in Nat \ {0}
      /\ votedFor[s] \in Server \cup {Nil}
  BY MessageFields DEF TypeOK
<1> HIDE DEF s
<1>a. /\ NewTerm(s, m) \in Nat \ {0}
      /\ NewVote(s, m) \in Server \cup {Nil}
      /\ NewName(s, m) \in {"FOLLOWER", "CANDIDATE", "LEADER"}
  <2>1. NewTerm(s, m) \in Nat \ {0}
    BY <1>0 DEF NewTerm, MaxOf
  <2>2. NewVote(s, m) \in Server \cup {Nil}
    BY <1>0 DEF NewVote
  <2>3. NewName(s, m) \in {"FOLLOWER", "CANDIDATE", "LEADER"}
    BY <1>0 DEF NewName, TypeOK
  <2> QED  BY <2>1, <2>2, <2>3
<1>b. ASSUME TermCheck(s, m)
      PROVE  /\ currentTerm' \in [Server -> Nat \ {0}]
             /\ stateName' \in [Server -> {"FOLLOWER", "CANDIDATE", "LEADER"}]
  BY <1>b, <1>a DEF TermCheck, TypeOK
<1>1. CASE OnVoteRequest(s, m)
  <2> DEFINE grant == m.term >= currentTerm[s] /\ MayVote(s, m)
  <2>1. [type |-> "RequestVoteResponse", src |-> s, dst |-> m.src,
         term |-> NewTerm(s, m), granted |-> grant] \in Message
    BY <1>0, <1>a DEF Message, RequestVoteResponse
  <2>2. msgs' \subseteq Message
    BY <1>1, <2>1 DEF OnVoteRequest, Reply, TypeOK
  <2>3. votedFor' \in [Server -> Server \cup {Nil}]
    BY <1>1, <1>0, <1>a DEF OnVoteRequest, TypeOK
  <2> QED  BY <1>1, <1>b, <2>2, <2>3 DEF OnVoteRequest, TypeOK, cursors
<1>2. CASE StepDown(s, m)
  <2>1. votedFor' \in [Server -> Server \cup {Nil}]
    BY <1>2, <1>a DEF StepDown, TypeOK
  <2> QED  BY <1>2, <1>b, <2>1 DEF StepDown, TypeOK, cursors
<1>3. CASE OnVoteResponse(s, m)
  <2>1. votes' \in [Server -> SUBSET Server]
    <3>1. votes \in [Server -> SUBSET Server] /\ votes[s] \cup {m.src} \in SUBSET Server
      BY <1>0 DEF TypeOK
    <3> QED  BY <1>3, <3>1 DEF OnVoteResponse
  <2> QED  BY <1>3, <2>1 DEF OnVoteResponse, TypeOK, durable, cursors
<1>4. CASE RefuseAppend(s, m)
  <2>1. [type |-> "AppendEntriesResponse", src |-> s, dst |-> m.src,
         term |-> currentTerm[s], matchIndex |-> 0, success |-> FALSE] \in Message
    BY <1>0 DEF Message, AppendEntriesResponse
  <2>2. msgs' \subseteq Message
    BY <1>4, <2>1 DEF RefuseAppend, Reply, TypeOK
  <2> QED  BY <1>4, <2>2 DEF RefuseAppend, TypeOK, durable, cursors
<1>5. CASE AcceptAppend(s, m)
  <2> DEFINE success == Matches(log[s], m)
  <2>0. /\ m.prevLogIndex \in Nat /\ m.leaderCommit \in Nat /\ m.entries \in Seq(Entry)
        /\ m.term \in Nat \ {0}
    BY <1>0, <1>5, MessageFields DEF AcceptAppend
  <2>1. LastMatched(log[s], m) \in Nat
    BY <2>0 DEF LastMatched
  <2>2. [type |-> "AppendEntriesResponse", src |-> s, dst |-> m.src, term |-> m.term,
         matchIndex |-> IF success THEN LastMatched(log[s], m) ELSE 0,
         success |-> success] \in Message
    BY <1>0, <2>1 DEF Message, AppendEntriesResponse, Matches
  <2>3. msgs' \subseteq Message
    BY <1>5, <2>2 DEF AcceptAppend, Reply, TypeOK
  <2>4. log' \in [Server -> Seq(Entry)]
    <3>1. Merge(log[s], m) \in Seq(Entry)
      BY <1>0, <2>0, MergeType
    <3> QED  BY <1>5, <3>1 DEF AcceptAppend, TypeOK
  <2>5. commitIndex' \in [Server -> Nat]
    BY <1>5, <2>0 DEF AcceptAppend, TypeOK, MaxOf
  <2>6. /\ currentTerm' \in [Server -> Nat \ {0}]
        /\ votedFor' \in [Server -> Server \cup {Nil}]
        /\ leaderId' \in [Server -> Server \cup {Nil}]
        /\ stateName' \in [Server -> {"FOLLOWER", "CANDIDATE", "LEADER"}]
    BY <1>5, <1>0, <1>a, <2>0 DEF AcceptAppend, TypeOK
  <2> QED  BY <1>5, <2>3, <2>4, <2>5, <2>6 DEF AcceptAppend, TypeOK, cursors
<1>6. CASE OnAppendSuccess(s, m)
  <2> DEFINE match == [matchIndex[s] EXCEPT ![m.src] = MaxOf(@, m.matchIndex)]
  <2>0. m.matchIndex \in Nat
    BY <1>0, <1>6, MessageFields DEF OnAppendSuccess
  <2>1. match \in [Server -> Nat]
    <3>1. matchIndex[s] \in [Server -> Nat] /\ matchIndex[s][m.src] \in Nat
      <4>1. matchIndex \in [Server -> [Server -> Nat]]
        BY DEF TypeOK
      <4> QED  BY <1>0, <4>1
    <3>2. MaxOf(matchIndex[s][m.src], m.matchIndex) \in Nat
      BY <2>0, <3>1 DEF MaxOf
    <3> QED  BY <3>1, <3>2
  <2>2. CommitAdvance(s, log[s], match) \in Nat
    BY <1>0, CommitAdvanceType
  <2>3. /\ matchIndex' \in [Server -> [Server -> Nat]]
        /\ commitIndex' \in [Server -> Nat]
    BY <1>6, <2>1, <2>2 DEF OnAppendSuccess, TypeOK
  <2>4. nextIndex' \in [Server -> [Server -> Nat \ {0}]]
    <3>1. m.matchIndex + 1 \in Nat \ {0}
      BY <2>0
    <3> QED  BY <1>6, <1>0, <3>1 DEF OnAppendSuccess, TypeOK
  <2>5. /\ batchSize' \in [Server -> [Server -> Nat]]
        /\ backOff' \in [Server -> [Server -> Nat]]
    BY <1>6, <1>0, LimitAssumption DEF OnAppendSuccess, TypeOK
  <2> QED  BY <1>6, <2>3, <2>4, <2>5 DEF OnAppendSuccess, TypeOK, durable
<1>7. CASE OnAppendFailure(s, m)
  <2> DEFINE back == MaxOf(backOff[s][m.src], 1)
             next == nextIndex[s][m.src]
  <2>1. backOff[s][m.src] \in Nat /\ next \in Nat \ {0}
    <3>1. backOff \in [Server -> [Server -> Nat]] /\ nextIndex \in [Server -> [Server -> Nat \ {0}]]
      BY DEF TypeOK
    <3> QED  BY <1>0, <3>1
  <2>2. back \in Nat
    BY <2>1 DEF MaxOf
  <2> HIDE DEF back, next
  <2>3. MinOf(BackOffLimit, 2 * back) \in Nat
    BY <2>2, LimitAssumption DEF MinOf
  <2>4. StepBack(next, back) \in Nat \ {0}
    BY <2>1, <2>2 DEF StepBack, MaxOf
  <2>5. nextIndex' \in [Server -> [Server -> Nat \ {0}]]
    BY <1>7, <1>0, <2>4 DEF OnAppendFailure, TypeOK, next, back
  <2>6. /\ batchSize' \in [Server -> [Server -> Nat]]
        /\ backOff' \in [Server -> [Server -> Nat]]
    BY <1>7, <1>0, <2>3 DEF OnAppendFailure, TypeOK, back
  <2> QED  BY <1>7, <2>5, <2>6 DEF OnAppendFailure, TypeOK, durable
<1> QED
  BY <1>1, <1>2, <1>3, <1>4, <1>5, <1>6, <1>7 DEF Process, s

\* A crash keeps the types, in the middle of a merge too.
LEMMA CrashTypeOK ==
    ASSUME TypeOK, NEW s \in Server, Crash(s)
    PROVE  TypeOK'
<1>a. /\ stateName' \in [Server -> {"FOLLOWER", "CANDIDATE", "LEADER"}]
      /\ commitIndex' \in [Server -> Nat]
      /\ leaderId'   \in [Server -> Server \cup {Nil}]
      /\ votes'      \in [Server -> SUBSET Server]
      /\ nextIndex'  \in [Server -> [Server -> Nat \ {0}]]
      /\ matchIndex' \in [Server -> [Server -> Nat]]
      /\ batchSize'  \in [Server -> [Server -> Nat]]
      /\ backOff'    \in [Server -> [Server -> Nat]]
      /\ msgs' \subseteq Message
  <2>1. Restarted(s)
    BY DEF Crash, Restart, CrashInTermCheck, CrashInAppend
  <2>2. FreshVolatile(s, 1) /\ 1 \in Nat \ {0}
    BY <2>1 DEF Restarted
  <2>3. /\ stateName' \in [Server -> {"FOLLOWER", "CANDIDATE", "LEADER"}]
        /\ commitIndex' \in [Server -> Nat]
        /\ msgs' \subseteq Message
    BY <2>1 DEF Restarted, TypeOK
  <2> QED  BY <2>2, <2>3, FreshVolatileType
<1>1. CASE Restart(s)
  BY <1>1, <1>a DEF Restart, durable, TypeOK
<1>2. ASSUME NEW m \in msgs, CrashInTermCheck(s, m) PROVE TypeOK'
  <2>1. m.term \in Nat \ {0}
    BY <1>2, MessageFields DEF CrashInTermCheck, TypeOK
  <2> QED  BY <1>2, <1>a, <2>1 DEF CrashInTermCheck, TypeOK
<1>3. ASSUME NEW m \in msgs, CrashInAppend(s, m) PROVE TypeOK'
  <2>1. /\ m.term \in Nat \ {0}
        /\ m.prevLogIndex \in Nat /\ m.entries \in Seq(Entry)
        /\ NewVote(s, m) \in Server \cup {Nil}
    <3>1. m \in Message /\ currentTerm[s] \in Nat \ {0} /\ votedFor[s] \in Server \cup {Nil}
      BY <1>3 DEF TypeOK
    <3>2. m.term \in Nat /\ m.prevLogIndex \in Nat /\ m.entries \in Seq(Entry)
      BY <1>3, <3>1, MessageFields DEF CrashInAppend
    <3> QED  BY <1>3, <3>1, <3>2 DEF CrashInAppend, NewVote
  <2>2. PartialMerges(log[s], m) \subseteq Seq(Entry)
    BY <2>1, MergeType DEF TypeOK
  <2>3. log' \in [Server -> Seq(Entry)]
    BY <1>3, <2>2 DEF CrashInAppend, TypeOK
  <2>4. /\ currentTerm' \in [Server -> Nat \ {0}]
        /\ votedFor' \in [Server -> Server \cup {Nil}]
    BY <1>3, <2>1 DEF CrashInAppend, TypeOK
  <2> QED  BY <1>a, <2>3, <2>4 DEF TypeOK
<1> QED  BY <1>1, <1>2, <1>3 DEF Crash

\* Every step of every server keeps the types.
LEMMA NextTypeOK == TypeOK /\ [Next]_vars => TypeOK'
<1> SUFFICES ASSUME TypeOK, [Next]_vars PROVE TypeOK'
  OBVIOUS
<1>1. ASSUME NEW s \in Server, StartElection(s) PROVE TypeOK'
  <2>1. /\ currentTerm' \in [Server -> Nat \ {0}]
        /\ votedFor' \in [Server -> Server \cup {Nil}]
        /\ log' \in [Server -> Seq(Entry)]
        /\ stateName' \in [Server -> {"FOLLOWER", "CANDIDATE", "LEADER"}]
        /\ commitIndex' \in [Server -> Nat]
    BY <1>1 DEF StartElection, TypeOK
  <2>2. /\ leaderId'   \in [Server -> Server \cup {Nil}]
        /\ votes'      \in [Server -> SUBSET Server]
        /\ nextIndex'  \in [Server -> [Server -> Nat \ {0}]]
        /\ matchIndex' \in [Server -> [Server -> Nat]]
        /\ batchSize'  \in [Server -> [Server -> Nat]]
        /\ backOff'    \in [Server -> [Server -> Nat]]
    BY <1>1, FreshVolatileType DEF StartElection
  <2>3. ASSUME NEW d \in Peers(s) PROVE CreateVote(s, d)' \in Message
    <3>1. log'[s] \in Seq(Entry) /\ currentTerm'[s] \in Nat
      BY <2>1
    <3>2. LastLogTerm(log'[s]) \in Nat /\ Len(log'[s]) \in Nat
      BY <3>1, LogTermType DEF LastLogTerm
    <3> QED  BY <2>3, <3>1, <3>2 DEF CreateVote, Message, RequestVoteRequest, Peers
  <2>4. msgs' \subseteq Message
    BY <1>1, <2>3 DEF StartElection, TypeOK
  <2> QED  BY <2>1, <2>2, <2>4 DEF TypeOK
<1>2. ASSUME NEW s \in Server, WinElection(s) PROVE TypeOK'
  <2> DEFINE next == Len(log[s]) + 1
  <2>0. log[s] \in Seq(Entry) /\ next \in Nat \ {0}
    BY DEF TypeOK
  <2>1. [term |-> currentTerm[s], value |-> Stub] \in Entry
    BY DEF TypeOK, Entry
  <2>2. /\ currentTerm' = currentTerm
        /\ votedFor' = votedFor
        /\ commitIndex' = commitIndex
        /\ log' \in [Server -> Seq(Entry)]
        /\ stateName' \in [Server -> {"FOLLOWER", "CANDIDATE", "LEADER"}]
    BY <1>2, <2>0, <2>1, AppendProperties DEF WinElection, TypeOK
  <2>3. /\ leaderId'   \in [Server -> Server \cup {Nil}]
        /\ votes'      \in [Server -> SUBSET Server]
        /\ nextIndex'  \in [Server -> [Server -> Nat \ {0}]]
        /\ matchIndex' \in [Server -> [Server -> Nat]]
        /\ batchSize'  \in [Server -> [Server -> Nat]]
        /\ backOff'    \in [Server -> [Server -> Nat]]
    BY <1>2, <2>0, FreshVolatileType DEF WinElection
  <2>4. ASSUME NEW d \in Peers(s) PROVE CreateAppendEntries(s, d)' \in Message
    <3>0. d \in Server
      BY <2>4 DEF Peers
    <3>1. /\ log'[s] \in Seq(Entry) /\ Len(log'[s]) \in Nat
          /\ nextIndex'[s][d] \in Nat \ {0}
          /\ matchIndex'[s][d] \in Nat /\ batchSize'[s][d] \in Nat
          /\ commitIndex'[s] \in Nat /\ currentTerm'[s] \in Nat
      BY <3>0, <2>2, <2>3 DEF TypeOK
    <3> DEFINE prev == nextIndex'[s][d] - 1
               last == IF matchIndex'[s][d] + 1 < nextIndex'[s][d]
                       THEN nextIndex'[s][d] - 1
                       ELSE MinOf(nextIndex'[s][d] - 1 + MaxOf(1, batchSize'[s][d]),
                                  Len(log'[s]))
    <3>2. last \in Nat /\ (last < nextIndex'[s][d] - 1 + 1 \/ last <= Len(log'[s]))
      BY <3>1, LastSent
    <3>3. prev \in Nat /\ (last < prev + 1 \/ last <= Len(log'[s]))
      BY <3>1, <3>2
    <3>4. CreateAppendEntries(s, d)' =
            [type |-> "AppendEntriesRequest", src |-> s, dst |-> d,
             term |-> currentTerm'[s],
             prevLogIndex |-> prev, prevLogTerm |-> LogTerm(log'[s], prev),
             leaderCommit |-> MinOf(commitIndex'[s], last),
             entries |-> SubSeq(log'[s], prev + 1, last)]
      BY DEF CreateAppendEntries, SentCommit
    <3> HIDE DEF prev, last
    <3>5. /\ LogTerm(log'[s], prev) \in Nat
          /\ MinOf(commitIndex'[s], last) \in Nat
          /\ SubSeq(log'[s], prev + 1, last) \in Seq(Entry)
      BY <3>1, <3>2, <3>3, AppendRequestFields
    <3> QED  BY <3>0, <3>1, <3>3, <3>4, <3>5 DEF Message, AppendEntriesRequest
  <2>5. msgs' \subseteq Message
    BY <1>2, <2>4 DEF WinElection, TypeOK
  <2> QED  BY <2>2, <2>3, <2>5 DEF TypeOK
<1>3. ASSUME NEW s \in Server, SoloElection(s) PROVE TypeOK'
  <2> DEFINE next == Len(log[s]) + 1
  <2>0. log[s] \in Seq(Entry) /\ next \in Nat \ {0} /\ currentTerm[s] \in Nat
    BY DEF TypeOK
  <2>1. currentTerm' \in [Server -> Nat \ {0}]
    BY <1>3 DEF SoloElection, TypeOK
  <2>2. [term |-> currentTerm'[s], value |-> Stub] \in Entry
    BY <2>1 DEF Entry
  <2>3. log' \in [Server -> Seq(Entry)]
    BY <1>3, <2>0, <2>2, AppendProperties DEF SoloElection, TypeOK
  <2>4. /\ votedFor' \in [Server -> Server \cup {Nil}]
        /\ commitIndex' \in [Server -> Nat]
        /\ stateName' \in [Server -> {"FOLLOWER", "CANDIDATE", "LEADER"}]
        /\ msgs' \subseteq Message
    BY <1>3, <2>3 DEF SoloElection, TypeOK
  <2>5. /\ leaderId'   \in [Server -> Server \cup {Nil}]
        /\ votes'      \in [Server -> SUBSET Server]
        /\ nextIndex'  \in [Server -> [Server -> Nat \ {0}]]
        /\ matchIndex' \in [Server -> [Server -> Nat]]
        /\ batchSize'  \in [Server -> [Server -> Nat]]
        /\ backOff'    \in [Server -> [Server -> Nat]]
    BY <1>3, <2>0, FreshVolatileType DEF SoloElection
  <2> QED  BY <2>1, <2>3, <2>4, <2>5 DEF TypeOK
<1>4. ASSUME NEW s \in Server, NEW due \in SUBSET Peers(s), LeaderTimeout(s, due)
      PROVE  TypeOK'
  <2>1. \A d \in due : CreateAppendEntries(s, d) \in Message
    BY CreateAppendEntriesType DEF Peers
  <2> QED  BY <1>4, <2>1 DEF LeaderTimeout, TypeOK, durable, cursors
<1>5. ASSUME NEW s \in Server, SoloCommit(s) PROVE TypeOK'
  <2>1. CommitAdvance(s, log[s], matchIndex[s]) \in Nat
    BY CommitAdvanceType DEF TypeOK
  <2> QED  BY <1>5, <2>1 DEF SoloCommit, TypeOK, durable, cursors
<1>6. ASSUME NEW s \in Server, NEW v \in Value, AppendValue(s, v) PROVE TypeOK'
  <2>1. log[s] \in Seq(Entry) /\ [term |-> currentTerm[s], value |-> v] \in Entry
    BY DEF TypeOK, Entry
  <2>2. log' \in [Server -> Seq(Entry)]
    BY <1>6, <2>1, AppendProperties DEF AppendValue, TypeOK
  <2> QED  BY <1>6, <2>2 DEF AppendValue, TypeOK, cursors
<1>7. ASSUME NEW m \in msgs, Process(m.dst, m) PROVE TypeOK'
  BY <1>7, ProcessTypeOK
<1>8. ASSUME NEW s \in Server, Crash(s) PROVE TypeOK'
  BY <1>8, CrashTypeOK
<1>9. CASE UNCHANGED vars
  BY <1>9 DEF vars, durable, cursors, TypeOK
<1> QED
  BY <1>1, <1>2, <1>3, <1>4, <1>5, <1>6, <1>7, <1>8, <1>9 DEF Next, Step, Timeout

\* Every variable keeps its type; above all, no next index is ever 0, so the
\* index before it, which every AppendEntries request names, never wraps
\* around (StepBack, OnAppendEntries of a success, FreshVolatile).
THEOREM TypeCorrectness == Spec => []TypeOK
<1>1. Init => TypeOK
  BY InitTypeOK
<1>2. TypeOK /\ [Next]_vars => TypeOK'
  BY NextTypeOK
<1> QED  BY <1>1, <1>2, PTL DEF Spec

-----------------------------------------------------------------------------
(* Quorums. *)

\* Two quorums of voters are together more than all servers.
LEMMA MinVotesMajority ==
    ASSUME NEW n \in Nat \ {0}
    PROVE  MinVotes(n) \in Nat /\ 2 * MinVotes(n) > n
BY DEF MinVotes

\* Two sets of voters, each large enough to elect, share a voter.
LEMMA VotersIntersect ==
    ASSUME NEW P \in SUBSET Server, NEW Q \in SUBSET Server,
           Cardinality(P) >= MinVotes(Nservers), Cardinality(Q) >= MinVotes(Nservers)
    PROVE  P \cap Q # {}
<1>1. /\ IsFiniteSet(P) /\ Cardinality(P) \in Nat
      /\ IsFiniteSet(Q) /\ Cardinality(Q) \in Nat
  BY ServerAssumption, FS_Subset, FS_CardinalityType
<1>2. Nservers \in Nat \ {0} /\ Nservers = Cardinality(Server)
  BY NserversType DEF Nservers
<1>3. MinVotes(Nservers) \in Nat /\ 2 * MinVotes(Nservers) > Nservers
  BY <1>2, MinVotesMajority
<1> HIDE DEF Nservers
<1>4. Cardinality(P) + Cardinality(Q) > Cardinality(Server)
  BY <1>1, <1>2, <1>3
<1> QED  BY <1>4, ServerAssumption, FS_MajoritiesIntersect

\* Votes come from servers, and none from the one they are for.
LEMMA GrantedToType ==
    ASSUME TypeOK, NoneToItself, NEW s \in Server, NEW t
    PROVE  GrantedTo(s, t) \subseteq Server /\ s \notin GrantedTo(s, t)
BY MessageFields DEF GrantedTo, Granted, TypeOK, NoneToItself

-----------------------------------------------------------------------------
(* The invariant is inductive. *)

\* What a step may make of a server's role.
RoleStep(s) ==
    \/ stateName'[s] = "FOLLOWER"
    \/ /\ stateName'[s] = "CANDIDATE"
       /\ votedFor'[s] = s
       /\ votes'[s] \subseteq GrantedTo(s, currentTerm'[s])
    \/ /\ stateName'[s] = "LEADER"
       /\ votedFor'[s] = s
       /\ Cardinality(Electors(s, currentTerm'[s])) >= MinVotes(Nservers)

\* What a step that casts no vote for another server does to terms and votes.
VoteKept(s) ==
    /\ currentTerm'[s] >= currentTerm[s]
    /\ currentTerm'[s] = currentTerm[s] => votedFor'[s] = votedFor[s]

\* Roles stay justified, since no vote that was sent is ever withdrawn.
LEMMA RolesKept ==
    ASSUME TypeOK', NoneToItself', msgs \subseteq msgs', \A s \in Server : RoleStep(s)
    PROVE  (VotedForItself /\ VotesWereGranted /\ LeadersWereElected)'
<1>1. \A s, t : GrantedTo(s, t) \subseteq GrantedTo(s, t)'
  BY DEF GrantedTo, Granted
<1>2. VotedForItself'
  BY DEF VotedForItself, RoleStep
<1>3. VotesWereGranted'
  BY <1>1 DEF VotesWereGranted, RoleStep
<1>4. ASSUME NEW s \in Server, stateName'[s] = "LEADER"
      PROVE  Cardinality(Electors(s, currentTerm[s]))' >= MinVotes(Nservers)
  <2> DEFINE P == Electors(s, currentTerm'[s])
             Q == Electors(s, currentTerm[s])'
  <2>1. P \subseteq Q
    BY <1>1 DEF Electors
  <2>2. Q \subseteq Server
    BY MessageFields DEF Electors, GrantedTo, Granted, TypeOK
  <2>3. IsFiniteSet(Q) /\ IsFiniteSet(P)
    BY <2>1, <2>2, ServerAssumption, FS_Subset
  <2>4. Cardinality(P) <= Cardinality(Q) /\ Cardinality(P) \in Nat /\ Cardinality(Q) \in Nat
    BY <2>1, <2>3, FS_Subset, FS_CardinalityType
  <2>5. Cardinality(P) >= MinVotes(Nservers)
    BY <1>4 DEF RoleStep
  <2>6. MinVotes(Nservers) \in Nat
    BY NserversType, MinVotesMajority
  <2> HIDE DEF P, Q
  <2>7. Cardinality(Q) >= MinVotes(Nservers)
    BY <2>4, <2>5, <2>6
  <2> QED  BY <2>7 DEF Q
<1>5. LeadersWereElected'
  BY <1>4 DEF LeadersWereElected, Nservers
<1> QED  BY <1>2, <1>3, <1>5

\* A step that sends no vote keeps the invariant, if it keeps the promises.
LEMMA NoVoteSent ==
    ASSUME TypeOK, TypeOK', ElectionInv, msgs \subseteq msgs',
           \A m \in msgs' \ msgs :
               m.src # m.dst /\ (m.type = "RequestVoteResponse" => ~m.granted),
           \A s \in Server : RoleStep(s) /\ VoteKept(s)
    PROVE  ElectionInv'
<1>1. Granted' = Granted
  BY DEF Granted
<1>2. NoneToItself'
  BY DEF ElectionInv, NoneToItself
<1>3. VotesRemembered'
  <2> SUFFICES ASSUME NEW m \in Granted
               PROVE  /\ m.term <= currentTerm'[m.src]
                      /\ m.term = currentTerm'[m.src] => votedFor'[m.src] = m.dst
    BY <1>1 DEF VotesRemembered
  <2>1. m \in Message /\ m.src \in Server /\ m.term \in Nat
    BY MessageFields DEF Granted, TypeOK
  <2>2. currentTerm[m.src] \in Nat /\ currentTerm'[m.src] \in Nat
    BY <2>1 DEF TypeOK
  <2>3. VoteKept(m.src)
    BY <2>1
  <2>4. /\ m.term <= currentTerm[m.src]
        /\ m.term = currentTerm[m.src] => votedFor[m.src] = m.dst
    BY DEF ElectionInv, VotesRemembered
  <2> QED  BY <2>1, <2>2, <2>3, <2>4 DEF VoteKept
<1>4. OneVotePerTerm'
  BY <1>1 DEF ElectionInv, OneVotePerTerm
<1>5. (VotedForItself /\ VotesWereGranted /\ LeadersWereElected)'
  BY <1>2, RolesKept
<1> QED  BY <1>2, <1>3, <1>4, <1>5 DEF ElectionInv

\* A server the step leaves as it was keeps its role and its promises.
LEMMA Undisturbed ==
    ASSUME TypeOK, ElectionInv, NEW s \in Server,
           currentTerm'[s] = currentTerm[s], votedFor'[s] = votedFor[s],
           stateName'[s] \in {stateName[s], "FOLLOWER"}, votes'[s] = votes[s]
    PROVE  RoleStep(s) /\ VoteKept(s)
<1>1. currentTerm[s] \in Nat /\ stateName[s] \in {"FOLLOWER", "CANDIDATE", "LEADER"}
  BY DEF TypeOK
<1>2. VoteKept(s)
  BY <1>1 DEF VoteKept
<1>3. RoleStep(s)
  BY <1>1 DEF RoleStep, ElectionInv, VotedForItself, VotesWereGranted, LeadersWereElected
<1> QED  BY <1>2, <1>3

\* One server of the others: every action but a message's leaves them alone.
LEMMA TimeoutKeeps ==
    ASSUME TypeOK, TypeOK', ElectionInv, NEW s \in Server, Timeout(s)
    PROVE  ElectionInv'
<1>0. /\ currentTerm[s] \in Nat /\ votes[s] \subseteq Server
      /\ \A d \in Peers(s) : s # d
  BY DEF TypeOK, Peers
<1>1. CASE StartElection(s)
  <2>1. \A p \in Server \ {s} : RoleStep(p) /\ VoteKept(p)
    <3>1. \A p \in Server \ {s} :
             /\ currentTerm'[p] = currentTerm[p] /\ votedFor'[p] = votedFor[p]
             /\ stateName'[p] = stateName[p]
      BY <1>1 DEF StartElection, TypeOK
    <3>2. \A p \in Server \ {s} : votes'[p] = votes[p]
      BY <1>1 DEF StartElection, FreshVolatile, TypeOK
    <3> QED  BY <3>1, <3>2, Undisturbed
  <2>2. RoleStep(s) /\ VoteKept(s)
    BY <1>0, <1>1 DEF StartElection, FreshVolatile, TypeOK, RoleStep, VoteKept
  <2>3. /\ msgs \subseteq msgs'
        /\ \A m \in msgs' \ msgs : m.src # m.dst /\ m.type = "RequestVoteRequest"
    BY <1>0, <1>1 DEF StartElection, CreateVote
  <2> QED  BY <2>1, <2>2, <2>3, NoVoteSent
<1>2. CASE WinElection(s)
  <2>1. \A p \in Server \ {s} : RoleStep(p) /\ VoteKept(p)
    <3>1. \A p \in Server \ {s} :
             /\ currentTerm'[p] = currentTerm[p] /\ votedFor'[p] = votedFor[p]
             /\ stateName'[p] = stateName[p]
      BY <1>2 DEF WinElection, TypeOK
    <3>2. \A p \in Server \ {s} : votes'[p] = votes[p]
      BY <1>2 DEF WinElection, FreshVolatile, TypeOK
    <3> QED  BY <3>1, <3>2, Undisturbed
  <2>2. Cardinality(Electors(s, currentTerm[s])) >= MinVotes(Nservers)
    <3> DEFINE V == votes[s]
               Q == GrantedTo(s, currentTerm[s])
    <3>1. V \subseteq Q
      BY <1>2 DEF WinElection, ElectionInv, VotesWereGranted
    <3>2. Q \subseteq Server /\ s \notin Q
      BY GrantedToType DEF ElectionInv
    <3>3. IsFiniteSet(Q) /\ IsFiniteSet(V)
      BY <3>1, <3>2, ServerAssumption, FS_Subset
    <3>4. /\ Cardinality(V) <= Cardinality(Q)
          /\ Cardinality(V) \in Nat /\ Cardinality(Q) \in Nat
      BY <3>1, <3>3, FS_Subset, FS_CardinalityType
    <3> HIDE DEF Q
    <3>5. Cardinality(Q \cup {s}) = Cardinality(Q) + 1
      BY <3>2, <3>3, FS_AddElement
    <3>6. Cardinality(V) + 1 >= MinVotes(Nservers) /\ MinVotes(Nservers) \in Nat
      BY <1>2, NserversType, MinVotesMajority DEF WinElection
    <3> HIDE DEF V
    <3>7. Cardinality(Q \cup {s}) >= MinVotes(Nservers)
      BY <3>4, <3>5, <3>6
    <3> QED  BY <3>7 DEF Q, Electors
  <2>3. votedFor[s] = s
    BY <1>2 DEF WinElection, ElectionInv, VotedForItself
  <2>4. RoleStep(s) /\ VoteKept(s)
    BY <1>0, <1>2, <2>2, <2>3 DEF WinElection, FreshVolatile, TypeOK, RoleStep, VoteKept
  <2>5. /\ msgs \subseteq msgs'
        /\ \A m \in msgs' \ msgs : m.src # m.dst /\ m.type = "AppendEntriesRequest"
    BY <1>0, <1>2 DEF WinElection, CreateAppendEntries
  <2> QED  BY <2>1, <2>4, <2>5, NoVoteSent
<1>3. CASE SoloElection(s)
  <2>1. \A p \in Server \ {s} : RoleStep(p) /\ VoteKept(p)
    <3>1. \A p \in Server \ {s} :
             /\ currentTerm'[p] = currentTerm[p] /\ votedFor'[p] = votedFor[p]
             /\ stateName'[p] = stateName[p]
      BY <1>3 DEF SoloElection, TypeOK
    <3>2. \A p \in Server \ {s} : votes'[p] = votes[p]
      BY <1>3 DEF SoloElection, FreshVolatile, TypeOK
    <3> QED  BY <3>1, <3>2, Undisturbed
  <2>2. Cardinality(Electors(s, currentTerm'[s])) >= MinVotes(Nservers)
    <3> DEFINE Q == Electors(s, currentTerm'[s])
    <3>1. Q \subseteq Server /\ s \in Q
      BY GrantedToType DEF Electors, ElectionInv
    <3>2. IsFiniteSet(Q) /\ Cardinality(Q) \in Nat
      BY <3>1, ServerAssumption, FS_Subset, FS_CardinalityType
    <3>3. Cardinality(Q) # 0
      BY <3>1, <3>2, FS_EmptySet
    <3>4. MinVotes(Nservers) = 1
      BY <1>3 DEF SoloElection
    <3> HIDE DEF Q
    <3>5. Cardinality(Q) >= MinVotes(Nservers)
      BY <3>2, <3>3, <3>4
    <3> QED  BY <3>5 DEF Q
  <2>3. RoleStep(s) /\ VoteKept(s)
    BY <1>0, <1>3, <2>2 DEF SoloElection, FreshVolatile, TypeOK, RoleStep, VoteKept
  <2> QED  BY <1>3, <2>1, <2>3, NoVoteSent DEF SoloElection
<1>4. CASE SoloCommit(s)
  <2>1. \A p \in Server : RoleStep(p) /\ VoteKept(p)
    BY <1>4, Undisturbed DEF SoloCommit, durable
  <2> QED  BY <1>4, <2>1, NoVoteSent DEF SoloCommit
<1>5. ASSUME NEW due \in SUBSET Peers(s), LeaderTimeout(s, due) PROVE ElectionInv'
  <2>1. \A p \in Server : RoleStep(p) /\ VoteKept(p)
    BY <1>5, Undisturbed DEF LeaderTimeout, durable
  <2>2. /\ msgs \subseteq msgs'
        /\ \A m \in msgs' \ msgs : m.src # m.dst /\ m.type = "AppendEntriesRequest"
    BY <1>0, <1>5 DEF LeaderTimeout, CreateAppendEntries
  <2> QED  BY <2>1, <2>2, NoVoteSent
<1> QED  BY <1>1, <1>2, <1>3, <1>4, <1>5 DEF Timeout

\* A restarted server follows, with the vote it cast still on disk.
LEMMA CrashKeeps ==
    ASSUME TypeOK, TypeOK', ElectionInv, NEW s \in Server, Crash(s)
    PROVE  ElectionInv'
<1>1. /\ msgs' = msgs
      /\ stateName' = [stateName EXCEPT ![s] = "FOLLOWER"]
      /\ \A p \in Server \ {s} : votes'[p] = votes[p]
  <2>1. Restarted(s)
    BY DEF Crash, Restart, CrashInTermCheck, CrashInAppend
  <2> QED  BY <2>1 DEF Restarted, FreshVolatile, TypeOK
<1>2. /\ VoteKept(s)
      /\ \A p \in Server \ {s} : currentTerm'[p] = currentTerm[p] /\ votedFor'[p] = votedFor[p]
  <2>0. currentTerm[s] \in Nat /\ \A m \in msgs : m.term \in Nat
    BY MessageFields DEF TypeOK
  <2>1. CASE Restart(s)
    BY <2>0, <2>1 DEF Restart, durable, VoteKept
  <2>2. ASSUME NEW m \in msgs, CrashInTermCheck(s, m)
        PROVE  <1>2!1 /\ <1>2!2
    BY <2>0, <2>2 DEF CrashInTermCheck, VoteKept, TypeOK
  <2>3. ASSUME NEW m \in msgs, CrashInAppend(s, m)
        PROVE  <1>2!1 /\ <1>2!2
    <3>1. m.term \in Nat /\ m.term >= currentTerm[s]
      BY <2>0, <2>3 DEF CrashInAppend
    <3>2. /\ currentTerm' = [currentTerm EXCEPT ![s] = m.term]
          /\ votedFor' = [votedFor EXCEPT ![s] = NewVote(s, m)]
      BY <2>3 DEF CrashInAppend
    <3>3. currentTerm'[s] = m.term /\ votedFor'[s] = NewVote(s, m)
      BY <3>2 DEF TypeOK
    <3>4. VoteKept(s)
      BY <2>0, <3>1, <3>3 DEF NewVote, VoteKept
    <3> QED  BY <3>2, <3>4 DEF TypeOK
  <2> QED  BY <2>1, <2>2, <2>3 DEF Crash
<1>3. \A p \in Server \ {s} : RoleStep(p) /\ VoteKept(p)
  BY <1>1, <1>2, Undisturbed DEF TypeOK
<1>4. RoleStep(s)
  BY <1>1 DEF RoleStep, TypeOK
<1> QED  BY <1>1, <1>2, <1>3, <1>4, NoVoteSent

\* The one step that sends a vote: it goes to whom the voter is pledged to for
\* the term, and nobody else had the voter's vote for it.
LEMMA OnVoteRequestKeeps ==
    ASSUME TypeOK, TypeOK', ElectionInv, NEW m \in msgs, OnVoteRequest(m.dst, m)
    PROVE  ElectionInv'
<1> DEFINE s == m.dst
           grant == m.term >= currentTerm[s] /\ MayVote(s, m)
           r == [type |-> "RequestVoteResponse", src |-> s, dst |-> m.src,
                 term |-> NewTerm(s, m), granted |-> grant]
<1>0. /\ m.src \in Server /\ s \in Server /\ m.term \in Nat /\ currentTerm[s] \in Nat
      /\ m.src # s /\ m.src # Nil
  <2>1. m \in Message
    BY DEF TypeOK
  <2>2. m.src \in Server /\ s \in Server /\ m.term \in Nat
    BY <2>1, MessageFields
  <2>3. currentTerm[s] \in Nat
    BY <2>2 DEF TypeOK
  <2> QED  BY <2>2, <2>3, ServerAssumption DEF ElectionInv, NoneToItself
<1>1. /\ currentTerm' = [currentTerm EXCEPT ![s] = NewTerm(s, m)]
      /\ stateName' = [stateName EXCEPT ![s] = NewName(s, m)]
      /\ votedFor' = [votedFor EXCEPT ![s] = IF grant THEN m.src ELSE NewVote(s, m)]
      /\ msgs' = msgs \cup {r}
      /\ votes' = votes
  BY DEF OnVoteRequest, TermCheck, Reply
<1>2. /\ currentTerm'[s] = NewTerm(s, m) /\ stateName'[s] = NewName(s, m)
      /\ votedFor'[s] = IF grant THEN m.src ELSE NewVote(s, m)
      /\ votes'[s] = votes[s]
      /\ \A p \in Server \ {s} :
            /\ currentTerm'[p] = currentTerm[p] /\ stateName'[p] = stateName[p]
            /\ votedFor'[p] = votedFor[p] /\ votes'[p] = votes[p]
  <2>1. DOMAIN currentTerm = Server /\ DOMAIN stateName = Server /\ DOMAIN votedFor = Server
    BY DEF TypeOK
  <2> HIDE DEF grant, r
  <2> QED  BY <1>0, <1>1, <2>1
<1>3. /\ r.src = s /\ r.dst = m.src /\ r.term = NewTerm(s, m) /\ r.granted = grant
      /\ r.type = "RequestVoteResponse"
  OBVIOUS
<1>4. grant => NewVote(s, m) \in {Nil, m.src}
  BY DEF MayVote
<1> HIDE DEF s, grant, r
<1>5. Granted' = Granted \cup (IF grant THEN {r} ELSE {})
  BY <1>1, <1>3 DEF Granted
<1>6. \A p \in Server \ {s} : RoleStep(p) /\ VoteKept(p)
  BY <1>2, Undisturbed
<1>7. NoneToItself'
  BY <1>0, <1>1, <1>3 DEF ElectionInv, NoneToItself
<1>8. ASSUME NEW n \in Granted, n.src = s
      PROVE  /\ n.term <= NewTerm(s, m)
             /\ n.term = NewTerm(s, m) => NewVote(s, m) = n.dst /\ n.dst # Nil
  <2>1. n.term \in Nat /\ n.dst \in Server
    BY MessageFields DEF Granted, TypeOK
  <2>2. n.term <= currentTerm[s] /\ (n.term = currentTerm[s] => votedFor[s] = n.dst)
    BY <1>8 DEF ElectionInv, VotesRemembered
  <2> QED  BY <1>0, <2>1, <2>2, ServerAssumption DEF NewTerm, NewVote, MaxOf
<1>9. VotesRemembered'
  <2> SUFFICES ASSUME NEW n \in Granted'
               PROVE  /\ n.term <= currentTerm'[n.src]
                      /\ n.term = currentTerm'[n.src] => votedFor'[n.src] = n.dst
    BY DEF VotesRemembered
  <2>1. CASE n = r /\ grant
    <3>1. NewTerm(s, m) \in Nat
      BY <1>0 DEF NewTerm, MaxOf
    <3> QED  BY <2>1, <3>1, <1>2, <1>3
  <2>2. CASE n \in Granted /\ n.src = s
    BY <2>2, <1>2, <1>4, <1>8
  <2>3. CASE n \in Granted /\ n.src # s
    <3>1. n.src \in Server
      BY <2>3, MessageFields DEF Granted, TypeOK
    <3> QED  BY <2>3, <3>1, <1>2 DEF ElectionInv, VotesRemembered
  <2> QED  BY <1>5, <2>1, <2>2, <2>3
<1>10. OneVotePerTerm'
  <2>1. \A n \in Granted : grant /\ n.src = r.src /\ n.term = r.term => n.dst = r.dst
    BY <1>3, <1>4, <1>8
  <2> QED  BY <1>5, <2>1 DEF ElectionInv, OneVotePerTerm
<1>11. RoleStep(s)
  <2>1. CASE m.term > currentTerm[s]
    BY <2>1, <1>2 DEF RoleStep, NewName
  <2>2. CASE ~(m.term > currentTerm[s])
    <3>1. currentTerm'[s] = currentTerm[s] /\ stateName'[s] = stateName[s]
      BY <2>2, <1>0, <1>2 DEF NewTerm, NewName, MaxOf
    <3>2. NewVote(s, m) = votedFor[s]
      BY <2>2 DEF NewVote
    <3>3. stateName[s] \in {"CANDIDATE", "LEADER"} => ~grant
      BY <1>0, <1>4, <3>2, ServerAssumption DEF ElectionInv, VotedForItself
    <3>4. stateName[s] \in {"FOLLOWER", "CANDIDATE", "LEADER"}
      BY <1>0 DEF TypeOK
    <3> QED
      BY <1>0, <1>2, <3>1, <3>2, <3>3, <3>4
         DEF RoleStep, ElectionInv, VotedForItself, VotesWereGranted, LeadersWereElected
  <2> QED  BY <2>1, <2>2
<1>12. (VotedForItself /\ VotesWereGranted /\ LeadersWereElected)'
  <2>1. msgs \subseteq msgs' /\ \A p \in Server : RoleStep(p)
    BY <1>1, <1>6, <1>11
  <2> QED  BY <2>1, <1>7, RolesKept
<1> QED  BY <1>7, <1>9, <1>10, <1>12 DEF ElectionInv

\* The other messages: no vote is sent, and the receiver keeps its promises.
LEMMA ProcessKeeps ==
    ASSUME TypeOK, TypeOK', ElectionInv, NEW m \in msgs, Process(m.dst, m)
    PROVE  ElectionInv'
<1> DEFINE s == m.dst
<1>0. /\ m.src \in Server /\ s \in Server /\ m.term \in Nat /\ currentTerm[s] \in Nat
      /\ m.src # s
  BY MessageFields DEF TypeOK, ElectionInv, NoneToItself
<1>1. CASE OnVoteRequest(s, m)
  BY <1>1, OnVoteRequestKeeps
<1> HIDE DEF s
<1>2. CASE StepDown(s, m)
  <2>1. /\ currentTerm'[s] = m.term /\ stateName'[s] = "FOLLOWER"
        /\ \A p \in Server \ {s} :
              /\ currentTerm'[p] = currentTerm[p] /\ stateName'[p] = stateName[p]
              /\ votedFor'[p] = votedFor[p] /\ votes'[p] = votes[p]
    BY <1>0, <1>2 DEF StepDown, TermCheck, NewTerm, NewName, MaxOf, TypeOK
  <2>2. RoleStep(s) /\ VoteKept(s)
    BY <1>0, <1>2, <2>1 DEF StepDown, RoleStep, VoteKept
  <2>3. msgs' = msgs
    BY <1>2 DEF StepDown
  <2> QED  BY <2>1, <2>2, <2>3, Undisturbed, NoVoteSent
<1>3. CASE OnVoteResponse(s, m)
  <2>1. /\ currentTerm' = currentTerm /\ votedFor' = votedFor /\ stateName' = stateName
        /\ msgs' = msgs
        /\ votes'[s] = votes[s] \cup {m.src}
        /\ \A p \in Server \ {s} : votes'[p] = votes[p]
    BY <1>0, <1>3 DEF OnVoteResponse, durable, TypeOK
  <2>2. m.src \in GrantedTo(s, currentTerm[s])
    BY <1>3 DEF OnVoteResponse, GrantedTo, Granted
  <2>3. RoleStep(s) /\ VoteKept(s)
    BY <1>0, <1>3, <2>1, <2>2
       DEF OnVoteResponse, RoleStep, VoteKept, ElectionInv, VotedForItself, VotesWereGranted
  <2> QED  BY <2>1, <2>3, Undisturbed, NoVoteSent
<1>4. CASE RefuseAppend(s, m)
  <2>1. /\ msgs \subseteq msgs'
        /\ \A n \in msgs' \ msgs : n.src # n.dst /\ n.type = "AppendEntriesResponse"
    BY <1>0, <1>4 DEF RefuseAppend, Reply
  <2>2. \A p \in Server : RoleStep(p) /\ VoteKept(p)
    BY <1>4, Undisturbed DEF RefuseAppend, durable
  <2> QED  BY <2>1, <2>2, NoVoteSent
<1>5. CASE AcceptAppend(s, m)
  <2>1. /\ msgs \subseteq msgs'
        /\ \A n \in msgs' \ msgs : n.src # n.dst /\ n.type = "AppendEntriesResponse"
    BY <1>0, <1>5 DEF AcceptAppend, Reply
  <2>2. /\ currentTerm'[s] = m.term /\ stateName'[s] = "FOLLOWER"
        /\ votedFor'[s] = NewVote(s, m) /\ m.term >= currentTerm[s]
        /\ \A p \in Server \ {s} :
              /\ currentTerm'[p] = currentTerm[p] /\ stateName'[p] = stateName[p]
              /\ votedFor'[p] = votedFor[p] /\ votes'[p] = votes[p]
    BY <1>0, <1>5 DEF AcceptAppend, TypeOK
  <2>3. RoleStep(s) /\ VoteKept(s)
    BY <1>0, <2>2 DEF RoleStep, VoteKept, NewVote
  <2> QED  BY <2>1, <2>2, <2>3, Undisturbed, NoVoteSent
<1>6. CASE OnAppendSuccess(s, m)
  <2>1. msgs' = msgs /\ \A p \in Server : RoleStep(p) /\ VoteKept(p)
    BY <1>6, Undisturbed DEF OnAppendSuccess, durable
  <2> QED  BY <2>1, NoVoteSent
<1>7. CASE OnAppendFailure(s, m)
  <2>1. msgs' = msgs /\ \A p \in Server : RoleStep(p) /\ VoteKept(p)
    BY <1>7, Undisturbed DEF OnAppendFailure, durable
  <2> QED  BY <2>1, NoVoteSent
<1> QED  BY <1>1, <1>2, <1>3, <1>4, <1>5, <1>6, <1>7 DEF Process, s

\* Before any election nobody has a vote, a role or a message.
LEMMA InitElectionInv == Init => ElectionInv
BY DEF Init, Started, ElectionInv, NoneToItself, VotesRemembered, OneVotePerTerm,
       VotedForItself, VotesWereGranted, LeadersWereElected, Granted

\* The invariant rules out a second leader: the voter both quorums share
\* voted once.
LEMMA ElectionInvSafe == TypeOK /\ ElectionInv => ElectionSafety
<1> SUFFICES ASSUME TypeOK, ElectionInv, NEW s \in Server, NEW t \in Server,
                    stateName[s] = "LEADER", stateName[t] = "LEADER",
                    currentTerm[s] = currentTerm[t], s # t
             PROVE  FALSE
  BY DEF ElectionSafety
<1> DEFINE T == currentTerm[s]
           P == Electors(s, T)
           Q == Electors(t, T)
<1>1. Cardinality(P) >= MinVotes(Nservers) /\ Cardinality(Q) >= MinVotes(Nservers)
  BY DEF ElectionInv, LeadersWereElected
<1>2. P \subseteq Server /\ Q \subseteq Server
  BY GrantedToType DEF Electors, ElectionInv
<1>3. PICK p \in P \cap Q : TRUE
  BY <1>1, <1>2, VotersIntersect
<1>4. p = s \/ p \in GrantedTo(s, T)
  BY <1>3 DEF Electors
<1>5. p = t \/ p \in GrantedTo(t, T)
  BY <1>3 DEF Electors
<1>6. votedFor[s] = s /\ votedFor[t] = t
  BY DEF ElectionInv, VotedForItself
<1>7. \A q \in Server : s \in GrantedTo(q, T) => votedFor[s] = q
  BY DEF GrantedTo, ElectionInv, VotesRemembered
<1>8. \A q \in Server : t \in GrantedTo(q, T) => votedFor[t] = q
  BY DEF GrantedTo, ElectionInv, VotesRemembered
<1>9. p \in GrantedTo(s, T) /\ p \in GrantedTo(t, T) => s = t
  BY DEF GrantedTo, ElectionInv, OneVotePerTerm
<1> QED  BY <1>4, <1>5, <1>6, <1>7, <1>8, <1>9

\* Every step of every server, crashes included, keeps the election invariant.
THEOREM VotesAreHonoured == Spec => []ElectionInv
<1>1. Init => ElectionInv
  BY InitElectionInv
<1>2. TypeOK /\ TypeOK' /\ ElectionInv /\ [Next]_vars => ElectionInv'
  <2> SUFFICES ASSUME TypeOK, TypeOK', ElectionInv, [Next]_vars PROVE ElectionInv'
    OBVIOUS
  <2>1. ASSUME NEW s \in Server, Timeout(s) PROVE ElectionInv'
    BY <2>1, TimeoutKeeps
  <2>2. ASSUME NEW s \in Server, NEW v \in Value, AppendValue(s, v) PROVE ElectionInv'
    <3>1. msgs' = msgs /\ \A p \in Server : RoleStep(p) /\ VoteKept(p)
      BY <2>2, Undisturbed DEF AppendValue
    <3> QED  BY <3>1, NoVoteSent
  <2>3. ASSUME NEW m \in msgs, Process(m.dst, m) PROVE ElectionInv'
    BY <2>3, ProcessKeeps
  <2>4. ASSUME NEW s \in Server, Crash(s) PROVE ElectionInv'
    BY <2>4, CrashKeeps
  <2>5. CASE UNCHANGED vars
    <3>1. msgs' = msgs /\ \A p \in Server : RoleStep(p) /\ VoteKept(p)
      BY <2>5, Undisturbed DEF vars, durable
    <3> QED  BY <3>1, NoVoteSent
  <2> QED  BY <2>1, <2>2, <2>3, <2>4, <2>5 DEF Next, Step
<1> QED  BY <1>1, <1>2, TypeCorrectness, PTL DEF Spec

\* No two servers ever lead in the same term, for any number of servers, any
\* number of elections and crashes, and any order or loss of messages.
THEOREM AtMostOneLeader == Spec => []ElectionSafety
BY VotesAreHonoured, TypeCorrectness, ElectionInvSafe, PTL

-----------------------------------------------------------------------------
(* Logs that agree. *)

\* A log entry has a term, and the last term is the last entry's.
LEMMA EntryFields ==
    ASSUME NEW l \in Seq(Entry), NEW i \in 1..Len(l)
    PROVE  l[i] \in Entry /\ l[i].term \in Nat /\ LogTerm(l, i) = l[i].term
<1>1. l[i] \in Entry
  OBVIOUS
<1> QED  BY <1>1 DEF Entry, LogTerm

\* Agreement is symmetric and transitive.
LEMMA SameTrans ==
    ASSUME NEW l \in Seq(Entry), NEW m \in Seq(Entry), NEW n \in Seq(Entry),
           NEW i \in Nat, Same(l, m, i), Same(m, n, i)
    PROVE  Same(l, n, i) /\ Same(m, l, i)
BY DEF Same

\* Agreement up to an index is agreement up to any index before it.
LEMMA SameShorter ==
    ASSUME NEW l \in Seq(Entry), NEW m \in Seq(Entry),
           NEW i \in Nat, NEW j \in Nat, j <= i, Same(l, m, i)
    PROVE  Same(l, m, j)
BY DEF Same

\* Logs that agree have the same prefix.
LEMMA SamePrefix ==
    ASSUME NEW l \in Seq(Entry), NEW m \in Seq(Entry), NEW i \in Nat, Same(l, m, i)
    PROVE  Prefix(l, i) = Prefix(m, i)
<1>1. /\ Prefix(l, i) = SubSeq(l, 1, i) /\ Prefix(m, i) = SubSeq(m, 1, i)
      /\ i <= Len(l) /\ i <= Len(m)
  BY DEF Prefix, MinOf, Same
<1>2. /\ \A j \in 1..i : l[j] \in Entry
      /\ \A j \in 1..i : m[j] \in Entry
  BY <1>1
<1>3. /\ SubSeq(l, 1, i) \in Seq(Entry) /\ Len(SubSeq(l, 1, i)) = i
      /\ SubSeq(m, 1, i) \in Seq(Entry) /\ Len(SubSeq(m, 1, i)) = i
      /\ \A j \in 1..i : SubSeq(l, 1, i)[j] = l[j]
      /\ \A j \in 1..i : SubSeq(m, 1, i)[j] = m[j]
  BY <1>2, SubSeqProperties
<1>4. \A j \in 1..i : SubSeq(l, 1, i)[j] = SubSeq(m, 1, i)[j]
  BY <1>3 DEF Same
<1>5. SubSeq(l, 1, i) = SubSeq(m, 1, i)
  BY <1>3, <1>4, SeqEqual
<1> QED  BY <1>1, <1>5

\* What RemoveLast leaves agrees with what was there.
LEMMA PrefixSame ==
    ASSUME NEW l \in Seq(Entry), NEW n \in Nat
    PROVE  /\ Len(Prefix(l, n)) = MinOf(n, Len(l))
           /\ Same(Prefix(l, n), l, MinOf(n, Len(l)))
<1> DEFINE k == MinOf(n, Len(l))
<1>1. k \in Nat /\ k <= Len(l)
  BY DEF MinOf
<1> HIDE DEF k
<1>2. \A j \in 1..k : l[j] \in Entry
  BY <1>1
<1>3. /\ Len(SubSeq(l, 1, k)) = k
      /\ \A j \in 1..k : SubSeq(l, 1, k)[j] = l[j]
  BY <1>1, <1>2, SubSeqProperties
<1> QED  BY <1>1, <1>3 DEF Same, Prefix, k

\* A piece of a log holds the log's entries.
LEMMA SegmentEntries ==
    ASSUME NEW l \in Seq(Entry), NEW a \in Nat \ {0}, NEW b \in Nat,
           b <= Len(l), a <= b + 1
    PROVE  /\ Len(SubSeq(l, a, b)) = b + 1 - a
           /\ \A j \in 1..(b + 1 - a) : SubSeq(l, a, b)[j] = l[a + j - 1]
<1>1. \A j \in a..b : l[j] \in Entry
  OBVIOUS
<1> QED  BY <1>1, SubSeqProperties

-----------------------------------------------------------------------------
(* The ledger. *)

\* What the ledger holds.
LEMMA LedgerFields ==
    ASSUME NEW h \in Ledger
    PROVE  /\ DOMAIN h \subseteq Nat \ {0}
           /\ \A t \in DOMAIN h : h[t].leader \in Server /\ h[t].log \in Seq(Entry)
<1>1. PICK D \in SUBSET (Nat \ {0}) : h \in [D -> [leader : Server, log : Seq(Entry)]]
  BY DEF Ledger
<1>2. DOMAIN h = D /\ \A t \in D : h[t] \in [leader : Server, log : Seq(Entry)]
  BY <1>1
<1> QED  BY <1>2

\* Two logs written by the leaders of their terms agree up to any place where
\* their terms do.
LEMMA WrittenAgree ==
    ASSUME NEW h \in Ledger, NEW l \in Seq(Entry), NEW m \in Seq(Entry),
           Written(h, l), Written(h, m),
           NEW i \in 1..Len(l), i <= Len(m), l[i].term = m[i].term
    PROVE  Same(l, m, i)
<1>1. /\ l[i].term \in DOMAIN h
      /\ Same(l, h[l[i].term].log, i)
      /\ Same(m, h[l[i].term].log, i)
  BY DEF Written
<1> QED  BY <1>1 DEF Same

\* What agrees with a log the leaders wrote was written by them too.
LEMMA WrittenSame ==
    ASSUME NEW h \in Ledger, NEW l \in Seq(Entry), NEW m \in Seq(Entry),
           Written(h, m), Same(l, m, Len(l))
    PROVE  Written(h, l)
<1> SUFFICES ASSUME NEW i \in 1..Len(l)
             PROVE  l[i].term \in DOMAIN h /\ Same(l, h[l[i].term].log, i)
  BY DEF Written
<1>1. i \in 1..Len(m) /\ l[i] = m[i]
  BY DEF Same
<1>2. m[i].term \in DOMAIN h /\ Same(m, h[m[i].term].log, i)
  BY <1>1 DEF Written
<1>3. Same(l, m, i)
  BY DEF Same
<1> QED  BY <1>1, <1>2, <1>3 DEF Same

\* Terms do not decrease along a log the leaders wrote.
LEMMA WrittenOrdered ==
    ASSUME NEW h \in Ledger, PagesInv(h), NEW l \in Seq(Entry), Written(h, l)
    PROVE  Ordered(l)
<1> SUFFICES ASSUME NEW i \in 1..Len(l), NEW j \in 1..Len(l), i <= j
             PROVE  l[i].term <= l[j].term
  BY DEF Ordered
<1> DEFINE P == h[l[j].term].log
<1>1. l[j].term \in DOMAIN h /\ Same(l, P, j)
  BY DEF Written
<1>2. P \in Seq(Entry) /\ Ordered(P)
  BY <1>1, LedgerFields DEF PagesInv
<1> HIDE DEF P
<1>3. i \in 1..Len(P) /\ j \in 1..Len(P) /\ l[i] = P[i] /\ l[j] = P[j]
  BY <1>1, <1>2 DEF Same
<1> QED  BY <1>2, <1>3 DEF Ordered

\* So is every log that leaders wrote: each of its terms starts with its stub.
LEMMA WrittenStubs ==
    ASSUME NEW h \in Ledger, PagesInv(h), NEW l \in Seq(Entry), Written(h, l)
    PROVE  StubsFirst(l)
<1> SUFFICES ASSUME NEW i \in 1..Len(l)
             PROVE  StartsTerm(l, i) <=> l[i].value = Stub
  BY DEF StubsFirst
<1> DEFINE P == h[l[i].term].log
<1>1. l[i].term \in DOMAIN h /\ Same(l, P, i)
  BY DEF Written
<1>2. P \in Seq(Entry) /\ StubsFirst(P)
  BY <1>1, LedgerFields DEF PagesInv
<1> HIDE DEF P
<1>3. i \in 1..Len(P) /\ l[i] = P[i] /\ (i = 1 \/ l[i - 1] = P[i - 1])
  BY <1>1, <1>2 DEF Same
<1>4. StartsTerm(l, i) <=> StartsTerm(P, i)
  BY <1>3 DEF StartsTerm
<1> QED  BY <1>2, <1>3, <1>4 DEF StubsFirst

-----------------------------------------------------------------------------
(* The payload loop of OnAppendEntries. *)

\* The logs OnAppendEntries may leave behind, finished or not.
Outcomes(l, m) == {Merge(l, m)} \cup PartialMerges(l, m)

\* Entry c of m is the first that l conflicts with, and is replaced with all after it.
ReplacesFrom(l, m, c) ==
    /\ LogTerm(l, m.prevLogIndex + c) # m.entries[c].term
    /\ \A j \in 1..(c - 1) : LogTerm(l, m.prevLogIndex + j) = m.entries[j].term
    /\ m.prevLogIndex + c - 1 <= Len(l)
    /\ \A o \in Outcomes(l, m) :
         /\ Same(o, l, m.prevLogIndex + c - 1)
         /\ \/ Same(o, l, Len(o))
            \/ /\ Len(o) <= m.prevLogIndex + Len(m.entries)
               /\ \A i \in (m.prevLogIndex + c)..Len(o) :
                     o[i] = m.entries[i - m.prevLogIndex]
    /\ Len(Merge(l, m)) = m.prevLogIndex + Len(m.entries)
    /\ \A i \in (m.prevLogIndex + c)..Len(Merge(l, m)) :
          Merge(l, m)[i] = m.entries[i - m.prevLogIndex]

\* Entry i of a log that took m's entries from c on behind its first w.
LEMMA EntryTaken ==
    ASSUME NEW prev \in Nat, NEW c \in Nat \ {0}, NEW k \in Nat, NEW i \in Nat, NEW w \in Nat,
           w = prev + c - 1, prev + c <= i, i <= prev + k
    PROVE  /\ i \in 1..(w + (k + 1 - c)) /\ ~ (i <= w)
           /\ i - w \in 1..(k + 1 - c) /\ c + (i - w) - 1 = i - prev
OBVIOUS

\* Without a conflict nothing changes.  Otherwise the log keeps what comes
\* before the first conflict, then loses its tail, then takes the entries.
LEMMA OutcomeShape ==
    ASSUME NEW l \in Seq(Entry), NEW m, m.entries \in Seq(Entry), m.prevLogIndex \in Nat,
           m.prevLogIndex <= Len(l), \A j \in 1..Len(m.entries) : m.entries[j].term # 0,
           Conflicts(l, m) # {}
    PROVE  \E c \in 1..Len(m.entries) : ReplacesFrom(l, m, c)
<1> DEFINE c == FirstConflict(l, m)
           prev == m.prevLogIndex
           n == Len(m.entries)
           keep == m.prevLogIndex + c - 1
<1>1. c \in 1..n /\ LogTerm(l, prev + c) # m.entries[c].term
  BY FirstConflictType DEF Conflicts
<1>2. ASSUME NEW j \in 1..(c - 1) PROVE LogTerm(l, prev + j) = m.entries[j].term
  <2>1. j \in 1..n /\ ~ (c <= j)
    BY <1>1
  <2>2. j \notin Conflicts(l, m)
    BY <2>1, FirstConflictType
  <2> QED  BY <2>1, <2>2 DEF Conflicts
<1> HIDE DEF c
<1>3. keep \in Nat /\ keep <= Len(l)
  <2>1. CASE c = 1
    BY <2>1
  <2>2. CASE c # 1
    <3>1. c - 1 \in 1..n /\ c - 1 \in 1..(c - 1)
      BY <1>1, <2>2
    <3>2. LogTerm(l, prev + (c - 1)) # 0
      BY <1>2, <3>1
    <3>3. prev + (c - 1) \in 1..Len(l)
      BY <3>2 DEF LogTerm
    <3> QED  BY <1>1, <3>3
  <2> QED  BY <2>1, <2>2
<1>4. /\ Prefix(l, keep) \in Seq(Entry) /\ Len(Prefix(l, keep)) = keep
      /\ Same(Prefix(l, keep), l, keep)
  BY <1>3, PrefixType, PrefixSame DEF MinOf
<1>5. ASSUME NEW k \in c..n
      PROVE  LET o == Prefix(l, keep) \o SubSeq(m.entries, c, k)
             IN  /\ Len(o) = prev + k
                 /\ Same(o, l, keep)
                 /\ \A i \in (prev + c)..Len(o) : o[i] = m.entries[i - prev]
  <2> DEFINE p == Prefix(l, keep)
             e == SubSeq(m.entries, c, k)
             o == p \o e
  <2>0. /\ k \in Nat /\ n \in Nat /\ c <= k /\ k <= n /\ c \in Nat \ {0} /\ prev \in Nat
        /\ keep \in Nat /\ keep = prev + c - 1 /\ keep <= Len(l)
    BY <1>1, <1>3, <1>5
  <2>1. /\ e \in Seq(Entry) /\ Len(e) = k + 1 - c
        /\ \A j \in 1..(k + 1 - c) : e[j] = m.entries[c + j - 1]
    BY <2>0, SegmentType, SegmentEntries
  <2>2. p \in Seq(Entry) /\ Len(p) = keep /\ Same(p, l, keep)
    BY <1>4
  <2> HIDE DEF e, p, prev, n, keep
  <2>3. /\ o \in Seq(Entry) /\ Len(o) = Len(p) + Len(e)
        /\ \A i \in 1..(Len(p) + Len(e)) : o[i] = IF i <= Len(p) THEN p[i] ELSE e[i - Len(p)]
    BY <2>1, <2>2, ConcatProperties
  <2> HIDE DEF o
  <2>4. Len(o) = prev + k
    BY <2>0, <2>1, <2>2, <2>3
  <2>5. Same(o, l, keep)
    <3>1. ASSUME NEW i \in 1..keep PROVE o[i] = l[i]
      <4>1. i \in 1..(Len(p) + Len(e)) /\ i <= Len(p)
        BY <2>0, <2>1, <2>2
      <4>2. o[i] = p[i] /\ p[i] = l[i]
        BY <2>2, <2>3, <3>1, <4>1 DEF Same
      <4> QED  BY <4>2
    <3>2. keep <= Len(o)
      BY <2>0, <2>4
    <3> QED  BY <2>0, <3>1, <3>2 DEF Same
  <2>6. ASSUME NEW i \in (prev + c)..Len(o) PROVE o[i] = m.entries[i - prev]
    <3>0. i \in Nat /\ prev + c <= i /\ i <= prev + k
      BY <2>0, <2>4, <2>6
    <3>a. Len(p) \in Nat /\ Len(p) = prev + c - 1 /\ Len(e) = k + 1 - c
      BY <2>0, <2>1, <2>2
    <3>b. PICK w \in Nat : w = Len(p) /\ w = prev + c - 1
      BY <3>a
    <3>c. /\ i \in 1..(w + (k + 1 - c)) /\ ~ (i <= w)
          /\ i - w \in 1..(k + 1 - c) /\ c + (i - w) - 1 = i - prev
      BY <2>0, <3>0, <3>b, EntryTaken
    <3>1. i \in 1..(Len(p) + Len(e)) /\ ~ (i <= Len(p)) /\ i - Len(p) \in 1..(k + 1 - c)
      BY <3>a, <3>b, <3>c
    <3>2. o[i] = e[i - Len(p)]
      BY <2>3, <3>1
    <3>3. e[i - Len(p)] = m.entries[c + (i - Len(p)) - 1]
      BY <2>1, <3>1
    <3>4. c + (i - Len(p)) - 1 = i - prev
      BY <3>b, <3>c
    <3> QED  BY <3>2, <3>3, <3>4
  <2> QED  BY <2>4, <2>5, <2>6 DEF o, p, e, prev, n, keep
<1>6. ASSUME NEW j \in keep..Len(l)
      PROVE  Same(Prefix(l, j), l, keep) /\ Same(Prefix(l, j), l, Len(Prefix(l, j)))
  <2>1. j \in Nat /\ Len(Prefix(l, j)) = j /\ Same(Prefix(l, j), l, j)
    BY <1>3, PrefixSame DEF MinOf
  <2> QED  BY <1>3, <2>1 DEF Same
<1>7. Merge(l, m) = Prefix(l, keep) \o SubSeq(m.entries, c, n)
  BY DEF Merge, c
<1>8. PartialMerges(l, m) = {Prefix(l, j) : j \in keep..Len(l)}
         \cup {Prefix(l, keep) \o SubSeq(m.entries, c, k) : k \in c..n}
  BY DEF PartialMerges, c
<1> HIDE DEF keep, prev, n
<1>9. ASSUME NEW o \in Outcomes(l, m)
      PROVE  /\ Same(o, l, keep)
             /\ \/ Same(o, l, Len(o))
                \/ /\ Len(o) <= prev + n
                   /\ \A i \in (prev + c)..Len(o) : o[i] = m.entries[i - prev]
  <2>1. CASE o \in {Prefix(l, j) : j \in keep..Len(l)}
    BY <1>6, <2>1
  <2>2. CASE \E k \in c..n : o = Prefix(l, keep) \o SubSeq(m.entries, c, k)
    <3>1. PICK k \in c..n : o = Prefix(l, keep) \o SubSeq(m.entries, c, k)
      BY <2>2
    <3>2. prev + k <= prev + n
      BY <1>1 DEF prev, n
    <3> QED  BY <1>5, <3>1, <3>2
  <2>3. n \in c..n
    BY <1>1 DEF n
  <2> QED  BY <2>1, <2>2, <2>3, <1>7, <1>8 DEF Outcomes
<1>10. /\ Len(Merge(l, m)) = prev + n
       /\ \A i \in (prev + c)..Len(Merge(l, m)) : Merge(l, m)[i] = m.entries[i - prev]
  <2>1. n \in c..n
    BY <1>1 DEF n
  <2> QED  BY <1>5, <1>7, <2>1
<1> QED  BY <1>1, <1>2, <1>3, <1>9, <1>10 DEF ReplacesFrom, keep, prev, n

\* The log of the request's leader explains every outcome: what was there
\* stays as far as it agrees with that log, and nothing else comes in.
LEMMA OutcomeFollows ==
    ASSUME NEW h \in Ledger, NEW l \in Seq(Entry), NEW L \in Seq(Entry),
           Written(h, l), Written(h, L),
           NEW m, m.entries \in Seq(Entry), m.prevLogIndex \in Nat,
           m.prevLogIndex + Len(m.entries) <= Len(L),
           m.prevLogTerm = LogTerm(L, m.prevLogIndex),
           \A j \in 1..Len(m.entries) : m.entries[j] = L[m.prevLogIndex + j],
           Matches(l, m)
    PROVE  /\ Same(Merge(l, m), L, m.prevLogIndex + Len(m.entries))
           /\ \A o \in Outcomes(l, m) :
                /\ o \in Seq(Entry)
                /\ Same(o, l, Len(o)) \/ Same(o, L, Len(o))
                /\ \A i \in Nat : Same(L, l, i) => Same(L, o, i)
<1> DEFINE prev == m.prevLogIndex
           n == Len(m.entries)
<1>1. ASSUME NEW i \in 1..Len(L) PROVE L[i].term \in Nat \ {0}
  BY LedgerFields DEF Written
<1>2. ASSUME NEW j \in 1..n PROVE /\ prev + j \in 1..Len(L)
                                  /\ m.entries[j].term = L[prev + j].term
                                  /\ m.entries[j].term # 0
  <2>1. prev + j \in 1..Len(L)
    BY <1>2
  <2> QED  BY <1>1, <1>2, <2>1
<1>3. prev \in Nat /\ n \in Nat /\ prev <= Len(l) /\ prev <= Len(L) /\ prev + n <= Len(L)
  BY DEF Matches
<1>4. ASSUME NEW k \in 0..n, \A j \in 1..k : LogTerm(l, prev + j) = m.entries[j].term
      PROVE  Same(l, L, prev + k)
  <2>1. CASE k = 0 /\ prev = 0
    BY <2>1, <1>3 DEF Same
  <2>2. CASE k = 0 /\ prev # 0
    <3>1. prev \in 1..Len(l) /\ prev \in 1..Len(L)
      BY <1>3, <2>2
    <3>2. l[prev].term = L[prev].term
      BY <2>2, <3>1, EntryFields DEF Matches
    <3> QED  BY <2>2, <3>1, <3>2, WrittenAgree
  <2>3. CASE k # 0
    <3>1. k \in 1..n /\ k \in 1..k
      BY <1>4, <2>3
    <3>2. LogTerm(l, prev + k) = L[prev + k].term /\ LogTerm(l, prev + k) # 0
      BY <1>2, <1>4, <3>1
    <3>3. prev + k \in 1..Len(l)
      BY <3>2 DEF LogTerm
    <3>4. l[prev + k].term = L[prev + k].term /\ prev + k <= Len(L)
      BY <1>2, <3>1, <3>2, <3>3 DEF LogTerm
    <3> QED  BY <3>3, <3>4, WrittenAgree
  <2> QED  BY <2>1, <2>2, <2>3
<1> HIDE DEF prev, n
<1>5. CASE Conflicts(l, m) = {}
  <2>1. \A j \in 1..n : LogTerm(l, prev + j) = m.entries[j].term
    BY <1>5 DEF Conflicts, prev, n
  <2>2. Same(l, L, prev + n)
    <3>1. n \in 0..n
      BY <1>3
    <3> QED  BY <1>4, <2>1, <3>1
  <2>3. Merge(l, m) = l /\ Outcomes(l, m) = {l}
    BY <1>5 DEF Merge, PartialMerges, Outcomes
  <2>4. Same(l, l, Len(l))
    BY DEF Same
  <2> QED  BY <2>2, <2>3, <2>4 DEF prev, n
<1>6. CASE Conflicts(l, m) # {}
  <2>a. \A j \in 1..Len(m.entries) : m.entries[j].term # 0
    BY <1>2 DEF n
  <2>b. PICK c \in 1..n : ReplacesFrom(l, m, c)
    BY <1>3, <1>6, <2>a, OutcomeShape DEF prev, n
  <2>1. /\ LogTerm(l, prev + c) # m.entries[c].term
        /\ \A j \in 1..(c - 1) : LogTerm(l, prev + j) = m.entries[j].term
        /\ prev + c - 1 <= Len(l)
        /\ \A o \in Outcomes(l, m) :
             /\ Same(o, l, prev + c - 1)
             /\ \/ Same(o, l, Len(o))
                \/ /\ Len(o) <= prev + n
                   /\ \A i \in (prev + c)..Len(o) : o[i] = m.entries[i - prev]
        /\ Len(Merge(l, m)) = prev + n
        /\ \A i \in (prev + c)..Len(Merge(l, m)) : Merge(l, m)[i] = m.entries[i - prev]
    BY <2>b DEF ReplacesFrom, prev, n
  <2>2. Same(l, L, prev + c - 1)
    <3>1. c - 1 \in 0..n /\ prev + (c - 1) = prev + c - 1
      BY <1>3
    <3> QED  BY <1>4, <2>1, <3>1
  <2>3. ASSUME NEW i \in Nat, Same(L, l, i) PROVE i <= prev + c - 1
    <3>1. SUFFICES ASSUME prev + c <= i PROVE FALSE
      BY <1>3
    <3>2. prev + c \in 1..Len(l) /\ l[prev + c] = L[prev + c]
      BY <1>3, <2>3, <3>1 DEF Same
    <3> QED  BY <1>2, <2>1, <3>2 DEF LogTerm
  <2>4. ASSUME NEW o \in Outcomes(l, m)
        PROVE  o \in Seq(Entry) /\ \A i \in Nat : Same(L, l, i) => Same(L, o, i)
    <3>1. o \in Seq(Entry)
      BY MergeType DEF Outcomes
    <3>2. Same(o, l, prev + c - 1)
      BY <2>1
    <3>3. ASSUME NEW i \in Nat, Same(L, l, i) PROVE Same(L, o, i)
      <4>1. i <= prev + c - 1
        BY <2>3, <3>3
      <4> QED  BY <1>3, <3>1, <3>2, <3>3, <4>1 DEF Same
    <3> QED  BY <3>1, <3>3
  <2>5. ASSUME NEW o \in Outcomes(l, m), Len(o) <= prev + n,
               \A i \in (prev + c)..Len(o) : o[i] = m.entries[i - prev]
        PROVE  Same(o, L, Len(o))
    <3>1. o \in Seq(Entry) /\ Len(o) <= Len(L)
      BY <1>3, <2>4, <2>5
    <3>2. ASSUME NEW i \in 1..Len(o) PROVE o[i] = L[i]
      <4>1. CASE i <= prev + c - 1
        <5>1. i \in 1..(prev + c - 1)
          BY <1>3, <3>1, <3>2, <4>1
        <5>2. o[i] = l[i]
          BY <2>1, <5>1 DEF Same
        <5>3. l[i] = L[i]
          BY <2>2, <5>1 DEF Same
        <5> QED  BY <5>2, <5>3
      <4>2. CASE ~ (i <= prev + c - 1)
        <5>1. i \in (prev + c)..Len(o) /\ i - prev \in 1..n /\ prev + (i - prev) = i
          <6>1. i \in Nat /\ i <= Len(o) /\ prev + c <= i /\ i <= prev + n
            BY <1>3, <2>5, <3>1, <3>2, <4>2
          <6> QED  BY <1>3, <3>1, <6>1
        <5>2. o[i] = m.entries[i - prev]
          BY <2>5, <5>1
        <5>3. m.entries[i - prev] = L[prev + (i - prev)]
          BY <5>1 DEF prev, n
        <5> QED  BY <5>1, <5>2, <5>3
      <4> QED  BY <4>1, <4>2
    <3> QED  BY <3>1, <3>2 DEF Same
  <2>6. \A o \in Outcomes(l, m) : Same(o, l, Len(o)) \/ Same(o, L, Len(o))
    BY <2>1, <2>5
  <2>7. Same(Merge(l, m), L, prev + n)
    <3>1. Merge(l, m) \in Outcomes(l, m) /\ Len(Merge(l, m)) <= prev + n
      BY <1>3, <2>1 DEF Outcomes
    <3>2. Same(Merge(l, m), L, Len(Merge(l, m)))
      BY <2>1, <2>5, <3>1
    <3> QED  BY <2>1, <3>2
  <2> QED  BY <2>4, <2>6, <2>7 DEF prev, n
<1> QED  BY <1>5, <1>6

-----------------------------------------------------------------------------
(* The ledger grows. *)

\* Nothing in ledger h is changed in k, only added to.
Grows(h, k) ==
    /\ DOMAIN h \subseteq DOMAIN k
    /\ \A t \in DOMAIN h : /\ k[t].leader = h[t].leader
                           /\ Same(h[t].log, k[t].log, Len(h[t].log))

\* Server s leads term t with log l.
Enter(h, t, s, l) ==
    [u \in DOMAIN h \cup {t} |-> IF u = t THEN [leader |-> s, log |-> l] ELSE h[u]]

\* Ledger k is h with that done.
Entered(h, k, t, s, l) ==
    /\ DOMAIN k = DOMAIN h \cup {t}
    /\ k[t].leader = s /\ k[t].log = l
    /\ \A u \in DOMAIN h \ {t} : k[u] = h[u]

\* Enter does what Entered says.
LEMMA EnterEntered ==
    ASSUME NEW h, NEW t, NEW s, NEW l, NEW k, k = Enter(h, t, s, l)
    PROVE  Entered(h, k, t, s, l)
BY DEF Enter, Entered

\* Nobody else leads term t, and the ledger has what s wrote in it so far.
OpenTo(h, t, s, l) == t \in DOMAIN h => Led(h, t, s, l)

\* A ledger goes on from itself.
LEMMA GrowsItself ==
    ASSUME NEW h \in Ledger
    PROVE  Grows(h, h)
BY LedgerFields DEF Grows, Same

\* What agreed with a page still agrees with it.
LEMMA SameGrows ==
    ASSUME NEW h \in Ledger, NEW k \in Ledger, Grows(h, k), NEW t \in DOMAIN h,
           NEW l \in Seq(Entry), NEW i \in Nat, Same(l, h[t].log, i)
    PROVE  Same(l, k[t].log, i)
<1>1. h[t].log \in Seq(Entry) /\ k[t].log \in Seq(Entry)
  BY LedgerFields DEF Grows
<1>2. Same(h[t].log, k[t].log, Len(h[t].log))
  BY DEF Grows
<1> QED  BY <1>1, <1>2 DEF Same

\* A log that was written stays so while the ledger grows.
LEMMA WrittenGrows ==
    ASSUME NEW h \in Ledger, NEW k \in Ledger, Grows(h, k),
           NEW l \in Seq(Entry), Written(h, l)
    PROVE  Written(k, l)
<1> SUFFICES ASSUME NEW i \in 1..Len(l)
             PROVE  l[i].term \in DOMAIN k /\ Same(l, k[l[i].term].log, i)
  BY DEF Written
<1>1. l[i].term \in DOMAIN h /\ Same(l, h[l[i].term].log, i)
  BY DEF Written
<1> QED  BY <1>1, SameGrows DEF Grows

\* A request quotes its leader's log, however much longer that has become.
LEMMA QuotesGrows ==
    ASSUME NEW h \in Ledger, NEW k \in Ledger, Grows(h, k),
           NEW m \in Message, m.type = "AppendEntriesRequest", Quotes(h, m)
    PROVE  Quotes(k, m)
<1> DEFINE L == h[m.term].log
           K == k[m.term].log
<1>1. /\ m.term \in DOMAIN h /\ m.term \in DOMAIN k
      /\ k[m.term].leader = h[m.term].leader
      /\ Same(L, K, Len(L))
  BY DEF Grows, Quotes
<1>2. L \in Seq(Entry) /\ K \in Seq(Entry)
  BY <1>1, LedgerFields
<1>3. m.prevLogIndex \in Nat /\ m.leaderCommit \in Nat /\ Len(m.entries) \in Nat
  BY MessageFields
<1>4. /\ m.prevLogIndex + Len(m.entries) <= Len(L) /\ m.src = h[m.term].leader
      /\ m.prevLogTerm = LogTerm(L, m.prevLogIndex)
      /\ \A j \in 1..Len(m.entries) : m.entries[j] = L[m.prevLogIndex + j]
      /\ m.leaderCommit <= m.prevLogIndex + Len(m.entries)
  BY DEF Quotes
<1> HIDE DEF L, K
<1>5. Len(L) <= Len(K) /\ \A j \in 1..Len(L) : L[j] = K[j]
  BY <1>1 DEF Same
<1>6. LogTerm(L, m.prevLogIndex) = LogTerm(K, m.prevLogIndex)
  BY <1>2, <1>3, <1>4, <1>5 DEF LogTerm
<1>7. ASSUME NEW j \in 1..Len(m.entries)
      PROVE  L[m.prevLogIndex + j] = K[m.prevLogIndex + j]
  <2>1. m.prevLogIndex + j \in 1..Len(L)
    BY <1>2, <1>3, <1>4, <1>7
  <2> QED  BY <1>5, <2>1
<1>8. m.prevLogIndex + Len(m.entries) <= Len(K)
  BY <1>2, <1>3, <1>4, <1>5
<1> QED  BY <1>1, <1>4, <1>6, <1>7, <1>8 DEF Quotes, K

-----------------------------------------------------------------------------
(* What every step does. *)

\* Terms do not fall, and within a term a server neither takes back the vote
\* for itself nor becomes a candidate, nor does a candidate's log change.
Keeps(p) ==
    /\ currentTerm[p] <= currentTerm'[p]
    /\ currentTerm'[p] = currentTerm[p] =>
         /\ votedFor[p] = p => votedFor'[p] = p
         /\ stateName'[p] = "CANDIDATE" => stateName[p] = "CANDIDATE" /\ log'[p] = log[p]

\* Nothing sent is taken back, and a response is of its sender's term.
Steady ==
    /\ msgs \subseteq msgs'
    /\ \A p \in Server : Keeps(p)
    /\ \A m \in msgs' \ msgs :
          m.type \in {"RequestVoteResponse", "AppendEntriesResponse"}
              => m.term = currentTerm'[m.src]

\* The servers a step does not touch.
Untouched(s) ==
    \A p \in Server \ {s} :
        /\ currentTerm'[p] = currentTerm[p] /\ votedFor'[p] = votedFor[p]
        /\ stateName'[p] = stateName[p] /\ log'[p] = log[p]
        /\ commitIndex'[p] = commitIndex[p]
        /\ nextIndex'[p] = nextIndex[p] /\ matchIndex'[p] = matchIndex[p]

\* A server the step does not touch keeps what Keeps asks for.
LEMMA UntouchedKeep ==
    ASSUME TypeOK, NEW s \in Server, Untouched(s), NEW p \in Server \ {s}
    PROVE  Keeps(p)
<1>1. currentTerm[p] \in Nat
  BY DEF TypeOK
<1> QED  BY <1>1 DEF Untouched, Keeps

\* Every action but SoloCommit, LeaderTimeout and AppendValue is one server's.
LEMMA TimeoutTouches ==
    ASSUME TypeOK, NEW s \in Server,
           StartElection(s) \/ WinElection(s) \/ SoloElection(s)
    PROVE  Untouched(s)
<1>1. CASE StartElection(s)
  BY <1>1 DEF StartElection, FreshVolatile, TypeOK, Untouched
<1>2. CASE WinElection(s)
  BY <1>2 DEF WinElection, FreshVolatile, TypeOK, Untouched
<1>3. CASE SoloElection(s)
  BY <1>3 DEF SoloElection, FreshVolatile, TypeOK, Untouched
<1> QED  BY <1>1, <1>2, <1>3

\* A message is handled by its receiver alone.
LEMMA ProcessTouches ==
    ASSUME TypeOK, NEW m \in msgs, Process(m.dst, m)
    PROVE  m.dst \in Server /\ m.src \in Server /\ Untouched(m.dst)
<1> DEFINE s == m.dst
<1>0. s \in Server /\ m.src \in Server
  BY MessageFields DEF TypeOK
<1> HIDE DEF s
<1>1. CASE OnVoteRequest(s, m)
  BY <1>0, <1>1 DEF OnVoteRequest, TermCheck, cursors, TypeOK, Untouched
<1>2. CASE StepDown(s, m)
  BY <1>0, <1>2 DEF StepDown, TermCheck, cursors, TypeOK, Untouched
<1>3. CASE OnVoteResponse(s, m)
  BY <1>0, <1>3 DEF OnVoteResponse, durable, cursors, Untouched
<1>4. CASE RefuseAppend(s, m)
  BY <1>0, <1>4 DEF RefuseAppend, durable, cursors, Untouched
<1>5. CASE AcceptAppend(s, m)
  BY <1>0, <1>5 DEF AcceptAppend, cursors, TypeOK, Untouched
<1>6. CASE OnAppendSuccess(s, m)
  BY <1>0, <1>6 DEF OnAppendSuccess, durable, TypeOK, Untouched
<1>7. CASE OnAppendFailure(s, m)
  BY <1>0, <1>7 DEF OnAppendFailure, durable, TypeOK, Untouched
<1> QED
  BY <1>0, <1>1, <1>2, <1>3, <1>4, <1>5, <1>6, <1>7 DEF Process, s

\* A crash is one server's, and sends nothing.
LEMMA CrashTouches ==
    ASSUME TypeOK, NEW s \in Server, Crash(s)
    PROVE  /\ Untouched(s) /\ msgs' = msgs
           /\ stateName'[s] = "FOLLOWER" /\ commitIndex'[s] = 0
<1>1. Restarted(s)
  BY DEF Crash, Restart, CrashInTermCheck, CrashInAppend
<1>2. /\ msgs' = msgs
      /\ stateName'[s] = "FOLLOWER" /\ commitIndex'[s] = 0
      /\ \A p \in Server \ {s} :
            /\ stateName'[p] = stateName[p] /\ commitIndex'[p] = commitIndex[p]
            /\ nextIndex'[p] = nextIndex[p] /\ matchIndex'[p] = matchIndex[p]
  BY <1>1 DEF Restarted, FreshVolatile, TypeOK
<1>3. \A p \in Server \ {s} :
         currentTerm'[p] = currentTerm[p] /\ votedFor'[p] = votedFor[p] /\ log'[p] = log[p]
  BY DEF Crash, Restart, CrashInTermCheck, CrashInAppend, durable, TypeOK
<1> QED  BY <1>2, <1>3 DEF Untouched

\* Each step is steady.
LEMMA TimeoutSteady ==
    ASSUME TypeOK, NEW s \in Server, Timeout(s)
    PROVE  Steady
<1>0. currentTerm[s] \in Nat
  BY DEF TypeOK
<1>1. CASE StartElection(s)
  <2>1. Keeps(s)
    BY <1>0, <1>1 DEF StartElection, TypeOK, Keeps
  <2>2. \A m \in msgs' \ msgs : m.type = "RequestVoteRequest"
    BY <1>1 DEF StartElection, CreateVote
  <2>3. msgs \subseteq msgs'
    BY <1>1 DEF StartElection
  <2> QED  BY <1>1, <2>1, <2>2, <2>3, TimeoutTouches, UntouchedKeep DEF Steady
<1>2. CASE WinElection(s)
  <2>1. Keeps(s)
    BY <1>0, <1>2 DEF WinElection, TypeOK, Keeps
  <2>2. \A m \in msgs' \ msgs : m.type = "AppendEntriesRequest"
    BY <1>2 DEF WinElection, CreateAppendEntries
  <2>3. msgs \subseteq msgs'
    BY <1>2 DEF WinElection
  <2> QED  BY <1>2, <2>1, <2>2, <2>3, TimeoutTouches, UntouchedKeep DEF Steady
<1>3. CASE SoloElection(s)
  <2>1. Keeps(s)
    BY <1>0, <1>3 DEF SoloElection, TypeOK, Keeps
  <2>2. msgs' = msgs
    BY <1>3 DEF SoloElection
  <2> QED  BY <1>3, <2>1, <2>2, TimeoutTouches, UntouchedKeep DEF Steady
<1>4. CASE SoloCommit(s)
  <2>1. \A p \in Server : Keeps(p)
    BY <1>4 DEF SoloCommit, durable, TypeOK, Keeps
  <2> QED  BY <1>4, <2>1 DEF SoloCommit, Steady
<1>5. ASSUME NEW due \in SUBSET Peers(s), LeaderTimeout(s, due) PROVE Steady
  <2>1. \A p \in Server : Keeps(p)
    BY <1>5 DEF LeaderTimeout, durable, TypeOK, Keeps
  <2>2. \A m \in msgs' \ msgs : m.type = "AppendEntriesRequest"
    BY <1>5 DEF LeaderTimeout, CreateAppendEntries
  <2>3. msgs \subseteq msgs'
    BY <1>5 DEF LeaderTimeout
  <2> QED  BY <2>1, <2>2, <2>3 DEF Steady
<1> QED  BY <1>1, <1>2, <1>3, <1>4, <1>5 DEF Timeout

\* No handler of a message takes anything back.
LEMMA ProcessSteady ==
    ASSUME TypeOK, ElectionInv, NEW m \in msgs, Process(m.dst, m)
    PROVE  Steady
<1> DEFINE s == m.dst
<1>0. /\ s \in Server /\ m.src \in Server /\ Untouched(s) /\ m.src # s
      /\ m.term \in Nat /\ currentTerm[s] \in Nat /\ s # Nil
  BY ProcessTouches, MessageFields, ServerAssumption DEF TypeOK, ElectionInv, NoneToItself
<1>a. SUFFICES ASSUME Process(s, m)
               PROVE  /\ Keeps(s) /\ msgs \subseteq msgs'
                      /\ \A n \in msgs' \ msgs :
                            n.type \in {"RequestVoteResponse", "AppendEntriesResponse"}
                                => n.term = currentTerm'[n.src]
  BY <1>0, UntouchedKeep DEF Steady
<1> HIDE DEF s
<1>1. CASE OnVoteRequest(s, m)
  <2> DEFINE grant == m.term >= currentTerm[s] /\ MayVote(s, m)
  <2>1. /\ currentTerm'[s] = NewTerm(s, m) /\ stateName'[s] = NewName(s, m)
        /\ votedFor'[s] = IF grant THEN m.src ELSE NewVote(s, m)
        /\ log' = log
    BY <1>0, <1>1 DEF OnVoteRequest, TermCheck, TypeOK
  <2>2. votedFor[s] = s /\ currentTerm'[s] = currentTerm[s] => votedFor'[s] = s
    BY <1>0, <2>1 DEF NewTerm, NewVote, MaxOf, MayVote
  <2>3. Keeps(s)
    BY <1>0, <2>1, <2>2 DEF Keeps, NewTerm, NewName, MaxOf
  <2>4. msgs' = msgs \cup {[type |-> "RequestVoteResponse", src |-> s, dst |-> m.src,
                            term |-> NewTerm(s, m), granted |-> grant]}
    BY <1>1 DEF OnVoteRequest, Reply
  <2> QED  BY <2>1, <2>3, <2>4
<1>2. CASE StepDown(s, m)
  <2>1. /\ currentTerm'[s] = m.term /\ m.term > currentTerm[s] /\ msgs' = msgs
    BY <1>0, <1>2 DEF StepDown, TermCheck, NewTerm, MaxOf, TypeOK
  <2> QED  BY <1>0, <2>1 DEF Keeps
<1>3. CASE OnVoteResponse(s, m)
  BY <1>0, <1>3 DEF OnVoteResponse, durable, Keeps
<1>4. CASE RefuseAppend(s, m)
  <2>1. Keeps(s) /\ currentTerm' = currentTerm
    BY <1>0, <1>4 DEF RefuseAppend, durable, Keeps
  <2>2. msgs' = msgs \cup {[type |-> "AppendEntriesResponse", src |-> s, dst |-> m.src,
                            term |-> currentTerm[s], matchIndex |-> 0, success |-> FALSE]}
    BY <1>4 DEF RefuseAppend, Reply
  <2> QED  BY <2>1, <2>2
<1>5. CASE AcceptAppend(s, m)
  <2>1. /\ currentTerm'[s] = m.term /\ stateName'[s] = "FOLLOWER"
        /\ votedFor'[s] = NewVote(s, m) /\ m.term >= currentTerm[s]
    BY <1>0, <1>5 DEF AcceptAppend, TypeOK
  <2>2. Keeps(s)
    BY <1>0, <2>1 DEF Keeps, NewVote
  <2>3. \A n \in msgs' : n \in msgs \/ (n.src = s /\ n.term = m.term)
    BY <1>5 DEF AcceptAppend, Reply
  <2>4. msgs \subseteq msgs'
    BY <1>5 DEF AcceptAppend, Reply
  <2> QED  BY <2>1, <2>2, <2>3, <2>4
<1>6. CASE OnAppendSuccess(s, m)
  BY <1>0, <1>6 DEF OnAppendSuccess, durable, Keeps
<1>7. CASE OnAppendFailure(s, m)
  BY <1>0, <1>7 DEF OnAppendFailure, durable, Keeps
<1> QED
  BY <1>a, <1>1, <1>2, <1>3, <1>4, <1>5, <1>6, <1>7 DEF Process

\* Nor does a crash: term, vote and log are durable.
LEMMA CrashSteady ==
    ASSUME TypeOK, NEW s \in Server, Crash(s)
    PROVE  Steady
<1>0. /\ Untouched(s) /\ msgs' = msgs /\ stateName'[s] = "FOLLOWER"
      /\ currentTerm[s] \in Nat /\ \A m \in msgs : m.term \in Nat
  BY CrashTouches, MessageFields DEF TypeOK
<1>1. CASE Restart(s)
  BY <1>0, <1>1, UntouchedKeep DEF Restart, durable, Steady, Keeps
<1>2. ASSUME NEW m \in msgs, CrashInTermCheck(s, m) PROVE Keeps(s)
  BY <1>0, <1>2 DEF CrashInTermCheck, Keeps, TypeOK
<1>3. ASSUME NEW m \in msgs, CrashInAppend(s, m) PROVE Keeps(s)
  <2>1. currentTerm'[s] = m.term /\ votedFor'[s] = NewVote(s, m) /\ m.term >= currentTerm[s]
    BY <1>3 DEF CrashInAppend, TypeOK
  <2> QED  BY <1>0, <2>1 DEF Keeps, NewVote
<1> QED  BY <1>0, <1>1, <1>2, <1>3, UntouchedKeep DEF Crash, Steady

\* Nor does Append, which touches the leader alone.
LEMMA AppendSteady ==
    ASSUME TypeOK, NEW s \in Server, NEW v \in Value, AppendValue(s, v)
    PROVE  Steady /\ Untouched(s)
<1>1. /\ stateName[s] = "LEADER" /\ msgs' = msgs
      /\ currentTerm' = currentTerm /\ votedFor' = votedFor /\ stateName' = stateName
      /\ commitIndex' = commitIndex /\ nextIndex' = nextIndex /\ matchIndex' = matchIndex
      /\ \A p \in Server \ {s} : log'[p] = log[p]
  BY DEF AppendValue, cursors, TypeOK
<1>2. Untouched(s)
  BY <1>1 DEF Untouched
<1>3. Keeps(s)
  BY <1>1 DEF Keeps, TypeOK
<1> QED  BY <1>1, <1>2, <1>3, UntouchedKeep DEF Steady

-----------------------------------------------------------------------------
(* The ledger keeps fitting. *)

\* Who was elected stays elected, since no vote that was sent is withdrawn.
LEMMA ElectedKept ==
    ASSUME TypeOK, TypeOK', ElectionInv', Steady,
           NEW l \in Server, NEW t \in Nat, Elected(l, t)
    PROVE  Elected(l, t)'
<1>0. /\ currentTerm[l] \in Nat /\ currentTerm'[l] \in Nat
      /\ msgs \subseteq msgs' /\ Keeps(l)
  BY DEF TypeOK, Steady
<1>1. Cardinality(Electors(l, t))' >= MinVotes(Nservers)
  <2> DEFINE P == Electors(l, t)
             Q == Electors(l, t)'
  <2>1. P \subseteq Q
    BY <1>0 DEF Electors, GrantedTo, Granted
  <2>2. Q \subseteq Server
    <3>1. \A m \in msgs' : m \in Message
      BY DEF TypeOK
    <3>2. \A m \in Granted' : m.src \in Server
      BY <3>1, MessageFields DEF Granted
    <3> QED  BY <3>2 DEF Electors, GrantedTo
  <2>3. IsFiniteSet(Q) /\ IsFiniteSet(P)
    BY <2>1, <2>2, ServerAssumption, FS_Subset
  <2>4. Cardinality(P) <= Cardinality(Q) /\ Cardinality(P) \in Nat /\ Cardinality(Q) \in Nat
    BY <2>1, <2>3, FS_Subset, FS_CardinalityType
  <2>5. Cardinality(P) >= MinVotes(Nservers)
    BY DEF Elected
  <2>6. MinVotes(Nservers) \in Nat
    BY NserversType, MinVotesMajority
  <2> HIDE DEF P, Q
  <2>7. Cardinality(Q) >= MinVotes(Nservers)
    BY <2>4, <2>5, <2>6
  <2> QED  BY <2>7 DEF Q
<1>2. t <= currentTerm'[l]
  BY <1>0 DEF Keeps, Elected
<1>3. t = currentTerm'[l] => votedFor'[l] = l /\ stateName'[l] # "CANDIDATE"
  BY <1>0 DEF Keeps, Elected
<1>4. ASSUME NEW m \in Granted', m.src = l, m.term = t PROVE FALSE
  <2>1. m \in msgs' /\ m.type = "RequestVoteResponse" /\ m.granted
    BY DEF Granted
  <2>2. m \notin msgs
    BY <1>4, <2>1 DEF Elected, Granted
  <2>3. t = currentTerm'[l]
    BY <1>4, <2>1, <2>2 DEF Steady
  <2>4. votedFor'[l] = m.dst
    BY <1>4, <2>3 DEF ElectionInv, VotesRemembered
  <2>5. m.src # m.dst
    BY <2>1 DEF ElectionInv, NoneToItself
  <2> QED  BY <1>3, <1>4, <2>3, <2>4, <2>5
<1>5. \A m \in Granted' : m.src = l => m.term # t
  BY <1>4
<1>6. Nservers' = Nservers
  BY DEF Nservers
<1> QED  BY <1>1, <1>2, <1>3, <1>5, <1>6 DEF Elected

\* What is left to show of a step that takes ledger h to k.
LEMMA WritingStep ==
    ASSUME TypeOK, TypeOK', ElectionInv', Steady,
           NEW h \in Ledger, NEW k \in Ledger, WritingInv(h), Grows(h, k), PagesInv(k),
           \A p \in Server : Written(k, log'[p]),
           \A p \in Server : \A i \in 1..Len(log'[p]) : log'[p][i].term <= currentTerm'[p],
           LeadersInv(k)',
           \A t \in DOMAIN k \ DOMAIN h : Elected(k[t].leader, t)',
           \A m \in Requests' \ Requests : Quotes(k, m),
           \A m \in Acks' \ Acks : Answers(k, m)',
           CursorsInv'
    PROVE  WritingInv(k)'
<1>1. LogsInv(k)'
  BY DEF LogsInv
<1>2. ElectedInv(k)'
  <2> SUFFICES ASSUME NEW t \in DOMAIN k PROVE Elected(k[t].leader, t)'
    BY DEF ElectedInv
  <2>1. CASE t \in DOMAIN h
    <3>1. k[t].leader = h[t].leader /\ h[t].leader \in Server /\ t \in Nat
      BY <2>1, LedgerFields DEF Grows
    <3>2. Elected(h[t].leader, t)
      BY <2>1 DEF WritingInv, ElectedInv
    <3>3. Elected(h[t].leader, t)'
      BY <3>1, <3>2, ElectedKept
    <3> QED  BY <3>1, <3>3
  <2> QED  BY <2>1
<1>3. RequestsInv(k)'
  <2> SUFFICES ASSUME NEW m \in Requests' PROVE Quotes(k, m)
    BY DEF RequestsInv
  <2>1. CASE m \in Requests
    <3>1. m \in Message /\ m.type = "AppendEntriesRequest" /\ Quotes(h, m)
      BY <2>1 DEF Requests, TypeOK, WritingInv, RequestsInv
    <3> QED  BY <3>1, QuotesGrows
  <2> QED  BY <2>1
<1>4. AcksInv(k)'
  <2> SUFFICES ASSUME NEW m \in Acks' PROVE Answers(k, m)'
    BY DEF AcksInv
  <2>1. CASE m \in Acks
    <3>1. m \in Message /\ m.type = "AppendEntriesResponse" /\ Answers(h, m)
      BY <2>1 DEF Acks, TypeOK, WritingInv, AcksInv
    <3>2. m.src \in Server /\ m.term \in Nat /\ m.matchIndex \in Nat
      BY <3>1, MessageFields
    <3>3. /\ m.term \in DOMAIN h /\ m.dst = h[m.term].leader
          /\ m.matchIndex <= Len(h[m.term].log)
          /\ m.term <= currentTerm[m.src]
      BY <3>1 DEF Answers
    <3>4. /\ m.term \in DOMAIN k /\ k[m.term].leader = h[m.term].leader
          /\ Len(h[m.term].log) <= Len(k[m.term].log)
      BY <3>3 DEF Grows, Same
    <3>5. h[m.term].log \in Seq(Entry) /\ k[m.term].log \in Seq(Entry)
      BY <3>3, <3>4, LedgerFields
    <3>6. m.matchIndex <= Len(k[m.term].log)
      BY <3>2, <3>3, <3>4, <3>5
    <3>7. m.term <= currentTerm'[m.src]
      <4>1. currentTerm[m.src] <= currentTerm'[m.src]
        BY <3>2 DEF Steady, Keeps
      <4>2. currentTerm[m.src] \in Nat /\ currentTerm'[m.src] \in Nat
        BY <3>2 DEF TypeOK
      <4> QED  BY <3>2, <3>3, <4>1, <4>2
    <3> QED  BY <3>3, <3>4, <3>6, <3>7 DEF Answers
  <2> QED  BY <2>1
<1> QED  BY <1>1, <1>2, <1>3, <1>4 DEF WritingInv, PagesInv

\* A server whose log stays as it is and that does not become a leader.
Calm(p) ==
    /\ log'[p] = log[p]
    /\ stateName'[p] = "LEADER" =>
          stateName[p] = "LEADER" /\ currentTerm'[p] = currentTerm[p]

SameCursors(p) ==
    stateName'[p] = "LEADER" =>
        nextIndex'[p] = nextIndex[p] /\ matchIndex'[p] = matchIndex[p]

\* The cursors of a leader that stays in office remain right.
LEMMA CursorsKept ==
    ASSUME CursorsInv, msgs \subseteq msgs', NEW s \in Server, NEW p \in Peers(s),
           Calm(s), SameCursors(s), stateName'[s] = "LEADER"
    PROVE  Cursor(s, p)'
<1>1. Cursor(s, p)
  BY DEF CursorsInv, Calm
<1>2. Acks \subseteq Acks'
  BY DEF Acks
<1> QED  BY <1>1, <1>2 DEF Cursor, Calm, SameCursors

\* A step that changes no log and makes no leader.
LEMMA CalmWriting ==
    ASSUME TypeOK, TypeOK', ElectionInv', Steady,
           NEW h \in Ledger, WritingInv(h), \A p \in Server : Calm(p),
           \A m \in Requests' \ Requests : Quotes(h, m),
           \A m \in Acks' \ Acks : Answers(h, m)',
           CursorsInv'
    PROVE  WritingInv(h)'
<1>1. PagesInv(h) /\ Grows(h, h)
  BY GrowsItself DEF WritingInv
<1>2. \A p \in Server : Written(h, log'[p])
  BY DEF WritingInv, LogsInv, Calm
<1>3. ASSUME NEW p \in Server, NEW i \in 1..Len(log'[p])
      PROVE  log'[p][i].term <= currentTerm'[p]
  <2>1. log'[p] = log[p] /\ log[p] \in Seq(Entry) /\ i \in 1..Len(log[p])
    BY <1>3 DEF Calm, TypeOK
  <2>2. log[p][i].term \in Nat /\ currentTerm[p] \in Nat /\ currentTerm'[p] \in Nat
    BY <2>1, EntryFields DEF TypeOK
  <2>3. log[p][i].term <= currentTerm[p] /\ currentTerm[p] <= currentTerm'[p]
    BY <2>1 DEF WritingInv, LogsInv, Steady, Keeps
  <2> QED  BY <2>1, <2>2, <2>3
<1>4. LeadersInv(h)'
  BY DEF WritingInv, LeadersInv, Calm
<1> QED  BY <1>1, <1>2, <1>3, <1>4, WritingStep

\* A step that besides sends and counts nothing about entries.
LEMMA QuietWriting ==
    ASSUME TypeOK, TypeOK', ElectionInv', Steady,
           NEW h \in Ledger, WritingInv(h), \A p \in Server : Calm(p) /\ SameCursors(p),
           Requests' = Requests, Acks' = Acks
    PROVE  WritingInv(h)'
<1>1. CursorsInv /\ msgs \subseteq msgs'
  BY DEF WritingInv, Steady
<1>2. CursorsInv'
  <2> SUFFICES ASSUME NEW p \in Server, stateName'[p] = "LEADER", NEW q \in Peers(p)
               PROVE  Cursor(p, q)'
    BY DEF CursorsInv, Peers
  <2> QED  BY <1>1, CursorsKept
<1> QED  BY <1>2, CalmWriting

\* What a step of s leaves alone, and the cursors of the other leaders.
LEMMA UntouchedCalm ==
    ASSUME NEW s \in Server, Untouched(s), NEW p \in Server \ {s}
    PROVE  Calm(p) /\ SameCursors(p)
BY DEF Untouched, Calm, SameCursors

\* The cursors of the leaders a step does not touch stay good.
LEMMA OthersCursors ==
    ASSUME CursorsInv, msgs \subseteq msgs', NEW s \in Server, Untouched(s),
           stateName'[s] = "LEADER" => \A p \in Peers(s) : Cursor(s, p)'
    PROVE  CursorsInv'
<1> SUFFICES ASSUME NEW p \in Server, stateName'[p] = "LEADER", NEW q \in Peers(p)
             PROVE  Cursor(p, q)'
  BY DEF CursorsInv, Peers
<1>1. CASE p = s
  BY <1>1
<1>2. CASE p # s
  BY <1>2, UntouchedCalm, CursorsKept
<1> QED  BY <1>1, <1>2

-----------------------------------------------------------------------------
(* What a leader writes. *)

\* A leader's log with one more entry of its own term is a page as it should be.
LEMMA PageGrows ==
    ASSUME NEW h \in Ledger, PagesInv(h), NEW l \in Seq(Entry), Written(h, l),
           NEW t \in Nat \ {0}, NEW s \in Server, NEW e \in Entry, e.term = t,
           \A i \in 1..Len(l) : l[i].term <= t,
           StubsFirst(l), LastLogTerm(l) # t <=> e.value = Stub,
           OpenTo(h, t, s, l), NEW k, k = Enter(h, t, s, Append(l, e))
    PROVE  /\ k \in Ledger /\ Entered(h, k, t, s, Append(l, e))
           /\ Grows(h, k) /\ PagesInv(k) /\ Written(k, Append(l, e))
<1> DEFINE L == Append(l, e)
<1>1. /\ L \in Seq(Entry) /\ L # << >> /\ Len(L) = Len(l) + 1
      /\ \A i \in 1..Len(l) : L[i] = l[i]
      /\ L[Len(l) + 1] = e
  BY AppendProperties
<1> HIDE DEF L
<1>2. /\ k \in Ledger /\ DOMAIN k = DOMAIN h \cup {t}
      /\ k[t].leader = s /\ k[t].log = L
      /\ \A u \in DOMAIN h \ {t} : k[u] = h[u]
  <2>1. k = Enter(h, t, s, L) /\ L \in Seq(Entry)
    BY <1>1 DEF L
  <2>2. PICK D \in SUBSET (Nat \ {0}) : h \in [D -> [leader : Server, log : Seq(Entry)]]
    BY DEF Ledger
  <2>3. D \cup {t} \in SUBSET (Nat \ {0}) /\ DOMAIN h = D
    BY <2>2
  <2>4. k \in [D \cup {t} -> [leader : Server, log : Seq(Entry)]]
    BY <2>1, <2>2, <2>3 DEF Enter
  <2>5. k \in Ledger
    BY <2>3, <2>4 DEF Ledger
  <2>6. Entered(h, k, t, s, L)
    BY <2>1, EnterEntered
  <2> QED  BY <2>5, <2>6 DEF Entered
<1>3. Same(l, L, Len(l))
  BY <1>1 DEF Same
<1>4. Grows(h, k)
  <2> SUFFICES ASSUME NEW u \in DOMAIN h
               PROVE  k[u].leader = h[u].leader /\ Same(h[u].log, k[u].log, Len(h[u].log))
    BY <1>2 DEF Grows
  <2>1. CASE u = t
    BY <2>1, <1>2, <1>3 DEF OpenTo, Led
  <2>2. CASE u # t
    <3>1. h[u].log \in Seq(Entry)
      BY LedgerFields
    <3> QED  BY <2>2, <1>2, <3>1 DEF Same
  <2> QED  BY <2>1, <2>2
<1>5. Written(k, L)
  <2> SUFFICES ASSUME NEW i \in 1..Len(L)
               PROVE  L[i].term \in DOMAIN k /\ Same(L, k[L[i].term].log, i)
    BY DEF Written
  <2>1. CASE i = Len(l) + 1
    BY <2>1, <1>1, <1>2 DEF Same
  <2>2. CASE i # Len(l) + 1
    <3>1. i \in 1..Len(l) /\ L[i] = l[i]
      BY <2>2, <1>1
    <3>2. Written(k, l)
      BY <1>2, <1>4, WrittenGrows
    <3>3. l[i].term \in DOMAIN k /\ Same(l, k[l[i].term].log, i)
      BY <3>1, <3>2 DEF Written
    <3> QED  BY <1>1, <3>1, <3>3 DEF Same
  <2> QED  BY <2>1, <2>2
<1>6. Ordered(l)
  BY WrittenOrdered
<1>7. Ordered(L)
  <2> SUFFICES ASSUME NEW i \in 1..Len(L), NEW j \in 1..Len(L), i <= j
               PROVE  L[i].term <= L[j].term
    BY DEF Ordered
  <2>1. CASE j = Len(l) + 1 /\ i = j
    BY <2>1, <1>1
  <2>2. CASE j = Len(l) + 1 /\ i # j
    <3>1. i \in 1..Len(l)
      BY <2>2, <1>1
    <3> QED  BY <2>2, <3>1, <1>1
  <2>3. CASE j # Len(l) + 1
    <3>1. i \in 1..Len(l) /\ j \in 1..Len(l)
      BY <2>3, <1>1
    <3> QED  BY <3>1, <1>1, <1>6 DEF Ordered
  <2> QED  BY <2>1, <2>2, <2>3
<1>8. LastLogTerm(L) = t
  BY <1>1 DEF LastLogTerm, LogTerm
<1>s. StubsFirst(L)
  <2> SUFFICES ASSUME NEW i \in 1..Len(L)
               PROVE  StartsTerm(L, i) <=> L[i].value = Stub
    BY DEF StubsFirst
  <2>1. CASE i = Len(l) + 1
    <3>1. L[i] = e /\ L[i].term = t
      BY <1>1, <2>1
    <3>2. CASE l = << >>
      <4>1. Len(l) = 0 /\ i = 1
        BY <2>1, <3>2
      <4>2. LastLogTerm(l) # t
        BY <4>1 DEF LastLogTerm, LogTerm
      <4> QED  BY <3>1, <4>1, <4>2 DEF StartsTerm
    <3>3. CASE l # << >>
      <4>1. Len(l) \in 1..Len(l) /\ i # 1 /\ i - 1 = Len(l)
        BY <2>1, <3>3
      <4>2. L[i - 1] = l[Len(l)] /\ LastLogTerm(l) = l[Len(l)].term
        BY <1>1, <4>1 DEF LastLogTerm, LogTerm
      <4> QED  BY <3>1, <4>1, <4>2 DEF StartsTerm
    <3> QED  BY <3>2, <3>3
  <2>2. CASE i # Len(l) + 1
    <3>1. i \in 1..Len(l) /\ L[i] = l[i]
      BY <2>2, <1>1
    <3>2. i = 1 \/ L[i - 1] = l[i - 1]
      BY <3>1, <1>1
    <3>3. StartsTerm(L, i) <=> StartsTerm(l, i)
      BY <3>1, <3>2 DEF StartsTerm
    <3> QED  BY <3>1, <3>3 DEF StubsFirst
  <2> QED  BY <2>1, <2>2
<1>9. PagesInv(k)
  <2> SUFFICES ASSUME NEW u \in DOMAIN k
               PROVE  /\ k[u].log # << >> /\ LastLogTerm(k[u].log) = u
                      /\ Ordered(k[u].log) /\ StubsFirst(k[u].log) /\ Written(k, k[u].log)
    BY DEF PagesInv
  <2>1. CASE u = t
    BY <2>1, <1>1, <1>2, <1>5, <1>7, <1>8, <1>s
  <2>2. CASE u # t
    <3>1. u \in DOMAIN h /\ k[u] = h[u] /\ h[u].log \in Seq(Entry)
      BY <2>2, <1>2, LedgerFields
    <3>2. /\ h[u].log # << >> /\ LastLogTerm(h[u].log) = u
          /\ Ordered(h[u].log) /\ StubsFirst(h[u].log) /\ Written(h, h[u].log)
      BY <3>1 DEF PagesInv
    <3> QED  BY <1>2, <1>4, <3>1, <3>2, WrittenGrows
  <2> QED  BY <2>1, <2>2
<1> QED  BY <1>2, <1>4, <1>5, <1>9 DEF L, Entered

\* A leader was elected in its term.
LEMMA LeaderElected ==
    ASSUME TypeOK', ElectionInv', NEW s \in Server, stateName'[s] = "LEADER",
           NEW t \in Nat, t = currentTerm'[s]
    PROVE  Elected(s, t)'
<1>1. /\ Cardinality(Electors(s, t))' >= MinVotes(Nservers)'
      /\ votedFor'[s] = s
  BY DEF ElectionInv, LeadersWereElected, VotedForItself
<1>2. ASSUME NEW m \in Granted', m.src = s, m.term = t PROVE FALSE
  <2>1. votedFor'[s] = m.dst /\ m.src # m.dst
    BY <1>2 DEF ElectionInv, VotesRemembered, NoneToItself, Granted
  <2> QED  BY <1>1, <1>2, <2>1
<1>3. \A m \in Granted' : m.src = s => m.term # t
  BY <1>2
<1>4. t <= currentTerm'[s]
  OBVIOUS
<1> QED  BY <1>1, <1>3, <1>4 DEF Elected

\* A candidate that won its election is the first to lead its term.
LEMMA TermIsNew ==
    ASSUME TypeOK, ElectionInv, NEW h \in Ledger, ElectedInv(h), NEW s \in Server,
           stateName[s] = "CANDIDATE",
           Cardinality(Electors(s, currentTerm[s])) >= MinVotes(Nservers)
    PROVE  currentTerm[s] \notin DOMAIN h
<1> SUFFICES ASSUME currentTerm[s] \in DOMAIN h PROVE FALSE
  OBVIOUS
<1> DEFINE T == currentTerm[s]
           l == h[T].leader
<1>1. l \in Server /\ Elected(l, T)
  BY LedgerFields DEF ElectedInv
<1> HIDE DEF l
<1>2. Electors(l, T) \subseteq Server /\ Electors(s, T) \subseteq Server
  BY <1>1, GrantedToType DEF Electors, ElectionInv
<1>3. PICK p \in Electors(l, T) \cap Electors(s, T) : TRUE
  BY <1>1, <1>2, VotersIntersect DEF Elected
<1>4. l # s
  BY <1>1 DEF Elected
<1>5. l \notin GrantedTo(s, T)
  BY <1>1 DEF Elected, GrantedTo
<1>6. s \notin GrantedTo(l, T)
  <2>1. s \in GrantedTo(l, T) => votedFor[s] = l
    BY DEF GrantedTo, ElectionInv, VotesRemembered
  <2>2. votedFor[s] = s
    BY DEF ElectionInv, VotedForItself
  <2> QED  BY <1>4, <2>1, <2>2
<1>7. ~ (p \in GrantedTo(l, T) /\ p \in GrantedTo(s, T))
  BY <1>4 DEF GrantedTo, ElectionInv, OneVotePerTerm
<1>8. p \in GrantedTo(l, T) \/ p = l
  BY <1>3 DEF Electors
<1>9. p \in GrantedTo(s, T) \/ p = s
  BY <1>3 DEF Electors
<1> HIDE DEF T
<1> QED  BY <1>4, <1>5, <1>6, <1>7, <1>8, <1>9

\* The request a server s sends to d as leader of term t with log l.
Request(s, d, t, l, next, match, batch, commit) ==
    LET last == IF match + 1 < next THEN next - 1
                ELSE MinOf(next - 1 + MaxOf(1, batch), Len(l))
    IN  [type |-> "AppendEntriesRequest", src |-> s, dst |-> d, term |-> t,
         prevLogIndex |-> next - 1, prevLogTerm |-> LogTerm(l, next - 1),
         leaderCommit |-> MinOf(commit, last),
         entries |-> SubSeq(l, next - 1 + 1, last)]

\* It quotes that log, and names no commit index but the leader's or a lower one.
LEMMA RequestQuotes ==
    ASSUME NEW h \in Ledger, NEW s \in Server, NEW d \in Server, NEW t \in Nat,
           NEW l \in Seq(Entry), Led(h, t, s, l),
           NEW next \in Nat \ {0}, next <= Len(l) + 1,
           NEW match \in Nat, NEW batch \in Nat, NEW commit \in Nat,
           NEW m, m = Request(s, d, t, l, next, match, batch, commit)
    PROVE  /\ Quotes(h, m)
           /\ m.leaderCommit \in Nat /\ m.leaderCommit <= commit
<1> DEFINE last == IF match + 1 < next THEN next - 1
                   ELSE MinOf(next - 1 + MaxOf(1, batch), Len(l))
           prev == next - 1
           es == SubSeq(l, next - 1 + 1, last)
<1>1. last \in Nat /\ prev <= last /\ last <= Len(l)
  <2>1. MaxOf(1, batch) \in Nat /\ MaxOf(1, batch) >= 1
    BY DEF MaxOf
  <2>2. CASE match + 1 < next
    BY <2>2
  <2>3. CASE ~ (match + 1 < next)
    <3>1. prev + MaxOf(1, batch) \in Nat /\ prev <= prev + MaxOf(1, batch) /\ prev <= Len(l)
      BY <2>1
    <3>2. last = MinOf(prev + MaxOf(1, batch), Len(l))
      BY <2>3
    <3> HIDE DEF last, prev
    <3> QED  BY <3>1, <3>2 DEF MinOf
  <2> QED  BY <2>2, <2>3
<1>2. MinOf(commit, last) \in Nat /\ MinOf(commit, last) <= commit /\ MinOf(commit, last) <= last
  <2> HIDE DEF last
  <2> QED  BY <1>1 DEF MinOf
<1>3. /\ m.type = "AppendEntriesRequest" /\ m.src = s /\ m.dst = d /\ m.term = t
      /\ m.prevLogIndex = prev /\ m.prevLogTerm = LogTerm(l, prev)
      /\ m.leaderCommit = MinOf(commit, last) /\ m.entries = es
  BY DEF Request
<1>4. prev \in Nat /\ prev + 1 = next - 1 + 1
  OBVIOUS
<1> HIDE DEF last
<1>5. /\ Len(es) = last - prev
      /\ \A j \in 1..(last - prev) : es[j] = l[prev + j]
  <2>1. prev + 1 \in Nat \ {0} /\ prev + 1 <= last + 1
    BY <1>1, <1>4
  <2>2. /\ Len(es) = last + 1 - (prev + 1)
        /\ \A j \in 1..(last + 1 - (prev + 1)) : es[j] = l[prev + 1 + j - 1]
    BY <1>1, <1>4, <2>1, SegmentEntries
  <2>3. last + 1 - (prev + 1) = last - prev
    BY <1>1, <1>4
  <2>4. \A j \in 1..(last - prev) : prev + 1 + j - 1 = prev + j
    BY <1>1, <1>4
  <2> QED  BY <2>2, <2>3, <2>4
<1> HIDE DEF prev, es
<1>6. prev + Len(es) = last
  BY <1>1, <1>4, <1>5
<1>7. \A j \in 1..Len(es) : es[j] = l[prev + j]
  BY <1>5
<1> QED  BY <1>1, <1>2, <1>3, <1>6, <1>7 DEF Quotes, Led

-----------------------------------------------------------------------------
(* Steps that write nothing. *)

\* A new candidate writes nothing: the same ledger fits.
LEMMA StartElectionWriting ==
    ASSUME TypeOK, TypeOK', ElectionInv', NEW h \in Ledger, WritingInv(h),
           NEW s \in Server, StartElection(s)
    PROVE  WritingInv(h)'
<1>1. Steady /\ Untouched(s)
  BY TimeoutSteady, TimeoutTouches DEF Timeout
<1>2. Calm(s) /\ SameCursors(s)
  BY DEF StartElection, TypeOK, Calm, SameCursors
<1>3. Requests' = Requests /\ Acks' = Acks
  <2>1. \A m \in msgs' : m \in msgs \/ m.type = "RequestVoteRequest"
    BY DEF StartElection, CreateVote
  <2> QED  BY <1>1, <2>1 DEF Requests, Acks, Steady
<1> QED  BY <1>1, <1>2, <1>3, UntouchedCalm, QuietWriting

\* Nor does a single server that commits.
LEMMA SoloCommitWriting ==
    ASSUME TypeOK, TypeOK', ElectionInv', NEW h \in Ledger, WritingInv(h),
           NEW s \in Server, SoloCommit(s)
    PROVE  WritingInv(h)'
<1>1. Steady
  BY TimeoutSteady DEF Timeout
<1>2. \A p \in Server : Calm(p) /\ SameCursors(p)
  BY DEF SoloCommit, durable, cursors, Calm, SameCursors
<1>3. Requests' = Requests /\ Acks' = Acks
  BY DEF SoloCommit, Requests, Acks
<1> QED  BY <1>1, <1>2, <1>3, QuietWriting

\* A restart on an unchanged log leaves the ledger fitting.
LEMMA CrashWriting ==
    ASSUME TypeOK, TypeOK', ElectionInv', NEW h \in Ledger, WritingInv(h),
           NEW s \in Server, Crash(s), log' = log
    PROVE  WritingInv(h)'
<1>1. Steady /\ Untouched(s) /\ msgs' = msgs /\ stateName'[s] = "FOLLOWER"
  BY CrashSteady, CrashTouches
<1>2. Calm(s) /\ SameCursors(s)
  BY <1>1 DEF Calm, SameCursors
<1>3. Requests' = Requests /\ Acks' = Acks
  BY <1>1 DEF Requests, Acks
<1> QED  BY <1>1, <1>2, <1>3, UntouchedCalm, QuietWriting

\* So do the handlers that do not touch the log or the cursors.
LEMMA QuietProcessWriting ==
    ASSUME TypeOK, TypeOK', ElectionInv, ElectionInv', NEW h \in Ledger, WritingInv(h),
           NEW m \in msgs,
           \/ OnVoteRequest(m.dst, m) \/ StepDown(m.dst, m)
           \/ OnVoteResponse(m.dst, m) \/ RefuseAppend(m.dst, m)
    PROVE  WritingInv(h)'
<1> DEFINE s == m.dst
<1>1. Steady /\ s \in Server /\ Untouched(s) /\ m.term \in Nat
  BY ProcessSteady, ProcessTouches, MessageFields DEF Process, TypeOK
<1>2. currentTerm[s] \in Nat
  BY <1>1 DEF TypeOK
<1> HIDE DEF s
<1>3. CASE OnVoteRequest(s, m)
  <2>1. Calm(s) /\ SameCursors(s)
    BY <1>1, <1>2, <1>3 DEF OnVoteRequest, TermCheck, NewName, NewTerm, MaxOf, cursors,
                            TypeOK, Calm, SameCursors
  <2>2. \A n \in msgs' : n \in msgs \/ n.type = "RequestVoteResponse"
    BY <1>3 DEF OnVoteRequest, Reply
  <2>3. Requests' = Requests /\ Acks' = Acks
    BY <1>1, <2>2 DEF Requests, Acks, Steady
  <2> QED  BY <1>1, <2>1, <2>3, UntouchedCalm, QuietWriting
<1>4. CASE StepDown(s, m)
  <2>1. Calm(s) /\ SameCursors(s)
    BY <1>1, <1>4 DEF StepDown, TermCheck, NewName, cursors, TypeOK, Calm, SameCursors
  <2>2. Requests' = Requests /\ Acks' = Acks
    BY <1>4 DEF StepDown, Requests, Acks
  <2> QED  BY <1>1, <2>1, <2>2, UntouchedCalm, QuietWriting
<1>5. CASE OnVoteResponse(s, m)
  <2>1. Calm(s) /\ SameCursors(s)
    BY <1>5 DEF OnVoteResponse, durable, cursors, Calm, SameCursors
  <2>2. Requests' = Requests /\ Acks' = Acks
    BY <1>5 DEF OnVoteResponse, Requests, Acks
  <2> QED  BY <1>1, <2>1, <2>2, UntouchedCalm, QuietWriting
<1>6. CASE RefuseAppend(s, m)
  <2>1. Calm(s) /\ SameCursors(s)
    BY <1>6 DEF RefuseAppend, durable, cursors, Calm, SameCursors
  <2>2. \A n \in msgs' : n \in msgs \/ (n.type = "AppendEntriesResponse" /\ ~n.success)
    BY <1>6 DEF RefuseAppend, Reply
  <2>3. Requests' = Requests /\ Acks' = Acks
    BY <1>1, <2>2 DEF Requests, Acks, Steady
  <2> QED  BY <1>1, <2>1, <2>3, UntouchedCalm, QuietWriting
<1> QED  BY <1>3, <1>4, <1>5, <1>6 DEF s

\* A request from a leader whose log the ledger has quotes it.
LEMMA SentQuotes ==
    ASSUME TypeOK, NEW h \in Ledger, NEW s \in Server, NEW d \in Peers(s),
           stateName[s] = "LEADER", Led(h, currentTerm[s], s, log[s]),
           nextIndex[s][d] <= Len(log[s]) + 1
    PROVE  LET m == CreateAppendEntries(s, d)
           IN  /\ Quotes(h, m)
               /\ m.leaderCommit \in Nat /\ m.leaderCommit <= commitIndex[s]
<1> DEFINE m == CreateAppendEntries(s, d)
<1>1. /\ d \in Server /\ currentTerm[s] \in Nat /\ log[s] \in Seq(Entry)
      /\ nextIndex[s][d] \in Nat \ {0} /\ matchIndex[s][d] \in Nat
      /\ batchSize[s][d] \in Nat /\ commitIndex[s] \in Nat
  BY DEF TypeOK, Peers
<1>2. m = Request(s, d, currentTerm[s], log[s], nextIndex[s][d], matchIndex[s][d],
                  batchSize[s][d], commitIndex[s])
  BY DEF CreateAppendEntries, SentCommit, Request
<1> HIDE DEF m
<1>3. Quotes(h, m) /\ m.leaderCommit \in Nat /\ m.leaderCommit <= commitIndex[s]
  BY <1>1, <1>2, RequestQuotes
<1> QED  BY <1>3 DEF m

\* What a leader sends quotes its page.
LEMMA LeaderTimeoutWriting ==
    ASSUME TypeOK, TypeOK', ElectionInv', NEW h \in Ledger, WritingInv(h),
           NEW s \in Server, NEW due \in SUBSET Peers(s), LeaderTimeout(s, due)
    PROVE  WritingInv(h)'
<1>1. Steady
  BY TimeoutSteady DEF Timeout
<1>2. \A p \in Server : Calm(p) /\ SameCursors(p)
  BY DEF LeaderTimeout, durable, cursors, Calm, SameCursors
<1>3. \A m \in msgs' \ msgs : m \in {CreateAppendEntries(s, d) : d \in due}
  BY DEF LeaderTimeout
<1>4. \A d \in due : CreateAppendEntries(s, d).type = "AppendEntriesRequest"
  BY DEF CreateAppendEntries
<1>5. Acks' = Acks
  BY <1>1, <1>3, <1>4 DEF Acks, Steady
<1>6. \A m \in Requests' \ Requests : Quotes(h, m)
  <2> SUFFICES ASSUME NEW d \in due PROVE Quotes(h, CreateAppendEntries(s, d))
    BY <1>3 DEF Requests
  <2>1. d \in Peers(s) /\ stateName[s] = "LEADER"
    BY DEF LeaderTimeout
  <2>2. Led(h, currentTerm[s], s, log[s]) /\ nextIndex[s][d] <= Len(log[s]) + 1
    BY <2>1 DEF WritingInv, LeadersInv, CursorsInv, Cursor
  <2> QED  BY <2>1, <2>2, SentQuotes
<1>7. CursorsInv'
  <2> SUFFICES ASSUME NEW p \in Server, stateName'[p] = "LEADER", NEW q \in Peers(p)
               PROVE  Cursor(p, q)'
    BY DEF CursorsInv, Peers
  <2> QED  BY <1>1, <1>2, CursorsKept DEF WritingInv, Steady
<1> QED  BY <1>1, <1>2, <1>5, <1>6, <1>7, CalmWriting

-----------------------------------------------------------------------------
(* Steps of a leader on what its peers answer. *)

\* A success moves the cursors to what it acknowledges.
LEMMA OnAppendSuccessWriting ==
    ASSUME TypeOK, TypeOK', ElectionInv, ElectionInv', NEW h \in Ledger, WritingInv(h),
           NEW m \in msgs, OnAppendSuccess(m.dst, m)
    PROVE  WritingInv(h)'
<1> DEFINE s == m.dst
           q == m.src
<1>1. /\ Steady /\ s \in Server /\ q \in Server /\ Untouched(s) /\ q # s
      /\ m.term \in Nat /\ m.matchIndex \in Nat
  <2>1. m \in Message
    BY DEF TypeOK
  <2>2. m.type = "AppendEntriesResponse"
    BY DEF OnAppendSuccess
  <2> QED  BY <2>1, <2>2, ProcessSteady, ProcessTouches, MessageFields
           DEF Process, ElectionInv, NoneToItself
<1>2. /\ stateName[s] = "LEADER" /\ m.term = currentTerm[s] /\ m \in Acks
      /\ log' = log /\ stateName' = stateName /\ currentTerm' = currentTerm
      /\ msgs' = msgs
      /\ nextIndex'  = [nextIndex  EXCEPT ![s][q] = m.matchIndex + 1]
      /\ matchIndex' = [matchIndex EXCEPT
             ![s] = [matchIndex[s] EXCEPT ![q] = MaxOf(@, m.matchIndex)]]
  BY DEF OnAppendSuccess, durable, Acks
<1>3. m.matchIndex <= Len(log[s])
  <2>1. Led(h, m.term, s, log[s])
    BY <1>1, <1>2 DEF WritingInv, LeadersInv
  <2>2. Answers(h, m)
    BY <1>2 DEF WritingInv, AcksInv
  <2> QED  BY <2>1, <2>2 DEF Led, Answers
<1> HIDE DEF s, q
<1>4. ASSUME NEW p \in Peers(s) PROVE Cursor(s, p)'
  <2>1. Cursor(s, p) /\ p \in Server
    BY <1>1, <1>2, <1>4 DEF WritingInv, CursorsInv, Peers
  <2>2. Acks' = Acks
    BY <1>2 DEF Acks
  <2>3. CASE p # q
    <3>1. nextIndex'[s][p] = nextIndex[s][p] /\ matchIndex'[s][p] = matchIndex[s][p]
      BY <1>1, <1>2, <2>1, <2>3 DEF TypeOK
    <3> QED  BY <1>2, <2>1, <2>2, <3>1 DEF Cursor
  <2>4. CASE p = q
    <3>1. /\ nextIndex'[s][p] = m.matchIndex + 1
          /\ matchIndex'[s][p] = MaxOf(matchIndex[s][p], m.matchIndex)
      BY <1>1, <1>2, <2>1, <2>4 DEF TypeOK
    <3>2. matchIndex'[s][p] \in {matchIndex[s][p], m.matchIndex}
      BY <3>1 DEF MaxOf
    <3>3. nextIndex'[s][p] <= Len(log'[s]) + 1
      <4>1. Len(log[s]) \in Nat
        BY <1>1 DEF TypeOK
      <4> QED  BY <1>1, <1>2, <1>3, <3>1, <4>1
    <3>4. m.src = p /\ m.dst = s
      BY <2>4 DEF q, s
    <3> QED  BY <1>2, <2>1, <2>2, <3>2, <3>3, <3>4 DEF Cursor
  <2> QED  BY <2>3, <2>4
<1>5. CursorsInv'
  BY <1>1, <1>2, <1>4, OthersCursors DEF WritingInv
<1>6. \A p \in Server : Calm(p)
  BY <1>2 DEF Calm
<1>7. Requests' = Requests /\ Acks' = Acks
  BY <1>2 DEF Requests, Acks
<1> QED  BY <1>1, <1>5, <1>6, <1>7, CalmWriting

\* A failure only moves the next index back.
LEMMA OnAppendFailureWriting ==
    ASSUME TypeOK, TypeOK', ElectionInv, ElectionInv', NEW h \in Ledger, WritingInv(h),
           NEW m \in msgs, OnAppendFailure(m.dst, m)
    PROVE  WritingInv(h)'
<1> DEFINE s == m.dst
           q == m.src
           back == MaxOf(backOff[s][q], 1)
<1>1. Steady /\ s \in Server /\ q \in Server /\ Untouched(s)
  BY ProcessSteady, ProcessTouches DEF Process
<1>2. /\ stateName[s] = "LEADER" /\ log' = log /\ stateName' = stateName
      /\ currentTerm' = currentTerm /\ msgs' = msgs /\ matchIndex' = matchIndex
      /\ nextIndex' = [nextIndex EXCEPT ![s][q] = StepBack(@, back)]
  BY DEF OnAppendFailure, durable
<1>3. back \in Nat
  <2>1. s \in Server /\ q \in Server /\ backOff \in [Server -> [Server -> Nat]]
    BY <1>1 DEF TypeOK
  <2> HIDE DEF s, q
  <2>2. backOff[s][q] \in Nat
    BY <2>1
  <2> QED  BY <2>2 DEF MaxOf
<1> HIDE DEF s, q, back
<1>4. ASSUME NEW p \in Peers(s) PROVE Cursor(s, p)'
  <2>1. Cursor(s, p) /\ p \in Server
    BY <1>1, <1>2, <1>4 DEF WritingInv, CursorsInv, Peers
  <2>2. Acks' = Acks
    BY <1>2 DEF Acks
  <2>3. nextIndex[s][p] \in Nat \ {0} /\ nextIndex'[s][p] \in Nat /\ Len(log[s]) \in Nat
    BY <1>1, <2>1 DEF TypeOK
  <2>4. nextIndex'[s][p] \in {nextIndex[s][p], StepBack(nextIndex[s][p], back)}
    BY <1>1, <1>2, <2>1 DEF TypeOK
  <2>5. StepBack(nextIndex[s][p], back) <= nextIndex[s][p]
    BY <1>3, <2>3 DEF StepBack, MaxOf
  <2>6. nextIndex'[s][p] <= nextIndex[s][p]
    BY <2>3, <2>4, <2>5
  <2>7. nextIndex'[s][p] <= Len(log'[s]) + 1
    BY <1>2, <2>1, <2>3, <2>6 DEF Cursor
  <2> QED  BY <1>2, <2>1, <2>2, <2>7 DEF Cursor
<1>5. CursorsInv'
  BY <1>1, <1>2, <1>4, OthersCursors DEF WritingInv
<1>6. \A p \in Server : Calm(p)
  BY <1>2 DEF Calm
<1>7. Requests' = Requests /\ Acks' = Acks
  BY <1>2 DEF Requests, Acks
<1> QED  BY <1>1, <1>5, <1>6, <1>7, CalmWriting

-----------------------------------------------------------------------------
(* Steps that take a leader's entries in. *)

\* A leader's log has no term past the one it leads.
LEMMA PageTerms ==
    ASSUME NEW h \in Ledger, PagesInv(h), NEW t \in DOMAIN h, NEW i \in 1..Len(h[t].log)
    PROVE  h[t].log[i].term <= t
<1> DEFINE L == h[t].log
<1>1. L \in Seq(Entry) /\ L # << >> /\ LastLogTerm(L) = t /\ Ordered(L) /\ i \in 1..Len(L)
  BY LedgerFields DEF PagesInv
<1> HIDE DEF L
<1>2. Len(L) \in 1..Len(L) /\ i <= Len(L)
  BY <1>1
<1>3. L[i].term <= L[Len(L)].term
  BY <1>1, <1>2 DEF Ordered
<1>4. L[Len(L)].term = t
  BY <1>1, <1>2 DEF LastLogTerm, LogTerm
<1> QED  BY <1>3, <1>4 DEF L

\* Request m and the log of its sender are what OutcomeFollows asks for.
LEMMA RequestFollows ==
    ASSUME TypeOK, NEW h \in Ledger, WritingInv(h), NEW s \in Server,
           NEW m \in Requests, Matches(log[s], m), NEW L, L = h[m.term].log
    PROVE  /\ m.term \in DOMAIN h /\ L \in Seq(Entry) /\ Written(h, L)
           /\ m.prevLogIndex + Len(m.entries) <= Len(L)
           /\ Same(Merge(log[s], m), L, m.prevLogIndex + Len(m.entries))
           /\ \A o \in Outcomes(log[s], m) :
                /\ o \in Seq(Entry)
                /\ Same(o, log[s], Len(o)) \/ Same(o, L, Len(o))
                /\ \A i \in Nat : Same(L, log[s], i) => Same(L, o, i)
<1>1. m \in Message /\ m.type = "AppendEntriesRequest" /\ Quotes(h, m)
  BY DEF Requests, TypeOK, WritingInv, RequestsInv
<1>2. m.term \in DOMAIN h /\ L \in Seq(Entry) /\ Written(h, L)
  BY <1>1, LedgerFields DEF Quotes, WritingInv, PagesInv
<1>3. log[s] \in Seq(Entry) /\ Written(h, log[s])
  BY DEF TypeOK, WritingInv, LogsInv
<1>4. m.entries \in Seq(Entry) /\ m.prevLogIndex \in Nat
  BY <1>1, MessageFields
<1>5. /\ m.prevLogIndex + Len(m.entries) <= Len(L)
      /\ m.prevLogTerm = LogTerm(L, m.prevLogIndex)
      /\ \A j \in 1..Len(m.entries) : m.entries[j] = L[m.prevLogIndex + j]
  BY <1>1 DEF Quotes
<1> QED  BY <1>2, <1>3, <1>4, <1>5, OutcomeFollows

\* What OnAppendEntries leaves behind was written by the leaders.
LEMMA OutcomeWritten ==
    ASSUME TypeOK, NEW h \in Ledger, WritingInv(h), NEW s \in Server,
           NEW m \in Requests, Matches(log[s], m), m.term >= currentTerm[s],
           NEW o \in Outcomes(log[s], m)
    PROVE  /\ Written(h, o)
           /\ \A i \in 1..Len(o) : o[i].term <= m.term
<1> DEFINE L == h[m.term].log
           l == log[s]
<1>1. /\ m.term \in DOMAIN h /\ L \in Seq(Entry) /\ Written(h, L)
      /\ o \in Seq(Entry)
      /\ Same(o, l, Len(o)) \/ Same(o, L, Len(o))
  BY RequestFollows
<1>2. /\ l \in Seq(Entry) /\ Written(h, l) /\ currentTerm[s] \in Nat /\ m.term \in Nat
      /\ \A i \in 1..Len(l) : l[i].term <= currentTerm[s]
      /\ \A i \in 1..Len(L) : L[i].term <= m.term
  <2>1. /\ l \in Seq(Entry) /\ Written(h, l) /\ currentTerm[s] \in Nat
        /\ \A i \in 1..Len(l) : l[i].term <= currentTerm[s]
    BY DEF TypeOK, WritingInv, LogsInv
  <2>2. m.term \in Nat
    BY <1>1, LedgerFields
  <2> QED  BY <1>1, <2>1, <2>2, PageTerms DEF WritingInv
<1> HIDE DEF L, l
<1>3. CASE Same(o, l, Len(o))
  <2>1. \A i \in 1..Len(o) : i \in 1..Len(l) /\ o[i] = l[i]
    BY <1>1, <1>2, <1>3 DEF Same
  <2>2. \A i \in 1..Len(l) : l[i].term \in Nat
    BY <1>2, EntryFields
  <2>3. \A i \in 1..Len(o) : o[i].term <= m.term
    BY <1>2, <2>1, <2>2
  <2> QED  BY <1>1, <1>2, <1>3, <2>3, WrittenSame
<1>4. CASE Same(o, L, Len(o))
  <2>1. \A i \in 1..Len(o) : i \in 1..Len(L) /\ o[i] = L[i]
    BY <1>1, <1>4 DEF Same
  <2> QED  BY <1>1, <1>2, <1>4, <2>1, WrittenSame
<1> QED  BY <1>1, <1>3, <1>4

\* Taking a request in leaves a log that was written, at every point of the loop.
LEMMA TakeInWriting ==
    ASSUME TypeOK, TypeOK', ElectionInv', Steady, NEW h \in Ledger, WritingInv(h),
           NEW s \in Server, Untouched(s), stateName'[s] = "FOLLOWER",
           NEW m \in Requests, m.term >= currentTerm[s], currentTerm'[s] = m.term,
           \/ log'[s] = log[s]
           \/ Matches(log[s], m) /\ log'[s] \in Outcomes(log[s], m),
           Requests' = Requests,
           \A a \in Acks' \ Acks : Answers(h, a)'
    PROVE  WritingInv(h)'
<1>1. Written(h, log'[s]) /\ \A i \in 1..Len(log'[s]) : log'[s][i].term <= m.term
  <2>1. CASE log'[s] = log[s]
    <3>1. /\ log[s] \in Seq(Entry) /\ Written(h, log[s])
          /\ currentTerm[s] \in Nat /\ currentTerm'[s] \in Nat
          /\ \A i \in 1..Len(log[s]) : log[s][i].term <= currentTerm[s]
      BY DEF TypeOK, WritingInv, LogsInv
    <3>2. \A i \in 1..Len(log[s]) : log[s][i].term \in Nat
      BY <3>1, EntryFields
    <3> QED  BY <2>1, <3>1, <3>2
  <2>2. CASE Matches(log[s], m) /\ log'[s] \in Outcomes(log[s], m)
    BY <2>2, OutcomeWritten
  <2> QED  BY <2>1, <2>2
<1>2. \A p \in Server : Written(h, log'[p])
  BY <1>1 DEF Untouched, WritingInv, LogsInv
<1>3. \A p \in Server : \A i \in 1..Len(log'[p]) : log'[p][i].term <= currentTerm'[p]
  BY <1>1 DEF Untouched, WritingInv, LogsInv
<1>4. LeadersInv(h)'
  BY DEF Untouched, WritingInv, LeadersInv
<1>5. CursorsInv'
  BY OthersCursors DEF WritingInv, Steady
<1> QED  BY <1>2, <1>3, <1>4, <1>5, WritingStep, GrowsItself DEF WritingInv

\* OnAppendEntries leaves the ledger fitting.
LEMMA AcceptAppendWriting ==
    ASSUME TypeOK, TypeOK', ElectionInv, ElectionInv', NEW h \in Ledger, WritingInv(h),
           NEW m \in msgs, AcceptAppend(m.dst, m)
    PROVE  WritingInv(h)'
<1> DEFINE s == m.dst
<1>1. Steady /\ s \in Server /\ m.src \in Server /\ Untouched(s)
  BY ProcessSteady, ProcessTouches DEF Process
<1> HIDE DEF s
<1>2. AcceptAppend(s, m)
  BY DEF s
<1>3. /\ m \in Requests /\ m.term >= currentTerm[s] /\ currentTerm'[s] = m.term
      /\ stateName'[s] = "FOLLOWER"
      /\ log'[s] = IF Matches(log[s], m) THEN Merge(log[s], m) ELSE log[s]
  BY <1>1, <1>2 DEF AcceptAppend, Requests, TypeOK
<1> DEFINE r == [type |-> "AppendEntriesResponse", src |-> s, dst |-> m.src,
                 term |-> m.term,
                 matchIndex |-> IF Matches(log[s], m) THEN LastMatched(log[s], m) ELSE 0,
                 success |-> Matches(log[s], m)]
<1>4. msgs' = msgs \cup {r}
  BY <1>2 DEF AcceptAppend, Reply
<1>5. Requests' = Requests
  BY <1>4 DEF Requests
<1>6. ASSUME NEW a \in Acks' \ Acks PROVE Answers(h, a)'
  <2>1. a = r /\ a.success
    BY <1>4 DEF Acks
  <2>2. Matches(log[s], m)
    BY <2>1
  <2>3. /\ a.term = m.term /\ a.dst = m.src /\ a.src = s
        /\ a.matchIndex = m.prevLogIndex + Len(m.entries)
    BY <2>1, <2>2 DEF LastMatched
  <2>4. Quotes(h, m)
    BY <1>3 DEF WritingInv, RequestsInv
  <2>5. m.term <= currentTerm'[s]
    BY <1>1, <1>3 DEF TypeOK
  <2> QED  BY <2>3, <2>4, <2>5 DEF Quotes, Answers
<1>7. Matches(log[s], m) => log'[s] \in Outcomes(log[s], m)
  BY <1>3 DEF Outcomes
<1>8. log'[s] = log[s] \/ (Matches(log[s], m) /\ log'[s] \in Outcomes(log[s], m))
  BY <1>3, <1>7
<1> QED  BY <1>1, <1>3, <1>5, <1>6, <1>8, TakeInWriting

\* So does a crash inside its loop.
LEMMA CrashInAppendWriting ==
    ASSUME TypeOK, TypeOK', ElectionInv', NEW h \in Ledger, WritingInv(h),
           NEW s \in Server, NEW m \in msgs, CrashInAppend(s, m)
    PROVE  WritingInv(h)'
<1>1. Steady /\ Untouched(s) /\ msgs' = msgs /\ stateName'[s] = "FOLLOWER"
  BY CrashSteady, CrashTouches DEF Crash
<1>2. /\ m \in Requests /\ m.term >= currentTerm[s] /\ currentTerm'[s] = m.term
      /\ Matches(log[s], m) /\ log'[s] \in Outcomes(log[s], m)
  BY DEF CrashInAppend, Requests, Outcomes, TypeOK
<1>3. Requests' = Requests /\ Acks' = Acks
  BY <1>1 DEF Requests, Acks
<1> QED  BY <1>1, <1>2, <1>3, TakeInWriting

-----------------------------------------------------------------------------
(* Steps that write. *)

\* Leader s, of term t from now on at the latest, appends e: the ledger takes
\* its log.
LEMMA WriteWriting ==
    ASSUME TypeOK, TypeOK', ElectionInv', Steady, NEW h \in Ledger, WritingInv(h),
           NEW s \in Server, Untouched(s), stateName'[s] = "LEADER",
           NEW t \in Nat \ {0}, t = currentTerm'[s],
           NEW e \in Entry, e.term = t, log'[s] = Append(log[s], e),
           OpenTo(h, t, s, log[s]), t \notin DOMAIN h <=> e.value = Stub,
           NEW k, k = Enter(h, t, s, log'[s]),
           \A p \in Peers(s) : Cursor(s, p)',
           \A x \in Ledger : Led(x, t, s, log'[s]) =>
               \A m \in Requests' \ Requests : Quotes(x, m),
           Acks' = Acks
    PROVE  /\ k \in Ledger /\ Entered(h, k, t, s, log'[s]) /\ Grows(h, k)
           /\ WritingInv(k)'
<1>0. /\ log[s] \in Seq(Entry) /\ Written(h, log[s]) /\ PagesInv(h)
      /\ currentTerm[s] \in Nat /\ currentTerm[s] <= t
  BY DEF TypeOK, WritingInv, LogsInv, Steady, Keeps
<1>1. \A i \in 1..Len(log[s]) : log[s][i].term <= t
  <2>1. \A i \in 1..Len(log[s]) : log[s][i].term <= currentTerm[s]
    BY DEF WritingInv, LogsInv
  <2>2. \A i \in 1..Len(log[s]) : log[s][i].term \in Nat
    BY <1>0, EntryFields
  <2> QED  BY <1>0, <2>1, <2>2
<1>2. /\ k \in Ledger /\ Entered(h, k, t, s, log'[s])
      /\ Grows(h, k) /\ PagesInv(k) /\ Written(k, log'[s])
  <2>1. StubsFirst(log[s])
    BY <1>0, WrittenStubs
  <2>2. t \in DOMAIN h => LastLogTerm(log[s]) = t
    BY <1>0 DEF OpenTo, Led, PagesInv
  <2>3. LastLogTerm(log[s]) # t <=> e.value = Stub
    <3>1. t \notin DOMAIN h => LastLogTerm(log[s]) # t
      BY <1>0 DEF Written, LastLogTerm, LogTerm
    <3> QED  BY <2>2, <3>1
  <2>4. k = Enter(h, t, s, Append(log[s], e)) /\ log'[s] = Append(log[s], e)
    OBVIOUS
  <2> QED  BY SMTT(60), <1>0, <1>1, <2>1, <2>3, <2>4, PageGrows
<1>3. DOMAIN k = DOMAIN h \cup {t} /\ Led(k, t, s, log'[s])
  BY <1>2 DEF Entered, Led
<1>4. ASSUME NEW p \in Server PROVE Written(k, log'[p])
  <2>1. CASE p = s
    BY <1>2, <2>1
  <2>2. CASE p # s
    <3>1. log'[p] = log[p] /\ log[p] \in Seq(Entry) /\ Written(h, log[p])
      BY <1>4, <2>2 DEF Untouched, TypeOK, WritingInv, LogsInv
    <3> QED  BY <1>2, <3>1, WrittenGrows
  <2> QED  BY <2>1, <2>2
<1>5. ASSUME NEW p \in Server, NEW i \in 1..Len(log'[p])
      PROVE  log'[p][i].term <= currentTerm'[p]
  <2>1. CASE p = s
    <3>1. CASE i = Len(log[s]) + 1
      BY <1>0, <2>1, <3>1
    <3>2. CASE i # Len(log[s]) + 1
      <4>1. i \in 1..Len(log[s]) /\ log'[s][i] = log[s][i]
        BY <1>0, <1>5, <2>1, <3>2
      <4> QED  BY <1>1, <2>1, <4>1
    <3> QED  BY <3>1, <3>2
  <2>2. CASE p # s
    BY <1>5, <2>2 DEF Untouched, WritingInv, LogsInv
  <2> QED  BY <2>1, <2>2
<1>6. LeadersInv(k)'
  <2> SUFFICES ASSUME NEW p \in Server, stateName'[p] = "LEADER"
               PROVE  Led(k, currentTerm'[p], p, log'[p])
    BY DEF LeadersInv
  <2>1. CASE p = s
    BY <1>3, <2>1
  <2>2. CASE p # s
    <3>1. /\ stateName[p] = "LEADER" /\ currentTerm'[p] = currentTerm[p]
          /\ log'[p] = log[p]
      BY <2>2 DEF Untouched
    <3>2. Led(h, currentTerm[p], p, log[p])
      BY <3>1 DEF WritingInv, LeadersInv
    <3>3. currentTerm[p] # t
      BY <2>2, <3>2 DEF OpenTo, Led
    <3> QED  BY <1>2, <3>1, <3>2, <3>3 DEF Entered, Led
  <2> QED  BY <2>1, <2>2
<1>7. \A u \in DOMAIN k \ DOMAIN h : Elected(k[u].leader, u)'
  <2>1. Elected(s, t)'
    BY LeaderElected
  <2> QED  BY <1>3, <2>1 DEF Led
<1>8. CursorsInv'
  BY OthersCursors DEF WritingInv, Steady
<1>9. \A m \in Requests' \ Requests : Quotes(k, m)
  BY <1>2, <1>3
<1>10. WritingInv(k)'
  BY <1>2, <1>4, <1>5, <1>6, <1>7, <1>8, <1>9, WritingStep
<1> QED  BY <1>2, <1>10


\* A command of the leader's goes to the end of its page.
LEMMA AppendValueWriting ==
    ASSUME TypeOK, TypeOK', ElectionInv', NEW h \in Ledger, WritingInv(h),
           NEW s \in Server, NEW v \in Value, AppendValue(s, v),
           NEW k, k = Enter(h, currentTerm[s], s, log'[s])
    PROVE  /\ k \in Ledger /\ Entered(h, k, currentTerm[s], s, log'[s]) /\ Grows(h, k)
           /\ WritingInv(k)'
<1> DEFINE e == [term |-> currentTerm[s], value |-> v]
           t == currentTerm[s]
<1>1. Steady /\ Untouched(s)
  BY AppendSteady
<1>2. /\ t \in Nat \ {0} /\ t = currentTerm'[s] /\ e \in Entry /\ e.term = t
      /\ log'[s] = Append(log[s], e) /\ stateName[s] = "LEADER" /\ stateName'[s] = "LEADER"
      /\ msgs' = msgs /\ nextIndex' = nextIndex /\ matchIndex' = matchIndex
      /\ log[s] \in Seq(Entry)
  BY DEF AppendValue, TypeOK, Entry, cursors
<1>v. e.value # Stub
  BY ValueAssumption
<1> HIDE DEF e
<1>3. OpenTo(h, t, s, log[s]) /\ t \in DOMAIN h
  BY <1>2 DEF OpenTo, WritingInv, LeadersInv, Led
<1>4. Requests' = Requests /\ Acks' = Acks
  BY <1>2 DEF Requests, Acks
<1>5. ASSUME NEW p \in Peers(s) PROVE Cursor(s, p)'
  <2>1. Cursor(s, p) /\ p \in Server
    BY <1>2 DEF WritingInv, CursorsInv, Peers
  <2>2. Len(log'[s]) = Len(log[s]) + 1 /\ Len(log[s]) \in Nat
    BY <1>2
  <2>3. nextIndex[s][p] \in Nat
    BY <2>1 DEF TypeOK
  <2>4. nextIndex[s][p] <= Len(log[s]) + 1
    BY <2>1 DEF Cursor
  <2>5. nextIndex[s][p] <= Len(log'[s]) + 1
    BY <2>2, <2>3, <2>4
  <2> QED  BY <1>2, <1>4, <2>1, <2>5 DEF Cursor
<1> HIDE DEF t
<1>6. /\ k \in Ledger /\ Entered(h, k, t, s, log'[s]) /\ Grows(h, k) /\ WritingInv(k)'
  <2>1. k = Enter(h, t, s, log'[s])
    BY DEF t
  <2> QED  BY <1>1, <1>2, <1>3, <1>v, <1>4, <1>5, <2>1, WriteWriting
<1> QED  BY <1>6 DEF t

\* Who wins an election has the votes for it.
LEMMA WinnerHasQuorum ==
    ASSUME TypeOK, TypeOK', ElectionInv', NEW s \in Server, WinElection(s)
    PROVE  Cardinality(Electors(s, currentTerm[s])) >= MinVotes(Nservers)
<1>1. stateName'[s] = "LEADER" /\ currentTerm' = currentTerm
  BY DEF WinElection, TypeOK
<1>2. msgs' = msgs \cup {CreateAppendEntries(s, d)' : d \in Peers(s)}
  BY DEF WinElection
<1>3. Granted' = Granted
  BY <1>2 DEF Granted, CreateAppendEntries
<1>4. Cardinality(Electors(s, currentTerm[s]))' >= MinVotes(Nservers)'
  BY <1>1 DEF ElectionInv, LeadersWereElected
<1>5. Electors(s, currentTerm[s])' = Electors(s, currentTerm[s]) /\ Nservers' = Nservers
  BY <1>1, <1>3 DEF Electors, GrantedTo, Nservers
<1> QED  BY <1>4, <1>5

\* A new leader opens a page: nobody led its term before.
LEMMA WinElectionWriting ==
    ASSUME TypeOK, TypeOK', ElectionInv, ElectionInv', NEW h \in Ledger, WritingInv(h),
           NEW s \in Server, WinElection(s),
           NEW k, k = Enter(h, currentTerm[s], s, log'[s])
    PROVE  /\ currentTerm[s] \notin DOMAIN h
           /\ k \in Ledger /\ Entered(h, k, currentTerm[s], s, log'[s]) /\ Grows(h, k)
           /\ WritingInv(k)'
<1> DEFINE e == [term |-> currentTerm[s], value |-> Stub]
           t == currentTerm[s]
<1>1. Steady /\ Untouched(s)
  BY TimeoutSteady, TimeoutTouches DEF Timeout
<1>2. /\ t \in Nat \ {0} /\ t = currentTerm'[s]
      /\ e \in Entry /\ e.term = t /\ e.value = Stub
      /\ log'[s] = Append(log[s], e) /\ stateName[s] = "CANDIDATE"
      /\ stateName'[s] = "LEADER" /\ log[s] \in Seq(Entry)
  BY DEF WinElection, TypeOK, Entry
<1> HIDE DEF e
<1>3. msgs' = msgs \cup {CreateAppendEntries(s, d)' : d \in Peers(s)}
  BY DEF WinElection
<1>4. \A m \in msgs' \ msgs : m.type = "AppendEntriesRequest"
  BY <1>3 DEF CreateAppendEntries
<1>5. Acks' = Acks /\ Granted' = Granted
  BY <1>1, <1>4 DEF Acks, Granted, Steady
<1>6. t \notin DOMAIN h
  BY <1>2, WinnerHasQuorum, TermIsNew DEF WritingInv
<1>7. ASSUME NEW p \in Peers(s)
      PROVE  /\ nextIndex'[s][p] = Len(log[s]) + 1 /\ matchIndex'[s][p] = 0
             /\ Len(log'[s]) = Len(log[s]) + 1 /\ Len(log[s]) \in Nat
  BY <1>2, <1>7 DEF WinElection, FreshVolatile, AllFrom, None, TypeOK, Peers
<1>8. \A p \in Peers(s) : Cursor(s, p)'
  BY <1>7 DEF Cursor
<1>9. ASSUME NEW x \in Ledger, Led(x, t, s, log'[s]), NEW m \in Requests' \ Requests
      PROVE  Quotes(x, m)
  <2>1. PICK d \in Peers(s) : m = CreateAppendEntries(s, d)'
    BY <1>3, <1>9 DEF Requests
  <2>2. /\ d \in Server /\ log'[s] \in Seq(Entry) /\ batchSize'[s][d] \in Nat
        /\ matchIndex'[s][d] \in Nat /\ commitIndex'[s] \in Nat
        /\ nextIndex'[s][d] \in Nat \ {0}
    BY DEF TypeOK, Peers
  <2>3. m = Request(s, d, t, log'[s], nextIndex'[s][d], matchIndex'[s][d],
                    batchSize'[s][d], commitIndex'[s])
    BY <1>2, <2>1 DEF CreateAppendEntries, SentCommit, Request
  <2>4. nextIndex'[s][d] <= Len(log'[s]) + 1
    BY <1>7
  <2> HIDE DEF t
  <2> QED  BY <1>2, <1>9, <2>2, <2>3, <2>4, RequestQuotes
<1>10. OpenTo(h, t, s, log[s])
  BY <1>6 DEF OpenTo
<1> HIDE DEF t
<1>11. /\ k \in Ledger /\ Entered(h, k, t, s, log'[s]) /\ Grows(h, k) /\ WritingInv(k)'
  <2>1. k = Enter(h, t, s, log'[s])
    BY DEF t
  <2> QED  BY <1>1, <1>2, <1>5, <1>6, <1>8, <1>9, <1>10, <2>1, WriteWriting
<1> QED  BY <1>6, <1>11 DEF t

\* One vote is enough for a single server only.
LEMMA SoloServer ==
    ASSUME MinVotes(Nservers) = 1, NEW s \in Server
    PROVE  Server = {s}
<1>1. Nservers = 1
  BY NserversType, MinVotesMajority
<1>2. \E x : Server = {x}
  BY <1>1, ServerAssumption, FS_Singleton DEF Nservers
<1> QED  BY <1>2

\* So does a single server that elects itself.
LEMMA SoloElectionWriting ==
    ASSUME TypeOK, TypeOK', ElectionInv', NEW h \in Ledger, WritingInv(h),
           NEW s \in Server, SoloElection(s),
           NEW k, k = Enter(h, currentTerm'[s], s, log'[s])
    PROVE  /\ currentTerm'[s] \notin DOMAIN h
           /\ k \in Ledger /\ Entered(h, k, currentTerm'[s], s, log'[s]) /\ Grows(h, k)
           /\ WritingInv(k)'
<1> DEFINE t == currentTerm[s] + 1
           e == [term |-> t, value |-> Stub]
<1>1. Steady /\ Untouched(s)
  BY TimeoutSteady, TimeoutTouches DEF Timeout
<1>2. /\ t \in Nat \ {0} /\ t = currentTerm'[s]
      /\ e \in Entry /\ e.term = t /\ e.value = Stub
      /\ log'[s] = Append(log[s], e) /\ stateName'[s] = "LEADER"
      /\ log[s] \in Seq(Entry) /\ msgs' = msgs
      /\ currentTerm[s] \in Nat
  BY DEF SoloElection, TypeOK, Entry
<1>3. Peers(s) = {} /\ Server = {s}
  BY SoloServer DEF SoloElection, Peers
<1>4. t \notin DOMAIN h
  <2> SUFFICES ASSUME t \in DOMAIN h PROVE FALSE
    OBVIOUS
  <2>1. h[t].leader = s
    BY <1>3, LedgerFields
  <2>2. t <= currentTerm[s]
    BY <2>1 DEF WritingInv, ElectedInv, Elected
  <2> QED  BY <1>2, <2>2
<1> HIDE DEF t, e
<1>5. Requests' = Requests /\ Acks' = Acks
  BY <1>2 DEF Requests, Acks
<1>6. OpenTo(h, t, s, log[s])
  BY <1>4 DEF OpenTo
<1>7. /\ k \in Ledger /\ Entered(h, k, t, s, log'[s]) /\ Grows(h, k) /\ WritingInv(k)'
  BY <1>1, <1>2, <1>3, <1>4, <1>5, <1>6, WriteWriting
<1> QED  BY <1>2, <1>4, <1>7

-----------------------------------------------------------------------------
(* The theorems. *)

\* Nobody has led: the empty ledger fits.
LEMMA InitWriting ==
    ASSUME Init, NEW h, h = [t \in {} |-> {}]
    PROVE  h \in Ledger /\ WritingInv(h)
<1>1. h \in [{} -> [leader : Server, log : Seq(Entry)]] /\ DOMAIN h = {}
  OBVIOUS
<1>2. h \in Ledger
  BY <1>1 DEF Ledger
<1>3. PagesInv(h) /\ ElectedInv(h)
  BY <1>1 DEF PagesInv, ElectedInv
<1>4. \A s \in Server : log[s] = << >> /\ stateName[s] = "FOLLOWER"
  BY DEF Init, Started
<1>5. LogsInv(h)
  BY <1>4 DEF LogsInv, Written
<1>6. LeadersInv(h) /\ CursorsInv
  BY <1>4 DEF LeadersInv, CursorsInv
<1>7. RequestsInv(h) /\ AcksInv(h)
  BY DEF Init, Started, RequestsInv, Requests, AcksInv, Acks
<1> QED  BY <1>2, <1>3, <1>5, <1>6, <1>7 DEF WritingInv

\* Every step takes a ledger that fits to one that fits.
LEMMA NextWriting ==
    ASSUME TypeOK, TypeOK', ElectionInv, ElectionInv', [Next]_vars,
           NEW h \in Ledger, WritingInv(h)
    PROVE  \E k \in Ledger : WritingInv(k)'
<1>1. ASSUME NEW s \in Server, Timeout(s)
      PROVE  \E k \in Ledger : WritingInv(k)'
  <2>1. CASE StartElection(s)
    BY <2>1, StartElectionWriting
  <2>2. CASE WinElection(s)
    BY <2>2, WinElectionWriting
  <2>3. CASE SoloElection(s)
    BY <2>3, SoloElectionWriting
  <2>4. CASE SoloCommit(s)
    BY <2>4, SoloCommitWriting
  <2>5. ASSUME NEW due \in SUBSET Peers(s), LeaderTimeout(s, due)
        PROVE  \E k \in Ledger : WritingInv(k)'
    BY <2>5, LeaderTimeoutWriting
  <2> QED  BY <1>1, <2>1, <2>2, <2>3, <2>4, <2>5 DEF Timeout
<1>2. ASSUME NEW s \in Server, NEW v \in Value, AppendValue(s, v)
      PROVE  \E k \in Ledger : WritingInv(k)'
  BY <1>2, AppendValueWriting
<1>3. ASSUME NEW m \in msgs, Process(m.dst, m)
      PROVE  \E k \in Ledger : WritingInv(k)'
  <2>1. CASE \/ OnVoteRequest(m.dst, m) \/ StepDown(m.dst, m)
             \/ OnVoteResponse(m.dst, m) \/ RefuseAppend(m.dst, m)
    BY <2>1, QuietProcessWriting
  <2>2. CASE AcceptAppend(m.dst, m)
    BY <2>2, AcceptAppendWriting
  <2>3. CASE OnAppendSuccess(m.dst, m)
    BY <2>3, OnAppendSuccessWriting
  <2>4. CASE OnAppendFailure(m.dst, m)
    BY <2>4, OnAppendFailureWriting
  <2> QED  BY <1>3, <2>1, <2>2, <2>3, <2>4 DEF Process
<1>4. ASSUME NEW s \in Server, Crash(s)
      PROVE  \E k \in Ledger : WritingInv(k)'
  <2>1. CASE log' = log
    BY <1>4, <2>1, CrashWriting
  <2>2. ASSUME NEW m \in msgs, CrashInAppend(s, m)
        PROVE  \E k \in Ledger : WritingInv(k)'
    BY <2>2, CrashInAppendWriting
  <2>3. log' = log \/ \E m \in msgs : CrashInAppend(s, m)
    BY <1>4 DEF Crash, Restart, durable, CrashInTermCheck
  <2> QED  BY <2>1, <2>2, <2>3
<1>5. CASE UNCHANGED vars
  <2>1. /\ currentTerm' = currentTerm /\ votedFor' = votedFor /\ log' = log
        /\ stateName' = stateName /\ msgs' = msgs
        /\ nextIndex' = nextIndex /\ matchIndex' = matchIndex
    BY <1>5 DEF vars, durable, cursors
  <2>2. PagesInv(h)'
    BY DEF WritingInv, PagesInv
  <2>3. LogsInv(h)' /\ LeadersInv(h)'
    BY <2>1 DEF WritingInv, LogsInv, LeadersInv
  <2>4. ElectedInv(h)'
    BY <2>1 DEF WritingInv, ElectedInv, Elected, Electors, GrantedTo, Granted, Nservers
  <2>5. RequestsInv(h)' /\ AcksInv(h)'
    BY <2>1 DEF WritingInv, RequestsInv, Requests, AcksInv, Acks, Answers
  <2>6. CursorsInv'
    BY <2>1 DEF WritingInv, CursorsInv, Cursor, Acks
  <2> QED  BY <2>2, <2>3, <2>4, <2>5, <2>6 DEF WritingInv
<1> QED  BY <1>1, <1>2, <1>3, <1>4, <1>5 DEF Next, Step

\* Whatever is in a log was written there, or sent, by the leader of its term,
\* after what it had before: in every state some ledger tells by whom.
THEOREM LogsStayWritten == Spec => []LogsWereWritten
<1>1. Init => LogsWereWritten
  BY InitWriting DEF LogsWereWritten
<1>2. TypeOK /\ TypeOK' /\ ElectionInv /\ ElectionInv' /\ LogsWereWritten /\ [Next]_vars
          => LogsWereWritten'
  <2> SUFFICES ASSUME TypeOK, TypeOK', ElectionInv, ElectionInv', LogsWereWritten, [Next]_vars
               PROVE  LogsWereWritten'
    OBVIOUS
  <2>1. PICK h \in Ledger : WritingInv(h)
    BY DEF LogsWereWritten
  <2>2. \E k \in Ledger : WritingInv(k)'
    BY <2>1, NextWriting
  <2> QED  BY <2>2 DEF LogsWereWritten
<1> QED  BY <1>1, <1>2, TypeCorrectness, VotesAreHonoured, PTL DEF Spec

\* Logs written by the leaders of their terms match.
LEMMA WrittenMatches ==
    ASSUME TypeOK, LogsWereWritten
    PROVE  LogMatching
<1> SUFFICES ASSUME NEW s \in Server, NEW t \in Server,
                    NEW i \in 1..MinOf(Len(log[s]), Len(log[t])),
                    log[s][i].term = log[t][i].term
             PROVE  Prefix(log[s], i) = Prefix(log[t], i)
  BY DEF LogMatching
<1>1. PICK h \in Ledger : WritingInv(h)
  BY DEF LogsWereWritten
<1>2. /\ log[s] \in Seq(Entry) /\ log[t] \in Seq(Entry)
      /\ Written(h, log[s]) /\ Written(h, log[t])
  BY <1>1 DEF TypeOK, WritingInv, LogsInv
<1>3. i \in 1..Len(log[s]) /\ i <= Len(log[t]) /\ i \in Nat
  BY <1>2 DEF MinOf
<1>4. Same(log[s], log[t], i)
  BY <1>2, <1>3, WrittenAgree
<1> QED  BY <1>2, <1>3, <1>4, SamePrefix

\* Logs that have an entry of the same term in the same place are the same up
\* to it, for any number of servers, through any crashes and reordering.
THEOREM LogsMatch == Spec => []LogMatching
BY LogsStayWritten, TypeCorrectness, WrittenMatches, PTL

\* A leader never counts past its log: Nentries in CreateAppendEntries does not
\* wrap around.
THEOREM NextIndexStaysInRange == Spec => []NextIndexInRange
<1>1. LogsWereWritten => NextIndexInRange
  BY DEF LogsWereWritten, WritingInv, CursorsInv, Cursor, NextIndexInRange
<1> QED  BY <1>1, LogsStayWritten, PTL
=============================================================================
