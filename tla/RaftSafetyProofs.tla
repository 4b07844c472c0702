--------------------------- MODULE RaftSafetyProofs ---------------------------
(***************************************************************************)
(* StateMachineSafety, LeaderCompleteness and MatchIndexSound are theorems *)
(* of Raft: no step can lose what has been committed.  GrowsWithinTerm:    *)
(* within a term nothing is lost at all.                                   *)
(***************************************************************************)
EXTENDS RaftProofs

-----------------------------------------------------------------------------
(* Quorums. *)

\* Enough servers to commit and enough to elect have one in common.
LEMMA QuorumsMeet ==
    ASSUME NEW P \in SUBSET Server, NEW Q \in SUBSET Server,
           Cardinality(P) >= CommitQuorumSize(Nservers),
           Cardinality(Q) >= MinVotes(Nservers)
    PROVE  P \cap Q # {}
<1> SUFFICES ASSUME P \cap Q = {} PROVE FALSE
  OBVIOUS
<1>1. /\ IsFiniteSet(P) /\ IsFiniteSet(Q) /\ IsFiniteSet(P \cup Q)
      /\ Cardinality(P \cup Q) <= Cardinality(Server)
  BY ServerAssumption, FS_Subset
<1>2. Cardinality(P \cup Q) = Cardinality(P) + Cardinality(Q)
  <2>1. Cardinality(P \cap Q) = 0
    BY FS_EmptySet
  <2>2. Cardinality(P \cup Q) = Cardinality(P) + Cardinality(Q) - Cardinality(P \cap Q)
    BY <1>1, FS_Union
  <2>3. Cardinality(P) \in Nat /\ Cardinality(Q) \in Nat
    BY <1>1, FS_CardinalityType
  <2> QED  BY <2>1, <2>2, <2>3
<1>3. Cardinality(P) \in Nat /\ Cardinality(Q) \in Nat /\ Nservers \in Nat \ {0}
  BY <1>1, FS_CardinalityType, NserversType
<1>4. CommitQuorumSize(Nservers) + MinVotes(Nservers) > Nservers
  BY <1>3 DEF CommitQuorumSize, MinVotes
<1>5. CommitQuorumSize(Nservers) \in Nat /\ MinVotes(Nservers) \in Nat
  BY <1>3 DEF CommitQuorumSize, MinVotes
<1> QED  BY <1>1, <1>2, <1>3, <1>4, <1>5 DEF Nservers

\* A subset that is large enough makes the set large enough.
LEMMA Enough ==
    ASSUME NEW P \in SUBSET Server, NEW Q \in SUBSET P, NEW n \in Nat,
           Cardinality(Q) >= n
    PROVE  Cardinality(P) >= n
<1>1. /\ IsFiniteSet(P) /\ IsFiniteSet(Q) /\ Cardinality(Q) <= Cardinality(P)
      /\ Cardinality(P) \in Nat /\ Cardinality(Q) \in Nat
  BY ServerAssumption, FS_Subset, FS_CardinalityType
<1> QED  BY <1>1

\* The size of a commit quorum is a natural.
LEMMA CommitQuorumType == CommitQuorumSize(Nservers) \in Nat
BY NserversType DEF CommitQuorumSize

-----------------------------------------------------------------------------
(* Acknowledgements. *)

\* An acknowledgement stays; a new one is of its sender's term.
LEMMA AckedGrows ==
    ASSUME Steady, NEW h \in Ledger, NEW k \in Ledger, Grows(h, k),
           NEW t \in DOMAIN h, NEW p \in Server, NEW i \in Nat
    PROVE  /\ Acked(h, p, t, i) => Acked(k, p, t, i)'
           /\ Acked(k, p, t, i)' => Acked(h, p, t, i) \/ t = currentTerm'[p]
<1>1. k[t].leader = h[t].leader
  BY DEF Grows
<1>2. Acks \subseteq Acks'
  BY DEF Acks, Steady
<1>3. \A a \in Acks' \ Acks : a.term = currentTerm'[a.src]
  BY DEF Acks, Steady
<1> QED  BY <1>1, <1>2, <1>3 DEF Acked

\* What only s acknowledged can be held by those alone who can still hear of it.
LEMMA HeldBefore ==
    ASSUME TypeOK, TypeOK', Steady, NEW h \in Ledger, NEW k \in Ledger, Grows(h, k),
           NEW t \in DOMAIN h, NEW i \in Nat
    PROVE  /\ MayHold(k, t, i)' \subseteq MayHold(h, t, i)
           /\ Holders(h, t, i) \subseteq Holders(k, t, i)'
<1>1. ASSUME NEW p \in MayHold(k, t, i)' PROVE p \in MayHold(h, t, i)
  <2>1. p \in Server /\ (currentTerm'[p] <= t \/ Acked(k, p, t, i)')
    BY DEF MayHold
  <2>2. currentTerm'[p] <= t => currentTerm[p] <= t
    <3>1. currentTerm[p] \in Nat /\ currentTerm'[p] \in Nat /\ t \in Nat
      BY <2>1, LedgerFields DEF TypeOK
    <3>2. currentTerm[p] <= currentTerm'[p]
      BY <2>1 DEF Steady, Keeps
    <3> QED  BY <3>1, <3>2
  <2>3. currentTerm'[p] \in Nat
    BY <2>1 DEF TypeOK
  <2>4. Acked(k, p, t, i)' => Acked(h, p, t, i) \/ currentTerm'[p] <= t
    BY <2>1, <2>3, AckedGrows
  <2> QED  BY <2>1, <2>2, <2>4 DEF MayHold
<1>2. ASSUME NEW p \in Holders(h, t, i) PROVE p \in Holders(k, t, i)'
  BY AckedGrows DEF Holders
<1> QED  BY <1>1, <1>2

\* Lost is lost, and committed is committed.
LEMMA LostStays ==
    ASSUME TypeOK, TypeOK', Steady, NEW h \in Ledger, NEW k \in Ledger, Grows(h, k),
           NEW t \in DOMAIN h, NEW i \in Nat
    PROVE  /\ Lost(h, t, i) => Lost(k, t, i)'
           /\ Committed(h, t, i) => Committed(k, t, i)'
<1> DEFINE A == MayHold(h, t, i)
           B == MayHold(k, t, i)'
           C == Holders(h, t, i)
           D == Holders(k, t, i)'
           q == CommitQuorumSize(Nservers)
<1>1. /\ A \in SUBSET Server /\ B \in SUBSET Server
      /\ C \in SUBSET Server /\ D \in SUBSET Server
      /\ B \in SUBSET A /\ C \in SUBSET D
  BY HeldBefore DEF MayHold, Holders
<1>2. q \in Nat /\ q' = q
  BY CommitQuorumType DEF Nservers
<1>3. (Lost(h, t, i) <=> ~ (Cardinality(A) >= q)) /\ (Lost(k, t, i)' <=> ~ (Cardinality(B) >= q))
  BY <1>2 DEF Lost
<1>4. (Committed(h, t, i) <=> Cardinality(C) >= q) /\ (Committed(k, t, i)' <=> Cardinality(D) >= q)
  BY <1>2 DEF Committed
<1> HIDE DEF A, B, C, D, q
<1>5. Cardinality(B) >= q => Cardinality(A) >= q
  BY <1>1, <1>2, Enough
<1>6. Cardinality(C) >= q => Cardinality(D) >= q
  BY <1>1, <1>2, Enough
<1> QED  BY <1>3, <1>4, <1>5, <1>6

\* What is committed is not lost.
LEMMA CommittedNotLost ==
    ASSUME NEW h, NEW t, NEW i, Committed(h, t, i)
    PROVE  ~ Lost(h, t, i)
<1> DEFINE A == MayHold(h, t, i)
           C == Holders(h, t, i)
<1>1. A \in SUBSET Server /\ C \in SUBSET A
  BY DEF MayHold, Holders
<1>2. Cardinality(C) >= CommitQuorumSize(Nservers)
  BY DEF Committed
<1> HIDE DEF A, C
<1>3. Cardinality(A) >= CommitQuorumSize(Nservers)
  BY <1>1, <1>2, CommitQuorumType, Enough
<1> QED  BY <1>3 DEF Lost, A

\* A leader's own entries stay its own.
LEMMA OwnGrows ==
    ASSUME NEW h \in Ledger, NEW k \in Ledger, Grows(h, k), NEW t \in DOMAIN h
    PROVE  /\ Own(h, t) \subseteq Own(k, t)
           /\ \A i \in Own(k, t) : i <= Len(h[t].log) => i \in Own(h, t)
<1>1. h[t].log \in Seq(Entry) /\ k[t].log \in Seq(Entry)
  BY LedgerFields DEF Grows
<1>2. Same(h[t].log, k[t].log, Len(h[t].log))
  BY DEF Grows
<1> QED  BY <1>1, <1>2 DEF Own, Same

-----------------------------------------------------------------------------
(* Leaders after an entry. *)

\* Entry i of term t is new: k has it and h has not.
NewIn(h, t, i) == ~ (t \in DOMAIN h /\ i <= Len(h[t].log))

\* A step of s adds to the pages no more than s itself holds.
FreshOf(h, k, s) ==
    \A t \in DOMAIN k : \A i \in 1..Len(k[t].log) :
        NewIn(h, t, i) =>
            /\ t = currentTerm'[s] /\ k[t].log = log'[s]
            /\ \A p \in Server : Acked(k, p, t, i)' => p = s

\* A ledger adds nothing to itself.
LEMMA NothingFresh ==
    ASSUME NEW h \in Ledger, NEW s
    PROVE  FreshOf(h, h, s)
BY LedgerFields DEF FreshOf, NewIn

\* An entry is lost if a quorum has gone on to a later term without it.
LEMMA QuorumWentOn ==
    ASSUME TypeOK', ElectionInv', NEW k \in Ledger, NEW t \in Nat, NEW u \in Nat, t < u,
           NEW l \in Server, Elected(l, u)', NEW i,
           \A p \in Server : Acked(k, p, t, i)' => currentTerm'[p] <= t
    PROVE  Lost(k, t, i)'
<1> DEFINE A == MayHold(k, t, i)'
           Q == Electors(l, u)'
           q == CommitQuorumSize(Nservers)
<1>1. A \in SUBSET Server /\ \A p \in A : currentTerm'[p] <= t
  BY DEF MayHold
<1>2. Q \in SUBSET Server
  BY MessageFields DEF Electors, GrantedTo, Granted, TypeOK
<1>3. \A p \in Q : u <= currentTerm'[p]
  BY DEF Electors, GrantedTo, Elected, ElectionInv, VotesRemembered
<1>4. Cardinality(Q) >= MinVotes(Nservers)
  BY DEF Elected, Nservers
<1>5. q' = q
  BY DEF Nservers
<1>6. Lost(k, t, i)' <=> ~ (Cardinality(A) >= q)
  BY <1>5 DEF Lost
<1> HIDE DEF A, Q
<1>7. A \cap Q = {}
  <2> SUFFICES ASSUME NEW p \in A \cap Q PROVE FALSE
    OBVIOUS
  <2>1. currentTerm'[p] \in Nat /\ currentTerm'[p] <= t /\ u <= currentTerm'[p]
    BY <1>1, <1>2, <1>3 DEF TypeOK
  <2> QED  BY <2>1
<1>8. ~ (Cardinality(A) >= q)
  BY <1>1, <1>2, <1>4, <1>7, QuorumsMeet
<1> QED  BY <1>6, <1>8

\* Later leaders keep having what can still be committed.
LEMMA LaterKept ==
    ASSUME TypeOK, TypeOK', ElectionInv', Steady, NEW h \in Ledger, NEW k \in Ledger,
           Grows(h, k), WritingInv(k)', LaterLeadersInv(h),
           NEW s \in Server, FreshOf(h, k, s),
           \A u \in DOMAIN k \ DOMAIN h : \A t \in DOMAIN h : t < u =>
               \A i \in Own(h, t) : Same(h[t].log, k[u].log, i) \/ Lost(h, t, i)
    PROVE  LaterLeadersInv(k)'
<1> SUFFICES ASSUME NEW t \in DOMAIN k, NEW u \in DOMAIN k, t < u, NEW i \in Own(k, t)
             PROVE  Same(k[t].log, k[u].log, i) \/ Lost(k, t, i)'
  BY DEF LaterLeadersInv
<1>1. /\ t \in Nat /\ u \in Nat /\ k[u].leader \in Server
      /\ k[t].log \in Seq(Entry) /\ k[u].log \in Seq(Entry)
  BY LedgerFields
<1>2. i \in 1..Len(k[t].log) /\ i \in Nat
  BY <1>1 DEF Own
<1>3. CASE NewIn(h, t, i)
  <2>1. t = currentTerm'[s] /\ \A p \in Server : Acked(k, p, t, i)' => p = s
    BY <1>2, <1>3 DEF FreshOf
  <2>2. Elected(k[u].leader, u)'
    BY DEF WritingInv, ElectedInv
  <2>3. \A p \in Server : Acked(k, p, t, i)' => currentTerm'[p] <= t
    BY <1>1, <2>1
  <2> QED  BY <1>1, <2>2, <2>3, QuorumWentOn
<1>4. CASE ~ NewIn(h, t, i)
  <2>1. t \in DOMAIN h /\ i \in Own(h, t)
    BY <1>4, OwnGrows DEF NewIn
  <2>2. Same(h[t].log, k[u].log, i) \/ Lost(h, t, i)
    <3>1. CASE u \in DOMAIN h
      <4>1. Same(h[t].log, h[u].log, i) \/ Lost(h, t, i)
        BY <2>1, <3>1 DEF LaterLeadersInv
      <4> QED  BY <1>2, <2>1, <3>1, <4>1, LedgerFields, SameGrows
    <3>2. CASE u \notin DOMAIN h
      BY <2>1, <3>2
    <3> QED  BY <3>1, <3>2
  <2>3. Lost(h, t, i) => Lost(k, t, i)'
    BY <1>2, <2>1, LostStays
  <2>4. Same(h[t].log, k[u].log, i) => Same(k[t].log, k[u].log, i)
    <3>1. h[t].log \in Seq(Entry) /\ Same(h[t].log, k[t].log, Len(h[t].log))
      BY <2>1, LedgerFields DEF Grows
    <3> QED  BY <1>1, <1>2, <3>1 DEF Same
  <2> QED  BY <2>2, <2>3, <2>4
<1> QED  BY <1>3, <1>4

-----------------------------------------------------------------------------
(* What was acknowledged. *)

\* A log that only grew keeps what it agreed with.
LEMMA SameExtended ==
    ASSUME NEW l \in Seq(Entry), NEW m \in Seq(Entry), NEW n \in Seq(Entry),
           NEW i \in Nat, Same(l, m, i), Same(m, n, Len(m))
    PROVE  Same(l, n, i)
BY DEF Same

\* Who keeps an entry, or has gone on after it was lost, keeps doing so.
LEMMA KeptStays ==
    ASSUME TypeOK, TypeOK', Steady, NEW h \in Ledger, NEW k \in Ledger, Grows(h, k),
           NEW t \in DOMAIN h, NEW p \in Server, NEW i \in 1..Len(h[t].log),
           Kept(h, p, t, i),
           Same(h[t].log, log[p], i) => Same(h[t].log, log'[p], i)
    PROVE  Kept(k, p, t, i)'
<1>1. /\ h[t].log \in Seq(Entry) /\ k[t].log \in Seq(Entry) /\ i \in Nat /\ t \in Nat
      /\ log'[p] \in Seq(Entry)
      /\ currentTerm[p] \in Nat /\ currentTerm'[p] \in Nat
      /\ currentTerm[p] <= currentTerm'[p]
      /\ Same(h[t].log, k[t].log, Len(h[t].log))
  BY LedgerFields DEF Grows, TypeOK, Steady, Keeps
<1>2. CASE Same(h[t].log, log[p], i)
  <2>1. Same(h[t].log, log'[p], i)
    BY <1>2
  <2>2. Same(k[t].log, log'[p], i)
    BY <1>1, <2>1 DEF Same
  <2> QED  BY <2>2 DEF Kept
<1>3. CASE t < currentTerm[p] /\ (i \in Own(h, t) => Lost(h, t, i))
  <2>1. t < currentTerm'[p]
    BY <1>1, <1>3
  <2>2. i \in Own(k, t) => i \in Own(h, t)
    BY <1>1, OwnGrows
  <2>3. i \in Own(k, t) => Lost(k, t, i)'
    BY <1>1, <1>3, <2>2, LostStays
  <2> QED  BY <2>1, <2>3 DEF Kept
<1> QED  BY <1>2, <1>3 DEF Kept

\* Who answers nothing and whose log only grows keeps what it acknowledged.
Holds(h, p) ==
    /\ Same(log[p], log'[p], Len(log[p]))
    /\ \A t \in DOMAIN h : \A i \in 1..Len(h[t].log) :
          Acked(h, p, t, i)' => Acked(h, p, t, i)

\* Acknowledged entries are kept by every step that adds fresh entries to one page only.
LEMMA AcksKeptStay ==
    ASSUME TypeOK, TypeOK', Steady, NEW h \in Ledger, NEW k \in Ledger,
           Grows(h, k), AcksKeptInv(h), NEW s \in Server, FreshOf(h, k, s),
           \A p \in Server : \/ Holds(h, p)
                             \/ \A t \in DOMAIN h : \A i \in 1..Len(h[t].log) :
                                    Acked(h, p, t, i)' => Kept(k, p, t, i)'
    PROVE  AcksKeptInv(k)'
<1> SUFFICES ASSUME NEW t \in DOMAIN k, NEW p \in Server, NEW i \in 1..Len(k[t].log),
                    Acked(k, p, t, i)'
             PROVE  Kept(k, p, t, i)'
  BY DEF AcksKeptInv
<1>1. k[t].log \in Seq(Entry) /\ i \in Nat
  BY LedgerFields
<1>2. CASE NewIn(h, t, i)
  <2>1. k[t].log = log'[s] /\ p = s
    BY <1>2 DEF FreshOf
  <2>2. Same(k[t].log, log'[p], i)
    BY <1>1, <2>1 DEF Same
  <2> QED  BY <2>2 DEF Kept
<1>3. CASE ~ NewIn(h, t, i)
  <2>1. t \in DOMAIN h /\ i \in 1..Len(h[t].log) /\ h[t].log \in Seq(Entry)
    BY <1>1, <1>3, LedgerFields DEF NewIn
  <2>2. Acked(h, p, t, i)'
    BY <2>1 DEF Acked, Grows
  <2>3. CASE Holds(h, p)
    <3>1. Kept(h, p, t, i)
      BY <2>1, <2>2, <2>3 DEF Holds, AcksKeptInv
    <3>2. Same(h[t].log, log[p], i) => Same(h[t].log, log'[p], i)
      BY <1>1, <2>1, <2>3, SameExtended DEF Holds, TypeOK
    <3> QED  BY <2>1, <3>1, <3>2, KeptStays
  <2> QED  BY <2>1, <2>2, <2>3
<1> QED  BY <1>2, <1>3

-----------------------------------------------------------------------------
(* Candidates and votes. *)

\* A request goes on describing its candidate's log while that is a candidate.
LEMMA CandidatesStay ==
    ASSUME TypeOK, TypeOK', Steady, CandidatesInv,
           \A m \in msgs' \ msgs : m.type = "RequestVoteRequest" => Describes(m)'
    PROVE  CandidatesInv'
<1> SUFFICES ASSUME NEW m \in msgs', m.type = "RequestVoteRequest"
             PROVE  Describes(m)'
  BY DEF CandidatesInv
<1>1. CASE m \in msgs
  <2>1. Describes(m) /\ m.src \in Server /\ m.term \in Nat
    BY <1>1, MessageFields DEF CandidatesInv, TypeOK
  <2>2. /\ currentTerm[m.src] \in Nat /\ currentTerm'[m.src] \in Nat
        /\ currentTerm[m.src] <= currentTerm'[m.src] /\ Keeps(m.src)
    BY <2>1 DEF TypeOK, Steady, Keeps
  <2>3. m.term <= currentTerm'[m.src]
    BY <2>1, <2>2 DEF Describes
  <2>4. m.term = currentTerm'[m.src] => currentTerm'[m.src] = currentTerm[m.src]
    BY <2>1, <2>2 DEF Describes
  <2> QED  BY <2>1, <2>2, <2>3, <2>4 DEF Describes, Keeps
<1> QED  BY <1>1

\* A vote goes on being covered while its candidate stands.
LEMMA VotesStay ==
    ASSUME TypeOK, TypeOK', ElectionInv, Steady, NEW h \in Ledger, NEW k \in Ledger,
           Grows(h, k), VotesInv(h), NEW s \in Server, FreshOf(h, k, s),
           \A m \in Granted' \ Granted : Covered(k, m)'
    PROVE  VotesInv(k)'
<1> SUFFICES ASSUME NEW m \in Granted PROVE Covered(k, m)'
  BY DEF VotesInv
<1>1. /\ m.src \in Server /\ m.dst \in Server /\ m.term \in Nat /\ Covered(h, m)
      /\ m.term <= currentTerm[m.src]
  BY MessageFields DEF Granted, TypeOK, VotesInv, ElectionInv, VotesRemembered
<1>2. \A p \in Server : /\ currentTerm[p] \in Nat /\ currentTerm'[p] \in Nat
                        /\ currentTerm[p] <= currentTerm'[p] /\ Keeps(p)
  BY DEF TypeOK, Steady, Keeps
<1>3. m.term <= currentTerm'[m.dst] /\ m.term <= currentTerm'[m.src]
  BY <1>1, <1>2 DEF Covered
<1>4. ASSUME stateName'[m.dst] = "CANDIDATE", m.term = currentTerm'[m.dst]
      PROVE  Covers(k, m.dst, m.src, m.term)'
  <2>1. currentTerm'[m.dst] = currentTerm[m.dst]
    BY <1>1, <1>2, <1>4 DEF Covered
  <2>2. stateName[m.dst] = "CANDIDATE" /\ log'[m.dst] = log[m.dst]
    BY <1>1, <1>2, <1>4, <2>1 DEF Keeps
  <2>3. Covers(h, m.dst, m.src, m.term)
    BY <1>1, <1>4, <2>1, <2>2 DEF Covered
  <2> SUFFICES ASSUME NEW t \in DOMAIN k, t < m.term, NEW i \in Own(k, t),
                      Acked(k, m.src, t, i)'
               PROVE  Same(k[t].log, log[m.dst], i) \/ Lost(k, t, i)'
    BY <2>2 DEF Covers
  <2>4. /\ t \in Nat /\ k[t].log \in Seq(Entry) /\ i \in 1..Len(k[t].log) /\ i \in Nat
        /\ t # currentTerm'[m.src]
    BY <1>1, <1>2, <1>3, LedgerFields DEF Own
  <2>5. ~ NewIn(h, t, i)
    BY <1>1, <2>4 DEF FreshOf
  <2>6. /\ t \in DOMAIN h /\ i \in Own(h, t) /\ h[t].log \in Seq(Entry)
        /\ i <= Len(h[t].log)
    BY <2>5, OwnGrows, LedgerFields DEF NewIn
  <2>7. Acked(h, m.src, t, i)
    BY <1>1, <2>4, <2>6, AckedGrows
  <2>8. Same(h[t].log, log[m.dst], i) \/ Lost(h, t, i)
    BY <2>3, <2>6, <2>7 DEF Covers
  <2>9. Lost(h, t, i) => Lost(k, t, i)'
    BY <2>4, <2>6, LostStays
  <2>10. Same(h[t].log, k[t].log, Len(h[t].log))
    BY <2>6 DEF Grows
  <2>11. Same(h[t].log, log[m.dst], i) => Same(k[t].log, log[m.dst], i)
    BY <2>4, <2>6, <2>10 DEF Same
  <2> QED  BY <2>8, <2>9, <2>11
<1> QED  BY <1>3, <1>4 DEF Covered

-----------------------------------------------------------------------------
(* What is committed. *)

\* CommittedBy after the step, of a log and indices given as values.
CommittedNext(k, l, c, u) ==
    \/ c = 0
    \/ \E t \in DOMAIN k : /\ t <= u
                           /\ \E i \in Own(k, t) : /\ c <= i /\ Committed(k, t, i)'
                                                   /\ Same(l, k[t].log, c)

\* Fewer entries, of a log that agrees on them, seen from a later term.
LEMMA CommittedLess ==
    ASSUME TypeOK, TypeOK', Steady, NEW h \in Ledger, NEW k \in Ledger, Grows(h, k),
           NEW l \in Seq(Entry), NEW m \in Seq(Entry), NEW c \in Nat, NEW d \in Nat, d <= c,
           NEW u \in Nat, NEW v \in Nat, u <= v,
           CommittedBy(h, l, c, u), c <= Len(l) => Same(l, m, d)
    PROVE  CommittedNext(k, m, d, v)
<1>1. CASE c = 0
  BY <1>1 DEF CommittedNext
<1>2. CASE c # 0
  <2>1. PICK t \in DOMAIN h : /\ t <= u
                              /\ \E i \in Own(h, t) : /\ c <= i /\ Committed(h, t, i)
                                                      /\ Same(l, h[t].log, c)
    BY <1>2 DEF CommittedBy
  <2>2. PICK i \in Own(h, t) : c <= i /\ Committed(h, t, i) /\ Same(l, h[t].log, c)
    BY <2>1
  <2>3. /\ t \in Nat /\ h[t].log \in Seq(Entry) /\ k[t].log \in Seq(Entry) /\ t \in DOMAIN k
        /\ i \in Nat /\ i \in Own(k, t)
    <3>1. t \in Nat /\ h[t].log \in Seq(Entry) /\ k[t].log \in Seq(Entry) /\ t \in DOMAIN k
      BY LedgerFields DEF Grows
    <3>2. i \in Own(k, t)
      BY OwnGrows
    <3> QED  BY <3>1, <3>2 DEF Own
  <2>4. Committed(k, t, i)'
    BY <2>2, <2>3, LostStays
  <2>5. Same(h[t].log, k[t].log, Len(h[t].log))
    BY DEF Grows
  <2>6. Same(m, k[t].log, d)
    <3>1. Same(l, m, d)
      BY <2>2 DEF Same
    <3> QED  BY <2>2, <2>3, <2>5, <3>1 DEF Same
  <2>7. d <= i /\ t <= v
    BY <2>1, <2>2, <2>3
  <2> QED  BY <2>3, <2>4, <2>6, <2>7 DEF CommittedNext
<1> QED  BY <1>1, <1>2

\* Commit indices and the requests' indices stay committed.
LEMMA CommitStays ==
    ASSUME TypeOK, TypeOK', Steady, NEW h \in Ledger, NEW k \in Ledger, Grows(h, k),
           RequestsInv(h), CommitInv(h),
           \A p \in Server : CommittedNext(k, log'[p], commitIndex'[p], currentTerm'[p]),
           \A m \in Requests' \ Requests :
               CommittedNext(k, k[m.term].log, m.leaderCommit, m.term)
    PROVE  CommitInv(k)'
<1>1. ASSUME NEW m \in Requests
      PROVE  CommittedNext(k, k[m.term].log, m.leaderCommit, m.term)
  <2>1. m \in Message /\ m.type = "AppendEntriesRequest" /\ Quotes(h, m)
    BY DEF Requests, TypeOK, RequestsInv
  <2>2. m.term \in Nat /\ m.leaderCommit \in Nat
    BY <2>1, MessageFields
  <2>3. m.term \in DOMAIN h /\ h[m.term].log \in Seq(Entry) /\ k[m.term].log \in Seq(Entry)
    BY <2>1, LedgerFields DEF Quotes, Grows
  <2>4. CommittedBy(h, h[m.term].log, m.leaderCommit, m.term)
    BY DEF CommitInv
  <2>5. Same(h[m.term].log, k[m.term].log, Len(h[m.term].log))
    BY <2>3 DEF Grows
  <2>6. m.leaderCommit <= Len(h[m.term].log)
            => Same(h[m.term].log, k[m.term].log, m.leaderCommit)
    BY <2>2, <2>3, <2>5, SameShorter
  <2> QED  BY <2>2, <2>3, <2>4, <2>6, CommittedLess
<1>2. \A m \in Requests' : CommittedNext(k, k[m.term].log, m.leaderCommit, m.term)
  BY <1>1
<1> QED  BY <1>2 DEF CommitInv, CommittedBy, CommittedNext

\* A server whose log only grows and whose commit index does not.
LEMMA CommitHolds ==
    ASSUME TypeOK, TypeOK', Steady, NEW h \in Ledger, NEW k \in Ledger, Grows(h, k),
           CommitInv(h), NEW p \in Server, Same(log[p], log'[p], Len(log[p])),
           commitIndex'[p] <= commitIndex[p]
    PROVE  CommittedNext(k, log'[p], commitIndex'[p], currentTerm'[p])
<1>1. /\ log[p] \in Seq(Entry) /\ log'[p] \in Seq(Entry)
      /\ commitIndex[p] \in Nat /\ commitIndex'[p] \in Nat
      /\ currentTerm[p] \in Nat /\ currentTerm'[p] \in Nat
      /\ currentTerm[p] <= currentTerm'[p]
  BY DEF TypeOK, Steady, Keeps
<1>2. CommittedBy(h, log[p], commitIndex[p], currentTerm[p])
  BY DEF CommitInv
<1>3. commitIndex[p] <= Len(log[p]) => Same(log[p], log'[p], commitIndex'[p])
  BY <1>1 DEF Same
<1> QED  BY <1>1, <1>2, <1>3, CommittedLess

-----------------------------------------------------------------------------
(* Steps that write nothing. *)

\* A step that changes no log keeps the agreement.
LEMMA SameLogsAgreement ==
    ASSUME TypeOK, TypeOK', ElectionInv, ElectionInv', Steady, NEW h \in Ledger,
           WritingInv(h), WritingInv(h)', AgreementInv(h),
           \A p \in Server : log'[p] = log[p],
           \A p \in Server : \/ commitIndex'[p] <= commitIndex[p]
                             \/ CommittedNext(h, log'[p], commitIndex'[p], currentTerm'[p]),
           Acks' = Acks,
           \A m \in msgs' \ msgs : m.type = "RequestVoteRequest" => Describes(m)',
           \A m \in Granted' \ Granted : Covered(h, m)',
           \A m \in Requests' \ Requests :
               CommittedNext(h, h[m.term].log, m.leaderCommit, m.term)
    PROVE  AgreementInv(h)'
<1>1. PICK s \in Server : TRUE
  BY ServerAssumption
<1>2. Grows(h, h) /\ FreshOf(h, h, s)
  BY GrowsItself, NothingFresh
<1>3. LaterLeadersInv(h)'
  BY <1>2, LaterKept DEF AgreementInv
<1>4. \A p \in Server : Same(log[p], log'[p], Len(log[p]))
  <2> SUFFICES ASSUME NEW p \in Server PROVE Same(log[p], log'[p], Len(log[p]))
    OBVIOUS
  <2>1. log'[p] = log[p] /\ Len(log[p]) \in Nat
    BY DEF TypeOK
  <2> QED  BY <2>1 DEF Same
<1>5. \A p \in Server : Holds(h, p)
  BY <1>4 DEF Holds, Acked
<1>6. AcksKeptInv(h)'
  BY <1>2, <1>5, AcksKeptStay DEF AgreementInv
<1>7. CandidatesInv'
  BY CandidatesStay DEF AgreementInv
<1>8. VotesInv(h)'
  BY <1>2, VotesStay DEF AgreementInv
<1>9. \A p \in Server : CommittedNext(h, log'[p], commitIndex'[p], currentTerm'[p])
  BY <1>2, <1>4, CommitHolds DEF AgreementInv
<1>10. CommitInv(h)'
  BY <1>2, <1>9, CommitStays DEF AgreementInv, WritingInv
<1> QED  BY <1>3, <1>6, <1>7, <1>8, <1>10 DEF AgreementInv

\* Where a commit index does not move.
LEMMA CommitIndexUnmoved ==
    ASSUME TypeOK, commitIndex' = commitIndex
    PROVE  \A p \in Server : commitIndex'[p] <= commitIndex[p]
BY DEF TypeOK

\* A new candidate describes its own log.
LEMMA StartElectionAgreement ==
    ASSUME TypeOK, TypeOK', ElectionInv, ElectionInv', NEW h \in Ledger,
           WritingInv(h), WritingInv(h)', AgreementInv(h),
           NEW s \in Server, StartElection(s)
    PROVE  AgreementInv(h)'
<1>1. Steady
  BY TimeoutSteady DEF Timeout
<1>2. log' = log /\ commitIndex' = commitIndex
  BY DEF StartElection
<1>3. ASSUME NEW m \in msgs' \ msgs PROVE m.type = "RequestVoteRequest" /\ Describes(m)'
  <2>1. PICK d \in Peers(s) : m = CreateVote(s, d)'
    BY <1>3 DEF StartElection
  <2>2. /\ m.type = "RequestVoteRequest" /\ m.src = s /\ m.term = currentTerm'[s]
        /\ m.lastLogIndex = Len(log'[s]) /\ m.lastLogTerm = LastLogTerm(log'[s])
    BY <2>1 DEF CreateVote
  <2>3. currentTerm'[s] <= currentTerm'[s]
    BY DEF TypeOK
  <2> QED  BY <2>2, <2>3 DEF Describes
<1>4. Acks' = Acks /\ Granted' = Granted /\ Requests' = Requests
  BY <1>1, <1>3 DEF Acks, Granted, Requests, Steady
<1> QED  BY <1>1, <1>2, <1>3, <1>4, CommitIndexUnmoved, SameLogsAgreement

\* A restart forgets the commit index and nothing else.
LEMMA CrashAgreement ==
    ASSUME TypeOK, TypeOK', ElectionInv, ElectionInv', NEW h \in Ledger,
           WritingInv(h), WritingInv(h)', AgreementInv(h),
           NEW s \in Server, Crash(s), log' = log
    PROVE  AgreementInv(h)'
<1>1. Steady /\ Untouched(s) /\ msgs' = msgs /\ commitIndex'[s] = 0
  BY CrashSteady, CrashTouches
<1>2. \A p \in Server : commitIndex'[p] <= commitIndex[p]
  <2> SUFFICES ASSUME NEW p \in Server PROVE commitIndex'[p] <= commitIndex[p]
    OBVIOUS
  <2>1. commitIndex[p] \in Nat
    BY DEF TypeOK
  <2>2. commitIndex'[p] \in {0, commitIndex[p]}
    BY <1>1 DEF Untouched
  <2> QED  BY <2>1, <2>2
<1>3. Acks' = Acks /\ Granted' = Granted /\ Requests' = Requests
  BY <1>1 DEF Acks, Granted, Requests
<1> QED  BY <1>1, <1>2, <1>3, SameLogsAgreement

\* A leader sends no more than its own commit index.
LEMMA LeaderTimeoutAgreement ==
    ASSUME TypeOK, TypeOK', ElectionInv, ElectionInv', NEW h \in Ledger,
           WritingInv(h), WritingInv(h)', AgreementInv(h),
           NEW s \in Server, NEW due \in SUBSET Peers(s), LeaderTimeout(s, due)
    PROVE  AgreementInv(h)'
<1>1. Steady
  BY TimeoutSteady DEF Timeout
<1>2. /\ log' = log /\ commitIndex' = commitIndex /\ stateName[s] = "LEADER"
      /\ \A m \in msgs' \ msgs : m \in {CreateAppendEntries(s, d) : d \in due}
  BY DEF LeaderTimeout, durable
<1>3. \A d \in due : /\ CreateAppendEntries(s, d).type = "AppendEntriesRequest"
                     /\ CreateAppendEntries(s, d).term = currentTerm[s]
  BY DEF CreateAppendEntries
<1>4. Acks' = Acks /\ Granted' = Granted
  BY <1>1, <1>2, <1>3 DEF Acks, Granted, Steady
<1>5. ASSUME NEW m \in Requests' \ Requests
      PROVE  CommittedNext(h, h[m.term].log, m.leaderCommit, m.term)
  <2>1. PICK d \in due : m = CreateAppendEntries(s, d) /\ m.term = currentTerm[s]
    BY <1>2, <1>3, <1>5 DEF Requests
  <2>2. Led(h, currentTerm[s], s, log[s]) /\ nextIndex[s][d] <= Len(log[s]) + 1
    BY <1>2 DEF WritingInv, LeadersInv, CursorsInv, Cursor
  <2>3. m.leaderCommit \in Nat /\ m.leaderCommit <= commitIndex[s]
    BY <1>2, <2>1, <2>2, SentQuotes
  <2>4. h[m.term].log = log[s]
    BY <2>1, <2>2 DEF Led
  <2>5. CommittedBy(h, log[s], commitIndex[s], currentTerm[s])
    BY DEF AgreementInv, CommitInv
  <2>6. log[s] \in Seq(Entry) /\ commitIndex[s] \in Nat /\ currentTerm[s] \in Nat
    BY DEF TypeOK
  <2>7. commitIndex[s] <= Len(log[s]) => Same(log[s], log[s], m.leaderCommit)
    BY <2>3, <2>6 DEF Same
  <2>8. currentTerm[s] <= currentTerm[s] /\ Grows(h, h)
    BY <2>6, GrowsItself
  <2> QED  BY <1>1, <2>1, <2>3, <2>4, <2>5, <2>6, <2>7, <2>8, CommittedLess
<1>6. \A m \in msgs' \ msgs : m.type # "RequestVoteRequest"
  BY <1>2, <1>3
<1> QED  BY <1>1, <1>2, <1>4, <1>5, <1>6, CommitIndexUnmoved, SameLogsAgreement

-----------------------------------------------------------------------------
(* A vote. *)

\* A log that is no older than the voter's has what the voter's has of an
\* entry that can still be committed.
LEMMA NoOlderCovers ==
    ASSUME NEW h \in Ledger, PagesInv(h), LaterLeadersInv(h),
           NEW l \in Seq(Entry), NEW m \in Seq(Entry), Written(h, l), Written(h, m),
           \/ LastLogTerm(m) > LastLogTerm(l)
           \/ LastLogTerm(m) = LastLogTerm(l) /\ Len(m) >= Len(l),
           NEW t \in DOMAIN h, NEW i \in Own(h, t), Same(h[t].log, l, i)
    PROVE  Same(h[t].log, m, i) \/ Lost(h, t, i)
<1> DEFINE a == LastLogTerm(l)
           b == LastLogTerm(m)
           T == h[t].log
<1>1. /\ T \in Seq(Entry) /\ t \in Nat /\ i \in 1..Len(T) /\ i \in Nat /\ T[i].term = t
  BY LedgerFields DEF Own
<1>2. i \in 1..Len(l) /\ l[i].term = t
  BY <1>1 DEF Same
<1>3. Len(l) \in 1..Len(l) /\ i <= Len(l) /\ a = l[Len(l)].term /\ a \in Nat
  BY <1>2, EntryFields DEF LastLogTerm
<1>4. t <= a
  BY <1>2, <1>3, WrittenOrdered DEF Ordered
<1>5. b \in Nat /\ b >= a
  BY <1>3, LogTermType DEF LastLogTerm
<1>6. t # 0
  BY LedgerFields
<1>7. Len(m) \in 1..Len(m)
  BY <1>1, <1>3, <1>4, <1>5, <1>6 DEF LastLogTerm, LogTerm
<1>8. b = m[Len(m)].term
  BY <1>7, EntryFields DEF LastLogTerm
<1>9. CASE b = a
  <2>1. Len(l) <= Len(m)
    BY <1>3, <1>5, <1>9
  <2>2. b \in DOMAIN h /\ Same(m, h[b].log, Len(m))
    BY <1>7, <1>8 DEF Written
  <2>3. Same(l, h[b].log, Len(l))
    BY <1>3, <1>9 DEF Written
  <2>4. h[b].log \in Seq(Entry)
    BY <2>2, LedgerFields
  <2>5. Same(l, m, Len(l))
    BY <2>1, <2>2, <2>3, <2>4 DEF Same
  <2> QED  BY <1>1, <2>5, SameExtended
<1>10. CASE b # a
  <2> DEFINE B == h[b].log
  <2>1. b \in DOMAIN h /\ Same(m, B, Len(m)) /\ t < b
    BY <1>1, <1>3, <1>4, <1>5, <1>7, <1>8, <1>10 DEF Written
  <2>2. B \in Seq(Entry) /\ Ordered(B)
    BY <2>1, LedgerFields DEF PagesInv
  <2>3. Same(T, B, i) \/ Lost(h, t, i)
    BY <2>1 DEF LaterLeadersInv
  <2> HIDE DEF B, T, b
  <2>4. ASSUME Same(T, B, i) PROVE Same(T, m, i)
    <3>0. i <= Len(B) /\ T[i] = B[i]
      BY <1>1, <2>4 DEF Same
    <3>1. B[i].term = t /\ i \in 1..Len(B)
      BY <1>1, <2>2, <3>0 DEF T
    <3>2. Len(m) \in 1..Len(B) /\ B[Len(m)].term = b
      BY <1>7, <1>8, <2>1, <2>2 DEF Same
    <3>3. i <= Len(m)
      <4>1. SUFFICES ASSUME Len(m) <= i PROVE FALSE
        BY <1>1
      <4>2. b <= t
        BY <2>2, <3>1, <3>2, <4>1 DEF Ordered
      <4> QED  BY <1>1, <1>5, <2>1, <4>2
    <3> QED  BY <1>1, <2>1, <2>2, <2>4, <3>3 DEF Same
  <2> QED  BY <2>3, <2>4 DEF T
<1> QED  BY <1>9, <1>10

\* A vote goes only to a candidate whose log covers the voter's.
LEMMA OnVoteRequestAgreement ==
    ASSUME TypeOK, TypeOK', ElectionInv, ElectionInv', NEW h \in Ledger,
           WritingInv(h), WritingInv(h)', AgreementInv(h),
           NEW m \in msgs, OnVoteRequest(m.dst, m)
    PROVE  AgreementInv(h)'
<1> DEFINE s == m.dst
           c == m.src
           grant == m.term >= currentTerm[s] /\ MayVote(s, m)
<1>1. /\ Steady /\ Untouched(s) /\ s \in Server /\ c \in Server /\ c # s
      /\ m.term \in Nat /\ m.type = "RequestVoteRequest"
  BY ProcessSteady, ProcessTouches, MessageFields
     DEF Process, OnVoteRequest, TypeOK, ElectionInv, NoneToItself
<1>2. log' = log /\ commitIndex' = commitIndex
  BY DEF OnVoteRequest
<1>3. PICK r : /\ r = [type |-> "RequestVoteResponse", src |-> s, dst |-> c,
                      term |-> NewTerm(s, m), granted |-> grant]
               /\ msgs' = msgs \cup {r}
  BY DEF OnVoteRequest, Reply
<1>4. /\ r.type = "RequestVoteResponse" /\ r.src = s /\ r.dst = c
      /\ r.granted = grant /\ r.term = NewTerm(s, m)
  BY <1>3
<1>5. Acks' = Acks /\ Requests' = Requests
  BY <1>3, <1>4 DEF Acks, Requests
<1>a. grant => r.term = m.term
  <2>1. currentTerm[s] \in Nat
    BY <1>1 DEF TypeOK
  <2> QED  BY <1>1, <1>4, <2>1 DEF NewTerm, MaxOf
<1> HIDE DEF s, c
<1>6. ASSUME grant PROVE Covered(h, r)'
  <2>1. Describes(m) /\ m.src = c
    BY <1>1 DEF AgreementInv, CandidatesInv, c
  <2>2. /\ currentTerm'[c] = currentTerm[c] /\ stateName'[c] = stateName[c]
        /\ log'[c] = log[c] /\ r.term = m.term
    BY <1>1, <1>6, <1>a DEF Untouched
  <2>3. r.term <= currentTerm'[c]
    BY <2>1, <2>2 DEF Describes
  <2>4. ASSUME stateName'[c] = "CANDIDATE", r.term = currentTerm'[c]
        PROVE  Covers(h, c, s, m.term)'
    <3>1. m.lastLogIndex = Len(log[c]) /\ m.lastLogTerm = LastLogTerm(log[c])
      BY <2>1, <2>2, <2>4 DEF Describes
    <3>2. UpToDate(log[s], m)
      BY <1>6 DEF MayVote
    <3> SUFFICES ASSUME NEW t \in DOMAIN h, t < m.term, NEW i \in Own(h, t),
                        Acked(h, s, t, i)'
                 PROVE  Same(h[t].log, log[c], i) \/ Lost(h, t, i)'
      BY <2>2 DEF Covers
    <3>3. i \in 1..Len(h[t].log) /\ i \in Nat /\ Acked(h, s, t, i)
      BY <1>5, LedgerFields DEF Own, Acked
    <3>4. Same(h[t].log, log[s], i) \/ Lost(h, t, i)
      BY <1>1, <3>3 DEF AgreementInv, AcksKeptInv, Kept
    <3>5. /\ log[s] \in Seq(Entry) /\ log[c] \in Seq(Entry)
          /\ Written(h, log[s]) /\ Written(h, log[c])
          /\ PagesInv(h) /\ LaterLeadersInv(h)
      BY <1>1 DEF TypeOK, WritingInv, LogsInv, AgreementInv
    <3>6. Same(h[t].log, log[c], i) \/ Lost(h, t, i)
      BY <3>1, <3>2, <3>4, <3>5, NoOlderCovers DEF UpToDate
    <3> QED  BY <1>1, <3>3, <3>6, LostStays, GrowsItself
  <2> QED  BY <1>4, <2>2, <2>3, <2>4 DEF Covered
<1>7. \A n \in Granted' \ Granted : Covered(h, n)'
  BY <1>3, <1>4, <1>6 DEF Granted
<1>8. \A n \in msgs' \ msgs : n.type # "RequestVoteRequest"
  BY <1>3, <1>4
<1> QED  BY <1>1, <1>2, <1>5, <1>7, <1>8, CommitIndexUnmoved, SameLogsAgreement

\* The handlers that touch neither logs nor commit indices keep the agreement.
LEMMA QuietProcessAgreement ==
    ASSUME TypeOK, TypeOK', ElectionInv, ElectionInv', NEW h \in Ledger,
           WritingInv(h), WritingInv(h)', AgreementInv(h), NEW m \in msgs,
           \/ StepDown(m.dst, m) \/ OnVoteResponse(m.dst, m)
           \/ RefuseAppend(m.dst, m) \/ OnAppendFailure(m.dst, m)
    PROVE  AgreementInv(h)'
<1>1. Steady
  BY ProcessSteady DEF Process
<1>2. log' = log /\ commitIndex' = commitIndex
  BY DEF StepDown, OnVoteResponse, RefuseAppend, OnAppendFailure, durable
<1>3. \A n \in msgs' \ msgs : n.type = "AppendEntriesResponse" /\ ~n.success
  BY DEF StepDown, OnVoteResponse, RefuseAppend, OnAppendFailure, Reply
<1>4. Acks' = Acks /\ Granted' = Granted /\ Requests' = Requests
  BY <1>1, <1>3 DEF Acks, Granted, Requests, Steady
<1> QED  BY <1>1, <1>2, <1>3, <1>4, CommitIndexUnmoved, SameLogsAgreement

-----------------------------------------------------------------------------
(* What a leader commits. *)

\* A set of servers and the others make all of them.
LEMMA Parts ==
    ASSUME NEW A \in SUBSET Server, NEW B \in SUBSET Server,
           A \cap B = {}, A \cup B = Server
    PROVE  /\ Cardinality(A) \in Nat /\ Cardinality(B) \in Nat
           /\ Cardinality(A) + Cardinality(B) = Nservers
<1>1. IsFiniteSet(A) /\ IsFiniteSet(B)
  BY ServerAssumption, FS_Subset
<1>2. Cardinality(A) \in Nat /\ Cardinality(B) \in Nat
  BY <1>1, FS_CardinalityType
<1>3. Cardinality(A \cup B) = Cardinality(A) + Cardinality(B) - Cardinality(A \cap B)
  BY <1>1, FS_Union
<1>4. Cardinality(A \cap B) = 0
  BY FS_EmptySet
<1>5. Cardinality(A \cup B) = Nservers
  BY DEF Nservers
<1> QED  BY <1>2, <1>3, <1>4, <1>5

\* The middle of the sorted array: a quorum is not below it.
LEMMA MiddleHeld ==
    ASSUME NEW idx \in [Server -> Nat], NEW top \in Nat, \A p \in Server : idx[p] <= top
    PROVE  /\ SortedMiddle(Server, idx) \in Nat
           /\ Cardinality({p \in Server : idx[p] >= SortedMiddle(Server, idx)})
                  >= CommitQuorumSize(Nservers)
<1> DEFINE Below(i) == {p \in Server : idx[p] < i}
           UpTo(i) == {p \in Server : idx[p] <= i}
           From(i) == {p \in Server : idx[p] >= i}
<1>1. PICK half \in Nat :
         /\ half = Cardinality(Server) \div 2
         /\ half < Nservers /\ CommitQuorumSize(Nservers) = Nservers - half
  BY NserversType DEF Nservers, CommitQuorumSize
<1> DEFINE Middle(i) == Cardinality(Below(i)) <= half /\ Cardinality(UpTo(i)) > half
           V == {i \in Nat : Cardinality(UpTo(i)) > half}
<1>2. ASSUME NEW i \in Nat
      PROVE  /\ Cardinality(Below(i)) \in Nat /\ Cardinality(From(i)) \in Nat
             /\ Cardinality(Below(i)) + Cardinality(From(i)) = Nservers
  <2>1. Below(i) \cap From(i) = {} /\ Below(i) \cup From(i) = Server
    BY <1>2
  <2>2. Below(i) \in SUBSET Server /\ From(i) \in SUBSET Server
    OBVIOUS
  <2> HIDE DEF Below, From
  <2> QED  BY <2>1, <2>2, Parts
<1>3. ASSUME NEW i \in Nat PROVE Cardinality(UpTo(i)) \in Nat
  BY ServerAssumption, FS_Subset, FS_CardinalityType
<1>4. \E i \in {idx[p] : p \in Server} : Middle(i)
  <2>1. UpTo(top) = Server
    OBVIOUS
  <2>2. top \in V /\ V \in SUBSET Nat
    BY <1>1, <2>1 DEF Nservers
  <2> HIDE DEF V
  <2>3. PICK i \in V : \A j \in V : i <= j
    BY <2>2, LeastNatural
  <2>4. i \in Nat /\ Cardinality(UpTo(i)) > half
    BY <2>3 DEF V
  <2>5. Cardinality(Below(i)) <= half
    <3>1. CASE i = 0
      <4>1. Below(i) = {}
        BY <3>1
      <4>2. Cardinality(Below(i)) = 0
        BY <4>1, FS_EmptySet
      <4> HIDE DEF Below
      <4> QED  BY <1>1, <4>2
    <3>2. CASE i # 0
      <4>1. i - 1 \in Nat /\ ~ (i <= i - 1)
        BY <2>4, <3>2
      <4>2. i - 1 \notin V
        BY <2>3, <4>1
      <4>3. ~ (Cardinality(UpTo(i - 1)) > half)
        BY <4>1, <4>2 DEF V
      <4>4. Below(i) = UpTo(i - 1)
        BY <2>4, <4>1
      <4>5. Cardinality(UpTo(i - 1)) \in Nat
        BY <1>3, <4>1
      <4> HIDE DEF UpTo, Below
      <4> QED  BY <1>1, <4>3, <4>4, <4>5
    <3> QED  BY <3>1, <3>2
  <2>6. UpTo(i) # Below(i)
    <3>1. Cardinality(UpTo(i)) \in Nat /\ Cardinality(Below(i)) \in Nat
      BY <1>2, <1>3, <2>4
    <3> HIDE DEF UpTo, Below
    <3> QED  BY <1>1, <2>4, <2>5, <3>1
  <2>7. PICK p \in UpTo(i) : p \notin Below(i)
    BY <2>4, <2>6
  <2>8. i = idx[p] /\ p \in Server
    BY <2>4, <2>7
  <2> QED  BY <2>4, <2>5, <2>8
<1> DEFINE c == SortedMiddle(Server, idx)
<1>5. c = CHOOSE i \in {idx[p] : p \in Server} : Middle(i)
  BY <1>1 DEF SortedMiddle
<1> HIDE DEF c, Middle
<1>6. c \in {idx[p] : p \in Server} /\ Middle(c)
  BY <1>4, <1>5
<1>7. c \in Nat
  BY <1>6
<1>8. Cardinality(Below(c)) <= half
  BY <1>6 DEF Middle
<1> HIDE DEF Below, UpTo
<1>9. Cardinality(From(c)) >= CommitQuorumSize(Nservers)
  <2> HIDE DEF From
  <2> QED  BY <1>1, <1>2, <1>7, <1>8, NserversType
<1> QED  BY <1>7, <1>9 DEF c

\* What CommitAdvance moves the commit index to is committed.
LEMMA AdvanceCommitted ==
    ASSUME TypeOK, TypeOK', NEW h \in Ledger, AcksInv(h)', NEW s \in Server,
           Led(h, currentTerm[s], s, log[s]),
           NEW match \in [Server -> Nat],
           \A p \in Peers(s) :
               \/ match[p] = 0
               \/ \E a \in Acks' : /\ a.src = p /\ a.term = currentTerm[s]
                                   /\ a.matchIndex = match[p],
           NEW c, c = CommitAdvance(s, log[s], match), c # commitIndex[s]
    PROVE  CommittedNext(h, log[s], c, currentTerm[s])
<1> DEFINE idx == [p \in Server |-> IF p = s THEN Len(log[s]) ELSE match[p]]
           q == CommitQuorumSize(Nservers)
<1>0. PICK T \in Nat \ {0} : T = currentTerm[s]
  BY DEF TypeOK
<1>1. /\ log[s] \in Seq(Entry) /\ Len(log[s]) \in Nat /\ commitIndex[s] \in Nat
      /\ T \in DOMAIN h /\ h[T].leader = s /\ h[T].log = log[s]
  BY <1>0 DEF TypeOK, Led
<1>2. idx \in [Server -> Nat]
  BY <1>1
<1>3. ASSUME NEW p \in Server PROVE idx[p] <= Len(log[s])
  <2>1. CASE p = s
    BY <1>1, <2>1
  <2>2. CASE p # s /\ match[p] = 0
    BY <1>1, <2>2
  <2>3. CASE p # s /\ match[p] # 0
    <3>1. PICK a \in Acks' : a.term = T /\ a.matchIndex = match[p]
      BY <1>0, <2>3 DEF Peers
    <3>2. a.matchIndex <= Len(h[a.term].log)
      BY DEF AcksInv, Answers
    <3> QED  BY <1>1, <2>3, <3>1, <3>2
  <2> QED  BY <2>1, <2>2, <2>3
<1> HIDE DEF idx
<1>4. /\ SortedMiddle(Server, idx) \in Nat
      /\ Cardinality({p \in Server : idx[p] >= SortedMiddle(Server, idx)}) >= q
  BY <1>1, <1>2, <1>3, MiddleHeld
<1>5. c = SortedMiddle(Server, idx) /\ LogTerm(log[s], c) = T
  BY <1>0 DEF CommitAdvance, MaxOf, idx
<1>6. c \in 1..Len(log[s]) /\ c \in Nat /\ c # 0 /\ log[s][c].term = T
  BY <1>1, <1>5 DEF LogTerm
<1>7. c \in Own(h, T)
  BY <1>1, <1>6 DEF Own
<1>8. ASSUME NEW p \in Server, idx[p] >= c PROVE Acked(h, p, T, c)'
  <2>1. CASE p = s
    BY <1>1, <2>1 DEF Acked
  <2>2. CASE p # s
    <3>1. idx[p] = match[p] /\ match[p] # 0
      BY <1>2, <1>6, <1>8, <2>2 DEF idx
    <3>2. PICK a \in Acks' : a.src = p /\ a.term = T /\ a.matchIndex = match[p]
      BY <1>0, <2>2, <3>1 DEF Peers
    <3> QED  BY <1>8, <3>1, <3>2 DEF Acked
  <2> QED  BY <2>1, <2>2
<1>9. Committed(h, T, c)'
  <2> DEFINE P == {p \in Server : idx[p] >= c}
             H == Holders(h, T, c)'
  <2>1. P \in SUBSET Server /\ Cardinality(P) >= q
    BY <1>4, <1>5
  <2>2. P \in SUBSET H /\ H \in SUBSET Server
    BY <1>8 DEF Holders
  <2>3. q \in Nat /\ q' = q
    BY CommitQuorumType DEF Nservers
  <2> HIDE DEF P, H, q
  <2>4. Cardinality(H) >= q
    BY <2>1, <2>2, <2>3, Enough
  <2> QED  BY <2>3, <2>4 DEF Committed, H, q
<1>10. Same(log[s], h[T].log, c) /\ c <= c /\ T <= T
  BY <1>1, <1>6 DEF Same
<1>11. CommittedNext(h, log[s], c, T)
  BY <1>1, <1>7, <1>9, <1>10 DEF CommittedNext
<1> QED  BY <1>0, <1>11

\* A single server commits what it holds.
LEMMA SoloCommitAgreement ==
    ASSUME TypeOK, TypeOK', ElectionInv, ElectionInv', NEW h \in Ledger,
           WritingInv(h), WritingInv(h)', AgreementInv(h),
           NEW s \in Server, SoloCommit(s)
    PROVE  AgreementInv(h)'
<1>1. Steady
  BY TimeoutSteady DEF Timeout
<1>2. /\ log' = log /\ msgs' = msgs /\ currentTerm' = currentTerm /\ stateName[s] = "LEADER"
      /\ commitIndex' = [commitIndex EXCEPT ![s] = CommitAdvance(s, log[s], matchIndex[s])]
  BY DEF SoloCommit, durable
<1>3. Acks' = Acks /\ Granted' = Granted /\ Requests' = Requests
  BY <1>2 DEF Acks, Granted, Requests
<1>4. /\ Led(h, currentTerm[s], s, log[s]) /\ AcksInv(h)'
      /\ \A p \in Peers(s) : Cursor(s, p)
  BY <1>2 DEF WritingInv, LeadersInv, CursorsInv
<1>5. ASSUME NEW p \in Server
      PROVE  \/ commitIndex'[p] <= commitIndex[p]
             \/ CommittedNext(h, log'[p], commitIndex'[p], currentTerm'[p])
  <2>1. commitIndex[p] \in Nat /\ commitIndex'[p] \in Nat
    BY DEF TypeOK
  <2>2. CASE commitIndex'[p] = commitIndex[p]
    BY <2>1, <2>2
  <2>3. CASE commitIndex'[p] # commitIndex[p]
    <3>1. p = s /\ commitIndex'[s] = CommitAdvance(s, log[s], matchIndex[s])
      BY <1>2, <2>3 DEF TypeOK
    <3>2. matchIndex[s] \in [Server -> Nat]
      BY DEF TypeOK
    <3>3. \A r \in Peers(s) :
             \/ matchIndex[s][r] = 0
             \/ \E a \in Acks' : /\ a.src = r /\ a.term = currentTerm[s]
                                 /\ a.matchIndex = matchIndex[s][r]
      BY <1>3, <1>4 DEF Cursor
    <3> QED  BY <1>2, <1>4, <2>3, <3>1, <3>2, <3>3, AdvanceCommitted
  <2> QED  BY <2>2, <2>3
<1> QED  BY <1>1, <1>2, <1>3, <1>5, SameLogsAgreement

\* A leader commits what a quorum acknowledged.
LEMMA OnAppendSuccessAgreement ==
    ASSUME TypeOK, TypeOK', ElectionInv, ElectionInv', NEW h \in Ledger,
           WritingInv(h), WritingInv(h)', AgreementInv(h),
           NEW m \in msgs, OnAppendSuccess(m.dst, m)
    PROVE  AgreementInv(h)'
<1> DEFINE s == m.dst
           match == [matchIndex[s] EXCEPT ![m.src] = MaxOf(@, m.matchIndex)]
<1>1. Steady /\ s \in Server
  BY ProcessSteady, ProcessTouches DEF Process
<1>2. /\ log' = log /\ msgs' = msgs /\ currentTerm' = currentTerm /\ stateName' = stateName
      /\ stateName[s] = "LEADER"
      /\ matchIndex' = [matchIndex EXCEPT ![s] = match]
      /\ commitIndex' = [commitIndex EXCEPT ![s] = CommitAdvance(s, log[s], match)]
  BY DEF OnAppendSuccess, durable
<1> HIDE DEF s
<1>3. Acks' = Acks /\ Granted' = Granted /\ Requests' = Requests
  BY <1>2 DEF Acks, Granted, Requests
<1>4. /\ Led(h, currentTerm[s], s, log[s]) /\ AcksInv(h)'
      /\ \A p \in Peers(s) : Cursor(s, p)'
  BY <1>1, <1>2 DEF WritingInv, LeadersInv, CursorsInv, Peers
<1> HIDE DEF match
<1>5. match = matchIndex'[s] /\ match \in [Server -> Nat]
  BY <1>1, <1>2 DEF TypeOK
<1>6. ASSUME NEW p \in Server
      PROVE  \/ commitIndex'[p] <= commitIndex[p]
             \/ CommittedNext(h, log'[p], commitIndex'[p], currentTerm'[p])
  <2>1. commitIndex[p] \in Nat /\ commitIndex'[p] \in Nat
    BY DEF TypeOK
  <2>2. CASE commitIndex'[p] = commitIndex[p]
    BY <2>1, <2>2
  <2>3. CASE commitIndex'[p] # commitIndex[p]
    <3>1. p = s /\ commitIndex'[s] = CommitAdvance(s, log[s], match)
      BY <1>2, <2>3 DEF TypeOK
    <3>2. \A r \in Peers(s) :
             \/ match[r] = 0
             \/ \E a \in Acks' : /\ a.src = r /\ a.term = currentTerm[s]
                                 /\ a.matchIndex = match[r]
      BY <1>2, <1>4, <1>5 DEF Cursor
    <3> QED  BY <1>1, <1>2, <1>4, <1>5, <2>3, <3>1, <3>2, AdvanceCommitted
  <2> QED  BY <2>2, <2>3
<1> QED  BY <1>1, <1>2, <1>3, <1>6, SameLogsAgreement

-----------------------------------------------------------------------------
(* Taking a leader's entries in. *)

\* What can still be committed survives in every log OnAppendEntries leaves.
LEMMA OutcomeKeeps ==
    ASSUME TypeOK, NEW h \in Ledger, WritingInv(h), LaterLeadersInv(h), NEW s \in Server,
           NEW m \in Requests, Matches(log[s], m), NEW o \in Outcomes(log[s], m),
           NEW t \in DOMAIN h, t <= m.term, NEW i \in 1..Len(h[t].log),
           t = m.term \/ (i \in Own(h, t) /\ ~ Lost(h, t, i)),
           NEW c \in Nat, c <= i, Same(h[t].log, log[s], c)
    PROVE  Same(h[t].log, o, c)
<1> DEFINE L == h[m.term].log
           P == h[t].log
<1>1. /\ m.term \in DOMAIN h /\ L \in Seq(Entry) /\ o \in Seq(Entry)
      /\ \A j \in Nat : Same(L, log[s], j) => Same(L, o, j)
  BY RequestFollows
<1>2. /\ P \in Seq(Entry) /\ i \in Nat /\ c <= Len(P) /\ i <= Len(P)
      /\ t \in Nat /\ m.term \in Nat /\ log[s] \in Seq(Entry)
  <2>1. P \in Seq(Entry) /\ t \in Nat /\ m.term \in Nat /\ log[s] \in Seq(Entry)
    BY <1>1, LedgerFields DEF TypeOK
  <2> HIDE DEF P
  <2>2. i \in Nat /\ i <= Len(P)
    BY <2>1 DEF P
  <2> QED  BY <2>1, <2>2
<1>3. Same(P, L, c)
  <2>1. CASE t = m.term
    BY <1>2, <2>1 DEF Same
  <2>2. CASE t # m.term
    <3>1. t < m.term
      BY <1>2, <2>2
    <3>2. Same(P, L, i)
      BY <1>1, <2>2, <3>1 DEF LaterLeadersInv
    <3> HIDE DEF P, L
    <3> QED  BY <1>1, <1>2, <3>2, SameShorter
  <2> QED  BY <2>1, <2>2
<1> HIDE DEF P, L
<1>4. Same(P, log[s], c)
  BY DEF P
<1>5. Same(L, log[s], c)
  BY <1>3, <1>4 DEF Same
<1>6. Same(L, o, c)
  BY <1>1, <1>5
<1>7. Same(P, o, c)
  BY <1>3, <1>6 DEF Same
<1> QED  BY <1>7 DEF P

\* The terms a server acknowledged anything in are not past its own.
LEMMA AckedTerms ==
    ASSUME NEW h \in Ledger, WritingInv(h), NEW t \in DOMAIN h, NEW p \in Server, NEW i,
           Acked(h, p, t, i)
    PROVE  t <= currentTerm[p]
BY DEF Acked, WritingInv, ElectedInv, Elected, AcksInv, Answers

\* Taking a request in removes nothing that can still be committed.
LEMMA TakeInAgreement ==
    ASSUME TypeOK, TypeOK', ElectionInv, ElectionInv', Steady, NEW h \in Ledger,
           WritingInv(h), WritingInv(h)', AgreementInv(h),
           NEW s \in Server, Untouched(s), NEW m \in Requests,
           m.term >= currentTerm[s], currentTerm'[s] = m.term,
           \/ log'[s] = log[s]
           \/ Matches(log[s], m) /\ log'[s] \in Outcomes(log[s], m),
           \/ commitIndex'[s] <= commitIndex[s]
           \/ Matches(log[s], m) /\ log'[s] = Merge(log[s], m) /\ commitIndex'[s] = m.leaderCommit,
           Requests' = Requests, Granted' = Granted,
           \A n \in msgs' \ msgs : n.type # "RequestVoteRequest",
           \A a \in Acks' \ Acks :
               /\ a.src = s /\ a.term = m.term
               /\ a.matchIndex <= m.prevLogIndex + Len(m.entries)
               /\ Matches(log[s], m) /\ log'[s] = Merge(log[s], m)
    PROVE  AgreementInv(h)'
<1> DEFINE T == m.term
           L == h[T].log
           n == m.prevLogIndex + Len(m.entries)
<1>1. Grows(h, h) /\ FreshOf(h, h, s)
  BY GrowsItself, NothingFresh
<1>2. /\ m \in Message /\ m.type = "AppendEntriesRequest" /\ Quotes(h, m)
      /\ CommittedBy(h, L, m.leaderCommit, T)
  BY DEF Requests, TypeOK, WritingInv, RequestsInv, AgreementInv, CommitInv
<1>3. /\ T \in Nat /\ T \in DOMAIN h /\ L \in Seq(Entry)
      /\ n \in Nat /\ m.leaderCommit \in Nat /\ m.leaderCommit <= n
  BY <1>2, MessageFields, LedgerFields DEF Quotes
<1>4. /\ log[s] \in Seq(Entry) /\ log'[s] \in Seq(Entry)
      /\ currentTerm[s] \in Nat /\ currentTerm[s] <= T
      /\ commitIndex[s] \in Nat /\ commitIndex'[s] \in Nat
  BY <1>3 DEF TypeOK
<1>5. ASSUME Matches(log[s], m), log'[s] = Merge(log[s], m)
      PROVE  \A i \in Nat : i <= n => Same(L, log'[s], i)
  <2>1. Same(log'[s], L, n)
    BY <1>5, RequestFollows
  <2> HIDE DEF L, n
  <2> QED  BY <1>3, <1>4, <2>1 DEF Same
<1> HIDE DEF L, n
<1>6. LaterLeadersInv(h)'
  BY <1>1, LaterKept DEF AgreementInv
<1>7. ASSUME NEW t \in DOMAIN h, NEW i \in 1..Len(h[t].log), Acked(h, s, t, i)'
      PROVE  Kept(h, s, t, i)'
  <2>1. t \in Nat /\ i \in Nat
    BY LedgerFields
  <2>2. CASE ~ Acked(h, s, t, i)
    <3>1. PICK a \in Acks' : a.src = s /\ a.term = t /\ a.matchIndex >= i /\ a \notin Acks
      BY <1>7, <2>2 DEF Acked
    <3>2. t = T /\ a.matchIndex <= n /\ Matches(log[s], m) /\ log'[s] = Merge(log[s], m)
      BY <3>1 DEF n
    <3>3. a.matchIndex \in Nat
      BY <3>1, MessageFields DEF Acks, TypeOK
    <3>4. i <= n
      BY <1>3, <2>1, <3>1, <3>2, <3>3
    <3> QED  BY <1>5, <2>1, <3>2, <3>4 DEF Kept, L
  <2>3. CASE Acked(h, s, t, i)
    <3>1. Kept(h, s, t, i)
      BY <2>3 DEF AgreementInv, AcksKeptInv
    <3>2. t <= T
      <4>1. t <= currentTerm[s]
        BY <2>3, AckedTerms
      <4> QED  BY <1>3, <1>4, <2>1, <4>1
    <3>3. CASE t # T /\ (i \in Own(h, t) => Lost(h, t, i))
      <4>1. t < currentTerm'[s]
        BY <1>3, <2>1, <3>2, <3>3
      <4>2. i \in Own(h, t) => Lost(h, t, i)'
        BY <1>1, <2>1, <3>3, LostStays
      <4> QED  BY <4>1, <4>2 DEF Kept
    <3>4. CASE t = T \/ (i \in Own(h, t) /\ ~ Lost(h, t, i))
      <4>1. Same(h[t].log, log[s], i) => Same(h[t].log, log'[s], i)
        <5>1. i <= i
          BY <2>1
        <5> QED  BY <2>1, <3>2, <3>4, <5>1, OutcomeKeeps DEF AgreementInv
      <4> QED  BY <1>1, <3>1, <4>1, KeptStays
    <3> QED  BY <3>3, <3>4
  <2> QED  BY <2>2, <2>3
<1>8. ASSUME NEW p \in Server, p # s PROVE Holds(h, p)
  <2>1. log'[p] = log[p] /\ log[p] \in Seq(Entry)
    BY <1>8 DEF Untouched, TypeOK
  <2>2. Same(log[p], log'[p], Len(log[p]))
    BY <2>1 DEF Same
  <2> QED  BY <1>8, <2>2 DEF Holds, Acked
<1>9. AcksKeptInv(h)'
  BY <1>1, <1>7, <1>8, AcksKeptStay DEF AgreementInv
<1>10. CandidatesInv'
  BY CandidatesStay DEF AgreementInv
<1>11. VotesInv(h)'
  BY <1>1, VotesStay DEF AgreementInv
<1>12. CommittedNext(h, log'[s], commitIndex'[s], T)
  <2>1. CASE commitIndex'[s] <= commitIndex[s]
    <3>1. CommittedBy(h, log[s], commitIndex[s], currentTerm[s])
      BY DEF AgreementInv, CommitInv
    <3>2. CASE commitIndex[s] = 0
      BY <1>4, <2>1, <3>2 DEF CommittedNext
    <3>3. CASE commitIndex[s] # 0
      <4>1. PICK t \in DOMAIN h :
               /\ t <= currentTerm[s]
               /\ \E i \in Own(h, t) : /\ commitIndex[s] <= i /\ Committed(h, t, i)
                                       /\ Same(log[s], h[t].log, commitIndex[s])
        BY <3>1, <3>3 DEF CommittedBy
      <4>2. PICK i \in Own(h, t) : /\ commitIndex[s] <= i /\ Committed(h, t, i)
                                   /\ Same(log[s], h[t].log, commitIndex[s])
        BY <4>1
      <4>3. t \in Nat /\ h[t].log \in Seq(Entry) /\ i \in 1..Len(h[t].log) /\ ~ Lost(h, t, i)
        BY <4>2, LedgerFields, CommittedNotLost DEF Own
      <4>4. t <= T
        BY <1>3, <1>4, <4>1, <4>3
      <4>5. Same(h[t].log, log[s], commitIndex[s])
        BY <4>2 DEF Same
      <4>6. Same(h[t].log, log'[s], commitIndex[s])
        BY <1>4, <4>2, <4>3, <4>4, <4>5, OutcomeKeeps DEF AgreementInv
      <4>7. Same(log[s], log'[s], commitIndex'[s])
        <5>1. Same(log[s], log'[s], commitIndex[s])
          BY <1>4, <4>2, <4>3, <4>6, SameTrans
        <5> QED  BY <1>4, <2>1, <5>1, SameShorter
      <4> HIDE DEF T
      <4> QED  BY <1>1, <1>3, <1>4, <2>1, <3>1, <4>7, CommittedLess
    <3> QED  BY <3>2, <3>3
  <2>2. CASE Matches(log[s], m) /\ log'[s] = Merge(log[s], m) /\ commitIndex'[s] = m.leaderCommit
    <3>1. Same(L, log'[s], m.leaderCommit)
      BY <1>3, <1>5, <2>2
    <3>2. m.leaderCommit <= m.leaderCommit /\ T <= T
      BY <1>3
    <3> HIDE DEF T
    <3> QED  BY <1>1, <1>2, <1>3, <1>4, <2>2, <3>1, <3>2, CommittedLess
  <2> QED  BY <2>1, <2>2
<1>13. ASSUME NEW p \in Server
       PROVE  CommittedNext(h, log'[p], commitIndex'[p], currentTerm'[p])
  <2>1. CASE p = s
    BY <1>12, <2>1
  <2>2. CASE p # s
    <3>1. Same(log[p], log'[p], Len(log[p]))
      BY <1>8, <2>2 DEF Holds
    <3>2. commitIndex'[p] = commitIndex[p] /\ commitIndex[p] \in Nat
      BY <1>13, <2>2 DEF Untouched, TypeOK
    <3>3. commitIndex'[p] <= commitIndex[p]
      BY <3>2
    <3> QED  BY <1>1, <3>1, <3>3, CommitHolds DEF AgreementInv
  <2> QED  BY <2>1, <2>2
<1>14. CommitInv(h)'
  BY <1>1, <1>13, CommitStays DEF AgreementInv, WritingInv
<1> QED  BY <1>6, <1>9, <1>10, <1>11, <1>14 DEF AgreementInv

\* OnAppendEntries keeps the agreement.
LEMMA AcceptAppendAgreement ==
    ASSUME TypeOK, TypeOK', ElectionInv, ElectionInv', NEW h \in Ledger,
           WritingInv(h), WritingInv(h)', AgreementInv(h),
           NEW m \in msgs, AcceptAppend(m.dst, m)
    PROVE  AgreementInv(h)'
<1> DEFINE s == m.dst
           ok == Matches(log[s], m)
<1>1. Steady /\ s \in Server /\ Untouched(s)
  BY ProcessSteady, ProcessTouches DEF Process
<1>2. AcceptAppend(s, m)
  OBVIOUS
<1> HIDE DEF s
<1>3. /\ m \in Requests /\ m.term >= currentTerm[s] /\ currentTerm'[s] = m.term
      /\ log'[s] = IF ok THEN Merge(log[s], m) ELSE log[s]
      /\ commitIndex'[s] = IF ok THEN MaxOf(commitIndex[s], m.leaderCommit) ELSE commitIndex[s]
      /\ commitIndex[s] \in Nat
  BY <1>1, <1>2 DEF AcceptAppend, Requests, TypeOK
<1>4. msgs' = msgs \cup {[type |-> "AppendEntriesResponse", src |-> s, dst |-> m.src,
                 term |-> m.term, matchIndex |-> IF ok THEN LastMatched(log[s], m) ELSE 0,
                 success |-> ok]}
  BY <1>2 DEF AcceptAppend, Reply
<1>5. Requests' = Requests /\ Granted' = Granted
  BY <1>4 DEF Requests, Granted
<1>6. \A n \in msgs' \ msgs : n.type # "RequestVoteRequest"
  BY <1>4
<1>7. ASSUME NEW a \in Acks' \ Acks
      PROVE  /\ a.src = s /\ a.term = m.term
             /\ a.matchIndex <= m.prevLogIndex + Len(m.entries)
             /\ ok /\ log'[s] = Merge(log[s], m)
  <2>1. /\ a.src = s /\ a.term = m.term /\ ok
        /\ a.matchIndex = m.prevLogIndex + Len(m.entries)
    BY <1>4 DEF Acks, LastMatched
  <2>2. m \in Message /\ m.type = "AppendEntriesRequest"
    BY <1>3 DEF Requests, TypeOK
  <2>3. m.prevLogIndex \in Nat /\ m.entries \in Seq(Entry)
    BY <2>2, MessageFields
  <2>4. Len(m.entries) \in Nat
    BY <2>3
  <2>5. a.matchIndex <= m.prevLogIndex + Len(m.entries)
    BY <2>1, <2>3, <2>4
  <2> QED  BY <1>3, <2>1, <2>5
<1>8. \/ log'[s] = log[s]
      \/ ok /\ log'[s] \in Outcomes(log[s], m)
  BY <1>3 DEF Outcomes
<1>9. \/ commitIndex'[s] <= commitIndex[s]
      \/ ok /\ log'[s] = Merge(log[s], m) /\ commitIndex'[s] = m.leaderCommit
  BY <1>3 DEF MaxOf
<1> QED  BY <1>1, <1>3, <1>5, <1>6, <1>7, <1>8, <1>9, TakeInAgreement

\* So does a crash inside its loop, wherever the log was cut.
LEMMA CrashInAppendAgreement ==
    ASSUME TypeOK, TypeOK', ElectionInv, ElectionInv', NEW h \in Ledger,
           WritingInv(h), WritingInv(h)', AgreementInv(h),
           NEW s \in Server, NEW m \in msgs, CrashInAppend(s, m)
    PROVE  AgreementInv(h)'
<1>1. Steady /\ Untouched(s) /\ msgs' = msgs /\ commitIndex'[s] = 0
  BY CrashSteady, CrashTouches DEF Crash
<1>2. /\ m \in Requests /\ m.term >= currentTerm[s] /\ currentTerm'[s] = m.term
      /\ Matches(log[s], m) /\ log'[s] \in Outcomes(log[s], m)
      /\ commitIndex[s] \in Nat
  BY DEF CrashInAppend, Requests, Outcomes, TypeOK
<1>3. Requests' = Requests /\ Acks' = Acks /\ Granted' = Granted
  BY <1>1 DEF Requests, Acks, Granted
<1>4. commitIndex'[s] <= commitIndex[s]
  BY <1>1, <1>2
<1> QED  BY <1>1, <1>2, <1>3, <1>4, TakeInAgreement

-----------------------------------------------------------------------------
(* Writing. *)

\* So does a leader that writes, when it has what the terms before it may commit.
LEMMA WriteAgreement ==
    ASSUME TypeOK, TypeOK', ElectionInv, ElectionInv', Steady,
           NEW h \in Ledger, NEW k \in Ledger, Grows(h, k),
           WritingInv(h), WritingInv(k)', AgreementInv(h),
           NEW s \in Server, Untouched(s), NEW t, t = currentTerm'[s],
           NEW e \in Entry, log'[s] = Append(log[s], e),
           Entered(h, k, t, s, log'[s]), OpenTo(h, t, s, log[s]),
           t \notin DOMAIN h =>
               \A u \in DOMAIN h : u < t =>
                   \A i \in Own(h, u) : Same(h[u].log, log[s], i) \/ Lost(h, u, i),
           \A p \in Server : \/ commitIndex'[p] <= commitIndex[p]
                             \/ CommittedNext(k, log'[p], commitIndex'[p], currentTerm'[p]),
           Acks' = Acks, Granted' = Granted,
           \A m \in msgs' \ msgs : m.type # "RequestVoteRequest",
           \A m \in Requests' \ Requests :
               CommittedNext(k, k[m.term].log, m.leaderCommit, m.term)
    PROVE  AgreementInv(k)'
<1>1. /\ DOMAIN k = DOMAIN h \cup {t} /\ k[t].leader = s /\ k[t].log = log'[s]
      /\ \A u \in DOMAIN h \ {t} : k[u] = h[u]
  BY DEF Entered
<1>2. log[s] \in Seq(Entry) /\ log'[s] \in Seq(Entry) /\ Same(log[s], log'[s], Len(log[s]))
  <2>1. log[s] \in Seq(Entry)
    BY DEF TypeOK
  <2> QED  BY <2>1, AppendProperties DEF Same
<1>3. FreshOf(h, k, s)
  <2> SUFFICES ASSUME NEW u \in DOMAIN k, NEW i \in 1..Len(k[u].log), NewIn(h, u, i)
               PROVE  /\ u = currentTerm'[s] /\ k[u].log = log'[s]
                      /\ \A p \in Server : Acked(k, p, u, i)' => p = s
    BY DEF FreshOf
  <2>1. u = t
    <3> SUFFICES ASSUME u # t PROVE FALSE
      OBVIOUS
    <3>1. u \in DOMAIN h /\ k[u] = h[u] /\ h[u].log \in Seq(Entry)
      BY <1>1, LedgerFields
    <3> QED  BY <3>1 DEF NewIn
  <2>2. ASSUME NEW a \in Acks, a.term = t, a.matchIndex >= i PROVE FALSE
    <3>1. t \in DOMAIN h /\ a.matchIndex <= Len(h[t].log)
      BY <2>2 DEF WritingInv, AcksInv, Answers
    <3>2. a.matchIndex \in Nat
      BY MessageFields DEF Acks, TypeOK
    <3>3. h[t].log \in Seq(Entry) /\ k[t].log \in Seq(Entry)
      BY <3>1, <1>1, LedgerFields
    <3>4. i \in Nat /\ Len(h[t].log) \in Nat
      BY <2>1, <3>3
    <3>5. i <= Len(h[t].log)
      BY <2>2, <3>1, <3>2, <3>4
    <3> QED  BY <2>1, <3>1, <3>5 DEF NewIn
  <2> QED  BY <1>1, <2>1, <2>2 DEF Acked
<1>4. ASSUME NEW u \in DOMAIN k \ DOMAIN h, NEW v \in DOMAIN h, v < u, NEW i \in Own(h, v)
      PROVE  Same(h[v].log, k[u].log, i) \/ Lost(h, v, i)
  <2>1. u = t
    BY <1>1, <1>4
  <2>2. Same(h[v].log, log[s], i) \/ Lost(h, v, i)
    BY <1>4, <2>1
  <2>3. h[v].log \in Seq(Entry) /\ i \in Nat
    BY LedgerFields DEF Own
  <2>4. Same(h[v].log, log[s], i) => Same(h[v].log, log'[s], i)
    BY <1>2, <2>3, SameExtended
  <2> QED  BY <1>1, <2>1, <2>2, <2>4
<1>5. LaterLeadersInv(k)'
  BY <1>3, <1>4, LaterKept DEF AgreementInv
<1>6. ASSUME NEW p \in Server PROVE Same(log[p], log'[p], Len(log[p]))
  <2>1. CASE p = s
    BY <1>2, <2>1
  <2>2. CASE p # s
    <3>1. log'[p] = log[p] /\ log[p] \in Seq(Entry)
      BY <1>6, <2>2 DEF Untouched, TypeOK
    <3> QED  BY <3>1 DEF Same
  <2> QED  BY <2>1, <2>2
<1>7. \A p \in Server : Holds(h, p)
  BY <1>6 DEF Holds, Acked
<1>8. AcksKeptInv(k)'
  BY <1>3, <1>7, AcksKeptStay DEF AgreementInv
<1>9. CandidatesInv'
  BY CandidatesStay DEF AgreementInv
<1>10. VotesInv(k)'
  BY <1>3, VotesStay DEF AgreementInv
<1>11. \A p \in Server : CommittedNext(k, log'[p], commitIndex'[p], currentTerm'[p])
  BY <1>6, CommitHolds DEF AgreementInv
<1>12. CommitInv(k)'
  BY <1>11, CommitStays DEF AgreementInv, WritingInv
<1> QED  BY <1>5, <1>8, <1>9, <1>10, <1>12 DEF AgreementInv

\* A leader that appends a command has that already.
LEMMA AppendValueAgreement ==
    ASSUME TypeOK, TypeOK', ElectionInv, ElectionInv', NEW h \in Ledger, WritingInv(h),
           AgreementInv(h), NEW s \in Server, NEW v \in Value, AppendValue(s, v),
           NEW k \in Ledger, Entered(h, k, currentTerm[s], s, log'[s]), Grows(h, k),
           WritingInv(k)'
    PROVE  AgreementInv(k)'
<1>1. Steady /\ Untouched(s)
  BY AppendSteady
<1>2. PICK t \in Nat : t = currentTerm[s]
  BY DEF TypeOK
<1>3. PICK e \in Entry : e = [term |-> currentTerm[s], value |-> v]
  BY DEF TypeOK, Entry
<1>4. /\ t = currentTerm'[s] /\ log'[s] = Append(log[s], e) /\ stateName[s] = "LEADER"
      /\ msgs' = msgs /\ commitIndex' = commitIndex
  BY <1>2, <1>3 DEF AppendValue, TypeOK
<1>5. Led(h, t, s, log[s])
  BY <1>2, <1>4 DEF WritingInv, LeadersInv
<1>6. OpenTo(h, t, s, log[s]) /\ t \in DOMAIN h
  BY <1>5 DEF OpenTo, Led
<1>7. Requests' = Requests /\ Acks' = Acks /\ Granted' = Granted
  BY <1>4 DEF Requests, Acks, Granted
<1>8. \A p \in Server : commitIndex'[p] <= commitIndex[p]
  BY <1>4, CommitIndexUnmoved
<1> QED  BY <1>1, <1>2, <1>4, <1>6, <1>7, <1>8, WriteAgreement

\* Whoever a quorum elects has all that can still be committed: the voter it
\* shares with those who may hold an entry has the entry, and compared the logs.
LEMMA ElectorsCover ==
    ASSUME TypeOK, ElectionInv, NEW h \in Ledger, AgreementInv(h),
           NEW s \in Server, stateName[s] = "CANDIDATE",
           NEW T, T = currentTerm[s], Cardinality(Electors(s, T)) >= MinVotes(Nservers),
           NEW u \in DOMAIN h, u < T, NEW i \in Own(h, u)
    PROVE  Same(h[u].log, log[s], i) \/ Lost(h, u, i)
<1> SUFFICES ASSUME ~ Lost(h, u, i) PROVE Same(h[u].log, log[s], i)
  OBVIOUS
<1> DEFINE P == MayHold(h, u, i)
           Q == Electors(s, T)
<1>1. P \in SUBSET Server /\ Q \in SUBSET Server
  BY GrantedToType DEF MayHold, Electors, ElectionInv
<1>2. Cardinality(P) >= CommitQuorumSize(Nservers)
  BY DEF Lost
<1> HIDE DEF P, Q
<1>3. PICK p \in P \cap Q : TRUE
  BY <1>1, <1>2, QuorumsMeet DEF Q
<1>4. /\ p \in Server /\ (currentTerm[p] <= u \/ Acked(h, p, u, i))
      /\ p = s \/ p \in GrantedTo(s, T)
  BY <1>3 DEF P, Q, MayHold, Electors
<1>5. u \in Nat /\ T \in Nat /\ currentTerm[p] \in Nat /\ i \in 1..Len(h[u].log)
  BY <1>4, LedgerFields DEF Own, TypeOK
<1>6. CASE p = s
  <2>1. Acked(h, s, u, i)
    BY <1>4, <1>5, <1>6
  <2>2. Kept(h, s, u, i)
    BY <1>5, <2>1 DEF AgreementInv, AcksKeptInv
  <2> QED  BY <2>2 DEF Kept
<1>7. CASE p # s
  <2>1. PICK m \in Granted : m.src = p /\ m.dst = s /\ m.term = T
    BY <1>4, <1>7 DEF GrantedTo
  <2>2. T <= currentTerm[p]
    BY <2>1 DEF ElectionInv, VotesRemembered
  <2>3. Acked(h, p, u, i)
    BY <1>4, <1>5, <2>2
  <2>4. Covers(h, s, p, T)
    BY <2>1 DEF AgreementInv, VotesInv, Covered
  <2> QED  BY <2>3, <2>4 DEF Covers
<1> QED  BY <1>6, <1>7

\* A new leader has it from the quorum that elected it.
LEMMA WinElectionAgreement ==
    ASSUME TypeOK, TypeOK', ElectionInv, ElectionInv', NEW h \in Ledger, WritingInv(h),
           AgreementInv(h), NEW s \in Server, WinElection(s),
           currentTerm[s] \notin DOMAIN h,
           NEW k \in Ledger, Entered(h, k, currentTerm[s], s, log'[s]), Grows(h, k),
           WritingInv(k)'
    PROVE  AgreementInv(k)'
<1>1. Steady /\ Untouched(s)
  BY TimeoutSteady, TimeoutTouches DEF Timeout
<1>2. PICK t \in Nat : t = currentTerm[s]
  BY DEF TypeOK
<1>3. PICK e \in Entry : e = [term |-> currentTerm[s], value |-> Stub]
  BY DEF TypeOK, Entry
<1>4. /\ t = currentTerm'[s] /\ log'[s] = Append(log[s], e) /\ stateName[s] = "CANDIDATE"
      /\ commitIndex' = commitIndex /\ log[s] \in Seq(Entry)
  BY <1>2, <1>3 DEF WinElection, TypeOK
<1>5. msgs' = msgs \cup {CreateAppendEntries(s, d)' : d \in Peers(s)}
  BY DEF WinElection
<1>6. \A m \in msgs' \ msgs : m.type = "AppendEntriesRequest"
  BY <1>5 DEF CreateAppendEntries
<1>7. Acks' = Acks /\ Granted' = Granted
  BY <1>1, <1>6 DEF Acks, Granted, Steady
<1>8. OpenTo(h, t, s, log[s])
  BY <1>2 DEF OpenTo
<1>9. ASSUME NEW u \in DOMAIN h, u < t, NEW i \in Own(h, u)
      PROVE  Same(h[u].log, log[s], i) \/ Lost(h, u, i)
  <2>1. Cardinality(Electors(s, t)) >= MinVotes(Nservers)
    BY <1>2, WinnerHasQuorum
  <2> QED  BY <1>2, <1>4, <1>9, <2>1, ElectorsCover
<1>10. \A p \in Server : commitIndex'[p] <= commitIndex[p]
  BY <1>4, CommitIndexUnmoved
<1>11. k[t].log = log'[s] /\ k[t].leader = s /\ t \in DOMAIN k
  BY <1>2 DEF Entered
<1>12. ASSUME NEW m \in Requests' \ Requests
       PROVE  CommittedNext(k, k[m.term].log, m.leaderCommit, m.term)
  <2>1. PICK d \in Peers(s) : m = CreateAppendEntries(s, d)'
    BY <1>5, <1>12 DEF Requests
  <2>2. /\ d \in Server /\ log'[s] \in Seq(Entry) /\ batchSize'[s][d] \in Nat
        /\ matchIndex'[s][d] \in Nat /\ commitIndex'[s] \in Nat
        /\ nextIndex'[s][d] \in Nat \ {0}
    BY DEF TypeOK, Peers
  <2>3. m = Request(s, d, t, log'[s], nextIndex'[s][d], matchIndex'[s][d],
                    batchSize'[s][d], commitIndex'[s])
    BY <1>4, <2>1 DEF CreateAppendEntries, SentCommit, Request
  <2>4. nextIndex'[s][d] <= Len(log'[s]) + 1
    <3>1. nextIndex'[s][d] = Len(log[s]) + 1
      BY <2>2 DEF WinElection, FreshVolatile, AllFrom, TypeOK
    <3>2. Len(log'[s]) = Len(log[s]) + 1 /\ Len(log[s]) \in Nat
      BY <1>4
    <3> QED  BY <3>1, <3>2
  <2>5. Led(k, t, s, log'[s])
    BY <1>11 DEF Led
  <2>6. m.term = t /\ m.leaderCommit \in Nat /\ m.leaderCommit <= commitIndex'[s]
    <3>1. m.leaderCommit \in Nat /\ m.leaderCommit <= commitIndex'[s]
      BY <2>2, <2>3, <2>4, <2>5, RequestQuotes
    <3>2. m.term = t
      BY <2>3 DEF Request
    <3> QED  BY <3>1, <3>2
  <2>7. CommittedBy(h, log[s], commitIndex[s], currentTerm[s])
    BY DEF AgreementInv, CommitInv
  <2>8. commitIndex[s] \in Nat /\ t <= t /\ currentTerm[s] \in Nat
    BY DEF TypeOK
  <2>9. commitIndex[s] <= Len(log[s]) => Same(log[s], log'[s], m.leaderCommit)
    <3>1. Same(log[s], log'[s], Len(log[s]))
      BY <1>4, AppendProperties DEF Same
    <3>2. Len(log[s]) \in Nat
      BY <1>4
    <3>3. m.leaderCommit <= commitIndex[s]
      BY <1>4, <2>6
    <3> QED  BY <1>4, <2>2, <2>6, <2>8, <3>1, <3>2, <3>3 DEF Same
  <2>10. m.leaderCommit <= commitIndex[s]
    BY <1>4, <2>6
  <2>11. CommittedNext(k, log'[s], m.leaderCommit, t)
    <3>1. t \in Nat /\ currentTerm[s] <= t /\ log[s] \in Seq(Entry) /\ log'[s] \in Seq(Entry)
      BY <1>2, <1>4, <2>2, <2>8
    <3>2. Steady /\ m.leaderCommit \in Nat
      BY <1>1, <2>6
    <3> QED  BY <2>7, <2>8, <2>9, <2>10, <3>1, <3>2, CommittedLess
  <2> QED  BY <1>11, <2>6, <2>11
<1>13. \A m \in msgs' \ msgs : m.type # "RequestVoteRequest"
  BY <1>6
<1> QED  BY <1>1, <1>2, <1>4, <1>7, <1>8, <1>9, <1>10, <1>12, <1>13, WriteAgreement

\* A single server has what it wrote, and commits it alone.
LEMMA SoloElectionAgreement ==
    ASSUME TypeOK, TypeOK', ElectionInv, ElectionInv', NEW h \in Ledger, WritingInv(h),
           AgreementInv(h), NEW s \in Server, SoloElection(s),
           currentTerm'[s] \notin DOMAIN h,
           NEW k \in Ledger, Entered(h, k, currentTerm'[s], s, log'[s]), Grows(h, k),
           WritingInv(k)'
    PROVE  AgreementInv(k)'
<1>1. Steady /\ Untouched(s)
  BY TimeoutSteady, TimeoutTouches DEF Timeout
<1>2. PICK t \in Nat \ {0} : t = currentTerm'[s]
  BY DEF TypeOK
<1>3. PICK e \in Entry : e = [term |-> t, value |-> Stub]
  BY <1>2 DEF Entry
<1>4. /\ log'[s] = Append(log[s], e) /\ msgs' = msgs
      /\ log[s] \in Seq(Entry) /\ commitIndex'[s] = Len(log'[s])
  BY <1>2, <1>3 DEF SoloElection, TypeOK
<1>5. Server = {s} /\ Nservers = 1
  <2>1. Server = {s}
    BY SoloServer DEF SoloElection
  <2> QED  BY <2>1, FS_Singleton DEF Nservers
<1>6. Requests' = Requests /\ Acks' = Acks /\ Granted' = Granted
  BY <1>4 DEF Requests, Acks, Granted
<1>7. OpenTo(h, t, s, log[s])
  BY <1>2 DEF OpenTo
<1>8. ASSUME NEW u \in DOMAIN h, NEW i \in Own(h, u)
      PROVE  Same(h[u].log, log[s], i) \/ Lost(h, u, i)
  <2>1. h[u].leader = s /\ i \in 1..Len(h[u].log)
    BY <1>5, LedgerFields DEF Own
  <2>2. Acked(h, s, u, i)
    BY <2>1 DEF Acked
  <2>3. Kept(h, s, u, i)
    BY <2>1, <2>2 DEF AgreementInv, AcksKeptInv
  <2> QED  BY <2>3 DEF Kept
<1>9. /\ t \in DOMAIN k /\ k[t].log = log'[s] /\ k[t].leader = s
  BY <1>2 DEF Entered
<1>10. PICK c \in Nat : c = Len(log'[s])
  BY <1>4
<1>11. /\ log'[s] \in Seq(Entry) /\ c \in 1..Len(log'[s]) /\ log'[s][c] = e
       /\ e.term = t
  BY <1>3, <1>4, <1>10
<1>12. c \in Own(k, t)
  BY <1>9, <1>11 DEF Own
<1>13. Committed(k, t, c)'
  <2> DEFINE H == Holders(k, t, c)'
  <2>1. H = {s}
    BY <1>5, <1>9 DEF Holders, Acked
  <2>2. CommitQuorumSize(Nservers)' = 1
    BY <1>5 DEF CommitQuorumSize, Nservers
  <2>3. Cardinality(H) = 1
    BY <2>1, FS_Singleton
  <2> HIDE DEF H
  <2>4. Cardinality(H) >= 1
    BY <2>3
  <2> QED  BY <2>2, <2>4 DEF Committed, H
<1>14. Same(log'[s], k[t].log, c) /\ c <= c /\ t <= t
  BY <1>9, <1>11 DEF Same
<1>15. CommittedNext(k, log'[s], c, t)
  BY <1>9, <1>12, <1>13, <1>14 DEF CommittedNext
<1>16. \A p \in Server : CommittedNext(k, log'[p], commitIndex'[p], currentTerm'[p])
  BY <1>2, <1>4, <1>5, <1>10, <1>15
<1> QED  BY <1>1, <1>2, <1>4, <1>6, <1>7, <1>8, <1>16, WriteAgreement

-----------------------------------------------------------------------------
(* The theorems. *)

\* Nothing is committed at the start.
LEMMA InitAgreement ==
    ASSUME Init, NEW h, h = [t \in {} |-> {}]
    PROVE  AgreementInv(h)
<1>1. DOMAIN h = {}
  OBVIOUS
<1>2. msgs = {} /\ \A s \in Server : commitIndex[s] = 0
  BY DEF Init, Started
<1>3. LaterLeadersInv(h) /\ AcksKeptInv(h)
  BY <1>1 DEF LaterLeadersInv, AcksKeptInv
<1>4. CandidatesInv /\ VotesInv(h) /\ CommitInv(h)
  BY <1>2 DEF CandidatesInv, VotesInv, Granted, CommitInv, CommittedBy, Requests
<1> QED  BY <1>3, <1>4 DEF AgreementInv

\* Whatever happens, nothing sent is taken back and terms do not decrease.
LEMMA NextSteady ==
    ASSUME TypeOK, ElectionInv, [Next]_vars
    PROVE  Steady
<1>1. CASE UNCHANGED vars
  <2>1. /\ currentTerm' = currentTerm /\ votedFor' = votedFor /\ log' = log
        /\ stateName' = stateName /\ msgs' = msgs
    BY <1>1 DEF vars, durable
  <2> QED  BY <2>1 DEF Steady, Keeps, TypeOK
<1>2. CASE Next
  BY <1>2, TimeoutSteady, AppendSteady, ProcessSteady, CrashSteady DEF Next, Step
<1> QED  BY <1>1, <1>2

\* After the step some ledger fits that goes on from h.
GoesOn(h) == \E k \in Ledger : Grows(h, k) /\ WritingInv(k)' /\ AgreementInv(k)'

\* Every step takes a fitting ledger with agreement to another one.
LEMMA NextAgreement ==
    ASSUME TypeOK, TypeOK', ElectionInv, ElectionInv', [Next]_vars,
           NEW h \in Ledger, WritingInv(h), AgreementInv(h)
    PROVE  GoesOn(h)
<1>1. ASSUME NEW s \in Server, Timeout(s)
      PROVE  GoesOn(h)
  <2>1. CASE StartElection(s)
    BY <2>1, StartElectionWriting, StartElectionAgreement, GrowsItself DEF GoesOn
  <2>2. CASE WinElection(s)
    BY <2>2, WinElectionWriting, WinElectionAgreement, GrowsItself DEF GoesOn
  <2>3. CASE SoloElection(s)
    BY <2>3, SoloElectionWriting, SoloElectionAgreement, GrowsItself DEF GoesOn
  <2>4. CASE SoloCommit(s)
    BY <2>4, SoloCommitWriting, SoloCommitAgreement, GrowsItself DEF GoesOn
  <2>5. ASSUME NEW due \in SUBSET Peers(s), LeaderTimeout(s, due)
        PROVE  GoesOn(h)
    BY <2>5, LeaderTimeoutWriting, LeaderTimeoutAgreement, GrowsItself DEF GoesOn
  <2> QED  BY <1>1, <2>1, <2>2, <2>3, <2>4, <2>5 DEF Timeout
<1>2. ASSUME NEW s \in Server, NEW v \in Value, AppendValue(s, v)
      PROVE  GoesOn(h)
  BY <1>2, AppendValueWriting, AppendValueAgreement, GrowsItself DEF GoesOn
<1>3. ASSUME NEW m \in msgs, Process(m.dst, m)
      PROVE  GoesOn(h)
  <2>1. CASE OnVoteRequest(m.dst, m)
    BY <2>1, QuietProcessWriting, OnVoteRequestAgreement, GrowsItself DEF GoesOn
  <2>2. CASE StepDown(m.dst, m) \/ OnVoteResponse(m.dst, m) \/ RefuseAppend(m.dst, m)
    BY <2>2, QuietProcessWriting, QuietProcessAgreement, GrowsItself DEF GoesOn
  <2>3. CASE AcceptAppend(m.dst, m)
    BY <2>3, AcceptAppendWriting, AcceptAppendAgreement, GrowsItself DEF GoesOn
  <2>4. CASE OnAppendSuccess(m.dst, m)
    BY <2>4, OnAppendSuccessWriting, OnAppendSuccessAgreement, GrowsItself DEF GoesOn
  <2>5. CASE OnAppendFailure(m.dst, m)
    BY <2>5, OnAppendFailureWriting, QuietProcessAgreement, GrowsItself DEF GoesOn
  <2> QED  BY <1>3, <2>1, <2>2, <2>3, <2>4, <2>5 DEF Process
<1>4. ASSUME NEW s \in Server, Crash(s)
      PROVE  GoesOn(h)
  <2>1. CASE log' = log
    BY <1>4, <2>1, CrashWriting, CrashAgreement, GrowsItself DEF GoesOn
  <2>2. ASSUME NEW m \in msgs, CrashInAppend(s, m)
        PROVE  GoesOn(h)
    BY <2>2, CrashInAppendWriting, CrashInAppendAgreement, GrowsItself DEF GoesOn
  <2>3. log' = log \/ \E m \in msgs : CrashInAppend(s, m)
    BY <1>4 DEF Crash, Restart, durable, CrashInTermCheck
  <2> QED  BY <2>1, <2>2, <2>3
<1>5. CASE UNCHANGED vars
  <2>1. /\ currentTerm' = currentTerm /\ votedFor' = votedFor /\ log' = log
        /\ stateName' = stateName /\ commitIndex' = commitIndex /\ msgs' = msgs
        /\ nextIndex' = nextIndex /\ matchIndex' = matchIndex
    BY <1>5 DEF vars, durable, cursors
  <2>2. WritingInv(h)'
    <3>1. PagesInv(h)'
      BY DEF WritingInv, PagesInv
    <3>2. LogsInv(h)' /\ LeadersInv(h)'
      BY <2>1 DEF WritingInv, LogsInv, LeadersInv
    <3>3. ElectedInv(h)'
      BY <2>1 DEF WritingInv, ElectedInv, Elected, Electors, GrantedTo, Granted, Nservers
    <3>4. RequestsInv(h)' /\ AcksInv(h)'
      BY <2>1 DEF WritingInv, RequestsInv, Requests, AcksInv, Acks, Answers
    <3>5. CursorsInv'
      BY <2>1 DEF WritingInv, CursorsInv, Cursor, Acks
    <3> QED  BY <3>1, <3>2, <3>3, <3>4, <3>5 DEF WritingInv
  <2>3. Steady
    BY NextSteady
  <2>4. Requests' = Requests /\ Acks' = Acks /\ Granted' = Granted
    BY <2>1 DEF Requests, Acks, Granted
  <2>5. AgreementInv(h)'
    BY <2>1, <2>2, <2>3, <2>4, CommitIndexUnmoved, SameLogsAgreement
  <2> QED  BY <2>2, <2>5, GrowsItself DEF GoesOn
<1> QED  BY <1>1, <1>2, <1>3, <1>4, <1>5 DEF Next, Step

\* In every state some ledger fits the logs and messages, and what was
\* committed according to it is in the log of every later leader.
THEOREM LogsStayInAgreement == Spec => []LogsAgree
<1>1. Init => LogsAgree
  BY InitWriting, InitAgreement DEF LogsAgree
<1>2. TypeOK /\ TypeOK' /\ ElectionInv /\ ElectionInv' /\ LogsAgree /\ [Next]_vars
          => LogsAgree'
  <2> SUFFICES ASSUME TypeOK, TypeOK', ElectionInv, ElectionInv', LogsAgree, [Next]_vars
               PROVE  LogsAgree'
    OBVIOUS
  <2>1. PICK h \in Ledger : WritingInv(h) /\ AgreementInv(h)
    BY DEF LogsAgree
  <2>2. \E k \in Ledger : WritingInv(k)' /\ AgreementInv(k)'
    BY <2>1, NextAgreement DEF GoesOn
  <2> QED  BY <2>2 DEF LogsAgree
<1> QED  BY <1>1, <1>2, TypeCorrectness, VotesAreHonoured, PTL DEF Spec

\* A later leader's page has what was committed on an earlier one.
LEMMA LaterPage ==
    ASSUME NEW h \in Ledger, LaterLeadersInv(h), NEW t \in DOMAIN h, NEW u \in DOMAIN h,
           t <= u, NEW i \in Own(h, t), Committed(h, t, i)
    PROVE  Same(h[t].log, h[u].log, i)
<1>1. t \in Nat /\ u \in Nat /\ h[t].log \in Seq(Entry) /\ i \in 1..Len(h[t].log)
  BY LedgerFields DEF Own
<1>2. CASE t = u
  BY <1>1, <1>2 DEF Same
<1>3. CASE t # u
  <2>1. t < u
    BY <1>1, <1>3
  <2> QED  BY <2>1, CommittedNotLost DEF LaterLeadersInv
<1> QED  BY <1>2, <1>3

\* Two logs agree on what is committed in both.
LEMMA CommittedAgree ==
    ASSUME NEW h \in Ledger, LaterLeadersInv(h),
           NEW l \in Seq(Entry), NEW m \in Seq(Entry),
           NEW c \in Nat, NEW d \in Nat, NEW u, NEW v,
           CommittedBy(h, l, c, u), CommittedBy(h, m, d, v),
           NEW n \in Nat, n <= c, n <= d
    PROVE  Same(l, m, n)
<1>1. CASE n = 0
  BY <1>1 DEF Same
<1>2. CASE n # 0
  <2>1. PICK t \in DOMAIN h : \E i \in Own(h, t) :
           c <= i /\ Committed(h, t, i) /\ Same(l, h[t].log, c)
    BY <1>2 DEF CommittedBy
  <2>2. PICK w \in DOMAIN h : \E j \in Own(h, w) :
           d <= j /\ Committed(h, w, j) /\ Same(m, h[w].log, d)
    BY <1>2 DEF CommittedBy
  <2>a. PICK i \in Own(h, t) : c <= i /\ Committed(h, t, i) /\ Same(l, h[t].log, c)
    BY <2>1
  <2>b. PICK j \in Own(h, w) : d <= j /\ Committed(h, w, j) /\ Same(m, h[w].log, d)
    BY <2>2
  <2>3. /\ t \in Nat /\ w \in Nat /\ i \in Nat /\ j \in Nat
        /\ h[t].log \in Seq(Entry) /\ h[w].log \in Seq(Entry)
    BY LedgerFields DEF Own
  <2>4. Same(h[t].log, h[w].log, i) \/ Same(h[w].log, h[t].log, j)
    <3>1. t <= w \/ w <= t
      BY <2>3
    <3> QED  BY <2>a, <2>b, <3>1, LaterPage
  <2>5. n <= i /\ n <= j
    BY <2>a, <2>b, <2>3
  <2>6. Same(h[t].log, h[w].log, n)
    BY <2>3, <2>4, <2>5 DEF Same
  <2>7. Same(l, h[t].log, n) /\ Same(m, h[w].log, n)
    BY <2>a, <2>b, <2>3, SameShorter
  <2>8. Same(h[w].log, m, n)
    BY <2>7 DEF Same
  <2> QED  BY <2>3, <2>6, <2>7, <2>8, SameTrans
<1> QED  BY <1>1, <1>2

\* Agreement means that commit indices never contradict each other.
LEMMA AgreementSafe ==
    ASSUME TypeOK, LogsAgree
    PROVE  StateMachineSafety
<1> SUFFICES ASSUME NEW s \in Server, NEW t \in Server,
                    NEW c, c = MinOf(commitIndex[s], commitIndex[t])
             PROVE  /\ commitIndex[s] <= Len(log[s])
                    /\ Prefix(log[s], c) = Prefix(log[t], c)
  BY DEF StateMachineSafety
<1>1. PICK h \in Ledger : AgreementInv(h)
  BY DEF LogsAgree
<1>2. /\ log[s] \in Seq(Entry) /\ log[t] \in Seq(Entry)
      /\ commitIndex[s] \in Nat /\ commitIndex[t] \in Nat
  BY DEF TypeOK
<1>3. /\ CommittedBy(h, log[s], commitIndex[s], currentTerm[s])
      /\ CommittedBy(h, log[t], commitIndex[t], currentTerm[t])
      /\ LaterLeadersInv(h)
  BY <1>1 DEF AgreementInv, CommitInv
<1>4. c \in Nat /\ c <= commitIndex[s] /\ c <= commitIndex[t]
  BY <1>2 DEF MinOf
<1>5. Same(log[s], log[t], c)
  BY <1>2, <1>3, <1>4, CommittedAgree
<1>6. commitIndex[s] <= Len(log[s])
  <2>1. commitIndex[s] <= commitIndex[s]
    BY <1>2
  <2>2. Same(log[s], log[s], commitIndex[s])
    BY <1>2, <1>3, <2>1, CommittedAgree
  <2> QED  BY <2>2 DEF Same
<1> QED  BY <1>2, <1>4, <1>5, <1>6, SamePrefix

\* No two servers ever take different entries for committed in one place.
THEOREM CommittedEntriesAgree == Spec => []StateMachineSafety
BY LogsStayInAgreement, TypeCorrectness, AgreementSafe, PTL

\* Agreement means that leaders are complete.
LEMMA AgreementComplete ==
    ASSUME TypeOK, LogsAgree
    PROVE  LeaderCompleteness
<1> SUFFICES ASSUME NEW s \in Server, NEW t \in Server, stateName[t] = "LEADER",
                    currentTerm[t] >= currentTerm[s]
             PROVE  /\ commitIndex[s] <= Len(log[t])
                    /\ Prefix(log[s], commitIndex[s]) = Prefix(log[t], commitIndex[s])
  BY DEF LeaderCompleteness
<1>1. PICK h \in Ledger : WritingInv(h) /\ AgreementInv(h)
  BY DEF LogsAgree
<1>2. /\ log[s] \in Seq(Entry) /\ log[t] \in Seq(Entry) /\ commitIndex[s] \in Nat
      /\ currentTerm[s] \in Nat /\ currentTerm[t] \in Nat
  BY DEF TypeOK
<1>3. /\ CommittedBy(h, log[s], commitIndex[s], currentTerm[s]) /\ LaterLeadersInv(h)
      /\ currentTerm[t] \in DOMAIN h /\ h[currentTerm[t]].log = log[t]
  BY <1>1 DEF AgreementInv, CommitInv, WritingInv, LeadersInv, Led
<1>4. Same(log[s], log[t], commitIndex[s])
  <2>1. CASE commitIndex[s] = 0
    BY <1>2, <2>1 DEF Same
  <2>2. CASE commitIndex[s] # 0
    <3>1. PICK u \in DOMAIN h : /\ u <= currentTerm[s]
                                /\ \E i \in Own(h, u) :
                                      /\ commitIndex[s] <= i /\ Committed(h, u, i)
                                      /\ Same(log[s], h[u].log, commitIndex[s])
      BY <1>3, <2>2 DEF CommittedBy
    <3>2. PICK i \in Own(h, u) : /\ commitIndex[s] <= i /\ Committed(h, u, i)
                                 /\ Same(log[s], h[u].log, commitIndex[s])
      BY <3>1
    <3>3. u \in Nat /\ i \in Nat /\ h[u].log \in Seq(Entry)
      BY LedgerFields DEF Own
    <3>4. u <= currentTerm[t]
      BY <1>2, <3>1, <3>3
    <3>5. Same(h[u].log, log[t], i)
      BY <1>3, <3>2, <3>4, LaterPage
    <3>6. Same(h[u].log, log[t], commitIndex[s])
      BY <1>2, <3>2, <3>3, <3>5, SameShorter
    <3> QED  BY <1>2, <3>2, <3>3, <3>6, SameTrans
  <2> QED  BY <2>1, <2>2
<1>5. commitIndex[s] <= Len(log[t])
  BY <1>4 DEF Same
<1> QED  BY <1>2, <1>4, <1>5, SamePrefix

\* A leader holds everything any server takes for committed from its term or an
\* earlier one.
THEOREM LeadersAreComplete == Spec => []LeaderCompleteness
BY LogsStayInAgreement, TypeCorrectness, AgreementComplete, PTL

\* Agreement means that a match index counts what the peer has.
LEMMA AgreementMatched ==
    ASSUME TypeOK, LogsAgree
    PROVE  MatchIndexSound
<1> SUFFICES ASSUME NEW s \in Server, NEW p \in Peers(s), stateName[s] = "LEADER",
                    currentTerm[p] = currentTerm[s], NEW j, j = matchIndex[s][p]
             PROVE  /\ j <= MinOf(Len(log[s]), Len(log[p]))
                    /\ Prefix(log[s], j) = Prefix(log[p], j)
  BY DEF MatchIndexSound
<1>1. PICK h \in Ledger : WritingInv(h) /\ AgreementInv(h)
  BY DEF LogsAgree
<1>2. PICK T \in Nat : T = currentTerm[s]
  BY DEF TypeOK
<1>3. /\ p \in Server /\ log[s] \in Seq(Entry) /\ log[p] \in Seq(Entry) /\ j \in Nat
      /\ currentTerm[p] = T
  BY <1>2 DEF TypeOK, Peers
<1>4. T \in DOMAIN h /\ h[T].log = log[s] /\ Cursor(s, p)
  BY <1>1, <1>2 DEF WritingInv, LeadersInv, Led, CursorsInv
<1>5. Same(log[s], log[p], j)
  <2>1. CASE j = 0
    BY <1>3, <2>1 DEF Same
  <2>2. CASE j # 0
    <3>1. PICK m \in Acks : m.src = p /\ m.term = T /\ m.matchIndex = j
      BY <1>2, <1>4, <2>2 DEF Cursor
    <3>2. j <= Len(log[s])
      BY <1>1, <1>4, <3>1 DEF WritingInv, AcksInv, Answers
    <3>3. j \in 1..Len(h[T].log) /\ j <= j
      BY <1>3, <1>4, <2>2, <3>2
    <3>4. Acked(h, p, T, j)
      BY <3>1, <3>3 DEF Acked
    <3>5. Kept(h, p, T, j)
      BY <1>1, <1>3, <1>4, <3>3, <3>4 DEF AgreementInv, AcksKeptInv
    <3>6. ~ (T < currentTerm[p])
      BY <1>3
    <3> QED  BY <1>4, <3>5, <3>6 DEF Kept
  <2> QED  BY <2>1, <2>2
<1>6. j <= MinOf(Len(log[s]), Len(log[p]))
  BY <1>5 DEF Same, MinOf
<1> QED  BY <1>3, <1>5, <1>6, SamePrefix

\* What a leader counts a peer as having, the peer has while in the leader's
\* term.
THEOREM MatchIndicesAreSound == Spec => []MatchIndexSound
BY LogsStayInAgreement, TypeCorrectness, AgreementMatched, PTL

-----------------------------------------------------------------------------
(* A log within a term. *)

\* What GrowsWithinTerm says of server s.
Grown(s) ==
    LastLogTerm(log[s]) = currentTerm[s] /\ currentTerm'[s] = currentTerm[s]
        => Same(log[s], log'[s], Len(log[s]))

\* A log that is left alone or gets one more entry is grown.
LEMMA AppendedGrown ==
    ASSUME TypeOK, NEW s \in Server,
           log'[s] = log[s] \/ \E e \in Entry : log'[s] = Append(log[s], e)
    PROVE  Grown(s)
<1>1. log[s] \in Seq(Entry)
  BY DEF TypeOK
<1>2. CASE log'[s] = log[s]
  BY <1>1, <1>2 DEF Grown, Same
<1>3. ASSUME NEW e \in Entry, log'[s] = Append(log[s], e)
      PROVE  Grown(s)
  <2>1. /\ Len(log'[s]) = Len(log[s]) + 1
        /\ \A j \in 1..Len(log[s]) : log'[s][j] = log[s][j]
    BY <1>1, <1>3
  <2> QED  BY <1>1, <2>1 DEF Grown, Same
<1> QED  BY <1>2, <1>3

\* A log whose last entry is of the request's term is part of its leader's log,
\* so that the loop finds nothing in it to cut.
LEMMA TakeInGrown ==
    ASSUME TypeOK, NEW h \in Ledger, WritingInv(h), NEW s \in Server,
           NEW m \in Requests, Matches(log[s], m), currentTerm'[s] = m.term,
           log'[s] \in Outcomes(log[s], m)
    PROVE  Grown(s)
<1> SUFFICES ASSUME LastLogTerm(log[s]) = m.term, currentTerm[s] = m.term
             PROVE  Same(log[s], log'[s], Len(log[s]))
  BY DEF Grown
<1>1. PICK l \in Seq(Entry) : l = log[s] /\ Written(h, l)
  BY DEF TypeOK, WritingInv, LogsInv
<1>2. PICK L \in Seq(Entry) : L = h[m.term].log
  BY RequestFollows
<1>3. \A i \in Nat : Same(L, log[s], i) => Same(L, log'[s], i)
  BY <1>2, RequestFollows
<1>4. m.term # 0
  BY DEF TypeOK
<1>5. Len(l) \in 1..Len(l) /\ l[Len(l)].term = m.term
  BY <1>1, <1>4 DEF LastLogTerm, LogTerm
<1>6. Same(l, L, Len(l))
  BY <1>1, <1>2, <1>5 DEF Written
<1>7. Same(L, log[s], Len(l))
  BY <1>1, <1>6 DEF Same
<1>8. Same(L, log'[s], Len(l))
  BY <1>1, <1>3, <1>7
<1> QED  BY <1>1, <1>6, <1>8 DEF Same

\* Every step leaves every log grown.
LEMMA NextGrown ==
    ASSUME TypeOK, NEW h \in Ledger, WritingInv(h), [Next]_vars, NEW s \in Server
    PROVE  Grown(s)
<1>1. ASSUME NEW p \in Server, Timeout(p)
      PROVE  Grown(s)
  <2>1. log' = log \/ \E e \in Entry : log' = [log EXCEPT ![p] = Append(@, e)]
    <3>1. CASE StartElection(p) \/ SoloCommit(p) \/ \E due \in SUBSET Peers(p) : LeaderTimeout(p, due)
      BY <3>1 DEF StartElection, SoloCommit, LeaderTimeout, durable
    <3>2. CASE WinElection(p)
      <4>1. PICK e : e = [term |-> currentTerm[p], value |-> Stub]
        OBVIOUS
      <4>2. e \in Entry
        BY <4>1 DEF Entry, TypeOK
      <4> QED  BY <3>2, <4>1, <4>2 DEF WinElection
    <3>3. CASE SoloElection(p)
      <4>1. PICK e : e = [term |-> currentTerm'[p], value |-> Stub]
        OBVIOUS
      <4>2. currentTerm'[p] \in Nat
        <5>1. currentTerm[p] \in Nat /\ currentTerm'[p] = currentTerm[p] + 1
          BY <3>3 DEF SoloElection, TypeOK
        <5> QED  BY <5>1
      <4>3. e \in Entry
        BY <4>1, <4>2 DEF Entry
      <4>4. log' = [log EXCEPT ![p] = Append(@, e)]
        BY <3>3, <4>1 DEF SoloElection
      <4> QED  BY <4>3, <4>4
    <3> QED  BY <1>1, <3>1, <3>2, <3>3 DEF Timeout
  <2>2. log'[s] = log[s] \/ \E e \in Entry : log'[s] = Append(log[s], e)
    BY <2>1 DEF TypeOK
  <2> QED  BY <2>2, AppendedGrown
<1>2. ASSUME NEW p \in Server, NEW v \in Value, AppendValue(p, v)
      PROVE  Grown(s)
  <2>1. PICK e : e = [term |-> currentTerm[p], value |-> v]
    OBVIOUS
  <2>2. e \in Entry
    BY <2>1 DEF Entry, TypeOK
  <2>3. log'[s] = log[s] \/ log'[s] = Append(log[s], e)
    BY <1>2, <2>1 DEF AppendValue, TypeOK
  <2> QED  BY <2>2, <2>3, AppendedGrown
<1>3. ASSUME NEW m \in msgs, Process(m.dst, m)
      PROVE  Grown(s)
  <2>1. m.dst \in Server /\ Untouched(m.dst)
    BY <1>3, ProcessTouches
  <2>2. CASE AcceptAppend(m.dst, m) /\ s = m.dst /\ Matches(log[s], m)
    <3>1. /\ m \in Requests /\ currentTerm'[s] = m.term /\ log'[s] = Merge(log[s], m)
      BY <2>1, <2>2 DEF AcceptAppend, Requests, TypeOK
    <3> QED  BY <2>2, <3>1, TakeInGrown DEF Outcomes
  <2>3. CASE ~ (AcceptAppend(m.dst, m) /\ s = m.dst /\ Matches(log[s], m))
    <3>1. log'[s] = log[s]
      <4>1. CASE AcceptAppend(m.dst, m) /\ s = m.dst
        BY <2>3, <4>1 DEF AcceptAppend
      <4>2. CASE s # m.dst
        BY <2>1, <4>2 DEF Untouched
      <4>3. CASE ~ AcceptAppend(m.dst, m)
        BY <1>3, <4>3 DEF Process, OnVoteRequest, StepDown, OnVoteResponse, RefuseAppend,
                          OnAppendSuccess, OnAppendFailure, durable
      <4> QED  BY <4>1, <4>2, <4>3
    <3> QED  BY <3>1, AppendedGrown
  <2> QED  BY <2>2, <2>3
<1>4. ASSUME NEW p \in Server, Crash(p)
      PROVE  Grown(s)
  <2>1. Untouched(p)
    BY <1>4, CrashTouches
  <2>2. CASE log'[s] = log[s]
    BY <2>2, AppendedGrown
  <2>3. ASSUME NEW m \in msgs, CrashInAppend(p, m), s = p
        PROVE  Grown(s)
    <3>1. /\ m \in Requests /\ Matches(log[s], m)
          /\ currentTerm'[s] = m.term /\ log'[s] \in Outcomes(log[s], m)
      BY <2>3 DEF CrashInAppend, Requests, Outcomes, TypeOK
    <3> QED  BY <3>1, TakeInGrown
  <2>4. log'[s] = log[s] \/ (s = p /\ \E m \in msgs : CrashInAppend(p, m))
    BY <1>4, <2>1 DEF Untouched, Crash, Restart, durable, CrashInTermCheck
  <2> QED  BY <2>2, <2>3, <2>4
<1>5. CASE UNCHANGED vars
  <2>1. log'[s] = log[s]
    BY <1>5 DEF vars, durable
  <2> QED  BY <2>1, AppendedGrown
<1> QED  BY <1>1, <1>2, <1>3, <1>4, <1>5 DEF Next, Step

\* While a server stays in a term it has an entry of, its log only grows.
THEOREM LogsGrowWithinTerms == Spec => GrowsWithinTerm
<1>1. TypeOK /\ TypeOK' /\ LogsWereWritten /\ [Next]_vars
          => [\A s \in Server :
                 /\ LastLogTerm(log[s]) = currentTerm[s]
                 /\ currentTerm'[s] = currentTerm[s]
                 => /\ Len(log[s]) <= Len(log'[s])
                    /\ Prefix(log'[s], Len(log[s])) = log[s]]_vars
  <2> SUFFICES ASSUME TypeOK, TypeOK', LogsWereWritten, [Next]_vars, NEW s \in Server,
                      LastLogTerm(log[s]) = currentTerm[s],
                      currentTerm'[s] = currentTerm[s]
               PROVE  /\ Len(log[s]) <= Len(log'[s])
                      /\ Prefix(log'[s], Len(log[s])) = log[s]
    OBVIOUS
  <2>1. PICK h \in Ledger : WritingInv(h)
    BY DEF LogsWereWritten
  <2>2. PICK l \in Seq(Entry), k \in Seq(Entry) : l = log[s] /\ k = log'[s]
    BY DEF TypeOK
  <2>3. Same(l, k, Len(l))
    BY <2>1, <2>2, NextGrown DEF Grown
  <2>4. Len(l) \in Nat /\ Len(l) <= Len(k)
    BY <2>2, <2>3 DEF Same
  <2>5. Prefix(l, Len(l)) = Prefix(k, Len(l))
    BY <2>3, <2>4, SamePrefix
  <2>6. Prefix(l, Len(l)) = l
    <3>1. Prefix(l, Len(l)) = SubSeq(l, 1, Len(l))
      BY <2>4 DEF Prefix, MinOf
    <3> QED  BY <3>1
  <2> QED  BY <2>2, <2>4, <2>5, <2>6
<1> QED  BY <1>1, LogsStayWritten, TypeCorrectness, PTL DEF Spec, GrowsWithinTerm
=============================================================================
