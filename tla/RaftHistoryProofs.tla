-------------------------- MODULE RaftHistoryProofs --------------------------
(***************************************************************************)
(* Raft implements ReplicatedLog: the history of what was ever committed   *)
(* only grows at its end, and every later leader has it.  And each server  *)
(* is a Replica: what it ever took for committed stays in its log.         *)
(***************************************************************************)
EXTENDS RaftHistory, RaftSafetyProofs

-----------------------------------------------------------------------------
(* The longest sequence. *)

\* Without its largest member a finite set of naturals is smaller.
LEMMA LargestNatural ==
    ASSUME NEW S \in SUBSET Nat, IsFiniteSet(S), S # {}
    PROVE  \E x \in S : \A y \in S : y <= x
<1> DEFINE Top(T) == \E x \in T : \A y \in T : y <= x
           Bad == {T \in SUBSET Nat : IsFiniteSet(T) /\ T # {} /\ ~ Top(T)}
           Sizes == {Cardinality(T) : T \in Bad}
<1>1. SUFFICES ASSUME Bad # {} PROVE FALSE
  OBVIOUS
<1>2. Sizes \in SUBSET Nat /\ Sizes # {}
  BY <1>1, FS_CardinalityType
<1>3. PICK n \in Sizes : \A i \in Sizes : n <= i
  BY <1>2, LeastNatural
<1>4. PICK T \in Bad : n = Cardinality(T)
  OBVIOUS
<1>5. PICK x : x \in T
  BY DEF Bad
<1> DEFINE R == T \ {x}
<1>6. /\ x \in Nat /\ R \in SUBSET Nat /\ IsFiniteSet(R)
      /\ Cardinality(R) = Cardinality(T) - 1 /\ Cardinality(T) \in Nat
  BY <1>5, FS_RemoveElement, FS_CardinalityType
<1>7. R # {}
  <2> SUFFICES ASSUME R = {} PROVE FALSE
    OBVIOUS
  <2>1. \A y \in T : y <= x
    BY <1>6
  <2> QED  BY <1>5, <2>1
<1>8. R \notin Bad
  <2> SUFFICES ASSUME R \in Bad PROVE FALSE
    OBVIOUS
  <2>1. n <= Cardinality(R)
    BY <1>3
  <2> QED  BY <1>4, <1>6, <2>1
<1>9. PICK z \in R : \A y \in R : y <= z
  BY <1>6, <1>7, <1>8
<1>10. z \in Nat /\ z \in T
  BY <1>6
<1>11. CASE x <= z
  <2>1. \A y \in T : y <= z
    BY <1>9, <1>11
  <2> QED  BY <1>10, <2>1
<1>12. CASE z <= x
  <2>1. \A y \in T : y <= x
    <3> SUFFICES ASSUME NEW y \in T PROVE y <= x
      OBVIOUS
    <3>1. CASE y = x
      BY <1>6, <3>1
    <3>2. CASE y # x
      BY <1>6, <1>9, <1>10, <1>12, <3>2
    <3> QED  BY <3>1, <3>2
  <2> QED  BY <1>5, <2>1
<1> QED  BY <1>6, <1>10, <1>11, <1>12

\* Of finitely many sequences one is the longest.
LEMMA LongestSequence ==
    ASSUME NEW S \in SUBSET Seq(Entry), IsFiniteSet(S), S # {}
    PROVE  \E l \in S : \A m \in S : Len(l) >= Len(m)
<1> DEFINE N == {Len(l) : l \in S}
<1> DEFINE f == [l \in S |-> Len(l)]
<1>1. IsFiniteSet(N)
  <2>1. f \in Surjection(S, N)
    BY DEF Surjection
  <2> QED  BY <2>1, FS_Surjection
<1>2. N \in SUBSET Nat /\ N # {}
  <2>1. \A l \in S : Len(l) \in Nat
    OBVIOUS
  <2>2. PICK l : l \in S
    OBVIOUS
  <2>3. Len(l) \in N
    BY <2>2
  <2> QED  BY <2>1, <2>3
<1>3. PICK x \in N : \A y \in N : y <= x
  BY <1>1, <1>2, LargestNatural
<1>4. PICK l \in S : x = Len(l)
  OBVIOUS
<1> QED  BY <1>3, <1>4

\* A sequence that agrees with all of a shorter one extends it.
LEMMA SameExtends ==
    ASSUME NEW l \in Seq(Entry), NEW m \in Seq(Entry), Same(l, m, Len(m))
    PROVE  Abstract!Extends(l, m)
<1>1. Len(m) <= Len(l) /\ Len(m) \in Nat /\ Len(l) \in Nat
  BY DEF Same
<1>2. Prefix(l, Len(m)) = Prefix(m, Len(m))
  BY <1>1, SamePrefix
<1>3. Prefix(l, Len(m)) = SubSeq(l, 1, Len(m)) /\ Prefix(m, Len(m)) = m
  BY <1>1 DEF Prefix, MinOf
<1> QED  BY <1>1, <1>2, <1>3 DEF Abstract!Extends

\* Sequences of one length that agree are equal.
LEMMA SameEqual ==
    ASSUME NEW l \in Seq(Entry), NEW m \in Seq(Entry), Len(l) = Len(m), Same(l, m, Len(m))
    PROVE  l = m
BY DEF Same

-----------------------------------------------------------------------------
(* One step. *)

\* A commit index moves forward, or the server has restarted.
Moves(s) == commitIndex'[s] = 0 \/ commitIndex'[s] >= commitIndex[s]

\* Nobody but s sees its commit index or its log change.
MovesAlone(s) ==
    /\ Moves(s)
    /\ \A p \in Server \ {s} : log'[p] = log[p] /\ commitIndex'[p] = commitIndex[p]

\* CommitAdvance never takes an index back.
LEMMA AdvanceForward ==
    ASSUME TypeOK, NEW s \in Server, NEW match
    PROVE  CommitAdvance(s, log[s], match) >= commitIndex[s]
<1> DEFINE a == commitIndex[s]
           b == SortedMiddle(Server, [p \in Server |-> IF p = s THEN Len(log[s]) ELSE match[p]])
           c == MaxOf(a, b)
<1>1. a \in Nat /\ log[s] \in Seq(Entry) /\ currentTerm[s] # 0
  BY DEF TypeOK
<1>2. CommitAdvance(s, log[s], match) = IF LogTerm(log[s], c) = currentTerm[s] THEN c ELSE a
  BY DEF CommitAdvance
<1>3. LogTerm(log[s], c) = currentTerm[s] => c \in Nat
  BY <1>1 DEF LogTerm
<1> HIDE DEF a, b
<1>4. c \in Nat => c >= a
  BY <1>1 DEF MaxOf
<1>5. a >= a
  BY <1>1
<1> HIDE DEF c
<1> QED  BY <1>2, <1>3, <1>4, <1>5 DEF a

\* One server at a time: no step commits for two.
LEMMA OneMoves ==
    ASSUME TypeOK, \A p \in Server : commitIndex[p] <= Len(log[p]), [Next]_vars
    PROVE  \E s \in Server : MovesAlone(s)
<1>0. \A p \in Server : commitIndex[p] \in Nat /\ commitIndex[p] >= commitIndex[p]
  BY DEF TypeOK
<1>1. ASSUME NEW s \in Server, Timeout(s) PROVE MovesAlone(s)
  <2>1. CASE StartElection(s) \/ WinElection(s)
    <3>1. Untouched(s) /\ commitIndex' = commitIndex
      BY <2>1, TimeoutTouches DEF StartElection, WinElection
    <3> QED  BY <1>0, <3>1 DEF Untouched, MovesAlone, Moves
  <2>2. CASE SoloElection(s)
    <3>1. Untouched(s)
      BY <2>2, TimeoutTouches
    <3>2. PICK e \in Entry : log'[s] = Append(log[s], e)
      <4>1. [term |-> currentTerm[s] + 1, value |-> Stub] \in Entry
        BY DEF TypeOK, Entry
      <4> QED  BY <2>2, <4>1 DEF SoloElection, TypeOK
    <3>3. commitIndex'[s] = Len(log'[s])
      BY <2>2 DEF SoloElection, TypeOK
    <3>4. log[s] \in Seq(Entry) /\ Len(log'[s]) = Len(log[s]) + 1
      BY <3>2 DEF TypeOK
    <3>5. commitIndex'[s] >= commitIndex[s]
      <4>1. Len(log[s]) \in Nat /\ commitIndex[s] <= Len(log[s])
        BY <3>4
      <4> QED  BY <1>0, <3>3, <3>4, <4>1
    <3> QED  BY <3>1, <3>5 DEF Untouched, MovesAlone, Moves
  <2>3. CASE SoloCommit(s)
    <3>1. log' = log /\ \A p \in Server \ {s} : commitIndex'[p] = commitIndex[p]
      BY <2>3 DEF SoloCommit, durable, TypeOK
    <3>2. commitIndex'[s] = CommitAdvance(s, log[s], matchIndex[s])
      BY <2>3 DEF SoloCommit, TypeOK
    <3> QED  BY <3>1, <3>2, AdvanceForward DEF MovesAlone, Moves
  <2>4. ASSUME NEW due \in SUBSET Peers(s), LeaderTimeout(s, due) PROVE MovesAlone(s)
    <3>1. log' = log /\ commitIndex' = commitIndex
      BY <2>4 DEF LeaderTimeout, durable
    <3> QED  BY <1>0, <3>1 DEF MovesAlone, Moves
  <2> QED  BY <1>1, <2>1, <2>2, <2>3, <2>4 DEF Timeout
<1>2. ASSUME NEW s \in Server, NEW v \in Value, AppendValue(s, v) PROVE MovesAlone(s)
  <2>1. Untouched(s) /\ commitIndex' = commitIndex
    BY <1>2, AppendSteady DEF AppendValue
  <2> QED  BY <1>0, <2>1 DEF Untouched, MovesAlone, Moves
<1>3. ASSUME NEW m \in msgs, Process(m.dst, m) PROVE m.dst \in Server /\ MovesAlone(m.dst)
  <2> DEFINE s == m.dst
  <2>1. s \in Server /\ Untouched(s)
    BY <1>3, ProcessTouches
  <2>2. SUFFICES ASSUME Process(s, m) PROVE MovesAlone(s)
    BY <1>3, <2>1
  <2> HIDE DEF s
  <2>3. CASE OnVoteRequest(s, m) \/ StepDown(s, m) \/ OnVoteResponse(s, m)
                \/ RefuseAppend(s, m) \/ OnAppendFailure(s, m)
    <3>1. commitIndex' = commitIndex
      BY <2>3 DEF OnVoteRequest, StepDown, OnVoteResponse, RefuseAppend, OnAppendFailure
    <3> QED  BY <1>0, <2>1, <3>1 DEF Untouched, MovesAlone, Moves
  <2>4. CASE AcceptAppend(s, m)
    <3>1. m \in Message /\ m.type = "AppendEntriesRequest"
      BY <2>4 DEF AcceptAppend, TypeOK
    <3>2. m.leaderCommit \in Nat /\ commitIndex[s] \in Nat
      BY <1>0, <2>1, <3>1, MessageFields
    <3>3. commitIndex'[s] \in {commitIndex[s], MaxOf(commitIndex[s], m.leaderCommit)}
      BY <2>1, <2>4 DEF AcceptAppend, TypeOK
    <3>4. commitIndex'[s] >= commitIndex[s]
      BY <3>2, <3>3 DEF MaxOf
    <3> QED  BY <2>1, <3>4 DEF Untouched, MovesAlone, Moves
  <2>5. CASE OnAppendSuccess(s, m)
    <3>1. PICK match : commitIndex'[s] = CommitAdvance(s, log[s], match)
      BY <2>1, <2>5 DEF OnAppendSuccess, TypeOK
    <3> QED  BY <2>1, <3>1, AdvanceForward DEF Untouched, MovesAlone, Moves
  <2> QED  BY <2>2, <2>3, <2>4, <2>5 DEF Process
<1>4. ASSUME NEW s \in Server, Crash(s) PROVE MovesAlone(s)
  BY <1>4, CrashTouches DEF Untouched, MovesAlone, Moves
<1>5. CASE UNCHANGED vars
  <2>1. log' = log /\ commitIndex' = commitIndex
    BY <1>5 DEF vars, durable
  <2>2. PICK s \in Server : TRUE
    BY ServerAssumption
  <2>3. MovesAlone(s)
    BY <1>0, <2>1 DEF MovesAlone, Moves
  <2> QED  BY <2>3
<1> QED  BY <1>1, <1>2, <1>3, <1>4, <1>5 DEF Next, Step

-----------------------------------------------------------------------------
(* The history. *)

\* The history was committed by a term some server has reached, and no server
\* knows of more.
Recorded(h) ==
    /\ committed \in Seq(Entry)
    /\ \E p \in Server : CommittedBy(h, committed, Len(committed), currentTerm[p])
    /\ \A p \in Server : commitIndex[p] <= Len(committed)


\* What a server knows to be committed.
LEMMA KnownFields ==
    ASSUME TypeOK, NEW p \in Server, commitIndex[p] <= Len(log[p])
    PROVE  /\ Known(p) \in Seq(Entry) /\ Len(Known(p)) = commitIndex[p]
           /\ Same(Known(p), log[p], commitIndex[p])
<1>1. log[p] \in Seq(Entry) /\ commitIndex[p] \in Nat
  BY DEF TypeOK
<1>2. MinOf(commitIndex[p], Len(log[p])) = commitIndex[p]
  BY <1>1 DEF MinOf
<1> QED  BY <1>1, <1>2, PrefixType, PrefixSame DEF Known

\* It was committed by the server's term.
LEMMA KnownCommitted ==
    ASSUME TypeOK, NEW h \in Ledger, CommitInv(h), NEW p \in Server,
           commitIndex[p] <= Len(log[p])
    PROVE  CommittedBy(h, Known(p), Len(Known(p)), currentTerm[p])
<1>1. /\ log[p] \in Seq(Entry) /\ commitIndex[p] \in Nat
      /\ Known(p) \in Seq(Entry) /\ Len(Known(p)) = commitIndex[p]
      /\ Same(Known(p), log[p], commitIndex[p])
  BY KnownFields DEF TypeOK
<1>2. CommittedBy(h, log[p], commitIndex[p], currentTerm[p])
  BY DEF CommitInv
<1>3. CASE commitIndex[p] = 0
  BY <1>1, <1>3 DEF CommittedBy
<1>4. CASE commitIndex[p] # 0
  <2>1. PICK t \in DOMAIN h : /\ t <= currentTerm[p]
                              /\ \E i \in Own(h, t) :
                                    /\ commitIndex[p] <= i /\ Committed(h, t, i)
                                    /\ Same(log[p], h[t].log, commitIndex[p])
    BY <1>2, <1>4 DEF CommittedBy
  <2>2. h[t].log \in Seq(Entry)
    BY LedgerFields
  <2>3. Same(log[p], h[t].log, commitIndex[p]) => Same(Known(p), h[t].log, commitIndex[p])
    BY <1>1, <2>2, SameTrans
  <2> QED  BY <1>1, <2>1, <2>3 DEF CommittedBy
<1> QED  BY <1>3, <1>4

\* Every commit index points into its log.
LEMMA CommitWithin ==
    ASSUME TypeOK, NEW h \in Ledger, LaterLeadersInv(h), CommitInv(h), NEW p \in Server
    PROVE  commitIndex[p] <= Len(log[p])
<1>1. log[p] \in Seq(Entry) /\ commitIndex[p] \in Nat
  BY DEF TypeOK
<1>2. CommittedBy(h, log[p], commitIndex[p], currentTerm[p])
  BY DEF CommitInv
<1>3. CASE commitIndex[p] = 0
  BY <1>1, <1>3
<1>4. CASE commitIndex[p] # 0
  BY <1>2, <1>4 DEF CommittedBy, Same
<1> QED  BY <1>3, <1>4

\* Commit indices point into the logs, before a step and after it.
WithinLogs == \A p \in Server : commitIndex[p] <= Len(log[p])

\* They do where a ledger fits.
LEMMA CommitsWithinNow ==
    TypeOK => \A h \in Ledger : LaterLeadersInv(h) /\ CommitInv(h) => WithinLogs
BY CommitWithin DEF WithinLogs

\* And so they do after the step.
LEMMA CommitsWithinNext ==
    (TypeOK => \A h \in Ledger : LaterLeadersInv(h) /\ CommitInv(h) => WithinLogs)'
BY CommitsWithinNow, PTL

\* What a fitting ledger says of what the servers know, and of any two
\* sequences that were committed by it.
LedgerTells ==
    TypeOK => \A h \in Ledger : LaterLeadersInv(h) /\ CommitInv(h) =>
        /\ \A p \in Server :
              /\ Known(p) \in Seq(Entry) /\ Len(Known(p)) = commitIndex[p]
              /\ CommittedBy(h, Known(p), Len(Known(p)), currentTerm[p])
        /\ \A l, m \in Seq(Entry) : \A u, v :
              CommittedBy(h, l, Len(l), u) /\ CommittedBy(h, m, Len(m), v)
                  => \A n \in Nat : n <= Len(l) /\ n <= Len(m) => Same(l, m, n)

\* It does, in every state.
LEMMA LedgerTellsNow == LedgerTells
<1> SUFFICES ASSUME TypeOK, NEW h \in Ledger, LaterLeadersInv(h), CommitInv(h)
             PROVE  /\ \A p \in Server :
                          /\ Known(p) \in Seq(Entry) /\ Len(Known(p)) = commitIndex[p]
                          /\ CommittedBy(h, Known(p), Len(Known(p)), currentTerm[p])
                    /\ \A l, m \in Seq(Entry) : \A u, v :
                          CommittedBy(h, l, Len(l), u) /\ CommittedBy(h, m, Len(m), v)
                              => \A n \in Nat : n <= Len(l) /\ n <= Len(m) => Same(l, m, n)
  BY DEF LedgerTells
<1>1. ASSUME NEW p \in Server
      PROVE  /\ Known(p) \in Seq(Entry) /\ Len(Known(p)) = commitIndex[p]
             /\ CommittedBy(h, Known(p), Len(Known(p)), currentTerm[p])
  BY CommitWithin, KnownFields, KnownCommitted
<1>2. ASSUME NEW l \in Seq(Entry), NEW m \in Seq(Entry), NEW u, NEW v,
             CommittedBy(h, l, Len(l), u), CommittedBy(h, m, Len(m), v),
             NEW n \in Nat, n <= Len(l), n <= Len(m)
      PROVE  Same(l, m, n)
  <2>1. Len(l) \in Nat /\ Len(m) \in Nat
    OBVIOUS
  <2> QED  BY <1>2, <2>1, CommittedAgree
<1> QED  BY <1>1, <1>2

\* It says so after the step as well.
LEMMA LedgerTellsNext == LedgerTells'
BY LedgerTellsNow, PTL

-----------------------------------------------------------------------------
(* The refinement. *)

\* What the history may become: what it was, or what a server knows now.
Candidates == {committed} \cup {Known(p)' : p \in Server}

Longest(l) == l \in Candidates /\ \A m \in Candidates : Len(l) >= Len(m)

\* Sequences committed by the time the step is over.
Settles(k, l) == l \in Seq(Entry) /\ \E p \in Server : CommittedNext(k, l, Len(l), currentTerm'[p])

\* After the step ledger k fits, and tells that sequences agree.
Fits(h, k) ==
    /\ Grows(h, k) /\ WritingInv(k)' /\ AgreementInv(k)'
    /\ \A l \in Candidates : Settles(k, l)
    /\ \A p \in Server : Settles(k, Known(p))
    /\ \A l, m : Settles(k, l) /\ Settles(k, m) =>
          \A n \in Nat : n <= Len(l) /\ n <= Len(m) => Same(l, m, n)

\* Some ledger fits after every step.
LEMMA FittingLedger ==
    ASSUME TypeOK, TypeOK', ElectionInv, ElectionInv', [Next]_vars,
           NEW h \in Ledger, WritingInv(h), AgreementInv(h), Recorded(h)
    PROVE  \E k \in Ledger : Fits(h, k)
<1>1. PICK k \in Ledger : Grows(h, k) /\ WritingInv(k)' /\ AgreementInv(k)'
  BY NextAgreement DEF GoesOn
<1>2. Steady
  BY NextSteady
<1>3. /\ \A p \in Server :
            /\ Known(p)' \in Seq(Entry) /\ Len(Known(p)') = commitIndex'[p]
            /\ CommittedBy(k, Known(p), Len(Known(p)), currentTerm[p])'
      /\ \A l, m \in Seq(Entry) : \A u, v :
            CommittedBy(k, l, Len(l), u)' /\ CommittedBy(k, m, Len(m), v)'
                => \A n \in Nat : n <= Len(l) /\ n <= Len(m) => Same(l, m, n)
  BY <1>1, LedgerTellsNext DEF LedgerTells, AgreementInv
<1>4. \A l, c, u : CommittedBy(k, l, c, u)' <=> CommittedNext(k, l, c, u)
  BY DEF CommittedBy, CommittedNext
<1>5. ASSUME NEW l \in Seq(Entry), NEW p \in Server, CommittedBy(h, l, Len(l), currentTerm[p])
      PROVE  Settles(k, l)
  <2>1. /\ Len(l) \in Nat /\ Len(l) <= Len(l) /\ Same(l, l, Len(l))
    BY DEF Same
  <2>2. /\ currentTerm[p] \in Nat /\ currentTerm'[p] \in Nat
        /\ currentTerm[p] <= currentTerm'[p]
    BY <1>2 DEF TypeOK, Steady, Keeps
  <2>3. CommittedNext(k, l, Len(l), currentTerm'[p])
    BY <1>1, <1>2, <1>5, <2>1, <2>2, CommittedLess
  <2> QED  BY <2>3 DEF Settles
<1>6. Settles(k, committed)
  BY <1>5 DEF Recorded
<1>7. ASSUME NEW p \in Server PROVE Settles(k, Known(p)) /\ Settles(k, Known(p)')
  <2>1. /\ Known(p) \in Seq(Entry)
        /\ CommittedBy(h, Known(p), Len(Known(p)), currentTerm[p])
    BY LedgerTellsNow DEF LedgerTells, AgreementInv
  <2>2. PICK l, c, u : l = Known(p)' /\ c = Len(l) /\ u = currentTerm'[p]
    OBVIOUS
  <2>3. CommittedBy(k, l, c, u)'
    BY <1>3, <2>2
  <2>4. CommittedNext(k, l, c, u)
    BY <1>4, <2>3
  <2>5. Settles(k, l)
    BY <1>3, <2>2, <2>4 DEF Settles
  <2> QED  BY <1>5, <2>1, <2>2, <2>5
<1>8. ASSUME NEW l, NEW m, Settles(k, l), Settles(k, m), NEW n \in Nat, n <= Len(l), n <= Len(m)
      PROVE  Same(l, m, n)
  <2>1. PICK p \in Server, q \in Server :
           /\ CommittedNext(k, l, Len(l), currentTerm'[p])
           /\ CommittedNext(k, m, Len(m), currentTerm'[q])
    BY <1>8 DEF Settles
  <2>2. PICK u, v : u = currentTerm'[p] /\ v = currentTerm'[q]
    OBVIOUS
  <2>3. CommittedBy(k, l, Len(l), u)' /\ CommittedBy(k, m, Len(m), v)'
    BY <1>4, <2>1, <2>2
  <2> QED  BY <1>3, <1>8, <2>3 DEF Settles
<1>9. Fits(h, k)
  BY <1>1, <1>6, <1>7, <1>8 DEF Fits, Candidates
<1> QED  BY <1>9

\* The history becomes the longest of them; when nothing happens it is that
\* already.
LEMMA RecordsLongest ==
    ASSUME TypeOK, TypeOK', NEW h \in Ledger, NEW k \in Ledger, WritingInv(h), AgreementInv(h),
           Recorded(h), Fits(h, k), [HistoryNext]_historyVars
    PROVE  Longest(committed')
<1>1. \A l \in Candidates : l \in Seq(Entry)
  BY DEF Fits, Settles
<1>2. CASE RecordCommitted
  <2>1. IsFiniteSet(Candidates)
    <3> DEFINE f == [p \in Server |-> Known(p)']
               K == {Known(p)' : p \in Server}
    <3>1. f \in Surjection(Server, K)
      BY DEF Surjection
    <3>2. IsFiniteSet(K)
      BY <3>1, FS_Surjection, ServerAssumption
    <3>3. Candidates = K \cup {committed}
      BY DEF Candidates
    <3> HIDE DEF K
    <3> QED  BY <3>2, <3>3, FS_AddElement
  <2>2. committed \in Candidates
    BY DEF Candidates
  <2>3. \E l \in Candidates : \A m \in Candidates : Len(l) >= Len(m)
    BY <1>1, <2>1, <2>2, LongestSequence
  <2>4. committed' = CHOOSE l \in Candidates : \A m \in Candidates : Len(l) >= Len(m)
    BY <1>2 DEF RecordCommitted, Candidates
  <2> QED  BY <2>3, <2>4 DEF Longest
<1>3. CASE UNCHANGED historyVars
  <2>1. committed' = committed /\ log' = log /\ commitIndex' = commitIndex
    BY <1>3 DEF historyVars, vars, durable
  <2>2. \A p \in Server : Known(p)' = Known(p) /\ Len(Known(p)) <= Len(committed)
    BY <2>1, LedgerTellsNow DEF LedgerTells, AgreementInv, Recorded, Known
  <2>3. ASSUME NEW m \in Candidates PROVE Len(committed) >= Len(m)
    <3>1. Len(committed) \in Nat /\ Len(m) \in Nat
      BY <1>1 DEF Recorded
    <3>2. m = committed \/ \E p \in Server : m = Known(p)
      BY <2>2 DEF Candidates
    <3> QED  BY <2>2, <3>1, <3>2
  <2> QED  BY <2>1, <2>3 DEF Longest, Candidates
<1> QED  BY <1>2, <1>3 DEF HistoryNext

\* It is recorded that it was committed.
LEMMA RecordedKept ==
    ASSUME TypeOK, TypeOK', NEW h \in Ledger, NEW k \in Ledger, WritingInv(h), AgreementInv(h),
           Recorded(h), Fits(h, k), [HistoryNext]_historyVars
    PROVE  Recorded(k)'
<1>1. Longest(committed')
  BY RecordsLongest
<1>2. Settles(k, committed')
  BY <1>1 DEF Fits, Longest
<1>3. PICK l : l = committed'
  OBVIOUS
<1>4. PICK p \in Server : CommittedNext(k, l, Len(l), currentTerm'[p])
  BY <1>2, <1>3 DEF Settles
<1>5. CommittedBy(k, committed, Len(committed), currentTerm[p])'
  BY <1>3, <1>4 DEF CommittedBy, CommittedNext
<1>6. ASSUME NEW q \in Server PROVE commitIndex'[q] <= Len(committed')
  <2>1. Len(Known(q)') = commitIndex'[q]
    BY LedgerTellsNext DEF LedgerTells, AgreementInv, Fits
  <2>2. Known(q)' \in Candidates
    BY DEF Candidates
  <2>3. Len(l) \in Nat /\ commitIndex'[q] \in Nat
    BY <1>2, <1>3 DEF Settles, TypeOK
  <2> QED  BY <1>1, <1>3, <2>1, <2>2, <2>3 DEF Longest
<1> QED  BY <1>2, <1>5, <1>6 DEF Recorded, Settles

\* A step of Raft is a step of the abstract log or none.
LEMMA StepRefines ==
    ASSUME TypeOK, TypeOK', NEW h \in Ledger, NEW k \in Ledger, WritingInv(h), AgreementInv(h),
           Recorded(h), Fits(h, k), [HistoryNext]_historyVars
    PROVE  Abstract!LogNext
<1> DEFINE K == [p \in Server |-> Known(p)]
<1>1. /\ \A p \in Server : /\ Known(p) \in Seq(Entry) /\ Len(Known(p)) = commitIndex[p]
                           /\ Settles(k, Known(p))
      /\ \A p \in Server : /\ Known(p)' \in Seq(Entry) /\ Len(Known(p)') = commitIndex'[p]
                           /\ Known(p)' \in Candidates /\ Settles(k, Known(p)')
      /\ committed \in Seq(Entry) /\ committed \in Candidates /\ Settles(k, committed)
  BY LedgerTellsNow, LedgerTellsNext
     DEF LedgerTells, AgreementInv, Fits, Candidates, Recorded
<1>2. \A l, m : Settles(k, l) /\ Settles(k, m) =>
          \A n \in Nat : n <= Len(l) /\ n <= Len(m) => Same(l, m, n)
  BY DEF Fits
<1>3. Longest(committed') /\ committed' \in Candidates /\ committed' \in Seq(Entry)
      /\ Settles(k, committed')
  BY RecordsLongest DEF Longest, Fits, Settles
<1>4. ASSUME NEW l \in Seq(Entry), NEW m \in Seq(Entry), Settles(k, l), Settles(k, m),
             Len(m) <= Len(l)
      PROVE  Abstract!Extends(l, m)
  <2>1. Len(m) \in Nat /\ Len(m) <= Len(m)
    BY <1>4
  <2>2. Same(l, m, Len(m))
    BY <1>2, <1>4, <2>1
  <2> QED  BY <1>4, <2>2, SameExtends
<1>5. ASSUME NEW l \in Seq(Entry), NEW m \in Seq(Entry), Settles(k, l), Settles(k, m),
             Len(m) = Len(l)
      PROVE  l = m
  <2>1. Len(m) \in Nat /\ Len(m) <= Len(m)
    BY <1>5
  <2>2. Same(l, m, Len(m))
    BY <1>2, <1>5, <2>1
  <2> QED  BY <1>5, <2>2, SameEqual
<1>6. PICK s \in Server : MovesAlone(s)
  <2>1. [Next]_vars
    BY DEF HistoryNext, historyVars
  <2>2. \A p \in Server : commitIndex[p] <= Len(log[p])
    BY CommitWithin DEF AgreementInv
  <2> QED  BY <2>1, <2>2, OneMoves
<1>7. \A p \in Server \ {s} : Known(p)' = Known(p)
  BY <1>6 DEF MovesAlone, Known
<1>8. K' = [K EXCEPT ![s] = K'[s]] /\ K'[s] = Known(s)' /\ K[s] = Known(s)
  BY <1>7
<1>9. Len(committed) \in Nat /\ Len(committed') \in Nat /\ Len(committed) <= Len(committed')
  BY <1>1, <1>3 DEF Longest
<1>10. CASE commitIndex'[s] = 0
  <2>1. Known(s)' = << >>
    BY <1>1, <1>10
  <2>2. committed' = committed
    <3>1. PICK l \in Candidates : l = committed'
      BY <1>3
    <3>2. CASE l = committed
      BY <3>1, <3>2
    <3>3. CASE l # committed
      <4>1. PICK p \in Server : l = Known(p)'
        BY <3>3 DEF Candidates
      <4>2. Len(l) <= Len(committed)
        <5>1. CASE p = s
          BY <1>9, <2>1, <4>1, <5>1
        <5>2. CASE p # s
          BY <1>1, <1>7, <4>1, <5>2 DEF Recorded
        <5> QED  BY <5>1, <5>2
      <4>3. Len(committed) = Len(committed')
        BY <1>9, <3>1, <4>2
      <4> QED  BY <1>1, <1>3, <1>5, <4>3
    <3> QED  BY <3>2, <3>3
  <2>3. K' = [K EXCEPT ![s] = << >>]
    BY <1>8, <2>1
  <2>4. Abstract!Forget(s)
    BY <2>2, <2>3 DEF Abstract!Forget
  <2> QED  BY <2>4 DEF Abstract!LogNext
<1>11. CASE commitIndex'[s] >= commitIndex[s] /\ committed' = committed
  <2>1. Len(Known(s)) <= Len(Known(s)')
    BY <1>1, <1>11 DEF TypeOK
  <2>2. Len(Known(s)') <= Len(committed)
    BY <1>1, <1>3, <1>9, <1>11 DEF Longest
  <2>3. Abstract!Extends(Known(s)', Known(s)) /\ Abstract!Extends(committed, Known(s)')
    BY <1>1, <1>4, <2>1, <2>2
  <2>4. Abstract!Learn(s)
    BY <1>8, <1>11, <2>3 DEF Abstract!Learn
  <2> QED  BY <2>4 DEF Abstract!LogNext
<1>12. CASE commitIndex'[s] >= commitIndex[s] /\ committed' # committed
  <2>1. PICK p \in Server : committed' = Known(p)'
    BY <1>3, <1>12 DEF Candidates
  <2>2. p = s
    <3> SUFFICES ASSUME p # s PROVE FALSE
      OBVIOUS
    <3>1. Len(committed') <= Len(committed)
      BY <1>1, <1>7, <2>1 DEF Recorded
    <3>2. Len(committed) = Len(committed')
      BY <1>9, <3>1
    <3> QED  BY <1>1, <1>3, <1>5, <1>12, <3>2
  <2>3. Abstract!Extends(committed', committed)
    BY <1>1, <1>3, <1>4, <1>9
  <2>4. K' = [K EXCEPT ![s] = committed']
    BY <1>8, <2>1, <2>2
  <2>5. Abstract!Commit(s)
    BY <1>12, <2>3, <2>4 DEF Abstract!Commit
  <2> QED  BY <2>5 DEF Abstract!LogNext
<1> QED  BY <1>6, <1>10, <1>11, <1>12 DEF MovesAlone, Moves

-----------------------------------------------------------------------------
(* What a server ever took for committed. *)

\* However often a server restarted, what it ever took for committed was
\* committed by its term, and is in its log.
Remembered(h) ==
    /\ reached \in [Server -> Nat]
    /\ \A p \in Server :
          /\ commitIndex[p] <= reached[p]
          /\ CommittedBy(h, log[p], reached[p], currentTerm[p])

\* What a step may make of a log: nothing, one entry more, or what
\* OnAppendEntries leaves of it.
LogMoves(s) ==
    \/ log'[s] = log[s]
    \/ \E e \in Entry : log'[s] = Append(log[s], e)
    \/ \E m \in Requests : /\ Matches(log[s], m) /\ m.term >= currentTerm[s]
                           /\ log'[s] \in Outcomes(log[s], m)

\* Nothing else happens to a log.
LEMMA EveryLogMoves ==
    ASSUME TypeOK, [Next]_vars, NEW s \in Server
    PROVE  LogMoves(s)
<1>1. ASSUME NEW p \in Server, Timeout(p) PROVE LogMoves(s)
  <2>1. CASE StartElection(p) \/ SoloCommit(p)
    BY <2>1 DEF StartElection, SoloCommit, durable, LogMoves
  <2>2. CASE WinElection(p) \/ SoloElection(p)
    <3>1. Untouched(p)
      BY <2>2, TimeoutTouches
    <3>2. currentTerm \in [Server -> Nat \ {0}] /\ log \in [Server -> Seq(Entry)]
      BY DEF TypeOK
    <3>3. /\ [term |-> currentTerm[p], value |-> Stub] \in Entry
          /\ [term |-> currentTerm[p] + 1, value |-> Stub] \in Entry
      <4>1. currentTerm[p] \in Nat
        BY <3>2
      <4>2. currentTerm[p] + 1 \in Nat
        BY <4>1
      <4> QED  BY <4>1, <4>2 DEF Entry
    <3>4. \/ log'[p] = Append(log[p], [term |-> currentTerm[p], value |-> Stub])
          \/ log'[p] = Append(log[p], [term |-> currentTerm[p] + 1, value |-> Stub])
      BY <2>2, <3>2 DEF WinElection, SoloElection
    <3>5. \E e \in Entry : log'[p] = Append(log[p], e)
      BY <3>3, <3>4
    <3> QED  BY <3>1, <3>5 DEF Untouched, LogMoves
  <2>3. ASSUME NEW due \in SUBSET Peers(p), LeaderTimeout(p, due) PROVE LogMoves(s)
    BY <2>3 DEF LeaderTimeout, durable, LogMoves
  <2> QED  BY <1>1, <2>1, <2>2, <2>3 DEF Timeout
<1>2. ASSUME NEW p \in Server, NEW v \in Value, AppendValue(p, v) PROVE LogMoves(s)
  <2>1. Untouched(p)
    BY <1>2, AppendSteady
  <2>2. [term |-> currentTerm[p], value |-> v] \in Entry
    BY DEF TypeOK, Entry
  <2>3. log'[p] = Append(log[p], [term |-> currentTerm[p], value |-> v])
    BY <1>2 DEF AppendValue, TypeOK
  <2> QED  BY <2>1, <2>2, <2>3 DEF Untouched, LogMoves
<1>3. ASSUME NEW m \in msgs, Process(m.dst, m) PROVE LogMoves(s)
  <2>1. PICK p \in Server : p = m.dst /\ Untouched(p)
    BY <1>3, ProcessTouches
  <2>2. CASE AcceptAppend(p, m)
    <3>1. m \in Requests /\ m.term >= currentTerm[p]
      BY <2>2 DEF AcceptAppend, Requests
    <3>2. \/ log' = log
          \/ Matches(log[p], m) /\ log'[p] = Merge(log[p], m)
      BY <2>2 DEF AcceptAppend, TypeOK
    <3> QED  BY <2>1, <3>1, <3>2 DEF Untouched, LogMoves, Outcomes
  <2>3. CASE ~ AcceptAppend(p, m)
    <3>1. log' = log
      BY <1>3, <2>1, <2>3 DEF Process, OnVoteRequest, StepDown, OnVoteResponse, RefuseAppend,
         OnAppendSuccess, OnAppendFailure, durable
    <3> QED  BY <3>1 DEF LogMoves
  <2> QED  BY <2>2, <2>3
<1>4. ASSUME NEW p \in Server, Crash(p) PROVE LogMoves(s)
  <2>1. Untouched(p)
    BY <1>4, CrashTouches
  <2>2. CASE log' = log
    BY <2>2 DEF LogMoves
  <2>3. ASSUME NEW m \in msgs, CrashInAppend(p, m) PROVE LogMoves(s)
    <3>1. m \in Requests /\ m.term >= currentTerm[p] /\ Matches(log[p], m)
      BY <2>3 DEF CrashInAppend, Requests
    <3>2. log'[p] \in PartialMerges(log[p], m)
      BY <2>3 DEF CrashInAppend, TypeOK
    <3> QED  BY <2>1, <3>1, <3>2 DEF Untouched, LogMoves, Outcomes
  <2> QED  BY <1>4, <2>2, <2>3 DEF Crash, Restart, CrashInTermCheck, durable
<1>5. CASE UNCHANGED vars
  BY <1>5 DEF vars, durable, LogMoves
<1> QED  BY <1>1, <1>2, <1>3, <1>4, <1>5 DEF Next, Step

\* What was committed by a server's term stays in the server's log.
LEMMA CommittedHeld ==
    ASSUME TypeOK, TypeOK', NEW h \in Ledger, WritingInv(h), AgreementInv(h), [Next]_vars,
           NEW s \in Server, NEW c \in Nat, CommittedBy(h, log[s], c, currentTerm[s])
    PROVE  Same(log[s], log'[s], c)
<1>1. log[s] \in Seq(Entry) /\ log'[s] \in Seq(Entry) /\ currentTerm[s] \in Nat
  BY DEF TypeOK
<1>2. CASE c = 0
  <2>1. Len(log[s]) \in Nat /\ Len(log'[s]) \in Nat
    BY <1>1
  <2> QED  BY <1>2, <2>1 DEF Same
<1>3. CASE c # 0
  <2>1. PICK t \in DOMAIN h : /\ t <= currentTerm[s]
                              /\ \E i \in Own(h, t) : /\ c <= i /\ Committed(h, t, i)
                                                      /\ Same(log[s], h[t].log, c)
    BY <1>3 DEF CommittedBy
  <2>2. PICK i \in Own(h, t) : c <= i /\ Committed(h, t, i) /\ Same(log[s], h[t].log, c)
    BY <2>1
  <2>3. /\ t \in Nat /\ h[t].log \in Seq(Entry) /\ i \in 1..Len(h[t].log)
        /\ ~ Lost(h, t, i) /\ LaterLeadersInv(h)
    BY <2>2, LedgerFields, CommittedNotLost DEF Own, AgreementInv
  <2>4. Same(h[t].log, log[s], c)
    BY <2>2 DEF Same
  <2>5. CASE log'[s] = log[s]
    BY <2>2, <2>5 DEF Same
  <2>6. ASSUME NEW e \in Entry, log'[s] = Append(log[s], e) PROVE Same(log[s], log'[s], c)
    <3>1. c <= Len(log[s])
      BY <2>2 DEF Same
    <3>2. /\ Len(log[s]) \in Nat /\ Len(log'[s]) = Len(log[s]) + 1
          /\ \A j \in 1..Len(log[s]) : log'[s][j] = log[s][j]
      BY <1>1, <2>6
    <3> QED  BY <3>1, <3>2 DEF Same
  <2>7. ASSUME NEW m \in Requests, Matches(log[s], m), m.term >= currentTerm[s],
               log'[s] \in Outcomes(log[s], m)
        PROVE  Same(log[s], log'[s], c)
    <3>1. m.term \in Nat
      BY MessageFields DEF Requests, TypeOK
    <3>2. t <= m.term
      BY <1>1, <2>1, <2>3, <2>7, <3>1
    <3>3. Same(h[t].log, log'[s], c)
      BY <2>2, <2>3, <2>4, <2>7, <3>2, OutcomeKeeps
    <3> QED  BY <1>1, <2>2, <2>3, <3>3, SameTrans
  <2> QED  BY <2>5, <2>6, <2>7, EveryLogMoves DEF LogMoves
<1> QED  BY <1>2, <1>3

\* What a server remembers it keeps, and what it learns it remembers.
LEMMA RememberedKept ==
    ASSUME TypeOK, TypeOK', ElectionInv, NEW h \in Ledger, NEW k \in Ledger,
           WritingInv(h), AgreementInv(h), Remembered(h), Fits(h, k),
           [HistoryNext]_historyVars
    PROVE  Remembered(k)'
<1>1. [Next]_vars /\ Steady
  BY NextSteady DEF HistoryNext, historyVars
<1>2. \A p \in Server : commitIndex[p] \in Nat /\ commitIndex'[p] \in Nat /\ reached[p] \in Nat
  BY DEF TypeOK, Remembered
<1>3. \/ reached' = [p \in Server |-> MaxOf(reached[p], commitIndex'[p])]
      \/ reached' = reached /\ commitIndex' = commitIndex
  BY DEF HistoryNext, RecordReached, historyVars, vars
<1>4. /\ reached' \in [Server -> Nat]
      /\ \A p \in Server : /\ commitIndex'[p] <= reached'[p]
                           /\ reached'[p] \in {reached[p], commitIndex'[p]}
  BY <1>2, <1>3 DEF MaxOf, Remembered
<1>5. ASSUME NEW p \in Server PROVE CommittedNext(k, log'[p], reached'[p], currentTerm'[p])
  <2>1. CommittedNext(k, log'[p], commitIndex'[p], currentTerm'[p])
    BY DEF Fits, AgreementInv, CommitInv, CommittedBy, CommittedNext
  <2>2. CommittedNext(k, log'[p], reached[p], currentTerm'[p])
    <3>1. /\ log[p] \in Seq(Entry) /\ log'[p] \in Seq(Entry)
          /\ currentTerm[p] \in Nat /\ currentTerm'[p] \in Nat
          /\ currentTerm[p] <= currentTerm'[p]
      BY <1>1 DEF TypeOK, Steady, Keeps
    <3>2. CommittedBy(h, log[p], reached[p], currentTerm[p])
      BY DEF Remembered
    <3>3. Same(log[p], log'[p], reached[p])
      BY <1>1, <1>2, <3>2, CommittedHeld
    <3>4. reached[p] <= reached[p] /\ Grows(h, k)
      BY <1>2 DEF Fits
    <3> QED  BY <1>1, <1>2, <3>1, <3>2, <3>3, <3>4, CommittedLess
  <2> QED  BY <1>4, <2>1, <2>2
<1>6. ASSUME NEW p \in Server PROVE CommittedBy(k, log[p], reached[p], currentTerm[p])'
  BY <1>5 DEF CommittedBy, CommittedNext
<1> QED  BY <1>4, <1>6 DEF Remembered

-----------------------------------------------------------------------------
(* Each server is a replica. *)

\* Logs that agree are so to the replica too.
LEMMA AgreeSame ==
    ASSUME NEW l \in Seq(Entry), NEW m \in Seq(Entry), NEW n \in Nat, Same(l, m, n)
    PROVE  Rep!Agree(l, m, n)
<1>1. n <= Len(l) /\ n <= Len(m)
  BY DEF Same
<1>2. Prefix(l, n) = SubSeq(l, 1, n) /\ Prefix(m, n) = SubSeq(m, 1, n)
  BY <1>1 DEF Prefix, MinOf
<1> QED  BY <1>1, <1>2, SamePrefix DEF Rep!Agree

\* A log that is not changed, or only at its end, is merged.
LEMMA MergedSame ==
    ASSUME NEW l \in Seq(Entry)
    PROVE  Rep!Merged(l, l)
<1>1. Same(l, l, Len(l)) /\ Len(l) \in Nat /\ Len(l) \in 0..Len(l)
  BY DEF Same
<1> QED  BY <1>1, AgreeSame DEF Rep!Merged

\* Where OnAppendEntries starts to replace entries, one of the two logs has
\* the stub its term starts with.
LEMMA MergeSplits ==
    ASSUME TypeOK, NEW h \in Ledger, WritingInv(h), NEW s \in Server,
           NEW m \in Requests, Matches(log[s], m), m.term >= currentTerm[s]
    PROVE  Rep!Merged(log[s], Merge(log[s], m))
<1> DEFINE o == Merge(log[s], m)
           L == h[m.term].log
<1>1. /\ log[s] \in Seq(Entry) /\ Written(h, log[s]) /\ PagesInv(h)
      /\ m \in Message /\ m.type = "AppendEntriesRequest" /\ Quotes(h, m)
  BY DEF TypeOK, WritingInv, LogsInv, RequestsInv, Requests
<1>2. m.entries \in Seq(Entry) /\ m.prevLogIndex \in Nat /\ m.prevLogIndex <= Len(log[s])
  BY <1>1, MessageFields DEF Matches
<1>3. o \in Outcomes(log[s], m)
  BY DEF Outcomes
<1>4. o \in Seq(Entry) /\ Written(h, o)
  BY <1>3, RequestFollows, OutcomeWritten
<1>5. StubsFirst(log[s]) /\ StubsFirst(o)
  BY <1>1, <1>4, WrittenStubs
<1>6. CASE Conflicts(log[s], m) = {}
  BY <1>1, <1>6, MergedSame DEF Merge
<1>7. CASE Conflicts(log[s], m) # {}
  <2>1. \A j \in 1..Len(m.entries) : m.entries[j].term # 0
    <3>1. L \in Seq(Entry) /\ Written(h, L)
      BY <1>1, LedgerFields DEF Quotes, PagesInv
    <3>2. \A i \in 1..Len(L) : L[i].term # 0
      BY <3>1, LedgerFields DEF Written
    <3>3. \A j \in 1..Len(m.entries) : m.entries[j] = L[m.prevLogIndex + j]
      BY <1>1 DEF Quotes
    <3>4. m.prevLogIndex + Len(m.entries) <= Len(L)
      BY <1>1 DEF Quotes
    <3> HIDE DEF L
    <3>5. \A j \in 1..Len(m.entries) : m.prevLogIndex + j \in 1..Len(L)
      BY <1>2, <3>1, <3>4
    <3> QED  BY <3>2, <3>3, <3>5
  <2>2. PICK c \in 1..Len(m.entries) : ReplacesFrom(log[s], m, c)
    BY <1>1, <1>2, <1>7, <2>1, OutcomeShape
  <2> DEFINE k == m.prevLogIndex + c - 1
  <2>3. /\ LogTerm(log[s], k + 1) # m.entries[c].term
        /\ k <= Len(log[s]) /\ Same(o, log[s], k)
        /\ Len(o) = m.prevLogIndex + Len(m.entries)
        /\ \A i \in (m.prevLogIndex + c)..Len(o) : o[i] = m.entries[i - m.prevLogIndex]
    <3>1. m.prevLogIndex + c = k + 1
      BY <1>2
    <3> QED  BY <1>3, <2>2, <3>1 DEF ReplacesFrom
  <2>4. k \in 0..Len(log[s]) /\ k < Len(o) /\ k + 1 = m.prevLogIndex + c
    BY <1>1, <1>2, <2>3
  <2> HIDE DEF o, L
  <2>5. o[k + 1] = m.entries[c]
    <3>1. PICK i : i = m.prevLogIndex + c
      OBVIOUS
    <3> HIDE DEF k
    <3>2. i \in (m.prevLogIndex + c)..Len(o) /\ i - m.prevLogIndex = c
      <4>1. m.prevLogIndex \in Nat /\ Len(m.entries) \in Nat /\ c \in Nat /\ c <= Len(m.entries)
        BY <1>2
      <4>2. Len(o) = m.prevLogIndex + Len(m.entries)
        BY <2>3
      <4> QED  BY <3>1, <4>1, <4>2
    <3>3. o[i] = m.entries[i - m.prevLogIndex]
      BY <2>3, <3>2
    <3> QED  BY <2>4, <3>1, <3>2, <3>3
  <2> HIDE DEF k
  <2>6. Same(log[s], o, k)
    BY <2>3 DEF Same
  <2>7. Rep!Agree(log[s], o, k)
    BY <1>1, <1>4, <2>4, <2>6, AgreeSame
  <2>8. CASE k = Len(log[s])
    BY <2>4, <2>7, <2>8 DEF Rep!Merged, o
  <2>9. CASE k < Len(log[s])
    <3>1. k + 1 \in 1..Len(log[s]) /\ k + 1 \in 1..Len(o)
      BY <1>1, <1>4, <2>4, <2>9
    <3>2. log[s][k + 1].term # o[k + 1].term
      BY <1>1, <2>3, <2>5, <3>1, EntryFields
    <3>3. Stub \in {log[s][k + 1].value, o[k + 1].value}
      <4>1. CASE k = 0
        <5>1. k + 1 = 1
          BY <4>1
        <5> QED  BY <1>5, <3>1, <5>1 DEF StubsFirst, StartsTerm
      <4>2. CASE k # 0
        <5>1. k \in 1..k /\ k + 1 - 1 = k
          BY <2>4, <4>2
        <5>2. log[s][k] = o[k]
          BY <2>6, <5>1 DEF Same
        <5>3. log[s][k].term # log[s][k + 1].term \/ o[k].term # o[k + 1].term
          BY <3>2, <5>2
        <5>4. log[s][k].term # log[s][k + 1].term => log[s][k + 1].value = Stub
          BY <1>5, <3>1, <5>1 DEF StubsFirst, StartsTerm
        <5>5. o[k].term # o[k + 1].term => o[k + 1].value = Stub
          BY <1>5, <3>1, <5>1 DEF StubsFirst, StartsTerm
        <5> QED  BY <5>3, <5>4, <5>5
      <4> QED  BY <4>1, <4>2
    <3> QED  BY <2>4, <2>7, <2>9, <3>3 DEF Rep!Merged, o
  <2> QED  BY <1>1, <2>4, <2>8, <2>9
<1> QED  BY <1>6, <1>7

\* One step, as the replica of s sees it.
StepsAsReplica(s) ==
    ReplicaOf(s)' = ReplicaOf(s) \/ Rep!ReplicaStep(ReplicaOf(s), ReplicaOf(s)')

\* The moves of a replica, field by field.
Looks(s, role, leader, l, c) ==
    /\ stateName'[s] = role /\ leaderId'[s] = leader
    /\ log'[s] = l /\ commitIndex'[s] = c

Fields(role, leader, l, c) ==
    [role |-> role, leaderId |-> leader, log |-> l, commitIndex |-> c]

\* What Submit and Advance make of a replica's fields.
LEMMA FieldsChanged ==
    ASSUME NEW a, NEW b, NEW l, NEW c, NEW e, NEW d
    PROVE  /\ Rep!Submit(Fields(a, b, l, c), e) = Fields(a, b, Append(l, e), c)
           /\ Rep!Advance(Fields(a, b, l, c), d) = Fields(a, b, l, d)
<1>1. Rep!Submit(Fields(a, b, l, c), e) = Fields(a, b, Append(l, e), c)
  BY DEF Rep!Submit, Fields
<1>2. Rep!Advance(Fields(a, b, l, c), d) = Fields(a, b, l, d)
  BY DEF Rep!Advance, Fields
<1> QED  BY <1>1, <1>2

\* StartElection is Stand.
LEMMA StandsAsReplica ==
    ASSUME NEW s \in Server, stateName[s] # "LEADER",
           Looks(s, "CANDIDATE", Nil, log[s], commitIndex[s])
    PROVE  StepsAsReplica(s)
BY DEF Looks, StepsAsReplica, ReplicaOf, Rep!ReplicaStep, Rep!Stand

\* Winning an election is Lead; a server alone commits in the same step.
LEMMA LeadsAsReplica ==
    ASSUME TypeOK, NEW s \in Server, stateName[s] # "LEADER",
           NEW e \in Entry, e.value = Stub, NEW c,
           Looks(s, "LEADER", Nil, Append(log[s], e), c),
           c = commitIndex[s] \/ c = Len(log'[s])
    PROVE  StepsAsReplica(s)
<1>1. log[s] \in Seq(Entry)
  BY DEF TypeOK
<1>2. /\ Len(log'[s]) = Len(log[s]) + 1 /\ log'[s][Len(log'[s])] = e
      /\ log'[s] = Append(log[s], e)
  BY <1>1 DEF Looks
<1> DEFINE r == ReplicaOf(s)
           q == ReplicaOf(s)'
<1>3. /\ r.role # "LEADER" /\ Len(q.log) = Len(r.log) + 1
      /\ q.log[Len(q.log)] = e
  BY <1>2 DEF ReplicaOf
<1>4. CASE c = commitIndex[s]
  <2>1. q = Rep!Lead(r, e)
    BY <1>2, <1>4 DEF Looks, ReplicaOf, Rep!Lead
  <2> HIDE DEF r, q
  <2> QED  BY <1>3, <2>1 DEF StepsAsReplica, Rep!ReplicaStep, r, q
<1>5. CASE c = Len(log'[s])
  <2>1. q = Rep!Advance(Rep!Lead(r, e), Len(q.log))
    <3>1. PICK l, d : l = Append(log[s], e) /\ d = commitIndex[s]
      OBVIOUS
    <3>2. Rep!Lead(r, e) = Fields("LEADER", Nil, l, d)
      BY <3>1 DEF ReplicaOf, Rep!Lead, Fields
    <3>3. q = Fields("LEADER", Nil, l, c) /\ Len(q.log) = c
      BY <1>2, <1>5, <3>1 DEF Looks, ReplicaOf, Fields
    <3> HIDE DEF r, q
    <3>4. Rep!Advance(Fields("LEADER", Nil, l, d), c) = Fields("LEADER", Nil, l, c)
      BY FieldsChanged
    <3> QED  BY <3>2, <3>3, <3>4
  <2> HIDE DEF r, q
  <2> QED  BY <1>3, <2>1 DEF StepsAsReplica, Rep!ReplicaStep, r, q
<1> QED  BY <1>4, <1>5

\* A leader's own command is Submit.
LEMMA SubmitsAsReplica ==
    ASSUME TypeOK, NEW s \in Server, stateName[s] = "LEADER", NEW e \in Entry,
           Looks(s, "LEADER", leaderId[s], Append(log[s], e), commitIndex[s])
    PROVE  StepsAsReplica(s)
<1>1. log[s] \in Seq(Entry)
  BY DEF TypeOK
<1>2. /\ Len(log'[s]) = Len(log[s]) + 1 /\ log'[s][Len(log'[s])] = e
      /\ log'[s] = Append(log[s], e)
  BY <1>1 DEF Looks
<1> DEFINE r == ReplicaOf(s)
           q == ReplicaOf(s)'
<1>3. /\ r.role = "LEADER" /\ Len(q.log) = Len(r.log) + 1
      /\ q.log[Len(q.log)] = e
  BY <1>2 DEF ReplicaOf
<1>4. q = Rep!Submit(r, e)
  <2>1. r = Fields("LEADER", leaderId[s], log[s], commitIndex[s])
    BY DEF ReplicaOf, Fields
  <2>2. q = Fields("LEADER", leaderId[s], Append(log[s], e), commitIndex[s])
    BY DEF Looks, ReplicaOf, Fields
  <2> HIDE DEF r, q
  <2> QED  BY <2>1, <2>2, FieldsChanged
<1> HIDE DEF r, q
<1> QED  BY <1>3, <1>4 DEF StepsAsReplica, Rep!ReplicaStep, r, q

\* An index a leader newly commits lies in its own term, behind every stub.
LEMMA StubsCounted ==
    ASSUME TypeOK, NEW h \in Ledger, WritingInv(h), NEW s \in Server,
           NEW match, NEW c, c = CommitAdvance(s, log[s], match),
           c # commitIndex[s]
    PROVE  Rep!CountsStubs(log[s], c)
<1> DEFINE l == log[s]
           T == currentTerm[s]
<1>1. l \in Seq(Entry) /\ T \in Nat \ {0} /\ c \in Nat
  BY CommitAdvanceType DEF TypeOK
<1>2. /\ Written(h, l) /\ PagesInv(h)
      /\ \A i \in 1..Len(l) : l[i].term <= T
  BY DEF WritingInv, LogsInv
<1>3. LogTerm(l, c) = T
  BY DEF CommitAdvance
<1> HIDE DEF l, T
<1>4. Ordered(l) /\ StubsFirst(l)
  BY <1>1, <1>2, WrittenOrdered, WrittenStubs
<1>5. c \in 1..Len(l) /\ l[c].term = T
  BY <1>1, <1>3 DEF LogTerm
<1>6. ASSUME NEW i \in 1..Len(l), l[i].value = Stub, c < i PROVE FALSE
  <2>1. i # 1 /\ i - 1 \in 1..Len(l) /\ c <= i - 1
    BY <1>1, <1>5, <1>6
  <2>2. l[c].term <= l[i - 1].term /\ l[c].term <= l[i].term
    <3>1. PICK j \in 1..Len(l) : j = i - 1
      BY <2>1
    <3>2. l[c].term <= l[j].term
      BY <1>4, <1>5, <2>1, <3>1 DEF Ordered
    <3>3. l[c].term <= l[i].term
      BY <1>4, <1>5, <1>6 DEF Ordered
    <3> QED  BY <3>1, <3>2, <3>3
  <2>3. l[i - 1].term <= T /\ l[i].term <= T
    BY <1>2, <2>1
  <2>4. l[i - 1].term \in Nat /\ l[i].term \in Nat
    BY <1>1, <2>1, EntryFields
  <2>5. l[i - 1].term = l[i].term
    BY <1>1, <1>5, <2>2, <2>3, <2>4
  <2>6. StartsTerm(l, i)
    BY <1>4, <1>6 DEF StubsFirst
  <2> QED  BY <2>1, <2>5, <2>6 DEF StartsTerm
<1>7. \A i \in 1..Len(l) : l[i].value = Stub => i <= c
  BY <1>5, <1>6
<1> QED  BY <1>7 DEF Rep!CountsStubs, l

\* A leader's new commit index is Advance, an old one no step.
LEMMA AdvancesAsReplica ==
    ASSUME TypeOK, NEW s \in Server, stateName[s] = "LEADER", NEW c \in Nat,
           commitIndex[s] <= c, c <= Len(log[s]),
           c # commitIndex[s] => Rep!CountsStubs(log[s], c),
           Looks(s, "LEADER", leaderId[s], log[s], c)
    PROVE  StepsAsReplica(s)
<1>1. CASE c = commitIndex[s]
  BY <1>1 DEF Looks, StepsAsReplica, ReplicaOf
<1>2. CASE c # commitIndex[s]
  <2>1. c \in commitIndex[s] + 1 .. Len(log[s])
    BY <1>2 DEF TypeOK
  <2> DEFINE r == ReplicaOf(s)
             q == ReplicaOf(s)'
  <2>2. /\ r.role = "LEADER" /\ q.commitIndex = c
        /\ q.commitIndex \in r.commitIndex + 1 .. Len(r.log)
        /\ Rep!CountsStubs(r.log, q.commitIndex)
    BY <1>2, <2>1 DEF Looks, ReplicaOf
  <2>3. q = Rep!Advance(r, q.commitIndex)
    BY DEF Looks, ReplicaOf, Rep!Advance
  <2> HIDE DEF r, q
  <2> QED  BY <2>2, <2>3 DEF StepsAsReplica, Rep!ReplicaStep, r, q
<1> QED  BY <1>1, <1>2

\* Obeying a leader is Follow.
LEMMA FollowsAsReplica ==
    ASSUME TypeOK, NEW s \in Server, NEW d \in Server, NEW l, NEW c \in Nat,
           Looks(s, "FOLLOWER", d, l, c), commitIndex[s] <= c, c <= Len(l),
           Len(l) \in Nat, Rep!Agree(log[s], l, commitIndex[s]), Rep!Merged(log[s], l)
    PROVE  StepsAsReplica(s)
<1>1. c \in commitIndex[s] .. Len(l) /\ d # Nil
  BY ServerAssumption DEF TypeOK
<1> DEFINE r == ReplicaOf(s)
           q == ReplicaOf(s)'
<1>2. /\ q.leaderId # Nil /\ q.commitIndex \in r.commitIndex .. Len(q.log)
      /\ Rep!Agree(r.log, q.log, r.commitIndex) /\ Rep!Merged(r.log, q.log)
  BY <1>1 DEF Looks, ReplicaOf
<1>3. q = Rep!Follow(q.leaderId, q.log, q.commitIndex)
  BY DEF Looks, ReplicaOf, Rep!Follow
<1> HIDE DEF r, q
<1> QED  BY <1>2, <1>3 DEF StepsAsReplica, Rep!ReplicaStep, r, q

\* Hearing of a newer term is Depose.
LEMMA DeposedAsReplica ==
    ASSUME NEW s \in Server,
           \/ Looks(s, "FOLLOWER", leaderId[s], log[s], commitIndex[s])
           \/ Looks(s, stateName[s], leaderId[s], log[s], commitIndex[s])
    PROVE  StepsAsReplica(s)
<1>1. CASE Looks(s, stateName[s], leaderId[s], log[s], commitIndex[s])
  BY <1>1 DEF Looks, StepsAsReplica, ReplicaOf
<1>2. CASE Looks(s, "FOLLOWER", leaderId[s], log[s], commitIndex[s])
  <2>1. ReplicaOf(s)' = Rep!Depose(ReplicaOf(s))
    BY <1>2 DEF Looks, ReplicaOf, Rep!Depose
  <2> QED  BY <2>1 DEF StepsAsReplica, Rep!ReplicaStep
<1> QED  BY <1>1, <1>2

\* A crash is Reboot.
LEMMA RebootsAsReplica ==
    ASSUME NEW s \in Server, NEW l, Looks(s, "FOLLOWER", Nil, l, 0),
           Rep!Agree(log[s], l, commitIndex[s])
    PROVE  StepsAsReplica(s)
<1> DEFINE r == ReplicaOf(s)
           q == ReplicaOf(s)'
<1>1. Rep!Agree(r.log, q.log, r.commitIndex)
  BY DEF Looks, ReplicaOf
<1>2. q = Rep!Reboot(q.log)
  BY DEF Looks, ReplicaOf, Rep!Reboot, Rep!Follow
<1> HIDE DEF r, q
<1> QED  BY <1>1, <1>2 DEF StepsAsReplica, Rep!ReplicaStep, r, q

\* A step of a server that touches no other's replica.
MovesReplica(s) ==
    /\ StepsAsReplica(s)
    /\ \A p \in Server \ {s} : ReplicaOf(p)' = ReplicaOf(p)

\* What a timer does is a step of its server's replica.
LEMMA TimeoutIsReplica ==
    ASSUME TypeOK, NEW h \in Ledger, WritingInv(h),
           \A p \in Server : commitIndex'[p] <= Len(log'[p]),
           NEW s \in Server, Timeout(s)
    PROVE  MovesReplica(s)
<1>0. /\ leaderId \in [Server -> Server \cup {Nil}] /\ log[s] \in Seq(Entry)
      /\ currentTerm \in [Server -> Nat \ {0}] /\ commitIndex \in [Server -> Nat]
      /\ log \in [Server -> Seq(Entry)]
      /\ stateName \in [Server -> {"FOLLOWER", "CANDIDATE", "LEADER"}]
  BY DEF TypeOK
<1>1. CASE StartElection(s)
  <2>1. /\ stateName[s] # "LEADER"
        /\ Looks(s, "CANDIDATE", Nil, log[s], commitIndex[s])
        /\ leaderId' = [leaderId EXCEPT ![s] = Nil]
    BY <1>0, <1>1 DEF StartElection, FreshVolatile, Looks
  <2>2. \A p \in Server \ {s} : ReplicaOf(p)' = ReplicaOf(p)
    BY <1>0, <1>1, <2>1, TimeoutTouches DEF Untouched, ReplicaOf
  <2> QED  BY <2>1, <2>2, StandsAsReplica DEF MovesReplica
<1>2. CASE WinElection(s) \/ SoloElection(s)
  <2>1. leaderId' = [leaderId EXCEPT ![s] = Nil]
    BY <1>2 DEF WinElection, SoloElection, FreshVolatile
  <2>2. \A p \in Server \ {s} : ReplicaOf(p)' = ReplicaOf(p)
    BY <1>0, <1>2, <2>1, TimeoutTouches DEF Untouched, ReplicaOf
  <2>3. /\ stateName[s] # "LEADER" /\ stateName'[s] = "LEADER" /\ leaderId'[s] = Nil
        /\ commitIndex'[s] = commitIndex[s] \/ commitIndex'[s] = Len(log'[s])
    BY <1>0, <1>2, <2>1 DEF WinElection, SoloElection
  <2>4. /\ currentTerm[s] \in Nat /\ currentTerm[s] + 1 \in Nat
        /\ log'[s] = Append(log[s], [term |-> currentTerm[s], value |-> Stub])
           \/ log'[s] = Append(log[s], [term |-> currentTerm[s] + 1, value |-> Stub])
    BY <1>0, <1>2 DEF WinElection, SoloElection
  <2>5. PICK e \in Entry : e.value = Stub /\ log'[s] = Append(log[s], e)
    <3>1. \A t \in Nat : [term |-> t, value |-> Stub] \in Entry
      BY DEF Entry
    <3> QED  BY <2>4, <3>1
  <2>6. Looks(s, "LEADER", Nil, Append(log[s], e), commitIndex'[s])
    BY <2>3, <2>5 DEF Looks
  <2> QED  BY <2>2, <2>3, <2>5, <2>6, LeadsAsReplica DEF MovesReplica
<1>3. CASE SoloCommit(s)
  <2>1. /\ stateName[s] = "LEADER" /\ stateName' = stateName /\ leaderId' = leaderId /\ log' = log
        /\ commitIndex' = [commitIndex EXCEPT ![s] = CommitAdvance(s, log[s], matchIndex[s])]
    BY <1>3 DEF SoloCommit, durable
  <2>2. \A p \in Server \ {s} : ReplicaOf(p)' = ReplicaOf(p)
    BY <1>0, <2>1 DEF ReplicaOf
  <2>3. /\ commitIndex'[s] \in Nat
        /\ commitIndex[s] <= commitIndex'[s] /\ commitIndex'[s] <= Len(log[s])
    <3>1. CommitAdvance(s, log[s], matchIndex[s]) \in Nat
      BY <1>0, CommitAdvanceType DEF TypeOK
    <3>2. CommitAdvance(s, log[s], matchIndex[s]) >= commitIndex[s]
      BY AdvanceForward
    <3>3. commitIndex'[s] = CommitAdvance(s, log[s], matchIndex[s])
      BY <1>0, <2>1
    <3> QED  BY <1>0, <2>1, <3>1, <3>2, <3>3
  <2>4. Looks(s, "LEADER", leaderId[s], log[s], commitIndex'[s])
    BY <2>1 DEF Looks
  <2>5. commitIndex'[s] # commitIndex[s] => Rep!CountsStubs(log[s], commitIndex'[s])
    <3>1. commitIndex'[s] = CommitAdvance(s, log[s], matchIndex[s])
      BY <1>0, <2>1
    <3> QED  BY <3>1, StubsCounted
  <2> QED  BY <2>1, <2>2, <2>3, <2>4, <2>5, AdvancesAsReplica DEF MovesReplica
<1>4. ASSUME NEW due \in SUBSET Peers(s), LeaderTimeout(s, due) PROVE MovesReplica(s)
  BY <1>4 DEF LeaderTimeout, durable, MovesReplica, StepsAsReplica, ReplicaOf
<1> QED  BY <1>1, <1>2, <1>3, <1>4 DEF Timeout

\* So is Append.
LEMMA AppendIsReplica ==
    ASSUME TypeOK, NEW s \in Server, NEW v \in Value, AppendValue(s, v)
    PROVE  MovesReplica(s)
<1>0. currentTerm[s] \in Nat /\ log \in [Server -> Seq(Entry)]
  BY DEF TypeOK
<1>1. /\ stateName[s] = "LEADER" /\ stateName' = stateName /\ leaderId' = leaderId
      /\ commitIndex' = commitIndex
      /\ log' = [log EXCEPT ![s] = Append(log[s], [term |-> currentTerm[s], value |-> v])]
  BY DEF AppendValue
<1>2. \A p \in Server \ {s} : ReplicaOf(p)' = ReplicaOf(p)
  BY <1>0, <1>1 DEF ReplicaOf
<1>3. PICK e \in Entry : log'[s] = Append(log[s], e)
  <2>1. [term |-> currentTerm[s], value |-> v] \in Entry
    BY <1>0 DEF Entry
  <2> QED  BY <1>0, <1>1, <2>1
<1>4. Looks(s, "LEADER", leaderId[s], Append(log[s], e), commitIndex[s])
  BY <1>1, <1>3 DEF Looks
<1> QED  BY <1>1, <1>2, <1>4, SubmitsAsReplica DEF MovesReplica

\* So is what a message does to its receiver, when nothing committed goes.
LEMMA ProcessIsReplica ==
    ASSUME TypeOK, TypeOK', NEW h \in Ledger, WritingInv(h),
           \A p \in Server : commitIndex'[p] <= Len(log'[p]),
           \A p \in Server : Rep!Agree(log[p], log'[p], commitIndex[p]),
           NEW m \in msgs, Process(m.dst, m)
    PROVE  m.dst \in Server /\ MovesReplica(m.dst)
<1>0. PICK s \in Server : s = m.dst
  BY ProcessTouches
<1>1. /\ leaderId \in [Server -> Server \cup {Nil}] /\ commitIndex \in [Server -> Nat]
      /\ log \in [Server -> Seq(Entry)]
      /\ stateName \in [Server -> {"FOLLOWER", "CANDIDATE", "LEADER"}]
      /\ log'[s] \in Seq(Entry) /\ commitIndex'[s] \in Nat /\ m.src \in Server
  BY MessageFields DEF TypeOK
<1>2. CASE OnVoteRequest(s, m) \/ StepDown(s, m)
  <2>1. /\ stateName' = [stateName EXCEPT ![s] = NewName(s, m)]
        /\ log' = log /\ leaderId' = leaderId /\ commitIndex' = commitIndex
    BY <1>2 DEF OnVoteRequest, StepDown, TermCheck
  <2>2. \A p \in Server \ {s} : ReplicaOf(p)' = ReplicaOf(p)
    BY <1>1, <2>1 DEF ReplicaOf
  <2>3. stateName'[s] \in {"FOLLOWER", stateName[s]}
    BY <1>1, <2>1 DEF NewName
  <2>4. \/ Looks(s, "FOLLOWER", leaderId[s], log[s], commitIndex[s])
        \/ Looks(s, stateName[s], leaderId[s], log[s], commitIndex[s])
    BY <2>1, <2>3 DEF Looks
  <2> QED  BY <1>0, <2>2, <2>4, DeposedAsReplica DEF MovesReplica
<1>3. CASE OnVoteResponse(s, m) \/ RefuseAppend(s, m) \/ OnAppendFailure(s, m)
  <2>1. /\ stateName' = stateName /\ log' = log /\ leaderId' = leaderId
        /\ commitIndex' = commitIndex
    BY <1>3 DEF OnVoteResponse, RefuseAppend, OnAppendFailure, durable
  <2> QED  BY <1>0, <2>1 DEF ReplicaOf, MovesReplica, StepsAsReplica
<1>4. CASE AcceptAppend(s, m)
  <2>1. /\ m \in Requests /\ m.term >= currentTerm[s]
        /\ leaderId' = [leaderId EXCEPT ![s] = m.src]
        /\ stateName' = [stateName EXCEPT ![s] = "FOLLOWER"]
    BY <1>4 DEF AcceptAppend, Requests
  <2>2. \/ Matches(log[s], m) /\ log' = [log EXCEPT ![s] = Merge(log[s], m)]
                /\ commitIndex' = [commitIndex EXCEPT ![s] = MaxOf(commitIndex[s], m.leaderCommit)]
        \/ log' = log /\ commitIndex' = commitIndex
    BY <1>4 DEF AcceptAppend
  <2>3. \A p \in Server \ {s} : ReplicaOf(p)' = ReplicaOf(p)
    BY <1>1, <2>1, <2>2 DEF ReplicaOf
  <2>4. Looks(s, "FOLLOWER", m.src, log'[s], commitIndex'[s])
    BY <1>1, <2>1 DEF Looks
  <2>5. Rep!Merged(log[s], log'[s])
    <3>1. CASE log' = log
      BY <1>1, <3>1, MergedSame
    <3>2. CASE Matches(log[s], m) /\ log' = [log EXCEPT ![s] = Merge(log[s], m)]
      <4>1. Rep!Merged(log[s], Merge(log[s], m))
        BY <2>1, <3>2, MergeSplits
      <4> QED  BY <1>1, <3>2, <4>1
    <3> QED  BY <2>2, <3>1, <3>2
  <2>6. commitIndex[s] <= commitIndex'[s]
    <3>1. m.leaderCommit \in Nat /\ commitIndex[s] \in Nat
      BY <1>1, <2>1, MessageFields DEF Requests, TypeOK
    <3>2. commitIndex'[s] \in {commitIndex[s], MaxOf(commitIndex[s], m.leaderCommit)}
      BY <1>1, <2>2
    <3> QED  BY <3>1, <3>2 DEF MaxOf
  <2>7. Len(log'[s]) \in Nat
    BY <1>1
  <2> QED  BY <1>0, <1>1, <2>3, <2>4, <2>5, <2>6, <2>7, FollowsAsReplica DEF MovesReplica
<1>5. CASE OnAppendSuccess(s, m)
  <2>1. PICK match : /\ stateName[s] = "LEADER" /\ stateName' = stateName /\ leaderId' = leaderId
                     /\ log' = log
                     /\ commitIndex' = [commitIndex EXCEPT ![s] = CommitAdvance(s, log[s], match)]
    BY <1>5 DEF OnAppendSuccess, durable
  <2>2. \A p \in Server \ {s} : ReplicaOf(p)' = ReplicaOf(p)
    BY <1>1, <2>1 DEF ReplicaOf
  <2>3. commitIndex[s] <= commitIndex'[s] /\ commitIndex'[s] <= Len(log[s])
    <3>1. CommitAdvance(s, log[s], match) >= commitIndex[s]
      BY AdvanceForward
    <3>2. commitIndex'[s] = CommitAdvance(s, log[s], match) /\ commitIndex[s] \in Nat
      BY <1>1, <2>1
    <3> QED  BY <1>1, <2>1, <3>1, <3>2
  <2>4. Looks(s, "LEADER", leaderId[s], log[s], commitIndex'[s])
    BY <2>1 DEF Looks
  <2>5. commitIndex'[s] # commitIndex[s] => Rep!CountsStubs(log[s], commitIndex'[s])
    <3>1. commitIndex'[s] = CommitAdvance(s, log[s], match)
      BY <1>1, <2>1
    <3> QED  BY <3>1, StubsCounted
  <2> QED  BY <1>0, <1>1, <2>1, <2>2, <2>3, <2>4, <2>5, AdvancesAsReplica DEF MovesReplica
<1> QED  BY <1>0, <1>2, <1>3, <1>4, <1>5 DEF Process

\* So is a crash, even one half way through OnAppendEntries.
LEMMA CrashIsReplica ==
    ASSUME TypeOK, \A p \in Server : Rep!Agree(log[p], log'[p], commitIndex[p]),
           NEW s \in Server, Crash(s)
    PROVE  MovesReplica(s)
<1>1. Untouched(s) /\ stateName'[s] = "FOLLOWER" /\ commitIndex'[s] = 0
  BY CrashTouches
<1>2. leaderId' = [leaderId EXCEPT ![s] = Nil]
  BY DEF Crash, Restart, CrashInTermCheck, CrashInAppend, Restarted, FreshVolatile
<1>3. leaderId'[s] = Nil /\ \A p \in Server \ {s} : leaderId'[p] = leaderId[p]
  BY <1>2 DEF TypeOK
<1>4. Looks(s, "FOLLOWER", Nil, log'[s], 0)
  BY <1>1, <1>3 DEF Looks
<1>5. \A p \in Server \ {s} : ReplicaOf(p)' = ReplicaOf(p)
  BY <1>1, <1>3 DEF Untouched, ReplicaOf
<1> QED  BY <1>4, <1>5, RebootsAsReplica DEF MovesReplica

\* Every step of Raft is one of each replica or none.
LEMMA StepIsReplica ==
    ASSUME TypeOK, TypeOK', NEW h \in Ledger, WritingInv(h), AgreementInv(h), Remembered(h),
           \A p \in Server : commitIndex'[p] <= Len(log'[p]), [Next]_vars, NEW s \in Server
    PROVE  StepsAsReplica(s) /\ Rep!Agree(log[s], log'[s], reached[s])
<1>1. ASSUME NEW p \in Server
      PROVE  /\ Rep!Agree(log[p], log'[p], reached[p])
             /\ Rep!Agree(log[p], log'[p], commitIndex[p])
  <2>1. /\ log[p] \in Seq(Entry) /\ log'[p] \in Seq(Entry)
        /\ commitIndex[p] \in Nat /\ reached[p] \in Nat /\ commitIndex[p] <= reached[p]
        /\ CommittedBy(h, log[p], reached[p], currentTerm[p])
    BY DEF TypeOK, Remembered
  <2>2. Same(log[p], log'[p], reached[p])
    BY <2>1, CommittedHeld
  <2>3. Same(log[p], log'[p], commitIndex[p])
    BY <2>1, <2>2, SameShorter
  <2> QED  BY <2>1, <2>2, <2>3, AgreeSame
<1>2. ASSUME NEW p \in Server, MovesReplica(p) PROVE StepsAsReplica(s)
  BY <1>2 DEF MovesReplica, StepsAsReplica
<1>3. CASE UNCHANGED vars
  BY <1>1, <1>3 DEF vars, durable, StepsAsReplica, ReplicaOf
<1>4. CASE Next
  BY <1>1, <1>2, <1>4, TimeoutIsReplica, AppendIsReplica, ProcessIsReplica, CrashIsReplica
     DEF Next, Step
<1> QED  BY <1>1, <1>3, <1>4

-----------------------------------------------------------------------------
(* The theorems. *)

\* A fitting ledger accounts for all that was ever committed.
HistoryInv ==
    \E h \in Ledger : WritingInv(h) /\ AgreementInv(h) /\ Recorded(h) /\ Remembered(h)

\* Nothing was committed at the start.
LEMMA InitHistory == HistoryInit => HistoryInv /\ Abstract!LogInit
<1> SUFFICES ASSUME HistoryInit PROVE HistoryInv /\ Abstract!LogInit
  OBVIOUS
<1>1. Init /\ committed = << >> /\ reached = [s \in Server |-> 0]
  BY DEF HistoryInit, NothingRecorded
<1>2. PICK h : h = [t \in {} |-> {}]
  OBVIOUS
<1>3. h \in Ledger /\ WritingInv(h) /\ AgreementInv(h)
  BY <1>1, <1>2, InitWriting, InitAgreement
<1>4. \A p \in Server : commitIndex[p] = 0 /\ log[p] = << >>
  BY <1>1 DEF Init, Started
<1>5. Recorded(h) /\ Remembered(h)
  BY <1>1, <1>4, ServerAssumption DEF Recorded, Remembered, CommittedBy
<1>6. \A p \in Server : Known(p) = << >>
  BY <1>4 DEF Known, Prefix, MinOf
<1> QED  BY <1>1, <1>3, <1>5, <1>6 DEF HistoryInv, Abstract!LogInit

\* Every step keeps the record, is one of the abstract log, and one of each
\* replica.
LEMMA NextHistory ==
    TypeOK /\ TypeOK' /\ ElectionInv /\ ElectionInv' /\ HistoryInv /\ [HistoryNext]_historyVars
        => /\ HistoryInv' /\ Abstract!LogNext
           /\ \A s \in Server : StepsAsReplica(s) /\ Rep!Agree(log[s], log'[s], reached[s])
<1> SUFFICES ASSUME TypeOK, TypeOK', ElectionInv, ElectionInv', HistoryInv,
                    [HistoryNext]_historyVars
             PROVE  /\ HistoryInv' /\ Abstract!LogNext
                    /\ \A s \in Server :
                          StepsAsReplica(s) /\ Rep!Agree(log[s], log'[s], reached[s])
  OBVIOUS
<1>1. [Next]_vars
  BY DEF HistoryNext, historyVars
<1>2. PICK h \in Ledger : WritingInv(h) /\ AgreementInv(h) /\ Recorded(h) /\ Remembered(h)
  BY DEF HistoryInv
<1>3. PICK k \in Ledger : Fits(h, k)
  BY <1>1, <1>2, FittingLedger
<1>4. Recorded(k)' /\ Remembered(k)' /\ Abstract!LogNext
  BY <1>2, <1>3, RecordedKept, RememberedKept, StepRefines
<1>5. HistoryInv'
  BY <1>3, <1>4 DEF HistoryInv, Fits
<1>6. \A p \in Server : commitIndex'[p] <= Len(log'[p])
  BY <1>3, CommitsWithinNext DEF Fits, AgreementInv, WithinLogs
<1> QED  BY <1>1, <1>2, <1>4, <1>5, <1>6, StepIsReplica

\* The history variable only watches.
LEMMA HistoryIsRaft == HistorySpec => Spec
<1>1. HistoryInit => Init
  BY DEF HistoryInit
<1>2. [HistoryNext]_historyVars => [Next]_vars
  BY DEF HistoryNext, historyVars
<1> QED  BY <1>1, <1>2, PTL DEF HistorySpec, Spec

\* In every state some ledger also accounts for all that was ever committed.
THEOREM HistoryIsRecorded == HistorySpec => []HistoryInv
BY InitHistory, NextHistory, HistoryIsRaft, TypeCorrectness, VotesAreHonoured, PTL
   DEF HistorySpec

\* Raft implements ReplicatedLog: an entry once committed stays committed in
\* its place, whatever crashes, elections and reordering follow, and what a
\* server knows of it only grows until the server restarts.
THEOREM RaftImplementsReplicatedLog == HistorySpec => ImplementsReplicatedLog
<1>1. HistoryInit => Abstract!LogInit
  BY InitHistory
<1>2. TypeOK /\ TypeOK' /\ ElectionInv /\ ElectionInv' /\ HistoryInv /\ [HistoryNext]_historyVars
          => [Abstract!LogNext]_(Abstract!logVars)
  BY NextHistory
<1> QED  BY <1>1, <1>2, HistoryIsRecorded, HistoryIsRaft, TypeCorrectness, VotesAreHonoured, PTL
         DEF HistorySpec, ImplementsReplicatedLog, Abstract!LogSpec

\* To the code above it every server is a Replica: whatever messages are
\* reordered and whoever leads, an entry a server once took for committed is
\* never replaced in its log, not even after a restart made it forget that.
THEOREM ServersImplementReplica == HistorySpec => ServersAreReplicas
<1>1. TypeOK /\ TypeOK' /\ ElectionInv /\ ElectionInv' /\ HistoryInv /\ [HistoryNext]_historyVars
          => [\A s \in Server :
                /\ ReplicaOf(s)' = ReplicaOf(s) \/ Rep!ReplicaStep(ReplicaOf(s), ReplicaOf(s)')
                /\ Rep!Agree(log[s], log[s]', reached[s])]_vars
  BY NextHistory DEF StepsAsReplica
<1> QED  BY <1>1, HistoryIsRecorded, HistoryIsRaft, TypeCorrectness, VotesAreHonoured, PTL
         DEF HistorySpec, ServersAreReplicas

\* A leader of the newest term has the recorded history.
LEMMA RecordedIsComplete ==
    ASSUME TypeOK, HistoryInv
    PROVE  LeaderHasCommitted
<1> SUFFICES ASSUME NEW s \in Server, stateName[s] = "LEADER",
                    \A t \in Server : currentTerm[t] <= currentTerm[s]
             PROVE  /\ Len(committed) <= Len(log[s])
                    /\ Prefix(log[s], Len(committed)) = committed
  BY DEF LeaderHasCommitted
<1>1. PICK h \in Ledger : WritingInv(h) /\ AgreementInv(h) /\ Recorded(h)
  BY DEF HistoryInv
<1>2. PICK T \in Nat : T = currentTerm[s]
  BY DEF TypeOK
<1>3. /\ T \in DOMAIN h /\ h[T].log = log[s] /\ log[s] \in Seq(Entry)
      /\ committed \in Seq(Entry) /\ Len(committed) \in Nat /\ LaterLeadersInv(h)
  <2>1. committed \in Seq(Entry) /\ LaterLeadersInv(h) /\ log[s] \in Seq(Entry)
    BY <1>1 DEF Recorded, AgreementInv, TypeOK
  <2>2. Led(h, T, s, log[s])
    BY <1>1, <1>2 DEF WritingInv, LeadersInv
  <2> QED  BY <2>1, <2>2 DEF Led
<1>4. PICK p \in Server : CommittedBy(h, committed, Len(committed), currentTerm[p])
  BY <1>1 DEF Recorded
<1>5. Same(committed, log[s], Len(committed))
  <2>1. CASE Len(committed) = 0
    BY <1>3, <2>1 DEF Same
  <2>2. CASE Len(committed) # 0
    <3>1. PICK u \in DOMAIN h : /\ u <= currentTerm[p]
                                /\ \E i \in Own(h, u) :
                                      /\ Len(committed) <= i /\ Committed(h, u, i)
                                      /\ Same(committed, h[u].log, Len(committed))
      BY <1>4, <2>2 DEF CommittedBy
    <3>2. PICK i \in Own(h, u) : /\ Len(committed) <= i /\ Committed(h, u, i)
                                 /\ Same(committed, h[u].log, Len(committed))
      BY <3>1
    <3>3. u \in Nat /\ i \in Nat /\ h[u].log \in Seq(Entry) /\ currentTerm[p] \in Nat
      BY LedgerFields DEF Own, TypeOK
    <3>4. u <= T
      BY <1>2, <3>1, <3>3
    <3>5. Same(h[u].log, log[s], i)
      BY <1>3, <3>2, <3>4, LaterPage
    <3>6. Same(h[u].log, log[s], Len(committed))
      BY <1>3, <3>2, <3>3, <3>5, SameShorter
    <3> QED  BY <1>3, <3>2, <3>3, <3>6, SameTrans
  <2> QED  BY <2>1, <2>2
<1>6. Same(log[s], committed, Len(committed))
  BY <1>5 DEF Same
<1>7. Prefix(log[s], Len(committed)) = committed
  <2>1. Prefix(log[s], Len(committed)) = Prefix(committed, Len(committed))
    BY <1>3, <1>6, SamePrefix
  <2> QED  BY <1>3, <2>1 DEF Prefix, MinOf
<1> QED  BY <1>6, <1>7 DEF Same

\* A leader of the newest term has everything that was ever committed, even
\* what no running server remembers the commit of.
THEOREM LeadersHaveCommitted == HistorySpec => []LeaderHasCommitted
BY HistoryIsRecorded, HistoryIsRaft, TypeCorrectness, RecordedIsComplete, PTL
=============================================================================
