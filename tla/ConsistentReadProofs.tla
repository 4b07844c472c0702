------------------------ MODULE ConsistentReadProofs ------------------------
(***************************************************************************)
(* With up to four servers no consistent read is stale: the quorum that    *)
(* elects a newer leader leaves nobody out but Reader, so no peer confirms *)
(* a read that was asked for after that leader committed.                  *)
(***************************************************************************)
EXTENDS ConsistentRead, FiniteSetTheorems, TLAPS

NumbersInv ==
    /\ seqno \in Nat /\ commitSeqno \in Nat
    /\ commitSeqno = 0 \/ commitSeqno < seqno
    /\ \A m \in pings : m.dst \in Peers
    /\ \A m \in pings \cup pongs : m.seqno \in Nat /\ m.seqno < seqno

\* Who elected the new leader has left term 1.
ElectionInv ==
    /\ voters \subseteq Server
    /\ currentTerm \in [Server -> {1, 2}]
    /\ \A s \in voters : currentTerm[s] = 2
    /\ Reader \in voters => ~leading
    /\ holders # {} => Cardinality(voters) >= MinVotes(Nservers)
    /\ committed => holders # {}

\* A read that could be answered stale waits for a number that no response
\* carries.
StaleInv ==
    /\ answered \cap stale = {}
    /\ stale # {} => committed
    /\ leading => \A r \in stale :
          /\ r \in DOMAIN waiting
          /\ \A m \in pongs : m.seqno < waiting[r]
          /\ waiting[r] \in Nat
          /\ commitSeqno = 0 \/ commitSeqno < waiting[r]

ReadInv == NumbersInv /\ ElectionInv /\ StaleInv

\* Four servers elect nobody without all of them, or all but one.
LEMMA AllButOneVote ==
    ASSUME NEW n \in 1..4
    PROVE  MinVotes(n) >= n - 1
<1>1. n = 1 \/ n = 2 \/ n = 3 \/ n = 4
  OBVIOUS
<1> QED BY <1>1 DEF MinVotes

LEMMA PeersCount ==
    /\ IsFiniteSet(Peers) /\ Cardinality(Peers) = Nservers - 1
    /\ Nservers \in Nat \ {0}
<1>1. IsFiniteSet(Server) /\ Reader \in Server
  BY ReaderAssumption
<1>2. IsFiniteSet(Peers) /\ Cardinality(Peers) = Nservers - 1
  BY <1>1, FS_RemoveElement DEF Peers, Nservers
<1>3. Nservers \in Nat /\ Cardinality(Peers) \in Nat
  BY <1>1, <1>2, FS_CardinalityType DEF Nservers
<1> QED BY <1>2, <1>3

\* While Reader leads on, no peer of its is left in term 1 once the new leader
\* has committed.
LEMMA NobodyLeft ==
    ASSUME Cardinality(Server) <= 4, ElectionInv, leading, committed
    PROVE  \A p \in Peers : currentTerm[p] = 2
<1>1. Cardinality(voters) >= Nservers - 1
  <2>1. Nservers \in 1..4
    BY PeersCount DEF Nservers
  <2>2. MinVotes(Nservers) >= Nservers - 1 /\ Cardinality(voters) >= MinVotes(Nservers)
    BY <2>1, AllButOneVote DEF ElectionInv
  <2>3. voters \subseteq Server
    BY DEF ElectionInv
  <2>4. Cardinality(voters) \in Nat
    BY <2>3, ReaderAssumption, FS_Subset, FS_CardinalityType
  <2>5. MinVotes(Nservers) \in Nat
    BY <2>1 DEF MinVotes
  <2> QED BY <2>1, <2>2, <2>4, <2>5
<1>2. voters \subseteq Peers
  BY DEF ElectionInv, Peers
<1>3. voters = Peers
  <2>1. Cardinality(voters) <= Cardinality(Peers) /\ (Cardinality(voters) = Cardinality(Peers) => voters = Peers)
    BY <1>2, PeersCount, FS_Subset
  <2>2. Cardinality(voters) \in Nat
    BY <1>2, PeersCount, FS_Subset, FS_CardinalityType
  <2> QED BY <1>1, <2>1, <2>2, PeersCount
<1> QED BY <1>3 DEF ElectionInv

LEMMA ReadInvInit == Init => ReadInv
BY PeersCount DEF Init, ReadInv, NumbersInv, ElectionInv, StaleInv

LEMMA ReadInvStep ==
    ASSUME Cardinality(Server) <= 4, ReadInv, [Next]_vars
    PROVE  ReadInv'
<1> USE DEF ReadInv
<1>1. ASSUME NEW p \in Peers, Ping(p) PROVE ReadInv'
  <2>1. NumbersInv'
    BY <1>1 DEF Ping, NumbersInv, electing
  <2> QED BY <1>1, <2>1 DEF Ping, ElectionInv, StaleInv, electing
<1>2. ASSUME NEW r \in Read, ConsistentReadOf(r) PROVE ReadInv'
  <2> USE <1>2 DEF ConsistentReadOf, ApproveRead, electing
  <2>1. NumbersInv'
    <3>1. PICK number \in [Peers -> seqno .. seqno + Cardinality(Peers) - 1] :
             pings' = pings \cup {[dst |-> p, seqno |-> number[p]] : p \in Peers}
      OBVIOUS
    <3>2. Cardinality(Peers) \in Nat
      BY PeersCount
    <3>3. seqno' = seqno + Cardinality(Peers) /\ pongs' = pongs /\ commitSeqno' = commitSeqno
      OBVIOUS
    <3>4. \A m \in pings' : m \in pings \/ \E p \in Peers : m.dst = p /\ m.seqno = number[p]
      BY <3>1
    <3>5. \A p \in Peers : number[p] \in Nat /\ number[p] < seqno'
      BY <3>2, <3>3 DEF NumbersInv
    <3> QED BY <3>2, <3>3, <3>4, <3>5 DEF NumbersInv
  <2>2. ElectionInv'
    BY DEF ElectionInv
  <2>3. StaleInv'
    <3>1. /\ stale' = IF committed THEN stale \cup {r} ELSE stale
          /\ r \notin DOMAIN waiting /\ r \notin answered
          /\ DOMAIN waiting' = DOMAIN waiting \cup {r}
          /\ waiting'[r] = seqno /\ \A q \in DOMAIN waiting \ {r} : waiting'[q] = waiting[q]
      OBVIOUS
    <3> QED BY <3>1 DEF StaleInv, NumbersInv
  <2> QED BY <2>1, <2>2, <2>3
<1>3. ASSUME NEW m \in pongs, OnPong(m) PROVE ReadInv'
  <2> USE <1>3 DEF OnPong, electing
  <2>1. commitSeqno' \in Nat /\ (commitSeqno' = commitSeqno \/ commitSeqno' = m.seqno)
    BY DEF MaxOf, NumbersInv
  <2>2. NumbersInv'
    BY <2>1 DEF NumbersInv
  <2>3. ElectionInv'
    BY DEF ElectionInv
  <2>4. StaleInv'
    <3>1. \A r \in stale : r \in DOMAIN waiting /\ ~(waiting[r] <= commitSeqno') /\ waiting[r] \in Nat
      BY <2>1 DEF StaleInv, NumbersInv
    <3>2. CASE stale = {}
      BY <3>2 DEF StaleInv
    <3>3. CASE stale # {}
      <4>1. UNCHANGED <<answered, waiting>>
        BY <3>1, <3>3
      <4> QED BY <3>1, <4>1, <2>1 DEF StaleInv, NumbersInv
    <3> QED BY <3>2, <3>3
  <2> QED BY <2>2, <2>3, <2>4
<1>4. CASE StepDown
  BY <1>4, ReaderAssumption DEF StepDown, reading, electing, NumbersInv, ElectionInv, StaleInv
<1>5. ASSUME NEW m \in pings, OnPing(m) PROVE ReadInv'
  <2> USE <1>5 DEF OnPing, reading, electing
  <2>1. NumbersInv' /\ ElectionInv'
    BY DEF NumbersInv, ElectionInv
  <2>2. ~(leading /\ committed)
    BY NobodyLeft DEF NumbersInv
  <2>3. StaleInv'
    BY <2>2 DEF StaleInv
  <2> QED BY <2>1, <2>3
<1>6. ASSUME NEW s \in Server, Vote(s) PROVE ReadInv'
  <2> USE <1>6 DEF Vote, reading
  <2>1. NumbersInv' /\ StaleInv'
    BY DEF NumbersInv, StaleInv
  <2>2. Cardinality(voters') \in Nat /\ Cardinality(voters) \in Nat
        /\ Cardinality(voters') >= Cardinality(voters)
    <3>1. IsFiniteSet(voters) /\ IsFiniteSet(voters') /\ voters \subseteq voters'
      BY ReaderAssumption, FS_Subset DEF ElectionInv
    <3> QED BY <3>1, FS_Subset, FS_CardinalityType
  <2>3. MinVotes(Nservers) \in Nat
    BY PeersCount DEF MinVotes
  <2>4. holders' # {} => Cardinality(voters') >= MinVotes(Nservers)
    <3>1. holders' # {} => Cardinality(voters) >= MinVotes(Nservers)
      BY DEF ElectionInv
    <3> QED BY <3>1, <2>2, <2>3
  <2>5. ElectionInv'
    BY <2>4 DEF ElectionInv
  <2> QED BY <2>1, <2>5
<1>7. ASSUME NEW s \in Server, Accept(s) PROVE ReadInv'
  BY <1>7 DEF Accept, reading, NumbersInv, ElectionInv, StaleInv
<1>8. CASE Commit
  <2>1. holders # {}
    <3>1. Cardinality(holders) >= CommitQuorumSize(Nservers) /\ CommitQuorumSize(Nservers) >= 1
      BY <1>8, PeersCount DEF Commit, CommitQuorumSize
    <3>2. Cardinality({}) = 0
      BY FS_EmptySet
    <3>3. CommitQuorumSize(Nservers) \in Nat
      BY PeersCount DEF CommitQuorumSize
    <3> QED BY <3>1, <3>2, <3>3
  <2> QED BY <1>8, <2>1 DEF Commit, reading, NumbersInv, ElectionInv, StaleInv
<1>9. CASE UNCHANGED vars
  BY <1>9 DEF vars, reading, electing, NumbersInv, ElectionInv, StaleInv
<1> QED BY <1>1, <1>2, <1>3, <1>4, <1>5, <1>6, <1>7, <1>8, <1>9 DEF Next

\* In a cluster of up to four servers, for any number of reads and requests, no
\* consistent read is answered from a log that lacks what was committed before
\* it (ApproveRead, CommitAdvance, ProcessWaiting).  Five is one too many: see
\* the run Read5.
THEOREM FourReadNothingStale ==
    ASSUME Cardinality(Server) <= 4
    PROVE  Spec => []NoStaleRead
<1>1. ReadInv => NoStaleRead
  BY DEF ReadInv, StaleInv, NoStaleRead
<1>2. ReadInv /\ [Next]_vars => ReadInv'
  BY ReadInvStep
<1> QED BY ReadInvInit, <1>1, <1>2, PTL DEF Spec
=============================================================================
