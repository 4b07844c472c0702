-------------------------- MODULE DiskStateProofs --------------------------
(***************************************************************************)
(* What TDiskState keeps, for logs of any length, conflicts at any index   *)
(* and crashes anywhere: the log, but for an entry an interrupted Append   *)
(* left and a first one astray; LastLogTerm; the term and the vote.        *)
(***************************************************************************)
EXTENDS DiskState, SequenceTheorems, TLAPS

Memory == [lastLogIndex : Nat, currentTerm : Nat, votedFor : Vote, lastLogTerm : Nat,
           entries : Seq(Entry), index : Seq(Nat), position : Nat]

\* Something can be read at index i, and at the first n of them.
Has(m, i) == i <= Len(m.index) /\ m.index[i] < Len(m.entries)
HasFirst(m, n) == \A i \in 1..n : Has(m, i)

\* But for those of the indices t, the entries of the log l are one behind the
\* other, and but for those of a the content is that of l.
Keeps(m, l, t, a) ==
    /\ m.lastLogIndex = Len(l)
    /\ \A i \in 1..Len(l) : i \notin t =>
          /\ i <= Len(m.index) /\ i <= Len(m.entries) /\ m.index[i] = i - 1
          /\ i \notin a => m.entries[i] = l[i]

\* The term of the last entry that is read.
LastTerm(m) == IF m.lastLogIndex = 0 THEN 0 ELSE Get(m, m.lastLogIndex).term

\* Between two operations the files have all the object has.  Every entry can be
\* read, but that an interrupted Append may leave a last one that can not: then
\* the process does not start again.
DiskInv ==
    /\ mem \in Memory /\ given \in Seq(Entry)
    /\ torn \subseteq 1..Len(given) /\ astray \subseteq {1} /\ astray \subseteq 1..Len(given)
    /\ disk = Flushed(mem)
    /\ Keeps(mem, given, torn, astray)
    /\ \A i \in 1..Len(given) - 1 : Has(mem, i)
    /\ up /\ Len(given) > 0 => Has(mem, Len(given))
    /\ up \/ Len(given) \in torn
    /\ mem.position <= Len(mem.entries)
    /\ replacing = << >> \/ \E i \in Nat \ {0}, e \in Entry : replacing = <<i, e>>
    /\ up /\ replacing = << >> /\ Len(given) \notin astray
           => mem.lastLogTerm = LastTerm(mem)

-----------------------------------------------------------------------------
(* Files. *)

LEMMA TermsAreNaturals ==
    /\ \A t \in Term : t \in Nat
    /\ \A e \in Entry : e.term \in Nat
<1>1. MaxTerm \in Nat
  BY DiskAssumption
<1>2. \A t \in Term : t \in Nat
  BY <1>1 DEF Term
<1> QED BY <1>2 DEF Entry

\* A write at the end of a file or before leaves what is elsewhere.
LEMMA PutProperties ==
    ASSUME NEW S, NEW f \in Seq(S), NEW at \in 0..Len(f), NEW x \in S
    PROVE  /\ Put(f, at, x) \in Seq(S)
           /\ Len(Put(f, at, x)) >= Len(f) /\ Len(Put(f, at, x)) >= at + 1
           /\ Put(f, at, x)[at + 1] = x
           /\ \A i \in 1..Len(f) : i # at + 1 => Put(f, at, x)[i] = f[i]
<1> DEFINE n == IF at < Len(f) THEN Len(f) ELSE at + 1
<1>1. n \in Nat /\ n >= Len(f) /\ n >= at + 1 /\ at \in Nat /\ Len(f) \in Nat
  OBVIOUS
<1>2. \A i \in 1..n : i = at + 1 \/ i \in 1..Len(f)
  BY <1>1
<1>3. \A i \in 1..Len(f) : f[i] \in S
  OBVIOUS
<1>4. Put(f, at, x) = [i \in 1..n |-> IF i = at + 1 THEN x ELSE f[i]]
  BY DEF Put
<1>5. Put(f, at, x) \in [1..n -> S]
  BY <1>2, <1>3, <1>4
<1>6. Put(f, at, x) \in Seq(S) /\ Len(Put(f, at, x)) = n
  BY <1>1, <1>5
<1>7. at + 1 \in 1..n /\ \A i \in 1..Len(f) : i \in 1..n
  BY <1>1
<1> QED BY <1>1, <1>4, <1>6, <1>7

LEMMA PutOffset ==
    ASSUME NEW f \in Seq(Nat), NEW at \in 0..Len(f), NEW x \in Nat
    PROVE  /\ Put(f, at, x) \in Seq(Nat)
           /\ Len(Put(f, at, x)) >= Len(f) /\ Len(Put(f, at, x)) >= at + 1
           /\ Put(f, at, x)[at + 1] = x
           /\ \A i \in 1..Len(f) : i # at + 1 => Put(f, at, x)[i] = f[i]
<1>1. PICK S : S = Nat
  OBVIOUS
<1>2. f \in Seq(S) /\ x \in S
  BY <1>1
<1>3. /\ Put(f, at, x) \in Seq(S)
      /\ Len(Put(f, at, x)) >= Len(f) /\ Len(Put(f, at, x)) >= at + 1
      /\ Put(f, at, x)[at + 1] = x
      /\ \A i \in 1..Len(f) : i # at + 1 => Put(f, at, x)[i] = f[i]
  BY <1>2, PutProperties
<1> QED BY <1>1, <1>3

\* What is there is read.
LEMMA GetProperties ==
    ASSUME NEW m \in Memory, NEW i \in Nat \ {0}
    PROVE  /\ Has(m, i) => /\ Get(m, i) = m.entries[m.index[i] + 1]
                           /\ Get(m, i) \in Entry /\ Get(m, i).term \in Nat
                           /\ m.index[i] \in Nat
           /\ Get(m, i) # Unreadable <=> Has(m, i)
<1>1. m.index \in Seq(Nat) /\ m.entries \in Seq(Entry)
  BY DEF Memory
<1>2. CASE Has(m, i)
  <2>1. i \in 1..Len(m.index)
    BY <1>1, <1>2 DEF Has
  <2>2. m.index[i] \in Nat
    BY <1>1, <2>1
  <2>3. m.index[i] + 1 \in 1..Len(m.entries)
    BY <1>1, <1>2, <2>2 DEF Has
  <2>4. m.entries[m.index[i] + 1] \in Entry
    BY <1>1, <2>3
  <2>5. Get(m, i) = m.entries[m.index[i] + 1]
    BY <1>2 DEF Has, Get, ReadAt
  <2> QED BY <1>2, <2>2, <2>4, <2>5, TermsAreNaturals, DiskAssumption
<1>3. CASE ~Has(m, i)
  BY <1>3 DEF Has, Get, ReadAt
<1> QED BY <1>2, <1>3

\* An entry that is not in doubt can be read.
LEMMA KeptIsThere ==
    ASSUME NEW m \in Memory, NEW l \in Seq(Entry), NEW t, NEW a, Keeps(m, l, t, a),
           NEW i \in 1..Len(l), i \notin t
    PROVE  /\ Has(m, i) /\ m.index[i] = i - 1
           /\ i \notin a => Get(m, i) = l[i]
<1>1. /\ i <= Len(m.index) /\ i <= Len(m.entries) /\ m.index[i] = i - 1
      /\ i \notin a => m.entries[i] = l[i]
  BY DEF Keeps
<1>2. Len(m.entries) \in Nat /\ i \in Nat \ {0} /\ i - 1 < i /\ i - 1 + 1 = i
  BY DEF Memory
<1>3. Has(m, i)
  BY <1>1, <1>2 DEF Has
<1>4. Get(m, i) = m.entries[i - 1 + 1]
  BY <1>1, <1>2, <1>3, GetProperties
<1> QED BY <1>1, <1>2, <1>3, <1>4

-----------------------------------------------------------------------------
(* Operations. *)

\* A start reads what was flushed; it fails only where the last entry is in doubt.
LEMMA OpenedFlushed ==
    ASSUME NEW m \in Memory, NEW l \in Seq(Entry), NEW t, NEW a, Keeps(m, l, t, a)
    PROVE  LET o == Opened(Flushed(m))
           IN  /\ o \in Memory /\ Flushed(o) = Flushed(m) /\ Keeps(o, l, t, a)
               /\ \A i : Has(o, i) <=> Has(m, i)
               /\ o.position <= Len(o.entries)
               /\ Opens(Flushed(m)) => /\ o.lastLogTerm = LastTerm(o)
                                       /\ Len(l) > 0 => Has(o, Len(l))
               /\ Opens(Flushed(m)) \/ Len(l) \in t
<1> DEFINE o == Opened(Flushed(m))
           n == m.lastLogIndex
           last == ReadAt(m.entries, m.index, n)
<1>1. /\ Flushed(m).state[1] = n /\ Flushed(m).state[2] = m.currentTerm
      /\ Flushed(m).state[3] = m.votedFor
      /\ Flushed(m).entries = m.entries /\ Flushed(m).index = m.index
  BY DEF Flushed, StateOf
<1>2. n \in Nat /\ n = Len(l) /\ m.index \in Seq(Nat) /\ m.entries \in Seq(Entry)
  BY DEF Memory, Keeps
<1>3. last = Get(m, n)
  BY DEF Get
<1>4. n # 0 => /\ last # Unreadable <=> Has(m, n)
               /\ last # Unreadable => last.term \in Nat /\ m.index[n] \in Nat
  BY <1>2, <1>3, GetProperties
<1>5. n # 0 /\ n \notin t => Has(m, n)
  <2>1. n # 0 => n \in 1..Len(l)
    BY <1>2
  <2> QED BY <2>1, KeptIsThere
<1>6. o = [lastLogIndex |-> n, currentTerm |-> m.currentTerm, votedFor |-> m.votedFor,
           lastLogTerm |-> IF n = 0 \/ last = Unreadable THEN 0 ELSE last.term,
           entries |-> m.entries, index |-> m.index,
           position |-> IF n = 0 \/ last = Unreadable THEN 0 ELSE m.index[n] + 1]
  BY <1>1 DEF Opened
<1>7. /\ o.lastLogIndex = n /\ o.currentTerm = m.currentTerm /\ o.votedFor = m.votedFor
      /\ o.entries = m.entries /\ o.index = m.index
  BY <1>6
<1>8. /\ o.lastLogTerm = IF n = 0 \/ last = Unreadable THEN 0 ELSE last.term
      /\ o.position = IF n = 0 \/ last = Unreadable THEN 0 ELSE m.index[n] + 1
  BY <1>6
<1>9. /\ o.position \in Nat /\ o.position <= Len(o.entries) /\ o.lastLogTerm \in Nat
  <2>1. CASE n = 0 \/ last = Unreadable
    BY <2>1, <1>2, <1>7, <1>8
  <2>2. CASE ~(n = 0 \/ last = Unreadable)
    <3>1. /\ Has(m, n) /\ m.index[n] \in Nat /\ last.term \in Nat
      BY <2>2, <1>4
    <3>2. m.index[n] + 1 <= Len(m.entries)
      BY <3>1, <1>2 DEF Has
    <3> QED BY <2>2, <3>1, <3>2, <1>7, <1>8
  <2> QED BY <2>1, <2>2
<1>10. o \in Memory
  BY <1>6, <1>7, <1>9 DEF Memory
<1>11. Flushed(o) = Flushed(m)
  BY <1>7 DEF Flushed, StateOf
<1>12. Keeps(o, l, t, a)
  BY <1>2, <1>7 DEF Keeps
<1>13. \A i : Has(o, i) <=> Has(m, i)
  BY <1>7 DEF Has
<1>14. Opens(Flushed(m)) <=> n = 0 \/ last # Unreadable
  BY <1>1 DEF Opens
<1>15. Get(o, n) = last
  BY <1>7 DEF Get
<1>16. Opens(Flushed(m)) => o.lastLogTerm = LastTerm(o)
  BY <1>7, <1>8, <1>14, <1>15 DEF LastTerm
<1>17. Opens(Flushed(m)) \/ Len(l) \in t
  BY <1>2, <1>4, <1>5, <1>14
<1>18. Opens(Flushed(m)) /\ Len(l) > 0 => Has(o, Len(l))
  BY <1>2, <1>4, <1>13, <1>14
<1> QED BY <1>9, <1>10, <1>11, <1>12, <1>13, <1>16, <1>17, <1>18

\* Where an Append writes to: behind the last entry.
LEMMA AppendIs ==
    ASSUME NEW m \in Memory, NEW e \in Entry, NEW n, n = m.lastLogIndex
    PROVE  AppendTo(m, e) =
             LET offset == IF n > 0 THEN m.index[n] + 1 ELSE 0
                 at     == IF n > 0 THEN offset ELSE m.position
             IN  [lastLogIndex |-> n + 1, currentTerm |-> m.currentTerm,
                  votedFor |-> m.votedFor, lastLogTerm |-> e.term,
                  entries |-> Put(m.entries, at, e), index |-> Put(m.index, n, offset),
                  position |-> at + 1]
<1> DEFINE offset == IF n > 0 THEN m.index[n] + 1 ELSE 0
           at     == IF n > 0 THEN offset ELSE m.position
           place  == IF n > 0 THEN AfterGet(m, n).position ELSE 0
<1>1. AfterGet(m, n).position = m.index[n] + 1
  BY DEF AfterGet, Memory
<1>2. place = offset
  BY <1>1
<1>3. AppendTo(m, e) =
        LET to == IF n > 0 THEN place ELSE m.position
        IN  [m EXCEPT !.entries = Put(@, to, e), !.index = Put(@, n, place),
                      !.position = to + 1, !.lastLogTerm = e.term, !.lastLogIndex = @ + 1]
  BY DEF AppendTo
<1> HIDE DEF place
<1>4. AppendTo(m, e) = [m EXCEPT !.entries = Put(@, at, e), !.index = Put(@, n, offset),
                      !.position = at + 1, !.lastLogTerm = e.term, !.lastLogIndex = n + 1]
  BY <1>2, <1>3
<1> HIDE DEF offset, at
<1>5. AppendTo(m, e) = [lastLogIndex |-> n + 1, currentTerm |-> m.currentTerm,
                  votedFor |-> m.votedFor, lastLogTerm |-> e.term,
                  entries |-> Put(m.entries, at, e), index |-> Put(m.index, n, offset),
                  position |-> at + 1]
  BY <1>4 DEF Memory
<1> QED BY <1>5 DEF offset, at

\* A whole Append keeps the log: behind an entry that is in no doubt it takes the
\* next place; in an empty log the first, or the entry is astray.
LEMMA AppendKeeps ==
    ASSUME NEW m \in Memory, NEW l \in Seq(Entry), NEW t, NEW a, Keeps(m, l, t, a),
           NEW e \in Entry,
           HasFirst(m, Len(l)), m.position <= Len(m.entries),
           NEW b, b = IF Len(l) = 0 /\ m.position # 0 THEN {1} ELSE a,
           NEW u, u = IF Len(l) \in t THEN 1..Len(l) + 1 ELSE t
    PROVE  LET new == AppendTo(m, e)
           IN  /\ new \in Memory
               /\ Keeps(new, Append(l, e), u, b)
               /\ HasFirst(new, Len(l) + 1)
               /\ new.position <= Len(new.entries)
               /\ Len(l) + 1 \notin b => new.lastLogTerm = LastTerm(new)
               /\ \A i \in 1..Len(l) : i <= Len(new.index) /\ new.index[i] = m.index[i]
               /\ new.currentTerm = m.currentTerm /\ new.votedFor = m.votedFor
<1> DEFINE n == Len(l)
           new == AppendTo(m, e)
           k == Append(l, e)
           offset == IF n > 0 THEN m.index[n] + 1 ELSE 0
           at     == IF n > 0 THEN offset ELSE m.position
           es == Put(m.entries, at, e)
           ix == Put(m.index, n, offset)
<1>1. /\ n \in Nat /\ m.lastLogIndex = n
      /\ m.index \in Seq(Nat) /\ m.entries \in Seq(Entry) /\ m.position \in Nat
  BY DEF Keeps, Memory
<1>2. /\ k \in Seq(Entry) /\ Len(k) = n + 1 /\ k[n + 1] = e
      /\ \A i \in 1..n : k[i] = l[i]
  BY <1>1
<1>3. new = [lastLogIndex |-> n + 1, currentTerm |-> m.currentTerm, votedFor |-> m.votedFor,
             lastLogTerm |-> e.term, entries |-> es, index |-> ix, position |-> at + 1]
  BY <1>1, AppendIs
<1>4. n > 0 => n \in 1..n /\ Has(m, n) /\ m.index[n] \in Nat
  <2>1. n > 0 => n \in 1..n /\ n \in Nat \ {0}
    BY <1>1
  <2>2. n > 0 => Has(m, n)
    BY <2>1 DEF HasFirst
  <2> QED BY <2>1, <2>2, GetProperties
<1>5. /\ offset \in Nat /\ at \in 0..Len(m.entries) /\ n \in 0..Len(m.index)
      /\ n > 0 => at = offset
      /\ n = 0 => at = m.position /\ offset = 0
  <2>1. CASE n > 0
    <3>1. m.index[n] \in Nat /\ n <= Len(m.index) /\ m.index[n] < Len(m.entries)
      BY <2>1, <1>4 DEF Has
    <3> QED BY SMTT(60), <2>1, <3>1, <1>1
  <2>2. CASE n = 0
    BY <2>2, <1>1
  <2> QED BY <1>1, <2>1, <2>2
<1>b. (n = 0 /\ m.position # 0 => 1 \in b) /\ (n # 0 => b = a)
  OBVIOUS
<1>u. (n \in t => u = 1..n + 1) /\ (n \notin t => u = t)
  OBVIOUS
<1>6. n > 0 /\ n \notin t => at = n
  <2>1. ASSUME n > 0, n \notin t PROVE at = n
    <3>1. m.index[n] = n - 1
      BY <1>4, <2>1, KeptIsThere
    <3> QED BY <1>1, <2>1, <3>1
  <2> QED BY <2>1
<1> HIDE DEF offset, at, n
<1>7. /\ es \in Seq(Entry) /\ Len(es) >= Len(m.entries) /\ Len(es) >= at + 1
      /\ es[at + 1] = e
      /\ \A i \in 1..Len(m.entries) : i # at + 1 => es[i] = m.entries[i]
  <2> DEFINE Written(f) ==
        /\ Put(f, at, e) \in Seq(Entry)
        /\ Len(Put(f, at, e)) >= Len(f) /\ Len(Put(f, at, e)) >= at + 1
        /\ Put(f, at, e)[at + 1] = e
        /\ \A i \in 1..Len(f) : i # at + 1 => Put(f, at, e)[i] = f[i]
  <2>1. ASSUME NEW f \in Seq(Entry), at \in 0..Len(f) PROVE Written(f)
    BY <2>1, PutProperties
  <2>2. Written(m.entries)
    BY <1>1, <1>5, <2>1
  <2> QED BY <2>2
<1>8. /\ ix \in Seq(Nat) /\ Len(ix) >= Len(m.index) /\ Len(ix) >= n + 1
      /\ ix[n + 1] = offset
      /\ \A i \in 1..Len(m.index) : i # n + 1 => ix[i] = m.index[i]
  BY <1>1, <1>5, PutOffset
<1> HIDE DEF es, ix, new
<1>9. /\ new.lastLogIndex = n + 1 /\ new.lastLogTerm = e.term /\ new.position = at + 1
      /\ new.entries = es /\ new.index = ix
      /\ new.currentTerm = m.currentTerm /\ new.votedFor = m.votedFor
  BY <1>3
<1>10. new \in Memory
  <2>1. m.currentTerm \in Nat /\ m.votedFor \in Vote /\ n + 1 \in Nat /\ at + 1 \in Nat
    BY <1>1, <1>5 DEF Memory
  <2> QED BY <1>3, <1>7, <1>8, <2>1, TermsAreNaturals DEF Memory
<1>11. \A i \in 1..n : /\ i <= Len(m.index) /\ m.index[i] < Len(m.entries)
                       /\ i <= Len(ix) /\ ix[i] = m.index[i] /\ m.index[i] \in Nat
  <2> SUFFICES ASSUME NEW i \in 1..n
               PROVE  /\ i <= Len(m.index) /\ m.index[i] < Len(m.entries)
                      /\ i <= Len(ix) /\ ix[i] = m.index[i] /\ m.index[i] \in Nat
    OBVIOUS
  <2>1. i <= Len(m.index) /\ m.index[i] < Len(m.entries)
    BY DEF HasFirst, Has, n
  <2>2. i \in 1..Len(m.index) /\ i # n + 1
    BY <1>1, <2>1
  <2>3. m.index[i] \in Nat
    BY SMTT(60), <1>1, <2>2
  <2>4. ix[i] = m.index[i]
    BY <2>2, <1>8
  <2>5. i <= Len(ix)
    BY <2>1, <1>1, <1>8
  <2> QED BY <2>1, <2>3, <2>4, <2>5
<1>12. HasFirst(new, n + 1)
  <2> SUFFICES ASSUME NEW i \in 1..n + 1 PROVE Has(new, i)
    BY DEF HasFirst
  <2>1. CASE i = n + 1
    <3>1. offset < Len(es)
      <4>1. offset <= at
        BY <1>1, <1>5
      <4> QED BY <4>1, <1>5, <1>7
    <3> QED BY <2>1, <3>1, <1>1, <1>8, <1>9 DEF Has
  <2>2. CASE i # n + 1
    <3>1. i \in 1..n
      BY <1>1, <2>2
    <3>2. ix[i] < Len(es)
      <4>1. ix[i] \in Nat /\ ix[i] < Len(m.entries)
        BY <3>1, <1>11
      <4>2. Len(m.entries) \in Nat /\ Len(es) \in Nat /\ Len(es) >= Len(m.entries)
        BY <1>1, <1>7
      <4> QED BY <4>1, <4>2
    <3> QED BY <3>1, <3>2, <1>9, <1>11 DEF Has
  <2> QED BY <2>1, <2>2
<1>13. new.position <= Len(new.entries)
  BY <1>5, <1>7, <1>9
<1>14. n + 1 \notin b => new.lastLogTerm = LastTerm(new)
  <2>1. ASSUME n + 1 \notin b PROVE offset = at
    <3>1. n = 0 \/ n > 0
      BY <1>1
    <3> QED BY <1>5, <1>b, <2>1, <3>1
  <2>2. n + 1 \in 1..n + 1 /\ n + 1 \in Nat \ {0}
    BY <1>1
  <2>3. Get(new, n + 1) = es[offset + 1]
    <3>1. Has(new, n + 1)
      BY <1>12, <2>2 DEF HasFirst
    <3> QED BY <1>8, <1>9, <1>10, <2>2, <3>1, GetProperties
  <2> QED BY <1>7, <1>9, <2>1, <2>2, <2>3 DEF LastTerm
<1>15. Keeps(new, k, u, b)
  <2> SUFFICES ASSUME NEW i \in 1..n + 1, i \notin u
               PROVE  /\ i <= Len(ix) /\ i <= Len(es) /\ ix[i] = i - 1
                      /\ i \notin b => es[i] = k[i]
    BY <1>2, <1>9 DEF Keeps
  <2>1. n \notin t /\ i \notin t /\ (n > 0 => at = n)
    BY <1>6, <1>u
  <2>2. CASE i = n + 1
    <3>1. i <= Len(ix) /\ ix[i] = offset
      BY <2>2, <1>8
    <3>2. offset = n /\ i <= Len(es)
      <4>1. n = 0 \/ n > 0
        BY <1>1
      <4> QED BY <2>1, <2>2, <4>1, <1>1, <1>5, <1>7
    <3>3. i \notin b => es[i] = e
      <4>1. ASSUME i \notin b PROVE at = n
        <5>1. n = 0 \/ n > 0
          BY <1>1
        <5>2. CASE n = 0
          BY <1>5, <1>b, <2>2, <4>1, <5>2
        <5> QED BY <2>1, <5>1, <5>2
      <4> QED BY <2>2, <4>1, <1>7
    <3> QED BY <2>2, <3>1, <3>2, <3>3, <1>1, <1>2
  <2>3. CASE i # n + 1
    <3>1. i \in 1..n /\ n > 0
      BY <1>1, <2>3
    <3>2. /\ i <= Len(m.entries) /\ m.index[i] = i - 1
          /\ i \notin a => m.entries[i] = l[i]
      BY <2>1, <3>1 DEF Keeps, n
    <3>3. i \in 1..Len(m.entries) /\ i # at + 1
      BY <1>1, <2>1, <2>3, <3>1, <3>2
    <3>4. i \notin b => i \notin a
      BY <1>b, <3>1
    <3> QED BY <1>2, <1>7, <1>11, <3>1, <3>2, <3>3, <3>4
  <2> QED BY <2>2, <2>3
<1> QED BY <1>9, <1>10, <1>11, <1>12, <1>13, <1>14, <1>15 DEF n, new

\* RemoveLast takes back the last entry, and nothing else.
LEMMA RemoveKeeps ==
    ASSUME NEW m \in Memory, NEW l \in Seq(Entry), NEW t \in SUBSET (1..Len(l)), NEW a,
           Keeps(m, l, t, a), Len(l) >= 1
    PROVE  LET r == RemoveLastOf(m)
           IN  /\ r \in Memory /\ Front(l) \in Seq(Entry) /\ Len(Front(l)) = Len(l) - 1
               /\ Keeps(r, Front(l), t \ {Len(l)}, a \ {Len(l)})
               /\ r.currentTerm = m.currentTerm /\ r.votedFor = m.votedFor
               /\ r.index = m.index /\ r.entries = m.entries /\ r.position = m.position
<1> DEFINE n == Len(l)
           r == RemoveLastOf(m)
<1>1. n \in Nat /\ m.lastLogIndex = n /\ n - 1 \in Nat
  BY DEF Keeps
<1>2. /\ Front(l) \in Seq(Entry) /\ Len(Front(l)) = n - 1
      /\ \A i \in 1..n - 1 : Front(l)[i] = l[i]
  <2>1. Front(l) = SubSeq(l, 1, n - 1)
    BY DEF Front
  <2>2. PICK k \in Nat : k = n - 1
    BY <1>1
  <2>3. /\ SubSeq(l, 1, k) \in Seq(Entry) /\ Len(SubSeq(l, 1, k)) = k
        /\ \A i \in 1..k : SubSeq(l, 1, k)[i] = l[i]
    <3>1. k <= Len(l)
      BY <1>1, <2>2
    <3>2. SubSeq(l, 1, k) = [i \in 1..k |-> l[i]]
      BY <1>1, <3>1
    <3>3. \A i \in 1..k : l[i] \in Entry
      BY <3>1
    <3> QED BY <3>2, <3>3
  <2> QED BY <2>1, <2>2, <2>3
<1>3. r = [m EXCEPT !.lastLogIndex = n - 1]
  BY <1>1 DEF RemoveLastOf
<1>4. /\ r.lastLogIndex = n - 1 /\ r.index = m.index /\ r.entries = m.entries
      /\ r.currentTerm = m.currentTerm /\ r.votedFor = m.votedFor /\ r.position = m.position
  BY <1>3 DEF Memory
<1>5. r \in Memory
  BY <1>1, <1>3 DEF Memory
<1>6. Keeps(r, Front(l), t \ {n}, a \ {n})
  <2> SUFFICES ASSUME NEW i \in 1..n - 1, i \notin t \ {n}
               PROVE  /\ i <= Len(m.index) /\ i <= Len(m.entries) /\ m.index[i] = i - 1
                      /\ i \notin a \ {n} => m.entries[i] = Front(l)[i]
    BY <1>2, <1>4 DEF Keeps
  <2>1. i \in 1..n /\ i # n
    BY <1>1
  <2> QED BY <1>2, <2>1 DEF Keeps
<1> QED BY <1>2, <1>4, <1>5, <1>6

-----------------------------------------------------------------------------
(* Steps. *)

\* A start with files that have what is known of the log.
LEMMA OpenStep ==
    ASSUME NEW m \in Memory, given' \in Seq(Entry), torn' \subseteq 1..Len(given'),
           astray' \subseteq {1}, astray' \subseteq 1..Len(given'), Keeps(m, given', torn', astray'),
           \A i \in 1..Len(given') - 1 : Has(m, i), Open(Flushed(m))
    PROVE  DiskInv'
<1> DEFINE o == Opened(Flushed(m))
<1>1. mem' = o /\ disk' = Flushed(m) /\ up' = Opens(Flushed(m)) /\ replacing' = << >>
  BY DEF Open
<1>2. /\ o \in Memory /\ Flushed(o) = Flushed(m) /\ Keeps(o, given', torn', astray')
      /\ \A i : Has(o, i) <=> Has(m, i)
      /\ o.position <= Len(o.entries)
      /\ Opens(Flushed(m)) => /\ o.lastLogTerm = LastTerm(o)
                              /\ Len(given') > 0 => Has(o, Len(given'))
      /\ Opens(Flushed(m)) \/ Len(given') \in torn'
  BY OpenedFlushed
<1> QED BY <1>1, <1>2 DEF DiskInv

\* An operation that writes neither Index nor Entries survives a crash in its
\* Commit.
LEMMA CutStep ==
    ASSUME DiskInv, NEW m \in Memory, m.index = mem.index, m.entries = mem.entries,
           given' \in Seq(Entry), torn' \subseteq 1..Len(given'),
           astray' \subseteq {1}, astray' \subseteq 1..Len(given'), Keeps(m, given', torn', astray'),
           \A i \in 1..Len(given') - 1 : Has(m, i), CutCommit(m)
    PROVE  DiskInv'
<1>1. disk = [state |-> StateOf(mem), index |-> mem.index, entries |-> mem.entries]
  BY DEF DiskInv, Flushed
<1>2. StateFlushed(m) = Flushed(m) /\ IndexFlushed(m) = Flushed(m)
  <2>1. StateFlushed(m) = [state |-> StateOf(m), index |-> mem.index, entries |-> mem.entries]
    BY <1>1 DEF StateFlushed
  <2>2. IndexFlushed(m) = [state |-> StateOf(m), index |-> m.index, entries |-> mem.entries]
    BY <2>1 DEF IndexFlushed
  <2> QED BY <2>1, <2>2 DEF Flushed
<1> QED BY <1>2, OpenStep DEF CutCommit

LEMMA ReadKeeps ==
    ASSUME DiskInv, up, NEW i \in 1..mem.lastLogIndex
    PROVE  LET m == AfterGet(mem, i)
           IN  /\ i \in Nat \ {0}
               /\ m \in Memory /\ Keeps(m, given, torn, astray)
               /\ \A j : Has(m, j) <=> Has(mem, j)
               /\ Flushed(m) = Flushed(mem) /\ m.position <= Len(m.entries)
               /\ m.lastLogTerm = mem.lastLogTerm /\ LastTerm(m) = LastTerm(mem)
<1> DEFINE m == AfterGet(mem, i)
<1>1. /\ i \in 1..Len(given) /\ i \in Nat \ {0} /\ mem \in Memory
      /\ Keeps(mem, given, torn, astray)
  BY DEF DiskInv, Keeps
<1>2. Has(mem, i)
  <2>1. i \in 1..Len(given) - 1 \/ (i = Len(given) /\ Len(given) > 0)
    BY <1>1 DEF DiskInv
  <2> QED BY <2>1 DEF DiskInv
<1>3. mem.index[i] \in Nat
  BY <1>1, <1>2, GetProperties
<1>4. m = [mem EXCEPT !.position = mem.index[i] + 1]
  BY DEF AfterGet
<1>5. /\ m \in Memory /\ m.position = mem.index[i] + 1
      /\ m.lastLogIndex = mem.lastLogIndex /\ m.currentTerm = mem.currentTerm
      /\ m.votedFor = mem.votedFor /\ m.lastLogTerm = mem.lastLogTerm
      /\ m.entries = mem.entries /\ m.index = mem.index
  <2>1. PICK p \in Nat : p = mem.index[i] + 1
    BY <1>3
  <2>2. m = [mem EXCEPT !.position = p]
    BY <1>4, <2>1
  <2> QED BY <1>1, <2>1, <2>2 DEF Memory
<1>6. m.position <= Len(m.entries)
  <2>1. Len(mem.entries) \in Nat
    BY <1>1 DEF Memory
  <2> QED BY <1>2, <1>3, <1>5, <2>1 DEF Has
<1> HIDE DEF m
<1>7. Keeps(m, given, torn, astray)
  BY <1>1, <1>5 DEF Keeps
<1>8. Flushed(m) = Flushed(mem)
  BY <1>5 DEF Flushed, StateOf
<1>9. \A j : Has(m, j) <=> Has(mem, j)
  BY <1>5 DEF Has
<1>10. LastTerm(m) = LastTerm(mem)
  BY <1>5 DEF LastTerm, Get
<1> QED BY <1>1, <1>5, <1>6, <1>7, <1>8, <1>9, <1>10 DEF m

\* An Append, whole or cut short.
LEMMA AppendStep ==
    ASSUME DiskInv, NEW e \in Entry, AppendEntry(e)
    PROVE  DiskInv'
<1> DEFINE n == Len(given)
           new == AppendTo(mem, e)
<1>1. /\ mem \in Memory /\ given \in Seq(Entry) /\ torn \in SUBSET (1..n)
      /\ astray \in SUBSET (1..n) /\ astray \subseteq {1} /\ Keeps(mem, given, torn, astray)
      /\ mem.position <= Len(mem.entries) /\ up
      /\ mem.lastLogIndex = n /\ n \in Nat /\ mem.position \in Nat
      /\ disk = [state |-> StateOf(mem), index |-> mem.index, entries |-> mem.entries]
  BY DEF DiskInv, Keeps, Memory, AppendEntry, Flushed
<1>2. HasFirst(mem, n)
  <2>1. \A i \in 1..n : i \in 1..n - 1 \/ (i = n /\ n > 0)
    BY <1>1
  <2> QED BY <1>1, <2>1 DEF DiskInv, HasFirst
<1>3. /\ given' = Append(given, e) /\ given' \in Seq(Entry) /\ Len(given') = n + 1
      /\ \A i \in 1..n : given'[i] = given[i]
      /\ n = 0 /\ mem.position # 0 => 1 \in astray'
      /\ astray' = IF n = 0 /\ mem.position # 0 THEN {1} ELSE astray
      /\ n > 0 => astray' = astray
      /\ astray' \subseteq {1} /\ astray' \subseteq 1..n + 1
  <2>1. /\ given' = Append(given, e)
        /\ astray' = IF n = 0 /\ mem.position # 0 THEN {1} ELSE astray
    BY <1>1 DEF AppendEntry
  <2>2. /\ Append(given, e) \in Seq(Entry) /\ Len(Append(given, e)) = n + 1
        /\ \A i \in 1..n : Append(given, e)[i] = given[i]
    BY <1>1
  <2>3. 1..n \subseteq 1..n + 1 /\ 1 \in 1..n + 1
    BY <1>1
  <2>4. CASE n = 0 /\ mem.position # 0
    BY <1>1, <2>1, <2>2, <2>3, <2>4
  <2>5. CASE ~(n = 0 /\ mem.position # 0)
    BY <1>1, <2>1, <2>2, <2>3, <2>5
  <2> QED BY <2>4, <2>5
<1>4. ASSUME NEW u, u = IF n \in torn THEN 1..n + 1 ELSE torn
      PROVE  /\ new \in Memory
             /\ Keeps(new, given', u, astray')
             /\ HasFirst(new, n + 1)
             /\ new.position <= Len(new.entries)
             /\ n + 1 \notin astray' => new.lastLogTerm = LastTerm(new)
             /\ \A i \in 1..n : i <= Len(new.index) /\ new.index[i] = mem.index[i]
  <2>1. PICK b, k : b = astray' /\ k = given'
    OBVIOUS
  <2>2. /\ b = IF n = 0 /\ mem.position # 0 THEN {1} ELSE astray
        /\ k = Append(given, e)
    BY <1>3, <2>1
  <2>3. /\ new \in Memory
        /\ Keeps(new, Append(given, e), u, b)
        /\ HasFirst(new, n + 1)
        /\ new.position <= Len(new.entries)
        /\ n + 1 \notin b => new.lastLogTerm = LastTerm(new)
        /\ \A i \in 1..n : i <= Len(new.index) /\ new.index[i] = mem.index[i]
    <3>1. /\ mem \in Memory /\ given \in Seq(Entry) /\ Keeps(mem, given, torn, astray)
          /\ HasFirst(mem, Len(given)) /\ mem.position <= Len(mem.entries)
          /\ b = IF Len(given) = 0 /\ mem.position # 0 THEN {1} ELSE astray
          /\ u = IF Len(given) \in torn THEN 1..Len(given) + 1 ELSE torn
      BY <1>1, <1>2, <1>4, <2>2
    <3> QED BY SMTT(60), <3>1, AppendKeeps
  <2> QED BY <2>1, <2>2, <2>3
<1>5. CASE Commit(new, << >>) /\ torn' = IF n \in torn THEN 1..n + 1 ELSE torn
  <2>1. mem' = new /\ disk' = Flushed(new) /\ replacing' = << >> /\ up'
    BY <1>1, <1>5 DEF Commit
  <2>2. torn' = IF n \in torn THEN 1..n + 1 ELSE torn
    BY <1>5
  <2>3. torn' \subseteq 1..n + 1
    <3>1. torn \subseteq 1..n + 1
      BY <1>1
    <3> QED BY <2>2, <3>1
  <2> HIDE DEF new
  <2>4. /\ new \in Memory
        /\ Keeps(new, given', torn', astray')
        /\ HasFirst(new, n + 1)
        /\ new.position <= Len(new.entries)
        /\ n + 1 \notin astray' => new.lastLogTerm = LastTerm(new)
    BY <2>2, <1>4 DEF new
  <2>5. /\ \A i \in 1..Len(given') - 1 : Has(mem', i)
        /\ Len(given') > 0 => Has(mem', Len(given'))
    <3>1. \A i \in 1..n : i \in 1..n + 1
      BY <1>1
    <3>2. n + 1 \in 1..n + 1 /\ n + 1 - 1 = n
      BY <1>1
    <3> QED BY <1>3, <2>1, <2>4, <3>1, <3>2 DEF HasFirst
  <2>6. Len(given') \notin astray' => mem'.lastLogTerm = LastTerm(mem')
    BY <1>3, <2>1, <2>4
  <2> QED BY <1>3, <2>1, <2>3, <2>4, <2>5, <2>6 DEF DiskInv
<1>9. /\ new \in Memory /\ new.lastLogIndex = n + 1
      /\ \A i \in 1..n : i <= Len(new.index) /\ new.index[i] = mem.index[i]
  <2> HIDE DEF new
  <2>1. PICK u : u = IF n \in torn THEN 1..n + 1 ELSE torn
    OBVIOUS
  <2>2. /\ new \in Memory /\ Keeps(new, given', u, astray')
        /\ \A i \in 1..n : i <= Len(new.index) /\ new.index[i] = mem.index[i]
    BY <2>1, <1>4 DEF new
  <2> QED BY <1>3, <2>2 DEF Keeps
<1>6. ASSUME NEW ix \in Seq(Nat), \A i \in 1..n : i <= Len(ix) /\ ix[i] = mem.index[i],
             torn' = torn \cup {n + 1},
             Open([state |-> StateOf(new), index |-> ix, entries |-> mem.entries])
      PROVE  DiskInv'
  <2> DEFINE m == [new EXCEPT !.index = ix, !.entries = mem.entries]
  <2>1. /\ m \in Memory /\ m.index = ix /\ m.entries = mem.entries
        /\ m.lastLogIndex = new.lastLogIndex /\ StateOf(m) = StateOf(new)
    <3>1. mem.entries \in Seq(Entry)
      BY <1>1 DEF Memory
    <3> QED BY <1>9, <3>1 DEF Memory, StateOf
  <2>2. new.lastLogIndex = n + 1
    BY <1>1, <1>3, <1>9 DEF Keeps
  <2> HIDE DEF m
  <2>3. Flushed(m) = [state |-> StateOf(new), index |-> ix, entries |-> mem.entries]
    BY <2>1 DEF Flushed
  <2>4. torn' \subseteq 1..n + 1
    <3>1. torn \subseteq 1..n + 1 /\ n + 1 \in 1..n + 1
      BY <1>1
    <3> QED BY <1>6, <3>1
  <2>5. Keeps(m, given', torn', astray')
    <3> SUFFICES ASSUME NEW i \in 1..n + 1, i \notin torn'
                 PROVE  /\ i <= Len(ix) /\ i <= Len(mem.entries) /\ ix[i] = i - 1
                        /\ i \notin astray' => mem.entries[i] = given'[i]
      BY <1>3, <2>1, <2>2 DEF Keeps
    <3>1. i \in 1..n /\ i \notin torn /\ n # 0
      BY <1>1, <1>6
    <3>2. /\ i <= Len(mem.entries) /\ mem.index[i] = i - 1
          /\ i \notin astray => mem.entries[i] = given[i]
      BY <1>1, <3>1 DEF Keeps
    <3> QED BY <1>1, <1>3, <1>6, <3>1, <3>2
  <2>6. \A i \in 1..Len(given') - 1 : Has(m, i)
    <3>1. \A i \in 1..n : i <= Len(ix) /\ ix[i] < Len(mem.entries)
      BY <1>2, <1>6 DEF HasFirst, Has
    <3>2. Len(given') - 1 = n
      BY <1>1, <1>3
    <3> QED BY <2>1, <3>1, <3>2 DEF Has
  <2> QED BY <1>3, <1>6, <2>1, <2>3, <2>4, <2>5, <2>6, OpenStep
<1>7. ASSUME NEW d \in LeftInIndex(StateFlushed(new), n + 1), Open(d),
             torn' = torn \cup {n + 1}
      PROVE  DiskInv'
  <2>1. StateFlushed(new) = [state |-> StateOf(new), index |-> mem.index,
                             entries |-> mem.entries]
    BY <1>1 DEF StateFlushed
  <2>2. mem.index \in Seq(Nat) /\ mem.entries \in Seq(Entry)
    BY <1>1 DEF Memory
  <2>3. \A i \in 1..n : i <= Len(mem.index) /\ mem.index[i] = mem.index[i]
    BY <1>2 DEF HasFirst, Has
  <2>4. CASE n + 1 > Len(mem.index)
    <3>1. d = StateFlushed(new)
      BY <2>1, <2>4, <1>7 DEF LeftInIndex
    <3> QED BY <1>6, <1>7, <2>1, <2>2, <2>3, <3>1
  <2>5. CASE ~(n + 1 > Len(mem.index))
    <3>1. PICK offset \in 0..Len(mem.entries) :
             d = [StateFlushed(new) EXCEPT !.index[n + 1] = offset]
      BY <2>1, <2>5, <1>7 DEF LeftInIndex
    <3> DEFINE ix == [mem.index EXCEPT ![n + 1] = offset]
    <3>2. offset \in Nat
      BY <2>2
    <3>3. /\ ix \in Seq(Nat) /\ Len(ix) = Len(mem.index)
          /\ \A i \in 1..Len(mem.index) : i # n + 1 => ix[i] = mem.index[i]
      <4> DEFINE Put1(f) ==
            /\ [f EXCEPT ![n + 1] = offset] \in Seq(Nat)
            /\ Len([f EXCEPT ![n + 1] = offset]) = Len(f)
            /\ \A i \in 1..Len(f) : i # n + 1 => [f EXCEPT ![n + 1] = offset][i] = f[i]
      <4>1. ASSUME NEW f \in Seq(Nat) PROVE Put1(f)
        <5>1. [f EXCEPT ![n + 1] = offset]
                = [i \in 1..Len(f) |-> IF i = n + 1 THEN offset ELSE f[i]]
          OBVIOUS
        <5>2. \A i \in 1..Len(f) : f[i] \in Nat
          OBVIOUS
        <5>3. PICK g : g = [i \in 1..Len(f) |-> IF i = n + 1 THEN offset ELSE f[i]]
          OBVIOUS
        <5>4. g \in Seq(Nat) /\ Len(g) = Len(f) /\ \A i \in 1..Len(f) : i # n + 1 => g[i] = f[i]
          BY <3>2, <5>2, <5>3
        <5> QED BY <5>1, <5>3, <5>4
      <4> QED BY <2>2, <4>1
    <3>4. \A i \in 1..n : i <= Len(ix) /\ ix[i] = mem.index[i]
      <4>1. \A i \in 1..n : i \in 1..Len(mem.index) /\ i # n + 1
        BY <1>1, <2>2, <2>3
      <4> QED BY <2>3, <3>3, <4>1
    <3>5. d = [state |-> StateOf(new), index |-> ix, entries |-> mem.entries]
      BY <2>1, <3>1
    <3> HIDE DEF ix
    <3> QED BY <1>6, <1>7, <3>3, <3>4, <3>5
  <2> QED BY <2>4, <2>5
<1>8. CASE Open(IndexFlushed(new)) /\ torn' = torn \cup {n + 1}
  <2>1. IndexFlushed(new) = [state |-> StateOf(new), index |-> new.index,
                             entries |-> mem.entries]
    <3>1. StateFlushed(new) = [state |-> StateOf(new), index |-> mem.index,
                               entries |-> mem.entries]
      BY <1>1 DEF StateFlushed
    <3> QED BY <3>1 DEF IndexFlushed
  <2>2. new.index \in Seq(Nat)
    BY <1>9 DEF Memory
  <2> QED BY <1>6, <1>8, <1>9, <2>1, <2>2
<1> QED BY <1>1, <1>5, <1>7, <1>8 DEF AppendEntry

LEMMA DiskStep ==
    ASSUME DiskInv, [Next]_vars
    PROVE  DiskInv'
<1>1. /\ mem \in Memory /\ given \in Seq(Entry) /\ Keeps(mem, given, torn, astray)
      /\ astray \in SUBSET (1..Len(given)) /\ astray \subseteq {1}
      /\ torn \in SUBSET (1..Len(given))
      /\ mem.lastLogIndex = Len(given) /\ Len(given) \in Nat
  BY DEF DiskInv, Keeps
<1>2. ASSUME NEW i \in 1..mem.lastLogIndex, Read(i) PROVE DiskInv'
  BY <1>1, <1>2, ReadKeeps DEF Read, DiskInv, history
<1>3. ASSUME NEW i \in 1..mem.lastLogIndex, NEW e \in Entry, FindConflict(i, e)
      PROVE  DiskInv'
  <2>1. i \in Nat \ {0} /\ replacing' = <<i, e>> /\ replacing' # << >>
    BY <1>1, <1>3 DEF FindConflict
  <2> QED BY <1>1, <1>3, <2>1, ReadKeeps DEF FindConflict, DiskInv, history
<1>4. CASE RemoveLast
  <2> DEFINE r == RemoveLastOf(mem)
             n == Len(given)
  <2>1. /\ n >= 1 /\ replacing # << >> /\ given' = Front(given)
        /\ torn' = torn \ {n} /\ astray' = astray \ {n} /\ up
    <3>1. PICK i \in Nat \ {0}, e \in Entry : replacing = <<i, e>>
      BY <1>4 DEF RemoveLast, DiskInv
    <3> QED BY <1>1, <1>4, <3>1 DEF RemoveLast
  <2>2. /\ r \in Memory /\ given' \in Seq(Entry) /\ Len(given') = n - 1
        /\ Keeps(r, given', torn', astray')
        /\ r.index = mem.index /\ r.entries = mem.entries /\ r.position = mem.position
    BY <1>1, <2>1, RemoveKeeps
  <2>3. torn' \subseteq 1..Len(given') /\ astray' \subseteq 1..Len(given') /\ astray' \subseteq {1}
    <3>1. \A i \in 1..n : i # n => i \in 1..n - 1
      BY <1>1
    <3> QED BY <1>1, <2>1, <2>2, <3>1
  <2>4. /\ \A i \in 1..Len(given') - 1 : Has(r, i)
        /\ Len(given') > 0 => Has(r, Len(given'))
    <3>1. \A i \in 1..n - 1 : Has(r, i)
      BY <2>2 DEF Has, DiskInv
    <3>2. /\ \A i \in 1..Len(given') - 1 : i \in 1..n - 1
          /\ Len(given') > 0 => Len(given') \in 1..n - 1
      BY <1>1, <2>1, <2>2
    <3> QED BY <3>1, <3>2
  <2> HIDE DEF r
  <2>5. CASE Commit(r, replacing)
    <3>1. mem' = r /\ disk' = Flushed(r) /\ replacing' = replacing /\ up'
      BY <2>1, <2>5 DEF Commit
    <3>2. mem'.position <= Len(mem'.entries)
      BY <2>2, <3>1 DEF DiskInv
    <3> QED BY <1>1, <2>1, <2>2, <2>3, <2>4, <3>1, <3>2 DEF DiskInv
  <2>6. CASE CutCommit(r)
    BY <1>1, <2>1, <2>2, <2>3, <2>4, <2>6, CutStep
  <2> QED BY <1>4, <2>5, <2>6 DEF RemoveLast, r
<1>5. ASSUME NEW e \in Entry, AppendEntry(e) PROVE DiskInv'
  BY <1>5, AppendStep
<1>6. ASSUME NEW t \in Term, NEW v \in Vote, CommitTerm(t, v) PROVE DiskInv'
  <2> DEFINE m == SetTermAndVote(mem, t, v)
  <2>1. /\ m \in Memory /\ m.lastLogTerm = mem.lastLogTerm
        /\ m.lastLogIndex = mem.lastLogIndex /\ m.index = mem.index
        /\ m.entries = mem.entries /\ m.position = mem.position
    <3>1. t \in Nat
      BY TermsAreNaturals
    <3> QED BY <1>1, <3>1 DEF SetTermAndVote, Memory
  <2>2. given' = given /\ torn' = torn /\ astray' = astray /\ replacing = << >> /\ up
    BY <1>6 DEF CommitTerm, history
  <2> HIDE DEF m
  <2>3. Keeps(m, given, torn, astray)
    BY <1>1, <2>1 DEF Keeps
  <2>4. \A i : Has(m, i) <=> Has(mem, i)
    BY <2>1 DEF Has
  <2>5. LastTerm(m) = LastTerm(mem)
    BY <2>1 DEF LastTerm, Get
  <2>6. CASE Commit(m, << >>)
    <3>1. mem' = m /\ disk' = Flushed(m) /\ replacing' = << >> /\ up'
      BY <2>2, <2>6 DEF Commit
    <3> QED BY <1>1, <2>1, <2>2, <2>3, <2>4, <2>5, <3>1 DEF DiskInv
  <2>7. CASE CutCommit(m)
    <3>1. \A i \in 1..Len(given) - 1 : Has(m, i)
      BY <2>4 DEF DiskInv
    <3> QED BY <1>1, <2>1, <2>2, <2>3, <2>7, <3>1, CutStep
  <2> QED BY <1>6, <2>6, <2>7 DEF CommitTerm, m
<1>7. CASE Restart
  <2>1. /\ Open(Flushed(mem)) /\ given' = given /\ torn' = torn /\ astray' = astray
    BY <1>7 DEF Restart, DiskInv, history
  <2>2. \A i \in 1..Len(given) - 1 : Has(mem, i)
    BY DEF DiskInv
  <2> QED BY <1>1, <2>1, <2>2, OpenStep
<1>8. CASE UNCHANGED vars
  BY <1>1, <1>8 DEF vars, history, DiskInv
<1> QED BY <1>2, <1>3, <1>4, <1>5, <1>6, <1>7, <1>8 DEF Next

LEMMA DiskInit == Init => DiskInv
<1> SUFFICES ASSUME Init PROVE DiskInv
  OBVIOUS
<1>1. mem = [lastLogIndex |-> 0, currentTerm |-> 1, votedFor |-> NoVote, lastLogTerm |-> 0,
             entries |-> << >>, index |-> << >>, position |-> 0]
  BY DEF Init, Opened
<1>2. mem \in Memory
  BY <1>1 DEF Memory, Vote
<1>3. Flushed(mem) = disk
  BY <1>1 DEF Flushed, StateOf, Init
<1>4. /\ given = << >> /\ Len(given) = 0 /\ torn = {} /\ astray = {} /\ up
      /\ replacing = << >>
  BY DEF Init
<1>5. Keeps(mem, given, torn, astray)
  BY <1>1, <1>4 DEF Keeps
<1>6. \A i \in 1..Len(given) - 1 : Has(mem, i)
  BY <1>4
<1>7. mem.lastLogTerm = LastTerm(mem) /\ mem.position <= Len(mem.entries)
  BY <1>1 DEF LastTerm
<1>8. /\ given \in Seq(Entry) /\ torn \subseteq 1..Len(given)
      /\ astray \subseteq {1} /\ astray \subseteq 1..Len(given)
  <2>1. << >> \in Seq(Entry)
    OBVIOUS
  <2> QED BY <1>4, <2>1
<1> QED BY <1>2, <1>3, <1>4, <1>5, <1>6, <1>7, <1>8 DEF DiskInv

\* After any truncations, reads, restarts and interrupted operations what was
\* appended is what is read, but for the entries in doubt, and a start fails
\* only where the last entry is one that an interrupted Append was writing.
THEOREM FilesHoldTheLog == Spec => []ReadsWhatWasAppended
<1>1. DiskInv => ReadsWhatWasAppended
  <2> SUFFICES ASSUME DiskInv PROVE ReadsWhatWasAppended
    OBVIOUS
  <2>1. /\ mem \in Memory /\ given \in Seq(Entry) /\ Keeps(mem, given, torn, astray)
        /\ up \/ Len(given) \in torn
    BY DEF DiskInv
  <2>2. \A i \in 1..Len(given) :
           i \notin torn /\ i \notin astray => Get(mem, i) = given[i]
    BY <2>1, KeptIsThere
  <2> QED BY <2>1, <2>2 DEF ReadsWhatWasAppended, Keeps
<1> QED BY <1>1, DiskInit, DiskStep, PTL DEF Spec

\* LastLogTerm, which CreateVote sends, is that of the last entry that is read
\* whenever no entry is being replaced, unless this is a first entry astray.
THEOREM LastLogTermIsKept == Spec => []LastLogTermIsLast
<1>1. DiskInv => LastLogTermIsLast
  <2> SUFFICES ASSUME DiskInv, up, replacing = << >>, Len(given) \notin astray
               PROVE  mem.lastLogTerm = IF Log = << >> THEN 0 ELSE Log[Len(Log)].term
    BY DEF LastLogTermIsLast
  <2>1. mem.lastLogIndex = Len(given) /\ Len(given) \in Nat
    BY DEF DiskInv, Keeps
  <2>2. mem.lastLogTerm = LastTerm(mem)
    BY DEF DiskInv
  <2>3. Log = [i \in 1..mem.lastLogIndex |-> Get(mem, i)]
    BY DEF Log
  <2>4. CASE mem.lastLogIndex = 0
    BY <2>2, <2>3, <2>4 DEF LastTerm
  <2>5. CASE mem.lastLogIndex # 0
    <3>1. Len(Log) = mem.lastLogIndex /\ mem.lastLogIndex \in 1..mem.lastLogIndex
      BY <2>1, <2>3, <2>5
    <3>2. Log # << >>
      BY <2>5, <3>1
    <3> QED BY <2>2, <2>3, <2>5, <3>1, <3>2 DEF LastTerm
  <2> QED BY <2>4, <2>5
<1> QED BY <1>1, DiskInit, DiskStep, PTL DEF Spec

-----------------------------------------------------------------------------
(* Promises, whatever becomes of the log. *)

\* The object and the files are the records of their fields.
Object(m) ==
    m = [lastLogIndex |-> m.lastLogIndex, currentTerm |-> m.currentTerm,
         votedFor |-> m.votedFor, lastLogTerm |-> m.lastLogTerm,
         entries |-> m.entries, index |-> m.index, position |-> m.position]
Files(d) == d = [state |-> d.state, index |-> d.index, entries |-> d.entries]

\* The file State has the term and the vote of the object, even where a crash
\* left the other two files behind or the next start failed.
PromiseInv ==
    /\ Object(mem) /\ Files(disk)
    /\ mem.currentTerm \in Nat
    /\ disk.state[2] = mem.currentTerm /\ disk.state[3] = mem.votedFor

\* What a step may do to the promises.
Promised ==
    /\ mem'.currentTerm >= mem.currentTerm
    /\ mem'.currentTerm = mem.currentTerm /\ mem.votedFor # NoVote
           => mem'.votedFor = mem.votedFor

LEMMA OpenedPromises ==
    ASSUME NEW d
    PROVE  /\ Object(Opened(d))
           /\ Opened(d).currentTerm = d.state[2] /\ Opened(d).votedFor = d.state[3]
BY DEF Opened, Object

\* A start with files in which the file State is that of an object.
LEMMA OpenPromises ==
    ASSUME NEW m, m.currentTerm \in Nat, NEW d, Files(d), d.state = StateOf(m), Open(d)
    PROVE  PromiseInv' /\ mem'.currentTerm = m.currentTerm /\ mem'.votedFor = m.votedFor
<1>1. disk' = d /\ mem' = Opened(d)
  BY DEF Open
<1>2. d.state[2] = m.currentTerm /\ d.state[3] = m.votedFor
  BY DEF StateOf
<1> QED BY <1>1, <1>2, OpenedPromises DEF PromiseInv

\* An operation on the files as Commit writes them, State first.
Written(m) ==
    \/ \E next : Commit(m, next)
    \/ CutCommit(m)
    \/ \E n : \E d \in LeftInIndex(StateFlushed(m), n) : Open(d)

\* Wherever a Commit is cut, the term and the vote are there.
LEMMA CommitPromises ==
    ASSUME PromiseInv, NEW m, Object(m), m.currentTerm \in Nat, Written(m)
    PROVE  PromiseInv' /\ mem'.currentTerm = m.currentTerm /\ mem'.votedFor = m.votedFor
<1>1. ASSUME NEW next, Commit(m, next)
      PROVE  PromiseInv' /\ mem'.currentTerm = m.currentTerm /\ mem'.votedFor = m.votedFor
  BY <1>1 DEF Commit, PromiseInv, Flushed, StateOf, Files
<1>2. /\ Files(StateFlushed(m)) /\ StateFlushed(m).state = StateOf(m)
      /\ Files(IndexFlushed(m)) /\ IndexFlushed(m).state = StateOf(m)
  <2>1. StateFlushed(m) = [state |-> StateOf(m), index |-> disk.index,
                           entries |-> disk.entries]
    BY DEF PromiseInv, StateFlushed, Files
  <2>2. IndexFlushed(m) = [state |-> StateOf(m), index |-> m.index,
                           entries |-> disk.entries]
    BY <2>1 DEF IndexFlushed
  <2> QED BY <2>1, <2>2 DEF Files
<1>3. CASE CutCommit(m)
  BY <1>2, <1>3, OpenPromises DEF CutCommit
<1>4. ASSUME NEW n, NEW d \in LeftInIndex(StateFlushed(m), n), Open(d)
      PROVE  PromiseInv' /\ mem'.currentTerm = m.currentTerm /\ mem'.votedFor = m.votedFor
  <2>1. Files(d) /\ d.state = StateOf(m)
    BY <1>2, <1>4 DEF LeftInIndex, Files
  <2> QED BY <1>4, <2>1, OpenPromises
<1> QED BY <1>1, <1>3, <1>4 DEF Written

LEMMA PromiseStep ==
    ASSUME PromiseInv, [Next]_vars
    PROVE  PromiseInv' /\ Promised
<1>1. Object(mem) /\ mem.currentTerm \in Nat
  BY DEF PromiseInv
<1>2. ASSUME NEW i, mem' = AfterGet(mem, i), disk' = disk PROVE PromiseInv' /\ Promised
  <2>1. Object(mem') /\ mem'.currentTerm = mem.currentTerm /\ mem'.votedFor = mem.votedFor
    BY <1>1, <1>2 DEF AfterGet, Object
  <2> QED BY <1>2, <2>1 DEF PromiseInv, Promised
<1>3. ASSUME NEW m, Object(m), m.currentTerm = mem.currentTerm, m.votedFor = mem.votedFor,
             Written(m)
      PROVE  PromiseInv' /\ Promised
  BY <1>1, <1>3, CommitPromises DEF Promised
<1>4. CASE RemoveLast
  <2>1. PICK r : r = RemoveLastOf(mem)
    OBVIOUS
  <2>2. Object(r) /\ r.currentTerm = mem.currentTerm /\ r.votedFor = mem.votedFor
    BY <1>1, <2>1 DEF RemoveLastOf, Object
  <2>3. Written(r)
    BY <1>4, <2>1 DEF RemoveLast, Written
  <2> QED BY <1>3, <2>2, <2>3
<1>5. ASSUME NEW e \in Entry, AppendEntry(e) PROVE PromiseInv' /\ Promised
  <2>1. PICK a : a = AppendTo(mem, e)
    OBVIOUS
  <2>2. Object(a) /\ a.currentTerm = mem.currentTerm /\ a.votedFor = mem.votedFor
    BY <1>1, <2>1 DEF AppendTo, Object
  <2>3. \/ Commit(a, << >>) \/ CutCommit(a)
        \/ \E d \in LeftInIndex(StateFlushed(a), mem.lastLogIndex + 1) : Open(d)
    BY <1>5, <2>1 DEF AppendEntry, CutCommit
  <2>4. Written(a)
    BY <2>3 DEF Written
  <2> QED BY <1>3, <2>2, <2>4
<1>6. ASSUME NEW t \in Term, NEW v \in Vote, CommitTerm(t, v) PROVE PromiseInv' /\ Promised
  <2>1. PICK m : m = SetTermAndVote(mem, t, v)
    OBVIOUS
  <2>2. Object(m) /\ m.currentTerm = t /\ m.votedFor = v /\ t \in Nat
    BY <1>1, <2>1, TermsAreNaturals DEF SetTermAndVote, Object
  <2>3. Written(m)
    BY <1>6, <2>1 DEF CommitTerm, Written
  <2>4. PromiseInv' /\ mem'.currentTerm = t /\ mem'.votedFor = v
    BY <2>2, <2>3, CommitPromises
  <2>5. t > mem.currentTerm \/ (t = mem.currentTerm /\ mem.votedFor = NoVote)
    BY <1>6 DEF CommitTerm
  <2>6. /\ t >= mem.currentTerm
        /\ t = mem.currentTerm => mem.votedFor = NoVote
    BY <1>1, <2>2, <2>5
  <2> QED BY <2>4, <2>6 DEF Promised
<1>7. CASE Restart
  <2>1. mem' = Opened(disk) /\ disk' = disk
    BY <1>7 DEF Restart, Open
  <2>2. Object(mem') /\ mem'.currentTerm = mem.currentTerm /\ mem'.votedFor = mem.votedFor
    BY <2>1, OpenedPromises DEF PromiseInv
  <2> QED BY <2>1, <2>2 DEF PromiseInv, Promised
<1>8. CASE UNCHANGED vars
  BY <1>1, <1>8 DEF vars, history, PromiseInv, Promised
<1> QED BY <1>2, <1>4, <1>5, <1>6, <1>7, <1>8 DEF Next, Read, FindConflict

\* No crash, between operations or inside any Commit, takes back a term or a
\* vote, not even one after which the log can not be read.
THEOREM PromisesAreKept == Spec => PromisesKept
<1>1. Init => PromiseInv
  <2> SUFFICES ASSUME Init PROVE PromiseInv
    OBVIOUS
  <2>1. /\ disk = [state |-> <<0, 1, NoVote>>, index |-> << >>, entries |-> << >>]
        /\ mem = Opened(disk)
    BY DEF Init
  <2>2. Files(disk) /\ disk.state[2] = 1 /\ disk.state[3] = NoVote
    BY <2>1 DEF Files
  <2> QED BY <2>1, <2>2, OpenedPromises DEF PromiseInv
<1>2. PromiseInv /\ [Next]_vars => PromiseInv' /\ [Promised]_vars
  BY PromiseStep
<1> QED BY <1>1, <1>2, PTL DEF Spec, PromisesKept, Promised
=============================================================================
