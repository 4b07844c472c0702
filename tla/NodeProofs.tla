----------------------------- MODULE NodeProofs -----------------------------
(***************************************************************************)
(* TNode keeps its types, never replaces the socket under a coroutine that *)
(* writes to it, delivers whole messages, in order on a connection, and    *)
(* each at most once: it implements Channel.  NodeInv is the inductive     *)
(* invariant: on every connection and in the one DoDrain travel the frames *)
(* of whole messages in the order in which they were sent, and nothing     *)
(* that is still on its way comes before what was read.                    *)
(***************************************************************************)
EXTENDS Node, SequenceTheorems, WellFoundedInduction, TLAPS

-----------------------------------------------------------------------------
(* Frames. *)

\* Frame g is written directly behind frame f, or, of another message, later.
Follows(f, g) ==
    IF f.part = Entries[f.message] THEN f.message < g.message /\ g.part = 0
    ELSE g.message = f.message /\ g.part = f.part + 1
Before(f, g) == f.message < g.message \/ (f.message = g.message /\ f.part < g.part)

\* Frames of messages in the order of their numbers, none left out in between.
Stream(b) ==
    /\ b \in Seq(Frame)
    /\ \A i, j \in 1..Len(b) : i < j => Before(b[i], b[j])
    /\ \A i \in 1..Len(b) - 1 : Follows(b[i], b[i + 1])

IsComplete(b) == b # << >> => b[Len(b)].part = Entries[b[Len(b)].message]

Increasing(q) == \A i, j \in 1..Len(q) : i < j => q[i] < q[j]

LEMMA FrameType ==
    ASSUME NEW f \in Frame
    PROVE  /\ f = [message |-> f.message, part |-> f.part]
           /\ f.message \in Message /\ f.message \in Nat /\ f.part \in Nat
           /\ Entries[f.message] \in Nat /\ f.part <= Entries[f.message]
<1>1. f \in [message : Message, part : Nat] /\ f.part <= Entries[f.message]
  BY DEF Frame
<1>2. Len(Entries) \in Nat /\ \A m \in 1..Len(Entries) : Entries[m] \in Nat
  BY NodeAssumption
<1> QED BY <1>1, <1>2 DEF Message

LEMMA MessageType ==
    ASSUME NEW m \in Message
    PROVE  m \in Nat /\ Entries[m] \in Nat
BY NodeAssumption DEF Message

LEMMA FramesOfStream ==
    ASSUME NEW m \in Message
    PROVE  /\ Stream(FramesOf(m)) /\ Len(FramesOf(m)) = Entries[m] + 1
           /\ FramesOf(m) # << >>
           /\ \A i \in 1..Len(FramesOf(m)) : FramesOf(m)[i] = [message |-> m, part |-> i - 1]
<1> DEFINE n == Entries[m] + 1
           b == FramesOf(m)
<1>1. n \in Nat /\ n >= 1 /\ Entries[m] \in Nat /\ m \in Nat
  BY MessageType
<1>2. b = [i \in 1..n |-> [message |-> m, part |-> i - 1]]
  BY DEF FramesOf
<1>3. \A i \in 1..n : [message |-> m, part |-> i - 1] \in Frame
  BY <1>1 DEF Frame
<1>4. b \in Seq(Frame) /\ Len(b) = n
  BY <1>1, <1>2, <1>3
<1>5. \A i \in 1..n : b[i].message = m /\ b[i].part = i - 1
  BY <1>2
<1> HIDE DEF b
<1>6. \A i, j \in 1..n : i < j => Before(b[i], b[j])
  BY <1>1, <1>5 DEF Before
<1>7. \A i \in 1..n - 1 : Follows(b[i], b[i + 1])
  <2> SUFFICES ASSUME NEW i \in 1..n - 1 PROVE Follows(b[i], b[i + 1])
    OBVIOUS
  <2>1. i \in 1..n /\ i + 1 \in 1..n
    BY <1>1
  <2> QED BY <1>1, <1>5, <2>1 DEF Follows
<1>8. b # << >>
  BY <1>1, <1>4
<1> QED BY <1>2, <1>4, <1>6, <1>7, <1>8 DEF Stream, b

LEMMA ConcatFacts ==
    ASSUME NEW S, NEW a \in Seq(S), NEW b \in Seq(S)
    PROVE  /\ Len(a) \in Nat /\ Len(b) \in Nat
           /\ a \o b \in Seq(S) /\ Len(a \o b) = Len(a) + Len(b)
           /\ \A i \in 1..Len(a) : (a \o b)[i] = a[i]
           /\ \A i \in Len(a) + 1..Len(a) + Len(b) :
                 i - Len(a) \in 1..Len(b) /\ (a \o b)[i] = b[i - Len(a)]
BY ConcatProperties

LEMMA ConcatStream ==
    ASSUME NEW a, Stream(a), NEW b, Stream(b), IsComplete(a), b # << >> => b[1].part = 0,
           \A i \in 1..Len(a), j \in 1..Len(b) : a[i].message < b[j].message
    PROVE  Stream(a \o b) /\ (IsComplete(b) => IsComplete(a \o b))
<1> DEFINE s == a \o b
           n == Len(a)
<1>1. /\ a \in Seq(Frame) /\ b \in Seq(Frame) /\ n \in Nat /\ Len(b) \in Nat
      /\ s \in Seq(Frame) /\ Len(s) = n + Len(b)
      /\ \A i \in 1..n : s[i] = a[i]
      /\ \A i \in n + 1..Len(s) : i - n \in 1..Len(b) /\ s[i] = b[i - n]
  BY ConcatFacts DEF Stream
<1> HIDE DEF s, n
<1>2. \A i, j \in 1..Len(s) : i < j => Before(s[i], s[j])
  <2> SUFFICES ASSUME NEW i \in 1..Len(s), NEW j \in 1..Len(s), i < j
               PROVE  Before(s[i], s[j])
    OBVIOUS
  <2>1. CASE j <= n
    <3>1. i \in 1..n /\ j \in 1..n
      BY <2>1, <1>1
    <3>2. s[i] = a[i] /\ s[j] = a[j]
      BY <3>1, <1>1
    <3>3. Before(a[i], a[j])
      BY <3>1 DEF Stream, n
    <3> QED BY <3>2, <3>3
  <2>2. CASE i <= n /\ j > n
    <3>1. i \in 1..n /\ j \in n + 1..Len(s) /\ j - n \in 1..Len(b)
      BY <2>2, <1>1
    <3>2. s[i] = a[i] /\ s[j] = b[j - n]
      BY <3>1, <1>1
    <3>3. a[i].message < b[j - n].message
      BY <3>1 DEF n
    <3> QED BY <3>2, <3>3 DEF Before
  <2>3. CASE i > n
    <3>1. i \in n + 1..Len(s) /\ j \in n + 1..Len(s) /\ i - n < j - n
      BY <2>3, <1>1
    <3>2. /\ i - n \in 1..Len(b) /\ s[i] = b[i - n]
          /\ j - n \in 1..Len(b) /\ s[j] = b[j - n]
      BY <3>1, <1>1
    <3>3. Before(b[i - n], b[j - n])
      BY <3>1, <3>2 DEF Stream
    <3> QED BY <3>2, <3>3
  <2> QED BY <2>1, <2>2, <2>3, <1>1
<1>3. \A i \in 1..Len(s) - 1 : Follows(s[i], s[i + 1])
  <2> SUFFICES ASSUME NEW i \in 1..Len(s) - 1 PROVE Follows(s[i], s[i + 1])
    OBVIOUS
  <2>1. CASE i < n
    <3>1. i \in 1..n /\ i + 1 \in 1..n /\ i \in 1..n - 1
      BY <2>1, <1>1
    <3> QED BY <3>1, <1>1 DEF Stream, n
  <2>2. CASE i = n
    <3>1. n \in 1..n /\ 1 \in 1..Len(b) /\ i + 1 - n = 1 /\ i + 1 \in n + 1..Len(s)
      BY <2>2, <1>1
    <3>4. a # << >> /\ b # << >>
      BY <3>1, EmptySeq DEF n
    <3>2. s[i] = a[n] /\ s[i + 1] = b[1]
      <4>1. s[i] = a[n]
        BY <2>2, <3>1, <1>1
      <4>2. s[i + 1] = b[i + 1 - n]
        BY <3>1, <1>1
      <4> QED BY <3>1, <4>1, <4>2
    <3>3. b[1].part = 0 /\ a[n].part = Entries[a[n].message] /\ a[n].message < b[1].message
      BY <3>1, <3>4 DEF IsComplete, n
    <3> QED BY <3>2, <3>3 DEF Follows
  <2>3. CASE i > n
    <3>1. i \in n + 1..Len(s) /\ i + 1 \in n + 1..Len(s) /\ i - n \in 1..Len(b) - 1
          /\ i + 1 - n = (i - n) + 1
      BY <2>3, <1>1
    <3> QED BY <3>1, <1>1 DEF Stream
  <2> QED BY <2>1, <2>2, <2>3, <1>1
<1>4. IsComplete(b) => IsComplete(s)
  <2>1. CASE b = << >>
    <3>1. s = a
      BY <2>1, <1>1 DEF s
    <3> QED BY <3>1
  <2>2. CASE b # << >>
    <3>1. Len(b) >= 1 /\ Len(s) \in n + 1..Len(s) /\ Len(s) - n = Len(b)
      BY <2>2, <1>1
    <3> QED BY <3>1, <2>2, <1>1 DEF IsComplete
  <2> QED BY <2>1, <2>2
<1> QED BY <1>1, <1>2, <1>3, <1>4 DEF Stream, s

LEMMA LeastNatural ==
    ASSUME NEW S \in SUBSET Nat, S # {}
    PROVE  \E x \in S : \A y \in S : x <= y
<1>1. PICK x \in S : \A y \in S : ~ (<<y, x>> \in OpToRel(<, Nat))
  BY NatLessThanWellFounded, WFMin
<1>2. x \in Nat /\ \A y \in S : y \in Nat
  OBVIOUS
<1>3. \A y \in S : ~ (y < x)
  BY <1>1, <1>2 DEF OpToRel
<1>4. \A y \in S : x <= y
  BY <1>2, <1>3
<1> QED BY <1>4

\* What is shown of 0, and of n + 1 from n, holds of every natural number.
LEMMA Inductive ==
    ASSUME NEW S \in SUBSET Nat, 0 \in S, \A n \in S : n + 1 \in S
    PROVE  S = Nat
<1> SUFFICES ASSUME Nat \ S # {} PROVE FALSE
  OBVIOUS
<1>1. PICK x \in Nat \ S : \A y \in Nat \ S : x <= y
  BY LeastNatural
<1>2. x - 1 \in Nat /\ ~ (x <= x - 1) /\ x - 1 + 1 = x
  BY <1>1
<1>3. x - 1 \in S
  BY <1>1, <1>2
<1> QED BY <1>1, <1>2, <1>3

\* Recursion over a sequence has a solution.
LEMMA FlattenSolution ==
    ASSUME NEW s, NEW n \in Nat
    PROVE  \E f : f = [i \in 1..n |-> IF i = 1 THEN s[i] ELSE f[i - 1] \o s[i]]
<1> DEFINE Solves(f, k) == f = [i \in 1..k |-> IF i = 1 THEN s[i] ELSE f[i - 1] \o s[i]]
           S == {k \in Nat : \E f : Solves(f, k)}
<1>1. 0 \in S
  <2>1. Solves([i \in 1..0 |-> 0], 0)
    OBVIOUS
  <2> QED BY <2>1
<1>2. ASSUME NEW k \in S PROVE k + 1 \in S
  <2>1. PICK f : Solves(f, k)
    OBVIOUS
  <2> DEFINE x == IF k = 0 THEN s[1] ELSE f[k] \o s[k + 1]
             g == [i \in 1..k + 1 |-> IF i = k + 1 THEN x ELSE f[i]]
  <2>2. ASSUME NEW i \in 1..k + 1
        PROVE  g[i] = IF i = 1 THEN s[i] ELSE g[i - 1] \o s[i]
    <3>1. CASE i = k + 1
      BY <3>1
    <3>2. CASE i # k + 1
      <4>1. i \in 1..k /\ g[i] = f[i]
        BY <3>2
      <4>2. i # 1 => i - 1 \in 1..k /\ g[i - 1] = f[i - 1]
        BY <4>1
      <4>3. f[i] = IF i = 1 THEN s[i] ELSE f[i - 1] \o s[i]
        BY <2>1, <4>1
      <4> QED BY <4>1, <4>2, <4>3
    <3> QED BY <3>1, <3>2
  <2>3. Solves(g, k + 1)
    BY <2>2
  <2>4. k + 1 \in Nat
    OBVIOUS
  <2>5. \E h : Solves(h, k + 1)
    <3> HIDE DEF g, Solves
    <3> QED BY <2>3
  <2> QED BY <2>4, <2>5
<1>3. S = Nat
  BY <1>1, <1>2, Inductive
<1> QED BY <1>3

\* The provers take a concatenation under a quantifier better by this name.
Joined(a, b) == a \o b

Flattens(f, s) ==
    /\ FlattenSeq(s) = IF Len(s) = 0 THEN s ELSE f[Len(s)]
    /\ Len(s) # 0 => f[1] = s[1]
    /\ \A i \in 2..Len(s) : f[i] = Joined(f[i - 1], s[i])

LEMMA FlattenFirst ==
    ASSUME NEW s, Len(s) \in Nat
    PROVE  \E f : Flattens(f, s)
<1> DEFINE n == Len(s)
           Solves(f) == f = [i \in 1..n |-> IF i = 1 THEN s[i] ELSE f[i - 1] \o s[i]]
<1>1. PICK f : Solves(f) /\ FlattenSeq(s) = IF n = 0 THEN s ELSE f[n]
  <2> DEFINE f == CHOOSE g : Solves(g)
  <2>1. Solves(f)
    BY FlattenSolution
  <2>2. FlattenSeq(s) = IF n = 0 THEN s ELSE f[n]
    BY DEF FlattenSeq
  <2> HIDE DEF f
  <2> QED BY <2>1, <2>2
<1>2. FlattenSeq(s) = IF n = 0 THEN s ELSE f[n]
  BY <1>1
<1>3. n # 0 => f[1] = s[1]
  BY <1>1
<1>4. ASSUME NEW i \in 2..n PROVE f[i] = Joined(f[i - 1], s[i])
  <2>1. i \in 1..n /\ i # 1
    OBVIOUS
  <2>2. f[i] = IF i = 1 THEN s[i] ELSE f[i - 1] \o s[i]
    BY <1>1, <2>1
  <2> QED BY <2>1, <2>2 DEF Joined
<1> QED BY <1>2, <1>3, <1>4 DEF Flattens

LEMMA BatchStream ==
    ASSUME NEW q \in Seq(Message), Increasing(q)
    PROVE  /\ Stream(Batch(q)) /\ IsComplete(Batch(q))
           /\ (Batch(q) = << >> <=> q = << >>)
           /\ q # << >> => Batch(q)[1].part = 0
           /\ \A i \in 1..Len(Batch(q)) : \E k \in 1..Len(q) : Batch(q)[i].message = q[k]
<1>0. PICK s : s = [i \in 1..Len(q) |-> FramesOf(q[i])]
  OBVIOUS
<1>1. PICK n \in Nat : n = Len(q) /\ Len(s) = n /\ Batch(q) = FlattenSeq(s)
  BY <1>0 DEF Batch
<1>2. PICK f : /\ Batch(q) = IF n = 0 THEN s ELSE f[n]
               /\ n # 0 => f[1] = s[1]
               /\ \A i \in 2..n : f[i] = Joined(f[i - 1], s[i])
  <2>1. Len(s) \in Nat
    BY <1>1
  <2>2. \E f : Flattens(f, s)
    BY <2>1, FlattenFirst
  <2>3. Len(s) = n /\ Batch(q) = FlattenSeq(s)
    BY <1>1
  <2> QED BY <2>2, <2>3, Zenon DEF Flattens
<1>3. ASSUME NEW i \in 1..n
      PROVE  /\ Stream(s[i]) /\ IsComplete(s[i]) /\ s[i] # << >> /\ s[i][1].part = 0
             /\ Len(s[i]) \in Nat /\ \A j \in 1..Len(s[i]) : s[i][j].message = q[i]
  <2>1. q[i] \in Message /\ s[i] = FramesOf(q[i])
    BY <1>0, <1>1
  <2>2. /\ Stream(s[i]) /\ Len(s[i]) = Entries[q[i]] + 1 /\ s[i] # << >>
        /\ \A j \in 1..Len(s[i]) : s[i][j] = [message |-> q[i], part |-> j - 1]
    BY <2>1, FramesOfStream
  <2>3. Entries[q[i]] \in Nat
    BY <2>1, MessageType
  <2> DEFINE b == s[i]
  <2> HIDE DEF b
  <2>4. /\ Stream(b) /\ Len(b) = Entries[q[i]] + 1 /\ b # << >>
        /\ \A j \in 1..Len(b) : b[j] = [message |-> q[i], part |-> j - 1]
    BY <2>2 DEF b
  <2>5. ASSUME NEW j \in 1..Len(b) PROVE b[j].message = q[i] /\ b[j].part = j - 1
    <3>1. b[j] = [message |-> q[i], part |-> j - 1]
      BY <2>4
    <3> QED BY <3>1
  <2>6. 1 \in 1..Len(b) /\ Len(b) \in 1..Len(b) /\ Len(b) \in Nat
    BY <2>3, <2>4
  <2>7. b[1].part = 0 /\ IsComplete(b)
    <3>1. b[1].part = 0
      BY <2>5, <2>6
    <3>2. b[Len(b)].part = Entries[q[i]] /\ b[Len(b)].message = q[i]
      BY <2>3, <2>4, <2>5, <2>6
    <3> QED BY <3>1, <3>2 DEF IsComplete
  <2> QED BY <2>4, <2>5, <2>6, <2>7 DEF b
<1> DEFINE Good(k) ==
             /\ Stream(f[k]) /\ IsComplete(f[k]) /\ f[k] # << >> /\ f[k][1].part = 0
             /\ \A i \in 1..Len(f[k]) : \E j \in 1..k : f[k][i].message = q[j]
           S == {k \in Nat : k + 1 \in 1..n => Good(k + 1)}
<1>4. 0 \in S
  <2> SUFFICES ASSUME 1 \in 1..n PROVE Good(1)
    OBVIOUS
  <2>1. f[1] = s[1]
    BY <1>2
  <2> QED BY <2>1, <1>3
<1>5. ASSUME NEW m \in S PROVE m + 1 \in S
  <2> SUFFICES ASSUME m + 2 \in 1..n PROVE Good(m + 2)
    <3>1. m + 1 \in Nat /\ m + 1 + 1 = m + 2
      OBVIOUS
    <3> HIDE DEF Good
    <3> QED BY <3>1
  <2>0. PICK k : k = m + 1
    OBVIOUS
  <2>1. k \in 1..n /\ k + 1 \in 1..n /\ k + 1 \in 2..n /\ k + 1 = m + 2 /\ k + 1 - 1 = k /\ k \in Nat
    BY <2>0
  <2>2. Good(k)
    BY <2>0, <2>1
  <2>3. f[k + 1] = f[k] \o s[k + 1]
    <3>1. f[k + 1] = Joined(f[k + 1 - 1], s[k + 1])
      BY <1>2, <2>1
    <3> QED BY <2>1, <3>1 DEF Joined
  <2> DEFINE a == f[k]
             b == s[k + 1]
  <2>4. \A i \in 1..Len(a), j \in 1..Len(b) : a[i].message < b[j].message
    <3> SUFFICES ASSUME NEW i \in 1..Len(a), NEW j \in 1..Len(b)
                 PROVE  a[i].message < b[j].message
      OBVIOUS
    <3>1. PICK l \in 1..k : a[i].message = q[l]
      BY <2>2
    <3>2. l < k + 1 /\ l \in 1..n
      BY <2>1
    <3>3. q[l] < q[k + 1]
      BY <2>1, <3>2, <1>1 DEF Increasing
    <3> QED BY <3>1, <3>3, <2>1, <1>3
  <2>5. /\ Stream(a) /\ IsComplete(a) /\ a # << >> /\ a[1].part = 0
        /\ Stream(b) /\ IsComplete(b) /\ b # << >> /\ b[1].part = 0
    BY <2>1, <2>2, <1>3
  <2>6. Stream(a \o b) /\ IsComplete(a \o b)
    BY <2>4, <2>5, ConcatStream
  <2>7. \A i \in 1..Len(a) : \E j \in 1..k + 1 : a[i].message = q[j]
    <3>1. \A j \in 1..k : j \in 1..k + 1
      BY <2>1
    <3> QED BY <2>2, <3>1
  <2>8. \A i \in 1..Len(b) : b[i].message = q[k + 1]
    BY <2>1, <1>3
  <2>9. /\ a \in Seq(Frame) /\ b \in Seq(Frame)
        /\ Len(a \o b) = Len(a) + Len(b)
        /\ \A i \in 1..Len(a) : (a \o b)[i] = a[i]
        /\ \A i \in Len(a) + 1..Len(a) + Len(b) :
              i - Len(a) \in 1..Len(b) /\ (a \o b)[i] = b[i - Len(a)]
    <3> HIDE DEF a, b
    <3>1. a \in Seq(Frame) /\ b \in Seq(Frame)
      BY <2>5 DEF Stream
    <3> QED BY <3>1, ConcatFacts
  <2> HIDE DEF a, b
  <2>10. Len(a) \in Nat /\ Len(b) \in Nat /\ Len(a) >= 1 /\ a \o b # << >> /\ (a \o b)[1] = a[1]
    BY <2>5, <2>9
  <2>11. \A i \in 1..Len(a \o b) : \E j \in 1..k + 1 : (a \o b)[i].message = q[j]
    <3> SUFFICES ASSUME NEW i \in 1..Len(a \o b)
                 PROVE  \E j \in 1..k + 1 : (a \o b)[i].message = q[j]
      OBVIOUS
    <3>1. CASE i \in 1..Len(a)
      BY <3>1, <2>7, <2>9
    <3>2. CASE i \notin 1..Len(a)
      <4>1. i \in Len(a) + 1..Len(a) + Len(b)
        BY <3>2, <2>9, <2>10
      <4>2. (a \o b)[i].message = q[k + 1] /\ k + 1 \in 1..k + 1
        BY <4>1, <2>1, <2>8, <2>9
      <4> QED BY <4>2
    <3> QED BY <3>1, <3>2
  <2>12. Good(k + 1)
    BY <2>3, <2>5, <2>6, <2>10, <2>11 DEF a, b
  <2> QED BY <2>1, <2>12
<1>6. S = Nat
  <2> HIDE DEF Good
  <2>1. S \in SUBSET Nat
    OBVIOUS
  <2> HIDE DEF S
  <2> QED BY <1>4, <1>5, <2>1, Inductive
<1>7. CASE n = 0
  <2>1. q = << >> /\ s = << >>
    BY <1>7, <1>0, <1>1, EmptySeq
  <2>2. Batch(q) = << >>
    BY <1>2, <1>7, <2>1
  <2>3. Stream(<< >>) /\ IsComplete(<< >>) /\ Len(<< >>) = 0
    BY DEF Stream, IsComplete
  <2> QED BY <2>1, <2>2, <2>3
<1>8. CASE n # 0
  <2>1. n - 1 \in S /\ n - 1 + 1 \in 1..n /\ n - 1 + 1 = n
    <3>1. n - 1 \in Nat
      BY <1>1, <1>8
    <3> HIDE DEF S
    <3> QED BY <1>1, <1>6, <1>8, <3>1
  <2>2. Good(n)
    BY <2>1
  <2>3. q # << >> /\ Batch(q) = f[n] /\ n = Len(q)
    BY <1>1, <1>2, <1>8
  <2> QED BY <2>2, <2>3
<1> QED BY <1>7, <1>8

-----------------------------------------------------------------------------
(* The invariant. *)

\* The frames of the only DoDrain that runs, if any.
Writing == IF drainers = << >> THEN << >> ELSE drainers[1]

Continues(p, f) == IF p = << >> THEN f.part = 0 ELSE Follows(p[Len(p)], f)

\* p is a beginning of a message, and not all of it.
Unfinished(p) ==
    /\ p \in Seq(Frame)
    /\ p # << >> => /\ Len(p) <= Entries[p[1].message]
                    /\ \A i \in 1..Len(p) : p[i] = [message |-> p[1].message, part |-> i - 1]

\* On each connection whole messages travel, none interleaved with another.
Streams(W, P, n) ==
    /\ W \in [Connection -> Seq(Frame)]
    /\ \A c \in Connection :
          /\ Stream(W[c]) /\ Unfinished(P[c])
          /\ W[c] # << >> => Continues(P[c], W[c][1])
          /\ c > n => W[c] = << >> /\ P[c] = << >>

\* What is written next continues what was written last, if that can arrive.
Linked(W, P, n, w) ==
    IF w = << >> THEN IF W[n] = << >> THEN P[n] = << >> ELSE IsComplete(W[n])
    ELSE Continues(IF W[n] = << >> THEN P[n] ELSE W[n], w[1])

\* The messages are on their way in the order in which they were sent.
Ordered(q, w, W, n, s) ==
    /\ q \in Seq(1..s) /\ Increasing(q)
    /\ Stream(w) /\ IsComplete(w)
    /\ \A j \in 1..Len(w) : w[j].message <= s
    /\ \A j \in 1..Len(w), k \in 1..Len(q) : w[j].message < q[k]
    /\ \A c \in Connection : \A i \in 1..Len(W[c]) :
          /\ W[c][i].message <= s
          /\ \A k \in 1..Len(q) : W[c][i].message < q[k]
          /\ \A j \in 1..Len(w) : \/ W[c][i].message < w[j].message
                                  \/ c = n /\ Before(W[c][i], w[j])
    /\ \A c, d \in Connection : c < d =>
          \A i \in 1..Len(W[c]), j \in 1..Len(W[d]) : W[c][i].message < W[d][j].message

\* What was read is behind us.
MessageOf(x) == x.frames[1].message
Past(R, q, w, W, s) ==
    /\ R \in Seq([connection : Connection, frames : Seq(Frame)])
    /\ \A r \in 1..Len(R) :
          /\ MessageOf(R[r]) \in Message
          /\ R[r].frames = FramesOf(MessageOf(R[r]))
          /\ MessageOf(R[r]) <= s
          /\ \A k \in 1..Len(q) : MessageOf(R[r]) < q[k]
          /\ \A j \in 1..Len(w) : MessageOf(R[r]) < w[j].message
          /\ \A i \in 1..Len(W[R[r].connection]) :
                MessageOf(R[r]) < W[R[r].connection][i].message
    /\ \A r, t \in 1..Len(R) :
          r < t /\ R[r].connection = R[t].connection => MessageOf(R[r]) < MessageOf(R[t])

\* Drain starts no second DoDrain, and Connected is false while DoConnect runs.
DrainInv ==
    /\ Draining => drainers = <<drainers[1]>>
    /\ Draining => connected
    /\ connected => connector = "done"

NodeInv ==
    /\ DrainInv
    /\ sent \in 0..Len(Entries) /\ connection \in 0..MaxConnections
    /\ alive \in BOOLEAN /\ (alive => connection # 0)
    /\ DOMAIN partial = Connection
    /\ Draining => Writing # << >>
    /\ Streams(wire, partial, connection)
    /\ alive => Linked(wire, partial, connection, Writing)
    /\ Ordered(messages, Writing, wire, connection, sent)
    /\ Past(received, messages, Writing, wire, sent)

-----------------------------------------------------------------------------
(* Parts of a stream. *)

LEMMA StreamTail ==
    ASSUME NEW b, Stream(b), b # << >>
    PROVE  /\ Len(b) \in Nat /\ Len(b) >= 1 /\ b[1] \in Frame /\ Head(b) = b[1]
           /\ Stream(Tail(b)) /\ Len(Tail(b)) = Len(b) - 1
           /\ \A i \in 1..Len(Tail(b)) : i + 1 \in 1..Len(b) /\ Tail(b)[i] = b[i + 1]
           /\ \A i \in 1..Len(Tail(b)) : Before(b[1], Tail(b)[i])
           /\ Tail(b) # << >> => Follows(b[1], Tail(b)[1])
           /\ Tail(b) = << >> <=> Len(b) = 1
           /\ IsComplete(b) => IsComplete(Tail(b))
<1> DEFINE n == Len(b)
<1>1. /\ b \in Seq(Frame) /\ n \in Nat /\ n >= 1 /\ b[1] \in Frame /\ Head(b) = b[1]
      /\ \A i, j \in 1..n : i < j => Before(b[i], b[j])
      /\ \A i \in 1..n - 1 : Follows(b[i], b[i + 1])
  <2>1. b \in Seq(Frame)
    BY DEF Stream
  <2>2. n \in Nat /\ n >= 1 /\ b[1] \in Frame /\ Head(b) = b[1]
    BY <2>1, EmptySeq
  <2> QED BY <2>1, <2>2 DEF Stream
<1>2. PICK t : t = Tail(b)
  OBVIOUS
<1>3. /\ t \in Seq(Frame) /\ Len(t) = n - 1
      /\ \A i \in 1..Len(t) : i + 1 \in 1..n /\ t[i] = b[i + 1]
  BY <1>1, <1>2, HeadTailProperties
<1> HIDE DEF n
<1>4. \A i, j \in 1..Len(t) : i < j => Before(t[i], t[j])
  <2> SUFFICES ASSUME NEW i \in 1..Len(t), NEW j \in 1..Len(t), i < j PROVE Before(t[i], t[j])
    OBVIOUS
  <2>1. i + 1 \in 1..n /\ j + 1 \in 1..n /\ i + 1 < j + 1
    BY <1>3
  <2>2. Before(b[i + 1], b[j + 1])
    BY <1>1, <2>1
  <2> QED BY <1>3, <2>2
<1>5. \A i \in 1..Len(t) - 1 : Follows(t[i], t[i + 1])
  <2> SUFFICES ASSUME NEW i \in 1..Len(t) - 1 PROVE Follows(t[i], t[i + 1])
    OBVIOUS
  <2>1. i + 1 \in 1..n - 1 /\ i \in 1..Len(t) /\ i + 1 \in 1..Len(t)
    BY <1>1, <1>3
  <2>2. Follows(b[i + 1], b[i + 1 + 1])
    BY <1>1, <2>1
  <2> QED BY <1>3, <2>1, <2>2
<1>6. \A i \in 1..Len(t) : Before(b[1], t[i])
  <2> SUFFICES ASSUME NEW i \in 1..Len(t) PROVE Before(b[1], t[i])
    OBVIOUS
  <2>1. i + 1 \in 1..n /\ 1 \in 1..n /\ 1 < i + 1
    BY <1>1, <1>3
  <2> QED BY <1>1, <1>3, <2>1
<1>7. t # << >> => Follows(b[1], t[1])
  <2> SUFFICES ASSUME t # << >> PROVE Follows(b[1], t[1])
    OBVIOUS
  <2>1. 1 \in 1..n - 1 /\ 1 \in 1..Len(t)
    BY <1>1, <1>3, EmptySeq
  <2>2. Follows(b[1], b[1 + 1]) /\ t[1] = b[1 + 1]
    BY <1>1, <1>3, <2>1
  <2> QED BY <2>2
<1>8. t = << >> <=> n = 1
  BY <1>1, <1>3, EmptySeq
<1>9. IsComplete(b) => IsComplete(t)
  <2> SUFFICES ASSUME IsComplete(b), t # << >> PROVE t[Len(t)].part = Entries[t[Len(t)].message]
    BY DEF IsComplete
  <2>1. Len(t) \in 1..Len(t) /\ Len(t) + 1 = n
    BY <1>1, <1>3, EmptySeq
  <2>2. t[Len(t)] = b[n]
    BY <1>3, <2>1
  <2> QED BY <2>2 DEF IsComplete, n
<1> QED BY <1>1, <1>2, <1>3, <1>4, <1>5, <1>6, <1>7, <1>8, <1>9 DEF Stream, n

LEMMA StreamAppend ==
    ASSUME NEW s, Stream(s), NEW f \in Frame,
           \A i \in 1..Len(s) : Before(s[i], f), s # << >> => Follows(s[Len(s)], f)
    PROVE  /\ Stream(Append(s, f)) /\ Len(s) \in Nat /\ Len(Append(s, f)) = Len(s) + 1
           /\ Append(s, f) # << >> /\ Append(s, f)[Len(s) + 1] = f
           /\ \A i \in 1..Len(s) : Append(s, f)[i] = s[i]
<1> DEFINE n == Len(s)
<1>1. PICK t : t = Append(s, f)
  OBVIOUS
<1>2. /\ s \in Seq(Frame) /\ n \in Nat /\ t \in Seq(Frame) /\ Len(t) = n + 1 /\ t # << >>
      /\ t[n + 1] = f /\ \A i \in 1..n : t[i] = s[i]
  BY <1>1, AppendProperties DEF Stream
<1>3. \A i, j \in 1..n : i < j => Before(s[i], s[j])
  BY DEF Stream
<1>4. \A i \in 1..n - 1 : Follows(s[i], s[i + 1])
  BY DEF Stream
<1>5. n # 0 => s # << >>
  OBVIOUS
<1>6. n # 0 => Follows(s[n], f)
  BY <1>5
<1> HIDE DEF n
<1>7. \A i, j \in 1..Len(t) : i < j => Before(t[i], t[j])
  <2> SUFFICES ASSUME NEW i \in 1..Len(t), NEW j \in 1..Len(t), i < j PROVE Before(t[i], t[j])
    OBVIOUS
  <2>1. CASE j = n + 1
    <3>1. i \in 1..n
      BY <2>1, <1>2
    <3> QED BY <2>1, <3>1, <1>2 DEF n
  <2>2. CASE j # n + 1
    <3>1. i \in 1..n /\ j \in 1..n
      BY <2>2, <1>2
    <3> QED BY <3>1, <1>2, <1>3
  <2> QED BY <2>1, <2>2
<1>8. \A i \in 1..Len(t) - 1 : Follows(t[i], t[i + 1])
  <2> SUFFICES ASSUME NEW i \in 1..Len(t) - 1 PROVE Follows(t[i], t[i + 1])
    OBVIOUS
  <2>1. CASE i = n
    BY <2>1, <1>2, <1>6
  <2>2. CASE i # n
    <3>1. i \in 1..n - 1 /\ i \in 1..n /\ i + 1 \in 1..n
      BY <2>2, <1>2
    <3> QED BY <3>1, <1>2, <1>4
  <2> QED BY <2>1, <2>2
<1> QED BY <1>1, <1>2, <1>7, <1>8 DEF Stream, n

LEMMA StreamPrefix ==
    ASSUME NEW s, Stream(s), NEW k \in 0..Len(s)
    PROVE  /\ Stream(SubSeq(s, 1, k)) /\ Len(SubSeq(s, 1, k)) = k
           /\ \A i \in 1..k : i \in 1..Len(s) /\ SubSeq(s, 1, k)[i] = s[i]
<1>1. PICK t : t = SubSeq(s, 1, k)
  OBVIOUS
<1>2. s \in Seq(Frame) /\ Len(s) \in Nat /\ k \in Nat
  BY DEF Stream
<1>3. t \in Seq(Frame) /\ Len(t) = k /\ \A i \in 1..k : t[i] = s[i]
  BY <1>1, <1>2
<1>4. \A i \in 1..k : i \in 1..Len(s)
  BY <1>2
<1>5. \A i \in 1..k - 1 : i \in 1..k /\ i + 1 \in 1..k /\ i \in 1..Len(s) - 1
  BY <1>2
<1>6. \A i, j \in 1..k : i < j => Before(t[i], t[j])
  BY <1>3, <1>4 DEF Stream
<1>7. \A i \in 1..k - 1 : Follows(t[i], t[i + 1])
  BY <1>3, <1>5 DEF Stream
<1> QED BY <1>1, <1>3, <1>4, <1>6, <1>7 DEF Stream

-----------------------------------------------------------------------------
(* What the operations do to the parts of the invariant. *)

LEMMA ReadType ==
    ASSUME NEW R \in Seq([connection : Connection, frames : Seq(Frame)]), NEW r \in 1..Len(R)
    PROVE  R[r] \in [connection : Connection, frames : Seq(Frame)] /\ R[r].connection \in Connection
<1>1. PICK S : S = [connection : Connection, frames : Seq(Frame)]
  OBVIOUS
<1>2. R \in Seq(S)
  BY <1>1
<1>3. R[r] \in S
  BY <1>2
<1> QED BY <1>1, <1>3

LEMMA SendKeeps ==
    ASSUME NEW q, NEW w, NEW W, NEW R, NEW n, NEW s \in Nat,
           Ordered(q, w, W, n, s), Past(R, q, w, W, s), s + 1 \in Message,
           W \in [Connection -> Seq(Frame)]
    PROVE  /\ Ordered(Append(q, s + 1), w, W, n, s + 1)
           /\ Past(R, Append(q, s + 1), w, W, s + 1)
<1>1. PICK t : t = Append(q, s + 1)
  OBVIOUS
<1>2. /\ q \in Seq(1..s) /\ Len(q) \in Nat /\ \A k \in 1..Len(q) : q[k] \in 1..s
  BY DEF Ordered
<1>3. /\ t \in Seq(1..s + 1) /\ Len(t) = Len(q) + 1 /\ t[Len(q) + 1] = s + 1
      /\ \A k \in 1..Len(q) : t[k] = q[k]
  <2>1. q \in Seq(1..s + 1)
    BY <1>2
  <2> QED BY <1>1, <1>2, <2>1
<1>11. Len(q) \in Nat /\ Len(t) = Len(q) + 1
  BY <1>2, <1>3
<1>4. ASSUME NEW x, x <= s, x \in Nat, \A k \in 1..Len(q) : x < q[k]
      PROVE  x <= s + 1 /\ \A k \in 1..Len(t) : x < t[k]
  <2>1. ASSUME NEW k \in 1..Len(t) PROVE x < t[k]
    <3>1. CASE k = Len(q) + 1
      BY <3>1, <1>3, <1>4
    <3>2. CASE k # Len(q) + 1
      <4>1. k \in 1..Len(q)
        BY <3>2, <1>11
      <4> QED BY <4>1, <1>3, <1>4
    <3> QED BY <3>1, <3>2
  <2> QED BY <2>1, <1>4
<1>5. Increasing(t)
  <2> SUFFICES ASSUME NEW i \in 1..Len(t), NEW j \in 1..Len(t), i < j PROVE t[i] < t[j]
    BY DEF Increasing
  <2>1. i \in 1..Len(q)
    BY <1>2, <1>3
  <2>2. q[i] <= s /\ q[i] \in Nat
    BY <1>2, <2>1
  <2>3. \A k \in 1..Len(q) : i < k => q[i] < q[k]
    BY <2>1 DEF Ordered, Increasing
  <2>4. CASE j = Len(q) + 1
    BY <2>1, <2>2, <2>4, <1>3
  <2>5. CASE j # Len(q) + 1
    <3>1. j \in 1..Len(q)
      BY <2>5, <1>11
    <3> QED BY <2>1, <2>3, <3>1, <1>3
  <2> QED BY <2>4, <2>5
<1>6. ASSUME NEW f \in Frame PROVE f.message \in Nat
  BY <1>6, FrameType
<1>7. /\ w \in Seq(Frame) /\ \A j \in 1..Len(w) : w[j].message \in Nat
  <2>1. w \in Seq(Frame)
    BY DEF Ordered, Stream
  <2> QED BY <2>1, <1>6
<1>8. \A c \in Connection : \A i \in 1..Len(W[c]) : W[c][i].message \in Nat
  BY <1>6
<1>9. Ordered(t, w, W, n, s + 1)
  <2>1. \A j \in 1..Len(w) : w[j].message <= s + 1 /\ \A k \in 1..Len(t) : w[j].message < t[k]
    BY <1>4, <1>7 DEF Ordered
  <2>2. \A c \in Connection : \A i \in 1..Len(W[c]) :
           W[c][i].message <= s + 1 /\ \A k \in 1..Len(t) : W[c][i].message < t[k]
    BY <1>4, <1>8 DEF Ordered
  <2> QED BY <1>3, <1>5, <2>1, <2>2 DEF Ordered
<1>10. Past(R, t, w, W, s + 1)
  <2>1. \A r \in 1..Len(R) : MessageOf(R[r]) \in Nat
    BY MessageType DEF Past
  <2>2. \A r \in 1..Len(R) : MessageOf(R[r]) <= s + 1 /\ \A k \in 1..Len(t) : MessageOf(R[r]) < t[k]
    BY <1>4, <2>1 DEF Past
  <2> QED BY <2>2 DEF Past
<1> QED BY <1>1, <1>9, <1>10

LEMMA RefillKeeps ==
    ASSUME NEW q, NEW W, NEW P, NEW R, NEW n, NEW s \in 0..Len(Entries),
           Ordered(q, << >>, W, n, s), Past(R, q, << >>, W, s),
           W \in [Connection -> Seq(Frame)]
    PROVE  /\ Ordered(<< >>, Batch(q), W, n, s) /\ Past(R, << >>, Batch(q), W, s)
           /\ n \in Connection /\ Linked(W, P, n, << >>) => Linked(W, P, n, Batch(q))
<1>1. PICK b : b = Batch(q)
  OBVIOUS
<1>2. /\ q \in Seq(1..s) /\ Increasing(q)
  BY DEF Ordered
<1>3. q \in Seq(Message) /\ s \in Nat
  BY <1>2, NodeAssumption DEF Message
<1>4. /\ Stream(b) /\ IsComplete(b)
      /\ (b = << >> <=> q = << >>)
      /\ q # << >> => b[1].part = 0
      /\ \A i \in 1..Len(b) : \E k \in 1..Len(q) : b[i].message = q[k]
  BY <1>1, <1>2, <1>3, BatchStream
<1>5. ASSUME NEW x, \A k \in 1..Len(q) : x < q[k]
      PROVE  \A j \in 1..Len(b) : x < b[j].message
  BY <1>4, <1>5
<1>6. Increasing(<< >>) /\ << >> \in Seq(1..s) /\ Len(<< >>) = 0
  <2>1. Len(<< >>) = 0 /\ << >> \in Seq(1..s)
    OBVIOUS
  <2> QED BY <2>1 DEF Increasing
<1>7. Ordered(<< >>, b, W, n, s)
  <2>1. ASSUME NEW j \in 1..Len(b) PROVE b[j].message <= s
    <3>1. PICK k \in 1..Len(q) : b[j].message = q[k]
      BY <1>4
    <3>2. q[k] \in 1..s
      BY <1>2
    <3> QED BY <3>1, <3>2
  <2>2. \A c \in Connection : \A i \in 1..Len(W[c]) :
          /\ W[c][i].message <= s
          /\ \A k \in 1..Len(q) : W[c][i].message < q[k]
    BY DEF Ordered
  <2>3. \A c \in Connection : \A i \in 1..Len(W[c]) : \A j \in 1..Len(b) :
           W[c][i].message < b[j].message
    BY <2>2, <1>5
  <2>4. \A c, d \in Connection : c < d =>
          \A i \in 1..Len(W[c]), j \in 1..Len(W[d]) : W[c][i].message < W[d][j].message
    BY DEF Ordered
  <2> QED BY <1>4, <1>6, <2>1, <2>2, <2>3, <2>4 DEF Ordered
<1>8. Past(R, << >>, b, W, s)
  <2>1. \A r \in 1..Len(R) : \A k \in 1..Len(q) : MessageOf(R[r]) < q[k]
    BY DEF Past
  <2>2. \A r \in 1..Len(R) : \A j \in 1..Len(b) : MessageOf(R[r]) < b[j].message
    BY <2>1, <1>5
  <2> QED BY <2>2, <1>6 DEF Past
<1>9. ASSUME n \in Connection, Linked(W, P, n, << >>) PROVE Linked(W, P, n, b)
  <2>1. CASE b = << >>
    BY <2>1, <1>9
  <2>2. CASE b # << >> /\ W[n] = << >>
    BY <2>2, <1>4, <1>9 DEF Linked, Continues
  <2>3. CASE b # << >> /\ W[n] # << >>
    <3>1. W[n] \in Seq(Frame)
      BY <1>9
    <3>2. Len(W[n]) \in 1..Len(W[n]) /\ 1 \in 1..Len(b)
      BY <2>3, <3>1, <1>4, EmptySeq DEF Stream
    <3>3. W[n][Len(W[n])].message < b[1].message
      <4>1. \A k \in 1..Len(q) : W[n][Len(W[n])].message < q[k]
        BY <3>2, <1>9 DEF Ordered
      <4> QED BY <4>1, <3>2, <1>5
    <3>4. W[n][Len(W[n])].part = Entries[W[n][Len(W[n])].message]
      BY <2>3, <1>9 DEF Linked, IsComplete
    <3> QED BY <2>3, <3>3, <3>4, <1>4 DEF Linked, Continues, Follows
  <2> QED BY <2>1, <2>2, <2>3
<1> QED BY <1>1, <1>7, <1>8, <1>9

LEMMA DropKeeps ==
    ASSUME NEW q, NEW w, NEW W, NEW R, NEW n, NEW s,
           Ordered(q, w, W, n, s), Past(R, q, w, W, s)
    PROVE  Ordered(q, << >>, W, n, s) /\ Past(R, q, << >>, W, s)
<1>1. Stream(<< >>) /\ IsComplete(<< >>) /\ Len(<< >>) = 0
  BY DEF Stream, IsComplete
<1> QED BY <1>1 DEF Ordered, Past

LEMMA HeadKeeps ==
    ASSUME NEW q, NEW w, NEW W, NEW R, NEW n, NEW s, w # << >>,
           Ordered(q, w, W, n, s), Past(R, q, w, W, s)
    PROVE  Ordered(q, Tail(w), W, n, s) /\ Past(R, q, Tail(w), W, s)
<1>1. PICK t : t = Tail(w)
  OBVIOUS
<1>2. /\ Stream(t) /\ IsComplete(t)
      /\ \A i \in 1..Len(t) : i + 1 \in 1..Len(w) /\ t[i] = w[i + 1]
  BY <1>1, StreamTail DEF Ordered
<1>3. Ordered(q, t, W, n, s)
  BY <1>2 DEF Ordered
<1>4. Past(R, q, t, W, s)
  BY <1>2 DEF Past
<1> QED BY <1>1, <1>3, <1>4

LEMMA ConnectionKeeps ==
    ASSUME NEW q, NEW W, NEW P, NEW n \in Nat, NEW s,
           Streams(W, P, n), Ordered(q, << >>, W, n, s), n + 1 \in Connection
    PROVE  Streams(W, P, n + 1) /\ Ordered(q, << >>, W, n + 1, s) /\ Linked(W, P, n + 1, << >>)
<1>1. n + 1 > n /\ \A c \in Connection : c > n + 1 => c > n
  BY DEF Connection
<1>2. W[n + 1] = << >> /\ P[n + 1] = << >>
  BY <1>1 DEF Streams
<1>3. Len(<< >>) = 0
  OBVIOUS
<1> QED BY <1>1, <1>2, <1>3 DEF Streams, Ordered, Linked

\* A frame that is written follows those on the wire.
LEMMA WriteKeeps ==
    ASSUME NEW q, NEW w, NEW W, NEW P, NEW R, NEW n \in Connection, NEW s, w # << >>,
           Streams(W, P, n), Linked(W, P, n, w), Ordered(q, w, W, n, s), Past(R, q, w, W, s)
    PROVE  LET X == [W EXCEPT ![n] = Append(@, Head(w))]
           IN  /\ Streams(X, P, n) /\ Linked(X, P, n, Tail(w))
               /\ Ordered(q, Tail(w), X, n, s) /\ Past(R, q, Tail(w), X, s)
<1>1. PICK X : X = [W EXCEPT ![n] = Append(@, Head(w))]
  OBVIOUS
<1>2. PICK t : t = Tail(w)
  OBVIOUS
<1>3. PICK f : f = w[1]
  OBVIOUS
<1>4. /\ Stream(t) /\ IsComplete(t) /\ IsComplete(w) /\ f \in Frame /\ Head(w) = f /\ Len(w) >= 1 /\ Len(w) \in Nat
      /\ \A i \in 1..Len(t) : i + 1 \in 1..Len(w) /\ t[i] = w[i + 1]
      /\ \A i \in 1..Len(t) : Before(f, t[i])
      /\ t # << >> => Follows(f, t[1])
      /\ t = << >> => Len(w) = 1
  BY <1>2, <1>3, StreamTail DEF Ordered
<1>5. 1 \in 1..Len(w)
  BY <1>4
<1>6. PICK v : v = W[n]
  OBVIOUS
<1>7. W \in [Connection -> Seq(Frame)] /\ v \in Seq(Frame) /\ Stream(v)
  BY <1>6 DEF Streams
<1>8. PICK x : x = Append(v, f)
  OBVIOUS
<1>9. X = [W EXCEPT ![n] = x]
  BY <1>1, <1>4, <1>6, <1>8
<1>10. \A i \in 1..Len(v) : Before(v[i], f)
  <2> SUFFICES ASSUME NEW i \in 1..Len(v) PROVE Before(v[i], f)
    OBVIOUS
  <2>1. v[i].message < f.message \/ Before(v[i], f)
    BY <1>3, <1>5, <1>6 DEF Ordered
  <2> QED BY <2>1 DEF Before
<1>11. Continues(IF v = << >> THEN P[n] ELSE v, f)
  BY <1>3, <1>6 DEF Linked
<1>12. v # << >> => Follows(v[Len(v)], f)
  BY <1>11 DEF Continues
<1>13. /\ Stream(x) /\ Len(v) \in Nat /\ Len(x) = Len(v) + 1 /\ x # << >> /\ x[Len(v) + 1] = f
       /\ \A i \in 1..Len(v) : x[i] = v[i]
  BY <1>4, <1>7, <1>8, <1>10, <1>12, StreamAppend
<1>14. X \in [Connection -> Seq(Frame)] /\ X[n] = x /\ \A c \in Connection \ {n} : X[c] = W[c]
  BY <1>7, <1>9, <1>13 DEF Stream
<1>15. \A i \in 1..Len(x) : (i \in 1..Len(v) /\ x[i] = v[i]) \/ x[i] = f
  BY <1>13
<1>16. Streams(X, P, n)
  <2>1. ASSUME NEW c \in Connection
        PROVE  /\ Stream(X[c]) /\ Unfinished(P[c])
               /\ X[c] # << >> => Continues(P[c], X[c][1])
               /\ c > n => X[c] = << >> /\ P[c] = << >>
    <3>1. CASE c # n
      BY <3>1, <1>14 DEF Streams
    <3>2. CASE c = n
      <4>1. ~ (c > n) /\ Unfinished(P[c])
        BY <3>2 DEF Streams, Connection
      <4>2. Continues(P[n], x[1])
        <5>1. CASE v = << >>
          <6>1. x[1] = f
            BY <5>1, <1>13
          <6> QED BY <5>1, <6>1, <1>11
        <5>2. CASE v # << >>
          <6>1. x[1] = v[1]
            BY <5>2, <1>7, <1>13
          <6> QED BY <5>2, <6>1, <1>6 DEF Streams
        <5> QED BY <5>1, <5>2
      <4> QED BY <3>2, <4>1, <4>2, <1>13, <1>14
    <3> QED BY <3>1, <3>2
  <2> QED BY <2>1, <1>14 DEF Streams
<1>17. Linked(X, P, n, t)
  <2>1. x[Len(x)] = f
    BY <1>13
  <2>2. CASE t = << >>
    <3>1. f.part = Entries[f.message]
      BY <2>2, <1>3, <1>4 DEF IsComplete
    <3> QED BY <2>1, <2>2, <3>1, <1>13, <1>14 DEF Linked, IsComplete
  <2>3. CASE t # << >>
    BY <2>1, <2>3, <1>4, <1>13, <1>14 DEF Linked, Continues
  <2> QED BY <2>2, <2>3
<1>18. Ordered(q, t, X, n, s)
  <2>1. \A j \in 1..Len(t) : t[j].message <= s /\ \A k \in 1..Len(q) : t[j].message < q[k]
    BY <1>4 DEF Ordered
  <2>2. f.message <= s /\ \A k \in 1..Len(q) : f.message < q[k]
    BY <1>3, <1>5 DEF Ordered
  <2>3. ASSUME NEW c \in Connection, NEW i \in 1..Len(X[c])
        PROVE  /\ X[c][i].message <= s
               /\ \A k \in 1..Len(q) : X[c][i].message < q[k]
               /\ \A j \in 1..Len(t) : \/ X[c][i].message < t[j].message
                                       \/ c = n /\ Before(X[c][i], t[j])
    <3>1. CASE c = n /\ X[c][i] = f
      BY <3>1, <2>2, <1>4
    <3>2. CASE i \in 1..Len(W[c]) /\ X[c][i] = W[c][i]
      BY <3>2, <1>4 DEF Ordered
    <3> QED BY <3>1, <3>2, <1>6, <1>14, <1>15
  <2>4. ASSUME NEW c \in Connection, NEW d \in Connection, c < d,
               NEW i \in 1..Len(X[c]), NEW j \in 1..Len(X[d])
        PROVE  X[c][i].message < X[d][j].message
    <3>1. ~ (c = n /\ d = n) /\ c # d
      BY <2>4 DEF Connection
    <3>2. CASE c = n
      <4>1. d > n
        BY <2>4, <3>2 DEF Connection
      <4>2. X[d] = << >>
        BY <4>1, <1>14, <3>1, <3>2 DEF Streams
      <4> QED BY <4>2
    <3>3. CASE d = n /\ X[d][j] = f
      <4>1. i \in 1..Len(W[c]) /\ X[c][i] = W[c][i] /\ c # n
        BY <3>1, <3>3, <1>14
      <4>2. W[c][i].message < w[1].message
        BY <4>1, <1>5 DEF Ordered
      <4> QED BY <3>3, <4>1, <4>2, <1>3
    <3>4. CASE c # n /\ j \in 1..Len(W[d]) /\ X[d][j] = W[d][j]
      <4>1. i \in 1..Len(W[c]) /\ X[c][i] = W[c][i]
        BY <3>4, <1>14
      <4> QED BY <2>4, <3>4, <4>1 DEF Ordered
    <3> QED BY <3>1, <3>2, <3>3, <3>4, <1>6, <1>14, <1>15
  <2> QED BY <2>1, <2>3, <2>4, <1>4 DEF Ordered
<1>19. Past(R, q, t, X, s)
  <2>1. \A r \in 1..Len(R) : R[r].connection \in Connection
    BY ReadType DEF Past
  <2>2. \A r \in 1..Len(R) : \A j \in 1..Len(t) : MessageOf(R[r]) < t[j].message
    BY <1>4 DEF Past
  <2>3. ASSUME NEW r \in 1..Len(R), NEW i \in 1..Len(X[R[r].connection])
        PROVE  MessageOf(R[r]) < X[R[r].connection][i].message
    <3> DEFINE c == R[r].connection
    <3>1. CASE X[c][i] = f
      BY <3>1, <1>3, <1>5 DEF Past
    <3>2. CASE i \in 1..Len(W[c]) /\ X[c][i] = W[c][i]
      BY <3>2 DEF Past
    <3>3. c \in Connection
      BY <2>1
    <3> HIDE DEF c
    <3>4. ASSUME NEW j \in 1..Len(X[c])
          PROVE  (j \in 1..Len(W[c]) /\ X[c][j] = W[c][j]) \/ X[c][j] = f
      <4>1. CASE c = n
        BY <4>1, <1>6, <1>14, <1>15
      <4>2. CASE c # n
        BY <3>3, <4>2, <1>14
      <4> QED BY <4>1, <4>2
    <3> QED BY <3>1, <3>2, <3>4 DEF c
  <2> QED BY <2>2, <2>3 DEF Past
<1> QED BY <1>1, <1>2, <1>16, <1>17, <1>18, <1>19

\* A connection that breaks keeps a beginning of what is on the wire.
LEMMA CutKeeps ==
    ASSUME NEW q, NEW w, NEW W, NEW P, NEW R, NEW n \in Connection, NEW s,
           Streams(W, P, n), Ordered(q, w, W, n, s), Past(R, q, w, W, s),
           NEW k \in 0..Len(W[n])
    PROVE  LET X == [W EXCEPT ![n] = SubSeq(@, 1, k)]
           IN  Streams(X, P, n) /\ Ordered(q, w, X, n, s) /\ Past(R, q, w, X, s)
<1>1. PICK X : X = [W EXCEPT ![n] = SubSeq(@, 1, k)]
  OBVIOUS
<1>2. PICK v : v = W[n]
  OBVIOUS
<1>3. W \in [Connection -> Seq(Frame)] /\ v \in Seq(Frame) /\ Stream(v)
  BY <1>2 DEF Streams
<1>4. PICK x : x = SubSeq(v, 1, k)
  OBVIOUS
<1>5. Stream(x) /\ Len(x) = k /\ k \in Nat /\ \A i \in 1..k : i \in 1..Len(v) /\ x[i] = v[i]
  BY <1>2, <1>3, <1>4, StreamPrefix
<1>6. X \in [Connection -> Seq(Frame)] /\ X[n] = x /\ \A c \in Connection \ {n} : X[c] = W[c]
  BY <1>1, <1>2, <1>3, <1>4, <1>5 DEF Stream
<1>7. \A c \in Connection : \A i \in 1..Len(X[c]) : i \in 1..Len(W[c]) /\ X[c][i] = W[c][i]
  BY <1>2, <1>5, <1>6
<1>8. \A c \in Connection : X[c] # << >> => W[c] # << >> /\ X[c][1] = W[c][1]
  <2> SUFFICES ASSUME NEW c \in Connection, X[c] # << >> PROVE W[c] # << >> /\ X[c][1] = W[c][1]
    OBVIOUS
  <2>1. 1 \in 1..Len(X[c])
    BY <1>6, EmptySeq
  <2>2. 1 \in 1..Len(W[c]) /\ X[c][1] = W[c][1]
    BY <2>1, <1>7
  <2> QED BY <2>2
<1>9. Streams(X, P, n)
  <2>1. ASSUME NEW c \in Connection
        PROVE  /\ Stream(X[c]) /\ Unfinished(P[c])
               /\ X[c] # << >> => Continues(P[c], X[c][1])
               /\ c > n => X[c] = << >> /\ P[c] = << >>
    <3>1. CASE c = n
      <4>1. ~ (c > n)
        BY <3>1, NodeAssumption DEF Connection
      <4> QED BY <3>1, <4>1, <1>5, <1>6, <1>8 DEF Streams
    <3>2. CASE c # n
      BY <3>2, <1>6 DEF Streams
    <3> QED BY <3>1, <3>2
  <2>2. X \in [Connection -> Seq(Frame)]
    BY <1>6
  <2> QED BY <2>1, <2>2 DEF Streams
<1>10. Ordered(q, w, X, n, s)
  <2>1. ASSUME NEW c \in Connection, NEW i \in 1..Len(X[c])
        PROVE  /\ X[c][i].message <= s
               /\ \A l \in 1..Len(q) : X[c][i].message < q[l]
               /\ \A j \in 1..Len(w) : \/ X[c][i].message < w[j].message
                                       \/ c = n /\ Before(X[c][i], w[j])
    <3>1. i \in 1..Len(W[c]) /\ X[c][i] = W[c][i]
      BY <1>7
    <3> QED BY <3>1 DEF Ordered
  <2>2. ASSUME NEW c \in Connection, NEW d \in Connection, c < d,
               NEW i \in 1..Len(X[c]), NEW j \in 1..Len(X[d])
        PROVE  X[c][i].message < X[d][j].message
    <3>1. /\ i \in 1..Len(W[c]) /\ X[c][i] = W[c][i]
          /\ j \in 1..Len(W[d]) /\ X[d][j] = W[d][j]
      BY <1>7
    <3> QED BY <2>2, <3>1 DEF Ordered
  <2> QED BY <2>1, <2>2 DEF Ordered
<1>11. Past(R, q, w, X, s)
  <2>1. ASSUME NEW r \in 1..Len(R), NEW i \in 1..Len(X[R[r].connection])
        PROVE  MessageOf(R[r]) < X[R[r].connection][i].message
    <3>1. R[r].connection \in Connection
      BY ReadType DEF Past
    <3>2. /\ i \in 1..Len(W[R[r].connection])
          /\ X[R[r].connection][i] = W[R[r].connection][i]
      BY <3>1, <1>7
    <3> QED BY <3>2 DEF Past
  <2> QED BY <2>1 DEF Past
<1> QED BY <1>1, <1>9, <1>10, <1>11

\* What the other side has of a message, with the next frame, is a beginning
\* of that message, and all of it with the last frame.
LEMMA FrameContinues ==
    ASSUME NEW p, Unfinished(p), NEW f \in Frame, Continues(p, f)
    PROVE  LET read == Append(p, f)
           IN  /\ read \in Seq(Frame) /\ read # << >> /\ Len(read) = f.part + 1
               /\ read[1].message = f.message /\ read[Len(read)] = f
               /\ Wanted(read[1]) = Entries[f.message] + 1
               /\ IF f.part = Entries[f.message] THEN read = FramesOf(f.message)
                  ELSE Unfinished(read) /\ f.part < Entries[f.message]
<1>1. PICK x : x = Append(p, f)
  OBVIOUS
<1>2. /\ f = [message |-> f.message, part |-> f.part]
      /\ f.message \in Message /\ f.part \in Nat
      /\ Entries[f.message] \in Nat /\ f.part <= Entries[f.message]
  BY FrameType
<1>3. p \in Seq(Frame) /\ Len(p) \in Nat
  BY DEF Unfinished
<1>4. /\ x \in Seq(Frame) /\ x # << >> /\ Len(x) = Len(p) + 1 /\ x[Len(p) + 1] = f
      /\ \A i \in 1..Len(p) : x[i] = p[i]
  BY <1>1, <1>3, AppendProperties
<1>5. f.part = Len(p) /\ \A i \in 1..Len(p) : p[i] = [message |-> f.message, part |-> i - 1]
  <2>1. CASE p = << >>
    BY <2>1, <1>3 DEF Continues
  <2>2. CASE p # << >>
    <3>1. Len(p) \in 1..Len(p) /\ 1 \in 1..Len(p) /\ Len(p) <= Entries[p[1].message]
      BY <2>2, <1>3, EmptySeq DEF Unfinished
    <3>2. PICK m : m = p[1].message
      OBVIOUS
    <3>3. \A i \in 1..Len(p) : p[i] = [message |-> m, part |-> i - 1]
      BY <2>2, <3>2 DEF Unfinished
    <3>4. PICK l : l = p[Len(p)]
      OBVIOUS
    <3>5. l = [message |-> m, part |-> Len(p) - 1]
      BY <3>1, <3>3, <3>4
    <3>6. l.message = m /\ l.part = Len(p) - 1
      BY <3>5
    <3>7. Follows(l, f)
      BY <2>2, <3>4 DEF Continues
    <3>8. Entries[m] \in Nat
      <4>1. p[1] \in Frame
        BY <3>1, <1>3
      <4> QED BY <4>1, <3>2, FrameType
    <3>9. l.part # Entries[m]
      BY <3>1, <3>2, <3>6, <3>8, <1>3
    <3>10. f.message = m /\ f.part = Len(p)
      BY <3>6, <3>7, <3>9, <1>3 DEF Follows
    <3> QED BY <3>3, <3>10
  <2> QED BY <2>1, <2>2
<1>6. \A i \in 1..Len(x) : x[i] = [message |-> f.message, part |-> i - 1]
  <2> SUFFICES ASSUME NEW i \in 1..Len(x) PROVE x[i] = [message |-> f.message, part |-> i - 1]
    OBVIOUS
  <2>1. CASE i = Len(p) + 1
    <3>1. i - 1 = f.part
      BY <2>1, <1>3, <1>5
    <3> QED BY <2>1, <3>1, <1>2, <1>4
  <2>2. CASE i # Len(p) + 1
    <3>1. i \in 1..Len(p)
      BY <2>2, <1>3, <1>4
    <3> QED BY <3>1, <1>4, <1>5
  <2> QED BY <2>1, <2>2
<1>7. x[1].message = f.message /\ x[1].part = 0
  <2>1. x[1] = [message |-> f.message, part |-> 1 - 1]
    BY <1>3, <1>4, <1>6
  <2> QED BY <2>1
<1>8. Wanted(x[1]) = Entries[f.message] + 1
  BY <1>7 DEF Wanted
<1>9. ASSUME f.part = Entries[f.message] PROVE x = FramesOf(f.message)
  <2>1. Len(x) = Entries[f.message] + 1
    BY <1>3, <1>4, <1>5, <1>9
  <2>2. x = [i \in 1..Len(x) |-> x[i]]
    BY <1>4
  <2>3. x = [i \in 1..Len(x) |-> [message |-> f.message, part |-> i - 1]]
    BY <2>2, <1>6
  <2> QED BY <2>1, <2>3 DEF FramesOf
<1>10. ASSUME f.part # Entries[f.message] PROVE Unfinished(x) /\ f.part < Entries[f.message]
  <2>1. f.part < Entries[f.message] /\ Len(x) <= Entries[f.message]
    BY <1>2, <1>3, <1>4, <1>5, <1>10
  <2> QED BY <2>1, <1>4, <1>6, <1>7 DEF Unfinished
<1> QED BY <1>1, <1>4, <1>5, <1>7, <1>8, <1>9, <1>10

\* The wires X are the wires W without the first frame on connection c.
Behind(W, X, c) ==
    \A d \in Connection : \A i \in 1..Len(X[d]) :
        IF d = c THEN i + 1 \in 1..Len(W[d]) /\ X[d][i] = W[d][i + 1]
        ELSE i \in 1..Len(W[d]) /\ X[d][i] = W[d][i]

Without(W, c) == [W EXCEPT ![c] = Tail(@)]
With(P, c, f) ==
    [P EXCEPT ![c] = IF f.part = Entries[f.message] THEN << >> ELSE Append(@, f)]

Taken(q, w, W, P, n, s, c, f) ==
    LET X == Without(W, c)
        Y == With(P, c, f)
    IN  /\ f \in Frame /\ f = W[c][1] /\ 1 \in 1..Len(W[c])
        /\ Unfinished(P[c]) /\ Continues(P[c], f)
        /\ Streams(X, Y, n) /\ Ordered(q, w, X, n, s)
        /\ Behind(W, X, c) /\ \A i \in 1..Len(X[c]) : Before(f, X[c][i])
        /\ n \in Connection /\ Linked(W, P, n, w) => Linked(X, Y, n, w)

\* A frame that is read is followed by the rest of the wire.
LEMMA TakeKeeps ==
    ASSUME NEW q, NEW w, NEW W, NEW P, NEW n, NEW s, NEW c \in Connection, W[c] # << >>,
           DOMAIN P = Connection, Streams(W, P, n), Ordered(q, w, W, n, s)
    PROVE  Taken(q, w, W, P, n, s, c, Head(W[c]))
<1>23. PICK f : f = Head(W[c])
  OBVIOUS
<1>1. PICK v : v = W[c]
  OBVIOUS
<1>2. f = v[1]
  BY <1>1, <1>23, EmptySeq, HeadTailProperties DEF Streams
<1>3. PICK t : t = Tail(v)
  OBVIOUS
<1>4. PICK X : X = [W EXCEPT ![c] = Tail(@)]
  OBVIOUS
<1>5. PICK Y : Y = [P EXCEPT ![c] = IF f.part = Entries[f.message] THEN << >> ELSE Append(P[c], f)]
  OBVIOUS
<1>21. X = Without(W, c) /\ Y = With(P, c, f)
  BY <1>4, <1>5 DEF Without, With
<1>6. /\ v # << >> /\ Stream(v) /\ Unfinished(P[c]) /\ Continues(P[c], f)
      /\ W \in [Connection -> Seq(Frame)]
  BY <1>1, <1>2 DEF Streams
<1>7. /\ Len(v) \in Nat /\ Len(v) >= 1 /\ f \in Frame /\ Head(v) = f
      /\ Stream(t) /\ Len(t) = Len(v) - 1
      /\ \A i \in 1..Len(t) : i + 1 \in 1..Len(v) /\ t[i] = v[i + 1]
      /\ \A i \in 1..Len(t) : Before(f, t[i])
      /\ t # << >> => Follows(f, t[1])
      /\ t = << >> <=> Len(v) = 1
      /\ IsComplete(v) => IsComplete(t)
  BY <1>2, <1>3, <1>6, StreamTail
<1>8. X \in [Connection -> Seq(Frame)] /\ X[c] = t /\ \A d \in Connection \ {c} : X[d] = W[d]
  BY <1>1, <1>3, <1>4, <1>6, <1>7 DEF Stream
<1>9. /\ \A d \in Connection \ {c} : Y[d] = P[d]
      /\ Y[c] = IF f.part = Entries[f.message] THEN << >> ELSE Append(P[c], f)
  BY <1>5
<1>10. PICK x : x = Append(P[c], f)
  OBVIOUS
<1>11. /\ x \in Seq(Frame) /\ x # << >> /\ x[Len(x)] = f
       /\ f.part # Entries[f.message] => Unfinished(x)
  BY <1>6, <1>7, <1>10, FrameContinues
<1>12. Unfinished(Y[c])
  <2>1. Unfinished(<< >>)
    BY DEF Unfinished
  <2> QED BY <2>1, <1>9, <1>10, <1>11
<1>13. ASSUME NEW g, Follows(f, g) PROVE Continues(Y[c], g)
  <2>1. CASE f.part = Entries[f.message]
    BY <2>1, <1>9, <1>13 DEF Follows, Continues
  <2>2. CASE f.part # Entries[f.message]
    BY <2>2, <1>9, <1>10, <1>11, <1>13 DEF Continues
  <2> QED BY <2>1, <2>2
<1>14. Streams(X, Y, n)
  <2>1. ASSUME NEW d \in Connection
        PROVE  /\ Stream(X[d]) /\ Unfinished(Y[d])
               /\ X[d] # << >> => Continues(Y[d], X[d][1])
               /\ d > n => X[d] = << >> /\ Y[d] = << >>
    <3>1. CASE d # c
      BY <3>1, <1>8, <1>9 DEF Streams
    <3>2. CASE d = c
      <4>1. ~ (c > n)
        BY <1>1, <1>6 DEF Streams
      <4> QED BY <3>2, <4>1, <1>7, <1>8, <1>12, <1>13
    <3> QED BY <3>1, <3>2
  <2> QED BY <2>1, <1>8 DEF Streams
<1>15. \A d \in Connection : \A i \in 1..Len(X[d]) :
          IF d = c THEN i + 1 \in 1..Len(W[d]) /\ X[d][i] = W[d][i + 1]
          ELSE i \in 1..Len(W[d]) /\ X[d][i] = W[d][i]
  BY <1>1, <1>7, <1>8
<1>16. \A d \in Connection : \A i \in 1..Len(X[d]) : \E k \in 1..Len(W[d]) : X[d][i] = W[d][k]
  BY <1>15
<1>17. Ordered(q, w, X, n, s)
  <2>1. ASSUME NEW d \in Connection, NEW i \in 1..Len(X[d])
        PROVE  /\ X[d][i].message <= s
               /\ \A k \in 1..Len(q) : X[d][i].message < q[k]
               /\ \A j \in 1..Len(w) : \/ X[d][i].message < w[j].message
                                       \/ d = n /\ Before(X[d][i], w[j])
    <3>1. PICK k \in 1..Len(W[d]) : X[d][i] = W[d][k]
      BY <1>16
    <3> QED BY <3>1 DEF Ordered
  <2>2. ASSUME NEW d \in Connection, NEW e \in Connection, d < e,
               NEW i \in 1..Len(X[d]), NEW j \in 1..Len(X[e])
        PROVE  X[d][i].message < X[e][j].message
    <3>1. PICK k \in 1..Len(W[d]) : X[d][i] = W[d][k]
      BY <1>16
    <3>2. PICK l \in 1..Len(W[e]) : X[e][j] = W[e][l]
      BY <1>16
    <3> QED BY <2>2, <3>1, <3>2 DEF Ordered
  <2> QED BY <2>1, <2>2 DEF Ordered
<1>18. ASSUME n \in Connection, Linked(W, P, n, w) PROVE Linked(X, Y, n, w)
  <2>1. CASE n # c
    BY <2>1, <1>8, <1>9, <1>18 DEF Linked
  <2>2. CASE n = c /\ t # << >>
    <3>1. v # << >> /\ t[Len(t)] = v[Len(v)]
      <4>1. Len(t) \in 1..Len(t) /\ Len(t) + 1 = Len(v)
        BY <2>2, <1>7, EmptySeq DEF Stream
      <4> QED BY <4>1, <1>6, <1>7
    <3>2. CASE w = << >>
      BY <2>2, <3>1, <3>2, <1>1, <1>7, <1>8, <1>18 DEF Linked
    <3>3. CASE w # << >>
      BY <2>2, <3>1, <3>3, <1>1, <1>8, <1>18 DEF Linked, Continues
    <3> QED BY <3>2, <3>3
  <2>3. CASE n = c /\ t = << >>
    <3>1. v[Len(v)] = f
      BY <2>3, <1>2, <1>7
    <3>2. CASE w = << >>
      <4>1. f.part = Entries[f.message]
        BY <2>3, <3>1, <3>2, <1>1, <1>6, <1>18 DEF Linked, IsComplete
      <4> QED BY <2>3, <3>2, <4>1, <1>8, <1>9 DEF Linked
    <3>3. CASE w # << >>
      <4>1. Follows(f, w[1])
        BY <2>3, <3>1, <3>3, <1>1, <1>6, <1>18 DEF Linked, Continues
      <4>2. Continues(Y[c], w[1])
        BY <4>1, <1>13
      <4> QED BY <2>3, <3>3, <4>2, <1>8 DEF Linked
    <3> QED BY <3>2, <3>3
  <2> QED BY <2>1, <2>2, <2>3
<1>19. Head(W[c]) = f /\ f = W[c][1] /\ 1 \in 1..Len(W[c])
  BY <1>1, <1>2, <1>7
<1>20. \A i \in 1..Len(X[c]) : Before(f, X[c][i])
  BY <1>7, <1>8
<1>22. Behind(W, X, c)
  BY <1>15 DEF Behind
<1> QED BY <1>1, <1>6, <1>7, <1>14, <1>17, <1>18, <1>19, <1>20, <1>21, <1>22, <1>23 DEF Taken

\* Nothing that is on its way comes before the last frame of a message.
LEMMA LastPart ==
    ASSUME NEW f \in Frame, f.part = Entries[f.message], NEW g \in Frame, Before(f, g)
    PROVE  f.message < g.message
<1>1. g.message = f.message => g.part <= Entries[f.message]
  BY FrameType
<1>2. f.part \in Nat /\ g.part \in Nat
  BY FrameType
<1> QED BY <1>1, <1>2 DEF Before

Whole(c, f) == [connection |-> c, frames |-> FramesOf(f.message)]

Readable(q, w, W, X, R, n, s, c, f) ==
    /\ f \in Frame /\ f = W[c][1] /\ 1 \in 1..Len(W[c])
    /\ X \in [Connection -> Seq(Frame)]
    /\ Ordered(q, w, W, n, s) /\ Past(R, q, w, W, s)
    /\ Behind(W, X, c) /\ \A i \in 1..Len(X[c]) : Before(f, X[c][i])

LEMMA ReceiveKeeps ==
    ASSUME NEW q, NEW w, NEW W, NEW X, NEW R, NEW n, NEW s, NEW c \in Connection, NEW f,
           Readable(q, w, W, X, R, n, s, c, f)
    PROVE  /\ Past(R, q, w, X, s)
           /\ f.part = Entries[f.message] =>
                 /\ MessageOf(Whole(c, f)) = f.message
                 /\ Past(Append(R, Whole(c, f)), q, w, X, s)
<1> /\ f \in Frame /\ f = W[c][1] /\ 1 \in 1..Len(W[c])
    /\ X \in [Connection -> Seq(Frame)]
    /\ Ordered(q, w, W, n, s) /\ Past(R, q, w, W, s)
    /\ Behind(W, X, c) /\ \A i \in 1..Len(X[c]) : Before(f, X[c][i])
  BY DEF Readable
<1>1. R \in Seq([connection : Connection, frames : Seq(Frame)]) /\ Len(R) \in Nat
      /\ \A r \in 1..Len(R) : R[r].connection \in Connection
  <2>1. R \in Seq([connection : Connection, frames : Seq(Frame)])
    BY DEF Past
  <2>2. Len(R) \in Nat
    BY <2>1, LenProperties
  <2> QED BY <2>1, <2>2, ReadType
<1>2. ASSUME NEW r \in 1..Len(R), NEW i \in 1..Len(X[R[r].connection])
      PROVE  MessageOf(R[r]) < X[R[r].connection][i].message
  <2>1. PICK k \in 1..Len(W[R[r].connection]) : X[R[r].connection][i] = W[R[r].connection][k]
    BY <1>1 DEF Behind
  <2> QED BY <2>1 DEF Past
<1>3. Past(R, q, w, X, s)
  BY <1>2 DEF Past
<1>4. ASSUME f.part = Entries[f.message]
      PROVE  /\ MessageOf(Whole(c, f)) = f.message
             /\ Past(Append(R, Whole(c, f)), q, w, X, s)
  <2>1. PICK m : m = f.message
    OBVIOUS
  <2>2. m \in Message /\ m \in Nat /\ Entries[m] \in Nat
    BY <2>1, FrameType
  <2>3. PICK y : y = [connection |-> c, frames |-> FramesOf(m)]
    OBVIOUS
  <2>4. FramesOf(m) \in Seq(Frame) /\ FramesOf(m)[1].message = m
    <3>1. /\ Stream(FramesOf(m)) /\ Len(FramesOf(m)) = Entries[m] + 1
          /\ \A i \in 1..Len(FramesOf(m)) : FramesOf(m)[i] = [message |-> m, part |-> i - 1]
      BY <2>2, FramesOfStream
    <3>2. 1 \in 1..Len(FramesOf(m))
      BY <2>2, <3>1
    <3>3. FramesOf(m)[1] = [message |-> m, part |-> 1 - 1]
      BY <3>1, <3>2
    <3> QED BY <3>1, <3>3 DEF Stream
  <2>5. MessageOf(y) = m /\ y.frames = FramesOf(m) /\ y.connection = c
    BY <2>3, <2>4 DEF MessageOf
  <2>6. PICK Read : Read = [connection : Connection, frames : Seq(Frame)]
    OBVIOUS
  <2>7. y \in Read
    BY <2>3, <2>4, <2>6
  <2>8. PICK Q : Q = Append(R, y)
    OBVIOUS
  <2>9. /\ Q \in Seq(Read) /\ Len(Q) = Len(R) + 1 /\ Q[Len(R) + 1] = y
        /\ \A r \in 1..Len(R) : Q[r] = R[r]
    BY <1>1, <2>6, <2>7, <2>8, AppendProperties
  <2>10. m <= s /\ \A k \in 1..Len(q) : m < q[k]
    BY <2>1 DEF Ordered
  <2>11. \A j \in 1..Len(w) : m < w[j].message
    <3> SUFFICES ASSUME NEW j \in 1..Len(w) PROVE m < w[j].message
      OBVIOUS
    <3>1. w[j] \in Frame
      BY DEF Ordered, Stream
    <3>2. f.message < w[j].message \/ Before(f, w[j])
      BY DEF Ordered
    <3> QED BY <2>1, <3>1, <3>2, <1>4, LastPart
  <2>12. \A i \in 1..Len(X[c]) : m < X[c][i].message
    <3> SUFFICES ASSUME NEW i \in 1..Len(X[c]) PROVE m < X[c][i].message
      OBVIOUS
    <3>1. X[c][i] \in Frame
      OBVIOUS
    <3> QED BY <2>1, <3>1, <1>4, LastPart
  <2>13. ASSUME NEW r \in 1..Len(Q)
         PROVE  /\ MessageOf(Q[r]) \in Message
                /\ Q[r].frames = FramesOf(MessageOf(Q[r]))
                /\ MessageOf(Q[r]) <= s
                /\ \A k \in 1..Len(q) : MessageOf(Q[r]) < q[k]
                /\ \A j \in 1..Len(w) : MessageOf(Q[r]) < w[j].message
                /\ \A i \in 1..Len(X[Q[r].connection]) :
                      MessageOf(Q[r]) < X[Q[r].connection][i].message
    <3>1. CASE r = Len(R) + 1
      BY <3>1, <2>2, <2>5, <2>9, <2>10, <2>11, <2>12
    <3>2. CASE r # Len(R) + 1
      <4>1. r \in 1..Len(R) /\ Q[r] = R[r]
        BY <3>2, <1>1, <2>9
      <4> QED BY <4>1, <1>3 DEF Past
    <3> QED BY <3>1, <3>2
  <2>14. ASSUME NEW r \in 1..Len(Q), NEW t \in 1..Len(Q), r < t, Q[r].connection = Q[t].connection
         PROVE  MessageOf(Q[r]) < MessageOf(Q[t])
    <3>1. r \in 1..Len(R) /\ Q[r] = R[r]
      BY <2>14, <1>1, <2>9
    <3>2. CASE t = Len(R) + 1
      <4>1. R[r].connection = c
        BY <3>1, <3>2, <2>5, <2>9, <2>14
      <4>2. MessageOf(R[r]) < W[c][1].message
        BY <3>1, <4>1 DEF Past
      <4> QED BY <3>1, <3>2, <4>2, <2>1, <2>5, <2>9
    <3>3. CASE t # Len(R) + 1
      <4>1. t \in 1..Len(R) /\ Q[t] = R[t]
        BY <3>3, <1>1, <2>9
      <4> QED BY <3>1, <4>1, <2>14 DEF Past
    <3> QED BY <3>2, <3>3
  <2>15. Past(Q, q, w, X, s)
    BY <2>6, <2>9, <2>13, <2>14 DEF Past
  <2> QED BY <2>1, <2>3, <2>5, <2>8, <2>15 DEF Whole
<1> QED BY <1>3, <1>4

-----------------------------------------------------------------------------
(* Steps. *)

-----------------------------------------------------------------------------
(* The invariant holds. *)

LEMMA InitInv == Init => NodeInv
<1> SUFFICES ASSUME Init PROVE NodeInv
  OBVIOUS
<1>1. /\ MaxConnections \in Nat /\ MaxConnections >= 1 /\ Len(Entries) \in Nat
  BY NodeAssumption
<1>2. drainers = << >> /\ messages = << >> /\ received = << >> /\ sent = 0
  BY DEF Init
<1>3. Writing = << >>
  BY <1>2 DEF Writing
<1>4. DrainInv /\ (Draining => Writing # << >>)
  BY <1>2 DEF Init, DrainInv, Draining
<1>5. /\ connection \in 0..MaxConnections /\ sent \in 0..Len(Entries)
      /\ alive \in BOOLEAN /\ (alive => connection = 1)
  <2>1. (alive = FALSE /\ connection = 0) \/ (alive = TRUE /\ connection = 1)
    BY DEF Init
  <2>2. 0 \in 0..MaxConnections /\ 1 \in 0..MaxConnections /\ 0 \in 0..Len(Entries)
    BY <1>1
  <2> QED BY <2>1, <2>2, <1>2
<1>6. /\ wire = [c \in Connection |-> << >>] /\ partial = [c \in Connection |-> << >>]
  BY DEF Init
<1>7. /\ Stream(<< >>) /\ IsComplete(<< >>) /\ Unfinished(<< >>) /\ Increasing(<< >>)
      /\ Len(<< >>) = 0 /\ << >> \in Seq(1..0) /\ << >> \in Seq(Frame)
      /\ << >> \in Seq([connection : Connection, frames : Seq(Frame)])
  BY DEF Stream, IsComplete, Unfinished, Increasing
<1>8. Streams(wire, partial, connection)
  BY <1>6, <1>7 DEF Streams
<1>9. alive => Linked(wire, partial, connection, << >>)
  <2>1. alive => connection \in Connection
    BY <1>1, <1>5 DEF Connection
  <2> QED BY <2>1, <1>6 DEF Linked
<1>10. Ordered(<< >>, << >>, wire, connection, 0)
  BY <1>6, <1>7 DEF Ordered
<1>11. Past(<< >>, << >>, << >>, wire, 0)
  BY <1>7 DEF Past
<1> QED BY <1>2, <1>3, <1>4, <1>5, <1>6, <1>8, <1>9, <1>10, <1>11 DEF NodeInv

LEMMA InvTypes ==
    ASSUME NodeInv
    PROVE  /\ sent \in Nat /\ connection \in Nat /\ (alive => connection \in Connection)
           /\ wire \in [Connection -> Seq(Frame)]
           /\ Writing \in Seq(Frame)
           /\ messages \in Seq(Message)
           /\ received \in Seq([connection : Connection, frames : Seq(Frame)])
<1>1. sent \in 0..Len(Entries) /\ connection \in 0..MaxConnections /\ (alive => connection # 0)
  BY DEF NodeInv
<1>2. MaxConnections \in Nat /\ Len(Entries) \in Nat
  BY NodeAssumption
<1>3. messages \in Seq(1..sent)
  BY DEF NodeInv, Ordered
<1>4. 1..sent \subseteq Message /\ sent \in Nat
  BY <1>1, <1>2 DEF Message
<1>5. messages \in Seq(Message)
  BY <1>3, <1>4
<1>6. connection \in Nat /\ (alive => connection \in Connection)
  BY <1>1, <1>2 DEF Connection
<1> QED BY <1>4, <1>5, <1>6 DEF NodeInv, Streams, Ordered, Past, Stream

LEMMA ConnectKeeps ==
    ASSUME DrainInv, Connect, ~Draining'
    PROVE  DrainInv'
BY DEF DrainInv, Connect, Draining

\* The only coroutine that writes ends when its write fails.
LEMMA OneDrainer ==
    ASSUME DrainInv, NEW d \in DOMAIN drainers
    PROVE  /\ d = 1 /\ drainers # << >> /\ RemoveAt(drainers, d) = << >>
           /\ Draining /\ connected /\ connector = "done" /\ Writing = drainers[1]
           /\ \A b : [drainers EXCEPT ![d] = b] = <<b>>
<1>1. drainers # << >>
  OBVIOUS
<1>2. drainers = <<drainers[1]>>
  BY <1>1 DEF DrainInv, Draining
<1>3. d = 1 /\ Len(drainers) = 1
  BY <1>2
<1>4. RemoveAt(drainers, d) = SubSeq(drainers, 1, 0) \o SubSeq(drainers, 2, 1)
  BY <1>3 DEF RemoveAt
<1>5. \A x : SubSeq(<<x>>, 1, 0) = << >> /\ SubSeq(<<x>>, 2, 1) = << >>
  OBVIOUS
<1>6. RemoveAt(drainers, d) = << >> \o << >>
  BY <1>2, <1>4, <1>5
<1>7. << >> \o << >> = << >>
  OBVIOUS
<1>8. ASSUME NEW b PROVE [drainers EXCEPT ![d] = b] = <<b>>
  BY <1>2, <1>3
<1> QED BY <1>1, <1>3, <1>6, <1>7, <1>8 DEF DrainInv, Draining, Writing

\* What the drainer does next to what it holds.
LEMMA NextWriting ==
    ASSUME NEW b
    PROVE  /\ drainers' = <<b>> => Writing' = b /\ Draining'
           /\ drainers' = << >> => Writing' = << >> /\ ~Draining'
<1>1. <<b>> # << >> /\ <<b>>[1] = b
  OBVIOUS
<1> QED BY <1>1 DEF Writing, Draining

LEMMA DrainStep ==
    ASSUME DrainInv, [Next]_vars
    PROVE  DrainInv'
<1> USE DEF Draining
<1>1. CASE Drain
  <2>1. CASE ~connected /\ Connect /\ UNCHANGED <<messages, drainers>>
    BY <2>1, ConnectKeeps DEF DrainInv
  <2>2. CASE /\ connected /\ ~Draining
             /\ drainers' = Append(drainers, Batch(messages))
             /\ UNCHANGED <<connected, connector>>
    <3>1. drainers' = <<Batch(messages)>>
      BY <2>2
    <3> QED BY <2>2, <3>1 DEF DrainInv
  <2> QED BY <1>1, <2>1, <2>2 DEF Drain
<1>2. ASSUME NEW d \in DOMAIN drainers, WriteFrame(d) PROVE DrainInv'
  <2>1. /\ d = 1 /\ drainers # << >> /\ RemoveAt(drainers, d) = << >>
        /\ \A b : [drainers EXCEPT ![d] = b] = <<b>>
    BY OneDrainer
  <2>2. connected' = connected /\ connector' = connector /\ connected
    BY <1>2, <2>1 DEF WriteFrame, DrainInv
  <2>3. drainers' = << >> \/ \E b : drainers' = [drainers EXCEPT ![d] = b]
    BY <1>2, <2>1 DEF WriteFrame
  <2> QED BY <2>1, <2>2, <2>3 DEF DrainInv
<1>3. ASSUME NEW d \in DOMAIN drainers, WriteFails(d) PROVE DrainInv'
  <2>1. drainers' = << >>
    BY <1>3, OneDrainer DEF WriteFails
  <2> QED BY <1>3, <2>1, ConnectKeeps DEF WriteFails
<1>4. CASE ConnectSucceeds
  BY <1>4 DEF ConnectSucceeds, DrainInv
<1>5. CASE ConnectFails \/ TryAgain
  BY <1>5 DEF ConnectFails, TryAgain, DrainInv
<1>6. CASE \/ Send \/ Break \/ Forget \/ \E c \in Connection : ReadFrame(c)
           \/ Answer \/ StartRead \/ ReadAnswer \/ ReadFails
  <2>1. UNCHANGED <<connected, connector, drainers>>
    BY <1>6 DEF Send, Break, Forget, ReadFrame, Answer, StartRead, ReadAnswer, ReadFails, node
  <2> QED BY <2>1 DEF DrainInv
<1>7. CASE UNCHANGED vars
  BY <1>7 DEF vars, node, DrainInv
<1> QED BY <1>1, <1>2, <1>3, <1>4, <1>5, <1>6, <1>7 DEF Next, Write

\* What the invariant says of the messages is kept by a step that changes none
\* of these variables.
LEMMA OthersKeep ==
    ASSUME NodeInv, DrainInv',
           UNCHANGED <<messages, drainers, sent, connection, alive, wire, partial, received>>
    PROVE  NodeInv'
BY DEF NodeInv, Writing, Draining

\* One action each.
LEMMA SendStep ==
    ASSUME NodeInv, DrainInv', Send
    PROVE  NodeInv'
<1>1. /\ sent' = sent + 1 /\ sent < Len(Entries) /\ messages' = Append(messages, sent + 1)
      /\ UNCHANGED <<drainers, connection, alive, wire, partial, received>>
  BY DEF Send, other
<1>2. sent \in Nat /\ sent + 1 \in Message /\ sent + 1 \in 0..Len(Entries)
  BY <1>1, NodeAssumption DEF NodeInv, Message
<1>3. /\ Ordered(messages', Writing, wire, connection, sent')
      /\ Past(received, messages', Writing, wire, sent')
  BY <1>1, <1>2, InvTypes, SendKeeps DEF NodeInv
<1> QED BY <1>1, <1>2, <1>3 DEF NodeInv, Writing, Draining

LEMMA DrainOneStep ==
    ASSUME NodeInv, DrainInv', Drain
    PROVE  NodeInv'
<1>1. UNCHANGED <<sent, connection, alive, wire, partial, received>>
  BY DEF Drain, other
<1>2. CASE ~connected /\ Connect /\ UNCHANGED <<messages, drainers>>
  BY <1>1, <1>2, OthersKeep
<1>3. CASE /\ ~Draining /\ messages # << >> /\ messages' = << >>
           /\ drainers' = Append(drainers, Batch(messages))
  <2>1. drainers = << >>
    BY <1>3 DEF Draining
  <2>2. drainers' = <<Batch(messages)>>
    BY <1>3, <2>1
  <2>3. Writing = << >> /\ Writing' = Batch(messages)
    BY <2>1, <2>2, NextWriting DEF Writing
  <2>4. /\ Ordered(messages, << >>, wire, connection, sent)
        /\ Past(received, messages, << >>, wire, sent) /\ sent \in 0..Len(Entries)
        /\ alive => Linked(wire, partial, connection, << >>)
    BY <2>3 DEF NodeInv
  <2>5. /\ Ordered(<< >>, Writing', wire, connection, sent)
        /\ Past(received, << >>, Writing', wire, sent)
        /\ alive => Linked(wire, partial, connection, Writing')
    BY <2>3, <2>4, InvTypes, RefillKeeps
  <2>6. Writing' # << >>
    <3>1. messages \in Seq(Message) /\ Increasing(messages)
      BY InvTypes DEF NodeInv, Ordered
    <3> QED BY <1>3, <2>3, <3>1, BatchStream
  <2> QED BY <1>1, <1>3, <2>5, <2>6 DEF NodeInv
<1> QED BY <1>2, <1>3 DEF Drain

LEMMA WriteFailsStep ==
    ASSUME NodeInv, DrainInv', NEW d \in DOMAIN drainers, WriteFails(d)
    PROVE  NodeInv'
<1>1. UNCHANGED <<messages, sent, connection, alive, wire, partial, received>>
  BY DEF WriteFails, other
<1>2. ~alive /\ drainers' = << >>
  BY OneDrainer DEF WriteFails, NodeInv
<1>3. Writing' = << >> /\ ~Draining'
  BY <1>2, NextWriting
<1>4. /\ Ordered(messages, << >>, wire, connection, sent)
      /\ Past(received, messages, << >>, wire, sent)
  BY DropKeeps DEF NodeInv
<1> QED BY <1>1, <1>2, <1>3, <1>4 DEF NodeInv

LEMMA ConnectSucceedsStep ==
    ASSUME NodeInv, DrainInv', ConnectSucceeds
    PROVE  NodeInv'
<1>1. /\ connector = "connecting" /\ connection' = connection + 1 /\ alive' = TRUE
      /\ connection < MaxConnections
      /\ UNCHANGED <<messages, drainers, sent, wire, partial, received>>
  BY DEF ConnectSucceeds, other
<1>2. drainers = << >>
  BY <1>1 DEF NodeInv, DrainInv, Draining
<1>3. Writing = << >> /\ Writing' = << >> /\ ~Draining'
  BY <1>1, <1>2, NextWriting DEF Writing
<1>4. connection \in Nat /\ connection + 1 \in Connection /\ connection + 1 \in 0..MaxConnections
      /\ connection + 1 # 0
  BY <1>1, NodeAssumption DEF NodeInv, Connection
<1>5. /\ Streams(wire, partial, connection + 1)
      /\ Ordered(messages, << >>, wire, connection + 1, sent)
      /\ Linked(wire, partial, connection + 1, << >>)
  BY <1>3, <1>4, ConnectionKeeps DEF NodeInv
<1> QED BY <1>1, <1>3, <1>4, <1>5 DEF NodeInv

LEMMA BreakStep ==
    ASSUME NodeInv, DrainInv', Break
    PROVE  NodeInv'
<1>1. /\ alive /\ alive' = FALSE
      /\ UNCHANGED <<messages, drainers, sent, connection, partial, received>>
  BY DEF Break, node
<1>2. PICK k \in 0..Len(wire[connection]) :
         wire' = [wire EXCEPT ![connection] = SubSeq(@, 1, k)]
  BY DEF Break
<1>3. connection \in Connection
  BY <1>1, InvTypes
<1>4. /\ Streams(wire', partial, connection)
      /\ Ordered(messages, Writing, wire', connection, sent)
      /\ Past(received, messages, Writing, wire', sent)
  BY <1>2, <1>3, CutKeeps DEF NodeInv
<1> QED BY <1>1, <1>4 DEF NodeInv, Writing, Draining

LEMMA WriteFrameStep ==
    ASSUME NodeInv, DrainInv', NEW d \in DOMAIN drainers, WriteFrame(d)
    PROVE  NodeInv'
<1> DEFINE w == Writing
<1>1. /\ d = 1 /\ drainers # << >> /\ RemoveAt(drainers, d) = << >> /\ Draining
      /\ w = drainers[d] /\ \A b : [drainers EXCEPT ![d] = b] = <<b>>
  <2>1. DrainInv
    BY DEF NodeInv
  <2> QED BY <2>1, OneDrainer
<1>2. w # << >> /\ Stream(w) /\ w \in Seq(Frame)
  BY <1>1, InvTypes DEF NodeInv, Ordered
<1>3. UNCHANGED <<sent, connection, alive, partial, received>>
  BY DEF WriteFrame
<1>4. wire' = IF alive THEN [wire EXCEPT ![connection] = Append(@, Head(w))] ELSE wire
  BY <1>1 DEF WriteFrame
<1>5. /\ Ordered(messages, w, wire, connection, sent)
      /\ Past(received, messages, w, wire, sent)
      /\ Streams(wire, partial, connection) /\ sent \in 0..Len(Entries)
      /\ alive => Linked(wire, partial, connection, w) /\ connection \in Connection
  BY InvTypes DEF NodeInv
<1> HIDE DEF w
<1>6. /\ Ordered(messages, Tail(w), wire', connection, sent)
      /\ Past(received, messages, Tail(w), wire', sent)
      /\ Streams(wire', partial, connection)
      /\ alive => Linked(wire', partial, connection, Tail(w))
  <2>1. CASE alive
    BY <2>1, <1>2, <1>4, <1>5, WriteKeeps
  <2>2. CASE ~alive
    BY <2>2, <1>2, <1>4, <1>5, HeadKeeps
  <2> QED BY <2>1, <2>2
<1>7. Len(w) \in Nat /\ (Tail(w) = << >> <=> Len(w) = 1) /\ Len(w) >= 1
  BY <1>2, StreamTail
<1>8. CASE Len(w) > 1
  <2>1. drainers' = <<Tail(w)>> /\ messages' = messages
    BY <1>1, <1>8 DEF WriteFrame
  <2>2. Writing' = Tail(w) /\ Tail(w) # << >>
    BY <1>7, <1>8, <2>1, NextWriting
  <2> QED BY <1>3, <1>5, <1>6, <2>1, <2>2 DEF NodeInv
<1>9. CASE ~ (Len(w) > 1)
  <2>1. Tail(w) = << >>
    BY <1>7, <1>9
  <2>2. wire' \in [Connection -> Seq(Frame)]
    BY <1>6 DEF Streams
  <2>3. /\ Ordered(<< >>, Batch(messages), wire', connection, sent)
        /\ Past(received, << >>, Batch(messages), wire', sent)
        /\ alive => Linked(wire', partial, connection, Batch(messages))
    BY <1>5, <1>6, <2>1, <2>2, RefillKeeps
  <2>4. messages' = << >>
    BY <1>1, <1>9 DEF WriteFrame
  <2>5. Batch(messages) = << >> <=> messages = << >>
    <3>1. messages \in Seq(Message) /\ Increasing(messages)
      BY InvTypes DEF NodeInv, Ordered
    <3> QED BY <3>1, BatchStream
  <2>6. CASE messages = << >>
    <3>1. drainers' = << >>
      BY <1>1, <1>9, <2>6 DEF WriteFrame
    <3>2. Writing' = Batch(messages) /\ ~Draining'
      BY <3>1, <2>5, <2>6, NextWriting
    <3> QED BY <1>3, <1>5, <1>6, <2>3, <2>4, <3>2 DEF NodeInv
  <2>7. CASE messages # << >>
    <3>1. drainers' = <<Batch(messages)>>
      BY <1>1, <1>9, <2>7 DEF WriteFrame
    <3>2. Writing' = Batch(messages) /\ Writing' # << >>
      BY <3>1, <2>5, <2>7, NextWriting
    <3> QED BY <1>3, <1>5, <1>6, <2>3, <2>4, <3>2 DEF NodeInv
  <2> QED BY <2>6, <2>7
<1> QED BY <1>8, <1>9

\* The other side reads a frame: a message that is complete with it, or not.
LEMMA FrameRead ==
    ASSUME NodeInv, NEW c \in Connection, ReadFrame(c), NEW f, f = Head(wire[c])
    PROVE  /\ f \in Frame /\ f = wire[c][1] /\ 1 \in 1..Len(wire[c])
           /\ received' = IF f.part = Entries[f.message] THEN Append(received, Whole(c, f))
                          ELSE received
           /\ UNCHANGED <<messages, drainers, sent, connection, alive>>
           /\ DOMAIN partial' = Connection
           /\ Streams(wire', partial', connection)
           /\ Ordered(messages, Writing, wire', connection, sent)
           /\ Behind(wire, wire', c) /\ \A i \in 1..Len(wire'[c]) : Before(f, wire'[c][i])
           /\ alive => Linked(wire', partial', connection, Writing)
<1>1. PICK x : x = Append(partial[c], f)
  OBVIOUS
<1>2. /\ wire[c] # << >> /\ wire' = [wire EXCEPT ![c] = Tail(@)]
      /\ UNCHANGED <<messages, drainers, sent, connection, alive>>
      /\ Len(x) < Wanted(x[1]) => partial' = [partial EXCEPT ![c] = x] /\ received' = received
      /\ ~ (Len(x) < Wanted(x[1])) =>
            /\ partial' = [partial EXCEPT ![c] = << >>]
            /\ received' = Append(received, [connection |-> c, frames |-> x])
  BY <1>1 DEF ReadFrame, node
<1>3. /\ DOMAIN partial = Connection /\ Streams(wire, partial, connection)
      /\ Ordered(messages, Writing, wire, connection, sent)
      /\ alive => Linked(wire, partial, connection, Writing) /\ connection \in Connection
  BY InvTypes DEF NodeInv
<1> DEFINE Y == With(partial, c, f)
<1>10. wire' = Without(wire, c)
  BY <1>2 DEF Without
<1>5. /\ f \in Frame /\ f = wire[c][1] /\ 1 \in 1..Len(wire[c]) /\ Continues(partial[c], f)
      /\ Unfinished(partial[c])
      /\ Streams(wire', Y, connection) /\ Ordered(messages, Writing, wire', connection, sent)
      /\ Behind(wire, wire', c) /\ \A i \in 1..Len(wire'[c]) : Before(f, wire'[c][i])
      /\ connection \in Connection /\ Linked(wire, partial, connection, Writing)
            => Linked(wire', Y, connection, Writing)
  <2>1. wire[c] # << >>
    BY <1>2
  <2>2. Taken(messages, Writing, wire, partial, connection, sent, c, f)
    BY <2>1, <1>3, TakeKeeps
  <2> QED BY <2>2, <1>10 DEF Taken
<1>6. /\ Len(x) = f.part + 1 /\ Wanted(x[1]) = Entries[f.message] + 1
      /\ f.part = Entries[f.message] => x = FramesOf(f.message)
  BY <1>1, <1>5, FrameContinues
<1>7. f.part \in Nat /\ Entries[f.message] \in Nat /\ f.part <= Entries[f.message]
  BY <1>5, FrameType
<1>8. /\ partial' = Y
      /\ received' = IF f.part = Entries[f.message] THEN Append(received, Whole(c, f))
                     ELSE received
  <2>1. CASE f.part = Entries[f.message]
    <3>1. ~ (Len(x) < Wanted(x[1])) /\ x = FramesOf(f.message)
      BY <2>1, <1>6, <1>7
    <3> QED BY <2>1, <3>1, <1>2 DEF Whole, With
  <2>2. CASE f.part # Entries[f.message]
    <3>1. Len(x) < Wanted(x[1])
      BY <2>2, <1>6, <1>7
    <3> QED BY <2>2, <3>1, <1>1, <1>2 DEF With
  <2> QED BY <2>1, <2>2
<1>9. DOMAIN partial' = Connection
  BY <1>3, <1>8 DEF With
<1> QED BY <1>2, <1>3, <1>5, <1>8, <1>9

LEMMA ReadFrameStep ==
    ASSUME NodeInv, DrainInv', NEW c \in Connection, ReadFrame(c)
    PROVE  NodeInv'
<1>1. PICK f : f = Head(wire[c])
  OBVIOUS
<1>2. /\ f \in Frame /\ f = wire[c][1] /\ 1 \in 1..Len(wire[c])
      /\ received' = IF f.part = Entries[f.message] THEN Append(received, Whole(c, f))
                     ELSE received
      /\ UNCHANGED <<messages, drainers, sent, connection, alive>>
      /\ DOMAIN partial' = Connection
      /\ Streams(wire', partial', connection)
      /\ Ordered(messages, Writing, wire', connection, sent)
      /\ Behind(wire, wire', c) /\ \A i \in 1..Len(wire'[c]) : Before(f, wire'[c][i])
      /\ alive => Linked(wire', partial', connection, Writing)
  BY <1>1, FrameRead
<1>3. wire' \in [Connection -> Seq(Frame)]
  BY <1>2 DEF Streams
<1>4. /\ Ordered(messages, Writing, wire, connection, sent)
      /\ Past(received, messages, Writing, wire, sent)
  BY DEF NodeInv
<1>5. /\ Past(received, messages, Writing, wire', sent)
      /\ f.part = Entries[f.message] =>
            Past(Append(received, Whole(c, f)), messages, Writing, wire', sent)
  <2>1. Readable(messages, Writing, wire, wire', received, connection, sent, c, f)
    BY <1>2, <1>3, <1>4 DEF Readable
  <2> QED BY <2>1, ReceiveKeeps
<1>6. Past(received', messages, Writing, wire', sent)
  BY <1>2, <1>5
<1>7. Writing' = Writing /\ Draining' = Draining
  BY <1>2 DEF Writing, Draining
<1> QED BY <1>2, <1>6, <1>7 DEF NodeInv

LEMMA NodeStep ==
    ASSUME NodeInv, [Next]_vars
    PROVE  NodeInv'
<1>1. DrainInv'
  BY DrainStep DEF NodeInv
<1>2. CASE Send
  BY <1>1, <1>2, SendStep
<1>3. CASE Drain
  BY <1>1, <1>3, DrainOneStep
<1>4. ASSUME NEW d \in DOMAIN drainers, Write(d) PROVE NodeInv'
  BY <1>1, <1>4, WriteFrameStep, WriteFailsStep DEF Write
<1>5. CASE ConnectSucceeds
  BY <1>1, <1>5, ConnectSucceedsStep
<1>6. CASE Break
  BY <1>1, <1>6, BreakStep
<1>7. ASSUME NEW c \in Connection, ReadFrame(c) PROVE NodeInv'
  BY <1>1, <1>7, ReadFrameStep
<1>8. CASE ConnectFails \/ TryAgain \/ Forget \/ Answer \/ StartRead \/ ReadAnswer \/ ReadFails
  BY <1>1, <1>8, OthersKeep
     DEF ConnectFails, TryAgain, Forget, Answer, StartRead, ReadAnswer, ReadFails, node, other
<1>9. CASE UNCHANGED vars
  BY <1>1, <1>9, OthersKeep DEF vars, node, other
<1> QED BY <1>2, <1>3, <1>4, <1>5, <1>6, <1>7, <1>8, <1>9 DEF Next

-----------------------------------------------------------------------------
(* The channel. *)

OnTheWay(x, q, w, W) ==
    \/ \E k \in 1..Len(q) : x = q[k]
    \/ \E j \in 1..Len(w) : x = w[j].message
    \/ \E c \in Connection : \E i \in 1..Len(W[c]) : x = W[c][i].message

LEMMA HeldElements ==
    ASSUME NEW q \in Seq(Message), NEW w \in Seq(Frame), NEW W \in [Connection -> Seq(Frame)],
           NEW ds, (ds = << >> /\ w = << >>) \/ ds = <<w>>, NEW x
    PROVE  x \in ToSet(q) \cup (UNION {MessagesIn(ds[d]) : d \in DOMAIN ds})
                 \cup (UNION {MessagesIn(W[c]) : c \in Connection})
           <=> OnTheWay(x, q, w, W)
<1>1. x \in ToSet(q) <=> \E k \in 1..Len(q) : x = q[k]
  BY DEF ToSet
<1>2. ASSUME NEW s \in Seq(Frame)
      PROVE  x \in MessagesIn(s) <=> \E j \in 1..Len(s) : x = s[j].message
  <2>1. DOMAIN s = 1..Len(s)
    OBVIOUS
  <2> QED BY <2>1 DEF MessagesIn, ToSet
<1>3. x \in UNION {MessagesIn(ds[d]) : d \in DOMAIN ds} <=> x \in MessagesIn(w)
  <2>1. CASE ds = << >> /\ w = << >>
    <3>1. UNION {MessagesIn(ds[d]) : d \in DOMAIN ds} = {}
      BY <2>1
    <3>2. DOMAIN w = {}
      BY <2>1
    <3>3. x \notin MessagesIn(w)
      BY <3>2 DEF MessagesIn, ToSet
    <3> QED BY <3>1, <3>3
  <2>2. CASE ds = <<w>>
    <3>1. DOMAIN ds = {1} /\ ds[1] = w
      BY <2>2
    <3> QED BY <3>1
  <2> QED BY <2>1, <2>2
<1>4. x \in UNION {MessagesIn(W[c]) : c \in Connection}
      <=> \E c \in Connection : x \in MessagesIn(W[c])
  OBVIOUS
<1>5. \A c \in Connection : (x \in MessagesIn(W[c]) <=> \E i \in 1..Len(W[c]) : x = W[c][i].message)
  BY <1>2
<1>6. x \in MessagesIn(w) <=> \E j \in 1..Len(w) : x = w[j].message
  BY <1>2
<1>7. x \in UNION {MessagesIn(W[c]) : c \in Connection}
      <=> \E c \in Connection : \E i \in 1..Len(W[c]) : x = W[c][i].message
  BY <1>4, <1>5
<1> QED BY <1>1, <1>3, <1>6, <1>7 DEF OnTheWay

\* The messages that are held are those on the way, before a step and after it.
LEMMA HeldBeforeAndAfter ==
    ASSUME NodeInv, NodeInv', NEW x
    PROVE  /\ x \in Held <=> OnTheWay(x, messages, Writing, wire)
           /\ x \in Held' <=> OnTheWay(x, messages', Writing', wire')
<1>1. (drainers = << >> /\ Writing = << >>) \/ drainers = <<Writing>>
  BY DEF NodeInv, DrainInv, Draining, Writing
<1>2. (drainers' = << >> /\ Writing' = << >>) \/ drainers' = <<Writing'>>
  BY DEF NodeInv, DrainInv, Draining, Writing
<1>3. messages \in Seq(Message) /\ Writing \in Seq(Frame) /\ wire \in [Connection -> Seq(Frame)]
  BY InvTypes
<1>4. messages' \in Seq(Message)
  <2>1. messages' \in Seq(1..sent') /\ sent' \in 0..Len(Entries)
    BY DEF NodeInv, Ordered
  <2>2. 1..sent' \subseteq Message
    BY <2>1, NodeAssumption DEF Message
  <2> QED BY <2>1, <2>2
<1>5. Writing' \in Seq(Frame) /\ wire' \in [Connection -> Seq(Frame)]
  BY DEF NodeInv, Streams, Ordered, Stream
<1> QED BY <1>1, <1>2, <1>3, <1>4, <1>5, HeldElements DEF Held

\* A step that accepts no message and reads none to its end can only lose some.
LEMMA LosesOnly ==
    ASSUME NodeInv, NodeInv', sent' = sent, received' = received,
           \A x : OnTheWay(x, messages', Writing', wire') => OnTheWay(x, messages, Writing, wire)
    PROVE  Promise!Lose
<1>1. Held' \subseteq Held
  BY HeldBeforeAndAfter
<1>2. Delivered' = Delivered
  BY DEF Delivered
<1> QED BY <1>1, <1>2 DEF Promise!Lose

LEMMA BatchIsQueued ==
    ASSUME NodeInv, NEW W, NEW x, OnTheWay(x, << >>, Batch(messages), W)
    PROVE  OnTheWay(x, messages, << >>, W)
<1>1. messages \in Seq(Message) /\ Increasing(messages)
  BY InvTypes DEF NodeInv, Ordered
<1>2. \A i \in 1..Len(Batch(messages)) :
         \E k \in 1..Len(messages) : Batch(messages)[i].message = messages[k]
  BY <1>1, BatchStream
<1>3. Len(<< >>) = 0
  OBVIOUS
<1> QED BY <1>2, <1>3 DEF OnTheWay

\* A message that is read to its end is nowhere on the way any more.
AtItsEnd(q, w, W, X, n, s, c, f) ==
    /\ w \in Seq(Frame) /\ W \in [Connection -> Seq(Frame)] /\ q \in Seq(Message)
    /\ X = Without(W, c) /\ X \in [Connection -> Seq(Frame)]
    /\ f \in Frame /\ f = W[c][1] /\ 1 \in 1..Len(W[c]) /\ f.part = Entries[f.message]
    /\ Ordered(q, w, W, n, s)
    /\ \A i \in 1..Len(X[c]) : Before(f, X[c][i])

LEMMA ReadToItsEnd ==
    ASSUME NEW q, NEW w, NEW W, NEW X, NEW n, NEW s, NEW c \in Connection, NEW f,
           AtItsEnd(q, w, W, X, n, s, c, f), NEW x
    PROVE  OnTheWay(x, q, w, X) <=> OnTheWay(x, q, w, W) /\ x # f.message
<1> USE DEF AtItsEnd
<1>1. f.message \in Nat
  BY FrameType
<1>2. \A k \in 1..Len(q) : q[k] # f.message
  <2>1. \A k \in 1..Len(q) : f.message < q[k] /\ q[k] \in Nat
    <3>1. \A k \in 1..Len(q) : q[k] \in Message
      OBVIOUS
    <3>2. Message \subseteq Nat
      BY DEF Message
    <3> QED BY <3>1, <3>2 DEF Ordered
  <2> QED BY <1>1, <2>1
<1>3. \A j \in 1..Len(w) : w[j].message # f.message
  <2> SUFFICES ASSUME NEW j \in 1..Len(w) PROVE w[j].message # f.message
    OBVIOUS
  <2>1. w[j] \in Frame /\ w[j].message \in Nat
    BY FrameType
  <2>2. f.message < w[j].message \/ Before(f, w[j])
    BY DEF Ordered
  <2>3. f.message < w[j].message
    BY <2>1, <2>2, LastPart
  <2> QED BY <1>1, <2>1, <2>3
<1>4. \A i \in 1..Len(X[c]) : X[c][i].message # f.message
  <2> SUFFICES ASSUME NEW i \in 1..Len(X[c]) PROVE X[c][i].message # f.message
    OBVIOUS
  <2>1. X[c][i] \in Frame /\ X[c][i].message \in Nat
    BY FrameType
  <2>2. f.message < X[c][i].message
    BY <2>1, LastPart
  <2> QED BY <1>1, <2>1, <2>2
<1>5. \A d \in Connection : d # c => \A i \in 1..Len(W[d]) : W[d][i].message # f.message
  <2> SUFFICES ASSUME NEW d \in Connection, d # c, NEW i \in 1..Len(W[d])
               PROVE  W[d][i].message # f.message
    OBVIOUS
  <2>1. W[d][i] \in Frame /\ W[d][i].message \in Nat
    BY FrameType
  <2>2. c < d => f.message < W[d][i].message
    BY DEF Ordered
  <2>3. d < c => W[d][i].message < f.message
    BY DEF Ordered
  <2>4. c < d \/ d < c
    BY NodeAssumption DEF Connection
  <2> QED BY <1>1, <2>1, <2>2, <2>3, <2>4
<1>6. \A d \in Connection : d # c => X[d] = W[d]
  BY DEF Without
<1>7. PICK v : v = W[c]
  OBVIOUS
<1>8. v \in Seq(Frame) /\ 1 \in 1..Len(v) /\ X[c] = Tail(v) /\ Len(v) \in Nat
  BY <1>7 DEF Without
<1>9. Len(Tail(v)) = Len(v) - 1 /\ \A i \in 1..Len(Tail(v)) : Tail(v)[i] = v[i + 1]
  <2>1. v # << >>
    BY <1>8
  <2> QED BY <1>8, <2>1, HeadTailProperties
<1>10. (\E i \in 1..Len(X[c]) : x = X[c][i].message)
       <=> (\E i \in 1..Len(W[c]) : x = W[c][i].message) /\ x # f.message
  <2>1. ASSUME NEW i \in 1..Len(X[c]), x = X[c][i].message
        PROVE  (\E k \in 1..Len(W[c]) : x = W[c][k].message) /\ x # f.message
    <3>1. i \in 1..Len(Tail(v)) /\ X[c][i] = Tail(v)[i]
      BY <1>8
    <3>2. i + 1 \in 1..Len(v) /\ Tail(v)[i] = v[i + 1]
      BY <3>1, <1>8, <1>9
    <3> QED BY <2>1, <3>1, <3>2, <1>4, <1>7
  <2>2. ASSUME NEW i \in 1..Len(W[c]), x = W[c][i].message, x # f.message
        PROVE  \E k \in 1..Len(X[c]) : x = X[c][k].message
    <3>1. i # 1
      BY <2>2
    <3>2. i - 1 \in 1..Len(Tail(v)) /\ Tail(v)[i - 1] = v[i - 1 + 1] /\ i - 1 + 1 = i
      BY <3>1, <1>7, <1>8, <1>9
    <3> QED BY <2>2, <3>2, <1>7, <1>8
  <2> QED BY <2>1, <2>2
<1>11. ASSUME NEW d \in Connection
       PROVE  (\E i \in 1..Len(X[d]) : x = X[d][i].message)
              <=> (\E i \in 1..Len(W[d]) : x = W[d][i].message) /\ x # f.message
  <2>1. CASE d = c
    BY <2>1, <1>10
  <2>2. CASE d # c
    BY <2>2, <1>5, <1>6
  <2> QED BY <2>1, <2>2
<1> QED BY <1>2, <1>3, <1>11 DEF OnTheWay

LEMMA ChannelStep ==
    ASSUME NodeInv, NodeInv', [Next]_vars
    PROVE  Promise!Next \/ UNCHANGED Promise!vars
<1>1. CASE Send
  <2>1. /\ sent' = sent + 1 /\ messages' = Append(messages, sent')
        /\ UNCHANGED <<drainers, wire, received>>
    BY <1>1 DEF Send, other
  <2>2. messages \in Seq(Message) /\ Writing' = Writing
    BY <2>1, InvTypes DEF Writing
  <2>3. PICK q : q = messages'
    OBVIOUS
  <2>4. Len(messages) \in Nat /\ Len(q) = Len(messages) + 1 /\ q[Len(messages) + 1] = sent'
        /\ \A k \in 1..Len(messages) : q[k] = messages[k]
    BY <2>1, <2>2, <2>3
  <2>5. ASSUME NEW x
        PROVE  (\E k \in 1..Len(q) : x = q[k]) <=> x = sent' \/ \E k \in 1..Len(messages) : x = messages[k]
    <3>1. \A k \in 1..Len(q) : k \in 1..Len(messages) \/ k = Len(messages) + 1
      BY <2>4
    <3>2. Len(messages) + 1 \in 1..Len(q) /\ \A k \in 1..Len(messages) : k \in 1..Len(q)
      BY <2>4
    <3> QED BY <2>4, <3>1, <3>2
  <2>6. ASSUME NEW x PROVE x \in Held' <=> x \in Held \cup {sent'}
    <3>1. OnTheWay(x, q, Writing, wire) <=> x = sent' \/ OnTheWay(x, messages, Writing, wire)
      BY <2>5 DEF OnTheWay
    <3> QED BY <2>1, <2>2, <2>3, <3>1, HeldBeforeAndAfter
  <2>7. Held' = Held \cup {sent'} /\ Delivered' = Delivered
    BY <2>1, <2>6 DEF Delivered
  <2> QED BY <2>1, <2>7 DEF Promise!Next, Promise!Accept
<1>2. CASE Drain
  <2>1. UNCHANGED <<sent, wire, received>>
    BY <1>2 DEF Drain, other
  <2>2. CASE UNCHANGED <<messages, drainers>>
    BY <2>1, <2>2, LosesOnly DEF Writing, Promise!Next
  <2>3. CASE /\ ~Draining /\ messages' = << >>
             /\ drainers' = Append(drainers, Batch(messages))
    <3>1. drainers' = <<Batch(messages)>> /\ Writing = << >>
      BY <2>3 DEF Draining, Writing
    <3>2. Writing' = Batch(messages)
      BY <3>1, NextWriting
    <3> QED BY <2>1, <2>3, <3>1, <3>2, BatchIsQueued, LosesOnly DEF Promise!Next
  <2> QED BY <1>2, <2>2, <2>3 DEF Drain
<1>3. ASSUME NEW d \in DOMAIN drainers, WriteFrame(d) PROVE Promise!Lose
  <2>1. /\ d = 1 /\ drainers # << >> /\ RemoveAt(drainers, d) = << >> /\ Draining
        /\ Writing = drainers[d] /\ \A b : [drainers EXCEPT ![d] = b] = <<b>>
    <3>1. DrainInv
      BY DEF NodeInv
    <3> QED BY <3>1, OneDrainer
  <2>2. PICK w : w = Writing
    OBVIOUS
  <2>3. w # << >> /\ Stream(w) /\ w \in Seq(Frame)
    BY <2>1, <2>2, InvTypes DEF NodeInv, Ordered
  <2>4. PICK f : f = w[1]
    OBVIOUS
  <2>5. /\ Len(w) \in Nat /\ Len(w) >= 1 /\ f \in Frame /\ Head(w) = f
        /\ \A i \in 1..Len(Tail(w)) : i + 1 \in 1..Len(w) /\ Tail(w)[i] = w[i + 1]
        /\ Tail(w) = << >> <=> Len(w) = 1
    BY <2>3, <2>4, StreamTail
  <2>6. /\ UNCHANGED <<sent, received>>
        /\ wire' = IF alive THEN [wire EXCEPT ![connection] = Append(@, f)] ELSE wire
    BY <1>3, <2>1, <2>2, <2>5 DEF WriteFrame
  <2>7. \A x : (\E c \in Connection : \E i \in 1..Len(wire'[c]) : x = wire'[c][i].message)
               => x = f.message \/ \E c \in Connection : \E i \in 1..Len(wire[c]) : x = wire[c][i].message
    <3>1. CASE ~alive
      BY <3>1, <2>6
    <3>2. CASE alive
      <4>1. connection \in Connection /\ wire \in [Connection -> Seq(Frame)]
        BY <3>2, InvTypes
      <4>2. PICK v : v = wire[connection]
        OBVIOUS
      <4>3. v \in Seq(Frame) /\ wire' = [wire EXCEPT ![connection] = Append(v, f)]
        BY <3>2, <4>1, <4>2, <2>6
      <4>4. /\ Len(Append(v, f)) = Len(v) + 1 /\ Len(v) \in Nat /\ Append(v, f)[Len(v) + 1] = f
            /\ \A i \in 1..Len(v) : Append(v, f)[i] = v[i]
        BY <4>3, <2>5, AppendProperties
      <4>5. \A i \in 1..Len(Append(v, f)) : (i \in 1..Len(v) /\ Append(v, f)[i] = v[i])
                                            \/ Append(v, f)[i] = f
        BY <4>4
      <4>6. /\ wire'[connection] = Append(v, f)
            /\ \A c \in Connection : c # connection => wire'[c] = wire[c]
        BY <4>1, <4>3
      <4>7. ASSUME NEW c \in Connection, NEW i \in 1..Len(wire'[c])
            PROVE  wire'[c][i] = f \/ (i \in 1..Len(wire[c]) /\ wire'[c][i] = wire[c][i])
        <5>1. CASE c = connection
          BY <5>1, <4>2, <4>5, <4>6
        <5>2. CASE c # connection
          BY <5>2, <4>6
        <5> QED BY <5>1, <5>2
      <4> QED BY <4>7
    <3> QED BY <3>1, <3>2
  <2>8. f.message = w[1].message /\ 1 \in 1..Len(w)
    BY <2>4, <2>5
  <2>9. ASSUME NEW x, OnTheWay(x, messages, Tail(w), wire')
        PROVE  OnTheWay(x, messages, w, wire)
    <3>1. (\E j \in 1..Len(Tail(w)) : x = Tail(w)[j].message) => \E j \in 1..Len(w) : x = w[j].message
      BY <2>5
    <3>2. x = f.message => \E j \in 1..Len(w) : x = w[j].message
      BY <2>8
    <3> QED BY <2>7, <2>9, <3>1, <3>2 DEF OnTheWay
  <2>10. CASE Len(w) > 1
    <3>1. drainers' = <<Tail(w)>> /\ messages' = messages
      BY <1>3, <2>1, <2>2, <2>10 DEF WriteFrame
    <3>2. Writing' = Tail(w)
      BY <3>1, NextWriting
    <3> QED BY <2>2, <2>6, <2>9, <3>1, <3>2, LosesOnly
  <2>11. CASE ~ (Len(w) > 1)
    <3>1. Tail(w) = << >> /\ messages' = << >>
      BY <1>3, <2>1, <2>2, <2>5, <2>11 DEF WriteFrame
    <3>2. Writing' = Batch(messages)
      <4>1. messages = << >> => Batch(messages) = << >>
        <5>1. messages \in Seq(Message) /\ Increasing(messages)
          BY InvTypes DEF NodeInv, Ordered
        <5> QED BY <5>1, BatchStream
      <4>2. drainers' = IF messages = << >> THEN << >> ELSE <<Batch(messages)>>
        BY <1>3, <2>1, <2>2, <2>11 DEF WriteFrame
      <4> QED BY <4>1, <4>2, NextWriting
    <3>3. ASSUME NEW x, OnTheWay(x, messages', Writing', wire')
          PROVE  OnTheWay(x, messages, w, wire)
      <4>1. OnTheWay(x, messages, << >>, wire')
        BY <3>1, <3>2, <3>3, BatchIsQueued
      <4> QED BY <4>1, <3>1, <2>9
    <3> QED BY <2>2, <2>6, <3>3, LosesOnly
  <2> QED BY <2>10, <2>11
<1>4. ASSUME NEW d \in DOMAIN drainers, WriteFails(d) PROVE Promise!Lose
  <2>1. UNCHANGED <<messages, sent, wire, received>>
    BY <1>4 DEF WriteFails, other
  <2>2. drainers' = << >>
    BY <1>4, OneDrainer DEF WriteFails, NodeInv
  <2>3. Writing' = << >>
    BY <2>2, NextWriting
  <2>4. \A x, q, w, W : OnTheWay(x, q, << >>, W) => OnTheWay(x, q, w, W)
    BY DEF OnTheWay
  <2> QED BY <2>1, <2>3, <2>4, LosesOnly
<1>5. CASE Break
  <2>1. alive /\ UNCHANGED <<messages, drainers, sent, received>>
    BY <1>5 DEF Break, node
  <2>2. PICK k \in 0..Len(wire[connection]) :
           wire' = [wire EXCEPT ![connection] = SubSeq(@, 1, k)]
    BY <1>5 DEF Break
  <2>3. connection \in Connection /\ wire \in [Connection -> Seq(Frame)]
        /\ Stream(wire[connection])
    BY <2>1, InvTypes DEF NodeInv, Streams
  <2>4. PICK v : v = SubSeq(wire[connection], 1, k)
    OBVIOUS
  <2>5. Len(v) = k /\ \A i \in 1..k : i \in 1..Len(wire[connection]) /\ v[i] = wire[connection][i]
    BY <2>3, <2>4, StreamPrefix
  <2>6. wire'[connection] = v /\ \A c \in Connection : c # connection => wire'[c] = wire[c]
    BY <2>2, <2>3, <2>4
  <2>7. \A c \in Connection : \A i \in 1..Len(wire'[c]) :
           i \in 1..Len(wire[c]) /\ wire'[c][i] = wire[c][i]
    BY <2>5, <2>6
  <2>8. Writing' = Writing
    BY <2>1 DEF Writing
  <2>9. \A x : OnTheWay(x, messages', Writing', wire') => OnTheWay(x, messages, Writing, wire)
    BY <2>1, <2>7, <2>8 DEF OnTheWay
  <2> QED BY <2>1, <2>9, LosesOnly DEF Promise!Next
<1>6. ASSUME NEW c \in Connection, ReadFrame(c) PROVE Promise!Next
  <2>1. PICK f : f = Head(wire[c])
    OBVIOUS
  <2>2. /\ f \in Frame /\ f = wire[c][1] /\ 1 \in 1..Len(wire[c])
        /\ received' = IF f.part = Entries[f.message] THEN Append(received, Whole(c, f))
                       ELSE received
        /\ UNCHANGED <<messages, drainers, sent, connection, alive>>
        /\ Behind(wire, wire', c) /\ \A i \in 1..Len(wire'[c]) : Before(f, wire'[c][i])
    BY <1>6, <2>1, FrameRead
  <2>3. Writing' = Writing
    BY <2>2 DEF Writing
  <2>4. ASSUME NEW x, OnTheWay(x, messages', Writing', wire')
        PROVE  OnTheWay(x, messages, Writing, wire)
    <3>1. ASSUME NEW d \in Connection, NEW i \in 1..Len(wire'[d])
          PROVE  \E k \in 1..Len(wire[d]) : wire'[d][i] = wire[d][k]
      BY <2>2 DEF Behind
    <3>2. (\E d \in Connection : \E i \in 1..Len(wire'[d]) : x = wire'[d][i].message)
          => \E d \in Connection : \E k \in 1..Len(wire[d]) : x = wire[d][k].message
      BY <3>1
    <3> QED BY <2>2, <2>3, <2>4, <3>2 DEF OnTheWay
  <2>5. CASE f.part # Entries[f.message]
    BY <2>2, <2>4, <2>5, LosesOnly DEF Promise!Next
  <2>6. CASE f.part = Entries[f.message]
    <3>1. PICK m : m = f.message
      OBVIOUS
    <3>2. wire' = [wire EXCEPT ![c] = Tail(@)] /\ received' = Append(received, Whole(c, f))
      BY <1>6, <2>2, <2>6 DEF ReadFrame
    <3>3. /\ Ordered(messages, Writing, wire, connection, sent)
          /\ wire' \in [Connection -> Seq(Frame)] /\ wire \in [Connection -> Seq(Frame)]
          /\ Writing \in Seq(Frame) /\ messages \in Seq(Message)
          /\ received \in Seq([connection : Connection, frames : Seq(Frame)])
      BY <2>2, InvTypes DEF NodeInv, Streams
    <3>4. ASSUME NEW x
          PROVE  OnTheWay(x, messages, Writing, wire')
                 <=> OnTheWay(x, messages, Writing, wire) /\ x # m
      <4>1. PICK X : X = wire'
        OBVIOUS
      <4>2. /\ X = Without(wire, c) /\ X \in [Connection -> Seq(Frame)]
            /\ \A i \in 1..Len(X[c]) : Before(f, X[c][i])
        BY <2>2, <3>2, <3>3, <4>1 DEF Without
      <4>3. OnTheWay(x, messages, Writing, X)
            <=> OnTheWay(x, messages, Writing, wire) /\ x # f.message
        <5>1. f \in Frame /\ f = wire[c][1] /\ 1 \in 1..Len(wire[c]) /\ f.part = Entries[f.message]
          BY <2>2, <2>6
        <5>2. AtItsEnd(messages, Writing, wire, X, connection, sent, c, f)
          BY <5>1, <3>3, <4>2 DEF AtItsEnd
        <5> QED BY <5>2, ReadToItsEnd
      <4> QED BY <3>1, <4>1, <4>3
    <3>5. \A x : x \in Held' <=> x \in Held /\ x # m
      BY <2>2, <2>3, <3>4, HeldBeforeAndAfter
    <3>6. OnTheWay(m, messages, Writing, wire)
      BY <2>2, <3>1 DEF OnTheWay
    <3>7. m \in Held /\ Held' = Held \ {m}
      BY <3>5, <3>6, HeldBeforeAndAfter
    <3>8. Whole(c, f).frames[1].message = m
      <4>1. FramesOf(m)[1] = [message |-> m, part |-> 0]
        BY <2>2, <3>1, FrameType DEF FramesOf
      <4> QED BY <3>1, <4>1 DEF Whole
    <3>9. Delivered' = Append(Delivered, m)
      <4>1. PICK R : R = received'
        OBVIOUS
      <4>2. PICK x : x = Whole(c, f)
        OBVIOUS
      <4>3. /\ Len(R) = Len(received) + 1 /\ Len(received) \in Nat
            /\ R[Len(received) + 1] = x /\ \A i \in 1..Len(received) : R[i] = received[i]
        BY <3>2, <3>3, <4>1, <4>2
      <4>4. Delivered' = [i \in 1..Len(received) + 1 |-> R[i].frames[1].message]
        BY <4>1, <4>3 DEF Delivered
      <4>5. PICK D : D = Delivered
        OBVIOUS
      <4>6. D = [i \in 1..Len(received) |-> received[i].frames[1].message]
        BY <4>5 DEF Delivered
      <4>7. Len(D) = Len(received)
        BY <4>3, <4>6
      <4>8. Append(D, m) = [i \in 1..Len(D) + 1 |-> IF i = Len(D) + 1 THEN m ELSE D[i]]
        BY <4>3, <4>6, <4>7
      <4>9. \A i \in 1..Len(received) + 1 :
               R[i].frames[1].message = IF i = Len(received) + 1 THEN m ELSE D[i]
        BY <3>8, <4>2, <4>3, <4>6
      <4> QED BY <4>4, <4>5, <4>7, <4>8, <4>9
    <3> QED BY <2>2, <3>7, <3>9 DEF Promise!Next, Promise!Deliver
  <2> QED BY <2>5, <2>6
<1>7. CASE ConnectSucceeds \/ ConnectFails \/ TryAgain \/ Forget \/ Answer \/ StartRead \/ ReadAnswer
           \/ ReadFails \/ UNCHANGED vars
  <2>1. UNCHANGED <<messages, drainers, sent, wire, received>>
    BY <1>7 DEF ConnectSucceeds, ConnectFails, TryAgain, Forget, Answer, StartRead, ReadAnswer,
                ReadFails, node, other, vars
  <2> QED BY <2>1, LosesOnly DEF Writing, Promise!Next
<1> QED BY <1>1, <1>2, <1>3, <1>4, <1>5, <1>6, <1>7 DEF Next, Write, Promise!Next

-----------------------------------------------------------------------------
(* The rest of the types. *)

AnswersInv ==
    /\ address \in BOOLEAN /\ inNodes \in BOOLEAN /\ connected \in BOOLEAN /\ alive \in BOOLEAN
    /\ connector \in {"done", "connecting", "sleeping"}
    /\ connection \in 0..MaxConnections /\ reading \in 0..connection
    /\ answers \in 0..answered /\ answered \in 0..MaxAnswers

LEMMA ConnectTypes ==
    ASSUME AnswersInv, Connect
    PROVE  connected' \in BOOLEAN /\ connector' \in {"done", "connecting", "sleeping"}
<1>1. CASE address /\ connector = "done"
  BY <1>1 DEF Connect
<1>2. CASE ~ (address /\ connector = "done")
  BY <1>2 DEF Connect, AnswersInv
<1> QED BY <1>1, <1>2

LEMMA AnswersStep ==
    ASSUME AnswersInv, [Next]_vars
    PROVE  AnswersInv'
<1>1. CASE Send \/ (\E c \in Connection : ReadFrame(c)) \/ UNCHANGED vars
  <2>1. UNCHANGED <<address, inNodes, connected, alive, connector, connection, reading, answers,
                    answered>>
    BY <1>1 DEF Send, ReadFrame, vars, node, back
  <2> QED BY <2>1 DEF AnswersInv
<1>2. CASE Drain \/ \E d \in DOMAIN drainers : Write(d)
  <2>1. UNCHANGED <<address, inNodes, alive, connection, reading, answers, answered>>
    BY <1>2 DEF Drain, Write, WriteFrame, WriteFails, back
  <2>2. Connect \/ UNCHANGED <<connected, connector>>
    BY <1>2 DEF Drain, Write, WriteFrame, WriteFails
  <2>3. connected' \in BOOLEAN /\ connector' \in {"done", "connecting", "sleeping"}
    BY <2>2, ConnectTypes DEF AnswersInv
  <2> QED BY <2>1, <2>3 DEF AnswersInv
<1>3. CASE ConnectSucceeds
  <2>1. UNCHANGED <<address, inNodes, reading, answers, answered>>
    BY <1>3 DEF ConnectSucceeds, back
  <2>2. connector' = "done" /\ connected' \in BOOLEAN /\ alive' \in BOOLEAN
    BY <1>3 DEF ConnectSucceeds
  <2>3. connection' \in 0..MaxConnections /\ reading \in 0..connection'
    <3>1. connection < MaxConnections /\ connection' = connection + 1
      BY <1>3 DEF ConnectSucceeds
    <3> QED BY <3>1, NodeAssumption DEF AnswersInv
  <2> QED BY <2>1, <2>2, <2>3 DEF AnswersInv
<1>4. CASE ConnectFails \/ TryAgain
  <2>1. UNCHANGED <<address, inNodes, connected, alive, connection, reading, answers, answered>>
    BY <1>4 DEF ConnectFails, TryAgain, back
  <2>2. connector' \in {"done", "connecting", "sleeping"}
    BY <1>4 DEF ConnectFails, TryAgain
  <2> QED BY <2>1, <2>2 DEF AnswersInv
<1>5. CASE Break
  <2>1. UNCHANGED <<address, inNodes, connected, connector, connection, reading, answered>>
    BY <1>5 DEF Break, node
  <2>2. alive' \in BOOLEAN
    BY <1>5 DEF Break
  <2>3. answers' \in 0..answered
    BY <1>5, NodeAssumption DEF Break, AnswersInv
  <2> QED BY <2>1, <2>2, <2>3 DEF AnswersInv
<1>6. CASE Forget
  <2>1. UNCHANGED <<address, connected, connector, alive, connection, reading, answers, answered>>
    BY <1>6 DEF Forget, back
  <2>2. inNodes' \in BOOLEAN
    BY <1>6 DEF Forget
  <2> QED BY <2>1, <2>2 DEF AnswersInv
<1>7. CASE Answer \/ StartRead \/ ReadAnswer \/ ReadFails
  <2>1. UNCHANGED <<address, inNodes, connected, connector, alive, connection>>
    BY <1>7 DEF Answer, StartRead, ReadAnswer, ReadFails, node
  <2>2. reading' \in {reading, connection, 0}
    BY <1>7 DEF Answer, StartRead, ReadAnswer, ReadFails
  <2>3. reading' \in 0..connection
    BY <2>2, NodeAssumption DEF AnswersInv
  <2>4. answers' \in 0..answered' /\ answered' \in 0..MaxAnswers
    <3>1. CASE Answer
      BY <3>1, NodeAssumption DEF Answer, AnswersInv
    <3>2. CASE ReadAnswer
      BY <3>2, NodeAssumption DEF ReadAnswer, AnswersInv
    <3>3. CASE StartRead \/ ReadFails
      BY <3>3 DEF StartRead, ReadFails, AnswersInv
    <3> QED BY <1>7, <3>1, <3>2, <3>3
  <2> QED BY <2>1, <2>3, <2>4 DEF AnswersInv
<1> QED BY <1>1, <1>2, <1>3, <1>4, <1>5, <1>6, <1>7 DEF Next

LEMMA AnswersInit == Init => AnswersInv
<1> SUFFICES ASSUME Init PROVE AnswersInv
  OBVIOUS
<1>1. address \in BOOLEAN /\ inNodes \in BOOLEAN /\ connector = "done"
  BY DEF Init
<1>2. connected \in BOOLEAN /\ alive \in BOOLEAN
  BY DEF Init
<1>3. connection \in 0..MaxConnections
  BY NodeAssumption DEF Init
<1>4. reading = 0 /\ answers = 0 /\ answered = 0
  BY DEF Init
<1> QED BY <1>1, <1>2, <1>3, <1>4, NodeAssumption DEF AnswersInv

-----------------------------------------------------------------------------
(* The theorems. *)

\* What the invariant says of a state.
LEMMA TypesFollow == NodeInv /\ AnswersInv => TypeOK
<1> SUFFICES ASSUME NodeInv, AnswersInv PROVE TypeOK
  OBVIOUS
<1>1. messages \in Seq(Message) /\ Writing \in Seq(Frame)
  BY InvTypes
<1>2. ASSUME NEW d \in DOMAIN drainers
      PROVE  drainers[d] # << >> /\ ToSet(drainers[d]) \subseteq Frame
  <2>1. d = 1 /\ Draining /\ Writing = drainers[1]
    BY OneDrainer DEF NodeInv
  <2>2. PICK w : w = Writing
    OBVIOUS
  <2>3. w # << >> /\ w \in Seq(Frame) /\ drainers[d] = w
    BY <2>1, <2>2, <1>1 DEF NodeInv
  <2>4. ToSet(w) \subseteq Frame
    BY <2>3 DEF ToSet
  <2> QED BY <2>3, <2>4
<1>3. \A b \in {address, inNodes, connected, alive} : b \in BOOLEAN
  BY DEF AnswersInv
<1> QED BY <1>1, <1>2, <1>3 DEF NodeInv, AnswersInv, TypeOK

\* In every behaviour a DoDrain that runs has something to write, only of
\* messages that exist, and OutboundServe reads no connection before it is made.
THEOREM TypeCorrect == Spec => []TypeOK
<1>1. Init => NodeInv /\ AnswersInv
  BY InitInv, AnswersInit
<1>2. NodeInv /\ AnswersInv /\ [Next]_vars => NodeInv' /\ AnswersInv'
  BY NodeStep, AnswersStep
<1> QED BY <1>1, <1>2, TypesFollow, PTL DEF Spec

LEMMA Invariant == Spec => []NodeInv
<1>1. NodeInv /\ [Next]_vars => NodeInv'
  BY NodeStep
<1> QED BY <1>1, InitInv, PTL DEF Spec

\* In every behaviour, for any messages and any number of connections, DoDrain
\* writes only while no DoConnect replaces its socket.
THEOREM NoSocketReplaced == Spec => []DrainsOnlyConnected
<1>1. NodeInv => DrainsOnlyConnected
  BY DEF NodeInv, DrainInv, DrainsOnlyConnected
<1> QED BY <1>1, Invariant, PTL

\* In every behaviour the entries that TMessageReader reads with a message are
\* its own, all of them and in order, whatever breaks meanwhile.
THEOREM WholeMessages == Spec => []ReadsWhatWasWritten
<1>1. ASSUME NodeInv PROVE ReadsWhatWasWritten
  <2>1. \A i \in 1..Len(received) : received[i].frames = FramesOf(MessageOf(received[i]))
    BY <1>1 DEF NodeInv, Past
  <2> QED BY <2>1 DEF ReadsWhatWasWritten, Delivered, MessageOf
<1> QED BY <1>1, Invariant, PTL

\* In every behaviour a connection delivers in the order of TNode::Send.
THEOREM InOrder == Spec => []InOrderPerConnection
<1>1. ASSUME NodeInv PROVE InOrderPerConnection
  <2>1. \A i, j \in 1..Len(received) :
           i < j /\ received[i].connection = received[j].connection
           => MessageOf(received[i]) < MessageOf(received[j])
    BY <1>1 DEF NodeInv, Past
  <2> QED BY <2>1 DEF InOrderPerConnection, Delivered, MessageOf
<1> QED BY <1>1, Invariant, PTL

\* Every step of TNode is a step of the channel, or none it can see.
THEOREM KeepsPromise == Spec => ImplementsChannel
<1>1. Init => Promise!Init
  <2> SUFFICES ASSUME Init PROVE Promise!Init
    OBVIOUS
  <2>1. sent = 0 /\ messages = << >> /\ drainers = << >> /\ received = << >>
        /\ wire = [c \in Connection |-> << >>]
    BY DEF Init
  <2>2. MessagesIn(<< >>) = {} /\ ToSet(<< >>) = {}
    BY DEF MessagesIn, ToSet
  <2>3. Held = {}
    BY <2>1, <2>2 DEF Held
  <2>4. Delivered = << >>
    BY <2>1 DEF Delivered
  <2> QED BY <2>1, <2>3, <2>4 DEF Promise!Init
<1>2. NodeInv /\ NodeInv' /\ [Next]_vars => [Promise!Next]_(Promise!vars)
  BY ChannelStep
<1> QED BY <1>1, <1>2, Invariant, PTL DEF Spec, ImplementsChannel, Promise!Spec

\* The invariant of the channel.
ChannelInv ==
    /\ sent \in Nat /\ Held \subseteq 1..sent
    /\ Delivered \in Seq(1..sent)
    /\ \A i \in 1..Len(Delivered) : Delivered[i] \notin Held
    /\ Promise!AtMostOnce

\* Whatever keeps the promise of a channel delivers each message at most once:
\* so no message sent with TNode::Send is read twice, in any behaviour.
THEOREM DeliveredOnce == Spec => []Promise!AtMostOnce
<1>1. Promise!Init => ChannelInv
  BY DEF Promise!Init, ChannelInv, Promise!AtMostOnce
<1>2. ChannelInv /\ [Promise!Next]_(Promise!vars) => ChannelInv'
  <2> SUFFICES ASSUME ChannelInv, [Promise!Next]_(Promise!vars) PROVE ChannelInv'
    OBVIOUS
  <2>1. CASE Promise!Accept
    <3>1. /\ sent' = sent + 1 /\ sent' \in Nat
          /\ 1..sent \subseteq 1..sent' /\ sent' \notin 1..sent /\ sent' \in 1..sent'
      BY <2>1 DEF Promise!Accept, ChannelInv
    <3>2. Delivered' = Delivered /\ Held' = Held \cup {sent'}
      BY <2>1 DEF Promise!Accept
    <3>3. Delivered' \in Seq(1..sent')
      BY <3>1, <3>2 DEF ChannelInv
    <3>4. \A i \in 1..Len(Delivered) : Delivered[i] \in 1..sent
      BY DEF ChannelInv
    <3> QED BY <3>1, <3>2, <3>3, <3>4 DEF ChannelInv, Promise!AtMostOnce
  <2>2. CASE Promise!Lose
    BY <2>2 DEF Promise!Lose, ChannelInv, Promise!AtMostOnce
  <2>3. ASSUME NEW m \in Held, Promise!Deliver(m) PROVE ChannelInv'
    <3>1. m \in 1..sent /\ sent' = sent /\ Held' = Held \ {m}
      BY <2>3 DEF Promise!Deliver, ChannelInv
    <3>2. /\ Delivered' = Append(Delivered, m)
          /\ Delivered' \in Seq(1..sent) /\ Len(Delivered') = Len(Delivered) + 1
          /\ Delivered'[Len(Delivered) + 1] = m
          /\ \A i \in 1..Len(Delivered) : Delivered'[i] = Delivered[i]
      BY <2>3, <3>1 DEF Promise!Deliver, ChannelInv
    <3>3. \A i \in 1..Len(Delivered) : Delivered[i] \notin Held /\ Delivered[i] # m
      BY <2>3 DEF ChannelInv
    <3>4. Len(Delivered) \in Nat
      BY DEF ChannelInv
    <3>5. \A i \in 1..Len(Delivered') : Delivered'[i] \notin Held'
      BY <3>1, <3>2, <3>3, <3>4
    <3>6. \A i, j \in 1..Len(Delivered') : Delivered'[i] = Delivered'[j] => i = j
      <4> SUFFICES ASSUME NEW i \in 1..Len(Delivered'), NEW j \in 1..Len(Delivered'),
                          Delivered'[i] = Delivered'[j]
                   PROVE  i = j
        OBVIOUS
      <4>1. CASE i \in 1..Len(Delivered) /\ j \in 1..Len(Delivered)
        BY <4>1, <3>2 DEF ChannelInv, Promise!AtMostOnce
      <4>2. CASE i = Len(Delivered) + 1 \/ j = Len(Delivered) + 1
        BY <4>2, <3>2, <3>3, <3>4
      <4> QED BY <4>1, <4>2, <3>2, <3>4
    <3> QED BY <3>1, <3>2, <3>5, <3>6 DEF ChannelInv, Promise!AtMostOnce
  <2>4. CASE UNCHANGED Promise!vars
    BY <2>4 DEF Promise!vars, ChannelInv, Promise!AtMostOnce
  <2> QED BY <2>1, <2>2, <2>3, <2>4 DEF Promise!Next
<1>3. ChannelInv => Promise!AtMostOnce
  BY DEF ChannelInv
<1>4. Promise!Spec => []Promise!AtMostOnce
  BY <1>1, <1>2, <1>3, PTL DEF Promise!Spec
<1> QED BY <1>4, KeepsPromise, PTL DEF ImplementsChannel
=============================================================================
