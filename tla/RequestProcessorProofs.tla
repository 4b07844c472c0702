----------------------- MODULE RequestProcessorProofs -----------------------
(***************************************************************************)
(* Proofs about RequestProcessor: what TRequestProcessor keeps true of one *)
(* server, for every set of requests and every number of restarts.         *)
(*                                                                         *)
(* A message is handled by a chain of operators from server state to       *)
(* server state, three of which run loops.  First comes what each of them  *)
(* can change at all (Commanded, Unapplied, Unanswered); then the loops,   *)
(* as recursive functions that solve their equations; then Sound, the      *)
(* invariant that holds between any two of these operators.  Between two   *)
(* messages ProcessorInv holds: Sound, and nothing parked under a leader.  *)
(*                                                                         *)
(* Last comes what clients are told.  Tidy holds between any two operators *)
(* as well: results are kept in log order, what was told of a write is in  *)
(* the log for good, and a write that waits was told of nothing.  At rest  *)
(* the newest command that waits is ahead of what was applied, and where   *)
(* nothing waits for an entry that is gone no assertion fails (Steady).    *)
(***************************************************************************)
EXTENDS RequestProcessor, SequenceTheorems, FiniteSetTheorems, WellFoundedInduction, TLAPS

-----------------------------------------------------------------------------
(* What an operator changes. *)

Fields == {"raft", "waiting", "strongWaiting", "parked", "answers", "cookieOwner",
           "clientCookies", "nextCookie", "rsm", "lastApplied", "savedApplied", "seqno",
           "commitSeqno", "failed", "forwarded", "relayed", "replies", "reached", "knew"}

Value == Request \cup {Foreign, Stub}
LogEntry == [value : Value]
Raft == [role : {"FOLLOWER", "CANDIDATE", "LEADER"}, leaderId : Peer \cup {Nil},
         log : Seq(LogEntry), commitIndex : Nat]
Cookie == 0..CookieSpace - 1

\* What only ProcessCommitted, an answer or a restart changes.
Applied(v, u) ==
    /\ DOMAIN u = Fields
    /\ u.answers = v.answers /\ u.rsm = v.rsm /\ u.lastApplied = v.lastApplied
    /\ u.savedApplied = v.savedApplied /\ u.commitSeqno = v.commitSeqno
    /\ u.relayed = v.relayed /\ u.reached = v.reached /\ u.knew = v.knew
    /\ u.raft.role = v.raft.role /\ u.raft.leaderId = v.raft.leaderId
    /\ u.raft.commitIndex = v.raft.commitIndex

Queued(v, u) == u.waiting = v.waiting /\ u.strongWaiting = v.strongWaiting
Cookies(v, u) ==
    /\ u.cookieOwner = v.cookieOwner /\ u.clientCookies = v.clientCookies
    /\ u.nextCookie = v.nextCookie /\ u.forwarded = v.forwarded

Rest(v, u) ==
    /\ Applied(v, u) /\ Queued(v, u) /\ u.raft = v.raft
    /\ u.parked = v.parked /\ u.seqno = v.seqno

Replied(v, u, q, reply) ==
    u.replies = v.replies \/ u.replies = [v.replies EXCEPT ![q] = Append(@, reply)]

LEMMA FailFacts ==
    ASSUME NEW v, DOMAIN v = Fields, NEW assertion, NEW u, u = Fail(v, assertion)
    PROVE  Rest(v, u) /\ Cookies(v, u) /\ u.replies = v.replies
BY DEF Fail, Rest, Applied, Queued, Cookies, Fields

LEMMA SendFacts ==
    ASSUME NEW v, DOMAIN v = Fields, NEW q, NEW reply, NEW u, u = Send(v, q, reply)
    PROVE  Rest(v, u) /\ Cookies(v, u) /\ u.failed = v.failed /\ Replied(v, u, q, reply)
<1>1. CASE q.client \in gone
  BY <1>1 DEF Send, Rest, Applied, Queued, Cookies, Fields, Replied
<1>2. CASE q.client \notin gone
  BY <1>2 DEF Send, Rest, Applied, Queued, Cookies, Fields, Replied
<1> QED BY <1>1, <1>2

LEMMA ForwardFacts ==
    ASSUME NEW v, DOMAIN v = Fields, NEW q, NEW u, u = ForwardToLeader(v, q)
    PROVE  Rest(v, u) /\ u.failed = v.failed /\ u.replies = v.replies
BY DEF ForwardToLeader, Rest, Applied, Queued, Cookies, Fields

-----------------------------------------------------------------------------
(* What the handler of a command can change. *)

Submits(v, u, q) ==
    u.raft = v.raft \/ (v.raft.role = "LEADER" /\ u.raft = Submit(v.raft, Entry(q)))

Pushes(v, u, q) ==
    \/ u.waiting = v.waiting
    \/ /\ u.waiting = Append(v.waiting, [index |-> Len(u.raft.log), request |-> q])
       /\ u.failed = v.failed
       /\ v.waiting # << >> => ~ (Last(v.waiting).index > Len(u.raft.log))
       /\ q.kind = "write" =>
             v.raft.role = "LEADER" /\ u.raft = Submit(v.raft, Entry(q))

PushesStrong(v, u, q) ==
    \/ u.strongWaiting = v.strongWaiting
    \/ /\ u.strongWaiting = Append(v.strongWaiting,
                                [index |-> Len(u.raft.log), seqno |-> v.seqno, request |-> q])
       /\ q.kind # "write"
       /\ v.strongWaiting # << >> => ~ (Last(v.strongWaiting).index > Len(u.raft.log))

Parks(v, u, q) ==
    \/ u.parked = v.parked
    \/ /\ v.raft.role = "CANDIDATE" \/ v.raft.leaderId = Nil
       /\ ~ q.fromPeer
       /\ u.parked = Append(v.parked, q)

Number(v) == IF v.nextCookie = 0 THEN 1 ELSE v.nextCookie
TakesCookie(v, u, q) ==
    /\ v.raft.leaderId # Nil
    /\ u.parked = v.parked
    /\ u.forwarded = v.forwarded \cup
                         {[to |-> v.raft.leaderId, request |-> q, cookie |-> Number(v)]}
    /\ u.cookieOwner = {p \in v.cookieOwner : p[1] # v.nextCookie}
                           \cup {<<v.nextCookie, q.client>>}
    /\ u.clientCookies = v.clientCookies \cup {<<q.client, v.nextCookie>>}
    /\ u.nextCookie = (v.nextCookie + 1) % CookieSpace

Refuses(v, u, q) ==
    \/ u.replies = v.replies
    \/ /\ q.fromPeer /\ u.waiting = v.waiting
       /\ \E reply : /\ reply.kind # "read" /\ reply.kind # "write"
                     /\ Replied(v, u, q, reply)

Commanded(v, u, q) ==
    /\ Applied(v, u)
    /\ Submits(v, u, q) /\ Pushes(v, u, q) /\ PushesStrong(v, u, q) /\ Parks(v, u, q)
    /\ Cookies(v, u) \/ TakesCookie(v, u, q)
    /\ Refuses(v, u, q)
    /\ u.seqno = v.seqno \/ u.seqno = v.seqno + Cardinality(Peer)
    /\ v.failed # None => u = v

LEMMA ForwardEffect ==
    ASSUME NEW v, DOMAIN v = Fields, v.failed = None, NEW q
    PROVE  Commanded(v, Forward(v, q), q)
<1>1. CASE q.fromPeer
  <2>1. PICK reply : reply = [index |-> 0, kind |-> "error", of |-> Nil]
    OBVIOUS
  <2>2. PICK u : u = Send(v, q, reply)
    OBVIOUS
  <2>3. Forward(v, q) = u
    BY <1>1, <2>1, <2>2 DEF Forward
  <2>4. reply.kind # "read" /\ reply.kind # "write"
    BY <2>1
  <2>5. Refuses(v, u, q)
    BY <1>1, <2>2, <2>4, SendFacts DEF Refuses, Rest, Queued
  <2> QED BY <2>2, <2>3, <2>5, SendFacts
          DEF Commanded, Rest, Queued, Submits, Pushes, PushesStrong, Parks
<1>2. CASE ~q.fromPeer /\ (v.raft.role = "CANDIDATE" \/ v.raft.leaderId = Nil)
  <2>1. Forward(v, q) = [v EXCEPT !.parked = Append(@, q)]
    BY <1>2 DEF Forward
  <2> QED BY <1>2, <2>1 DEF Commanded, Applied, Fields, Cookies, Submits, Pushes,
          PushesStrong, Parks,
                       Refuses
<1>3. CASE /\ ~q.fromPeer /\ ~ (v.raft.role = "CANDIDATE" \/ v.raft.leaderId = Nil)
           /\ v.raft.role = "FOLLOWER"
  <2>1. PICK u : u = ForwardToLeader(v, q)
    OBVIOUS
  <2>2. Forward(v, q) = u
    BY <1>3, <2>1 DEF Forward
  <2>3. TakesCookie(v, u, q)
    BY <1>3, <2>1 DEF TakesCookie, ForwardToLeader, Fields, Number
  <2> QED BY <2>1, <2>2, <2>3, ForwardFacts
          DEF Commanded, Rest, Queued, Submits, Pushes, PushesStrong, Parks, Refuses
<1>4. CASE /\ ~q.fromPeer /\ ~ (v.raft.role = "CANDIDATE" \/ v.raft.leaderId = Nil)
           /\ v.raft.role # "FOLLOWER"
  <2>1. PICK u : u = Fail(v, "wrong state")
    OBVIOUS
  <2>2. Forward(v, q) = u
    BY <1>4, <2>1 DEF Forward
  <2>3. Rest(v, u) /\ Cookies(v, u) /\ u.replies = v.replies
    BY <2>1, FailFacts
  <2> QED BY <2>2, <2>3
          DEF Commanded, Rest, Queued, Submits, Pushes, PushesStrong, Parks, Refuses
<1> QED BY <1>1, <1>2, <1>3, <1>4

PushedWaiting(v, u, q, index) ==
    /\ Applied(v, u) /\ Cookies(v, u) /\ u.raft = v.raft /\ u.parked = v.parked
    /\ u.strongWaiting = v.strongWaiting /\ u.replies = v.replies /\ u.seqno = v.seqno
    /\ \/ u.waiting = v.waiting
       \/ /\ u.waiting = Append(v.waiting, [index |-> index, request |-> q])
          /\ u.failed = v.failed
          /\ v.waiting # << >> => ~ (Last(v.waiting).index > index)

LEMMA PushWaitingEffect ==
    ASSUME NEW v, DOMAIN v = Fields, NEW q, NEW index
    PROVE  PushedWaiting(v, PushWaiting(v, q, index), q, index)
<1> USE DEF PushedWaiting
<1>1. CASE v.waiting # << >> /\ Last(v.waiting).index > index
  <2>1. PICK u : u = Fail(v, "queue order")
    OBVIOUS
  <2>2. PushWaiting(v, q, index) = u
    BY <1>1, <2>1 DEF PushWaiting
  <2>3. Rest(v, u) /\ Cookies(v, u) /\ u.replies = v.replies
    BY <2>1, FailFacts
  <2> QED BY <2>2, <2>3 DEF Rest, Queued
<1>2. CASE ~ (v.waiting # << >> /\ Last(v.waiting).index > index)
  <2>1. PICK w : w = [index |-> index, request |-> q]
    OBVIOUS
  <2>2. PushWaiting(v, q, index) = [v EXCEPT !.waiting = Append(@, w)]
    BY <1>2, <2>1 DEF PushWaiting
  <2> QED BY <1>2, <2>1, <2>2 DEF Applied, Cookies, Fields
<1> QED BY <1>1, <1>2

LEMMA PushStrongEffect ==
    ASSUME NEW v, DOMAIN v = Fields, v.failed = None, NEW q, q.kind # "write"
    PROVE  Commanded(v, PushStrongWaiting(v, q), q)
<1>1. PICK w : w = [index |-> LastIndex(v), seqno |-> v.seqno, request |-> q]
  OBVIOUS
<1>2. PICK a : a = [v EXCEPT !.seqno = @ + Cardinality(Peer)]
  OBVIOUS
<1>3. /\ DOMAIN a = Fields /\ Applied(v, a) /\ Queued(v, a) /\ Cookies(v, a) /\ a.raft = v.raft
      /\ a.parked = v.parked /\ a.replies = v.replies /\ a.failed = v.failed
      /\ a.seqno = v.seqno + Cardinality(Peer)
  BY <1>2 DEF Applied, Queued, Cookies, Fields
<1>4. w.index = Len(v.raft.log)
  BY <1>1 DEF LastIndex
<1>5. CASE /\ v.strongWaiting # << >>
           /\ Last(v.strongWaiting).index > w.index \/ Last(v.strongWaiting).seqno > w.seqno
  <2>1. PICK u : u = Fail(a, "queue order")
    OBVIOUS
  <2>2. PushStrongWaiting(v, q) = u
    BY <1>1, <1>2, <1>5, <2>1 DEF PushStrongWaiting
  <2>3. Rest(a, u) /\ Cookies(a, u) /\ u.replies = a.replies
    BY <1>3, <2>1, FailFacts
  <2>4. Applied(v, u) /\ Cookies(v, u)
    BY <1>3, <2>3 DEF Rest, Applied, Cookies
  <2> QED BY <1>3, <2>2, <2>3, <2>4
          DEF Rest, Queued, Commanded, Submits, Pushes, PushesStrong, Parks, Refuses
<1>6. CASE ~ (/\ v.strongWaiting # << >>
              /\ Last(v.strongWaiting).index > w.index \/ Last(v.strongWaiting).seqno > w.seqno)
  <2>1. PICK u : u = [a EXCEPT !.strongWaiting = Append(@, w)]
    OBVIOUS
  <2>2. PushStrongWaiting(v, q) = u
    BY <1>1, <1>2, <1>6, <2>1 DEF PushStrongWaiting
  <2>3. /\ Applied(a, u) /\ Cookies(a, u) /\ u.raft = a.raft /\ u.parked = a.parked
        /\ u.replies = a.replies /\ u.waiting = a.waiting /\ u.seqno = a.seqno
        /\ u.strongWaiting = Append(a.strongWaiting, w)
    BY <1>3, <2>1 DEF Applied, Cookies, Fields
  <2>4. Applied(v, u) /\ Cookies(v, u)
    BY <1>3, <2>3 DEF Applied, Cookies
  <2>5. PushesStrong(v, u, q)
    BY <1>1, <1>3, <1>4, <1>6, <2>3 DEF Queued, PushesStrong
  <2> QED BY <1>3, <2>2, <2>3, <2>4, <2>5
          DEF Queued, Commanded, Submits, Pushes, Parks, Refuses
<1> QED BY <1>5, <1>6

LEMMA WaitEffect ==
    ASSUME NEW v, DOMAIN v = Fields, v.failed = None, NEW q, q.kind # "write"
    PROVE  Commanded(v, PushWaiting(v, q, LastIndex(v)), q)
<1>1. PICK u : u = PushWaiting(v, q, LastIndex(v))
  OBVIOUS
<1>2. PushedWaiting(v, u, q, LastIndex(v))
  BY <1>1, PushWaitingEffect
<1> QED BY <1>1, <1>2 DEF PushedWaiting, LastIndex, Commanded, Submits, Pushes, PushesStrong,
                     Parks, Refuses

LEMMA SubmitEffect ==
    ASSUME NEW v, DOMAIN v = Fields, v.failed = None, v.raft \in Raft, v.raft.role = "LEADER",
           NEW q \in Request
    PROVE  Commanded(v, PushWaiting([v EXCEPT !.raft = Submit(@, Entry(q))], q,
                                    LastIndex(v) + 1), q)
<1>1. PICK e : e = Entry(q)
  OBVIOUS
<1>2. e \in LogEntry
  BY <1>1 DEF Entry, LogEntry, Value
<1>3. PICK r : r = Submit(v.raft, e)
  OBVIOUS
<1>4. v.raft.log \in Seq(LogEntry)
  BY DEF Raft
<1>5. /\ r.log = Append(v.raft.log, e) /\ r.role = v.raft.role /\ r.leaderId = v.raft.leaderId
      /\ r.commitIndex = v.raft.commitIndex
  BY <1>3 DEF Submit, Raft
<1>6. Len(r.log) = LastIndex(v) + 1
  BY <1>2, <1>4, <1>5 DEF LastIndex
<1>7. PICK a : a = [v EXCEPT !.raft = r]
  OBVIOUS
<1>8. /\ DOMAIN a = Fields /\ Applied(v, a) /\ Queued(v, a) /\ Cookies(v, a) /\ a.raft = r
      /\ a.parked = v.parked /\ a.replies = v.replies /\ a.failed = v.failed
      /\ a.seqno = v.seqno
  BY <1>5, <1>7 DEF Applied, Queued, Cookies, Fields
<1>9. PICK u : u = PushWaiting(a, q, LastIndex(v) + 1)
  OBVIOUS
<1>10. PushedWaiting(a, u, q, LastIndex(v) + 1)
  BY <1>8, <1>9, PushWaitingEffect
<1>11. Applied(v, u) /\ Cookies(v, u)
  BY <1>8, <1>10 DEF PushedWaiting, Applied, Cookies
<1>12. Submits(v, u, q)
  BY <1>1, <1>3, <1>8, <1>10 DEF PushedWaiting, Submits
<1>13. Pushes(v, u, q)
  BY <1>1, <1>3, <1>6, <1>8, <1>10 DEF PushedWaiting, Pushes, Queued
<1>14. Commanded(v, u, q)
  BY <1>8, <1>10, <1>11, <1>12, <1>13
     DEF PushedWaiting, Queued, Commanded, PushesStrong, Parks, Refuses
<1> QED BY <1>1, <1>3, <1>7, <1>9, <1>14

LEMMA CommandEffect ==
    ASSUME NEW v, DOMAIN v = Fields, v.raft \in Raft, NEW q \in Request
    PROVE  Commanded(v, OnCommandRequest(v, q), q)
<1>1. CASE v.failed # None
  BY <1>1 DEF OnCommandRequest, Commanded, Applied, Cookies, Submits, Pushes,
              PushesStrong, Parks, Refuses
<1>2. CASE v.failed = None /\ q.kind = "write"
  <2>1. OnCommandRequest(v, q) = OnWriteRequest(v, q)
    BY <1>2 DEF OnCommandRequest
  <2> QED BY <1>2, <2>1, ForwardEffect, SubmitEffect DEF OnWriteRequest
<1>3. CASE v.failed = None /\ q.kind # "write"
  <2>1. OnCommandRequest(v, q) = OnReadRequest(v, q)
    BY <1>3 DEF OnCommandRequest
  <2> QED BY <1>3, <2>1, WaitEffect, ForwardEffect, PushStrongEffect DEF OnReadRequest
<1> QED BY <1>1, <1>2, <1>3

-----------------------------------------------------------------------------
(* Recursions have solutions. *)

LEMMA LeastNatural ==
    ASSUME NEW S \in SUBSET Nat, S # {}
    PROVE  \E x \in S : \A y \in S : x <= y
<1>1. PICK x \in S : \A y \in S : ~ (<<y, x>> \in OpToRel(<, Nat))
  BY NatLessThanWellFounded, WFMin
<1>2. x \in Nat /\ \A y \in S : y \in Nat
  OBVIOUS
<1>3. \A y \in S : ~ (y < x)
  BY <1>1, <1>2 DEF OpToRel
<1>4. \A y \in S : x <= y
  BY <1>2, <1>3
<1> QED BY <1>4

\* What is shown of 0, and of n + 1 from n, holds of every natural number.
LEMMA Inductive ==
    ASSUME NEW S \in SUBSET Nat, 0 \in S, \A n \in S : n + 1 \in S
    PROVE  S = Nat
<1> SUFFICES ASSUME Nat \ S # {} PROVE FALSE
  OBVIOUS
<1>1. PICK x \in Nat \ S : \A y \in Nat \ S : x <= y
  BY LeastNatural
<1>2. x - 1 \in Nat /\ ~ (x <= x - 1) /\ x - 1 + 1 = x
  BY <1>1
<1>3. x - 1 \in S
  BY <1>1, <1>2
<1> QED BY <1>1, <1>2, <1>3

\* What was parked, handled again one command at a time.
ResumeTurn(f, x0, q, n) ==
    f = [k \in 0..n |-> IF k = 0 THEN x0 ELSE OnCommandRequest(f[k - 1], q[k])]

LEMMA ResumeSolution ==
    ASSUME NEW x0, NEW q, NEW n \in Nat
    PROVE  \E f : ResumeTurn(f, x0, q, n)
<1> DEFINE Solves(f, m) == f = [k \in 0..m |-> IF k = 0 THEN x0
                                             ELSE OnCommandRequest(f[k - 1], q[k])]
           S == {m \in Nat : \E f : Solves(f, m)}
<1>1. 0 \in S
  <2>1. Solves([k \in 0..0 |-> x0], 0)
    OBVIOUS
  <2>2. \E f : Solves(f, 0)
    <3> HIDE DEF Solves
    <3> QED BY <2>1
  <2> QED BY <2>2
<1>2. ASSUME NEW m \in S PROVE m + 1 \in S
  <2>1. PICK f : Solves(f, m)
    OBVIOUS
  <2>2. PICK x : x = OnCommandRequest(f[m], q[m + 1])
    OBVIOUS
  <2> DEFINE g == [k \in 0..m + 1 |-> IF k <= m THEN f[k]
                                     ELSE x]
  <2>3. ASSUME NEW k \in 0..m + 1
        PROVE  g[k] = IF k = 0 THEN x0 ELSE OnCommandRequest(g[k - 1], q[k])
    <3>1. CASE k = m + 1
      <4>1. g[m] = f[m] /\ m + 1 - 1 = m /\ m + 1 # 0
        OBVIOUS
      <4> QED BY <3>1, <4>1, <2>2
    <3>2. CASE k # m + 1
      <4>1. k \in 0..m /\ g[k] = f[k]
        BY <3>2
      <4>2. k # 0 => k - 1 \in 0..m /\ g[k - 1] = f[k - 1]
        BY <4>1
      <4>3. f[k] = IF k = 0 THEN x0 ELSE OnCommandRequest(f[k - 1], q[k])
        BY <2>1, <4>1
      <4> QED BY <4>1, <4>2, <4>3
    <3> QED BY <3>1, <3>2
  <2>4. Solves(g, m + 1)
    BY <2>3
  <2>5. m + 1 \in Nat
    OBVIOUS
  <2>6. \E h : Solves(h, m + 1)
    <3> HIDE DEF g, Solves
    <3> QED BY <2>4
  <2> QED BY <2>5, <2>6
<1>3. S = Nat
  BY <1>1, <1>2, Inductive
<1> QED BY <1>3 DEF ResumeTurn

Resumes(turn, v) ==
    /\ turn[0] = [v EXCEPT !.parked = << >>]
    /\ \A k \in 1..Len(v.parked) : turn[k] = OnCommandRequest(turn[k - 1], v.parked[k])
    /\ Resumed(v) = turn[Len(v.parked)]

LEMMA ResumeTurns ==
    ASSUME NEW v, Len(v.parked) \in Nat
    PROVE  \E turn : Resumes(turn, v)
<1>1. PICK n \in Nat : n = Len(v.parked)
  OBVIOUS
<1>2. PICK x : x = [v EXCEPT !.parked = << >>]
  OBVIOUS
<1>3. PICK q : q = v.parked
  OBVIOUS
<1> DEFINE Solves(f) == f = [k \in 0..n |-> IF k = 0 THEN x
                                           ELSE OnCommandRequest(f[k - 1], q[k])]
<1>4. PICK f : Solves(f) /\ Resumed(v) = f[n]
  <2> DEFINE f == CHOOSE g : Solves(g)
  <2>1. \E g : Solves(g)
    <3>1. \E g : ResumeTurn(g, x, q, n)
      BY ResumeSolution
    <3> QED BY <3>1 DEF ResumeTurn
  <2>3. Solves(f)
    <3> HIDE DEF Solves
    <3> QED BY <2>1
  <2>2. Resumed(v) = f[n]
    BY <1>1, <1>2, <1>3 DEF Resumed
  <2> HIDE DEF f
  <2> QED BY <2>2, <2>3
<1>5. f[0] = x
  BY <1>4
<1>6. ASSUME NEW k \in 1..n PROVE f[k] = OnCommandRequest(f[k - 1], q[k])
  <2>1. k \in 0..n /\ k # 0
    OBVIOUS
  <2> QED BY <1>4, <2>1
<1>7. Resumed(v) = f[n]
  BY <1>4
<1> HIDE DEF Solves
<1> QED BY <1>1, <1>2, <1>3, <1>5, <1>6, <1>7 DEF Resumes

\* The answers to a queue.
AnswerTurn(f, x0, w, n) ==
    f = [k \in 0..n |-> IF k = 0 THEN x0 ELSE AnswerNewest(f[k - 1], w)]

LEMMA AnswerSolution ==
    ASSUME NEW x0, NEW w, NEW n \in Nat
    PROVE  \E f : AnswerTurn(f, x0, w, n)
<1> DEFINE Solves(f, m) == f = [k \in 0..m |-> IF k = 0 THEN x0 ELSE AnswerNewest(f[k - 1], w)]
           S == {m \in Nat : \E f : Solves(f, m)}
<1>1. 0 \in S
  <2>1. Solves([k \in 0..0 |-> x0], 0)
    OBVIOUS
  <2>2. \E f : Solves(f, 0)
    <3> HIDE DEF Solves
    <3> QED BY <2>1
  <2> QED BY <2>2
<1>2. ASSUME NEW m \in S PROVE m + 1 \in S
  <2>1. PICK f : Solves(f, m)
    OBVIOUS
  <2>2. PICK x : x = IF m + 1 = 0 THEN x0 ELSE AnswerNewest(f[m], w)
    OBVIOUS
  <2> DEFINE g == [k \in 0..m + 1 |-> IF k <= m THEN f[k] ELSE x]
  <2>3. ASSUME NEW k \in 0..m + 1
        PROVE  g[k] = IF k = 0 THEN x0 ELSE AnswerNewest(g[k - 1], w)
    <3>1. CASE k = m + 1
      <4>1. g[m] = f[m] /\ m + 1 - 1 = m /\ m + 1 # 0
        OBVIOUS
      <4> QED BY <3>1, <4>1, <2>2
    <3>2. CASE k # m + 1
      <4>1. k \in 0..m /\ g[k] = f[k]
        BY <3>2
      <4>2. k # 0 => k - 1 \in 0..m /\ g[k - 1] = f[k - 1]
        BY <4>1
      <4>3. f[k] = IF k = 0 THEN x0 ELSE AnswerNewest(f[k - 1], w)
        BY <2>1, <4>1
      <4> QED BY <4>1, <4>2, <4>3
    <3> QED BY <3>1, <3>2
  <2>4. Solves(g, m + 1)
    BY <2>3
  <2>5. m + 1 \in Nat
    OBVIOUS
  <2>6. \E h : Solves(h, m + 1)
    <3> HIDE DEF g, Solves
    <3> QED BY <2>4
  <2> QED BY <2>5, <2>6
<1>3. S = Nat
  BY <1>1, <1>2, Inductive
<1> QED BY <1>3 DEF AnswerTurn

Answers(turn, v, queue) ==
    /\ turn[0] = v
    /\ \A k \in 1..Len(queue) : turn[k] = AnswerNewest(turn[k - 1], Last(queue))
    /\ AnswerAll(v, queue) = turn[Len(queue)]

LEMMA AnswerTurns ==
    ASSUME NEW v, NEW queue, Len(queue) \in Nat
    PROVE  \E turn : Answers(turn, v, queue)
<1>1. PICK n \in Nat : n = Len(queue)
  OBVIOUS
<1>2. PICK w : w = Last(queue)
  OBVIOUS
<1> DEFINE Solves(f) == f = [k \in 0..n |-> IF k = 0 THEN v ELSE AnswerNewest(f[k - 1], w)]
<1>4. PICK f : Solves(f) /\ AnswerAll(v, queue) = f[n]
  <2> DEFINE f == CHOOSE g : Solves(g)
  <2>1. \E g : Solves(g)
    <3>1. \E g : AnswerTurn(g, v, w, n)
      BY AnswerSolution
    <3> QED BY <3>1 DEF AnswerTurn
  <2>3. Solves(f)
    <3> HIDE DEF Solves
    <3> QED BY <2>1
  <2>2. AnswerAll(v, queue) = f[n]
    BY <1>1, <1>2 DEF AnswerAll
  <2> HIDE DEF f
  <2> QED BY <2>2, <2>3
<1>5. f[0] = v
  BY <1>4
<1>6. ASSUME NEW k \in 1..n PROVE f[k] = AnswerNewest(f[k - 1], w)
  <2>1. k \in 0..n /\ k # 0
    OBVIOUS
  <2> QED BY <1>4, <2>1
<1>7. AnswerAll(v, queue) = f[n]
  BY <1>4
<1> HIDE DEF Solves
<1> QED BY <1>1, <1>2, <1>5, <1>6, <1>7 DEF Answers

\* The entries that are applied.
ApplyTurn(f, x0, a, log, n) ==
    f = [k \in 0..n |-> IF k <= a THEN x0
                        ELSE ApplyEntry(f[k - 1], [index |-> k, value |-> log[k].value])]

LEMMA ApplySolution ==
    ASSUME NEW x0, NEW a \in Nat, NEW log, NEW n \in Nat
    PROVE  \E f : ApplyTurn(f, x0, a, log, n)
<1> DEFINE Solves(f, m) == f = [k \in 0..m |-> IF k <= a THEN x0 ELSE
                        ApplyEntry(f[k - 1], [index |-> k, value |-> log[k].value])]
           S == {m \in Nat : \E f : Solves(f, m)}
<1>1. 0 \in S
  <2>1. Solves([k \in 0..0 |-> x0], 0)
    OBVIOUS
  <2>2. \E f : Solves(f, 0)
    <3> HIDE DEF Solves
    <3> QED BY <2>1
  <2> QED BY <2>2
<1>2. ASSUME NEW m \in S PROVE m + 1 \in S
  <2>1. PICK f : Solves(f, m)
    OBVIOUS
  <2>2. PICK x : x = IF m + 1 <= a THEN x0 ELSE
                    ApplyEntry(f[m], [index |-> m + 1, value |-> log[m + 1].value])
    OBVIOUS
  <2> DEFINE g == [k \in 0..m + 1 |-> IF k <= m THEN f[k] ELSE x]
  <2>3. ASSUME NEW k \in 0..m + 1
        PROVE  g[k] = IF k <= a THEN x0 ELSE
                  ApplyEntry(g[k - 1], [index |-> k, value |-> log[k].value])
    <3>1. CASE k = m + 1
      <4>1. g[m] = f[m] /\ m + 1 - 1 = m /\ m + 1 # 0
        OBVIOUS
      <4> QED BY <3>1, <4>1, <2>2
    <3>2. CASE k # m + 1
      <4>1. k \in 0..m /\ g[k] = f[k]
        BY <3>2
      <4>2. k # 0 => k - 1 \in 0..m /\ g[k - 1] = f[k - 1]
        BY <4>1
      <4>3. f[k] = IF k <= a THEN x0 ELSE
                 ApplyEntry(f[k - 1], [index |-> k, value |-> log[k].value])
        BY <2>1, <4>1
      <4> QED BY <4>1, <4>2, <4>3
    <3> QED BY <3>1, <3>2
  <2>4. Solves(g, m + 1)
    BY <2>3
  <2>5. m + 1 \in Nat
    OBVIOUS
  <2>6. \E h : Solves(h, m + 1)
    <3> HIDE DEF g, Solves
    <3> QED BY <2>4
  <2> QED BY <2>5, <2>6
<1>3. S = Nat
  BY <1>1, <1>2, Inductive
<1> QED BY <1>3 DEF ApplyTurn

Applies(done, v) ==
    /\ \A i \in 0..v.raft.commitIndex :
          IF i <= v.lastApplied THEN done[i] = v
          ELSE done[i] = ApplyEntry(done[i - 1], [index |-> i, value |-> v.raft.log[i].value])
    /\ ProcessCommitted(v) =
          IF v.failed # None THEN v
          ELSE [done[v.raft.commitIndex] EXCEPT
                   !.lastApplied = v.raft.commitIndex,
                   !.reached     = IF v.raft.commitIndex > @ THEN v.raft.commitIndex ELSE @]

LEMMA ApplyTurns ==
    ASSUME NEW v, v.raft.commitIndex \in Nat, v.lastApplied \in Nat
    PROVE  \E done : Applies(done, v)
<1>1. PICK n \in Nat : n = v.raft.commitIndex
  OBVIOUS
<1>2. PICK a \in Nat : a = v.lastApplied
  OBVIOUS
<1>3. PICK log : log = v.raft.log
  OBVIOUS
<1> DEFINE Solves(f) == f = [k \in 0..n |-> IF k <= a THEN v ELSE
                                ApplyEntry(f[k - 1], [index |-> k, value |-> log[k].value])]
           Result(f) == IF v.failed # None THEN v
                        ELSE [f[n] EXCEPT !.lastApplied = n,
                                          !.reached     = IF n > @ THEN n ELSE @]
<1>4. PICK f : Solves(f) /\ ProcessCommitted(v) = Result(f)
  <2> DEFINE f == CHOOSE g : Solves(g)
  <2>1. \E g : Solves(g)
    <3>1. \E g : ApplyTurn(g, v, a, log, n)
      BY ApplySolution
    <3> QED BY <3>1 DEF ApplyTurn
  <2>3. Solves(f)
    <3> HIDE DEF Solves
    <3> QED BY <2>1
  <2>2. ProcessCommitted(v) = Result(f)
    BY <1>1, <1>2, <1>3 DEF ProcessCommitted
  <2> HIDE DEF f, Solves, Result
  <2> QED BY <2>2, <2>3
<1>5. ASSUME NEW i \in 0..n
      PROVE  IF i <= a THEN f[i] = v
             ELSE f[i] = ApplyEntry(f[i - 1], [index |-> i, value |-> log[i].value])
  BY <1>4
<1>7. ProcessCommitted(v) = Result(f)
  BY <1>4
<1> HIDE DEF Solves
<1> QED BY <1>1, <1>2, <1>3, <1>5, <1>7 DEF Applies

-----------------------------------------------------------------------------
(* What an answer changes. *)

Unanswered(v, u) ==
    /\ DOMAIN u = Fields /\ u.raft = v.raft
    /\ Queued(v, u) /\ u.parked = v.parked /\ Cookies(v, u)
    /\ u.rsm = v.rsm /\ u.lastApplied = v.lastApplied /\ u.savedApplied = v.savedApplied
    /\ u.seqno = v.seqno /\ u.commitSeqno = v.commitSeqno
    /\ u.relayed = v.relayed /\ u.reached = v.reached /\ u.knew = v.knew

Answered1(v, u, w) ==
    \/ u.replies = v.replies
    \/ \E reply : /\ IF w.request.kind = "write" THEN reply.kind = "write"
                     ELSE reply.kind = "read" /\ reply.saw = Len(v.rsm)
                  /\ Replied(v, u, w.request, reply)

LEMMA AnswerEffect ==
    ASSUME NEW v, DOMAIN v = Fields, NEW w
    PROVE  Unanswered(v, AnswerNewest(v, w)) /\ Answered1(v, AnswerNewest(v, w), w)
<1>0. PICK rest : rest = AnswersFrom(v, w.index)
  OBVIOUS
<1>1. CASE v.failed # None
  <2>1. AnswerNewest(v, w) = v
    BY <1>1 DEF AnswerNewest
  <2> QED BY <2>1 DEF Unanswered, Answered1, Queued, Cookies
<1>2. CASE v.failed = None /\ w.request.kind # "write"
  <2>1. PICK reply : reply = [index |-> w.index, kind |-> "read", of |-> Nil, saw |-> Len(v.rsm)]
    OBVIOUS
  <2>2. PICK u : u = Send(v, w.request, reply)
    OBVIOUS
  <2>3. AnswerNewest(v, w) = u
    BY <1>2, <2>1, <2>2 DEF AnswerNewest, RsmRead
  <2>4. Rest(v, u) /\ Cookies(v, u) /\ Replied(v, u, w.request, reply)
    BY <2>2, SendFacts
  <2>5. Answered1(v, u, w)
    <3>1. reply.kind = "read" /\ reply.saw = Len(v.rsm)
      BY <2>1
    <3> QED BY <1>2, <2>4, <3>1 DEF Answered1
  <2>6. Unanswered(v, u)
    BY <2>4 DEF Unanswered, Rest, Applied
  <2> QED BY <2>3, <2>5, <2>6
<1>3. CASE v.failed = None /\ w.request.kind = "write" /\ rest = << >>
  <2>1. PICK a : a = [v EXCEPT !.answers = rest]
    OBVIOUS
  <2>2. AnswerNewest(v, w) = [a EXCEPT !.failed = "no answer"]
    BY <1>0, <1>3, <2>1 DEF AnswerNewest, Fail
  <2>3. DOMAIN a = Fields
    BY <2>1
  <2>4. Unanswered(v, a) /\ a.replies = v.replies
    BY <2>1 DEF Unanswered, Queued, Cookies, Fields
  <2>5. Unanswered(a, AnswerNewest(v, w)) /\ AnswerNewest(v, w).replies = a.replies
    BY <2>2, <2>3 DEF Unanswered, Queued, Cookies, Fields
  <2> QED BY <2>4, <2>5 DEF Unanswered, Queued, Cookies, Answered1
<1>4. CASE v.failed = None /\ w.request.kind = "write" /\ rest # << >>
  <2>1. PICK a : a = [v EXCEPT !.answers = Tail(rest)]
    OBVIOUS
  <2>3. DOMAIN a = Fields
    BY <2>1
  <2>4. Unanswered(v, a) /\ a.replies = v.replies
    BY <2>1 DEF Unanswered, Queued, Cookies, Fields
  <2>5. CASE Head(rest).index # w.index
    <3>1. AnswerNewest(v, w) = [a EXCEPT !.failed = "other answer"]
      BY <1>0, <1>4, <2>1, <2>5 DEF AnswerNewest, Fail
    <3>2. Unanswered(a, AnswerNewest(v, w)) /\ AnswerNewest(v, w).replies = a.replies
      BY <3>1, <2>3 DEF Unanswered, Queued, Cookies, Fields
    <3> QED BY <2>4, <3>2 DEF Unanswered, Queued, Cookies, Answered1
  <2>6. CASE Head(rest).index = w.index
    <3>1. PICK reply : reply = [index |-> w.index, kind |-> "write", of |-> Head(rest).value]
      OBVIOUS
    <3>2. PICK u : u = Send(a, w.request, reply)
      OBVIOUS
    <3>3. AnswerNewest(v, w) = u
      BY <1>0, <1>4, <2>1, <2>6, <3>1, <3>2 DEF AnswerNewest
    <3>4. Rest(a, u) /\ Cookies(a, u) /\ Replied(a, u, w.request, reply)
      BY <2>3, <3>2, SendFacts
    <3>5. Unanswered(v, u)
      BY <2>4, <3>4 DEF Unanswered, Rest, Applied, Queued, Cookies
    <3>6. Answered1(v, u, w)
      <4>1. reply.kind = "write"
        BY <3>1
      <4>2. Replied(v, u, w.request, reply)
        BY <2>4, <3>4 DEF Replied
      <4> QED BY <1>4, <4>1, <4>2 DEF Answered1
    <3> QED BY <3>3, <3>5, <3>6
  <2> QED BY <2>5, <2>6
<1> QED BY <1>1, <1>2, <1>3, <1>4

-----------------------------------------------------------------------------
(* What the application of an entry changes. *)

Unapplied(v, u) ==
    /\ DOMAIN u = Fields /\ u.raft = v.raft
    /\ Queued(v, u) /\ u.parked = v.parked /\ Cookies(v, u)
    /\ u.seqno = v.seqno /\ u.commitSeqno = v.commitSeqno /\ u.failed = v.failed
    /\ u.relayed = v.relayed /\ u.replies = v.replies /\ u.reached = v.reached
    /\ u.knew = v.knew

Executes(v, u, w) ==
    IF w.value = Stub \/ v.lastApplied >= w.index
    THEN u.rsm = v.rsm /\ u.lastApplied = v.lastApplied /\ u.savedApplied = v.savedApplied
    ELSE u.rsm = Append(v.rsm, w.value) /\ u.lastApplied = w.index /\ u.savedApplied = w.index

LEMMA ApplyEffect ==
    ASSUME NEW v, DOMAIN v = Fields, NEW w
    PROVE  Unapplied(v, ApplyEntry(v, w)) /\ Executes(v, ApplyEntry(v, w), w)
<1>1. CASE w.value = Stub
  <2>1. ApplyEntry(v, w) = v
    BY <1>1 DEF ApplyEntry
  <2> QED BY <1>1, <2>1 DEF Unapplied, Executes, Queued, Cookies
<1>2. CASE w.value # Stub
  <2>1. PICK a : a = RsmWrite(v, w)
    OBVIOUS
  <2>2. DOMAIN a = Fields /\ Unapplied(v, a) /\ Executes(v, a, w)
    <3>1. CASE v.lastApplied >= w.index
      BY <1>2, <2>1, <3>1 DEF RsmWrite, Unapplied, Executes, Queued, Cookies
    <3>2. CASE ~ (v.lastApplied >= w.index)
      BY <1>2, <2>1, <3>2 DEF RsmWrite, Unapplied, Executes, Queued, Cookies, Fields
    <3> QED BY <3>1, <3>2
  <2>3. PICK u : u = [a EXCEPT !.answers = Append(@, w)]
    OBVIOUS
  <2>4. ApplyEntry(v, w) = u
    BY <1>2, <2>1, <2>3 DEF ApplyEntry
  <2>5. /\ Unapplied(a, u) /\ u.rsm = a.rsm /\ u.lastApplied = a.lastApplied
        /\ u.savedApplied = a.savedApplied
    BY <2>2, <2>3 DEF Unapplied, Queued, Cookies, Fields
  <2>6. Unapplied(v, u)
    BY <2>2, <2>5 DEF Unapplied, Queued, Cookies
  <2>7. Executes(v, u, w)
    BY <2>2, <2>5 DEF Executes
  <2> QED BY <2>4, <2>6, <2>7
<1> QED BY <1>1, <1>2

-----------------------------------------------------------------------------
(* Counting writes. *)

Writes(v, n) == {i \in 1..n : v.raft.log[i].value # Stub}

LEMMA WritesFinite ==
    ASSUME NEW v, NEW n \in Nat
    PROVE  IsFiniteSet(Writes(v, n)) /\ WritesUpTo(v, n) = Cardinality(Writes(v, n))
           /\ WritesUpTo(v, n) \in Nat
<1>1. IsFiniteSet(1..n)
  BY FS_Interval
<1>2. Writes(v, n) \subseteq 1..n
  BY DEF Writes
<1>3. IsFiniteSet(Writes(v, n))
  BY <1>1, <1>2, FS_Subset
<1>4. WritesUpTo(v, n) = Cardinality(Writes(v, n))
  BY DEF WritesUpTo, Writes
<1> QED BY <1>3, <1>4, FS_CardinalityType

LEMMA NoneWritten ==
    ASSUME NEW v
    PROVE  WritesUpTo(v, 0) = 0
<1>1. Writes(v, 0) = {}
  BY DEF Writes
<1> QED BY <1>1, WritesFinite, FS_EmptySet

\* An entry that is no stub adds one.
LEMMA WritesStep ==
    ASSUME NEW v, NEW n \in Nat \ {0}
    PROVE  WritesUpTo(v, n) = IF v.raft.log[n].value = Stub THEN WritesUpTo(v, n - 1)
                              ELSE WritesUpTo(v, n - 1) + 1
<1>1. n - 1 \in Nat
  OBVIOUS
<1>2. CASE v.raft.log[n].value = Stub
  <2>1. Writes(v, n) = Writes(v, n - 1)
    BY <1>2 DEF Writes
  <2> QED BY <1>1, <1>2, <2>1, WritesFinite
<1>3. CASE v.raft.log[n].value # Stub
  <2>1. Writes(v, n) = Writes(v, n - 1) \cup {n} /\ n \notin Writes(v, n - 1)
    BY <1>3 DEF Writes
  <2>2. Cardinality(Writes(v, n)) = Cardinality(Writes(v, n - 1)) + 1
    <3>1. IsFiniteSet(Writes(v, n - 1))
      BY <1>1, WritesFinite
    <3> QED BY <2>1, <3>1, FS_AddElement
  <2> QED BY <1>1, <1>3, <2>2, WritesFinite
<1> QED BY <1>2, <1>3

LEMMA WritesGrow ==
    ASSUME NEW v, NEW m \in Nat, NEW n \in Nat, m <= n
    PROVE  WritesUpTo(v, m) <= WritesUpTo(v, n)
<1>1. Writes(v, m) \subseteq Writes(v, n)
  BY DEF Writes
<1>2. Cardinality(Writes(v, m)) <= Cardinality(Writes(v, n))
  BY <1>1, WritesFinite, FS_Subset
<1> QED BY <1>2, WritesFinite

\* u has the entries of v up to index n.
Keeps(v, u, n) == \A i \in 1..n : u.raft.log[i] = v.raft.log[i]

LEMMA WritesKept ==
    ASSUME NEW v, NEW u, NEW n \in Nat, Keeps(v, u, n)
    PROVE  WritesUpTo(u, n) = WritesUpTo(v, n)
<1>1. Writes(u, n) = Writes(v, n)
  BY DEF Writes, Keeps
<1> QED BY <1>1, WritesFinite

-----------------------------------------------------------------------------
(* The invariant of a server on which the commands in A have arrived. *)

WaitingOf(A) == [index : Nat, request : A]
StrongOf(A) == [index : Nat, seqno : Nat, request : A]

RaftTyped(v) ==
    /\ v.raft \in Raft /\ v.raft.commitIndex <= Len(v.raft.log)
    /\ v.raft.role = "CANDIDATE" => v.raft.leaderId = Nil
    /\ v.reached \in Nat /\ v.reached <= Len(v.raft.log)

QueuesTyped(v, A) ==
    /\ v.waiting \in Seq(WaitingOf(A)) /\ v.strongWaiting \in Seq(StrongOf(A))
    /\ v.parked \in Seq(A) /\ v.seqno \in Nat

CookiesTyped(v) ==
    /\ v.cookieOwner \subseteq Cookie \X Client
    /\ v.clientCookies \subseteq Client \X Cookie
    /\ v.nextCookie \in Cookie

RsmTyped(v) ==
    v.rsm \in Seq(Value) /\ v.lastApplied \in Nat /\ v.savedApplied \in Nat

Typed(v, A) ==
    /\ DOMAIN v = Fields
    /\ RaftTyped(v) /\ QueuesTyped(v, A) /\ CookiesTyped(v) /\ RsmTyped(v)

\* What was forwarded since the server started.
Sent(v) == {m.request : m \in v.forwarded}

\* Cookies number what was forwarded; both maps are made of such numbers.
Numbered(v, A) ==
    /\ Sent(v) \subseteq A
    /\ v.nextCookie = IF Cardinality(Sent(v)) + 1 = CookieSpace THEN 0
                      ELSE Cardinality(Sent(v)) + 1
    /\ \A m \in v.forwarded : m.cookie \in 1..Cardinality(Sent(v))
    /\ \A m, n \in v.forwarded : m.cookie = n.cookie => m = n
    /\ \A p \in v.cookieOwner :
          /\ \E m \in v.forwarded : p = <<m.cookie, m.request.client>>
          /\ <<p[2], p[1]>> \in v.clientCookies
    /\ \A p \in v.clientCookies : <<p[2], p[1]>> \in v.cookieOwner
    /\ \A p \in v.relayed : p[1] = p[2].client

\* The first n entries have been executed.
ExecutedUpTo(v, n) ==
    /\ Len(v.rsm) = WritesUpTo(v, n)
    /\ \A i \in 1..n : v.raft.log[i].value # Stub =>
          v.rsm[WritesUpTo(v, i)] = v.raft.log[i].value

Executed(v) ==
    /\ v.lastApplied <= v.raft.commitIndex /\ v.lastApplied <= v.reached
    /\ ExecutedUpTo(v, v.lastApplied)

\* A command waits for an entry past all that it has to see.
Covers(v, w) ==
    \E r \in 0..v.reached : r <= w.index /\ v.knew[w.request] <= WritesUpTo(v, r)

Repliable(v, A) ==
    /\ \E S : v.replies \in [Request -> Seq(S)]
    /\ \A q \in Request \ A : v.replies[q] = << >>
    /\ \A q \in Request : \A i \in 1..Len(v.replies[q]) :
          v.replies[q][i].kind = "read" => v.replies[q][i].saw >= v.knew[q]

Knowing(v, A) ==
    /\ v.knew \in [Request -> Nat]
    /\ \A q \in Request : v.knew[q] <= WritesUpTo(v, v.reached)
    /\ \A i \in 1..Len(v.waiting) : Covers(v, v.waiting[i])
    /\ \A i \in 1..Len(v.strongWaiting) : Covers(v, v.strongWaiting[i])
    /\ Repliable(v, A)

FewRequests == Cardinality(Request) < CookieSpace

Sound(v, A) ==
    /\ Typed(v, A)
    /\ FewRequests => Numbered(v, A)
    /\ ~ DurableRsm => Executed(v) /\ Knowing(v, A)

-----------------------------------------------------------------------------
(* The handler of a command keeps the invariant. *)

LEMMA AppendFacts ==
    ASSUME NEW S, NEW s \in Seq(S), NEW e \in S
    PROVE  /\ Append(s, e) \in Seq(S) /\ Len(Append(s, e)) = Len(s) + 1
           /\ \A i \in 1..Len(s) : Append(s, e)[i] = s[i]
           /\ Append(s, e)[Len(s) + 1] = e
OBVIOUS

LEMMA SubmitKeeps ==
    ASSUME NEW v, RaftTyped(v), NEW q \in Request, NEW u, Submits(v, u, q),
           u.raft.role = v.raft.role, u.raft.leaderId = v.raft.leaderId,
           u.raft.commitIndex = v.raft.commitIndex, u.reached = v.reached
    PROVE  /\ RaftTyped(u) /\ Len(v.raft.log) <= Len(u.raft.log)
           /\ Keeps(v, u, Len(v.raft.log))
<1>1. CASE u.raft = v.raft
  BY <1>1 DEF RaftTyped, Keeps, Raft
<1>2. CASE v.raft.role = "LEADER" /\ u.raft = Submit(v.raft, Entry(q))
  <2>1. PICK e : e = Entry(q)
    OBVIOUS
  <2>2. e \in LogEntry
    BY <2>1 DEF Entry, LogEntry, Value
  <2>3. v.raft.log \in Seq(LogEntry) /\ v.raft \in Raft
    BY DEF RaftTyped, Raft
  <2>4. u.raft = [v.raft EXCEPT !.log = Append(@, e)]
    BY <1>2, <2>1 DEF Submit
  <2>5. u.raft.log = Append(v.raft.log, e)
    BY <2>3, <2>4 DEF Raft
  <2>6. /\ u.raft.log \in Seq(LogEntry) /\ Len(u.raft.log) = Len(v.raft.log) + 1
        /\ \A i \in 1..Len(v.raft.log) : u.raft.log[i] = v.raft.log[i]
    BY <2>2, <2>3, <2>5
  <2>7. u.raft \in Raft
    BY <2>3, <2>4, <2>5, <2>6 DEF Raft
  <2> QED BY <2>3, <2>6, <2>7 DEF RaftTyped, Keeps, Raft
<1> QED BY <1>1, <1>2 DEF Submits

LEMMA PushesKeep ==
    ASSUME NEW v, NEW A, QueuesTyped(v, A), NEW q \in A, NEW u,
           Pushes(v, u, q), PushesStrong(v, u, q), Parks(v, u, q),
           Len(u.raft.log) \in Nat, Cardinality(Peer) \in Nat,
           u.seqno = v.seqno \/ u.seqno = v.seqno + Cardinality(Peer)
    PROVE  QueuesTyped(u, A)
<1> USE DEF QueuesTyped
<1>1. u.waiting \in Seq(WaitingOf(A))
  <2>1. PICK w : w = [index |-> Len(u.raft.log), request |-> q]
    OBVIOUS
  <2>2. w \in WaitingOf(A)
    BY <2>1 DEF WaitingOf
  <2>3. u.waiting = v.waiting \/ u.waiting = Append(v.waiting, w)
    BY <2>1 DEF Pushes
  <2>4. v.waiting \in Seq(WaitingOf(A))
    OBVIOUS
  <2>5. Append(v.waiting, w) \in Seq(WaitingOf(A))
    BY <2>2, <2>4, AppendFacts
  <2> QED BY <2>3, <2>4, <2>5
<1>2. u.strongWaiting \in Seq(StrongOf(A))
  <2>1. PICK w : w = [index |-> Len(u.raft.log), seqno |-> v.seqno, request |-> q]
    OBVIOUS
  <2>2. w \in StrongOf(A)
    BY <2>1 DEF StrongOf
  <2>3. u.strongWaiting = v.strongWaiting \/ u.strongWaiting = Append(v.strongWaiting, w)
    BY <2>1 DEF PushesStrong
  <2>4. v.strongWaiting \in Seq(StrongOf(A))
    OBVIOUS
  <2>5. Append(v.strongWaiting, w) \in Seq(StrongOf(A))
    BY <2>2, <2>4, AppendFacts
  <2> QED BY <2>3, <2>4, <2>5
<1>3. u.parked \in Seq(A)
  <2>1. u.parked = v.parked \/ u.parked = Append(v.parked, q)
    BY DEF Parks
  <2>2. v.parked \in Seq(A)
    OBVIOUS
  <2>3. Append(v.parked, q) \in Seq(A)
    BY <2>2, AppendFacts
  <2> QED BY <2>1, <2>2, <2>3
<1>4. u.seqno \in Nat
  OBVIOUS
<1> QED BY <1>1, <1>2, <1>3, <1>4

LEMMA CookieStays ==
    ASSUME NEW v, CookiesTyped(v), NEW q \in Request, NEW u,
           Cookies(v, u) \/ TakesCookie(v, u, q)
    PROVE  CookiesTyped(u)
<1>1. CASE Cookies(v, u)
  BY <1>1 DEF Cookies, CookiesTyped
<1>2. CASE TakesCookie(v, u, q)
  <2>1. q.client \in Client
    BY DEF Client
  <2>2. /\ <<v.nextCookie, q.client>> \in Cookie \X Client
        /\ <<q.client, v.nextCookie>> \in Client \X Cookie
    BY <2>1 DEF CookiesTyped
  <2>3. u.nextCookie \in Cookie
    <3>1. CookieSpace \in Nat /\ CookieSpace > 0 /\ v.nextCookie + 1 \in Nat
      BY RequestAssumption DEF CookiesTyped, Cookie
    <3> QED BY <1>2, <3>1 DEF TakesCookie, Cookie
  <2> QED BY <1>2, <2>2, <2>3 DEF TakesCookie, CookiesTyped
<1> QED BY <1>1, <1>2

LEMMA TypedCommand ==
    ASSUME NEW v, NEW A, A \subseteq Request, Typed(v, A), NEW q \in A,
           NEW u, Commanded(v, u, q)
    PROVE  Typed(u, A) /\ Len(v.raft.log) <= Len(u.raft.log) /\ Keeps(v, u, Len(v.raft.log))
<1>1. DOMAIN u = Fields /\ q \in Request
  BY DEF Commanded, Applied
<1>2. RaftTyped(u) /\ Len(v.raft.log) <= Len(u.raft.log) /\ Keeps(v, u, Len(v.raft.log))
  BY SubmitKeeps DEF Typed, Commanded, Applied
<1>3. Len(u.raft.log) \in Nat
  BY <1>2 DEF RaftTyped, Raft
<1>4. Cardinality(Peer) \in Nat
  BY RequestAssumption, FS_CardinalityType
<1>5. QueuesTyped(u, A)
  BY <1>3, <1>4, PushesKeep DEF Typed, Commanded
<1>6. CookiesTyped(u)
  BY CookieStays DEF Typed, Commanded
<1>7. RsmTyped(u)
  BY DEF Typed, Commanded, Applied, RsmTyped
<1> QED BY <1>1, <1>2, <1>5, <1>6, <1>7 DEF Typed

LEMMA Modulo ==
    ASSUME NEW m \in Nat, m > 0, NEW x \in 0..m
    PROVE  x % m = IF x = m THEN 0 ELSE x
OBVIOUS

LEMMA SameNumbers ==
    ASSUME NEW v, NEW u, NEW A, Numbered(v, A), Cookies(v, u), u.relayed = v.relayed
    PROVE  Numbered(u, A) /\ Sent(u) = Sent(v)
<1>1. Sent(u) = Sent(v)
  BY DEF Sent, Cookies
<1> QED BY <1>1 DEF Numbered, Cookies

LEMMA NumberedCommand ==
    ASSUME NEW v, NEW A, A \subseteq Request, FewRequests, Numbered(v, A),
           NEW q \in A, q \notin Sent(v), NEW u,
           Cookies(v, u) \/ TakesCookie(v, u, q), u.relayed = v.relayed
    PROVE  Numbered(u, A) /\ Sent(u) \subseteq Sent(v) \cup {q}
<1>1. CASE Cookies(v, u)
  BY <1>1, SameNumbers
<1>2. CASE TakesCookie(v, u, q)
  <2>1. PICK n : n = Cardinality(Sent(v))
    OBVIOUS
  <2>2. PICK m : m = [to |-> v.raft.leaderId, request |-> q, cookie |-> Number(v)]
    OBVIOUS
  <2>3. u.forwarded = v.forwarded \cup {m}
    BY <1>2, <2>2 DEF TakesCookie
  <2>4. Sent(u) = Sent(v) \cup {q}
    <3>1. m.request = q
      BY <2>2
    <3> QED BY <2>3, <3>1 DEF Sent
  <2>5. IsFiniteSet(Request) /\ Sent(u) \subseteq Request /\ Sent(v) \subseteq Request
    BY <2>4, RequestAssumption DEF Numbered
  <2>6. IsFiniteSet(Sent(v)) /\ n \in Nat /\ Cardinality(Sent(u)) = n + 1
        /\ n + 1 <= Cardinality(Request) /\ Cardinality(Request) \in Nat
    <3>1. IsFiniteSet(Sent(v)) /\ IsFiniteSet(Sent(u))
      BY <2>5, FS_Subset
    <3>2. Cardinality(Sent(u)) = Cardinality(Sent(v)) + 1
      BY <2>4, <3>1, FS_AddElement
    <3>3. Cardinality(Sent(u)) <= Cardinality(Request)
      BY <2>5, FS_Subset
    <3> QED BY <2>1, <2>5, <3>1, <3>2, <3>3, FS_CardinalityType
  <2>7. CookieSpace \in Nat /\ n + 1 < CookieSpace
    BY <2>6, RequestAssumption DEF FewRequests
  <2>8. v.nextCookie = n + 1 /\ Number(v) = n + 1
    BY <2>1, <2>6, <2>7 DEF Numbered, Number
  <2>9. u.nextCookie = IF n + 2 = CookieSpace THEN 0 ELSE n + 2
    <3>1. u.nextCookie = (n + 1 + 1) % CookieSpace
      BY <1>2, <2>8 DEF TakesCookie
    <3>2. n + 1 + 1 \in 0..CookieSpace /\ CookieSpace > 0 /\ n + 1 + 1 = n + 2
      BY <2>6, <2>7
    <3> QED BY <2>7, <3>1, <3>2, Modulo
  <2>10. m.cookie = n + 1 /\ m.request = q
    BY <2>2, <2>8
  <2>11. \A p \in v.forwarded : p.cookie \in 1..n
    BY <2>1 DEF Numbered
  <2>12. \A p \in u.forwarded : p.cookie \in 1..n + 1
    BY <2>3, <2>6, <2>10, <2>11
  <2>13. ASSUME NEW p \in u.forwarded, NEW r \in u.forwarded, p.cookie = r.cookie PROVE p = r
    <3>1. CASE p \in v.forwarded /\ r \in v.forwarded
      BY <2>13, <3>1 DEF Numbered
    <3>2. CASE p \in v.forwarded /\ r = m
      <4>1. p.cookie \in 1..n /\ r.cookie = n + 1
        BY <2>10, <2>11, <3>2
      <4> QED BY <2>6, <2>13, <4>1
    <3>3. CASE p = m /\ r \in v.forwarded
      <4>1. r.cookie \in 1..n /\ p.cookie = n + 1
        BY <2>10, <2>11, <3>3
      <4> QED BY <2>6, <2>13, <4>1
    <3> QED BY <2>3, <3>1, <3>2, <3>3
  <2>14. /\ u.cookieOwner \subseteq v.cookieOwner \cup {<<n + 1, q.client>>}
         /\ <<n + 1, q.client>> \in u.cookieOwner
         /\ u.clientCookies = v.clientCookies \cup {<<q.client, n + 1>>}
    BY <1>2, <2>8 DEF TakesCookie
  <2>15. ASSUME NEW p \in u.cookieOwner
         PROVE  /\ \E r \in u.forwarded : p = <<r.cookie, r.request.client>>
                /\ <<p[2], p[1]>> \in u.clientCookies
    <3>1. CASE p \in v.cookieOwner
      BY <2>3, <2>14, <3>1 DEF Numbered
    <3>2. CASE p = <<n + 1, q.client>>
      <4>1. m \in u.forwarded /\ p = <<m.cookie, m.request.client>>
        BY <2>3, <2>10, <3>2
      <4> QED BY <2>14, <3>2, <4>1
    <3> QED BY <2>14, <3>1, <3>2
  <2>16. ASSUME NEW p \in u.clientCookies PROVE <<p[2], p[1]>> \in u.cookieOwner
    <3>1. CASE p \in v.clientCookies
      <4>1. <<p[2], p[1]>> \in v.cookieOwner
        BY <3>1 DEF Numbered
      <4>2. PICK r \in v.forwarded : <<p[2], p[1]>> = <<r.cookie, r.request.client>>
        BY <4>1 DEF Numbered
      <4>3. p[2] = r.cookie /\ r.cookie \in 1..n
        BY <2>11, <4>2
      <4>4. p[2] # n + 1
        BY <2>6, <4>3
      <4> QED BY <1>2, <2>8, <4>1, <4>4 DEF TakesCookie
    <3>2. CASE p = <<q.client, n + 1>>
      BY <2>14, <3>2
    <3> QED BY <2>14, <3>1, <3>2
  <2>17. \A p \in u.relayed : p[1] = p[2].client
    BY DEF Numbered
  <2>18. Sent(u) \subseteq A
    BY <2>4 DEF Numbered
  <2>19. /\ Cardinality(Sent(u)) = n + 1 /\ n + 1 + 1 = n + 2
         /\ n + 2 = CookieSpace <=> n + 1 + 1 = CookieSpace
    BY <2>6
  <2>20. Numbered(u, A)
    BY <2>9, <2>12, <2>13, <2>15, <2>16, <2>17, <2>18, <2>19 DEF Numbered
  <2> QED BY <2>4, <2>20
<1> QED BY <1>1, <1>2

\* An entry at an index that was applied stays, and with it what was executed.
LEMMA ExecutedKept ==
    ASSUME NEW v, NEW u, NEW n \in Nat, NEW k \in 0..n,
           ExecutedUpTo(v, k), Keeps(v, u, n), u.rsm = v.rsm
    PROVE  ExecutedUpTo(u, k)
<1>1. ASSUME NEW i \in 0..n PROVE WritesUpTo(u, i) = WritesUpTo(v, i)
  <2>1. i \in Nat /\ Keeps(v, u, i)
    BY DEF Keeps
  <2> QED BY <2>1, WritesKept
<1>2. Len(u.rsm) = WritesUpTo(u, k)
  BY <1>1 DEF ExecutedUpTo
<1>3. ASSUME NEW i \in 1..k, u.raft.log[i].value # Stub
      PROVE  u.rsm[WritesUpTo(u, i)] = u.raft.log[i].value
  <2>1. i \in 0..n /\ i \in 1..n
    OBVIOUS
  <2>2. u.raft.log[i] = v.raft.log[i]
    BY <2>1 DEF Keeps
  <2>3. WritesUpTo(u, i) = WritesUpTo(v, i)
    BY <1>1, <2>1
  <2> QED BY <1>3, <2>2, <2>3 DEF ExecutedUpTo
<1> QED BY <1>2, <1>3 DEF ExecutedUpTo

LEMMA CoversKept ==
    ASSUME NEW v, NEW u, v.reached \in Nat, Keeps(v, u, v.reached),
           u.reached \in Nat, v.reached <= u.reached, u.knew = v.knew,
           NEW w, Covers(v, w)
    PROVE  Covers(u, w)
<1>1. PICK r \in 0..v.reached : r <= w.index /\ v.knew[w.request] <= WritesUpTo(v, r)
  BY DEF Covers
<1>2. Keeps(v, u, r)
  BY <1>1 DEF Keeps
<1>3. WritesUpTo(u, r) = WritesUpTo(v, r)
  BY <1>1, <1>2, WritesKept
<1>4. r \in 0..u.reached
  BY <1>1
<1> QED BY <1>1, <1>3, <1>4 DEF Covers

LEMMA AppendAny ==
    ASSUME NEW S, NEW s \in Seq(S), NEW e
    PROVE  /\ Append(s, e) \in Seq(S \cup {e}) /\ Len(Append(s, e)) = Len(s) + 1
           /\ \A i \in 1..Len(s) : Append(s, e)[i] = s[i]
           /\ Append(s, e)[Len(s) + 1] = e
<1>1. s \in Seq(S \cup {e})
  <2>1. \A i \in 1..Len(s) : s[i] \in S \cup {e}
    OBVIOUS
  <2> QED BY <2>1
<1> QED BY <1>1, AppendFacts

LEMMA ReplyKeeps ==
    ASSUME NEW v, NEW u, NEW A, A \subseteq Request, Repliable(v, A), NEW q \in A,
           NEW reply, Replied(v, u, q, reply), u.knew = v.knew,
           reply.kind = "read" => reply.saw >= v.knew[q]
    PROVE  Repliable(u, A)
<1>1. CASE u.replies = v.replies
  BY <1>1 DEF Repliable
<1>2. CASE u.replies = [v.replies EXCEPT ![q] = Append(@, reply)]
  <2>1. PICK S : v.replies \in [Request -> Seq(S)]
    BY DEF Repliable
  <2>2. q \in Request /\ v.replies[q] \in Seq(S)
    BY <2>1
  <2>3. PICK s : s = Append(v.replies[q], reply)
    OBVIOUS
  <2>4. /\ s \in Seq(S \cup {reply}) /\ Len(s) = Len(v.replies[q]) + 1
        /\ \A i \in 1..Len(v.replies[q]) : s[i] = v.replies[q][i]
        /\ s[Len(v.replies[q]) + 1] = reply
    BY <2>2, <2>3, AppendAny
  <2>5. /\ DOMAIN u.replies = Request /\ u.replies[q] = s
        /\ u.replies = [p \in Request |-> IF p = q THEN s ELSE v.replies[p]]
        /\ \A p \in Request \ {q} : u.replies[p] = v.replies[p]
    BY <1>2, <2>1, <2>2, <2>3
  <2>6. u.replies \in [Request -> Seq(S \cup {reply})]
    <3>1. ASSUME NEW p \in Request PROVE u.replies[p] \in Seq(S \cup {reply})
      <4>1. CASE p = q
        BY <2>4, <2>5, <4>1
      <4>2. CASE p # q
        <5>1. u.replies[p] = v.replies[p] /\ v.replies[p] \in Seq(S)
          BY <2>1, <2>5, <4>2
        <5>2. \A i \in 1..Len(v.replies[p]) : v.replies[p][i] \in S \cup {reply}
          BY <5>1
        <5> QED BY <5>1, <5>2
      <4> QED BY <4>1, <4>2
    <3> QED BY <2>5, <3>1
  <2>7. \A p \in Request \ A : u.replies[p] = << >>
    BY <2>5 DEF Repliable
  <2>8. ASSUME NEW p \in Request, NEW i \in 1..Len(u.replies[p]), u.replies[p][i].kind = "read"
        PROVE  u.replies[p][i].saw >= u.knew[p]
    <3>1. CASE p # q
      BY <2>5, <2>8, <3>1 DEF Repliable
    <3>2. CASE p = q
      <4>1. i \in 1..Len(s) /\ s[i].kind = "read" /\ Len(v.replies[q]) \in Nat
        BY <2>2, <2>5, <2>8, <3>2
      <4>2. CASE i = Len(v.replies[q]) + 1
        BY <2>4, <2>5, <3>2, <4>1, <4>2
      <4>3. CASE i # Len(v.replies[q]) + 1
        <5>1. i \in 1..Len(v.replies[q])
          BY <2>4, <4>1, <4>3
        <5>2. s[i] = v.replies[q][i]
          BY <2>4, <5>1
        <5> QED BY <2>2, <2>5, <3>2, <4>1, <5>1, <5>2 DEF Repliable
      <4> QED BY <4>2, <4>3
    <3> QED BY <3>1, <3>2
  <2> QED BY <2>6, <2>7, <2>8 DEF Repliable
<1> QED BY <1>1, <1>2 DEF Replied

LEMMA KnowingCommand ==
    ASSUME NEW v, NEW A, A \subseteq Request, Typed(v, A), Knowing(v, A), NEW q \in A,
           NEW u, Commanded(v, u, q), RaftTyped(u), Keeps(v, u, Len(v.raft.log))
    PROVE  Knowing(u, A)
<1>1. /\ v.reached \in Nat /\ v.reached <= Len(v.raft.log) /\ u.reached = v.reached
      /\ u.knew = v.knew /\ u.reached <= Len(u.raft.log)
      /\ Len(v.raft.log) \in Nat /\ Len(u.raft.log) \in Nat
  BY DEF Typed, RaftTyped, Commanded, Applied, Raft
<1>2. Keeps(v, u, v.reached)
  <2>1. \A i \in 1..v.reached : i \in 1..Len(v.raft.log)
    BY <1>1
  <2>2. \A i \in 1..Len(v.raft.log) : u.raft.log[i] = v.raft.log[i]
    BY DEF Keeps
  <2> QED BY <2>1, <2>2 DEF Keeps
<1>3. WritesUpTo(u, u.reached) = WritesUpTo(v, v.reached)
  BY <1>1, <1>2, WritesKept
<1>4. \A p \in Request : u.knew[p] <= WritesUpTo(u, u.reached)
  BY <1>1, <1>3 DEF Knowing
<1>5. ASSUME NEW w, Covers(v, w) PROVE Covers(u, w)
  BY <1>1, <1>2, <1>5, CoversKept
<1>6. ASSUME NEW w, w.index = Len(u.raft.log), w.request = q PROVE Covers(u, w)
  <2>1. u.reached \in 0..u.reached /\ u.reached <= w.index
    BY <1>1, <1>6
  <2>2. u.knew[w.request] <= WritesUpTo(u, u.reached)
    BY <1>4, <1>6
  <2> QED BY <2>1, <2>2 DEF Covers
<1>7. \A i \in 1..Len(u.waiting) : Covers(u, u.waiting[i])
  <2>1. PICK w : w = [index |-> Len(u.raft.log), request |-> q]
    OBVIOUS
  <2>2. CASE u.waiting = v.waiting
    BY <1>5, <2>2 DEF Knowing
  <2>3. CASE u.waiting = Append(v.waiting, w)
    <3>1. v.waiting \in Seq(WaitingOf(A))
      BY DEF Typed, QueuesTyped
    <3>2. /\ Len(u.waiting) = Len(v.waiting) + 1 /\ Len(v.waiting) \in Nat
          /\ \A i \in 1..Len(v.waiting) : u.waiting[i] = v.waiting[i]
          /\ u.waiting[Len(v.waiting) + 1] = w
      BY <2>3, <3>1, AppendAny
    <3>3. Covers(u, w)
      BY <1>6, <2>1
    <3> QED BY <1>5, <3>2, <3>3 DEF Knowing
  <2> QED BY <2>1, <2>2, <2>3 DEF Commanded, Pushes
<1>8. \A i \in 1..Len(u.strongWaiting) : Covers(u, u.strongWaiting[i])
  <2>1. PICK w : w = [index |-> Len(u.raft.log), seqno |-> v.seqno, request |-> q]
    OBVIOUS
  <2>2. CASE u.strongWaiting = v.strongWaiting
    BY <1>5, <2>2 DEF Knowing
  <2>3. CASE u.strongWaiting = Append(v.strongWaiting, w)
    <3>1. v.strongWaiting \in Seq(StrongOf(A))
      BY DEF Typed, QueuesTyped
    <3>2. /\ Len(u.strongWaiting) = Len(v.strongWaiting) + 1 /\ Len(v.strongWaiting) \in Nat
          /\ \A i \in 1..Len(v.strongWaiting) : u.strongWaiting[i] = v.strongWaiting[i]
          /\ u.strongWaiting[Len(v.strongWaiting) + 1] = w
      BY <2>3, <3>1, AppendAny
    <3>3. Covers(u, w)
      BY <1>6, <2>1
    <3> QED BY <1>5, <3>2, <3>3 DEF Knowing
  <2> QED BY <2>1, <2>2, <2>3 DEF Commanded, PushesStrong
<1>9. Repliable(u, A)
  <2>1. CASE u.replies = v.replies
    BY <1>1, <2>1 DEF Knowing, Repliable
  <2>2. CASE u.replies # v.replies
    <3>1. PICK reply : reply.kind # "read" /\ Replied(v, u, q, reply)
      BY <2>2 DEF Commanded, Refuses
    <3> QED BY <1>1, <3>1, ReplyKeeps DEF Knowing
  <2> QED BY <2>1, <2>2
<1> QED BY <1>1, <1>4, <1>7, <1>8, <1>9 DEF Knowing

LEMMA CommandKeeps ==
    ASSUME NEW v, NEW A, A \subseteq Request, Sound(v, A), NEW q \in A,
           FewRequests => q \notin Sent(v), NEW u, Commanded(v, u, q)
    PROVE  Sound(u, A) /\ (FewRequests => Sent(u) \subseteq Sent(v) \cup {q})
<1>1. Typed(v, A)
  BY DEF Sound
<1>2. Typed(u, A) /\ Len(v.raft.log) <= Len(u.raft.log) /\ Keeps(v, u, Len(v.raft.log))
  BY <1>1, TypedCommand
<1>3. ASSUME FewRequests PROVE Numbered(u, A) /\ Sent(u) \subseteq Sent(v) \cup {q}
  <2>1. Cookies(v, u) \/ TakesCookie(v, u, q)
    BY DEF Commanded
  <2>2. u.relayed = v.relayed
    BY DEF Commanded, Applied
  <2> QED BY <1>3, <2>1, <2>2, NumberedCommand DEF Sound
<1>4. ASSUME ~ DurableRsm PROVE Executed(u) /\ Knowing(u, A)
  <2>1. Executed(v) /\ Knowing(v, A)
    BY <1>4 DEF Sound
  <2>2. Knowing(u, A)
    BY <1>1, <1>2, <2>1, KnowingCommand DEF Typed
  <2>3. /\ u.lastApplied = v.lastApplied /\ u.raft.commitIndex = v.raft.commitIndex
        /\ u.reached = v.reached /\ u.rsm = v.rsm
    BY DEF Commanded, Applied
  <2>4. v.lastApplied \in 0..Len(v.raft.log) /\ Len(v.raft.log) \in Nat
    BY <1>1, <2>1 DEF Typed, RaftTyped, RsmTyped, Executed, Raft
  <2>5. ExecutedUpTo(u, v.lastApplied)
    BY <1>2, <2>1, <2>3, <2>4, ExecutedKept DEF Executed
  <2> QED BY <2>1, <2>2, <2>3, <2>5 DEF Executed
<1> QED BY <1>2, <1>3, <1>4 DEF Sound

-----------------------------------------------------------------------------
(* What was parked. *)

Fresh(v) ==
    /\ \A i \in 1..Len(v.parked) : v.parked[i] \notin Sent(v)
    /\ \A i, j \in 1..Len(v.parked) : v.parked[i] = v.parked[j] => i = j

Settled(v, A) ==
    /\ Sound(v, A)
    /\ v.parked # << >> => v.raft.leaderId = Nil
    /\ FewRequests => Fresh(v)

LEMMA UnparkedSound ==
    ASSUME NEW v, NEW A, Sound(v, A), NEW u, u = [v EXCEPT !.parked = << >>]
    PROVE  Sound(u, A) /\ u.parked = << >> /\ Sent(u) = Sent(v) /\ u.raft = v.raft
<1>1. DOMAIN u = Fields
  BY DEF Sound, Typed
<1>2. /\ u.raft = v.raft /\ Queued(v, u) /\ Cookies(v, u) /\ u.parked = << >>
      /\ u.rsm = v.rsm /\ u.lastApplied = v.lastApplied /\ u.savedApplied = v.savedApplied
      /\ u.seqno = v.seqno /\ u.replies = v.replies
      /\ u.relayed = v.relayed /\ u.reached = v.reached /\ u.knew = v.knew
  BY DEF Sound, Typed, Fields, Queued, Cookies
<1>3. Typed(u, A)
  BY <1>1, <1>2 DEF Sound, Typed, RaftTyped, QueuesTyped, CookiesTyped, RsmTyped, Queued, Cookies
<1>4. Sent(u) = Sent(v) /\ (FewRequests => Numbered(u, A))
  BY <1>2, SameNumbers DEF Sound, Sent, Cookies
<1>5. ASSUME ~ DurableRsm PROVE Executed(u) /\ Knowing(u, A)
  <2>1. \A n : WritesUpTo(u, n) = WritesUpTo(v, n)
    BY <1>2 DEF WritesUpTo
  <2>2. Executed(u)
    BY <1>2, <1>5, <2>1 DEF Sound, Executed, ExecutedUpTo
  <2>3. \A w : Covers(v, w) => Covers(u, w)
    BY <1>2, <2>1 DEF Covers
  <2>4. Repliable(u, A)
    BY <1>2, <1>5 DEF Sound, Knowing, Repliable
  <2> QED BY <1>2, <1>5, <2>1, <2>2, <2>3, <2>4 DEF Sound, Knowing, Queued
<1> QED BY <1>2, <1>3, <1>4, <1>5 DEF Sound

\* After so many turns.
Resuming(v, u, A, k) ==
    /\ Sound(u, A) /\ u.parked = << >>
    /\ u.raft.role = v.raft.role /\ u.raft.leaderId = v.raft.leaderId
    /\ FewRequests => \A j \in 1..Len(v.parked) : j > k => v.parked[j] \notin Sent(u)

LEMMA ResumedKeeps ==
    ASSUME NEW v, NEW A, A \subseteq Request, Sound(v, A), FewRequests => Fresh(v),
           v.raft.role # "CANDIDATE", v.raft.leaderId # Nil
    PROVE  Sound(Resumed(v), A) /\ Resumed(v).parked = << >>
<1>1. v.parked \in Seq(A) /\ Len(v.parked) \in Nat
  BY DEF Sound, Typed, QueuesTyped
<1>2. PICK turn : Resumes(turn, v)
  BY <1>1, ResumeTurns
<1> DEFINE S == {k \in Nat : k <= Len(v.parked) => Resuming(v, turn[k], A, k)}
<1>3. 0 \in S
  <2>1. PICK u : u = [v EXCEPT !.parked = << >>]
    OBVIOUS
  <2>2. turn[0] = u
    BY <1>2, <2>1 DEF Resumes
  <2>3. Sound(u, A) /\ u.parked = << >> /\ Sent(u) = Sent(v) /\ u.raft = v.raft
    BY <2>1, UnparkedSound
  <2>4. Resuming(v, u, A, 0)
    BY <2>3 DEF Resuming, Fresh
  <2> QED BY <2>2, <2>4
<1>4. ASSUME NEW k \in S PROVE k + 1 \in S
  <2> SUFFICES ASSUME k + 1 <= Len(v.parked) PROVE Resuming(v, turn[k + 1], A, k + 1)
    OBVIOUS
  <2>1. k \in Nat /\ k + 1 \in 1..Len(v.parked) /\ k <= Len(v.parked) /\ k + 1 - 1 = k /\ k + 1 > k
    BY <1>1
  <2>2. PICK x : x = turn[k]
    OBVIOUS
  <2>3. PICK q : q = v.parked[k + 1]
    OBVIOUS
  <2>4. PICK u : u = turn[k + 1]
    OBVIOUS
  <2>5. Resuming(v, x, A, k)
    BY <2>1, <2>2
  <2>6. u = OnCommandRequest(x, q)
    BY <1>2, <2>1, <2>2, <2>3, <2>4 DEF Resumes
  <2>7. q \in A /\ q \in Request
    BY <1>1, <2>1, <2>3
  <2>8. Commanded(x, u, q)
    BY <2>5, <2>6, <2>7, CommandEffect DEF Resuming, Sound, Typed, RaftTyped
  <2>9. FewRequests => q \notin Sent(x)
    BY <2>1, <2>3, <2>5 DEF Resuming
  <2>10. Sound(u, A) /\ (FewRequests => Sent(u) \subseteq Sent(x) \cup {q})
    BY <2>5, <2>7, <2>8, <2>9, CommandKeeps DEF Resuming
  <2>11. u.raft.role = v.raft.role /\ u.raft.leaderId = v.raft.leaderId /\ u.parked = << >>
    BY <2>5, <2>8 DEF Commanded, Applied, Parks, Resuming
  <2>12. ASSUME FewRequests, NEW j \in 1..Len(v.parked), j > k + 1
         PROVE  v.parked[j] \notin Sent(u)
    <3>1. v.parked[j] # q
      BY <2>1, <2>3, <2>12 DEF Fresh
    <3>2. j > k
      BY <2>1, <2>12
    <3>3. v.parked[j] \notin Sent(x)
      BY <2>5, <2>12, <3>2 DEF Resuming
    <3> QED BY <2>10, <2>12, <3>1, <3>3
  <2> QED BY <2>4, <2>10, <2>11, <2>12 DEF Resuming
<1>5. S = Nat
  <2>1. S \in SUBSET Nat
    OBVIOUS
  <2> HIDE DEF S
  <2> QED BY <1>3, <1>4, <2>1, Inductive
<1>6. Resuming(v, turn[Len(v.parked)], A, Len(v.parked))
  BY <1>1, <1>5
<1>7. Resumed(v) = turn[Len(v.parked)]
  BY <1>2 DEF Resumes
<1> HIDE DEF S
<1> QED BY <1>6, <1>7 DEF Resuming

LEMMA CheckKeeps ==
    ASSUME NEW v, NEW A, A \subseteq Request, Sound(v, A), FewRequests => Fresh(v)
    PROVE  Settled(CheckStateChange(v), A)
<1>1. CASE v.parked = << >> \/ v.raft.role = "CANDIDATE" \/ v.raft.leaderId = Nil
  <2>1. CheckStateChange(v) = v
    BY <1>1 DEF CheckStateChange
  <2>2. v.parked # << >> => v.raft.leaderId = Nil
    BY <1>1 DEF Sound, Typed, RaftTyped
  <2> QED BY <2>1, <2>2 DEF Settled
<1>2. CASE ~ (v.parked = << >> \/ v.raft.role = "CANDIDATE" \/ v.raft.leaderId = Nil)
  <2>1. CheckStateChange(v) = Resumed(v)
    BY <1>2 DEF CheckStateChange
  <2>2. Sound(Resumed(v), A) /\ Resumed(v).parked = << >>
    BY <1>2, ResumedKeeps
  <2>3. Fresh(Resumed(v))
    BY <2>2 DEF Fresh
  <2> QED BY <2>1, <2>2, <2>3 DEF Settled
<1> QED BY <1>1, <1>2

-----------------------------------------------------------------------------
(* What is committed is applied. *)

\* After the entries up to index i.
Applying(v, u, i) ==
    /\ Unapplied(v, u) /\ RsmTyped(u)
    /\ ExecutedUpTo(v, v.lastApplied) /\ v.lastApplied <= i =>
          u.lastApplied <= i /\ ExecutedUpTo(u, i)

LEMMA SameRaft ==
    ASSUME NEW v, NEW u, u.raft = v.raft
    PROVE  /\ \A n : WritesUpTo(u, n) = WritesUpTo(v, n)
           /\ \A n : Keeps(v, u, n)
BY DEF WritesUpTo, Keeps

LEMMA ExecuteNext ==
    ASSUME NEW v, NEW u, u.raft = v.raft, v.rsm \in Seq(Value),
           NEW i \in Nat \ {0}, ExecutedUpTo(v, i - 1), NEW e,
           e = v.raft.log[i].value, e \in Value,
           u.rsm = IF e = Stub THEN v.rsm ELSE Append(v.rsm, e)
    PROVE  ExecutedUpTo(u, i)
<1>1. \A n : WritesUpTo(u, n) = WritesUpTo(v, n)
  BY SameRaft
<1>2. i - 1 \in Nat /\ Len(v.rsm) \in Nat /\ WritesUpTo(v, i) \in Nat
  BY WritesFinite
<1>3. Len(v.rsm) = WritesUpTo(v, i - 1)
  BY DEF ExecutedUpTo
<1>4. WritesUpTo(v, i) = IF e = Stub THEN Len(v.rsm) ELSE Len(v.rsm) + 1
  BY <1>3, WritesStep
<1>5. /\ Len(u.rsm) = WritesUpTo(v, i)
      /\ \A k \in 1..Len(v.rsm) : u.rsm[k] = v.rsm[k]
      /\ e # Stub => u.rsm[WritesUpTo(v, i)] = e
  <2>1. CASE e = Stub
    BY <1>4, <2>1
  <2>2. CASE e # Stub
    BY <1>4, <2>2, AppendFacts
  <2> QED BY <2>1, <2>2
<1>6. ASSUME NEW j \in 1..i, v.raft.log[j].value # Stub
      PROVE  u.rsm[WritesUpTo(v, j)] = v.raft.log[j].value
  <2>1. CASE j = i
    BY <1>5, <1>6, <2>1
  <2>2. CASE j # i
    <3>1. j \in 1..i - 1 /\ j \in Nat \ {0} /\ j - 1 \in Nat
      BY <2>2
    <3>2. v.rsm[WritesUpTo(v, j)] = v.raft.log[j].value
      BY <1>6, <3>1 DEF ExecutedUpTo
    <3>3. WritesUpTo(v, j) = WritesUpTo(v, j - 1) + 1 /\ WritesUpTo(v, j - 1) \in Nat
      BY <1>6, <3>1, WritesStep, WritesFinite
    <3>4. WritesUpTo(v, j) <= WritesUpTo(v, i - 1)
      BY <1>2, <3>1, WritesGrow
    <3>5. WritesUpTo(v, j) \in 1..Len(v.rsm)
      BY <1>2, <1>3, <3>3, <3>4
    <3> QED BY <1>5, <3>2, <3>5
  <2> QED BY <2>1, <2>2
<1> QED BY <1>1, <1>5, <1>6 DEF ExecutedUpTo

LEMMA ApplyingNext ==
    ASSUME NEW v, DOMAIN v = Fields, RaftTyped(v), RsmTyped(v), NEW x,
           NEW i \in 1..v.raft.commitIndex, v.lastApplied < i, Applying(v, x, i - 1), NEW u,
           u = ApplyEntry(x, [index |-> i, value |-> v.raft.log[i].value])
    PROVE  Applying(v, u, i)
<1>1. PICK w : w = [index |-> i, value |-> v.raft.log[i].value]
  OBVIOUS
<1>2. Unapplied(x, u) /\ Executes(x, u, w)
  <2>1. DOMAIN x = Fields
    BY DEF Applying, Unapplied
  <2>2. u = ApplyEntry(x, w)
    BY <1>1
  <2> QED BY <2>1, <2>2, ApplyEffect
<1>3. Unapplied(v, u)
  BY <1>2 DEF Applying, Unapplied, Queued, Cookies
<1>4. i \in Nat \ {0} /\ w.index = i /\ w.value = v.raft.log[i].value /\ w.value \in Value
      /\ i - 1 \in Nat /\ v.lastApplied \in Nat /\ i > i - 1
  <2>1. v.raft.commitIndex \in Nat /\ v.raft.log \in Seq(LogEntry) /\ v.lastApplied \in Nat
    BY DEF RaftTyped, RsmTyped, Raft
  <2>2. i \in 1..Len(v.raft.log)
    BY <2>1 DEF RaftTyped
  <2>3. v.raft.log[i].value \in Value
    <3>1. v.raft.log[i] \in LogEntry
      BY <2>1, <2>2
    <3> QED BY <3>1 DEF LogEntry
  <2> QED BY <1>1, <2>1, <2>3
<1>5. RsmTyped(x)
  BY DEF Applying
<1>6. RsmTyped(u)
  <2>1. Append(x.rsm, w.value) \in Seq(Value)
    BY <1>4, <1>5, AppendFacts DEF RsmTyped
  <2> QED BY <1>2, <1>4, <1>5, <2>1 DEF RsmTyped, Executes
<1>7. ASSUME ExecutedUpTo(v, v.lastApplied) PROVE u.lastApplied <= i /\ ExecutedUpTo(u, i)
  <2>1. x.lastApplied <= i - 1 /\ ExecutedUpTo(x, i - 1) /\ x.lastApplied \in Nat
    <3>1. v.lastApplied <= i - 1
      BY <1>4
    <3>2. x.lastApplied <= i - 1 /\ ExecutedUpTo(x, i - 1)
      BY <1>7, <3>1 DEF Applying
    <3>3. x.lastApplied \in Nat
      BY <1>5 DEF RsmTyped
    <3> QED BY <3>2, <3>3
  <2>2. u.lastApplied <= i
    <3>1. u.lastApplied = x.lastApplied \/ u.lastApplied = i
      BY <1>2, <1>4 DEF Executes
    <3> QED BY <1>4, <2>1, <3>1
  <2>3. u.rsm = IF w.value = Stub THEN x.rsm ELSE Append(x.rsm, w.value)
    <3>1. ~ (x.lastApplied >= w.index)
      BY <1>4, <2>1
    <3> QED BY <1>2, <3>1 DEF Executes
  <2>4. u.raft = x.raft /\ w.value = x.raft.log[i].value
    BY <1>2, <1>4 DEF Unapplied, Applying
  <2>5. ExecutedUpTo(u, i)
    BY <1>4, <1>5, <2>1, <2>3, <2>4, ExecuteNext DEF RsmTyped
  <2> QED BY <2>2, <2>5
<1> QED BY <1>3, <1>6, <1>7 DEF Applying

LEMMA AppliedAll ==
    ASSUME NEW v, DOMAIN v = Fields, RaftTyped(v), RsmTyped(v),
           NEW done, Applies(done, v)
    PROVE  Applying(v, done[v.raft.commitIndex], v.raft.commitIndex)
<1>1. v.raft.commitIndex \in Nat /\ v.lastApplied \in Nat
  BY DEF RaftTyped, RsmTyped, Raft
<1> DEFINE S == {i \in Nat : i <= v.raft.commitIndex => Applying(v, done[i], i)}
<1>2. ASSUME NEW i \in 0..v.raft.commitIndex, i <= v.lastApplied PROVE Applying(v, done[i], i)
  <2>1. done[i] = v
    BY <1>2 DEF Applies
  <2>2. v.lastApplied <= i => i = v.lastApplied
    BY <1>1, <1>2
  <2>3. Unapplied(v, v)
    BY DEF Unapplied, Queued, Cookies
  <2> QED BY <1>1, <2>1, <2>2, <2>3 DEF Applying
<1>3. 0 \in S
  BY <1>1, <1>2
<1>4. ASSUME NEW i \in S PROVE i + 1 \in S
  <2> SUFFICES ASSUME i + 1 <= v.raft.commitIndex PROVE Applying(v, done[i + 1], i + 1)
    OBVIOUS
  <2>1. i \in Nat /\ i + 1 \in 1..v.raft.commitIndex /\ i + 1 \in 0..v.raft.commitIndex
        /\ i <= v.raft.commitIndex /\ i + 1 - 1 = i
    BY <1>1
  <2>2. CASE i + 1 <= v.lastApplied
    BY <1>2, <2>1, <2>2
  <2>3. CASE ~ (i + 1 <= v.lastApplied)
    <3>1. PICK x : x = done[i]
      OBVIOUS
    <3>2. PICK u : u = done[i + 1]
      OBVIOUS
    <3>3. u = ApplyEntry(x, [index |-> i + 1, value |-> v.raft.log[i + 1].value])
      BY <2>1, <2>3, <3>1, <3>2 DEF Applies
    <3>4. Applying(v, x, i + 1 - 1)
      BY <2>1, <3>1
    <3>5. v.lastApplied < i + 1
      BY <1>1, <2>1, <2>3
    <3>6. Applying(v, u, i + 1)
      BY <2>1, <3>3, <3>4, <3>5, ApplyingNext
    <3> QED BY <3>2, <3>6
  <2> QED BY <2>2, <2>3
<1>5. S = Nat
  <2>1. S \in SUBSET Nat
    OBVIOUS
  <2> HIDE DEF S
  <2> QED BY <1>3, <1>4, <2>1, Inductive
<1> QED BY <1>1, <1>5

LEMMA CommittedKeeps ==
    ASSUME NEW v, NEW A, Sound(v, A), NEW u, u = ProcessCommitted(v)
    PROVE  /\ Sound(u, A) /\ u.raft = v.raft /\ u.parked = v.parked /\ Sent(u) = Sent(v)
           /\ DOMAIN u = Fields
<1>1. /\ DOMAIN v = Fields /\ RaftTyped(v) /\ RsmTyped(v) /\ QueuesTyped(v, A)
      /\ CookiesTyped(v)
  BY DEF Sound, Typed
<1>2. CASE v.failed # None
  <2>1. u = v
    BY <1>2 DEF ProcessCommitted
  <2> QED BY <1>1, <2>1
<1>3. CASE v.failed = None
  <2>1. PICK c : c = v.raft.commitIndex
    OBVIOUS
  <2>2. c \in Nat /\ v.lastApplied \in Nat /\ v.reached \in Nat /\ c <= Len(v.raft.log)
        /\ v.reached <= Len(v.raft.log) /\ Len(v.raft.log) \in Nat
    BY <1>1, <2>1 DEF RaftTyped, RsmTyped, Raft
  <2>3. PICK done : Applies(done, v)
    BY <2>1, <2>2, ApplyTurns
  <2>4. PICK d : d = done[c]
    OBVIOUS
  <2>5. Applying(v, d, c)
    BY <1>1, <2>1, <2>3, <2>4, AppliedAll
  <2>6. u = [d EXCEPT !.lastApplied = c, !.reached = IF c > @ THEN c ELSE @]
    BY <1>3, <2>1, <2>3, <2>4 DEF Applies
  <2>7. DOMAIN d = Fields /\ d.raft = v.raft /\ d.reached = v.reached /\ Queued(v, d)
        /\ d.parked = v.parked /\ Cookies(v, d) /\ d.seqno = v.seqno
        /\ d.relayed = v.relayed /\ d.replies = v.replies /\ d.knew = v.knew
    BY <2>5 DEF Applying, Unapplied
  <2>8. DOMAIN u = Fields /\ u.raft = v.raft /\ Queued(v, u)
        /\ u.parked = v.parked /\ Cookies(v, u) /\ u.seqno = v.seqno
        /\ u.relayed = v.relayed /\ u.replies = v.replies /\ u.knew = v.knew
        /\ u.rsm = d.rsm /\ u.savedApplied = d.savedApplied /\ u.lastApplied = c
        /\ u.reached = IF c > v.reached THEN c ELSE v.reached
    BY <2>6, <2>7 DEF Fields, Queued, Cookies
  <2>9. u.reached \in Nat /\ v.reached <= u.reached /\ c <= u.reached
        /\ u.reached <= Len(v.raft.log)
    BY <2>2, <2>8
  <2>10. RsmTyped(u)
    BY <2>2, <2>5, <2>8 DEF Applying, RsmTyped
  <2>11. Typed(u, A)
    BY <1>1, <2>8, <2>9, <2>10
       DEF Typed, RaftTyped, QueuesTyped, CookiesTyped, Queued, Cookies
  <2>12. Sent(u) = Sent(v) /\ (FewRequests => Numbered(u, A))
    BY <2>8, SameNumbers DEF Sound, Sent, Cookies
  <2>13. ASSUME ~ DurableRsm PROVE Executed(u) /\ Knowing(u, A)
    <3>1. Executed(v) /\ Knowing(v, A)
      BY <2>13 DEF Sound
    <3>2. ExecutedUpTo(d, c)
      BY <2>1, <2>5, <3>1 DEF Applying, Executed
    <3>3. /\ \A n : WritesUpTo(u, n) = WritesUpTo(v, n)
          /\ \A n : WritesUpTo(d, n) = WritesUpTo(v, n)
          /\ \A n : Keeps(v, u, n)
      BY <2>7, <2>8, SameRaft
    <3>4. Executed(u)
      <4>1. ExecutedUpTo(u, c)
        BY <2>7, <2>8, <3>2, <3>3 DEF ExecutedUpTo
      <4>2. u.lastApplied = c /\ u.raft.commitIndex = c /\ c <= c /\ c <= u.reached
        BY <2>1, <2>2, <2>8, <2>9
      <4> QED BY <4>1, <4>2 DEF Executed
    <3>5. ASSUME NEW q \in Request PROVE u.knew[q] <= WritesUpTo(u, u.reached)
      <4>1. u.knew[q] <= WritesUpTo(v, v.reached) /\ u.knew[q] \in Nat
        BY <2>8, <3>1 DEF Knowing
      <4>2. WritesUpTo(v, v.reached) <= WritesUpTo(v, u.reached)
        BY <2>2, <2>9, WritesGrow
      <4>3. WritesUpTo(v, v.reached) \in Nat /\ WritesUpTo(v, u.reached) \in Nat
        BY <2>2, <2>9, WritesFinite
      <4> QED BY <3>3, <4>1, <4>2, <4>3
    <3>6. \A w : Covers(v, w) => Covers(u, w)
      BY <2>2, <2>8, <2>9, <3>3, CoversKept
    <3>7. Repliable(u, A)
      BY <2>8, <3>1 DEF Knowing, Repliable
    <3> QED BY <2>8, <3>1, <3>4, <3>5, <3>6, <3>7 DEF Knowing, Queued
  <2> QED BY <2>8, <2>11, <2>12, <2>13 DEF Sound
<1> QED BY <1>2, <1>3

-----------------------------------------------------------------------------
(* What waits is answered. *)

\* A read that is due sees what it has to see.
Seeing(v, w) == ~ DurableRsm => v.knew[w.request] <= Len(v.rsm)

LEMMA AnswerKeeps ==
    ASSUME NEW v, NEW A, A \subseteq Request, Sound(v, A), NEW w, w.request \in A,
           Seeing(v, w), NEW u, Unanswered(v, u), Answered1(v, u, w)
    PROVE  Sound(u, A)
<1>1. Typed(u, A)
  BY DEF Sound, Typed, RaftTyped, QueuesTyped, CookiesTyped, RsmTyped, Unanswered, Queued, Cookies
<1>2. FewRequests => Numbered(u, A)
  BY SameNumbers DEF Sound, Unanswered
<1>3. ASSUME ~ DurableRsm PROVE Executed(u) /\ Knowing(u, A)
  <2>1. /\ \A n : WritesUpTo(u, n) = WritesUpTo(v, n)
        /\ u.raft = v.raft /\ u.rsm = v.rsm /\ u.lastApplied = v.lastApplied
        /\ u.reached = v.reached /\ u.knew = v.knew
        /\ u.waiting = v.waiting /\ u.strongWaiting = v.strongWaiting
    BY SameRaft DEF Unanswered, Queued
  <2>2. Executed(v) /\ Knowing(v, A)
    BY <1>3 DEF Sound
  <2>3. Executed(u)
    BY <2>1, <2>2 DEF Executed, ExecutedUpTo
  <2>4. \A x : Covers(v, x) => Covers(u, x)
    BY <2>1 DEF Covers
  <2>5. Repliable(u, A)
    <3>1. CASE u.replies = v.replies
      BY <2>1, <2>2, <3>1 DEF Knowing, Repliable
    <3>2. CASE u.replies # v.replies
      <4>1. PICK reply : /\ IF w.request.kind = "write" THEN reply.kind = "write"
                            ELSE reply.kind = "read" /\ reply.saw = Len(v.rsm)
                         /\ Replied(v, u, w.request, reply)
        BY <3>2 DEF Answered1
      <4>2. reply.kind = "read" => reply.saw >= v.knew[w.request]
        <5>1. SUFFICES ASSUME reply.kind = "read" PROVE reply.saw >= v.knew[w.request]
          OBVIOUS
        <5>2. reply.saw = Len(v.rsm)
          BY <4>1, <5>1
        <5>3. v.knew[w.request] <= Len(v.rsm)
          BY <1>3 DEF Seeing
        <5>4. Len(v.rsm) \in Nat /\ v.knew[w.request] \in Nat
          BY <2>2 DEF Sound, Typed, RsmTyped, Knowing
        <5> QED BY <5>2, <5>3, <5>4
      <4> QED BY <2>1, <2>2, <4>1, <4>2, ReplyKeeps DEF Knowing
    <3> QED BY <3>1, <3>2
  <2> QED BY <2>1, <2>2, <2>3, <2>4, <2>5 DEF Knowing
<1> QED BY <1>1, <1>2, <1>3 DEF Sound

Answering(v, u, A) == Sound(u, A) /\ Unanswered(v, u)

LEMMA AnswersKeep ==
    ASSUME NEW v, NEW A, A \subseteq Request, Sound(v, A), NEW queue, Len(queue) \in Nat,
           Last(queue).request \in A, Seeing(v, Last(queue))
    PROVE  Answering(v, AnswerAll(v, queue), A)
<1>1. PICK turn : Answers(turn, v, queue)
  BY AnswerTurns
<1> DEFINE S == {k \in Nat : k <= Len(queue) => Answering(v, turn[k], A)}
<1>2. 0 \in S
  <2>1. turn[0] = v
    BY <1>1 DEF Answers
  <2>2. Unanswered(v, v)
    BY DEF Sound, Typed, Unanswered, Queued, Cookies
  <2> QED BY <2>1, <2>2 DEF Answering
<1>3. ASSUME NEW k \in S PROVE k + 1 \in S
  <2> SUFFICES ASSUME k + 1 <= Len(queue) PROVE Answering(v, turn[k + 1], A)
    OBVIOUS
  <2>1. k \in Nat /\ k + 1 \in 1..Len(queue) /\ k <= Len(queue) /\ k + 1 - 1 = k
    OBVIOUS
  <2>2. PICK x : x = turn[k]
    OBVIOUS
  <2>3. PICK u : u = turn[k + 1]
    OBVIOUS
  <2>4. PICK w : w = Last(queue)
    OBVIOUS
  <2>5. Answering(v, x, A)
    BY <2>1, <2>2
  <2>6. u = AnswerNewest(x, w)
    BY <1>1, <2>1, <2>2, <2>3, <2>4 DEF Answers
  <2>7. Unanswered(x, u) /\ Answered1(x, u, w)
    BY <2>5, <2>6, AnswerEffect DEF Answering, Unanswered
  <2>8. Seeing(x, w)
    BY <2>4, <2>5 DEF Seeing, Answering, Unanswered
  <2>9. Sound(u, A)
    BY <2>4, <2>5, <2>7, <2>8, AnswerKeeps DEF Answering
  <2>10. Unanswered(v, u)
    BY <2>5, <2>7 DEF Answering, Unanswered, Queued, Cookies
  <2> QED BY <2>3, <2>9, <2>10 DEF Answering
<1>4. S = Nat
  <2>1. S \in SUBSET Nat
    OBVIOUS
  <2> HIDE DEF S
  <2> QED BY <1>2, <1>3, <2>1, Inductive
<1>5. Answering(v, turn[Len(queue)], A)
  BY <1>4
<1>6. AnswerAll(v, queue) = turn[Len(queue)]
  BY <1>1 DEF Answers
<1> HIDE DEF S
<1> QED BY <1>5, <1>6

LEMMA DueSees ==
    ASSUME NEW v, NEW A, Sound(v, A), NEW w, w.index \in Nat, w.request \in Request,
           ~ DurableRsm => Covers(v, w), ~ (w.index > v.lastApplied)
    PROVE  Seeing(v, w)
<1> SUFFICES ASSUME ~ DurableRsm PROVE v.knew[w.request] <= Len(v.rsm)
  BY DEF Seeing
<1>1. Executed(v) /\ Knowing(v, A) /\ v.lastApplied \in Nat /\ v.reached \in Nat
  BY DEF Sound, Typed, RsmTyped, RaftTyped
<1>2. PICK r \in 0..v.reached : r <= w.index /\ v.knew[w.request] <= WritesUpTo(v, r)
  BY DEF Covers
<1>3. r \in Nat /\ r <= v.lastApplied
  BY <1>1, <1>2
<1>4. WritesUpTo(v, r) <= WritesUpTo(v, v.lastApplied)
  BY <1>1, <1>3, WritesGrow
<1>5. WritesUpTo(v, r) \in Nat /\ WritesUpTo(v, v.lastApplied) \in Nat
  BY <1>1, <1>3, WritesFinite
<1>6. Len(v.rsm) = WritesUpTo(v, v.lastApplied) /\ v.knew[w.request] \in Nat
  BY <1>1 DEF Executed, ExecutedUpTo, Knowing
<1> QED BY <1>2, <1>4, <1>5, <1>6

\* Only a queue is left empty.
Emptied(v, u) ==
    /\ DOMAIN u = Fields /\ u.raft = v.raft /\ u.parked = v.parked /\ Cookies(v, u)
    /\ u.waiting \in {v.waiting, << >>} /\ u.strongWaiting \in {v.strongWaiting, << >>}
    /\ u.rsm = v.rsm /\ u.lastApplied = v.lastApplied /\ u.savedApplied = v.savedApplied
    /\ u.seqno = v.seqno /\ u.relayed = v.relayed /\ u.reached = v.reached
    /\ u.knew = v.knew /\ u.replies = v.replies

LEMMA EmptiedSound ==
    ASSUME NEW v, NEW A, Sound(v, A), NEW u, Emptied(v, u)
    PROVE  Sound(u, A)
<1>1. Typed(u, A)
  <2>1. << >> \in Seq(WaitingOf(A)) /\ << >> \in Seq(StrongOf(A))
    OBVIOUS
  <2> QED BY <2>1 DEF Sound, Typed, RaftTyped, QueuesTyped, CookiesTyped, RsmTyped, Emptied, Cookies
<1>2. FewRequests => Numbered(u, A)
  BY SameNumbers DEF Sound, Emptied
<1>3. ASSUME ~ DurableRsm PROVE Executed(u) /\ Knowing(u, A)
  <2>1. /\ \A n : WritesUpTo(u, n) = WritesUpTo(v, n)
        /\ u.raft = v.raft /\ u.rsm = v.rsm /\ u.lastApplied = v.lastApplied
        /\ u.reached = v.reached /\ u.knew = v.knew /\ u.replies = v.replies
    BY SameRaft DEF Emptied
  <2>2. Executed(v) /\ Knowing(v, A)
    BY <1>3 DEF Sound
  <2>3. Executed(u)
    BY <2>1, <2>2 DEF Executed, ExecutedUpTo
  <2>4. \A x : Covers(v, x) => Covers(u, x)
    BY <2>1 DEF Covers
  <2>5. Repliable(u, A)
    BY <2>1, <2>2 DEF Knowing, Repliable
  <2>6. \A i \in 1..Len(u.waiting) : Covers(u, u.waiting[i])
    BY <2>2, <2>4 DEF Knowing, Emptied
  <2>7. \A i \in 1..Len(u.strongWaiting) : Covers(u, u.strongWaiting[i])
    BY <2>2, <2>4 DEF Knowing, Emptied
  <2> QED BY <2>1, <2>2, <2>3, <2>5, <2>6, <2>7 DEF Knowing
<1> QED BY <1>1, <1>2, <1>3 DEF Sound

\* What the loops over the queues leave alone.
Kept(v, u) ==
    DOMAIN u = Fields /\ u.raft = v.raft /\ u.parked = v.parked /\ Sent(u) = Sent(v)

LEMMA LastFacts ==
    ASSUME NEW S, NEW s \in Seq(S), s # << >>
    PROVE  Len(s) \in Nat /\ Len(s) \in 1..Len(s) /\ Last(s) = s[Len(s)] /\ Last(s) \in S
BY DEF Last

LEMMA WeakKeeps ==
    ASSUME NEW v, NEW A, A \subseteq Request, Sound(v, A), NEW u, u = ProcessWeakWaiting(v)
    PROVE  Sound(u, A) /\ Kept(v, u)
<1>1. CASE v.waiting = << >> \/ Last(v.waiting).index > v.lastApplied
  <2>1. u = v
    BY <1>1 DEF ProcessWeakWaiting
  <2> QED BY <2>1 DEF Kept, Sound, Typed
<1>2. CASE ~ (v.waiting = << >> \/ Last(v.waiting).index > v.lastApplied)
  <2>1. PICK x : x = [v EXCEPT !.waiting = << >>]
    OBVIOUS
  <2>2. PICK w : w = Last(v.waiting)
    OBVIOUS
  <2>3. u = AnswerAll(x, v.waiting)
    BY <1>2, <2>1 DEF ProcessWeakWaiting
  <2>4. Emptied(v, x)
    BY <2>1 DEF Emptied, Sound, Typed, Fields, Cookies
  <2>5. Sound(x, A)
    BY <2>4, EmptiedSound
  <2>6. v.waiting \in Seq(WaitingOf(A))
    BY DEF Sound, Typed, QueuesTyped
  <2>7. Len(v.waiting) \in Nat /\ Len(v.waiting) \in 1..Len(v.waiting)
        /\ w = v.waiting[Len(v.waiting)] /\ w \in WaitingOf(A)
    BY <1>2, <2>2, <2>6, LastFacts
  <2>8. w.index \in Nat /\ w.request \in A
    BY <2>7 DEF WaitingOf
  <2>9. ~ DurableRsm => Covers(v, w)
    BY <2>7 DEF Sound, Knowing
  <2>10. Seeing(v, w)
    BY <1>2, <2>2, <2>8, <2>9, DueSees
  <2>11. Seeing(x, w)
    BY <2>4, <2>10 DEF Seeing, Emptied
  <2>12. Answering(x, u, A)
    BY <2>2, <2>3, <2>5, <2>7, <2>8, <2>11, AnswersKeep
  <2>13. Sent(u) = Sent(v)
    BY <2>4, <2>12 DEF Answering, Unanswered, Emptied, Cookies, Sent
  <2> QED BY <2>4, <2>12, <2>13 DEF Answering, Unanswered, Emptied, Kept
<1> QED BY <1>1, <1>2

LEMMA StrongKeeps ==
    ASSUME NEW v, NEW A, A \subseteq Request, Sound(v, A), NEW u, u = ProcessStrongWaiting(v)
    PROVE  Sound(u, A) /\ Kept(v, u)
<1>1. CASE \/ v.strongWaiting = << >> \/ Last(v.strongWaiting).index > v.lastApplied
           \/ Last(v.strongWaiting).seqno > v.commitSeqno
  <2>1. u = v
    BY <1>1 DEF ProcessStrongWaiting
  <2> QED BY <2>1 DEF Kept, Sound, Typed
<1>2. CASE ~ (\/ v.strongWaiting = << >> \/ Last(v.strongWaiting).index > v.lastApplied
              \/ Last(v.strongWaiting).seqno > v.commitSeqno)
  <2>1. PICK x : x = [v EXCEPT !.strongWaiting = << >>]
    OBVIOUS
  <2>2. PICK w : w = Last(v.strongWaiting)
    OBVIOUS
  <2>3. u = AnswerAll(x, v.strongWaiting)
    BY <1>2, <2>1 DEF ProcessStrongWaiting
  <2>4. Emptied(v, x)
    BY <2>1 DEF Emptied, Sound, Typed, Fields, Cookies
  <2>5. Sound(x, A)
    BY <2>4, EmptiedSound
  <2>6. v.strongWaiting \in Seq(StrongOf(A))
    BY DEF Sound, Typed, QueuesTyped
  <2>7. Len(v.strongWaiting) \in Nat /\ Len(v.strongWaiting) \in 1..Len(v.strongWaiting)
        /\ w = v.strongWaiting[Len(v.strongWaiting)] /\ w \in StrongOf(A)
    BY <1>2, <2>2, <2>6, LastFacts
  <2>8. w.index \in Nat /\ w.request \in A
    BY <2>7 DEF StrongOf
  <2>9. ~ DurableRsm => Covers(v, w)
    BY <2>7 DEF Sound, Knowing
  <2>10. Seeing(v, w)
    BY <1>2, <2>2, <2>8, <2>9, DueSees
  <2>11. Seeing(x, w)
    BY <2>4, <2>10 DEF Seeing, Emptied
  <2>12. Answering(x, u, A)
    BY <2>2, <2>3, <2>5, <2>7, <2>8, <2>11, AnswersKeep
  <2>13. Sent(u) = Sent(v)
    BY <2>4, <2>12 DEF Answering, Unanswered, Emptied, Cookies, Sent
  <2> QED BY <2>4, <2>12, <2>13 DEF Answering, Unanswered, Emptied, Kept
<1> QED BY <1>1, <1>2

\* What follows every message keeps the invariant, and leaves no command
\* parked under a leader.
LEMMA AfterKeeps ==
    ASSUME NEW v, NEW A, A \subseteq Request, Sound(v, A), FewRequests => Fresh(v)
    PROVE  Settled(AfterMessage(v), A)
<1>1. PICK x : x = CheckStateChange(v)
  OBVIOUS
<1>2. PICK y : y = ProcessCommitted(x)
  OBVIOUS
<1>3. PICK z : z = ProcessWeakWaiting(y)
  OBVIOUS
<1>4. PICK u : u = ProcessWaiting(y)
  OBVIOUS
<1>5. AfterMessage(v) = u
  BY <1>1, <1>2, <1>4 DEF AfterMessage
<1>6. Settled(x, A)
  BY <1>1, CheckKeeps
<1>7. Sound(y, A) /\ Kept(x, y)
  BY <1>2, <1>6, CommittedKeeps DEF Settled, Kept
<1>8. Sound(z, A) /\ Kept(y, z)
  BY <1>3, <1>7, WeakKeeps
<1>9. Sound(u, A) /\ Kept(y, u)
  <2>1. CASE y.failed # None \/ z.failed # None
    <3>1. u = z
      BY <1>3, <1>4, <2>1 DEF ProcessWaiting
    <3> QED BY <1>8, <3>1
  <2>2. CASE ~ (y.failed # None \/ z.failed # None)
    <3>1. u = ProcessStrongWaiting(z)
      BY <1>3, <1>4, <2>2 DEF ProcessWaiting
    <3>2. Sound(u, A) /\ Kept(z, u)
      BY <1>8, <3>1, StrongKeeps
    <3> QED BY <1>8, <3>2 DEF Kept
  <2> QED BY <2>1, <2>2
<1>10. u.raft = x.raft /\ u.parked = x.parked /\ Sent(u) = Sent(x)
  BY <1>7, <1>9 DEF Kept
<1> QED BY <1>5, <1>6, <1>9, <1>10 DEF Settled, Fresh

-----------------------------------------------------------------------------
(* A command arrives. *)

LEMMA MoreAsked ==
    ASSUME NEW A, NEW B, A \subseteq B, NEW s \in Seq(A)
    PROVE  s \in Seq(B)
<1>1. \A i \in 1..Len(s) : s[i] \in B
  OBVIOUS
<1> QED BY <1>1

\* Nothing but what the request has to see was noted.
Noted(v, u, q) ==
    /\ DOMAIN u = Fields /\ u.raft = v.raft /\ Queued(v, u) /\ u.parked = v.parked
    /\ Cookies(v, u) /\ u.rsm = v.rsm /\ u.lastApplied = v.lastApplied
    /\ u.savedApplied = v.savedApplied /\ u.seqno = v.seqno /\ u.relayed = v.relayed
    /\ u.reached = v.reached /\ u.replies = v.replies
    /\ u.knew = [v.knew EXCEPT ![q] = WritesUpTo(v, v.reached)]

LEMMA NotedTyped ==
    ASSUME NEW v, NEW A, NEW q, Typed(v, A), NEW u, Noted(v, u, q)
    PROVE  Typed(u, A \cup {q})
<1>1. /\ WaitingOf(A) \subseteq WaitingOf(A \cup {q}) /\ StrongOf(A) \subseteq StrongOf(A \cup {q})
      /\ A \subseteq A \cup {q}
  BY DEF WaitingOf, StrongOf
<1>2. QueuesTyped(u, A \cup {q})
  BY <1>1, MoreAsked DEF Typed, QueuesTyped, Noted, Queued
<1> QED BY <1>2 DEF Typed, RaftTyped, CookiesTyped, RsmTyped, Noted, Cookies

LEMMA NotedKnowing ==
    ASSUME NEW v, NEW A, A \subseteq Request, Typed(v, A), Knowing(v, A),
           NEW q \in Request \ A, NEW u, Noted(v, u, q)
    PROVE  Knowing(u, A \cup {q})
<1>1. (\A n : WritesUpTo(u, n) = WritesUpTo(v, n)) /\ v.reached \in Nat
      /\ WritesUpTo(v, v.reached) \in Nat
  BY SameRaft, WritesFinite DEF Noted, Typed, RaftTyped
<1>2. /\ v.knew \in [Request -> Nat] /\ u.knew \in [Request -> Nat]
      /\ u.knew[q] = WritesUpTo(v, v.reached)
      /\ \A p \in Request \ {q} : u.knew[p] = v.knew[p]
  BY <1>1 DEF Knowing, Noted
<1>3. \A p \in Request : u.knew[p] <= WritesUpTo(u, u.reached)
  <2>1. ASSUME NEW p \in Request PROVE u.knew[p] <= WritesUpTo(u, u.reached)
    <3>1. u.reached = v.reached
      BY DEF Noted
    <3>2. WritesUpTo(u, u.reached) = WritesUpTo(v, v.reached)
      BY <1>1, <3>1
    <3>3. CASE p = q
      BY <1>1, <1>2, <3>2, <3>3
    <3>4. CASE p # q
      BY <1>2, <3>2, <3>4 DEF Knowing
    <3> QED BY <3>3, <3>4
  <2> QED BY <2>1
<1>4. ASSUME NEW w, w.request \in A, Covers(v, w) PROVE Covers(u, w)
  <2>1. u.knew[w.request] = v.knew[w.request] /\ u.reached = v.reached
    BY <1>2, <1>4 DEF Noted
  <2> QED BY <1>1, <1>4, <2>1 DEF Covers
<1>5. \A i \in 1..Len(u.waiting) : Covers(u, u.waiting[i])
  <2>1. ASSUME NEW i \in 1..Len(v.waiting) PROVE Covers(u, v.waiting[i])
    <3>1. v.waiting \in Seq(WaitingOf(A))
      BY DEF Typed, QueuesTyped
    <3>2. v.waiting[i] \in WaitingOf(A)
      BY <3>1
    <3> QED BY <1>4, <3>2 DEF Knowing, WaitingOf
  <2> QED BY <2>1 DEF Noted, Queued
<1>6. \A i \in 1..Len(u.strongWaiting) : Covers(u, u.strongWaiting[i])
  <2>1. ASSUME NEW i \in 1..Len(v.strongWaiting) PROVE Covers(u, v.strongWaiting[i])
    <3>1. v.strongWaiting \in Seq(StrongOf(A))
      BY DEF Typed, QueuesTyped
    <3>2. v.strongWaiting[i] \in StrongOf(A)
      BY <3>1
    <3> QED BY <1>4, <3>2 DEF Knowing, StrongOf
  <2> QED BY <2>1 DEF Noted, Queued
<1>7. Repliable(u, A \cup {q})
  <2>1. u.replies = v.replies /\ Repliable(v, A)
    BY DEF Noted, Knowing
  <2>2. ASSUME NEW p \in Request, NEW i \in 1..Len(u.replies[p]), u.replies[p][i].kind = "read"
        PROVE  u.replies[p][i].saw >= u.knew[p]
    <3>1. CASE p = q
      <4>1. u.replies[p] = << >>
        BY <2>1, <3>1 DEF Repliable
      <4>2. Len(u.replies[p]) = 0
        BY <4>1
      <4> QED BY <4>2
    <3>2. CASE p # q
      BY <1>2, <2>1, <2>2, <3>2 DEF Repliable
    <3> QED BY <3>1, <3>2
  <2>3. \A p \in Request \ (A \cup {q}) : u.replies[p] = << >>
    BY <2>1 DEF Repliable
  <2>4. \E S : u.replies \in [Request -> Seq(S)]
    BY <2>1 DEF Repliable
  <2> QED BY <2>2, <2>3, <2>4 DEF Repliable
<1> QED BY <1>2, <1>3, <1>5, <1>6, <1>7 DEF Knowing

LEMMA NotedSound ==
    ASSUME NEW v, NEW A, A \subseteq Request, Settled(v, A), NEW q \in Request \ A,
           NEW u, Noted(v, u, q)
    PROVE  /\ Sound(u, A \cup {q})
           /\ FewRequests => Fresh(u) /\ q \notin Sent(u)
           /\ \A i \in 1..Len(u.parked) : u.parked[i] # q
<1>1. Sound(v, A) /\ Typed(v, A)
  BY DEF Settled, Sound
<1>2. Typed(u, A \cup {q})
  BY <1>1, NotedTyped
<1>3. ASSUME FewRequests PROVE Numbered(u, A \cup {q}) /\ Sent(u) = Sent(v)
  <2>1. Numbered(u, A) /\ Sent(u) = Sent(v)
    BY <1>1, <1>3, SameNumbers DEF Sound, Noted
  <2> QED BY <2>1 DEF Numbered
<1>4. ASSUME ~ DurableRsm PROVE Executed(u) /\ Knowing(u, A \cup {q})
  <2>1. Executed(u)
    BY <1>1, <1>4, SameRaft DEF Sound, Executed, ExecutedUpTo, Noted
  <2> QED BY <1>1, <1>4, <2>1, NotedKnowing DEF Sound
<1>5. Sound(u, A \cup {q})
  BY <1>2, <1>3, <1>4 DEF Sound
<1>6. \A i \in 1..Len(u.parked) : u.parked[i] # q
  BY <1>1 DEF Typed, QueuesTyped, Noted
<1>7. ASSUME FewRequests PROVE Fresh(u) /\ q \notin Sent(u)
  <2>1. Sent(v) \subseteq A
    BY <1>1, <1>7 DEF Sound, Numbered
  <2> QED BY <1>3, <1>7, <2>1 DEF Settled, Fresh, Noted
<1> QED BY <1>5, <1>6, <1>7

LEMMA FreshCommand ==
    ASSUME NEW v, v.parked \in Seq(Request), FewRequests, Fresh(v), NEW q \in Request,
           q \notin Sent(v), \A i \in 1..Len(v.parked) : v.parked[i] # q,
           NEW u, Commanded(v, u, q), Sent(u) \subseteq Sent(v) \cup {q}
    PROVE  Fresh(u)
<1>1. CASE u.parked = v.parked
  BY <1>1 DEF Fresh
<1>2. CASE u.parked # v.parked
  <2>1. u.parked = Append(v.parked, q) /\ Cookies(v, u)
    BY <1>2 DEF Commanded, Parks, TakesCookie
  <2>2. Sent(u) = Sent(v)
    BY <2>1 DEF Sent, Cookies
  <2>3. /\ Len(u.parked) = Len(v.parked) + 1 /\ Len(v.parked) \in Nat
        /\ \A i \in 1..Len(v.parked) : u.parked[i] = v.parked[i]
        /\ u.parked[Len(v.parked) + 1] = q
    BY <2>1, AppendFacts
  <2>4. ASSUME NEW i \in 1..Len(u.parked)
        PROVE  (i \in 1..Len(v.parked) /\ u.parked[i] = v.parked[i])
               \/ (i = Len(v.parked) + 1 /\ u.parked[i] = q)
    BY <2>3
  <2>5. \A i \in 1..Len(u.parked) : u.parked[i] \notin Sent(u)
    BY <2>2, <2>4 DEF Fresh
  <2>6. \A i, j \in 1..Len(u.parked) : u.parked[i] = u.parked[j] => i = j
    BY <2>4 DEF Fresh
  <2> QED BY <2>5, <2>6 DEF Fresh
<1> QED BY <1>1, <1>2

\* Everything that is done about a command.
LEMMA NotedKeeps ==
    ASSUME NEW v, NEW A, A \subseteq Request, Settled(v, A), NEW q \in Request \ A,
           NEW u, Noted(v, u, q)
    PROVE  Settled(AfterMessage(OnCommandRequest(u, q)), A \cup {q})
<1>1. /\ Sound(u, A \cup {q})
      /\ FewRequests => Fresh(u) /\ q \notin Sent(u)
      /\ \A i \in 1..Len(u.parked) : u.parked[i] # q
  BY NotedSound
<1>2. PICK B : B = A \cup {q}
  OBVIOUS
<1>3. Sound(u, B) /\ B \subseteq Request /\ q \in B
  BY <1>1, <1>2
<1>4. PICK x : x = OnCommandRequest(u, q)
  OBVIOUS
<1>5. Commanded(u, x, q)
  BY <1>3, <1>4, CommandEffect DEF Sound, Typed, RaftTyped
<1>6. Sound(x, B) /\ (FewRequests => Sent(x) \subseteq Sent(u) \cup {q})
  BY <1>1, <1>3, <1>5, CommandKeeps
<1>7. u.parked \in Seq(Request)
  BY <1>3, MoreAsked DEF Sound, Typed, QueuesTyped
<1>8. FewRequests => Fresh(x)
  BY <1>1, <1>5, <1>6, <1>7, FreshCommand
<1>9. Settled(AfterMessage(x), B)
  BY <1>3, <1>6, <1>8, AfterKeeps
<1> QED BY <1>2, <1>4, <1>9

LEMMA AskKeeps ==
    ASSUME NEW v, NEW A, A \subseteq Request, Settled(v, A), NEW q \in Request \ A,
           NEW u, u = [v EXCEPT !.knew[q] = WritesUpTo(v, v.reached)]
    PROVE  Settled(AfterMessage(OnCommandRequest(u, q)), A \cup {q})
<1>1. PICK n : n = WritesUpTo(v, v.reached)
  OBVIOUS
<1>2. u = [v EXCEPT !.knew = [@ EXCEPT ![q] = n]]
  BY <1>1
<1>3. Noted(v, u, q)
  BY <1>1, <1>2 DEF Noted, Settled, Sound, Typed, Fields, Queued, Cookies
<1> QED BY <1>3, NotedKeeps

-----------------------------------------------------------------------------
(* The replica changes: a message of TRaft, a timeout. *)

\* Nothing but the replica and the counters of consistent reads changes.
Moved(v, u) ==
    /\ DOMAIN u = Fields /\ Queued(v, u) /\ u.parked = v.parked
    /\ Cookies(v, u) /\ u.rsm = v.rsm /\ u.lastApplied = v.lastApplied
    /\ u.savedApplied = v.savedApplied /\ u.relayed = v.relayed
    /\ u.reached = v.reached /\ u.replies = v.replies /\ u.knew = v.knew
    /\ u.seqno \in Nat

LEMMA MovedSound ==
    ASSUME NEW v, NEW A, Sound(v, A), NEW u, Moved(v, u), RaftTyped(u),
           Keeps(v, u, v.reached), v.raft.commitIndex <= u.raft.commitIndex
    PROVE  Sound(u, A) /\ Sent(u) = Sent(v) /\ u.parked = v.parked
<1>1. /\ v.reached \in Nat /\ v.lastApplied \in Nat /\ u.reached = v.reached
      /\ v.raft.commitIndex \in Nat /\ u.raft.commitIndex \in Nat
  BY DEF Moved, Sound, Typed, RaftTyped, RsmTyped, Raft
<1>2. Typed(u, A)
  BY DEF Sound, Typed, QueuesTyped, CookiesTyped, RsmTyped, Moved, Queued, Cookies
<1>3. (FewRequests => Numbered(u, A)) /\ Sent(u) = Sent(v)
  BY SameNumbers DEF Sound, Moved, Sent, Cookies
<1>4. ASSUME ~ DurableRsm PROVE Executed(u) /\ Knowing(u, A)
  <2>1. Executed(v) /\ Knowing(v, A)
    BY <1>4 DEF Sound
  <2>2. v.lastApplied \in 0..v.reached /\ u.rsm = v.rsm /\ u.lastApplied = v.lastApplied
    BY <1>1, <2>1 DEF Executed, Moved
  <2>3. ExecutedUpTo(u, v.lastApplied)
    BY <1>1, <2>1, <2>2, ExecutedKept DEF Executed
  <2>4. v.lastApplied <= u.raft.commitIndex
    BY <1>1, <2>1 DEF Executed
  <2>5. Executed(u)
    BY <1>1, <2>1, <2>2, <2>3, <2>4 DEF Executed
  <2>6. \A w : Covers(v, w) => Covers(u, w)
    <3>1. u.knew = v.knew /\ v.reached <= u.reached /\ u.reached \in Nat
      BY <1>1 DEF Moved
    <3> QED BY <1>1, <3>1, CoversKept
  <2>7. WritesUpTo(u, u.reached) = WritesUpTo(v, v.reached)
    BY <1>1, WritesKept
  <2>8. Repliable(u, A)
    BY <2>1 DEF Knowing, Repliable, Moved
  <2> QED BY <2>1, <2>5, <2>6, <2>7, <2>8 DEF Knowing, Moved, Queued
<1> QED BY <1>2, <1>3, <1>4 DEF Sound, Moved

Joined(s, t) == s \o t

Joins(u, s, t) ==
    /\ u \in Seq(LogEntry) /\ Len(u) = Len(s) + Len(t) /\ Len(t) \in Nat
    /\ \A i \in 1..Len(s) : u[i] = s[i]

LEMMA JoinedFacts ==
    ASSUME NEW s \in Seq(LogEntry), NEW t \in Seq(LogEntry)
    PROVE  Joins(Joined(s, t), s, t)
BY DEF Joined, Joins

\* The first entries of log l, and others after them.
Continued(l, keep, tail) == Joined(SubSeq(l, 1, keep), tail)

Continues(log, l, keep) ==
    /\ log \in Seq(LogEntry) /\ Len(log) \in Nat /\ keep <= Len(log)
    /\ \A i \in 1..keep : log[i] = l[i]

LEMMA ContinuedFacts ==
    ASSUME NEW l \in Seq(LogEntry), NEW keep \in 0..Len(l), NEW tail \in Seq(LogEntry)
    PROVE  Continues(Continued(l, keep, tail), l, keep)
<1>1. PICK s : s = SubSeq(l, 1, keep)
  OBVIOUS
<1>2. s \in Seq(LogEntry) /\ Len(s) = keep /\ \A i \in 1..keep : s[i] = l[i]
  BY <1>1
<1>3. PICK log : log = Joined(s, tail)
  OBVIOUS
<1>4. /\ log \in Seq(LogEntry) /\ Len(log) = Len(s) + Len(tail) /\ Len(tail) \in Nat
      /\ \A i \in 1..Len(s) : log[i] = s[i]
  <2>1. Joins(log, s, tail)
    BY <1>2, <1>3, JoinedFacts
  <2> QED BY <2>1 DEF Joins
<1>5. Continues(log, l, keep)
  <2>1. keep \in Nat /\ Len(log) \in Nat /\ keep <= Len(log)
    BY <1>2, <1>4
  <2>2. ASSUME NEW i \in 1..keep PROVE log[i] = l[i]
    BY <1>2, <1>4
  <2> QED BY <1>4, <2>1, <2>2 DEF Continues
<1> QED BY <1>1, <1>3, <1>5 DEF Continued

\* What a leader, or a crash, can make of a server's log.
LEMMA LogContinued ==
    ASSUME NEW v, NEW A, Sound(v, A), NEW keep \in v.reached..LastIndex(v),
           NEW tail \in Tails, NEW log, log = Continued(v.raft.log, keep, tail)
    PROVE  /\ Continues(log, v.raft.log, keep)
           /\ v.reached \in Nat /\ keep \in Nat /\ v.reached <= keep
<1>1. /\ v.raft.log \in Seq(LogEntry) /\ v.reached \in Nat
      /\ keep \in Nat /\ keep <= Len(v.raft.log) /\ v.reached <= keep
      /\ Len(v.raft.log) \in Nat
  BY DEF Sound, Typed, RaftTyped, Raft, LastIndex
<1>2. tail \in Seq(LogEntry)
  <2>1. PICK k \in 0..MaxBatch : tail \in [1..k -> {Entry(Foreign), Entry(Stub)}]
    BY DEF Tails
  <2>2. Entry(Foreign) \in LogEntry /\ Entry(Stub) \in LogEntry
    BY DEF Entry, LogEntry, Value
  <2>3. {Entry(Foreign), Entry(Stub)} \subseteq LogEntry
    BY <2>2
  <2>4. k \in Nat /\ tail \in [1..k -> LogEntry]
    BY <2>1, <2>3, RequestAssumption
  <2> QED BY <2>4
<1>3. keep \in 0..Len(v.raft.log)
  BY <1>1
<1> QED BY <1>1, <1>2, <1>3, ContinuedFacts

\* Under TRaft's handlers the log up to the highest commit index stays.
Followed(v, u, l, keep, tail, c, log) ==
    /\ log = Continued(v.raft.log, keep, tail) /\ c <= Len(log)
    /\ u.raft = Follow(l, log, c) /\ u.reached = v.reached

LEMMA FollowTyped ==
    ASSUME NEW v, NEW A, Sound(v, A), NEW l \in Peer \cup {Nil},
           NEW keep \in v.reached..LastIndex(v),
           NEW tail \in Tails, NEW c \in Nat, NEW log, NEW u,
           Followed(v, u, l, keep, tail, c, log)
    PROVE  RaftTyped(u) /\ Keeps(v, u, v.reached) /\ u.raft.commitIndex = c
<1> USE DEF Followed
<1>1. /\ v.reached \in Nat /\ keep \in Nat /\ v.reached <= keep
      /\ log \in Seq(LogEntry) /\ Len(log) \in Nat /\ keep <= Len(log)
      /\ \A i \in 1..keep : log[i] = v.raft.log[i]
  BY LogContinued DEF Continues
<1>2. /\ u.raft.role = "FOLLOWER" /\ u.raft.leaderId = l /\ u.raft.log = log
      /\ u.raft.commitIndex = c
  BY DEF Follow
<1>3. u.raft \in Raft
  BY <1>1 DEF Raft, Follow
<1>4. RaftTyped(u)
  <2>1. v.reached <= Len(log)
    BY <1>1
  <2> QED BY <1>1, <1>2, <1>3, <2>1 DEF RaftTyped
<1>5. \A i \in 1..v.reached : log[i] = v.raft.log[i]
  <2>1. \A i \in 1..v.reached : i \in 1..keep
    BY <1>1
  <2> QED BY <1>1, <2>1
<1> QED BY <1>2, <1>4, <1>5 DEF Keeps

LEMMA StandTyped ==
    ASSUME NEW v, RaftTyped(v), NEW u, u.raft = Stand(v.raft), u.reached = v.reached
    PROVE  /\ RaftTyped(u) /\ Keeps(v, u, v.reached) /\ u.raft.leaderId = Nil
           /\ u.raft.commitIndex = v.raft.commitIndex
<1>1. /\ u.raft \in Raft /\ u.raft.log = v.raft.log /\ u.raft.leaderId = Nil
      /\ u.raft.commitIndex = v.raft.commitIndex
  BY DEF Stand, RaftTyped, Raft
<1> QED BY <1>1 DEF RaftTyped, Keeps

LEMMA LeadTyped ==
    ASSUME NEW v, RaftTyped(v), NEW u, u.raft = Lead(v.raft, Entry(Stub)), u.reached = v.reached
    PROVE  /\ RaftTyped(u) /\ Keeps(v, u, v.reached) /\ u.raft.leaderId = Nil
           /\ u.raft.commitIndex = v.raft.commitIndex
<1>1. PICK e : e = Entry(Stub)
  OBVIOUS
<1>2. e \in LogEntry
  BY <1>1 DEF Entry, LogEntry, Value
<1>3. v.raft.log \in Seq(LogEntry) /\ v.raft.commitIndex \in Nat /\ Len(v.raft.log) \in Nat
      /\ v.raft.commitIndex <= Len(v.raft.log) /\ v.reached \in Nat /\ v.reached <= Len(v.raft.log)
  BY DEF RaftTyped, Raft
<1>4. /\ u.raft.role = "LEADER" /\ u.raft.leaderId = Nil /\ u.raft.log = Append(v.raft.log, e)
      /\ u.raft.commitIndex = v.raft.commitIndex
  BY <1>1 DEF Lead
<1>5. /\ u.raft.log \in Seq(LogEntry) /\ Len(u.raft.log) = Len(v.raft.log) + 1
      /\ \A i \in 1..Len(v.raft.log) : u.raft.log[i] = v.raft.log[i]
  BY <1>2, <1>3, <1>4, AppendFacts
<1>6. u.raft \in Raft
  BY <1>1, <1>3, <1>4, <1>5 DEF Raft, Lead
<1>7. RaftTyped(u)
  BY <1>3, <1>4, <1>5, <1>6 DEF RaftTyped
<1>8. Keeps(v, u, v.reached)
  BY <1>3, <1>5 DEF Keeps
<1> QED BY <1>4, <1>7, <1>8

LEMMA AdvanceTyped ==
    ASSUME NEW v, RaftTyped(v), NEW c \in v.raft.commitIndex..LastIndex(v),
           NEW u, u.raft = Advance(v.raft, c), u.reached = v.reached
    PROVE  /\ RaftTyped(u) /\ Keeps(v, u, v.reached)
           /\ v.raft.commitIndex <= u.raft.commitIndex
<1>1. c \in Nat /\ v.raft.commitIndex <= c /\ c <= Len(v.raft.log)
  BY DEF RaftTyped, Raft, LastIndex
<1>2. /\ u.raft \in Raft /\ u.raft.log = v.raft.log /\ u.raft.role = v.raft.role
      /\ u.raft.leaderId = v.raft.leaderId /\ u.raft.commitIndex = c
  BY <1>1 DEF Advance, RaftTyped, Raft
<1> QED BY <1>1, <1>2 DEF RaftTyped, Keeps

LEMMA DeposeTyped ==
    ASSUME NEW v, RaftTyped(v), NEW u, u.raft = Depose(v.raft), u.reached = v.reached
    PROVE  /\ RaftTyped(u) /\ Keeps(v, u, v.reached)
           /\ u.raft.commitIndex = v.raft.commitIndex
<1>1. /\ u.raft \in Raft /\ u.raft.log = v.raft.log /\ u.raft.role = "FOLLOWER"
      /\ u.raft.leaderId = v.raft.leaderId /\ u.raft.commitIndex = v.raft.commitIndex
  BY DEF Depose, RaftTyped, Raft
<1> QED BY <1>1 DEF RaftTyped, Keeps

\* A message of TRaft with what follows it, and a timeout alone.
LEMMA MessageKeeps ==
    ASSUME NEW v, NEW A, A \subseteq Request, Settled(v, A), NEW u, Moved(v, u), RaftTyped(u),
           Keeps(v, u, v.reached), v.raft.commitIndex <= u.raft.commitIndex
    PROVE  Settled(AfterMessage(u), A)
<1>1. Sound(u, A) /\ Sent(u) = Sent(v) /\ u.parked = v.parked
  BY MovedSound DEF Settled
<1>2. FewRequests => Fresh(u)
  BY <1>1 DEF Settled, Fresh
<1> QED BY <1>1, <1>2, AfterKeeps

LEMMA TimeoutKeeps ==
    ASSUME NEW v, NEW A, Settled(v, A), NEW u, Moved(v, u), RaftTyped(u),
           Keeps(v, u, v.reached), v.raft.commitIndex <= u.raft.commitIndex,
           u.raft.leaderId = Nil
    PROVE  Settled(u, A)
<1>1. Sound(u, A) /\ Sent(u) = Sent(v) /\ u.parked = v.parked
  BY MovedSound DEF Settled
<1> QED BY <1>1 DEF Settled, Fresh

-----------------------------------------------------------------------------
(* Answers of other servers, connections that end, restarts. *)

\* Only the maps of cookies and what was relayed change.
Returned(v, u) ==
    /\ DOMAIN u = Fields /\ u.raft = v.raft /\ Queued(v, u) /\ u.parked = v.parked
    /\ u.forwarded = v.forwarded /\ u.nextCookie = v.nextCookie /\ u.rsm = v.rsm
    /\ u.lastApplied = v.lastApplied /\ u.savedApplied = v.savedApplied /\ u.seqno = v.seqno
    /\ u.reached = v.reached /\ u.replies = v.replies /\ u.knew = v.knew
    /\ u.cookieOwner \subseteq v.cookieOwner /\ u.clientCookies \subseteq v.clientCookies

LEMMA ReturnedSound ==
    ASSUME NEW v, NEW A, Settled(v, A), NEW u, Returned(v, u), FewRequests => Numbered(u, A)
    PROVE  Settled(u, A)
<1>1. Sound(v, A)
  BY DEF Settled
<1>2. Typed(u, A)
  BY <1>1 DEF Sound, Typed, RaftTyped, QueuesTyped, CookiesTyped, RsmTyped, Returned, Queued
<1>3. ASSUME ~ DurableRsm PROVE Executed(u) /\ Knowing(u, A)
  <2>1. /\ \A n : WritesUpTo(u, n) = WritesUpTo(v, n)
        /\ u.raft = v.raft /\ u.rsm = v.rsm /\ u.lastApplied = v.lastApplied
        /\ u.reached = v.reached /\ u.knew = v.knew /\ u.replies = v.replies
        /\ u.waiting = v.waiting /\ u.strongWaiting = v.strongWaiting
    BY SameRaft DEF Returned, Queued
  <2>2. Executed(v) /\ Knowing(v, A)
    BY <1>1, <1>3 DEF Sound
  <2>3. Executed(u)
    BY <2>1, <2>2 DEF Executed, ExecutedUpTo
  <2>4. \A x : Covers(v, x) => Covers(u, x)
    BY <2>1 DEF Covers
  <2>5. Repliable(u, A)
    BY <2>1, <2>2 DEF Knowing, Repliable
  <2> QED BY <2>1, <2>2, <2>3, <2>4, <2>5 DEF Knowing
<1>4. Sound(u, A)
  BY <1>2, <1>3 DEF Sound
<1>5. Sent(u) = Sent(v)
  BY DEF Sent, Returned
<1> QED BY <1>4, <1>5 DEF Settled, Fresh, Returned

LEMMA ResponseKeeps ==
    ASSUME NEW v, NEW A, Settled(v, A), NEW m \in v.forwarded,
           NEW p \in v.cookieOwner, p[1] = m.cookie, NEW r,
           NEW u, u = [v EXCEPT
                !.relayed       = IF r THEN @ ELSE @ \cup {<<p[2], m.request>>},
                !.clientCookies = @ \ {<<p[2], m.cookie>>},
                !.cookieOwner   = @ \ {p}]
    PROVE  Settled(u, A)
<1>1. /\ u.clientCookies = v.clientCookies \ {<<p[2], m.cookie>>}
      /\ u.cookieOwner = v.cookieOwner \ {p}
      /\ u.relayed \subseteq v.relayed \cup {<<p[2], m.request>>}
      /\ DOMAIN u = Fields
  BY DEF Settled, Sound, Typed, Fields
<1>2. Returned(v, u)
  BY DEF Returned, Settled, Sound, Typed, Fields, Queued
<1>3. ASSUME FewRequests PROVE Numbered(u, A)
  <2>1. Numbered(v, A) /\ CookiesTyped(v)
    BY <1>3 DEF Settled, Sound, Typed
  <2>2. u.forwarded = v.forwarded /\ u.nextCookie = v.nextCookie /\ Sent(u) = Sent(v)
    BY <1>2 DEF Returned, Sent
  <2>3. \A x \in v.cookieOwner : x = <<x[1], x[2]>>
    BY <2>1 DEF CookiesTyped
  <2>4. \A x \in v.clientCookies : x = <<x[1], x[2]>>
    BY <2>1 DEF CookiesTyped
  <2>5. ASSUME NEW x \in u.cookieOwner
        PROVE  /\ \E n \in u.forwarded : x = <<n.cookie, n.request.client>>
               /\ <<x[2], x[1]>> \in u.clientCookies
    <3>1. x \in v.cookieOwner /\ x # p
      BY <1>1
    <3>2. <<x[2], x[1]>> \in v.clientCookies
      BY <2>1, <3>1 DEF Numbered
    <3>3. <<x[2], x[1]>> # <<p[2], m.cookie>>
      BY <2>3, <3>1
    <3> QED BY <1>1, <2>1, <2>2, <3>1, <3>2, <3>3 DEF Numbered
  <2>6. ASSUME NEW x \in u.clientCookies PROVE <<x[2], x[1]>> \in u.cookieOwner
    <3>1. x \in v.clientCookies /\ x # <<p[2], m.cookie>>
      BY <1>1
    <3>2. <<x[2], x[1]>> \in v.cookieOwner
      BY <2>1, <3>1 DEF Numbered
    <3>3. <<x[2], x[1]>> # p
      BY <2>4, <3>1
    <3> QED BY <1>1, <3>2, <3>3
  <2>7. PICK n \in v.forwarded : p = <<n.cookie, n.request.client>>
    BY <2>1 DEF Numbered
  <2>8. n = m
    BY <2>1, <2>7 DEF Numbered
  <2>9. p[2] = m.request.client
    BY <2>7, <2>8
  <2>10. \A x \in u.relayed : x[1] = x[2].client
    BY <1>1, <2>1, <2>9 DEF Numbered
  <2> QED BY <2>1, <2>2, <2>5, <2>6, <2>10 DEF Numbered
<1> QED BY <1>2, <1>3, ReturnedSound

LEMMA DisconnectKeeps ==
    ASSUME NEW v, NEW A, Settled(v, A), NEW c, NEW u, u = CleanUp(v, c)
    PROVE  Settled(u, A)
<1>1. /\ u.cookieOwner = {p \in v.cookieOwner : <<c, p[1]>> \notin v.clientCookies}
      /\ u.clientCookies = {p \in v.clientCookies : p[1] # c}
      /\ u.relayed = v.relayed /\ DOMAIN u = Fields
  BY DEF CleanUp, Settled, Sound, Typed, Fields
<1>2. Returned(v, u)
  BY DEF CleanUp, Returned, Settled, Sound, Typed, Fields, Queued
<1>3. ASSUME FewRequests PROVE Numbered(u, A)
  <2>1. Numbered(v, A) /\ CookiesTyped(v)
    BY <1>3 DEF Settled, Sound, Typed
  <2>2. u.forwarded = v.forwarded /\ u.nextCookie = v.nextCookie /\ Sent(u) = Sent(v)
    BY <1>2 DEF Returned, Sent
  <2>3. ASSUME NEW x \in u.cookieOwner
        PROVE  /\ \E n \in u.forwarded : x = <<n.cookie, n.request.client>>
               /\ <<x[2], x[1]>> \in u.clientCookies
    <3>1. x \in v.cookieOwner /\ <<c, x[1]>> \notin v.clientCookies
      BY <1>1
    <3>2. <<x[2], x[1]>> \in v.clientCookies
      BY <2>1, <3>1 DEF Numbered
    <3>3. <<x[2], x[1]>>[1] = x[2] /\ x[2] # c
      BY <3>1, <3>2
    <3>4. <<x[2], x[1]>> \in u.clientCookies
      BY <1>1, <3>2, <3>3
    <3> QED BY <2>1, <2>2, <3>1, <3>4 DEF Numbered
  <2>4. ASSUME NEW x \in u.clientCookies PROVE <<x[2], x[1]>> \in u.cookieOwner
    <3>1. x \in v.clientCookies /\ x[1] # c
      BY <1>1
    <3>2. <<x[2], x[1]>> \in v.cookieOwner
      BY <2>1, <3>1 DEF Numbered
    <3>3. <<c, x[2]>> \notin v.clientCookies
      <4> SUFFICES ASSUME <<c, x[2]>> \in v.clientCookies PROVE FALSE
        OBVIOUS
      <4>1. <<<<c, x[2]>>[2], <<c, x[2]>>[1]>> \in v.cookieOwner
        BY <2>1 DEF Numbered
      <4>2. <<x[2], c>> \in v.cookieOwner
        BY <4>1
      <4>3. PICK n \in v.forwarded : <<x[2], c>> = <<n.cookie, n.request.client>>
        BY <2>1, <4>2 DEF Numbered
      <4>4. PICK o \in v.forwarded : <<x[2], x[1]>> = <<o.cookie, o.request.client>>
        BY <2>1, <3>2 DEF Numbered
      <4>5. n.cookie = o.cookie /\ n.request.client = c /\ o.request.client = x[1]
        BY <4>3, <4>4
      <4>6. n = o
        BY <2>1, <4>5 DEF Numbered
      <4> QED BY <3>1, <4>5, <4>6
    <3>4. <<x[2], x[1]>>[1] = x[2]
      OBVIOUS
    <3> QED BY <1>1, <3>2, <3>3, <3>4
  <2>5. \A x \in u.relayed : x[1] = x[2].client
    BY <1>1, <2>1 DEF Numbered
  <2> QED BY <2>1, <2>2, <2>3, <2>4, <2>5 DEF Numbered
<1> QED BY <1>2, <1>3, ReturnedSound

\* What a restart leaves, with that log.
Restarted(v, u, log) ==
    /\ DOMAIN u = Fields /\ u.raft = Follow(Nil, log, 0)
    /\ u.waiting = << >> /\ u.strongWaiting = << >> /\ u.parked = << >>
    /\ u.cookieOwner = {} /\ u.clientCookies = {} /\ u.nextCookie = 1 /\ u.forwarded = {}
    /\ u.rsm = IF DurableRsm THEN v.rsm ELSE << >>
    /\ u.lastApplied = IF DurableRsm THEN v.savedApplied ELSE 0
    /\ u.savedApplied = IF DurableRsm THEN v.savedApplied ELSE 0
    /\ u.seqno = 0 /\ u.relayed = v.relayed /\ u.replies = v.replies
    /\ u.reached = v.reached /\ u.knew = v.knew

LEMMA RestartKeeps ==
    ASSUME NEW v, NEW A, A \subseteq Request, Settled(v, A), NEW u, NEW log,
           Restarted(v, u, log), RaftTyped(u), Keeps(v, u, v.reached)
    PROVE  Settled(u, A)
<1>1. Sound(v, A) /\ Typed(v, A) /\ RaftTyped(v) /\ RsmTyped(v)
  BY DEF Settled, Sound, Typed
<1>2. /\ u.raft.commitIndex = 0 /\ u.raft.leaderId = Nil /\ u.reached = v.reached
      /\ v.reached \in Nat
  BY <1>1 DEF Restarted, Follow, RaftTyped
<1>4. Typed(u, A)
  <2>1. QueuesTyped(u, A)
    <3>1. << >> \in Seq(WaitingOf(A)) /\ << >> \in Seq(StrongOf(A)) /\ << >> \in Seq(A)
      OBVIOUS
    <3> QED BY <3>1 DEF QueuesTyped, Restarted
  <2>2. CookiesTyped(u)
    BY RequestAssumption DEF CookiesTyped, Cookie, Restarted
  <2>3. RsmTyped(u)
    <3>1. << >> \in Seq(Value)
      OBVIOUS
    <3> QED BY <1>1, <3>1 DEF RsmTyped, Restarted
  <2> QED BY <2>1, <2>2, <2>3 DEF Typed, Restarted
<1>5. Sent(u) = {} /\ Cardinality(Sent(u)) = 0
  <2>1. Sent(u) = {}
    BY DEF Sent, Restarted
  <2> QED BY <2>1, FS_EmptySet
<1>6. ASSUME FewRequests PROVE Numbered(u, A)
  <2>1. \A x \in u.relayed : x[1] = x[2].client
    BY <1>1, <1>6 DEF Sound, Numbered, Restarted
  <2>2. u.nextCookie = 1 /\ CookieSpace # 1
    BY RequestAssumption DEF Restarted
  <2> QED BY <1>5, <2>1, <2>2 DEF Numbered, Restarted
<1>7. ASSUME ~ DurableRsm PROVE Executed(u) /\ Knowing(u, A)
  <2>1. Knowing(v, A)
    BY <1>1, <1>7 DEF Sound
  <2>2. WritesUpTo(u, u.reached) = WritesUpTo(v, v.reached)
    BY <1>2, WritesKept
  <2>3. Executed(u)
    <3>1. u.rsm = << >> /\ u.lastApplied = 0 /\ u.reached \in Nat
      BY <1>2, <1>7 DEF Restarted
    <3>2. Len(u.rsm) = WritesUpTo(u, 0)
      BY <3>1, NoneWritten
    <3> QED BY <1>2, <3>1, <3>2 DEF Executed, ExecutedUpTo
  <2>4. Repliable(u, A)
    BY <2>1 DEF Knowing, Repliable, Restarted
  <2>5. Len(u.waiting) = 0 /\ Len(u.strongWaiting) = 0
    BY DEF Restarted
  <2> QED BY <2>1, <2>2, <2>4, <2>5, <2>3 DEF Knowing, Restarted
<1>8. Sound(u, A)
  BY <1>4, <1>6, <1>7 DEF Sound
<1>9. u.parked = << >> /\ Len(u.parked) = 0
  BY DEF Restarted
<1> QED BY <1>8, <1>9 DEF Settled, Fresh

-----------------------------------------------------------------------------
(* The server at rest. *)

ProcessorInv ==
    /\ asked \subseteq Request /\ gone \subseteq Client
    /\ stepDowns \in 0..MaxStepDowns /\ restarts \in 0..MaxRestarts
    /\ Settled(server, asked)

LEMMA InvInit ==
    Init => ProcessorInv
<1> SUFFICES ASSUME Init PROVE ProcessorInv
  OBVIOUS
<1>1. DOMAIN server = Fields
  BY DEF Init, Fields
<1>2. /\ server.raft = [role |-> "FOLLOWER", leaderId |-> Nil, log |-> << >>, commitIndex |-> 0]
      /\ server.waiting = << >> /\ server.strongWaiting = << >> /\ server.parked = << >>
      /\ server.cookieOwner = {} /\ server.clientCookies = {} /\ server.nextCookie = 1
      /\ server.rsm = << >> /\ server.lastApplied = 0 /\ server.savedApplied = 0
      /\ server.seqno = 0 /\ server.forwarded = {} /\ server.relayed = {}
      /\ server.replies = [q \in Request |-> << >>] /\ server.reached = 0
      /\ server.knew = [q \in Request |-> 0]
  BY DEF Init
<1>3. asked = {} /\ gone = {} /\ stepDowns \in 0..MaxStepDowns /\ restarts \in 0..MaxRestarts
  BY RequestAssumption DEF Init
<1>4. RaftTyped(server)
  <2>1. << >> \in Seq(LogEntry) /\ Len(<< >>) = 0
    OBVIOUS
  <2>2. server.raft \in Raft
    BY <1>2, <2>1 DEF Raft
  <2> QED BY <1>2, <2>1, <2>2 DEF RaftTyped
<1>5. Typed(server, asked)
  <2>1. << >> \in Seq(WaitingOf(asked)) /\ << >> \in Seq(StrongOf(asked))
        /\ << >> \in Seq(asked) /\ << >> \in Seq(Value)
    OBVIOUS
  <2>2. CookiesTyped(server)
    BY <1>2, RequestAssumption DEF CookiesTyped, Cookie
  <2> QED BY <1>1, <1>2, <1>4, <2>1, <2>2 DEF Typed, QueuesTyped, RsmTyped
<1>6. Sent(server) = {} /\ Cardinality(Sent(server)) = 0
  <2>1. Sent(server) = {}
    BY <1>2 DEF Sent
  <2> QED BY <2>1, FS_EmptySet
<1>7. Numbered(server, asked)
  <2>1. CookieSpace # 1
    BY RequestAssumption
  <2> QED BY <1>2, <1>6, <2>1 DEF Numbered
<1>8. WritesUpTo(server, 0) = 0
  BY NoneWritten
<1>9. Executed(server)
  <2>1. Len(<< >>) = 0
    OBVIOUS
  <2> QED BY <1>2, <1>8, <2>1 DEF Executed, ExecutedUpTo
<1>10. Repliable(server, asked)
  <2>1. \A q \in Request : server.replies[q] = << >> /\ Len(server.replies[q]) = 0
    BY <1>2
  <2>2. server.replies \in [Request -> Seq({})]
    <3>1. << >> \in Seq({})
      OBVIOUS
    <3> QED BY <1>2, <3>1
  <2> QED BY <2>1, <2>2 DEF Repliable
<1>11. Knowing(server, asked)
  <2>1. Len(server.waiting) = 0 /\ Len(server.strongWaiting) = 0
    BY <1>2
  <2>2. server.knew \in [Request -> Nat] /\ \A q \in Request : server.knew[q] = 0
    BY <1>2
  <2> QED BY <1>2, <1>8, <1>10, <2>1, <2>2 DEF Knowing
<1>12. Len(server.parked) = 0
  BY <1>2
<1> QED BY <1>2, <1>3, <1>5, <1>7, <1>9, <1>11, <1>12 DEF ProcessorInv, Settled, Sound, Fresh

LEMMA AskInv ==
    ASSUME ProcessorInv, NEW q \in Request, Ask(q)
    PROVE  ProcessorInv'
<1>1. PICK u : u = [server EXCEPT !.knew[q] = WritesUpTo(server, server.reached)]
  OBVIOUS
<1>2. q \in Request \ asked /\ asked \subseteq Request /\ Settled(server, asked)
  BY DEF ProcessorInv, Ask
<1>3. Settled(AfterMessage(OnCommandRequest(u, q)), asked \cup {q})
  BY <1>1, <1>2, AskKeeps
<1>4. server' = AfterMessage(OnCommandRequest(u, q)) /\ asked' = asked \cup {q}
      /\ gone' = gone /\ stepDowns' = stepDowns /\ restarts' = restarts
  BY <1>1 DEF Ask
<1> QED BY <1>2, <1>3, <1>4 DEF ProcessorInv

\* What TRaft makes of the server: the replica is as in u, before the rest
\* follows.
Leads(v) == v.raft.role = "LEADER" => v.raft.leaderId = Nil
MovesTo(u) ==
    /\ Moved(server, u) /\ RaftTyped(u) /\ Keeps(server, u, server.reached)
    /\ server.raft.commitIndex <= u.raft.commitIndex
    /\ u.answers = server.answers /\ u.failed = server.failed /\ server.seqno <= u.seqno
    /\ Leads(server) => Leads(u)
Message(u) == OnRaftMessage(u) /\ MovesTo(u) /\ stepDowns' \in 0..MaxStepDowns
Silence(u) == Timeout(u) /\ MovesTo(u) /\ u.raft.leaderId = Nil

LEMMA MessageInv ==
    ASSUME ProcessorInv, NEW u, Message(u)
    PROVE  ProcessorInv'
<1>1. asked \subseteq Request /\ Settled(server, asked)
  BY DEF ProcessorInv
<1>2. Settled(AfterMessage(u), asked)
  BY <1>1, MessageKeeps DEF Message, MovesTo
<1> QED BY <1>2 DEF ProcessorInv, Message, OnRaftMessage

LEMMA TimeoutInv ==
    ASSUME ProcessorInv, NEW u, Silence(u)
    PROVE  ProcessorInv'
<1>1. Settled(server, asked)
  BY DEF ProcessorInv
<1>2. Settled(u, asked)
  BY <1>1, TimeoutKeeps DEF Silence, MovesTo
<1> QED BY <1>2 DEF ProcessorInv, Silence, Timeout

LEMMA RestingFacts ==
    ASSUME ProcessorInv
    PROVE  /\ DOMAIN server = Fields /\ RaftTyped(server) /\ Sound(server, asked)
           /\ server.seqno \in Nat /\ server.raft.commitIndex \in Nat
           /\ server.raft.commitIndex <= server.raft.commitIndex
           /\ Cardinality(Peer) \in Nat /\ server.seqno + Cardinality(Peer) \in Nat
           /\ server.seqno <= server.seqno /\ server.seqno <= server.seqno + Cardinality(Peer)
<1>1. /\ DOMAIN server = Fields /\ RaftTyped(server) /\ Sound(server, asked)
      /\ server.seqno \in Nat /\ server.raft.commitIndex \in Nat
  BY DEF ProcessorInv, Settled, Sound, Typed, QueuesTyped, RaftTyped, Raft
<1>2. Cardinality(Peer) \in Nat
  BY RequestAssumption, FS_CardinalityType
<1> QED BY <1>1, <1>2

LEMMA ObeyMoves ==
    ASSUME ProcessorInv, NEW l \in Peer, NEW keep \in server.reached..LastIndex(server),
           NEW tail \in Tails, NEW c \in server.raft.commitIndex..MaxLogLen,
           ObeyLeader(l, keep, tail, c)
    PROVE  \E u : Message(u)
<1>1. PICK log : log = Continued(server.raft.log, keep, tail)
  OBVIOUS
<1>2. PICK r : r = Follow(l, log, c)
  OBVIOUS
<1>3. PICK u : u = [server EXCEPT !.raft = r]
  OBVIOUS
<1>4. c <= Len(log) /\ OnRaftMessage(u) /\ stepDowns < MaxStepDowns /\ stepDowns' = stepDowns + 1
  BY <1>1, <1>2, <1>3 DEF ObeyLeader, Continued, Joined
<1>5. c \in Nat /\ server.raft.commitIndex <= c
  BY RestingFacts
<1>6. /\ u.raft = r /\ u.reached = server.reached /\ Moved(server, u)
      /\ u.answers = server.answers /\ u.failed = server.failed /\ server.seqno <= u.seqno
  BY <1>3, RestingFacts DEF Moved, Fields, Queued, Cookies
<1>7. RaftTyped(u) /\ Keeps(server, u, server.reached) /\ u.raft.commitIndex = c
  <2>1. Sound(server, asked)
    BY RestingFacts
  <2>2. Followed(server, u, l, keep, tail, c, log)
    BY <1>1, <1>2, <1>4, <1>6 DEF Followed
  <2>3. c \in Nat
    BY <1>5
  <2> QED BY <2>1, <2>2, <2>3, FollowTyped
<1>8. stepDowns' \in 0..MaxStepDowns
  BY <1>4, RequestAssumption DEF ProcessorInv
<1>9. Leads(u)
  BY <1>2, <1>6 DEF Follow, Leads
<1> QED BY <1>4, <1>5, <1>6, <1>7, <1>8, <1>9 DEF Message, MovesTo

LEMMA LoseMoves ==
    ASSUME ProcessorInv, LoseOffice
    PROVE  \E u : Message(u)
<1>1. PICK r : r = Depose(server.raft)
  OBVIOUS
<1>2. PICK u : u = [server EXCEPT !.raft = r]
  OBVIOUS
<1>3. u = [server EXCEPT !.raft = Depose(@)]
  BY <1>1, <1>2
<1>4. OnRaftMessage(u) /\ stepDowns < MaxStepDowns /\ stepDowns' = stepDowns + 1
  BY <1>3 DEF LoseOffice
<1>5. /\ u.raft = r /\ u.reached = server.reached /\ Moved(server, u)
      /\ u.answers = server.answers /\ u.failed = server.failed /\ server.seqno <= u.seqno
  BY <1>2, RestingFacts DEF Moved, Fields, Queued, Cookies
<1>6. RaftTyped(u) /\ Keeps(server, u, server.reached)
      /\ u.raft.commitIndex = server.raft.commitIndex
  BY <1>1, <1>5, RestingFacts, DeposeTyped
<1>7. stepDowns' \in 0..MaxStepDowns
  BY <1>4, RequestAssumption DEF ProcessorInv
<1>8. Leads(u)
  BY <1>1, <1>5, RestingFacts DEF Depose, RaftTyped, Raft, Leads
<1> QED BY <1>4, <1>5, <1>6, <1>7, <1>8, RestingFacts DEF Message, MovesTo

LEMMA ConfirmMoves ==
    ASSUME ProcessorInv, NEW c \in server.raft.commitIndex..LastIndex(server), NEW k,
           Confirm(c, k)
    PROVE  \E u : Message(u)
<1>1. PICK r : r = Advance(server.raft, c)
  OBVIOUS
<1>2. PICK u : u = [server EXCEPT !.raft = r, !.commitSeqno = k]
  OBVIOUS
<1>3. u = [server EXCEPT !.raft = Advance(@, c), !.commitSeqno = k]
  BY <1>1, <1>2
<1>4. OnRaftMessage(u) /\ stepDowns' = stepDowns
  BY <1>3 DEF Confirm
<1>5. /\ u.raft = r /\ u.reached = server.reached /\ Moved(server, u)
      /\ u.answers = server.answers /\ u.failed = server.failed /\ server.seqno <= u.seqno
  BY <1>2, RestingFacts DEF Moved, Fields, Queued, Cookies
<1>6. RaftTyped(u) /\ Keeps(server, u, server.reached)
      /\ server.raft.commitIndex <= u.raft.commitIndex
  BY <1>1, <1>5, RestingFacts, AdvanceTyped
<1>7. stepDowns' \in 0..MaxStepDowns
  BY <1>4 DEF ProcessorInv
<1>8. Leads(server) => Leads(u)
  BY <1>1, <1>5, RestingFacts DEF Advance, RaftTyped, Raft, Leads
<1> QED BY <1>4, <1>5, <1>6, <1>7, <1>8 DEF Message, MovesTo

LEMMA StandMoves ==
    ASSUME ProcessorInv, StandForElection
    PROVE  \E u : Silence(u)
<1>1. PICK r : r = Stand(server.raft)
  OBVIOUS
<1>2. PICK u : u = [server EXCEPT !.raft = r, !.commitSeqno = 0]
  OBVIOUS
<1>3. u = [server EXCEPT !.raft = Stand(@), !.commitSeqno = 0]
  BY <1>1, <1>2
<1>4. Timeout(u)
  BY <1>3 DEF StandForElection
<1>5. /\ u.raft = r /\ u.reached = server.reached /\ Moved(server, u)
      /\ u.answers = server.answers /\ u.failed = server.failed /\ server.seqno <= u.seqno
  BY <1>2, RestingFacts DEF Moved, Fields, Queued, Cookies
<1>6. RaftTyped(u) /\ Keeps(server, u, server.reached) /\ u.raft.leaderId = Nil
      /\ u.raft.commitIndex = server.raft.commitIndex
  BY <1>1, <1>5, RestingFacts, StandTyped
<1> QED BY <1>4, <1>5, <1>6, RestingFacts DEF Silence, MovesTo, Leads

LEMMA WinMoves ==
    ASSUME ProcessorInv, WinElection
    PROVE  \E u : Silence(u)
<1>1. PICK r : r = Lead(server.raft, Entry(Stub))
  OBVIOUS
<1>2. PICK u : u = [server EXCEPT !.raft = r, !.commitSeqno = 0,
                                  !.seqno = @ + Cardinality(Peer)]
  OBVIOUS
<1>3. u = [server EXCEPT !.raft = Lead(@, Entry(Stub)), !.commitSeqno = 0,
                         !.seqno = @ + Cardinality(Peer)]
  BY <1>1, <1>2
<1>4. Timeout(u)
  BY <1>3 DEF WinElection
<1>5. /\ u.raft = r /\ u.reached = server.reached /\ Moved(server, u)
      /\ u.answers = server.answers /\ u.failed = server.failed /\ server.seqno <= u.seqno
  BY <1>2, RestingFacts DEF Moved, Fields, Queued, Cookies
<1>6. RaftTyped(u) /\ Keeps(server, u, server.reached) /\ u.raft.leaderId = Nil
      /\ u.raft.commitIndex = server.raft.commitIndex
  BY <1>1, <1>5, RestingFacts, LeadTyped
<1> QED BY <1>4, <1>5, <1>6, RestingFacts DEF Silence, MovesTo, Leads

LEMMA ResponseInv ==
    ASSUME ProcessorInv, NEW m \in server.forwarded, OnCommandResponse(m)
    PROVE  ProcessorInv'
<1>1. PICK p \in server.cookieOwner :
          /\ p[1] = m.cookie
          /\ server' = [server EXCEPT
                !.relayed       = IF p[2] \in gone THEN @ ELSE @ \cup {<<p[2], m.request>>},
                !.clientCookies = @ \ {<<p[2], m.cookie>>},
                !.cookieOwner   = @ \ {p}]
  BY DEF OnCommandResponse
<1>2. Settled(server, asked)
  BY DEF ProcessorInv
<1>3. PICK r : r = (p[2] \in gone)
  OBVIOUS
<1>4. server' = [server EXCEPT
                !.relayed       = IF r THEN @ ELSE @ \cup {<<p[2], m.request>>},
                !.clientCookies = @ \ {<<p[2], m.cookie>>},
                !.cookieOwner   = @ \ {p}]
  BY <1>1, <1>3
<1>5. Settled(server', asked)
  BY <1>1, <1>2, <1>4, ResponseKeeps
<1> QED BY <1>5 DEF ProcessorInv, OnCommandResponse

LEMMA DisconnectInv ==
    ASSUME ProcessorInv, NEW c \in Client, Disconnect(c)
    PROVE  ProcessorInv'
<1>1. Settled(server, asked)
  BY DEF ProcessorInv
<1>2. Settled(CleanUp(server, c), asked)
  BY <1>1, DisconnectKeeps
<1>3. server' = CleanUp(server, c) /\ gone' \subseteq Client
  BY DEF Disconnect, ProcessorInv
<1> QED BY <1>2, <1>3 DEF ProcessorInv, Disconnect

\* What a start finds when the process ended in the middle of OnAppendEntries.
LEMMA CrashedLog ==
    ASSUME NEW keep, NEW tail, CrashInAppend(keep, tail),
           NEW log, log = Continued(server.raft.log, keep, tail)
    PROVE  Start(log) /\ stepDowns < MaxStepDowns /\ stepDowns' = stepDowns + 1
BY DEF CrashInAppend, Continued, Joined

\* The process starts with a log that has every entry it took for committed.
Starts(u, log) ==
    /\ Start(log) /\ stepDowns' \in 0..MaxStepDowns
    /\ u = server' /\ RaftTyped(u) /\ Keeps(server, u, server.reached)

LEMMA StartInv ==
    ASSUME ProcessorInv, NEW u, NEW log, Starts(u, log)
    PROVE  ProcessorInv'
<1>1. DOMAIN server = Fields
  BY RestingFacts
<1>2. Restarted(server, u, log)
  BY <1>1 DEF Starts, Start, Reboot, Restarted, Fields
<1>3. Settled(u, asked)
  BY <1>2, RestartKeeps DEF ProcessorInv, Starts
<1>4. gone' \subseteq Client
  BY DEF Starts, Start, ProcessorInv, Client
<1>5. restarts' \in 0..MaxRestarts
  BY RequestAssumption DEF Starts, Start, ProcessorInv
<1> QED BY <1>3, <1>4, <1>5 DEF Starts, Start, ProcessorInv

LEMMA RestartStarts ==
    ASSUME ProcessorInv, Restart
    PROVE  \E u, log : Starts(u, log)
<1>1. PICK u : u = server'
  OBVIOUS
<1>2. u.raft = Follow(Nil, server.raft.log, 0) /\ u.reached = server.reached
  BY <1>1, RestingFacts DEF Restart, Start, Reboot, Fields
<1>3. RaftTyped(u) /\ Keeps(server, u, server.reached)
  <2>1. RaftTyped(server)
    BY RestingFacts
  <2>2. u.raft \in Raft /\ u.raft.log = server.raft.log
    BY <1>2, <2>1 DEF Follow, RaftTyped, Raft
  <2> QED BY <1>2, <2>1, <2>2 DEF Follow, RaftTyped, Raft, Keeps
<1>4. Start(server.raft.log) /\ stepDowns' \in 0..MaxStepDowns
  BY DEF Restart, ProcessorInv
<1> QED BY <1>1, <1>3, <1>4 DEF Starts

LEMMA CrashStarts ==
    ASSUME ProcessorInv, NEW keep \in server.reached..LastIndex(server), NEW tail \in Tails,
           CrashInAppend(keep, tail)
    PROVE  \E u, log : Starts(u, log)
<1>1. PICK log : log = Continued(server.raft.log, keep, tail)
  OBVIOUS
<1>2. Start(log) /\ stepDowns < MaxStepDowns /\ stepDowns' = stepDowns + 1
  BY <1>1, CrashedLog
<1>3. PICK u : u = server'
  OBVIOUS
<1>4. PICK l \in Peer \cup {Nil}, c \in Nat : l = Nil /\ c = 0
  OBVIOUS
<1>5. Sound(server, asked)
  BY RestingFacts
<1>6. u.raft = Follow(l, log, c) /\ u.reached = server.reached
  BY <1>2, <1>3, <1>4, RestingFacts DEF Start, Reboot, Fields
<1>7. c \in Nat /\ c <= Len(log)
  <2>1. Len(log) \in Nat
    BY <1>1, <1>5, LogContinued DEF Continues
  <2> QED BY <1>4, <2>1
<1>8. RaftTyped(u) /\ Keeps(server, u, server.reached) /\ u.raft.commitIndex = c
  <2>1. Followed(server, u, l, keep, tail, c, log)
    BY <1>1, <1>6, <1>7 DEF Followed
  <2> QED BY <1>5, <1>7, <2>1, FollowTyped
<1>9. stepDowns' \in 0..MaxStepDowns
  BY <1>2, RequestAssumption DEF ProcessorInv
<1> QED BY <1>2, <1>3, <1>8, <1>9 DEF Starts

LEMMA InvNext ==
    ProcessorInv /\ [Next]_vars => ProcessorInv'
<1> SUFFICES ASSUME ProcessorInv, [Next]_vars PROVE ProcessorInv'
  OBVIOUS
<1>1. CASE \E q \in Request : Ask(q)
  BY <1>1, AskInv
<1>2. CASE \E l \in Peer, keep \in server.reached..LastIndex(server) :
              \E tail \in Tails, c \in server.raft.commitIndex..MaxLogLen :
                  ObeyLeader(l, keep, tail, c)
  BY <1>2, ObeyMoves, MessageInv
<1>3. CASE LoseOffice
  BY <1>3, LoseMoves, MessageInv
<1>4. CASE \E c \in server.raft.commitIndex..LastIndex(server),
              k \in server.commitSeqno..server.seqno - 1 : Confirm(c, k)
  BY <1>4, ConfirmMoves, MessageInv
<1>5. CASE StandForElection
  BY <1>5, StandMoves, TimeoutInv
<1>6. CASE WinElection
  BY <1>6, WinMoves, TimeoutInv
<1>7. CASE \E m \in server.forwarded : OnCommandResponse(m)
  BY <1>7, ResponseInv
<1>8. CASE \E c \in Client : Disconnect(c)
  BY <1>8, DisconnectInv
<1>9. CASE Restart
  BY <1>9, RestartStarts, StartInv
<1>c. CASE \E keep \in server.reached..LastIndex(server), tail \in Tails :
              CrashInAppend(keep, tail)
  BY <1>c, CrashStarts, StartInv
<1>10. CASE UNCHANGED vars
  BY <1>10 DEF vars, ProcessorInv
<1> QED BY <1>1, <1>2, <1>3, <1>4, <1>5, <1>6, <1>7, <1>8, <1>9, <1>c, <1>10 DEF Next

LEMMA InvAlways ==
    Spec => []ProcessorInv
BY InvInit, InvNext, PTL DEF Spec

-----------------------------------------------------------------------------
(* The results of writes, and sequences of them. *)

\* Results are kept in the order of their entries.
Result == [index : Nat \ {0}, value : Value]
Rising(s) == \A i, j \in 1..Len(s) : i < j => s[i].index < s[j].index
UpTo(s, n) == \A i \in 1..Len(s) : s[i].index <= n
FromLog(s, log) == \A i \in 1..Len(s) : s[i].value = log[s[i].index].value
Results(s, log, n) == s \in Seq(Result) /\ Rising(s) /\ UpTo(s, n) /\ FromLog(s, log)

\* What is left of s without its first n elements.
Remains(t, s, n) ==
    /\ n \in 0..Len(s) /\ t \in Seq(Result) /\ Len(t) = Len(s) - n
    /\ \A i \in 1..Len(t) : t[i] = s[n + i]

\* The result of entry j is in s.
HasResult(s, j) == \E k \in 1..Len(s) : s[k].index = j

LEMMA ResultTyped ==
    ASSUME NEW s \in Seq(Result), NEW i \in 1..Len(s)
    PROVE  s[i] \in Result /\ s[i].index \in Nat /\ s[i].index >= 1 /\ Len(s) \in Nat
<1>1. s[i] \in Result /\ Len(s) \in Nat
  OBVIOUS
<1>2. s[i].index \in Nat \ {0}
  BY <1>1 DEF Result
<1>3. s[i].index >= 1
  BY <1>2
<1> QED BY <1>1, <1>2, <1>3

LEMMA NoResults ==
    ASSUME NEW log, NEW n
    PROVE  Results(<< >>, log, n) /\ UpTo(<< >>, n)
<1>1. << >> \in Seq(Result) /\ Len(<< >>) = 0 /\ \A i : ~ (i \in 1..0)
  OBVIOUS
<1> QED BY <1>1 DEF Results, Rising, UpTo, FromLog

\* A result of a later entry goes to the end.
LEMMA ResultAdded ==
    ASSUME NEW log, NEW n \in Nat, NEW s, Results(s, log, n),
           NEW w \in Result, w.index = n + 1, w.value = log[w.index].value
    PROVE  Results(Append(s, w), log, n + 1)
<1>1. PICK t : t = Append(s, w)
  OBVIOUS
<1>2. s \in Seq(Result)
  BY DEF Results
<1>3. /\ t \in Seq(Result) /\ Len(t) = Len(s) + 1 /\ Len(s) \in Nat
      /\ \A i \in 1..Len(s) : t[i] = s[i]
      /\ t[Len(s) + 1] = w
  BY <1>1, <1>2, AppendFacts
<1>4. \A i \in 1..Len(s) : s[i].index \in Nat /\ s[i].index <= n
  BY <1>2, ResultTyped DEF Results, UpTo
<1>5. \A i \in 1..Len(s) : s[i].index < w.index
  BY <1>4
<1>6. ASSUME NEW i \in 1..Len(t) PROVE i \in 1..Len(s) \/ (i = Len(s) + 1 /\ t[i] = w)
  BY <1>3
<1>7. UpTo(t, n + 1)
  <2>1. ASSUME NEW i \in 1..Len(t) PROVE t[i].index <= n + 1
    BY <1>3, <1>4, <1>6
  <2> QED BY <2>1 DEF UpTo
<1>8. ASSUME NEW i \in 1..Len(t), NEW j \in 1..Len(t), i < j PROVE t[i].index < t[j].index
  <2>1. i \in 1..Len(s)
    BY <1>3, <1>8
  <2>2. CASE j \in 1..Len(s)
    BY <1>3, <1>8, <2>1, <2>2 DEF Results, Rising
  <2>3. CASE t[j] = w
    BY <1>3, <1>5, <2>1, <2>3
  <2> QED BY <1>6, <2>2, <2>3
<1>9. FromLog(t, log)
  <2>1. ASSUME NEW i \in 1..Len(t) PROVE t[i].value = log[t[i].index].value
    <3>1. CASE i \in 1..Len(s)
      BY <1>3, <3>1 DEF Results, FromLog
    <3>2. CASE t[i] = w
      BY <3>2
    <3> QED BY <1>6, <3>1, <3>2
  <2> QED BY <2>1 DEF FromLog
<1> QED BY <1>1, <1>3, <1>7, <1>8, <1>9 DEF Results, Rising

\* The first results go.
LEMMA ResultsRemain ==
    ASSUME NEW log, NEW n \in Nat, NEW s, Results(s, log, n), NEW k, NEW t, Remains(t, s, k)
    PROVE  Results(t, log, n)
<1>1. s \in Seq(Result) /\ Len(s) \in Nat /\ k \in 0..Len(s) /\ t \in Seq(Result)
      /\ Len(t) = Len(s) - k
  BY DEF Results, Remains
<1>2. ASSUME NEW i \in 1..Len(t) PROVE k + i \in 1..Len(s) /\ t[i] = s[k + i]
  BY <1>1 DEF Remains
<1>3. ASSUME NEW i \in 1..Len(t), NEW j \in 1..Len(t), i < j PROVE t[i].index < t[j].index
  <2>1. k + i < k + j
    BY <1>1, <1>3
  <2> QED BY <1>2, <2>1 DEF Results, Rising
<1>4. UpTo(t, n)
  BY <1>2 DEF Results, UpTo
<1>5. FromLog(t, log)
  BY <1>2 DEF Results, FromLog
<1> QED BY <1>1, <1>3, <1>4, <1>5 DEF Results, Rising

LEMMA UpToRemains ==
    ASSUME NEW n, NEW s \in Seq(Result), UpTo(s, n), NEW k, NEW t, Remains(t, s, k)
    PROVE  UpTo(t, n)
<1>1. Len(s) \in Nat /\ k \in 0..Len(s) /\ Len(t) = Len(s) - k
  BY DEF Remains
<1>2. ASSUME NEW i \in 1..Len(t) PROVE k + i \in 1..Len(s) /\ t[i] = s[k + i]
  BY <1>1 DEF Remains
<1> QED BY <1>2 DEF UpTo

LEMMA FirstRemains ==
    ASSUME NEW s \in Seq(Result), NEW k, NEW t, Remains(t, s, k), t # << >>
    PROVE  k + 1 \in 1..Len(s) /\ Head(t) = s[k + 1] /\ Remains(Tail(t), s, k + 1)
<1>1. /\ Len(s) \in Nat /\ k \in 0..Len(s) /\ t \in Seq(Result) /\ Len(t) = Len(s) - k
      /\ \A i \in 1..Len(t) : t[i] = s[k + i]
  BY DEF Remains
<1>2. Len(t) \in Nat /\ Len(t) >= 1 /\ Head(t) = t[1]
  BY <1>1
<1>3. k + 1 \in 1..Len(s) /\ Head(t) = s[k + 1]
  BY <1>1, <1>2
<1>4. PICK r : r = Tail(t)
  OBVIOUS
<1>5. /\ r \in Seq(Result) /\ Len(r) = Len(t) - 1
      /\ \A i \in 1..Len(r) : r[i] = t[i + 1]
  BY <1>1, <1>4
<1>6. ASSUME NEW i \in 1..Len(r) PROVE r[i] = s[k + 1 + i]
  <2>1. i + 1 \in 1..Len(t) /\ k + (i + 1) = k + 1 + i
    BY <1>1, <1>2, <1>5
  <2>2. t[i + 1] = s[k + (i + 1)]
    BY <1>1, <2>1
  <2> QED BY <1>5, <2>1, <2>2
<1>7. Remains(r, s, k + 1)
  <2>1. k + 1 \in 0..Len(s) /\ Len(r) = Len(s) - (k + 1)
    BY <1>1, <1>2, <1>3, <1>5
  <2> QED BY <1>5, <1>6, <2>1 DEF Remains
<1> QED BY <1>3, <1>4, <1>7

\* What AnswersFrom leaves: the results from the index on.
LEMMA FromIndex ==
    ASSUME NEW v, v.answers \in Seq(Result), NEW index \in Nat
    PROVE  \E n \in 0..Len(v.answers) :
               /\ Remains(AnswersFrom(v, index), v.answers, n)
               /\ \A i \in 1..n : v.answers[i].index < index
               /\ n < Len(v.answers) => v.answers[n + 1].index >= index
<1>1. PICK s : s = v.answers
  OBVIOUS
<1>2. s \in Seq(Result) /\ Len(s) \in Nat
  BY <1>1
<1> DEFINE P(n) == /\ \A i \in 1..n : s[i].index < index
                   /\ n < Len(s) => s[n + 1].index >= index
           S == {n \in 0..Len(s) : n < Len(s) => s[n + 1].index >= index}
<1>3. PICK n \in S : \A m \in S : n <= m
  <2>1. S \in SUBSET Nat /\ Len(s) \in S
    BY <1>2
  <2> HIDE DEF S
  <2> QED BY <2>1, LeastNatural
<1>4. n \in 0..Len(s) /\ P(n)
  <2>1. ASSUME NEW i \in 1..n PROVE s[i].index < index
    <3>1. i - 1 \in 0..Len(s) /\ i - 1 < Len(s) /\ i - 1 + 1 = i /\ ~ (n <= i - 1)
          /\ i \in 1..Len(s)
      BY <1>2
    <3>2. i - 1 \notin S
      BY <1>3, <3>1
    <3>3. ~ (s[i].index >= index)
      BY <3>1, <3>2
    <3>4. s[i].index \in Nat
      BY <1>2, <3>1, ResultTyped
    <3> QED BY <3>3, <3>4
  <2> QED BY <2>1
<1>5. PICK k \in 0..Len(s) : P(k) /\ AnswersFrom(v, index) = SubSeq(s, k + 1, Len(s))
  <2> DEFINE k == CHOOSE m \in 0..Len(s) : P(m)
  <2>1. k \in 0..Len(s) /\ P(k)
    <3> HIDE DEF P
    <3> QED BY <1>4
  <2>2. AnswersFrom(v, index) = SubSeq(s, k + 1, Len(s))
    BY <1>1 DEF AnswersFrom
  <2> HIDE DEF k
  <2> QED BY <2>1, <2>2
<1>6. PICK t : t = SubSeq(s, k + 1, Len(s))
  OBVIOUS
<1>7. /\ t \in Seq(Result) /\ Len(t) = Len(s) - k
      /\ \A i \in 1..Len(t) : t[i] = s[k + i]
  <2>1. k + 1 \in 1..Len(s) + 1
    BY <1>2
  <2>2. /\ t \in Seq(Result) /\ Len(t) = Len(s) - k
        /\ \A i \in 1..Len(t) : t[i] = s[k + 1 + i - 1]
    BY <1>2, <1>6, <2>1
  <2>3. \A i \in 1..Len(t) : k + 1 + i - 1 = k + i
    BY <1>2, <2>2
  <2> QED BY <2>2, <2>3
<1>8. Remains(t, s, k)
  BY <1>7 DEF Remains
<1> QED BY <1>1, <1>5, <1>6, <1>8

-----------------------------------------------------------------------------
(* What clients are told. *)

Replying(v) == \E S : v.replies \in [Request -> Seq(S)]

\* Up to index n log holds what reply r says.
TrueOf(r, log, n) == r.kind = "write" => r.index \in 1..n /\ log[r.index].value = r.of
Told(replies, log, n) ==
    \A q \in Request : \A i \in 1..Len(replies[q]) : TrueOf(replies[q][i], log, n)

LEMMA ReplyFacts ==
    ASSUME NEW S, NEW r \in [Request -> Seq(S)], NEW q \in Request, NEW reply,
           NEW t, t = [r EXCEPT ![q] = Append(@, reply)]
    PROVE  /\ t \in [Request -> Seq(S \cup {reply})]
           /\ \A p \in Request : p # q => t[p] = r[p]
           /\ Len(r[q]) \in Nat /\ Len(t[q]) = Len(r[q]) + 1
           /\ \A i \in 1..Len(r[q]) : t[q][i] = r[q][i]
           /\ t[q][Len(r[q]) + 1] = reply
<1>1. r[q] \in Seq(S)
  OBVIOUS
<1>2. PICK s : s = Append(r[q], reply)
  OBVIOUS
<1>3. /\ s \in Seq(S \cup {reply}) /\ Len(s) = Len(r[q]) + 1 /\ Len(r[q]) \in Nat
      /\ \A i \in 1..Len(r[q]) : s[i] = r[q][i]
      /\ s[Len(r[q]) + 1] = reply
  BY <1>1, <1>2, AppendAny
<1>4. /\ DOMAIN t = Request /\ t[q] = s
      /\ t = [p \in Request |-> IF p = q THEN s ELSE r[p]]
      /\ \A p \in Request : p # q => t[p] = r[p]
  BY <1>2
<1>5. ASSUME NEW p \in Request PROVE t[p] \in Seq(S \cup {reply})
  <2>1. CASE p = q
    BY <1>3, <1>4, <2>1
  <2>2. CASE p # q
    <3>1. t[p] = r[p] /\ r[p] \in Seq(S)
      BY <1>4, <2>2
    <3> QED BY <3>1, MoreAsked
  <2> QED BY <2>1, <2>2
<1>6. t \in [Request -> Seq(S \cup {reply})]
  BY <1>4, <1>5
<1> QED BY <1>3, <1>4, <1>6

\* At most one answer more, to the command q.
Answers1(v, u, q) ==
    /\ \A p \in Request : p # q => u.replies[p] = v.replies[p]
    /\ Len(v.replies[q]) \in Nat
    /\ Len(u.replies[q]) = Len(v.replies[q]) \/ Len(u.replies[q]) = Len(v.replies[q]) + 1

LEMMA ReplyTold ==
    ASSUME NEW v, Replying(v), NEW log, NEW n, Told(v.replies, log, n), NEW q \in Request,
           NEW reply, TrueOf(reply, log, n), NEW u, Replied(v, u, q, reply)
    PROVE  Replying(u) /\ Told(u.replies, log, n) /\ Answers1(v, u, q)
<1>1. PICK S : v.replies \in [Request -> Seq(S)]
  BY DEF Replying
<1>2. CASE u.replies = v.replies
  BY <1>1, <1>2 DEF Replying, Answers1
<1>3. CASE u.replies = [v.replies EXCEPT ![q] = Append(@, reply)]
  <2>1. PICK r : r = v.replies
    OBVIOUS
  <2>2. PICK t : t = u.replies
    OBVIOUS
  <2>3. /\ t \in [Request -> Seq(S \cup {reply})]
        /\ \A p \in Request : p # q => t[p] = r[p]
        /\ Len(r[q]) \in Nat /\ Len(t[q]) = Len(r[q]) + 1
        /\ \A i \in 1..Len(r[q]) : t[q][i] = r[q][i]
        /\ t[q][Len(r[q]) + 1] = reply
    BY <1>1, <1>3, <2>1, <2>2, ReplyFacts
  <2>4. ASSUME NEW p \in Request, NEW i \in 1..Len(t[p]) PROVE TrueOf(t[p][i], log, n)
    <3>1. CASE p # q
      BY <2>1, <2>3, <3>1 DEF Told
    <3>2. CASE p = q /\ i \in 1..Len(r[q])
      BY <2>1, <2>3, <3>2 DEF Told
    <3>3. CASE p = q /\ i \notin 1..Len(r[q])
      <4>1. i = Len(r[q]) + 1
        BY <2>3, <3>3
      <4> QED BY <2>3, <3>3, <4>1
    <3> QED BY <3>1, <3>2, <3>3
  <2>5. Told(t, log, n)
    BY <2>4 DEF Told
  <2>6. Replying(u)
    BY <2>2, <2>3 DEF Replying
  <2> QED BY <2>1, <2>2, <2>3, <2>5, <2>6 DEF Answers1
<1> QED BY <1>2, <1>3 DEF Replied

LEMMA ToldKept ==
    ASSUME NEW r, NEW v, NEW n \in Nat, Told(r, v.raft.log, n), NEW u, Keeps(v, u, n),
           NEW m \in Nat, n <= m
    PROVE  Told(r, u.raft.log, m)
<1>1. ASSUME NEW q \in Request, NEW i \in 1..Len(r[q]) PROVE TrueOf(r[q][i], u.raft.log, m)
  <2>1. PICK x : x = r[q][i]
    OBVIOUS
  <2>2. TrueOf(x, v.raft.log, n)
    BY <2>1 DEF Told
  <2>3. ASSUME x.kind = "write" PROVE x.index \in 1..m /\ u.raft.log[x.index].value = x.of
    <3>1. x.index \in 1..n /\ v.raft.log[x.index].value = x.of
      BY <2>2, <2>3 DEF TrueOf
    <3>2. u.raft.log[x.index] = v.raft.log[x.index]
      BY <3>1 DEF Keeps
    <3> QED BY <3>1, <3>2
  <2> QED BY <2>1, <2>3 DEF TrueOf
<1> QED BY <1>1 DEF Told

LEMMA ResultsKept ==
    ASSUME NEW s, NEW v, NEW n \in Nat, Results(s, v.raft.log, n), NEW u, Keeps(v, u, n)
    PROVE  Results(s, u.raft.log, n)
<1>1. ASSUME NEW i \in 1..Len(s) PROVE s[i].value = u.raft.log[s[i].index].value
  <2>1. s \in Seq(Result) /\ s[i].index <= n /\ s[i].value = v.raft.log[s[i].index].value
    BY DEF Results, UpTo, FromLog
  <2>2. s[i].index \in Nat /\ s[i].index >= 1
    BY <2>1, ResultTyped
  <2>3. s[i].index \in 1..n
    BY <2>1, <2>2
  <2> QED BY <2>1, <2>3 DEF Keeps
<1> QED BY <1>1 DEF Results, FromLog

-----------------------------------------------------------------------------
(* Commands and what clients are owed. *)

Silent(v, q) == v.replies[q] = << >>
Once(v) == \A q \in Request : q.kind = "write" => Len(v.replies[q]) <= 1

\* Writes that wait, and commands that never arrived, have no answer yet; no
\* write waits with the consistent reads, and no command of a peer is parked.
Owing(v, A) ==
    /\ \A q \in Request \ A : Silent(v, q)
    /\ \A i \in 1..Len(v.waiting) :
          v.waiting[i].request.kind = "write" => Silent(v, v.waiting[i].request)
    /\ \A i \in 1..Len(v.strongWaiting) : v.strongWaiting[i].request.kind # "write"
    /\ \A i \in 1..Len(v.parked) : ~ v.parked[i].fromPeer

\* The results that are kept are those of applied entries.
Ordered(v) ==
    /\ Results(v.answers, v.raft.log, v.lastApplied) /\ UpTo(v.answers, v.raft.commitIndex)
    /\ v.lastApplied <= v.reached /\ v.savedApplied <= v.reached

\* A leader knows no other.  Rounds are counted upwards.
Leading(v) ==
    /\ v.raft.role = "LEADER" => v.raft.leaderId = Nil
    /\ v.strongWaiting # << >> => Last(v.strongWaiting).seqno <= v.seqno

True(v) == Replying(v) /\ Told(v.replies, v.raft.log, v.reached)

Tidy(v, A) == Ordered(v) /\ True(v) /\ Once(v) /\ Owing(v, A) /\ Leading(v)

\* The log grows, or changes past what was ever committed.
LEMMA OrderedKept ==
    ASSUME NEW v, RsmTyped(v), v.reached \in Nat, v.raft.commitIndex \in Nat, Ordered(v),
           NEW u, u.raft.commitIndex \in Nat, v.raft.commitIndex <= u.raft.commitIndex,
           Keeps(v, u, v.reached), u.answers = v.answers, u.lastApplied = v.lastApplied,
           u.savedApplied = v.savedApplied, u.reached = v.reached
    PROVE  Ordered(u)
<1>1. v.lastApplied \in Nat /\ v.lastApplied <= v.reached /\ v.answers \in Seq(Result)
      /\ Results(v.answers, v.raft.log, v.lastApplied) /\ UpTo(v.answers, v.raft.commitIndex)
  BY DEF RsmTyped, Ordered, Results
<1>2. Keeps(v, u, v.lastApplied)
  <2>1. \A i \in 1..v.lastApplied : i \in 1..v.reached
    BY <1>1
  <2> QED BY <2>1 DEF Keeps
<1>3. Results(v.answers, u.raft.log, v.lastApplied)
  BY <1>1, <1>2, ResultsKept
<1>4. UpTo(v.answers, u.raft.commitIndex)
  <2>1. ASSUME NEW i \in 1..Len(v.answers) PROVE v.answers[i].index <= u.raft.commitIndex
    <3>1. v.answers[i].index \in Nat
      BY <1>1, ResultTyped
    <3>2. v.answers[i].index <= v.raft.commitIndex
      BY <1>1 DEF UpTo
    <3> QED BY <3>1, <3>2
  <2> QED BY <2>1 DEF UpTo
<1> QED BY <1>3, <1>4 DEF Ordered

LEMMA TrueKept ==
    ASSUME NEW v, v.reached \in Nat, True(v), NEW u, Keeps(v, u, v.reached),
           u.replies = v.replies, u.reached \in Nat, v.reached <= u.reached
    PROVE  True(u)
BY ToldKept DEF True, Replying

\* A command is answered at once only if it is one of a peer.
LEMMA CommandAnswers ==
    ASSUME NEW v, True(v), NEW q \in Request, NEW u, Commanded(v, u, q),
           Keeps(v, u, v.reached), v.reached \in Nat
    PROVE  /\ True(u)
           /\ \A p \in Request : p # q => u.replies[p] = v.replies[p]
           /\ Len(u.replies[q]) <= Len(v.replies[q]) + 1 /\ Len(v.replies[q]) \in Nat
           /\ u.replies # v.replies => q.fromPeer /\ u.waiting = v.waiting
<1>1. u.reached = v.reached /\ Refuses(v, u, q)
  BY DEF Commanded, Applied
<1>2. PICK S : v.replies \in [Request -> Seq(S)]
  BY DEF True, Replying
<1>3. Len(v.replies[q]) \in Nat
  BY <1>2
<1>4. CASE u.replies = v.replies
  BY <1>1, <1>3, <1>4, TrueKept
<1>5. CASE u.replies # v.replies
  <2>1. PICK reply : reply.kind # "read" /\ reply.kind # "write" /\ Replied(v, u, q, reply)
    BY <1>1, <1>5 DEF Refuses
  <2>2. TrueOf(reply, v.raft.log, v.reached)
    BY <2>1 DEF TrueOf
  <2>3. Replying(v) /\ Told(v.replies, v.raft.log, v.reached)
    BY DEF True
  <2>6. PICK log : log = v.raft.log
    OBVIOUS
  <2>7. PICK n : n = v.reached
    OBVIOUS
  <2>8. Told(v.replies, log, n) /\ TrueOf(reply, log, n) /\ Replied(v, u, q, reply)
    BY <2>1, <2>2, <2>3, <2>6, <2>7
  <2>9. Replying(u) /\ Told(u.replies, log, n) /\ Answers1(v, u, q)
    BY <2>3, <2>8, ReplyTold
  <2>4. Replying(u) /\ Told(u.replies, v.raft.log, v.reached)
    BY <2>6, <2>7, <2>9
  <2>5. Told(u.replies, u.raft.log, u.reached)
    <3>1. v.reached <= v.reached
      OBVIOUS
    <3> QED BY <1>1, <2>4, <3>1, ToldKept
  <2> QED BY <1>1, <1>3, <1>5, <2>4, <2>5, <2>9 DEF True, Refuses, Answers1
<1> QED BY <1>4, <1>5

LEMMA AddedLast ==
    ASSUME NEW S, NEW s \in Seq(S), NEW e, NEW t, t = Append(s, e)
    PROVE  /\ t # s /\ t # << >> /\ Last(t) = e /\ Len(t) = Len(s) + 1 /\ Len(s) \in Nat
           /\ \A i \in 1..Len(t) : t[i] = e \/ (i \in 1..Len(s) /\ t[i] = s[i])
BY AppendAny DEF Last

LEMMA LastAdded ==
    ASSUME NEW S, NEW s \in Seq(S), NEW e
    PROVE  Last(Append(s, e)) = e
BY AddedLast

LEMMA CommandOwes ==
    ASSUME NEW v, NEW A, A \subseteq Request, Typed(v, A), Tidy(v, A), NEW q \in Request,
           NEW u, Commanded(v, u, q),
           q \notin A \/ (~ q.fromPeer /\ v.raft.role # "LEADER"),
           \A p \in Request : p # q => u.replies[p] = v.replies[p],
           u.replies # v.replies => q.fromPeer /\ u.waiting = v.waiting
    PROVE  Owing(u, A \cup {q})
<1>1. /\ v.waiting \in Seq(WaitingOf(A)) /\ v.strongWaiting \in Seq(StrongOf(A))
      /\ v.parked \in Seq(A)
  BY DEF Typed, QueuesTyped
<1>2. Owing(v, A)
  BY DEF Tidy
<1>3. ASSUME NEW p \in Request \ (A \cup {q}) PROVE Silent(u, p)
  BY <1>2 DEF Owing, Silent
<1>4. ASSUME NEW i \in 1..Len(v.waiting), v.waiting[i].request.kind = "write"
      PROVE  Silent(u, v.waiting[i].request)
  <2>1. v.waiting[i].request \in A /\ Silent(v, v.waiting[i].request)
    <3>1. v.waiting[i] \in WaitingOf(A)
      BY <1>1
    <3> QED BY <1>2, <1>4, <3>1 DEF WaitingOf, Owing
  <2>2. CASE v.waiting[i].request # q
    BY <2>1, <2>2 DEF Silent
  <2>3. CASE v.waiting[i].request = q
    <3>1. ~ q.fromPeer
      BY <2>1, <2>3
    <3> QED BY <2>1, <3>1 DEF Silent
  <2> QED BY <2>2, <2>3
<1>5. ASSUME NEW i \in 1..Len(u.waiting), u.waiting[i].request.kind = "write"
      PROVE  Silent(u, u.waiting[i].request)
  <2>1. CASE u.waiting = v.waiting
    BY <1>4, <1>5, <2>1
  <2>2. CASE u.waiting # v.waiting
    <3>1. PICK w : w = [index |-> Len(u.raft.log), request |-> q]
      OBVIOUS
    <3>2. u.waiting = Append(v.waiting, w)
          /\ (q.kind = "write" => v.raft.role = "LEADER")
      BY <2>2, <3>1 DEF Commanded, Pushes
    <3>3. CASE u.waiting[i] = w
      <4>1. q \notin A
        BY <1>5, <3>1, <3>2, <3>3
      <4>2. Silent(v, q) /\ u.replies = v.replies
        BY <1>2, <2>2, <4>1 DEF Owing
      <4> QED BY <3>1, <3>3, <4>2 DEF Silent
    <3>4. CASE u.waiting[i] # w
      <4>1. i \in 1..Len(v.waiting) /\ u.waiting[i] = v.waiting[i]
        BY <1>1, <3>2, <3>4, AddedLast
      <4> QED BY <1>4, <1>5, <4>1
    <3> QED BY <3>3, <3>4
  <2> QED BY <2>1, <2>2
<1>6. ASSUME NEW i \in 1..Len(u.strongWaiting) PROVE u.strongWaiting[i].request.kind # "write"
  <2>1. CASE u.strongWaiting = v.strongWaiting
    BY <1>2, <2>1 DEF Owing
  <2>2. CASE u.strongWaiting # v.strongWaiting
    <3>1. PICK w : w = [index |-> Len(u.raft.log), seqno |-> v.seqno, request |-> q]
      OBVIOUS
    <3>2. u.strongWaiting = Append(v.strongWaiting, w) /\ q.kind # "write"
      BY <2>2, <3>1 DEF Commanded, PushesStrong
    <3>3. u.strongWaiting[i] = w
          \/ (i \in 1..Len(v.strongWaiting) /\ u.strongWaiting[i] = v.strongWaiting[i])
      BY <1>1, <3>2, AddedLast
    <3> QED BY <1>2, <3>1, <3>2, <3>3 DEF Owing
  <2> QED BY <2>1, <2>2
<1>7. ASSUME NEW i \in 1..Len(u.parked) PROVE ~ u.parked[i].fromPeer
  <2>1. CASE u.parked = v.parked
    BY <1>2, <2>1 DEF Owing
  <2>2. CASE u.parked # v.parked
    <3>1. u.parked = Append(v.parked, q) /\ ~ q.fromPeer
      BY <2>2 DEF Commanded, Parks
    <3>2. u.parked[i] = q \/ (i \in 1..Len(v.parked) /\ u.parked[i] = v.parked[i])
      BY <1>1, <3>1, AddedLast
    <3> QED BY <1>2, <3>1, <3>2 DEF Owing
  <2> QED BY <2>1, <2>2
<1> QED BY <1>3, <1>5, <1>6, <1>7 DEF Owing

LEMMA CommandLeads ==
    ASSUME NEW v, NEW A, Typed(v, A), Leading(v), NEW q, NEW u, Commanded(v, u, q),
           Cardinality(Peer) \in Nat
    PROVE  Leading(u)
<1>1. v.strongWaiting \in Seq(StrongOf(A)) /\ v.seqno \in Nat
  BY DEF Typed, QueuesTyped
<1>2. u.seqno \in Nat /\ v.seqno <= u.seqno
  BY <1>1 DEF Commanded
<1>3. u.raft.role = "LEADER" => u.raft.leaderId = Nil
  BY DEF Commanded, Applied, Leading
<1>4. ASSUME u.strongWaiting # << >> PROVE Last(u.strongWaiting).seqno <= u.seqno
  <2>1. CASE u.strongWaiting = v.strongWaiting
    <3>1. v.strongWaiting # << >>
      BY <1>4, <2>1
    <3>2. Last(v.strongWaiting).seqno <= v.seqno
      BY <3>1 DEF Leading
    <3>3. Last(v.strongWaiting).seqno \in Nat
      <4>1. Last(v.strongWaiting) \in StrongOf(A)
        BY <1>1, <3>1, LastFacts
      <4> QED BY <4>1 DEF StrongOf
    <3> QED BY <1>1, <1>2, <2>1, <3>2, <3>3
  <2>2. CASE u.strongWaiting # v.strongWaiting
    <3>1. PICK w : w = [index |-> Len(u.raft.log), seqno |-> v.seqno, request |-> q]
      OBVIOUS
    <3>2. u.strongWaiting = Append(v.strongWaiting, w)
      BY <2>2, <3>1 DEF Commanded, PushesStrong
    <3>3. Last(u.strongWaiting) = w
      BY <1>1, <3>2, LastAdded
    <3> QED BY <1>2, <3>1, <3>3
  <2> QED BY <2>1, <2>2
<1> QED BY <1>3, <1>4 DEF Leading

\* A command that is new, or was parked and is no write for a leader.
LEMMA CommandTidy ==
    ASSUME NEW v, NEW A, A \subseteq Request, Typed(v, A), Tidy(v, A), NEW q \in Request,
           NEW u, Commanded(v, u, q), Cardinality(Peer) \in Nat,
           Keeps(v, u, Len(v.raft.log)),
           q \notin A \/ (~ q.fromPeer /\ v.raft.role # "LEADER")
    PROVE  Tidy(u, A \cup {q})
<1>1. /\ RsmTyped(v) /\ v.reached \in Nat /\ v.reached <= Len(v.raft.log)
      /\ v.raft.commitIndex \in Nat /\ Len(v.raft.log) \in Nat
      /\ Ordered(v) /\ True(v) /\ Once(v) /\ Owing(v, A) /\ Leading(v)
  BY DEF Typed, RaftTyped, Raft, Tidy
<1>2. Keeps(v, u, v.reached)
  <2>1. \A i \in 1..v.reached : i \in 1..Len(v.raft.log)
    BY <1>1
  <2> QED BY <2>1 DEF Keeps
<1>3. /\ u.answers = v.answers /\ u.lastApplied = v.lastApplied
      /\ u.savedApplied = v.savedApplied /\ u.reached = v.reached
      /\ u.raft.commitIndex = v.raft.commitIndex /\ v.raft.commitIndex <= v.raft.commitIndex
  BY <1>1 DEF Commanded, Applied
<1>4. Ordered(u)
  BY <1>1, <1>2, <1>3, OrderedKept
<1>5. /\ True(u)
      /\ \A p \in Request : p # q => u.replies[p] = v.replies[p]
      /\ Len(u.replies[q]) <= Len(v.replies[q]) + 1 /\ Len(v.replies[q]) \in Nat
      /\ u.replies # v.replies => q.fromPeer /\ u.waiting = v.waiting
  BY <1>1, <1>2, CommandAnswers
<1>6. Once(u)
  <2>1. ASSUME NEW p \in Request, p.kind = "write" PROVE Len(u.replies[p]) <= 1
    <3>1. CASE p # q \/ u.replies = v.replies
      BY <1>1, <1>5, <2>1, <3>1 DEF Once
    <3>2. CASE p = q /\ u.replies # v.replies
      <4>1. q \notin A
        BY <1>5, <3>2
      <4>2. v.replies[q] = << >> /\ Len(<< >>) = 0
        BY <1>1, <4>1 DEF Owing, Silent
      <4> QED BY <1>5, <3>2, <4>2
    <3> QED BY <3>1, <3>2
  <2> QED BY <2>1 DEF Once
<1>7. Owing(u, A \cup {q})
  BY <1>5, CommandOwes
<1>8. Leading(u)
  BY <1>1, CommandLeads
<1> QED BY <1>4, <1>5, <1>6, <1>7, <1>8 DEF Tidy
-----------------------------------------------------------------------------
(* No assertion fails of itself. *)

\* The queues stay sorted under log, and the entry of a write that waits as the
\* newest is there and not applied.
Ready(v, log) ==
    /\ v.waiting # << >> => Last(v.waiting).index <= Len(log)
    /\ v.waiting # << >> /\ Last(v.waiting).request.kind = "write" =>
          /\ Last(v.waiting).index > v.lastApplied
          /\ log[Last(v.waiting).index].value = Last(v.waiting).request
          /\ Len(v.waiting) = 1 \/ Last(v.waiting).index > v.raft.commitIndex
    /\ v.strongWaiting # << >> =>
          Last(v.strongWaiting).index <= Len(log) /\ Last(v.strongWaiting).seqno <= v.seqno
Steady(v) == v.failed = None /\ Ready(v, v.raft.log)

LEMMA PushRuns ==
    ASSUME NEW v, DOMAIN v = Fields, v.failed = None, NEW q, NEW index \in Nat, NEW A,
           v.waiting \in Seq(WaitingOf(A)),
           v.waiting # << >> => Last(v.waiting).index <= index
    PROVE  PushWaiting(v, q, index).failed = None
<1>1. ~ (v.waiting # << >> /\ Last(v.waiting).index > index)
  <2> SUFFICES ASSUME v.waiting # << >> PROVE ~ (Last(v.waiting).index > index)
    OBVIOUS
  <2>1. Last(v.waiting) \in WaitingOf(A)
    BY LastFacts
  <2>2. Last(v.waiting).index \in Nat
    BY <2>1 DEF WaitingOf
  <2> QED BY <2>2
<1>2. PushWaiting(v, q, index) = [v EXCEPT !.waiting = Append(@, [index |-> index, request |-> q])]
  BY <1>1 DEF PushWaiting
<1> QED BY <1>2 DEF Fields

LEMMA ForwardRuns ==
    ASSUME NEW v, DOMAIN v = Fields, v.failed = None, v.raft \in Raft, Leading(v),
           NEW q \in Request
    PROVE  Forward(v, q).failed = None
<1>1. CASE q.fromPeer
  <2>1. PICK reply : reply = [index |-> 0, kind |-> "error", of |-> Nil]
    OBVIOUS
  <2>2. Forward(v, q) = Send(v, q, reply)
    BY <1>1, <2>1 DEF Forward
  <2> QED BY <2>2, SendFacts
<1>2. CASE ~ q.fromPeer /\ (v.raft.role = "CANDIDATE" \/ v.raft.leaderId = Nil)
  <2>1. Forward(v, q) = [v EXCEPT !.parked = Append(@, q)]
    BY <1>2 DEF Forward
  <2> QED BY <2>1 DEF Fields
<1>3. CASE ~ q.fromPeer /\ ~ (v.raft.role = "CANDIDATE" \/ v.raft.leaderId = Nil)
  <2>1. v.raft.role = "FOLLOWER"
    BY <1>3 DEF Raft, Leading
  <2>2. Forward(v, q) = ForwardToLeader(v, q)
    BY <1>3, <2>1 DEF Forward
  <2> QED BY <2>2, ForwardFacts
<1> QED BY <1>1, <1>2, <1>3

LEMMA StrongRuns ==
    ASSUME NEW v, DOMAIN v = Fields, v.failed = None, NEW q, NEW A, Typed(v, A),
           Leading(v), v.strongWaiting # << >> => Last(v.strongWaiting).index <= LastIndex(v)
    PROVE  PushStrongWaiting(v, q).failed = None
<1>1. PICK w : w = [index |-> LastIndex(v), seqno |-> v.seqno, request |-> q]
  OBVIOUS
<1>2. ~ /\ v.strongWaiting # << >>
        /\ \/ Last(v.strongWaiting).index > w.index
           \/ Last(v.strongWaiting).seqno > w.seqno
  <2> SUFFICES ASSUME v.strongWaiting # << >>
               PROVE  /\ ~ (Last(v.strongWaiting).index > w.index)
                      /\ ~ (Last(v.strongWaiting).seqno > w.seqno)
    OBVIOUS
  <2>1. v.strongWaiting \in Seq(StrongOf(A)) /\ v.seqno \in Nat /\ LastIndex(v) \in Nat
    BY DEF Typed, QueuesTyped, RaftTyped, Raft, LastIndex
  <2>2. Last(v.strongWaiting) \in StrongOf(A)
    BY <2>1, LastFacts
  <2>3. Last(v.strongWaiting).index \in Nat /\ Last(v.strongWaiting).seqno \in Nat
    BY <2>2 DEF StrongOf
  <2>4. Last(v.strongWaiting).index <= w.index /\ Last(v.strongWaiting).seqno <= w.seqno
    BY <1>1 DEF Leading
  <2> QED BY <1>1, <2>1, <2>3, <2>4
<1>3. PICK a : a = [v EXCEPT !.seqno = @ + Cardinality(Peer)]
  OBVIOUS
<1>4. DOMAIN a = Fields /\ a.failed = None
  BY <1>3 DEF Fields
<1>5. PushStrongWaiting(v, q) = [a EXCEPT !.strongWaiting = Append(@, w)]
  BY <1>1, <1>2, <1>3 DEF PushStrongWaiting
<1> QED BY <1>4, <1>5 DEF Fields

LEMMA CommandRuns ==
    ASSUME NEW v, NEW A, Typed(v, A), Leading(v), v.failed = None, NEW q \in Request,
           NEW u, u = OnCommandRequest(v, q), Ready(v, u.raft.log)
    PROVE  u.failed = None
<1>1. /\ DOMAIN v = Fields /\ v.raft \in Raft /\ v.waiting \in Seq(WaitingOf(A))
      /\ Len(v.raft.log) \in Nat /\ v.raft.log \in Seq(LogEntry)
  BY DEF Typed, RaftTyped, QueuesTyped, Raft
<1>2. Commanded(v, u, q)
  BY <1>1, CommandEffect
<1>3. CASE q.kind = "write" /\ v.raft.role = "LEADER"
  <2>1. PICK e : e = Entry(q)
    OBVIOUS
  <2>2. PICK r : r = Submit(v.raft, e)
    OBVIOUS
  <2>3. PICK x : x = [v EXCEPT !.raft = r]
    OBVIOUS
  <2>4. DOMAIN x = Fields /\ x.failed = None /\ x.waiting = v.waiting /\ x.raft = r
    BY <1>1, <2>3 DEF Fields
  <2>5. u = PushWaiting(x, q, Len(v.raft.log) + 1)
    BY <1>3, <2>1, <2>2, <2>3 DEF OnCommandRequest, OnWriteRequest, LastIndex
  <2>6. Len(r.log) = Len(v.raft.log) + 1
    <3>1. r.log = Append(v.raft.log, e)
      BY <1>1, <2>2 DEF Submit, Raft
    <3> QED BY <1>1, <3>1, AppendAny
  <2>7. u.raft = r
    <3>1. PushedWaiting(x, u, q, Len(v.raft.log) + 1)
      BY <2>4, <2>5, PushWaitingEffect
    <3> QED BY <2>4, <3>1 DEF PushedWaiting
  <2>8. v.waiting # << >> => Last(v.waiting).index <= Len(v.raft.log) + 1
    BY <2>6, <2>7 DEF Ready
  <2>9. Len(v.raft.log) + 1 \in Nat
    BY <1>1
  <2> QED BY <1>1, <2>4, <2>5, <2>8, <2>9, PushRuns
<1>4. CASE q.kind # "write" /\ (q.kind = "stale" \/ (q.kind = "default" /\ v.raft.role = "LEADER"))
  <2>1. u = PushWaiting(v, q, Len(v.raft.log))
    BY <1>4 DEF OnCommandRequest, OnReadRequest, LastIndex
  <2>2. u.raft = v.raft
    <3>1. PushedWaiting(v, u, q, Len(v.raft.log))
      BY <1>1, <2>1, PushWaitingEffect
    <3> QED BY <3>1 DEF PushedWaiting
  <2>3. v.waiting # << >> => Last(v.waiting).index <= Len(v.raft.log)
    BY <2>2 DEF Ready
  <2> QED BY <1>1, <2>1, <2>3, PushRuns
<1>5. CASE /\ q.kind # "write" /\ ~ (q.kind = "stale" \/ (q.kind = "default" /\ v.raft.role = "LEADER"))
           /\ v.raft.role = "LEADER"
  <2>1. u = PushStrongWaiting(v, q)
    BY <1>5 DEF OnCommandRequest, OnReadRequest
  <2>2. u.raft = v.raft
    <3>1. PushStrongWaiting(v, q).raft = v.raft
      BY <1>1 DEF PushStrongWaiting, Fail, Fields
    <3> QED BY <2>1, <3>1
  <2>3. v.strongWaiting # << >> => Last(v.strongWaiting).index <= LastIndex(v)
    BY <2>2 DEF Ready, LastIndex
  <2> QED BY <1>1, <2>1, <2>3, StrongRuns
<1>6. CASE v.raft.role # "LEADER" /\ ~ (q.kind # "write" /\ q.kind = "stale")
  <2>1. u = Forward(v, q)
    BY <1>6 DEF OnCommandRequest, OnReadRequest, OnWriteRequest
  <2> QED BY <1>1, <2>1, ForwardRuns
<1> QED BY <1>3, <1>4, <1>5, <1>6

LEMMA CommandSteady ==
    ASSUME NEW v, NEW A, Typed(v, A), Ordered(v), NEW q \in Request, NEW u, Commanded(v, u, q),
           Cardinality(Peer) \in Nat, Ready(v, u.raft.log), Len(u.raft.log) \in Nat
    PROVE  Ready(u, u.raft.log)
<1>1. /\ v.waiting \in Seq(WaitingOf(A)) /\ v.strongWaiting \in Seq(StrongOf(A))
      /\ v.seqno \in Nat /\ v.raft.log \in Seq(LogEntry) /\ Len(v.raft.log) \in Nat
      /\ v.raft.commitIndex \in Nat /\ v.raft.commitIndex <= Len(v.raft.log)
      /\ v.lastApplied \in Nat /\ v.reached \in Nat /\ v.reached <= Len(v.raft.log)
      /\ v.lastApplied <= v.reached
  BY DEF Typed, QueuesTyped, RaftTyped, Raft, RsmTyped, Ordered
<1>2. /\ u.lastApplied = v.lastApplied /\ u.raft.commitIndex = v.raft.commitIndex
      /\ u.seqno \in Nat /\ v.seqno <= u.seqno
  BY <1>1 DEF Commanded, Applied
<1>3. v.waiting \in Seq(WaitingOf(A))
  BY <1>1
<1>4. ASSUME u.strongWaiting # << >>
      PROVE  /\ Last(u.strongWaiting).index <= Len(u.raft.log)
             /\ Last(u.strongWaiting).seqno <= u.seqno
  <2>1. CASE u.strongWaiting = v.strongWaiting
    <3>1. Last(v.strongWaiting) \in StrongOf(A)
      BY <1>1, <1>4, <2>1, LastFacts
    <3>2. Last(v.strongWaiting).seqno \in Nat
      BY <3>1 DEF StrongOf
    <3>3. Last(v.strongWaiting).index <= Len(u.raft.log)
          /\ Last(v.strongWaiting).seqno <= v.seqno
      BY <1>4, <2>1 DEF Ready
    <3> QED BY <1>1, <1>2, <2>1, <3>2, <3>3
  <2>2. CASE u.strongWaiting # v.strongWaiting
    <3>1. PICK x : x = [index |-> Len(u.raft.log), seqno |-> v.seqno, request |-> q]
      OBVIOUS
    <3>2. u.strongWaiting = Append(v.strongWaiting, x)
      BY <2>2, <3>1 DEF Commanded, PushesStrong
    <3>3. v.strongWaiting \in Seq(StrongOf(A))
      BY <1>1
    <3>4. Last(u.strongWaiting) = x
      BY <3>2, <3>3, LastAdded
    <3>5. x.index = Len(u.raft.log) /\ x.seqno = v.seqno
      BY <3>1
    <3> QED BY <1>2, <3>4, <3>5
  <2> QED BY <2>1, <2>2
<1>5. CASE u.waiting = v.waiting
  BY <1>2, <1>4, <1>5 DEF Ready
<1>6. CASE u.waiting # v.waiting
  <2>1. PICK w : w = [index |-> Len(u.raft.log), request |-> q]
    OBVIOUS
  <2>2. u.waiting = Append(v.waiting, w)
        /\ (q.kind = "write" => v.raft.role = "LEADER" /\ u.raft = Submit(v.raft, Entry(q)))
    BY <1>6, <2>1 DEF Commanded, Pushes
  <2>3. Last(u.waiting) = w
    <3>1. u.waiting = Append(v.waiting, w)
      BY <2>2
    <3> QED BY <1>3, <3>1, LastAdded
  <2>4. ASSUME q.kind = "write"
        PROVE  /\ w.index > u.lastApplied /\ w.index > u.raft.commitIndex
               /\ u.raft.log[w.index].value = q
    <3>1. PICK e : e = Entry(q)
      OBVIOUS
    <3>2. u.raft.log = Append(v.raft.log, e)
      BY <2>2, <2>4, <3>1 DEF Submit, Typed, RaftTyped, Raft
    <3>3. Len(u.raft.log) = Len(v.raft.log) + 1 /\ u.raft.log[Len(v.raft.log) + 1] = e
      BY <1>1, <3>2, AppendAny
    <3>4. e.value = q
      BY <3>1 DEF Entry
    <3>5. w.index = Len(u.raft.log) /\ u.raft.log[w.index] = e
      BY <2>1, <3>3
    <3>6. PICK n : n = Len(v.raft.log)
      OBVIOUS
    <3>7. PICK j : j = w.index
      OBVIOUS
    <3>8. /\ n \in Nat /\ j = n + 1 /\ u.lastApplied \in Nat /\ u.raft.commitIndex \in Nat
          /\ v.reached \in Nat /\ v.reached <= n
          /\ u.lastApplied <= v.reached /\ u.raft.commitIndex <= n
      BY <1>1, <1>2, <3>3, <3>5, <3>6, <3>7
    <3>9. j > u.lastApplied /\ j > u.raft.commitIndex
      BY <3>8
    <3> QED BY <3>4, <3>5, <3>7, <3>9
  <2>5. w.index <= Len(u.raft.log) /\ w.request = q
    BY <2>1
  <2> QED BY <1>4, <2>3, <2>4, <2>5 DEF Ready
<1> QED BY <1>5, <1>6
-----------------------------------------------------------------------------
(* What was parked. *)

Handled(v, x, A) ==
    /\ Typed(x, A) /\ Tidy(x, A) /\ x.raft = v.raft /\ x.parked = << >>
    /\ Steady(v) => Steady(x)

LEMMA UnparkedHandled ==
    ASSUME NEW v, NEW A, Typed(v, A), Tidy(v, A), NEW x, x = [v EXCEPT !.parked = << >>]
    PROVE  Handled(v, x, A)
<1>1. /\ DOMAIN x = Fields /\ x.raft = v.raft /\ Queued(v, x) /\ x.parked = << >>
      /\ Cookies(v, x) /\ x.rsm = v.rsm /\ x.lastApplied = v.lastApplied
      /\ x.savedApplied = v.savedApplied /\ x.seqno = v.seqno /\ x.answers = v.answers
      /\ x.reached = v.reached /\ x.replies = v.replies /\ x.failed = v.failed
  BY DEF Typed, Fields, Queued, Cookies
<1>2. Typed(x, A)
  <2>1. << >> \in Seq(A)
    OBVIOUS
  <2> QED BY <1>1, <2>1 DEF Typed, RaftTyped, QueuesTyped, CookiesTyped, RsmTyped, Queued, Cookies
<1>3. Owing(x, A)
  <2>1. \A i : ~ (i \in 1..Len(x.parked))
    BY <1>1
  <2> QED BY <1>1, <2>1 DEF Tidy, Owing, Silent, Queued
<1>4. Tidy(x, A)
  BY <1>1, <1>3 DEF Tidy, Ordered, True, Replying, Once, Leading, Queued
<1>5. Steady(v) => Steady(x)
  BY <1>1 DEF Steady, Ready, Queued
<1> QED BY <1>1, <1>2, <1>4, <1>5 DEF Handled

LEMMA HandledNext ==
    ASSUME NEW v, NEW A, A \subseteq Request, NEW x, Handled(v, x, A), NEW q \in A, ~ q.fromPeer,
           v.raft.role # "LEADER", v.raft.role # "CANDIDATE", v.raft.leaderId # Nil,
           NEW u, u = OnCommandRequest(x, q), Cardinality(Peer) \in Nat
    PROVE  Handled(v, u, A)
<1>1. /\ DOMAIN x = Fields /\ x.raft \in Raft /\ Typed(x, A) /\ Tidy(x, A) /\ x.raft = v.raft
      /\ x.parked = << >> /\ q \in Request /\ Ordered(x) /\ Leading(x)
  BY DEF Handled, Typed, RaftTyped, Tidy
<1>2. Commanded(x, u, q)
  BY <1>1, CommandEffect
<1>3. Typed(u, A) /\ Keeps(x, u, Len(x.raft.log))
  BY <1>1, <1>2, TypedCommand
<1>4. u.raft = x.raft /\ u.parked = x.parked
  BY <1>1, <1>2 DEF Commanded, Submits, Parks
<1>5. Tidy(u, A)
  <2>1. x.raft.role # "LEADER"
    BY <1>1
  <2>2. Tidy(u, A \cup {q})
    BY <1>1, <1>2, <1>3, <2>1, CommandTidy
  <2>3. A \cup {q} = A
    OBVIOUS
  <2> QED BY <2>2, <2>3
<1>6. ASSUME Steady(v) PROVE Steady(u)
  <2>1. x.failed = None /\ Ready(x, u.raft.log)
    BY <1>4, <1>6 DEF Handled, Steady
  <2>2. u.failed = None
    BY <1>1, <2>1, CommandRuns
  <2>3. Len(u.raft.log) \in Nat
    BY <1>3 DEF Typed, RaftTyped, Raft
  <2>4. Ready(u, u.raft.log)
    BY <1>1, <1>2, <2>1, <2>3, CommandSteady
  <2> QED BY <2>2, <2>4 DEF Steady
<1> QED BY <1>1, <1>3, <1>4, <1>5, <1>6 DEF Handled

LEMMA ResumedHandled ==
    ASSUME NEW v, NEW A, A \subseteq Request, Typed(v, A), Tidy(v, A),
           v.raft.role # "LEADER", v.raft.role # "CANDIDATE", v.raft.leaderId # Nil,
           Cardinality(Peer) \in Nat
    PROVE  Handled(v, Resumed(v), A)
<1>1. v.parked \in Seq(A) /\ Len(v.parked) \in Nat
  BY DEF Typed, QueuesTyped
<1>2. PICK turn : Resumes(turn, v)
  BY <1>1, ResumeTurns
<1> DEFINE S == {k \in Nat : k <= Len(v.parked) => Handled(v, turn[k], A)}
<1>3. 0 \in S
  <2>1. turn[0] = [v EXCEPT !.parked = << >>]
    BY <1>2 DEF Resumes
  <2> QED BY <2>1, UnparkedHandled
<1>4. ASSUME NEW k \in S PROVE k + 1 \in S
  <2> SUFFICES ASSUME k + 1 <= Len(v.parked) PROVE Handled(v, turn[k + 1], A)
    OBVIOUS
  <2>1. k \in Nat /\ k + 1 \in 1..Len(v.parked) /\ k <= Len(v.parked) /\ k + 1 - 1 = k
    BY <1>1
  <2>2. PICK x : x = turn[k]
    OBVIOUS
  <2>3. PICK q : q = v.parked[k + 1]
    OBVIOUS
  <2>4. PICK u : u = turn[k + 1]
    OBVIOUS
  <2>5. Handled(v, x, A)
    BY <2>1, <2>2
  <2>6. u = OnCommandRequest(x, q)
    BY <1>2, <2>1, <2>2, <2>3, <2>4 DEF Resumes
  <2>7. q \in A /\ ~ q.fromPeer
    BY <1>1, <2>1, <2>3 DEF Tidy, Owing
  <2>8. Handled(v, u, A)
    BY <2>5, <2>6, <2>7, HandledNext
  <2> QED BY <2>4, <2>8
<1>5. S = Nat
  <2>1. S \in SUBSET Nat
    OBVIOUS
  <2> HIDE DEF S
  <2> QED BY <1>3, <1>4, <2>1, Inductive
<1>6. Handled(v, turn[Len(v.parked)], A)
  BY <1>1, <1>5
<1>7. Resumed(v) = turn[Len(v.parked)]
  BY <1>2 DEF Resumes
<1> HIDE DEF S
<1> QED BY <1>6, <1>7

\* After CheckStateChange.
Checked(v, x, A) ==
    Typed(x, A) /\ Tidy(x, A) /\ x.raft = v.raft /\ (Steady(v) => Steady(x))

LEMMA CheckTidy ==
    ASSUME NEW v, NEW A, A \subseteq Request, Typed(v, A), Tidy(v, A),
           Cardinality(Peer) \in Nat
    PROVE  Checked(v, CheckStateChange(v), A)
<1>1. CASE v.parked = << >> \/ v.raft.role = "CANDIDATE" \/ v.raft.leaderId = Nil
  <2>1. CheckStateChange(v) = v
    BY <1>1 DEF CheckStateChange
  <2> QED BY <2>1 DEF Checked
<1>2. CASE ~ (v.parked = << >> \/ v.raft.role = "CANDIDATE" \/ v.raft.leaderId = Nil)
  <2>1. CheckStateChange(v) = Resumed(v)
    BY <1>2 DEF CheckStateChange
  <2>2. v.raft.role # "LEADER"
    BY <1>2 DEF Tidy, Leading
  <2>3. Handled(v, Resumed(v), A)
    BY <1>2, <2>2, ResumedHandled
  <2> QED BY <2>1, <2>3 DEF Handled, Checked
<1> QED BY <1>1, <1>2
-----------------------------------------------------------------------------
(* What is committed has a result. *)

LEMMA ResultKept ==
    ASSUME NEW x, DOMAIN x = Fields, NEW w, NEW u, u = ApplyEntry(x, w)
    PROVE  u.answers = IF w.value = Stub THEN x.answers ELSE Append(x.answers, w)
<1>1. CASE w.value = Stub
  BY <1>1 DEF ApplyEntry
<1>2. CASE w.value # Stub
  <2>1. PICK y : y = RsmWrite(x, w)
    OBVIOUS
  <2>2. DOMAIN y = Fields /\ y.answers = x.answers
    BY <2>1 DEF RsmWrite, Fields
  <2>3. u = [y EXCEPT !.answers = Append(@, w)]
    BY <1>2, <2>1 DEF ApplyEntry
  <2> QED BY <1>2, <2>2, <2>3 DEF Fields
<1> QED BY <1>1, <1>2

\* After the entries up to index i.
Collected(v, u, i) ==
    /\ Unapplied(v, u) /\ Results(u.answers, v.raft.log, i)
    /\ u.savedApplied \in 0..i \cup {v.savedApplied}
    /\ \A j \in 1..i : j > v.lastApplied /\ v.raft.log[j].value # Stub => HasResult(u.answers, j)

LEMMA CollectNext ==
    ASSUME NEW v, RaftTyped(v), v.lastApplied \in Nat, NEW i \in Nat,
           i + 1 <= v.raft.commitIndex, NEW x, Collected(v, x, i), NEW u,
           u = ApplyEntry(x, [index |-> i + 1, value |-> v.raft.log[i + 1].value])
    PROVE  Collected(v, u, i + 1)
<1>1. PICK w : w = [index |-> i + 1, value |-> v.raft.log[i + 1].value]
  OBVIOUS
<1>2. w \in Result /\ w.index = i + 1 /\ w.value = v.raft.log[i + 1].value
  <2>1. v.raft.log \in Seq(LogEntry) /\ v.raft.commitIndex \in Nat
        /\ v.raft.commitIndex <= Len(v.raft.log) /\ Len(v.raft.log) \in Nat
    BY DEF RaftTyped, Raft
  <2>2. i + 1 \in 1..Len(v.raft.log) /\ i + 1 \in Nat \ {0}
    BY <2>1
  <2>3. v.raft.log[i + 1] \in LogEntry
    BY <2>1, <2>2
  <2> QED BY <1>1, <2>2, <2>3 DEF LogEntry, Result
<1>3. Unapplied(v, x) /\ DOMAIN x = Fields /\ Results(x.answers, v.raft.log, i)
      /\ x.answers \in Seq(Result)
  BY DEF Collected, Unapplied, Results
<1>4. Unapplied(x, u) /\ Executes(x, u, w)
  BY <1>1, <1>3, ApplyEffect
<1>5. Unapplied(v, u)
  BY <1>3, <1>4 DEF Unapplied, Queued, Cookies
<1>6. PICK s : s = x.answers
  OBVIOUS
<1>7. PICK t : t = Append(s, w)
  OBVIOUS
<1>8. u.answers = IF w.value = Stub THEN s ELSE t
  BY <1>1, <1>3, <1>6, <1>7, ResultKept
<1>9. Results(t, v.raft.log, i + 1)
  BY <1>2, <1>3, <1>6, <1>7, ResultAdded
<1>10. Results(s, v.raft.log, i + 1)
  <2>1. ASSUME NEW k \in 1..Len(s) PROVE s[k].index <= i + 1
    <3>1. s[k].index \in Nat
      BY <1>3, <1>6, ResultTyped
    <3>2. s[k].index <= i
      BY <1>3, <1>6 DEF Results, UpTo
    <3> QED BY <3>1, <3>2
  <2> QED BY <1>3, <1>6, <2>1 DEF Results, UpTo
<1>11. Results(u.answers, v.raft.log, i + 1)
  BY <1>8, <1>9, <1>10
<1>12. u.savedApplied \in 0..i + 1 \cup {v.savedApplied}
  <2>1. x.savedApplied \in 0..i \cup {v.savedApplied}
    BY DEF Collected
  <2>2. u.savedApplied = x.savedApplied \/ u.savedApplied = i + 1
    BY <1>2, <1>4 DEF Executes
  <2> QED BY <2>1, <2>2
<1>13. /\ Len(s) \in Nat /\ Len(t) = Len(s) + 1
       /\ \A k \in 1..Len(s) : t[k] = s[k]
       /\ t[Len(s) + 1] = w
  BY <1>2, <1>3, <1>6, <1>7, AppendFacts
<1>14. ASSUME NEW j \in 1..i + 1, j > v.lastApplied, v.raft.log[j].value # Stub
       PROVE  HasResult(u.answers, j)
  <2>1. CASE j = i + 1
    <3>1. u.answers = t
      BY <1>2, <1>8, <1>14, <2>1
    <3>2. Len(s) + 1 \in 1..Len(t)
      BY <1>13
    <3> QED BY <1>2, <1>13, <2>1, <3>1, <3>2 DEF HasResult
  <2>2. CASE j # i + 1
    <3>1. j \in 1..i
      BY <2>2
    <3>2. PICK k \in 1..Len(s) : s[k].index = j
      BY <1>6, <1>14, <3>1 DEF Collected, HasResult
    <3>3. k \in 1..Len(t) /\ t[k].index = j
      BY <1>13, <3>2
    <3>4. \E m \in 1..Len(u.answers) : u.answers[m].index = j
      BY <1>8, <3>2, <3>3
    <3> QED BY <3>4 DEF HasResult
  <2> QED BY <2>1, <2>2
<1> QED BY <1>5, <1>11, <1>12, <1>14 DEF Collected

LEMMA CollectedAll ==
    ASSUME NEW v, DOMAIN v = Fields, RaftTyped(v), RsmTyped(v), Ordered(v),
           v.lastApplied <= v.raft.commitIndex, NEW done, Applies(done, v)
    PROVE  Collected(v, done[v.raft.commitIndex], v.raft.commitIndex)
<1>1. v.raft.commitIndex \in Nat /\ v.lastApplied \in Nat
  BY DEF RaftTyped, RsmTyped, Raft
<1> DEFINE S == {i \in Nat : v.lastApplied <= i /\ i <= v.raft.commitIndex =>
                                 Collected(v, done[i], i)}
<1>2. ASSUME NEW i \in Nat, i = v.lastApplied PROVE Collected(v, done[i], i)
  <2>1. done[i] = v
    <3>1. i \in 0..v.raft.commitIndex /\ i <= v.lastApplied
      BY <1>1, <1>2
    <3> QED BY <3>1 DEF Applies
  <2>2. \A j \in 1..i : ~ (j > v.lastApplied)
    BY <1>1, <1>2
  <2>3. Unapplied(v, v)
    BY DEF Unapplied, Queued, Cookies
  <2> QED BY <1>2, <2>1, <2>2, <2>3 DEF Collected, Ordered
<1>3. 0 \in S
  BY <1>1, <1>2
<1>4. ASSUME NEW i \in S PROVE i + 1 \in S
  <2> SUFFICES ASSUME v.lastApplied <= i + 1, i + 1 <= v.raft.commitIndex
               PROVE  Collected(v, done[i + 1], i + 1)
    OBVIOUS
  <2>1. i \in Nat /\ i + 1 \in Nat /\ i + 1 \in 0..v.raft.commitIndex /\ i <= v.raft.commitIndex
        /\ i + 1 - 1 = i
    BY <1>1
  <2>2. CASE i + 1 = v.lastApplied
    BY <1>2, <2>1, <2>2
  <2>3. CASE i + 1 # v.lastApplied
    <3>1. PICK x : x = done[i]
      OBVIOUS
    <3>2. PICK u : u = done[i + 1]
      OBVIOUS
    <3>3. v.lastApplied <= i /\ ~ (i + 1 <= v.lastApplied)
      BY <1>1, <2>1, <2>3
    <3>4. u = ApplyEntry(x, [index |-> i + 1, value |-> v.raft.log[i + 1].value])
      BY <2>1, <3>1, <3>2, <3>3 DEF Applies
    <3>5. Collected(v, x, i)
      BY <2>1, <3>1, <3>3
    <3>6. Collected(v, u, i + 1)
      BY <1>1, <2>1, <3>4, <3>5, CollectNext
    <3> QED BY <3>2, <3>6
  <2> QED BY <2>2, <2>3
<1>5. S = Nat
  <2>1. S \in SUBSET Nat
    OBVIOUS
  <2> HIDE DEF S
  <2> QED BY <1>3, <1>4, <2>1, Inductive
<1> QED BY <1>1, <1>5

\* The newest command that waits can be answered.
Due(v) == v.waiting # << >> /\ ~ (Last(v.waiting).index > v.lastApplied)
Answerable(v) ==
    /\ v.failed = None
    /\ Due(v) /\ Last(v.waiting).request.kind = "write" =>
          Len(v.waiting) = 1 /\ HasResult(v.answers, Last(v.waiting).index)

LEMMA CommittedTidy ==
    ASSUME NEW v, NEW A, A \subseteq Request, Typed(v, A), Tidy(v, A),
           NEW u, u = ProcessCommitted(v)
    PROVE  Tidy(u, A) /\ (Steady(v) => Answerable(u))
<1>1. /\ DOMAIN v = Fields /\ RaftTyped(v) /\ RsmTyped(v) /\ QueuesTyped(v, A)
      /\ Ordered(v) /\ True(v)
  BY DEF Typed, Tidy
<1>2. CASE v.failed # None
  <2>1. u = v
    BY <1>2 DEF ProcessCommitted
  <2> QED BY <1>2, <2>1 DEF Steady
<1>3. CASE v.failed = None
  <2>1. PICK c : c = v.raft.commitIndex
    OBVIOUS
  <2>2. c \in Nat /\ v.lastApplied \in Nat /\ v.reached \in Nat /\ v.savedApplied \in Nat
        /\ v.savedApplied <= v.reached
    BY <1>1, <2>1 DEF RaftTyped, RsmTyped, Raft, Ordered
  <2>3. PICK done : Applies(done, v)
    BY <2>1, <2>2, ApplyTurns
  <2>4. PICK d : d = done[c]
    OBVIOUS
  <2>5. u = [d EXCEPT !.lastApplied = c, !.reached = IF c > @ THEN c ELSE @]
    BY <1>3, <2>1, <2>3, <2>4 DEF Applies
  <2>6. v.lastApplied <= c => Collected(v, d, c)
    BY <1>1, <2>1, <2>3, <2>4, CollectedAll
  <2>7. v.lastApplied > c => d = v
    <3>1. c \in 0..v.raft.commitIndex
      BY <2>1, <2>2
    <3>2. v.lastApplied > c => c <= v.lastApplied
      BY <2>2
    <3> QED BY <2>3, <2>4, <3>1, <3>2 DEF Applies
  <2>8. v.lastApplied <= c \/ v.lastApplied > c
    BY <2>2
  <2>9. Unapplied(v, d)
    <3>1. Unapplied(v, v)
      BY <1>1 DEF Unapplied, Queued, Cookies
    <3> QED BY <2>6, <2>7, <2>8, <3>1 DEF Collected
  <2>10. /\ DOMAIN u = Fields /\ u.raft = v.raft /\ Queued(v, u) /\ u.parked = v.parked
         /\ u.seqno = v.seqno /\ u.replies = v.replies /\ u.failed = v.failed
         /\ u.answers = d.answers /\ u.savedApplied = d.savedApplied /\ u.lastApplied = c
         /\ u.reached = IF c > v.reached THEN c ELSE v.reached
    BY <2>5, <2>9 DEF Unapplied, Fields, Queued
  <2>11. u.reached \in Nat /\ v.reached <= u.reached /\ c <= u.reached
    BY <2>2, <2>10
  <2>12. Results(d.answers, v.raft.log, c)
    <3>1. CASE v.lastApplied <= c
      BY <2>6, <3>1 DEF Collected
    <3>2. CASE v.lastApplied > c
      BY <1>1, <2>1, <2>7, <3>2 DEF Ordered, Results
    <3> QED BY <2>8, <3>1, <3>2
  <2>13. d.savedApplied <= u.reached
    <3>1. d.savedApplied \in 0..c \cup {v.savedApplied}
      BY <2>6, <2>7, <2>8 DEF Collected
    <3> QED BY <2>2, <2>11, <3>1
  <2>14. Ordered(u)
    BY <2>1, <2>10, <2>11, <2>12, <2>13 DEF Ordered, Results
  <2>15. True(u)
    <3>1. Keeps(v, u, v.reached)
      BY <2>10 DEF Keeps
    <3> QED BY <1>1, <2>2, <2>10, <2>11, <3>1, TrueKept
  <2>16. Tidy(u, A)
    BY <2>10, <2>14, <2>15 DEF Tidy, Once, Owing, Silent, Leading, Queued
  <2>17. ASSUME Steady(v), Due(u), Last(u.waiting).request.kind = "write"
         PROVE  Len(u.waiting) = 1 /\ HasResult(u.answers, Last(u.waiting).index)
    <3>1. PICK w : w = Last(v.waiting)
      OBVIOUS
    <3>2. u.waiting = v.waiting /\ v.waiting # << >> /\ ~ (w.index > c) /\ w.request.kind = "write"
      BY <2>10, <2>17, <3>1 DEF Due, Queued
    <3>3. w.index \in Nat /\ w.request \in Request
      <4>1. v.waiting \in Seq(WaitingOf(A))
        BY <1>1 DEF QueuesTyped
      <4>2. w \in WaitingOf(A)
        BY <3>1, <3>2, <4>1, LastFacts
      <4> QED BY <4>2 DEF WaitingOf
    <3>4. /\ w.index > v.lastApplied /\ v.raft.log[w.index].value = w.request
          /\ Len(v.waiting) = 1 \/ w.index > v.raft.commitIndex
      BY <2>17, <3>1, <3>2 DEF Steady, Ready
    <3>5. w.index \in 1..c /\ v.lastApplied <= c
      BY <2>2, <3>2, <3>3, <3>4
    <3>6. v.raft.log[w.index].value # Stub
      BY <3>3, <3>4, StubAssumption
    <3>7. HasResult(d.answers, w.index)
      BY <2>6, <3>4, <3>5, <3>6 DEF Collected
    <3> QED BY <2>1, <2>10, <3>1, <3>2, <3>4, <3>7
  <2> QED BY <1>3, <2>10, <2>16, <2>17 DEF Answerable
<1> QED BY <1>2, <1>3
-----------------------------------------------------------------------------
(* Who waits is told once, and what is true. *)

LEMMA ReadTurn ==
    ASSUME NEW x, DOMAIN x = Fields, NEW w, w.request.kind # "write",
           NEW u, u = AnswerNewest(x, w)
    PROVE  /\ u.failed = x.failed /\ u.answers = x.answers
           /\ \E reply : reply.kind = "read" /\ Replied(x, u, w.request, reply)
<1>1. PICK reply : reply = [index |-> w.index, kind |-> "read", of |-> Nil, saw |-> Len(x.rsm)]
  OBVIOUS
<1>2. reply.kind = "read"
  BY <1>1
<1>3. CASE x.failed # None
  <2>1. u = x
    BY <1>3 DEF AnswerNewest
  <2> QED BY <1>2, <2>1 DEF Replied
<1>4. CASE x.failed = None
  <2>1. u = Send(x, w.request, reply)
    BY <1>1, <1>4 DEF AnswerNewest, RsmRead
  <2>2. Rest(x, u) /\ u.failed = x.failed /\ Replied(x, u, w.request, reply)
    BY <2>1, SendFacts
  <2> QED BY <1>2, <2>2 DEF Rest, Applied
<1> QED BY <1>3, <1>4

\* The result of the entry at w.index, and those before it, are gone after the
\* turn of a write; it is answered if that result was there.
Pops(x, u, w) ==
    /\ \E n : Remains(u.answers, x.answers, n)
    /\ ~ HasResult(u.answers, w.index)
    /\ \/ u.replies = x.replies
       \/ \E k \in 1..Len(x.answers) :
             /\ x.answers[k].index = w.index
             /\ Replied(x, u, w.request,
                        [index |-> w.index, kind |-> "write", of |-> x.answers[k].value])
    /\ HasResult(x.answers, w.index) => u.failed = None

LEMMA LaterRemain ==
    ASSUME NEW s \in Seq(Result), Rising(s), NEW index \in Nat, NEW t, NEW n, Remains(t, s, n),
           n = Len(s) \/ (n \in 1..Len(s) /\ s[n].index >= index)
    PROVE  ~ HasResult(t, index)
<1>1. Len(s) \in Nat /\ n \in 0..Len(s) /\ Len(t) = Len(s) - n
      /\ \A i \in 1..Len(t) : t[i] = s[n + i]
  BY DEF Remains
<1>2. ASSUME NEW k \in 1..Len(t) PROVE t[k].index # index
  <2>1. n \in 1..Len(s) /\ s[n].index >= index /\ n + k \in 1..Len(s) /\ n < n + k
    BY <1>1
  <2>2. s[n].index < s[n + k].index
    BY <2>1 DEF Rising
  <2>3. s[n].index \in Nat /\ s[n + k].index \in Nat
    BY <2>1, ResultTyped
  <2> QED BY <1>1, <2>1, <2>2, <2>3
<1> QED BY <1>2 DEF HasResult

LEMMA WriteTurn ==
    ASSUME NEW x, DOMAIN x = Fields, x.failed = None, x.answers \in Seq(Result), Rising(x.answers),
           NEW w, w.index \in Nat, w.request.kind = "write", NEW u, u = AnswerNewest(x, w)
    PROVE  Pops(x, u, w)
<1>1. PICK s : s = x.answers
  OBVIOUS
<1>2. PICK rest : rest = AnswersFrom(x, w.index)
  OBVIOUS
<1>3. PICK n \in 0..Len(s) :
          /\ Remains(rest, s, n)
          /\ \A i \in 1..n : s[i].index < w.index
          /\ n < Len(s) => s[n + 1].index >= w.index
  BY <1>1, <1>2, FromIndex
<1>4. s \in Seq(Result) /\ Len(s) \in Nat /\ Len(rest) = Len(s) - n /\ rest \in Seq(Result)
      /\ Rising(s)
  BY <1>1, <1>3 DEF Remains
<1>5. ASSUME HasResult(s, w.index)
      PROVE  n < Len(s) /\ s[n + 1].index = w.index
  <2>1. PICK k \in 1..Len(s) : s[k].index = w.index
    BY <1>5 DEF HasResult
  <2>2. k > n
    <3>1. ~ (s[k].index < w.index)
      BY <2>1
    <3> QED BY <1>3, <1>4, <2>1, <3>1
  <2>3. n + 1 \in 1..Len(s) /\ n < Len(s)
    BY <1>3, <1>4, <2>1, <2>2
  <2>4. s[n + 1].index \in Nat /\ s[n + 1].index >= w.index
    BY <1>3, <1>4, <2>3, ResultTyped
  <2>5. n + 1 < k => s[n + 1].index < s[k].index
    BY <1>4, <2>1, <2>3 DEF Rising
  <2>6. n + 1 = k \/ n + 1 < k
    BY <1>3, <2>2
  <2> QED BY <2>1, <2>3, <2>4, <2>5, <2>6
<1>6. CASE rest = << >>
  <2>1. PICK a : a = [x EXCEPT !.answers = rest]
    OBVIOUS
  <2>2. DOMAIN a = Fields /\ a.answers = rest /\ a.replies = x.replies
    BY <2>1 DEF Fields
  <2>3. u = [a EXCEPT !.failed = "no answer"]
    BY <1>2, <1>6, <2>1 DEF AnswerNewest, Fail
  <2>4. u.answers = rest /\ u.replies = x.replies
    BY <2>2, <2>3 DEF Fields
  <2>5. n = Len(s)
    <3>1. Len(rest) = 0
      BY <1>6
    <3> QED BY <1>3, <1>4, <3>1
  <2>6. ~ HasResult(s, w.index)
    BY <1>4, <1>5, <2>5
  <2>7. ~ HasResult(rest, w.index)
    BY <1>3, <1>4, <2>5, LaterRemain
  <2> QED BY <1>1, <1>3, <2>4, <2>6, <2>7 DEF Pops
<1>7. CASE rest # << >>
  <2>1. PICK t : t = Tail(rest)
    OBVIOUS
  <2>2. PICK h : h = Head(rest)
    OBVIOUS
  <2>3. n + 1 \in 1..Len(s) /\ h = s[n + 1] /\ Remains(t, s, n + 1)
    BY <1>3, <1>4, <1>7, <2>1, <2>2, FirstRemains
  <2>4. h.index >= w.index
    BY <1>3, <1>4, <2>3
  <2>5. ~ HasResult(t, w.index)
    BY <1>4, <2>3, <2>4, LaterRemain
  <2>6. PICK a : a = [x EXCEPT !.answers = t]
    OBVIOUS
  <2>7. DOMAIN a = Fields /\ a.answers = t /\ a.replies = x.replies /\ a.failed = None
    BY <2>6 DEF Fields
  <2>8. CASE h.index # w.index
    <3>1. u = [a EXCEPT !.failed = "other answer"]
      BY <1>2, <1>7, <2>1, <2>2, <2>6, <2>8 DEF AnswerNewest, Fail
    <3>2. u.answers = t /\ u.replies = x.replies
      BY <2>7, <3>1 DEF Fields
    <3>3. ~ HasResult(s, w.index)
      BY <1>5, <2>3, <2>8
    <3> QED BY <1>1, <2>3, <2>5, <3>2, <3>3 DEF Pops
  <2>9. CASE h.index = w.index
    <3>1. PICK reply : reply = [index |-> w.index, kind |-> "write", of |-> h.value]
      OBVIOUS
    <3>2. u = Send(a, w.request, reply)
      BY <1>2, <1>7, <2>1, <2>2, <2>6, <2>9, <3>1 DEF AnswerNewest
    <3>3. Rest(a, u) /\ u.failed = a.failed /\ Replied(a, u, w.request, reply)
      BY <2>7, <3>2, SendFacts
    <3>4. u.answers = t /\ u.failed = None
      BY <2>7, <3>3 DEF Rest, Applied
    <3>5. Replied(x, u, w.request, reply)
      BY <2>7, <3>3 DEF Replied
    <3>6. \E k \in 1..Len(s) :
              /\ s[k].index = w.index
              /\ Replied(x, u, w.request, [index |-> w.index, kind |-> "write", of |-> s[k].value])
      BY <2>3, <2>9, <3>1, <3>5
    <3> QED BY <1>1, <2>3, <2>5, <3>4, <3>6 DEF Pops
  <2> QED BY <2>8, <2>9
<1> QED BY <1>6, <1>7

\* After some turns of the loop.
Turned(v, x, w) ==
    /\ Unanswered(v, x) /\ Ordered(x) /\ True(x)
    /\ \A p \in Request : p # w.request => x.replies[p] = v.replies[p]
    /\ w.request.kind = "write" =>
          \/ Silent(x, w.request)
          \/ Len(x.replies[w.request]) <= 1 /\ ~ HasResult(x.answers, w.index)
    /\ w.request.kind # "write" => x.failed = v.failed

LEMMA PopsOrdered ==
    ASSUME NEW x, RsmTyped(x), Ordered(x), NEW u, Unanswered(x, u), NEW n,
           Remains(u.answers, x.answers, n)
    PROVE  Ordered(u)
<1>1. /\ x.lastApplied \in Nat /\ x.answers \in Seq(Result)
      /\ Results(x.answers, x.raft.log, x.lastApplied) /\ UpTo(x.answers, x.raft.commitIndex)
  BY DEF RsmTyped, Ordered, Results
<1>2. Results(u.answers, x.raft.log, x.lastApplied)
  BY <1>1, ResultsRemain
<1>3. UpTo(u.answers, x.raft.commitIndex)
  BY <1>1, UpToRemains
<1> QED BY <1>2, <1>3 DEF Ordered, Unanswered

LEMMA AllRemain ==
    ASSUME NEW s \in Seq(Result)
    PROVE  Remains(s, s, 0)
<1>1. Len(s) \in Nat /\ \A i \in 1..Len(s) : 0 + i = i
  OBVIOUS
<1> QED BY <1>1 DEF Remains

\* A reply that is true keeps what clients were told true.
LEMMA TrueReply ==
    ASSUME NEW x, True(x), NEW q \in Request, NEW reply, TrueOf(reply, x.raft.log, x.reached),
           NEW u, Unanswered(x, u), Replied(x, u, q, reply)
    PROVE  True(u) /\ Answers1(x, u, q)
<1>1. PICK log : log = x.raft.log
  OBVIOUS
<1>2. PICK n : n = x.reached
  OBVIOUS
<1>3. Replying(x) /\ Told(x.replies, log, n) /\ TrueOf(reply, log, n)
  BY <1>1, <1>2 DEF True
<1>4. Replying(u) /\ Told(u.replies, log, n) /\ Answers1(x, u, q)
  BY <1>3, ReplyTold
<1>5. u.raft = x.raft /\ u.reached = x.reached
  BY DEF Unanswered
<1> QED BY <1>1, <1>2, <1>4, <1>5 DEF True

LEMMA TurnNext ==
    ASSUME NEW v, NEW w, w.index \in Nat, w.request \in Request, NEW x, Turned(v, x, w),
           RsmTyped(v), v.reached \in Nat, NEW u, u = AnswerNewest(x, w)
    PROVE  Turned(v, u, w)
<1>1. DOMAIN x = Fields /\ Ordered(x) /\ True(x) /\ RsmTyped(x) /\ x.answers \in Seq(Result)
      /\ Rising(x.answers) /\ x.reached \in Nat
  BY DEF Turned, Unanswered, RsmTyped, Ordered, Results
<1>2. Unanswered(x, u)
  BY <1>1, AnswerEffect
<1>3. Unanswered(v, u)
  BY <1>2 DEF Turned, Unanswered, Queued, Cookies
<1>4. PICK q \in Request : q = w.request
  OBVIOUS
<1>5. CASE w.request.kind # "write"
  <2>1. PICK reply : u.failed = x.failed /\ u.answers = x.answers /\ reply.kind = "read"
                     /\ Replied(x, u, q, reply)
    BY <1>1, <1>4, <1>5, ReadTurn
  <2>2. TrueOf(reply, x.raft.log, x.reached)
    BY <2>1 DEF TrueOf
  <2>3. True(u) /\ Answers1(x, u, q)
    BY <1>1, <1>2, <2>1, <2>2, TrueReply
  <2>4. Ordered(u)
    BY <1>1, <1>2, <2>1, AllRemain, PopsOrdered
  <2> QED BY <1>3, <1>4, <1>5, <2>1, <2>3, <2>4 DEF Turned, Answers1
<1>6. CASE w.request.kind = "write" /\ x.failed # None
  <2>1. u = x
    BY <1>6 DEF AnswerNewest
  <2> QED BY <2>1
<1>7. CASE w.request.kind = "write" /\ x.failed = None
  <2>1. Pops(x, u, w)
    BY <1>1, <1>7, WriteTurn
  <2>2. Ordered(u)
    BY <1>1, <1>2, <2>1, PopsOrdered DEF Pops
  <2>3. CASE u.replies = x.replies
    <3>1. True(u)
      BY <1>1, <1>2, <2>3 DEF True, Replying, Unanswered
    <3>2. Silent(x, q) => Silent(u, q)
      BY <2>3 DEF Silent
    <3>3. Silent(u, q) \/ Len(u.replies[q]) <= 1
      BY <1>4, <1>7, <2>3, <3>2 DEF Turned
    <3> QED BY <1>3, <1>4, <1>7, <2>1, <2>2, <2>3, <3>1, <3>3 DEF Turned, Pops
  <2>4. CASE u.replies # x.replies
    <3>1. PICK k \in 1..Len(x.answers) :
              /\ x.answers[k].index = w.index
              /\ Replied(x, u, q, [index |-> w.index, kind |-> "write", of |-> x.answers[k].value])
      BY <1>4, <2>1, <2>4 DEF Pops
    <3>2. PICK reply : reply = [index |-> w.index, kind |-> "write", of |-> x.answers[k].value]
      OBVIOUS
    <3>3. TrueOf(reply, x.raft.log, x.reached)
      <4>1. x.answers[k].index \in Nat /\ x.answers[k].index >= 1
        BY <1>1, ResultTyped
      <4>2. x.answers[k].index <= x.lastApplied
            /\ x.answers[k].value = x.raft.log[x.answers[k].index].value
        BY <1>1 DEF Ordered, Results, UpTo, FromLog
      <4>3. x.lastApplied \in Nat /\ x.lastApplied <= x.reached
        BY <1>1 DEF Ordered, RsmTyped
      <4>4. w.index \in 1..x.reached /\ x.raft.log[w.index].value = x.answers[k].value
        BY <1>1, <3>1, <4>1, <4>2, <4>3
      <4>5. reply.index = w.index /\ reply.of = x.answers[k].value
        BY <3>2
      <4> QED BY <4>4, <4>5 DEF TrueOf
    <3>4. Replied(x, u, q, reply)
      BY <3>1, <3>2
    <3>5. True(u) /\ Answers1(x, u, q)
      BY <1>1, <1>2, <3>3, <3>4, TrueReply
    <3>6. Silent(x, q)
      <4>1. HasResult(x.answers, w.index)
        BY <3>1 DEF HasResult
      <4> QED BY <1>4, <1>7, <4>1 DEF Turned
    <3>7. Len(u.replies[q]) <= 1
      <4>1. Len(x.replies[q]) = 0
        BY <3>6 DEF Silent
      <4>2. Len(u.replies[q]) = Len(x.replies[q]) \/ Len(u.replies[q]) = Len(x.replies[q]) + 1
        BY <3>5 DEF Answers1
      <4>3. PICK n : n = Len(u.replies[q])
        OBVIOUS
      <4>4. n = 0 \/ n = 1
        BY <4>1, <4>2, <4>3
      <4>5. n <= 1
        BY <4>4
      <4> QED BY <4>3, <4>5
    <3> QED BY <1>3, <1>4, <1>7, <2>1, <2>2, <3>5, <3>7 DEF Turned, Answers1, Pops
  <2> QED BY <2>3, <2>4
<1> QED BY <1>5, <1>6, <1>7

LEMMA TurnedAll ==
    ASSUME NEW v, DOMAIN v = Fields, RsmTyped(v), v.reached \in Nat, Ordered(v), True(v),
           NEW queue, Len(queue) \in Nat, NEW w, w = Last(queue),
           w.index \in Nat, w.request \in Request,
           w.request.kind = "write" => Silent(v, w.request)
    PROVE  Turned(v, AnswerAll(v, queue), w)
<1>1. PICK turn : Answers(turn, v, queue)
  BY AnswerTurns
<1> DEFINE S == {k \in Nat : k <= Len(queue) => Turned(v, turn[k], w)}
<1>2. 0 \in S
  <2>1. turn[0] = v
    BY <1>1 DEF Answers
  <2>2. Unanswered(v, v)
    BY DEF Unanswered, Queued, Cookies
  <2> QED BY <2>1, <2>2 DEF Turned
<1>3. ASSUME NEW k \in S PROVE k + 1 \in S
  <2> SUFFICES ASSUME k + 1 <= Len(queue) PROVE Turned(v, turn[k + 1], w)
    OBVIOUS
  <2>1. k \in Nat /\ k + 1 \in 1..Len(queue) /\ k <= Len(queue) /\ k + 1 - 1 = k
    OBVIOUS
  <2>2. PICK x : x = turn[k]
    OBVIOUS
  <2>3. PICK u : u = turn[k + 1]
    OBVIOUS
  <2>4. Turned(v, x, w)
    BY <2>1, <2>2
  <2>5. u = AnswerNewest(x, w)
    BY <1>1, <2>1, <2>2, <2>3 DEF Answers
  <2>6. Turned(v, u, w)
    BY <2>4, <2>5, TurnNext
  <2> QED BY <2>3, <2>6
<1>4. S = Nat
  <2>1. S \in SUBSET Nat
    OBVIOUS
  <2> HIDE DEF S
  <2> QED BY <1>2, <1>3, <2>1, Inductive
<1>5. Turned(v, turn[Len(queue)], w)
  BY <1>4
<1>6. AnswerAll(v, queue) = turn[Len(queue)]
  BY <1>1 DEF Answers
<1> HIDE DEF S
<1> QED BY <1>5, <1>6
\* At rest the newest command that waits is not due.
Ahead(v) == v.waiting # << >> => Last(v.waiting).index > v.lastApplied

\* Once the loop has run, w is told, and every other write as it was.
LEMMA TurnedTidy ==
    ASSUME NEW v, NEW A, A \subseteq Request, Typed(v, A), Tidy(v, A), NEW w, w.request \in A,
           w.request.kind # "write" \/ v.waiting = << >>, NEW u, Turned(v, u, w)
    PROVE  Tidy(u, A)
<1>1. Unanswered(v, u) /\ Ordered(u) /\ True(u)
      /\ \A p \in Request : p # w.request => u.replies[p] = v.replies[p]
  BY DEF Turned
<1>2. Once(v) /\ Owing(v, A) /\ Leading(v)
  BY DEF Tidy
<1>3. ASSUME NEW p \in Request, p.kind = "write" PROVE Len(u.replies[p]) <= 1
  <2>1. CASE p # w.request
    BY <1>1, <1>2, <1>3, <2>1 DEF Once
  <2>2. CASE p = w.request
    <3>1. Silent(u, p) \/ Len(u.replies[p]) <= 1
      BY <1>3, <2>2 DEF Turned
    <3>2. Silent(u, p) => Len(u.replies[p]) = 0
      BY DEF Silent
    <3> QED BY <3>1, <3>2
  <2> QED BY <2>1, <2>2
<1>4. ASSUME NEW p \in Request \ A PROVE Silent(u, p)
  BY <1>1, <1>2, <1>4 DEF Owing, Silent
<1>5. ASSUME NEW i \in 1..Len(u.waiting), u.waiting[i].request.kind = "write"
      PROVE  Silent(u, u.waiting[i].request)
  <2>1. u.waiting = v.waiting
    BY <1>1 DEF Unanswered, Queued
  <2>2. v.waiting # << >>
    BY <1>5, <2>1
  <2>3. v.waiting[i].request \in A /\ Silent(v, v.waiting[i].request)
    <3>1. v.waiting[i] \in WaitingOf(A)
      BY <1>5, <2>1 DEF Typed, QueuesTyped
    <3> QED BY <1>2, <1>5, <2>1, <3>1 DEF WaitingOf, Owing
  <2>4. v.waiting[i].request # w.request
    BY <1>5, <2>1, <2>2
  <2> QED BY <1>1, <2>1, <2>3, <2>4 DEF Silent
<1>6. Owing(u, A)
  <2>1. u.strongWaiting = v.strongWaiting /\ u.parked = v.parked
    BY <1>1 DEF Unanswered, Queued
  <2> QED BY <1>2, <1>4, <1>5, <2>1 DEF Owing
<1>7. Leading(u)
  BY <1>1, <1>2 DEF Leading, Unanswered, Queued
<1>8. Once(u)
  BY <1>3 DEF Once
<1> QED BY <1>1, <1>6, <1>7, <1>8 DEF Tidy

LEMMA EmptiedTidy ==
    ASSUME NEW v, NEW A, Sound(v, A), Tidy(v, A), NEW u, Emptied(v, u),
           u.answers = v.answers
    PROVE  Sound(u, A) /\ Tidy(u, A) /\ DOMAIN u = Fields /\ RsmTyped(u) /\ u.reached \in Nat
<1>1. Sound(u, A)
  BY EmptiedSound
<1>2. DOMAIN u = Fields /\ RsmTyped(u) /\ u.reached \in Nat
  BY <1>1 DEF Sound, Typed, RaftTyped
<1>3. /\ u.raft = v.raft /\ u.parked = v.parked /\ u.replies = v.replies /\ u.seqno = v.seqno
      /\ u.reached = v.reached /\ u.lastApplied = v.lastApplied
      /\ u.savedApplied = v.savedApplied
      /\ u.waiting \in {v.waiting, << >>} /\ u.strongWaiting \in {v.strongWaiting, << >>}
  BY DEF Emptied
<1>4. \A i : ~ (i \in 1..Len(<< >>))
  OBVIOUS
<1>5. Owing(u, A)
  BY <1>3, <1>4 DEF Tidy, Owing, Silent
<1>6. Leading(u)
  BY <1>3 DEF Tidy, Leading
<1> QED BY <1>1, <1>2, <1>3, <1>5, <1>6 DEF Tidy, Ordered, True, Replying, Once

LEMMA WeakTidy ==
    ASSUME NEW v, NEW A, A \subseteq Request, Sound(v, A), Tidy(v, A),
           NEW u, u = ProcessWeakWaiting(v)
    PROVE  Tidy(u, A) /\ Ahead(u) /\ (Answerable(v) => u.failed = None)
<1>1. CASE v.waiting = << >> \/ Last(v.waiting).index > v.lastApplied
  <2>1. u = v
    BY <1>1 DEF ProcessWeakWaiting
  <2> QED BY <1>1, <2>1 DEF Ahead, Answerable
<1>2. CASE ~ (v.waiting = << >> \/ Last(v.waiting).index > v.lastApplied)
  <2>1. PICK x : x = [v EXCEPT !.waiting = << >>]
    OBVIOUS
  <2>2. PICK w : w = Last(v.waiting)
    OBVIOUS
  <2>3. u = AnswerAll(x, v.waiting)
    BY <1>2, <2>1 DEF ProcessWeakWaiting
  <2>4. Emptied(v, x) /\ x.answers = v.answers /\ x.failed = v.failed /\ x.waiting = << >>
    BY <2>1 DEF Emptied, Sound, Typed, Fields, Cookies
  <2>5. Sound(x, A) /\ Tidy(x, A) /\ DOMAIN x = Fields /\ RsmTyped(x) /\ x.reached \in Nat
    BY <2>4, EmptiedTidy
  <2>6. v.waiting \in Seq(WaitingOf(A))
    BY DEF Sound, Typed, QueuesTyped
  <2>7. Len(v.waiting) \in Nat /\ Len(v.waiting) \in 1..Len(v.waiting)
        /\ w = v.waiting[Len(v.waiting)] /\ w \in WaitingOf(A)
    BY <1>2, <2>2, <2>6, LastFacts
  <2>8. w.index \in Nat /\ w.request \in A /\ w.request \in Request
    BY <2>7 DEF WaitingOf
  <2>9. w.request.kind = "write" => Silent(x, w.request)
    BY <2>4, <2>7 DEF Tidy, Owing, Silent, Emptied
  <2>10. Ordered(x) /\ True(x) /\ Typed(x, A)
    BY <2>5 DEF Tidy, Sound
  <2>11. Turned(x, u, w)
    BY <2>2, <2>3, <2>5, <2>7, <2>8, <2>9, <2>10, TurnedAll
  <2>12. Tidy(u, A)
    BY <2>4, <2>5, <2>8, <2>10, <2>11, TurnedTidy
  <2>13. Ahead(u)
    BY <2>4, <2>11 DEF Ahead, Turned, Unanswered, Queued
  <2>14. ASSUME Answerable(v) PROVE u.failed = None
    <3>1. CASE w.request.kind # "write"
      BY <2>4, <2>11, <2>14, <3>1 DEF Turned, Answerable
    <3>2. CASE w.request.kind = "write"
      <4>1. Len(v.waiting) = 1 /\ HasResult(x.answers, w.index) /\ x.failed = None
        BY <1>2, <2>2, <2>4, <2>14, <3>2 DEF Answerable, Due
      <4>2. PICK turn : Answers(turn, x, v.waiting)
        BY <2>7, AnswerTurns
      <4>3. u = AnswerNewest(x, w)
        <5>1. 1 \in 1..Len(v.waiting) /\ 1 - 1 = 0
          BY <4>1
        <5>2. turn[1] = AnswerNewest(turn[1 - 1], Last(v.waiting)) /\ u = turn[1] /\ turn[0] = x
          BY <2>3, <4>1, <4>2, <5>1 DEF Answers
        <5> QED BY <2>2, <5>1, <5>2
      <4>4. Pops(x, u, w)
        BY <2>5, <2>8, <2>10, <3>2, <4>1, <4>3, WriteTurn DEF Ordered, Results
      <4> QED BY <4>1, <4>4 DEF Pops
    <3> QED BY <3>1, <3>2
  <2> QED BY <2>12, <2>13, <2>14
<1> QED BY <1>1, <1>2

LEMMA StrongTidy ==
    ASSUME NEW v, NEW A, A \subseteq Request, Sound(v, A), Tidy(v, A), Ahead(v),
           NEW u, u = ProcessStrongWaiting(v)
    PROVE  Tidy(u, A) /\ Ahead(u) /\ u.failed = v.failed
<1>1. CASE \/ v.strongWaiting = << >> \/ Last(v.strongWaiting).index > v.lastApplied
           \/ Last(v.strongWaiting).seqno > v.commitSeqno
  <2>1. u = v
    BY <1>1 DEF ProcessStrongWaiting
  <2> QED BY <2>1
<1>2. CASE ~ (\/ v.strongWaiting = << >> \/ Last(v.strongWaiting).index > v.lastApplied
              \/ Last(v.strongWaiting).seqno > v.commitSeqno)
  <2>1. PICK x : x = [v EXCEPT !.strongWaiting = << >>]
    OBVIOUS
  <2>2. PICK w : w = Last(v.strongWaiting)
    OBVIOUS
  <2>3. u = AnswerAll(x, v.strongWaiting)
    BY <1>2, <2>1 DEF ProcessStrongWaiting
  <2>4. Emptied(v, x) /\ x.answers = v.answers /\ x.failed = v.failed /\ x.waiting = v.waiting
    BY <2>1 DEF Emptied, Sound, Typed, Fields, Cookies
  <2>5. Sound(x, A) /\ Tidy(x, A) /\ DOMAIN x = Fields /\ RsmTyped(x) /\ x.reached \in Nat
    BY <2>4, EmptiedTidy
  <2>6. v.strongWaiting \in Seq(StrongOf(A))
    BY DEF Sound, Typed, QueuesTyped
  <2>7. Len(v.strongWaiting) \in Nat /\ Len(v.strongWaiting) \in 1..Len(v.strongWaiting)
        /\ w = v.strongWaiting[Len(v.strongWaiting)] /\ w \in StrongOf(A)
    BY <1>2, <2>2, <2>6, LastFacts
  <2>8. w.index \in Nat /\ w.request \in A /\ w.request \in Request
    BY <2>7 DEF StrongOf
  <2>9. w.request.kind # "write"
    BY <2>7 DEF Tidy, Owing
  <2>10. Ordered(x) /\ True(x) /\ Typed(x, A)
    BY <2>5 DEF Tidy, Sound
  <2>11. Turned(x, u, w)
    BY <2>2, <2>3, <2>5, <2>7, <2>8, <2>9, <2>10, TurnedAll
  <2>12. Tidy(u, A)
    BY <2>5, <2>8, <2>9, <2>10, <2>11, TurnedTidy
  <2>13. Ahead(u)
    BY <2>4, <2>11 DEF Ahead, Turned, Unanswered, Queued, Emptied
  <2>14. u.failed = v.failed
    BY <2>4, <2>9, <2>11 DEF Turned
  <2> QED BY <2>12, <2>13, <2>14
<1> QED BY <1>1, <1>2

\* What follows every message.
Rested(v, u, A) ==
    /\ Tidy(u, A) /\ Ahead(u) /\ u.raft = v.raft
    /\ Steady(v) => u.failed = None

LEMMA AfterTidy ==
    ASSUME NEW v, NEW A, A \subseteq Request, Sound(v, A), FewRequests => Fresh(v),
           Tidy(v, A), Cardinality(Peer) \in Nat
    PROVE  Rested(v, AfterMessage(v), A)
<1>1. PICK x : x = CheckStateChange(v)
  OBVIOUS
<1>2. PICK y : y = ProcessCommitted(x)
  OBVIOUS
<1>3. PICK z : z = ProcessWeakWaiting(y)
  OBVIOUS
<1>4. PICK u : u = ProcessWaiting(y)
  OBVIOUS
<1>5. AfterMessage(v) = u
  BY <1>1, <1>2, <1>4 DEF AfterMessage
<1>6. Typed(v, A)
  BY DEF Sound
<1>7. Checked(v, x, A)
  BY <1>1, <1>6, CheckTidy
<1>8. Sound(x, A)
  BY <1>1, CheckKeeps DEF Settled
<1>9. Sound(y, A) /\ y.raft = x.raft
  BY <1>2, <1>8, CommittedKeeps
<1>10. Tidy(y, A) /\ (Steady(x) => Answerable(y))
  BY <1>2, <1>7, CommittedTidy DEF Checked
<1>11. Sound(z, A) /\ z.raft = y.raft
  BY <1>3, <1>9, WeakKeeps DEF Kept
<1>12. Tidy(z, A) /\ Ahead(z) /\ (Answerable(y) => z.failed = None)
  BY <1>3, <1>9, <1>10, WeakTidy
<1>13. Tidy(u, A) /\ Ahead(u) /\ u.raft = z.raft /\ (z.failed = None => u.failed = None)
  <2>1. CASE y.failed # None \/ z.failed # None
    <3>1. u = z
      BY <1>3, <1>4, <2>1 DEF ProcessWaiting
    <3> QED BY <1>12, <3>1
  <2>2. CASE ~ (y.failed # None \/ z.failed # None)
    <3>1. u = ProcessStrongWaiting(z)
      BY <1>3, <1>4, <2>2 DEF ProcessWaiting
    <3>2. Tidy(u, A) /\ Ahead(u) /\ u.failed = z.failed
      BY <1>11, <1>12, <3>1, StrongTidy
    <3>3. u.raft = z.raft
      BY <1>11, <3>1, StrongKeeps DEF Kept
    <3> QED BY <3>2, <3>3
  <2> QED BY <2>1, <2>2
<1>14. x.raft = v.raft /\ (Steady(v) => Steady(x))
  BY <1>7 DEF Checked
<1> QED BY <1>5, <1>9, <1>10, <1>11, <1>12, <1>13, <1>14 DEF Rested
-----------------------------------------------------------------------------
(* Every step keeps it, and fails for a cause only. *)

Cause(v, log) ==
    \/ Len(v.waiting) >= 2 /\ Last(v.waiting).request.kind = "write"
    \/ \E i \in 1..Len(v.waiting) : Overtaken(v.waiting[i], log)
    \/ \E i \in 1..Len(v.strongWaiting) : Overtaken(v.strongWaiting[i], log)

\* Without a cause the queues are fit for the new log.
LEMMA NoCause ==
    ASSUME NEW v, NEW A, Typed(v, A), Leading(v), Ahead(v), NEW log, Len(log) \in Nat,
           ~ Cause(v, log), NEW u, Queued(v, u), u.lastApplied = v.lastApplied,
           u.seqno \in Nat, v.seqno <= u.seqno
    PROVE  Ready(u, log)
<1>1. /\ v.waiting \in Seq(WaitingOf(A)) /\ v.strongWaiting \in Seq(StrongOf(A))
      /\ v.seqno \in Nat /\ u.waiting = v.waiting /\ u.strongWaiting = v.strongWaiting
  BY DEF Typed, QueuesTyped, Queued
<1>2. ASSUME v.waiting # << >>
      PROVE  /\ Last(v.waiting).index <= Len(log)
             /\ Last(v.waiting).request.kind = "write" =>
                   /\ Last(v.waiting).index > v.lastApplied
                   /\ log[Last(v.waiting).index].value = Last(v.waiting).request
                   /\ Len(v.waiting) = 1
  <2>1. PICK w : w = Last(v.waiting)
    OBVIOUS
  <2>2. /\ Len(v.waiting) \in Nat /\ Len(v.waiting) \in 1..Len(v.waiting)
        /\ w = v.waiting[Len(v.waiting)] /\ w \in WaitingOf(A)
    BY <1>1, <1>2, <2>1, LastFacts
  <2>3. ~ Overtaken(w, log)
    BY <2>2 DEF Cause
  <2>4. w.index \in Nat
    BY <2>2 DEF WaitingOf
  <2>5. w.index <= Len(log)
    BY <2>3, <2>4 DEF Overtaken
  <2>6. ASSUME w.request.kind = "write"
        PROVE  w.index > v.lastApplied /\ log[w.index].value = w.request /\ Len(v.waiting) = 1
    <3>1. w.index > v.lastApplied
      BY <1>2, <2>1 DEF Ahead
    <3>2. log[w.index].value = w.request
      BY <2>3, <2>6 DEF Overtaken
    <3>3. ~ (Len(v.waiting) >= 2)
      BY <2>1, <2>6 DEF Cause
    <3>4. Len(v.waiting) = 1
      <4>1. PICK n : n = Len(v.waiting)
        OBVIOUS
      <4>2. n \in Nat /\ n \in 1..n /\ ~ (n >= 2)
        BY <2>2, <3>3, <4>1
      <4>3. n = 1
        BY <4>2
      <4> QED BY <4>1, <4>3
    <3> QED BY <3>1, <3>2, <3>4
  <2> QED BY <2>1, <2>5, <2>6
<1>3. ASSUME v.strongWaiting # << >>
      PROVE  Last(v.strongWaiting).index <= Len(log) /\ Last(v.strongWaiting).seqno <= u.seqno
  <2>1. PICK w : w = Last(v.strongWaiting)
    OBVIOUS
  <2>2. /\ Len(v.strongWaiting) \in 1..Len(v.strongWaiting)
        /\ w = v.strongWaiting[Len(v.strongWaiting)] /\ w \in StrongOf(A)
    BY <1>1, <1>3, <2>1, LastFacts
  <2>3. ~ Overtaken(w, log)
    BY <2>2 DEF Cause
  <2>4. w.index \in Nat /\ w.seqno \in Nat
    BY <2>2 DEF StrongOf
  <2>5. w.index <= Len(log)
    BY <2>3, <2>4 DEF Overtaken
  <2>6. w.seqno <= v.seqno
    BY <1>3, <2>1 DEF Leading
  <2> QED BY <1>1, <2>1, <2>4, <2>5, <2>6
<1> QED BY <1>1, <1>2, <1>3 DEF Ready

TidyInv == ProcessorInv /\ Tidy(server, asked) /\ Ahead(server)
Caused == server'.failed # None => Cause(server, server'.raft.log)

LEMMA TidyFacts ==
    ASSUME TidyInv
    PROVE  /\ ProcessorInv /\ Tidy(server, asked) /\ Ahead(server) /\ Leading(server)
           /\ Settled(server, asked) /\ Sound(server, asked) /\ Typed(server, asked)
           /\ asked \subseteq Request /\ Cardinality(Peer) \in Nat
           /\ Ordered(server) /\ True(server) /\ Once(server) /\ Owing(server, asked)
<1>1. ProcessorInv /\ Tidy(server, asked) /\ Ahead(server)
  BY DEF TidyInv
<1>2. Settled(server, asked) /\ Sound(server, asked) /\ Typed(server, asked)
      /\ asked \subseteq Request
  BY <1>1 DEF ProcessorInv, Settled, Sound
<1> QED BY <1>1, <1>2, RestingFacts DEF Tidy

\* The replica has moved; nothing follows yet.
LEMMA MovedTidy ==
    ASSUME TidyInv, NEW u, MovesTo(u)
    PROVE  Tidy(u, asked) /\ Sound(u, asked) /\ (FewRequests => Fresh(u))
<1>1. /\ Moved(server, u) /\ RaftTyped(u) /\ Keeps(server, u, server.reached)
      /\ server.raft.commitIndex <= u.raft.commitIndex
      /\ u.answers = server.answers /\ server.seqno <= u.seqno
      /\ Leads(server) => Leads(u)
  BY DEF MovesTo
<1>2. /\ RsmTyped(server) /\ server.reached \in Nat /\ server.raft.commitIndex \in Nat
      /\ u.raft.commitIndex \in Nat /\ server.seqno \in Nat /\ u.seqno \in Nat
      /\ server.strongWaiting \in Seq(StrongOf(asked))
  BY <1>1, TidyFacts DEF Typed, RaftTyped, Raft, QueuesTyped, Moved
<1>3. /\ u.lastApplied = server.lastApplied /\ u.savedApplied = server.savedApplied
      /\ u.reached = server.reached /\ u.replies = server.replies
      /\ Queued(server, u) /\ u.parked = server.parked
  BY <1>1 DEF Moved
<1>4. Ordered(u)
  BY <1>1, <1>2, <1>3, TidyFacts, OrderedKept
<1>5. True(u)
  <2>1. server.reached <= u.reached /\ u.reached \in Nat
    BY <1>2, <1>3
  <2> QED BY <1>1, <1>2, <1>3, <2>1, TidyFacts, TrueKept
<1>6. Once(u)
  BY <1>3, TidyFacts DEF Once
<1>7. Owing(u, asked)
  BY <1>3, TidyFacts DEF Owing, Silent, Queued
<1>8. Leading(u)
  <2>1. u.raft.role = "LEADER" => u.raft.leaderId = Nil
    BY <1>1, TidyFacts DEF Leads, Leading
  <2>2. ASSUME u.strongWaiting # << >> PROVE Last(u.strongWaiting).seqno <= u.seqno
    <3>1. PICK w : w = Last(server.strongWaiting)
      OBVIOUS
    <3>2. u.strongWaiting = server.strongWaiting /\ server.strongWaiting # << >>
      BY <1>3, <2>2 DEF Queued
    <3>3. w \in StrongOf(asked)
      BY <1>2, <3>1, <3>2, LastFacts
    <3>4. w.seqno \in Nat
      BY <3>3 DEF StrongOf
    <3>5. w.seqno <= server.seqno
      BY <3>1, <3>2, TidyFacts DEF Leading
    <3> QED BY <1>1, <1>2, <3>1, <3>2, <3>4, <3>5
  <2> QED BY <2>1, <2>2 DEF Leading
<1>9. Sound(u, asked) /\ Sent(u) = Sent(server) /\ u.parked = server.parked
  BY <1>1, TidyFacts, MovedSound
<1>10. FewRequests => Fresh(u)
  BY <1>9, TidyFacts DEF Settled, Fresh
<1> QED BY <1>4, <1>5, <1>6, <1>7, <1>8, <1>9, <1>10 DEF Tidy

LEMMA MessageTidy ==
    ASSUME TidyInv, NEW u, Message(u)
    PROVE  Tidy(server', asked') /\ Ahead(server') /\ Caused
<1>1. /\ MovesTo(u) /\ server' = AfterMessage(u) /\ asked' = asked /\ server.failed = None
  BY DEF Message, OnRaftMessage, Running
<1>2. Tidy(u, asked) /\ Sound(u, asked) /\ (FewRequests => Fresh(u))
  BY <1>1, MovedTidy
<1>3. PICK x : x = AfterMessage(u)
  OBVIOUS
<1>4. Rested(u, x, asked)
  BY <1>2, <1>3, TidyFacts, AfterTidy
<1>5. Tidy(x, asked) /\ Ahead(x) /\ x.raft = u.raft /\ (Steady(u) => x.failed = None)
  BY <1>4 DEF Rested
<1>6. ASSUME ~ Cause(server, u.raft.log) PROVE x.failed = None
  <2>1. /\ Queued(server, u) /\ u.lastApplied = server.lastApplied /\ u.seqno \in Nat
        /\ server.seqno <= u.seqno /\ u.failed = None /\ Len(u.raft.log) \in Nat
    BY <1>1 DEF MovesTo, Moved, RaftTyped, Raft
  <2>2. Ready(u, u.raft.log)
    BY <1>6, <2>1, TidyFacts, NoCause
  <2> QED BY <1>5, <2>1, <2>2 DEF Steady
<1> QED BY <1>1, <1>3, <1>5, <1>6 DEF Caused

LEMMA SilenceTidy ==
    ASSUME TidyInv, NEW u, Silence(u)
    PROVE  Tidy(server', asked') /\ Ahead(server') /\ Caused
<1>1. /\ MovesTo(u) /\ server' = u /\ asked' = asked /\ server.failed = None
  BY DEF Silence, Timeout, Running
<1>2. Tidy(u, asked)
  BY <1>1, MovedTidy
<1>3. Queued(server, u) /\ u.lastApplied = server.lastApplied /\ u.failed = None
  BY <1>1 DEF MovesTo, Moved
<1>4. Ahead(u)
  BY <1>3, TidyFacts DEF Ahead, Queued
<1> QED BY <1>1, <1>2, <1>3, <1>4 DEF Caused

\* Nothing that Tidy speaks of has changed.
Untouched(v, u) ==
    /\ u.raft = v.raft /\ Queued(v, u) /\ u.parked = v.parked /\ u.answers = v.answers
    /\ u.lastApplied = v.lastApplied /\ u.savedApplied = v.savedApplied
    /\ u.reached = v.reached /\ u.replies = v.replies /\ u.seqno = v.seqno
    /\ u.failed = v.failed

LEMMA UntouchedTidy ==
    ASSUME NEW v, NEW A, Tidy(v, A), NEW u, Untouched(v, u)
    PROVE  Tidy(u, A) /\ (Ahead(v) => Ahead(u))
<1>1. Ordered(u)
  BY DEF Tidy, Ordered, Untouched
<1>2. True(u) /\ Once(u)
  BY DEF Tidy, True, Replying, Once, Untouched
<1>3. Owing(u, A)
  BY DEF Tidy, Owing, Silent, Untouched, Queued
<1>4. Leading(u)
  BY DEF Tidy, Leading, Untouched, Queued
<1>5. Ahead(v) => Ahead(u)
  BY DEF Ahead, Untouched, Queued
<1> QED BY <1>1, <1>2, <1>3, <1>4, <1>5 DEF Tidy

LEMMA AskTidy ==
    ASSUME TidyInv, NEW q \in Request, Ask(q)
    PROVE  Tidy(server', asked') /\ Ahead(server') /\ Caused
<1>1. PICK n : n = WritesUpTo(server, server.reached)
  OBVIOUS
<1>2. PICK u : u = [server EXCEPT !.knew = [@ EXCEPT ![q] = n]]
  OBVIOUS
<1>3. PICK x : x = OnCommandRequest(u, q)
  OBVIOUS
<1>4. PICK y : y = AfterMessage(x)
  OBVIOUS
<1>5. PICK B : B = asked \cup {q}
  OBVIOUS
<1>6. u = [server EXCEPT !.knew[q] = WritesUpTo(server, server.reached)]
  BY <1>1, <1>2
<1>7. /\ server' = y /\ asked' = B /\ q \notin asked /\ server.failed = None
      /\ B \subseteq Request /\ q \in B /\ q \in Request \ asked
  BY <1>3, <1>4, <1>5, <1>6, TidyFacts DEF Ask, Running
<1>8. DOMAIN server = Fields
  BY TidyFacts DEF Typed
<1>9. Noted(server, u, q) /\ Untouched(server, u)
  BY <1>1, <1>2, <1>8 DEF Noted, Untouched, Fields, Queued, Cookies
<1>10. /\ Sound(u, B) /\ (FewRequests => Fresh(u) /\ q \notin Sent(u))
       /\ \A i \in 1..Len(u.parked) : u.parked[i] # q
  BY <1>5, <1>7, <1>9, TidyFacts, NotedSound
<1>11. Typed(u, B) /\ DOMAIN u = Fields /\ u.raft \in Raft /\ u.parked \in Seq(B)
  BY <1>10 DEF Sound, Typed, RaftTyped, QueuesTyped
<1>12. Tidy(u, asked) /\ Ahead(u) /\ Ordered(u) /\ Leading(u)
  BY <1>9, TidyFacts, UntouchedTidy DEF Tidy
<1>13. Typed(u, asked)
  BY <1>9, TidyFacts
     DEF Typed, RaftTyped, QueuesTyped, CookiesTyped, RsmTyped, Noted, Queued, Cookies
<1>14. Commanded(u, x, q)
  BY <1>3, <1>11, CommandEffect
<1>15. Keeps(u, x, Len(u.raft.log)) /\ Typed(x, B)
  BY <1>7, <1>11, <1>14, TypedCommand
<1>16. Tidy(x, B)
  BY <1>5, <1>7, <1>12, <1>13, <1>14, <1>15, TidyFacts, CommandTidy
<1>17. Sound(x, B) /\ (FewRequests => Sent(x) \subseteq Sent(u) \cup {q})
  BY <1>7, <1>10, <1>14, CommandKeeps
<1>18. FewRequests => Fresh(x)
  <2>1. u.parked \in Seq(Request)
    BY <1>7, <1>11, MoreAsked
  <2> QED BY <1>10, <1>14, <1>17, <2>1, FreshCommand
<1>19. Rested(x, y, B)
  BY <1>4, <1>7, <1>16, <1>17, <1>18, TidyFacts, AfterTidy
<1>20. Tidy(y, B) /\ Ahead(y) /\ y.raft = x.raft /\ (Steady(x) => y.failed = None)
  BY <1>19 DEF Rested
<1>21. ASSUME ~ Cause(server, x.raft.log) PROVE y.failed = None
  <2>1. /\ Queued(server, u) /\ u.lastApplied = server.lastApplied /\ u.seqno \in Nat
        /\ server.seqno <= u.seqno /\ u.failed = None /\ Len(x.raft.log) \in Nat
    <3>1. /\ Queued(server, u) /\ u.lastApplied = server.lastApplied
          /\ u.seqno = server.seqno /\ u.failed = server.failed
      BY <1>9 DEF Untouched
    <3>2. u.seqno \in Nat
      BY <1>11 DEF Typed, QueuesTyped
    <3>3. Len(x.raft.log) \in Nat
      BY <1>15 DEF Typed, RaftTyped, Raft
    <3> QED BY <1>7, <3>1, <3>2, <3>3
  <2>2. Ready(u, x.raft.log)
    BY <1>21, <2>1, TidyFacts, NoCause
  <2>3. x.failed = None
    BY <1>3, <1>12, <1>13, <2>1, <2>2, CommandRuns
  <2>4. Ready(x, x.raft.log)
    BY <1>12, <1>13, <1>14, <2>1, <2>2, TidyFacts, CommandSteady
  <2> QED BY <1>20, <2>3, <2>4 DEF Steady
<1> QED BY <1>7, <1>20, <1>21 DEF Caused

LEMMA ResponseTidy ==
    ASSUME TidyInv, NEW m \in server.forwarded, OnCommandResponse(m)
    PROVE  Tidy(server', asked') /\ Ahead(server') /\ Caused
<1>1. DOMAIN server = Fields
  BY TidyFacts DEF Typed
<1>2. Untouched(server, server') /\ asked' = asked /\ server.failed = None
  BY <1>1 DEF OnCommandResponse, Running, Untouched, Fields, Queued
<1>3. server'.failed = None
  BY <1>2 DEF Untouched
<1> QED BY <1>2, <1>3, TidyFacts, UntouchedTidy DEF Caused

LEMMA DisconnectTidy ==
    ASSUME TidyInv, NEW c \in Client, Disconnect(c)
    PROVE  Tidy(server', asked') /\ Ahead(server') /\ Caused
<1>1. DOMAIN server = Fields
  BY TidyFacts DEF Typed
<1>2. Untouched(server, server') /\ asked' = asked /\ server.failed = None
  BY <1>1 DEF Disconnect, CleanUp, Running, Untouched, Fields, Queued
<1>3. server'.failed = None
  BY <1>2 DEF Untouched
<1> QED BY <1>2, <1>3, TidyFacts, UntouchedTidy DEF Caused

\* Nothing waits for a server that starts, and no result is left.
LEMMA StartTidy ==
    ASSUME TidyInv, NEW u, NEW log, Starts(u, log)
    PROVE  Tidy(server', asked') /\ Ahead(server') /\ Caused
<1>1. DOMAIN server = Fields
  BY TidyFacts DEF Typed
<1>2. /\ u.waiting = << >> /\ u.strongWaiting = << >> /\ u.parked = << >> /\ u.answers = << >>
      /\ u.raft = Follow(Nil, log, 0) /\ u.failed = None /\ u.replies = server.replies
      /\ u.reached = server.reached
      /\ u.lastApplied = IF DurableRsm THEN server.savedApplied ELSE 0
      /\ u.savedApplied = IF DurableRsm THEN server.savedApplied ELSE 0
      /\ asked' = asked
  BY <1>1 DEF Starts, Start, Reboot, Fields
<1>3. server.reached \in Nat /\ server.savedApplied <= server.reached
  BY TidyFacts DEF Typed, RaftTyped, Ordered
<1>4. Ordered(u)
  <2>1. Results(u.answers, u.raft.log, u.lastApplied) /\ UpTo(u.answers, u.raft.commitIndex)
    BY <1>2, NoResults
  <2> QED BY <1>2, <1>3, <2>1 DEF Ordered
<1>5. True(u)
  <2>1. server.reached <= u.reached /\ u.reached \in Nat
    BY <1>2, <1>3
  <2>2. Keeps(server, u, server.reached)
    BY DEF Starts
  <2> QED BY <1>2, <1>3, <2>1, <2>2, TidyFacts, TrueKept
<1>6. Once(u)
  BY <1>2, TidyFacts DEF Once
<1>7. Owing(u, asked)
  <2>1. \A i : ~ (i \in 1..Len(<< >>))
    OBVIOUS
  <2> QED BY <1>2, <2>1, TidyFacts DEF Owing, Silent
<1>8. Leading(u) /\ Ahead(u)
  BY <1>2 DEF Leading, Ahead, Follow
<1> QED BY <1>2, <1>4, <1>5, <1>6, <1>7, <1>8 DEF Tidy, Caused, Starts

LEMMA StepTidy ==
    ASSUME TidyInv, Next
    PROVE  Tidy(server', asked') /\ Ahead(server') /\ Caused
<1>1. ProcessorInv
  BY TidyFacts
<1>2. CASE \E q \in Request : Ask(q)
  BY <1>2, AskTidy
<1>3. CASE \E l \in Peer, keep \in server.reached..LastIndex(server) :
              \E tail \in Tails, c \in server.raft.commitIndex..MaxLogLen :
                  ObeyLeader(l, keep, tail, c)
  BY <1>1, <1>3, ObeyMoves, MessageTidy
<1>4. CASE LoseOffice
  BY <1>1, <1>4, LoseMoves, MessageTidy
<1>5. CASE \E c \in server.raft.commitIndex..LastIndex(server),
              k \in server.commitSeqno..server.seqno - 1 : Confirm(c, k)
  BY <1>1, <1>5, ConfirmMoves, MessageTidy
<1>6. CASE StandForElection
  BY <1>1, <1>6, StandMoves, SilenceTidy
<1>7. CASE WinElection
  BY <1>1, <1>7, WinMoves, SilenceTidy
<1>8. CASE \E m \in server.forwarded : OnCommandResponse(m)
  BY <1>8, ResponseTidy
<1>9. CASE \E c \in Client : Disconnect(c)
  BY <1>9, DisconnectTidy
<1>10. CASE Restart
  BY <1>1, <1>10, RestartStarts, StartTidy
<1>11. CASE \E keep \in server.reached..LastIndex(server), tail \in Tails :
               CrashInAppend(keep, tail)
  BY <1>1, <1>11, CrashStarts, StartTidy
<1> QED BY <1>2, <1>3, <1>4, <1>5, <1>6, <1>7, <1>8, <1>9, <1>10, <1>11 DEF Next

LEMMA TidyNext ==
    TidyInv /\ [Next]_vars => TidyInv' /\ (vars' # vars => Caused)
<1> SUFFICES ASSUME TidyInv, [Next]_vars PROVE TidyInv' /\ (vars' # vars => Caused)
  OBVIOUS
<1>1. ProcessorInv'
  BY TidyFacts, InvNext
<1>2. CASE UNCHANGED vars
  BY <1>1, <1>2, TidyFacts DEF vars, TidyInv
<1>3. CASE Next
  BY <1>1, <1>3, StepTidy DEF TidyInv
<1> QED BY <1>2, <1>3

LEMMA TidyInit ==
    Init => TidyInv
<1> SUFFICES ASSUME Init PROVE TidyInv
  OBVIOUS
<1>1. ProcessorInv
  BY InvInit
<1>2. /\ server.raft.role = "FOLLOWER" /\ server.waiting = << >>
      /\ server.strongWaiting = << >> /\ server.parked = << >> /\ server.answers = << >>
      /\ server.lastApplied = 0 /\ server.savedApplied = 0 /\ server.reached = 0
      /\ server.replies = [q \in Request |-> << >>]
  BY DEF Init
<1>3. Ordered(server)
  BY <1>2, NoResults DEF Ordered
<1>4. Len(<< >>) = 0 /\ \A i : ~ (i \in 1..Len(<< >>))
  OBVIOUS
<1>5. \A q \in Request : server.replies[q] = << >>
  BY <1>2
<1>6. True(server)
  <2>1. Replying(server)
    <3>1. << >> \in Seq({})
      OBVIOUS
    <3> QED BY <1>2, <3>1 DEF Replying
  <2> QED BY <1>4, <1>5, <2>1 DEF True, Told
<1>7. Once(server)
  BY <1>4, <1>5 DEF Once
<1>8. Owing(server, asked)
  BY <1>2, <1>4, <1>5 DEF Owing, Silent
<1>9. Leading(server) /\ Ahead(server)
  BY <1>2 DEF Leading, Ahead
<1> QED BY <1>1, <1>3, <1>6, <1>7, <1>8, <1>9 DEF TidyInv, Tidy

LEMMA TidyAlways ==
    Spec => []TidyInv
<1>1. TidyInv /\ [Next]_vars => TidyInv'
  BY TidyNext
<1> QED BY <1>1, TidyInit, PTL DEF Spec
-----------------------------------------------------------------------------
(* Theorems. *)

\* Every variable keeps its type, whatever arrives and however often the
\* server restarts (OnCommandRequest, CheckStateChange, ProcessCommitted,
\* ProcessWaiting, Forward, CleanUp).
THEOREM ProcessorTypes ==
    Spec => []TypeOK
<1>1. ProcessorInv => TypeOK
  <2> SUFFICES ASSUME ProcessorInv PROVE TypeOK
    OBVIOUS
  <2>1. Typed(server, asked) /\ RaftTyped(server)
    BY DEF ProcessorInv, Settled, Sound, Typed
  <2>2. /\ server.raft.role \in {"FOLLOWER", "CANDIDATE", "LEADER"}
        /\ server.raft.leaderId \in Peer \cup {Nil}
        /\ server.raft.commitIndex \in 0..LastIndex(server)
        /\ server.raft.log \in Seq(LogEntry)
    BY <2>1 DEF RaftTyped, Raft, LastIndex
  <2>3. ASSUME NEW i \in 1..LastIndex(server)
        PROVE  server.raft.log[i].value \in Request \cup {Foreign, Stub}
    <3>1. server.raft.log[i] \in LogEntry
      BY <2>2 DEF LastIndex
    <3> QED BY <3>1 DEF LogEntry, Value
  <2>4. ASSUME NEW i \in 1..Len(server.waiting) PROVE server.waiting[i].request \in asked
    <3>1. server.waiting[i] \in WaitingOf(asked)
      BY <2>1 DEF Typed, QueuesTyped
    <3> QED BY <3>1 DEF WaitingOf
  <2>5. ASSUME NEW i \in 1..Len(server.strongWaiting)
        PROVE  server.strongWaiting[i].request \in asked
    <3>1. server.strongWaiting[i] \in StrongOf(asked)
      BY <2>1 DEF Typed, QueuesTyped
    <3> QED BY <3>1 DEF StrongOf
  <2>6. \A i \in 1..Len(server.parked) : server.parked[i] \in asked
    BY <2>1 DEF Typed, QueuesTyped
  <2>7. /\ server.nextCookie \in 0..CookieSpace - 1
        /\ server.cookieOwner \subseteq (0..CookieSpace - 1) \X Client
        /\ server.clientCookies \subseteq Client \X (0..CookieSpace - 1)
    BY <2>1 DEF Typed, CookiesTyped, Cookie
  <2> QED BY <2>2, <2>3, <2>4, <2>5, <2>6, <2>7 DEF TypeOK, ProcessorInv
<1> QED BY <1>1, InvAlways, PTL

\* Once a leader is known no command stays behind (CheckStateChange), whoever
\* made it known: a message of the leader, or one of a client in between.
THEOREM NothingStaysParked ==
    Spec => []NoneParkedUnderLeader
<1>1. ProcessorInv => NoneParkedUnderLeader
  BY DEF ProcessorInv, Settled, NoneParkedUnderLeader
<1> QED BY <1>1, InvAlways, PTL

\* A state machine in memory has executed the committed writes, each once and
\* in log order, through changes of leader and restarts (ProcessCommitted).
THEOREM StateMachineFollowsLog ==
    ASSUME ~ DurableRsm
    PROVE  Spec => []RsmFollowsLog
<1>1. ProcessorInv => RsmFollowsLog
  BY DEF ProcessorInv, Settled, Sound, Executed, ExecutedUpTo, RsmFollowsLog
<1> QED BY <1>1, InvAlways, PTL

\* With it, a read sees every write this server had executed when it was asked
\* (OnReadRequest, ProcessWaiting).
THEOREM ReadsSeeWhatWasExecuted ==
    ASSUME ~ DurableRsm
    PROVE  Spec => []ReadsSeeExecuted
<1>1. ProcessorInv => ReadsSeeExecuted
  BY DEF ProcessorInv, Settled, Sound, Knowing, Repliable, ReadsSeeExecuted
<1> QED BY <1>1, InvAlways, PTL

\* As long as ForwardCookie does not come round, the two maps of forwarded
\* commands say the same (Forward, CleanUp, OnCommandResponse).
THEOREM CookieMapsAgree ==
    ASSUME Cardinality(Request) < CookieSpace
    PROVE  Spec => []CookiesAgree
<1>1. ProcessorInv => CookiesAgree
  <2> SUFFICES ASSUME ProcessorInv PROVE CookiesAgree
    OBVIOUS
  <2>1. Numbered(server, asked) /\ CookiesTyped(server)
    BY DEF ProcessorInv, Settled, Sound, FewRequests, Typed
  <2>2. ASSUME NEW p \in server.cookieOwner
        PROVE  \E x \in server.clientCookies : p = <<x[2], x[1]>>
    <3>1. p = <<p[1], p[2]>> /\ <<p[2], p[1]>> \in server.clientCookies
      BY <2>1 DEF Numbered, CookiesTyped
    <3>2. <<p[2], p[1]>>[1] = p[2] /\ <<p[2], p[1]>>[2] = p[1]
      OBVIOUS
    <3> QED BY <3>1, <3>2
  <2>3. ASSUME NEW x \in server.clientCookies PROVE <<x[2], x[1]>> \in server.cookieOwner
    BY <2>1 DEF Numbered
  <2> QED BY <2>2, <2>3 DEF CookiesAgree
<1> QED BY <1>1, InvAlways, PTL

\* And the answer of another server reaches the client that asked, and only it.
THEOREM AnswersReachTheAsker ==
    ASSUME Cardinality(Request) < CookieSpace
    PROVE  Spec => []RelayedToAsker
<1>1. ProcessorInv => RelayedToAsker
  BY DEF ProcessorInv, Settled, Sound, FewRequests, Numbered, RelayedToAsker
<1> QED BY <1>1, InvAlways, PTL

\* No client is told twice that its write was done or refused, also when several
\* commands are due at once: the second turn of the loop finds no result and
\* fails (ProcessCommitted, ProcessWaiting).
THEOREM WritesAreAnsweredOnce ==
    Spec => []WriteAnsweredOnce
<1>1. TidyInv => WriteAnsweredOnce
  BY DEF TidyInv, Tidy, Once, WriteAnsweredOnce
<1> QED BY <1>1, TidyAlways, PTL

\* What a client was told of its write is what became of the entry at the index
\* the command was given, through every later change of the log: no answer is
\* that of another entry (ProcessCommitted, ProcessWaiting).
THEOREM AnswersAreOfTheirIndex ==
    Spec => []AnswersOfTheirIndex
<1>1. TidyInv => AnswersOfTheirIndex
  <2> SUFFICES ASSUME TidyInv, NEW q \in Request, NEW i \in 1..Len(server.replies[q]),
                      server.replies[q][i].kind = "write"
               PROVE  /\ server.replies[q][i].index \in 1..server.reached
                      /\ server.raft.log[server.replies[q][i].index].value
                            = server.replies[q][i].of
    BY DEF AnswersOfTheirIndex
  <2>1. TrueOf(server.replies[q][i], server.raft.log, server.reached)
    BY DEF TidyInv, Tidy, True, Told
  <2> QED BY <2>1 DEF TrueOf
<1> QED BY <1>1, TidyAlways, PTL

\* No assertion of the waiting queues or of the results fails but where commands
\* are due at once and the newest is a write, or where the entry a command waits
\* for is cut off or replaced (OnReadRequest, OnWriteRequest, ProcessWaiting).
THEOREM AssertionsFailWithCause ==
    Spec => FailuresHaveCause
<1>1. TidyInv /\ [Next]_vars =>
          [server'.failed # None =>
              \/ Len(server.waiting) >= 2 /\ Last(server.waiting).request.kind = "write"
              \/ \E i \in 1..Len(server.waiting) :
                    Overtaken(server.waiting[i], server'.raft.log)
              \/ \E i \in 1..Len(server.strongWaiting) :
                    Overtaken(server.strongWaiting[i], server'.raft.log)]_vars
  BY TidyNext DEF Caused, Cause
<1> QED BY <1>1, TidyAlways, PTL DEF Spec, FailuresHaveCause
=============================================================================
