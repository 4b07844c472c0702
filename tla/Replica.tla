------------------------------ MODULE Replica ------------------------------
(***************************************************************************)
(* One server's TRaft as TRequestProcessor sees it: its role, the leader   *)
(* it knows of, its log and how far the log is committed.  Everything else *)
(* of TRaft decides when these change; here they change whenever TRaft     *)
(* could change them.  r and q are records with these four fields.         *)
(***************************************************************************)
EXTENDS Naturals, Sequences

CONSTANTS Nil, Stub

\* l and m agree up to index n.
Agree(l, m, n) == n <= Len(l) /\ n <= Len(m) /\ SubSeq(l, 1, n) = SubSeq(m, 1, n)

\* What can become of log l under a leader: entries are added at its end, or
\* put in the place of others from a point on where the terms part.  The first
\* entry of a term is a stub, so at that point one of the two logs has one.
Merged(l, m) ==
    \E k \in 0..Len(l) :
        /\ Agree(l, m, k)
        /\ \/ k = Len(l)
           \/ /\ k < Len(l) /\ k < Len(m)
              /\ Stub \in {l[k + 1].value, m[k + 1].value}

\* An election is due.
Stand(r) ==
    [role |-> "CANDIDATE", leaderId |-> Nil, log |-> r.log, commitIndex |-> r.commitIndex]

\* The election is won: the stub of the new term goes to the end of the log.
Lead(r, e) ==
    [role |-> "LEADER", leaderId |-> Nil, log |-> Append(r.log, e), commitIndex |-> r.commitIndex]

\* TRaft::Append.
Submit(r, e) == [r EXCEPT !.log = Append(@, e)]

\* What is committed up to index c holds every stub of log l: a leader commits
\* no less than its own, the last of them.
CountsStubs(l, c) == \A i \in 1..Len(l) : l[i].value = Stub => i <= c

\* A leader counts index c as committed.
Advance(r, c) == [r EXCEPT !.commitIndex = c]

\* A leader l is obeyed: what is not committed may be replaced.
Follow(l, log, c) == [role |-> "FOLLOWER", leaderId |-> l, log |-> log, commitIndex |-> c]

\* A newer term shows up without its leader.
Depose(r) == [r EXCEPT !.role = "FOLLOWER"]

\* A restart, which may come while entries are being replaced.
Reboot(log) == Follow(Nil, log, 0)

\* What TRaft may do to a replica in one step.
ReplicaStep(r, q) ==
    \/ r.role # "LEADER" /\ q = Stand(r)
    \/ /\ r.role # "LEADER"
       /\ Len(q.log) = Len(r.log) + 1 /\ q.log[Len(q.log)].value = Stub
       /\ \/ q = Lead(r, q.log[Len(q.log)])
          \/ q = Advance(Lead(r, q.log[Len(q.log)]), Len(q.log))   \* a server alone
    \/ /\ r.role = "LEADER"
       /\ Len(q.log) = Len(r.log) + 1 /\ q = Submit(r, q.log[Len(q.log)])
    \/ /\ r.role = "LEADER"
       /\ q.commitIndex \in r.commitIndex + 1 .. Len(r.log)
       /\ CountsStubs(r.log, q.commitIndex)
       /\ q = Advance(r, q.commitIndex)
    \/ /\ q.leaderId # Nil
       /\ Agree(r.log, q.log, r.commitIndex) /\ Merged(r.log, q.log)
       /\ q.commitIndex \in r.commitIndex .. Len(q.log)
       /\ q = Follow(q.leaderId, q.log, q.commitIndex)
    \/ q = Depose(r)
    \/ /\ Agree(r.log, q.log, r.commitIndex)
       /\ q = Reboot(q.log)
=============================================================================
