--------------------------- MODULE ReplicatedLog ---------------------------
(***************************************************************************)
(* What TRaft promises to the code above it: there is one sequence of      *)
(* committed entries, it only ever grows at its end, and what a server     *)
(* knows of it is a prefix that grows until the server restarts.           *)
(***************************************************************************)
EXTENDS Naturals, Sequences

CONSTANT Server

VARIABLES
    committed,   \* the entries committed so far
    known        \* per server, the part of them it knows to be committed

logVars == <<committed, known>>

Extends(l, m) == Len(l) >= Len(m) /\ SubSeq(l, 1, Len(m)) = m

LogInit ==
    /\ committed = << >>
    /\ known = [s \in Server |-> << >>]

\* A server that finds new entries committed.
Commit(s) ==
    /\ Extends(committed', committed)
    /\ committed' # committed
    /\ known' = [known EXCEPT ![s] = committed']

\* A server that hears what is committed already.
Learn(s) ==
    /\ Extends(known'[s], known[s])
    /\ Extends(committed, known'[s])
    /\ known' = [known EXCEPT ![s] = known'[s]]
    /\ UNCHANGED committed

\* A restart: the commit index is not durable, the entries are.
Forget(s) ==
    /\ known' = [known EXCEPT ![s] = << >>]
    /\ UNCHANGED committed

LogNext == \E s \in Server : Commit(s) \/ Learn(s) \/ Forget(s)

LogSpec == LogInit /\ [][LogNext]_logVars
=============================================================================
