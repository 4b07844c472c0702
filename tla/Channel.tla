------------------------------ MODULE Channel ------------------------------
(***************************************************************************)
(* What a TNode and the connections under it promise to the code that      *)
(* sends: a message that was accepted is delivered at most once.  It may   *)
(* be lost, and messages may overtake each other.                          *)
(***************************************************************************)
EXTENDS Naturals, Sequences

VARIABLES
    accepted,   \* how many messages were accepted; they are numbered from 1
    pending,    \* those that may still be delivered
    delivered   \* those that were, in the order of their arrival

vars == <<accepted, pending, delivered>>

Init == accepted = 0 /\ pending = {} /\ delivered = << >>

Accept ==
    /\ accepted' = accepted + 1
    /\ pending' = pending \cup {accepted'}
    /\ UNCHANGED delivered

Deliver(m) ==
    /\ m \in pending
    /\ pending' = pending \ {m}
    /\ delivered' = Append(delivered, m)
    /\ UNCHANGED accepted

Lose ==
    /\ pending' \subseteq pending
    /\ UNCHANGED <<accepted, delivered>>

Next == Accept \/ Lose \/ \E m \in pending : Deliver(m)

Spec == Init /\ [][Next]_vars

\* No message is delivered twice, and none that was not accepted.
AtMostOnce ==
    /\ \A i \in 1..Len(delivered) : delivered[i] \in 1..accepted
    /\ \A i, j \in 1..Len(delivered) : delivered[i] = delivered[j] => i = j
=============================================================================
