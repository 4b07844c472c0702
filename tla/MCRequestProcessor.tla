------------------------- MODULE MCRequestProcessor -------------------------
(***************************************************************************)
(* Finite instances of RequestProcessor for TLC.                           *)
(***************************************************************************)
EXTENDS RequestProcessor

CONSTANTS c1, c2

Command(id, client, kind) ==
    [id |-> id, client |-> client, kind |-> kind, fromPeer |-> FALSE]

\* A consistent read of a client here, and of another client a read of
\* whatever this server has and a write that its own server forwards.
ReadsAndWrite ==
    {Command(1, c1, "consistent"), Command(2, c2, "stale"),
     [Command(3, c2, "write") EXCEPT !.fromPeer = TRUE]}

\* Both are forwarded by a follower; the read is the leader's own otherwise.
WriteAndRead == {Command(1, c1, "write"), Command(2, c2, "default")}

TwoWrites == {Command(1, c1, "write"), Command(2, c2, "write")}
=============================================================================
