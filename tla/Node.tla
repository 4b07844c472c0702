-------------------------------- MODULE Node --------------------------------
(***************************************************************************)
(* TNode (net/server.cpp): the messages for one peer or client, the        *)
(* coroutines that write them and that reconnect, the coroutine            *)
(* OutboundServe that reads answers from the same socket, and the reader   *)
(* of the other side.                                                      *)
(*                                                                         *)
(* A node with an address is a peer: it connects, and connects again after *)
(* a write failed.  A node without one is an incoming connection: it       *)
(* starts connected and is dropped when that connection ends.  Everything  *)
(* runs on one thread; an action is what runs between two suspensions,     *)
(* and every write of a frame may suspend.                                 *)
(*                                                                         *)
(* The socket library coroio is not part of the repository.  Assumed: a    *)
(* connection delivers a prefix of what was written; a write on a broken   *)
(* one fails or vanishes; a read fails once its connection is broken or    *)
(* its socket was replaced.                                                *)
(***************************************************************************)
EXTENDS Naturals, FiniteSets, Sequences, SequencesExt

CONSTANTS
    Entries,          \* the messages to send: how many log entries each has
    MaxConnections,   \* bound: connections; the last one does not break
    MaxAnswers        \* bound: answers the other side sends

ASSUME NodeAssumption ==
    /\ Entries \in Seq(Nat)
    /\ MaxConnections \in Nat \ {0}
    /\ MaxAnswers \in Nat

VARIABLES
    address,      \* whether the node has an Address
    inNodes,      \* whether the server's Nodes holds it
    sent,         \* how many messages were sent
    messages,     \* Messages
    connected,    \* Connected
    connector,    \* Connector: "done", "connecting" or "sleeping"
    drainers,     \* the running DoDrain coroutines: the frames each has to write
    reading,      \* OutboundServe: the connection it reads, or 0
    connection,   \* the newest connection; Socket is its end unless connecting
    alive,        \* that connection is not broken
    wire,         \* frames on their way, by connection
    partial,      \* frames the other side has read of an unfinished message
    received,     \* the messages it has read
    answers,      \* unread answers on the newest connection
    answered      \* how many answers were sent

node == <<address, inNodes, messages, connected, connector, drainers>>
other == <<wire, partial, received>>
back == <<reading, answers, answered>>
vars == <<node, sent, connection, alive, other, back>>

Message == 1..Len(Entries)
Connection == 1..MaxConnections

\* TMessageWriter writes a message and then each log entry it carries.
FramesOf(m) == [i \in 1..Entries[m] + 1 |-> [message |-> m, part |-> i - 1]]
Batch(q) == FlattenSeq([i \in 1..Len(q) |-> FramesOf(q[i])])

Init ==
    /\ address \in BOOLEAN
    /\ connected = ~address
    /\ connection = IF address THEN 0 ELSE 1
    /\ alive = ~address
    /\ inNodes = TRUE
    /\ sent = 0 /\ messages = << >> /\ drainers = << >>
    /\ connector = "done"
    /\ wire = [c \in Connection |-> << >>]
    /\ partial = [c \in Connection |-> << >>]
    /\ received = << >>
    /\ reading = 0 /\ answers = 0 /\ answered = 0

-----------------------------------------------------------------------------
(* The queue and the coroutine that empties it. *)

\* TNode::Send.
Send ==
    /\ sent < Len(Entries)
    /\ sent' = sent + 1
    /\ messages' = Append(messages, sent')
    /\ UNCHANGED <<address, inNodes, connected, connector, drainers, connection,
                   alive, other, back>>

\* Connect starts DoConnect, unless it runs: the socket is replaced at once.
ConnectKeepingConnected ==   \* broken variant
    /\ connector' = IF address /\ connector = "done" THEN "connecting" ELSE connector
    /\ UNCHANGED connected
Connect ==
    IF address /\ connector = "done"
    THEN connector' = "connecting" /\ connected' = FALSE
    ELSE UNCHANGED <<connector, connected>>

DrainingNever == FALSE   \* broken variant
Draining == drainers # << >>

\* Drain, which Idle and every handled message call.
DrainWithoutConnect ==   \* broken variant
    /\ inNodes /\ connected /\ ~Draining /\ messages # << >>
    /\ drainers' = Append(drainers, Batch(messages))
    /\ messages' = << >>
    /\ UNCHANGED <<address, inNodes, connected, connector, sent, connection, alive,
                   other, back>>
DrainKeepingMessages ==   \* broken variant
    /\ inNodes
    /\ \/ ~connected /\ Connect /\ UNCHANGED <<messages, drainers>>
       \/ /\ connected /\ ~Draining /\ messages # << >>
          /\ drainers' = Append(drainers, Batch(messages))
          /\ UNCHANGED <<messages, connected, connector>>
    /\ UNCHANGED <<address, inNodes, sent, connection, alive, other, back>>
Drain ==
    /\ inNodes
    /\ \/ ~connected /\ Connect /\ UNCHANGED <<messages, drainers>>
       \/ /\ connected /\ ~Draining /\ messages # << >>
          /\ drainers' = Append(drainers, Batch(messages))
          /\ messages' = << >>
          /\ UNCHANGED <<connected, connector>>
    /\ UNCHANGED <<address, inNodes, sent, connection, alive, other, back>>

\* A frame is written.  After the last one DoDrain takes over what was queued
\* meanwhile, or ends.
WriteFrame(d) ==
    /\ connector = "done"
    /\ wire' = IF alive THEN [wire EXCEPT ![connection] = Append(@, Head(drainers[d]))]
               ELSE wire
    /\ IF Len(drainers[d]) > 1
       THEN drainers' = [drainers EXCEPT ![d] = Tail(@)] /\ UNCHANGED messages
       ELSE /\ messages' = << >>
            /\ drainers' = IF messages = << >> THEN RemoveAt(drainers, d)
                           ELSE [drainers EXCEPT ![d] = Batch(messages)]
    /\ UNCHANGED <<address, inNodes, connected, connector, sent, connection, alive,
                   partial, received, back>>

\* A write throws: the batch is dropped, what was queued meanwhile is not.
WriteFailsRequeueing(d) ==   \* broken variant
    /\ connector # "done" \/ ~alive
    /\ messages' = messages \o SetToSortSeq({f.message : f \in ToSet(drainers[d])}, <)
    /\ drainers' = RemoveAt(drainers, d)
    /\ Connect
    /\ UNCHANGED <<address, inNodes, sent, connection, alive, other, back>>
WriteFails(d) ==
    /\ connector # "done" \/ ~alive
    /\ drainers' = RemoveAt(drainers, d)
    /\ Connect
    /\ UNCHANGED <<address, inNodes, messages, sent, connection, alive, other, back>>

-----------------------------------------------------------------------------
(* DoConnect. *)

ConnectSucceeds ==
    /\ connector = "connecting"
    /\ connection < MaxConnections
    /\ connector' = "done"
    /\ connected' = TRUE
    /\ connection' = connection + 1
    /\ alive' = TRUE
    /\ UNCHANGED <<address, inNodes, messages, drainers, sent, other, back>>

ConnectFails ==
    /\ connector = "connecting"
    /\ connector' = "sleeping"
    /\ UNCHANGED <<address, inNodes, messages, connected, drainers, sent, connection,
                   alive, other, back>>

\* The sleep of a second is over: another socket, another attempt.
TryAgain ==
    /\ connector = "sleeping"
    /\ connector' = "connecting"
    /\ UNCHANGED <<address, inNodes, messages, connected, drainers, sent, connection,
                   alive, other, back>>

-----------------------------------------------------------------------------
(* The network and the other side. *)

\* The connection breaks, or the other side closes it: TMessageReader does so
\* on a header that arrives in pieces.  What was on its way arrives up to some
\* frame.
Break ==
    /\ alive
    /\ connection < MaxConnections
    /\ alive' = FALSE
    /\ \E k \in 0..Len(wire[connection]) :
          wire' = [wire EXCEPT ![connection] = SubSeq(@, 1, k)]
    /\ answers' = 0
    /\ UNCHANGED <<node, sent, connection, partial, received, reading, answered>>

\* InboundConnection's own read ends with the connection.
Forget ==
    /\ ~address /\ ~alive /\ inNodes
    /\ inNodes' = FALSE
    /\ UNCHANGED <<address, messages, connected, connector, drainers, sent, connection,
                   alive, other, back>>

\* TMessageReader::Read: after the header of a message, as many further
\* messages as it says it has entries.
Wanted(f) == IF f.part = 0 THEN Entries[f.message] + 1 ELSE 1
ReadFrame(c) ==
    /\ wire[c] # << >>
    /\ wire' = [wire EXCEPT ![c] = Tail(@)]
    /\ LET read == Append(partial[c], Head(wire[c]))
       IN  IF Len(read) < Wanted(read[1])
           THEN partial' = [partial EXCEPT ![c] = read] /\ UNCHANGED received
           ELSE /\ partial' = [partial EXCEPT ![c] = << >>]
                /\ received' = Append(received, [connection |-> c, frames |-> read])
    /\ UNCHANGED <<node, sent, connection, alive, back>>

-----------------------------------------------------------------------------
(* OutboundServe reads the answers to forwarded commands. *)

Answer ==
    /\ address /\ alive
    /\ answered < MaxAnswers
    /\ answered' = answered + 1
    /\ answers' = answers + 1
    /\ UNCHANGED <<node, sent, connection, alive, other, reading>>

\* A turn of the loop; while not connected it throws and sleeps.
StartRead ==
    /\ address /\ connected
    /\ reading = 0
    /\ reading' = connection
    /\ UNCHANGED <<node, sent, connection, alive, other, answers, answered>>

ReadAnswer ==
    /\ reading = connection /\ connector = "done"
    /\ answers > 0
    /\ answers' = answers - 1
    /\ reading' = 0
    /\ UNCHANGED <<node, sent, connection, alive, other, answered>>

\* The read throws; after a second the loop goes on.
ReadFailsForGood ==   \* broken variant
    /\ reading \in Connection
    /\ reading # connection \/ connector # "done" \/ ~alive
    /\ reading' = MaxConnections + 1
    /\ UNCHANGED <<node, sent, connection, alive, other, answers, answered>>
ReadFails ==
    /\ reading # 0
    /\ reading # connection \/ connector # "done" \/ ~alive
    /\ reading' = 0
    /\ UNCHANGED <<node, sent, connection, alive, other, answers, answered>>

-----------------------------------------------------------------------------
Write(d) == WriteFrame(d) \/ WriteFails(d)

Next ==
    \/ Send \/ Drain
    \/ \E d \in DOMAIN drainers : Write(d)
    \/ ConnectSucceeds \/ ConnectFails \/ TryAgain
    \/ Break \/ Forget
    \/ \E c \in Connection : ReadFrame(c)
    \/ Answer \/ StartRead \/ ReadAnswer \/ ReadFails

\* Idle drains every 100 ms, writes end one way or the other, attempts to
\* connect end and are repeated, now and then one succeeds, and the other side
\* reads what arrives.
Fairness ==
    /\ WF_vars(Drain)
    /\ WF_vars(\E d \in DOMAIN drainers : Write(d))
    /\ WF_vars(TryAgain)
    /\ WF_vars(ConnectFails \/ ConnectSucceeds) /\ SF_vars(ConnectSucceeds)
    /\ \A c \in Connection : WF_vars(ReadFrame(c))
    /\ WF_vars(StartRead) /\ WF_vars(ReadAnswer) /\ WF_vars(ReadFails)

Spec == Init /\ [][Next]_vars /\ Fairness

-----------------------------------------------------------------------------
(* Properties. *)

Frame == {f \in [message : Message, part : Nat] : f.part <= Entries[f.message]}

\* Every variable keeps its type; a DoDrain holds frames of messages that exist,
\* and OutboundServe reads no connection that was never made.
TypeOK ==
    /\ sent \in 0..Len(Entries)
    /\ messages \in Seq(Message)
    /\ connector \in {"done", "connecting", "sleeping"}
    /\ \A b \in {address, inNodes, connected, alive} : b \in BOOLEAN
    /\ \A d \in DOMAIN drainers : drainers[d] # << >> /\ ToSet(drainers[d]) \subseteq Frame
    /\ connection \in 0..MaxConnections
    /\ reading \in 0..connection
    /\ answers \in 0..answered /\ answered \in 0..MaxAnswers

\* The messages a drainer has not finished, and those on their way.
MessagesIn(frames) == {f.message : f \in ToSet(frames)}
Held ==
    ToSet(messages)
    \cup (UNION {MessagesIn(drainers[d]) : d \in DOMAIN drainers})
    \cup (UNION {MessagesIn(wire[c]) : c \in Connection})

\* What of a message can still be read in full.
Delivered == [i \in 1..Len(received) |-> received[i].frames[1].message]

\* TNode delivers no message twice, whatever breaks between Send and the read
\* of its last frame (TNode::Send, Drain, DoDrain, TMessageReader::Read).
Promise == INSTANCE Channel WITH
    accepted <- sent, pending <- Held, delivered <- Delivered
ImplementsChannel == Promise!Spec

\* The entries read with an AppendEntries are its own: two messages are never
\* interleaved on a connection (TMessageWriter::Write suspends between frames;
\* Drain starts one DoDrain at a time).
ReadsWhatWasWritten ==
    \A i \in 1..Len(received) : received[i].frames = FramesOf(Delivered[i])

\* On one connection messages arrive in the order in which they were sent.
InOrderPerConnection ==
    \A i, j \in 1..Len(received) :
        i < j /\ received[i].connection = received[j].connection
            => Delivered[i] < Delivered[j]

\* DoConnect never replaces the socket under a DoDrain that is writing to it.
DrainsOnlyConnected ==
    Draining => connected /\ connector = "done"

\* What is queued while the peer can not be reached arrives once it can, unless
\* that connection breaks too.
QueueIsDelivered ==
    \A m \in Message :
        m \in ToSet(messages) /\ ~connected
            ~> m \in ToSet(Delivered) \/ (connected /\ ~alive)

\* An answer to a forwarded command is read, on whichever connection it comes,
\* unless that breaks first: OutboundServe outlives every reconnection.
AnswersAreRead == answers > 0 ~> answers = 0
=============================================================================
