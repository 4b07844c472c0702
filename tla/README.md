# Verification of miniraft-cpp

TLA+ models of miniraft-cpp, the TLC runs that check them on small instances,
and TLAPS proofs of what holds for every instance. Paths are relative to `src/`.

## The system

A server is one process with one thread. `TRaftServer` (net/server.cpp) runs
coroutines on it: one for each incoming connection, one for each outgoing one
(which reads the answers to forwarded commands), and `Idle`, every 100 ms.
Between two suspensions everything is atomic, and the handlers of `TRaft` and
`TRequestProcessor` never suspend. After each message `InboundConnection` calls,
in this order, the handler, `ProcessTimeout`, `CheckStateChange`,
`ProcessCommitted`, `ProcessWaiting`, `DrainNodes`; `Idle` calls only
`ProcessTimeout` and `DrainNodes`.

| Component | State | Operations | Talks to | Hard behaviour | What makes it correct |
|---|---|---|---|---|---|
| `TRaft` (raft.cpp) | role, `TVolatileState` (commit index, leader, votes, per-peer next/match index, batch size, back-off, deadlines), `Seqno` | `Process` (4 kinds of messages), `ProcessTimeout`, `Append`, `ApproveRead` | peers by messages, `IState` and `INode` by calls | lost, late, reordered messages; crashes in handlers; two leaders | one leader per term; logs match; committed entries stay |
| `IState`: `TState`, `TDiskState` (state.h, persist.cpp) | term, vote, log; three files | `Append`, `RemoveLast`, `Get`, `Commit` | files | crashes between flushes; one stream position for reads and writes | what was appended is read; no promise is lost |
| `TRequestProcessor` (raft.cpp) | `Waiting`, `StrongWaiting`, `WaitingStateChange`, `WriteAnswers`, cookies | `OnCommandRequest`, `OnCommandResponse`, `CheckStateChange`, `ProcessCommitted`, `ProcessWaiting`, `CleanUp` | `TRaft`, `IRsm`, clients, other servers | commands waiting while leaders change; answers after clients left | each command answered once, with its own result |
| `IRsm`: `TDummyRsm`, `TSql`, `TKv` | `LastAppliedIndex` and the application's state | `Prepare`, `Write`, `Read` | `TRequestProcessor` | restart of a durable state machine | every committed write executed once, in order |
| `TNode` (net/server.cpp) | queue, connection, two coroutines | `Send`, `Drain`, `Connect` | a socket | reconnection while draining, errors in the middle of a batch | order within a connection, nothing twice, the queue is sent in the end |
| `TRaftServer` | connections | `Serve` and its coroutines | all of them | interleaving of coroutines | calls in the order above |
| `TMessageReader`, `TMessageWriter` | none | a message and its entries as frames | a socket | partial reads, suspension between frames | what is read was written |
| timeouts (timesource.h, raft.cpp) | `ElectionDue`, `HeartbeatDue`, `RpcDue` | `ProcessTimeout` and the handlers | a clock | split votes, late turns of `Idle`, restarts | a leader in time, which keeps its followers |

## Modules

| Module | Models | Lines of code it stands for |
|---|---|---|
| `RaftQuorums` | the two quorum formulas | raft.cpp 71-83, 140 |
| `Raft` | `TRaft` on every server, messages, crashes | raft.cpp 60-485, state.h, messages.h |
| `RaftHistory` | `Raft` with the history of what was committed, by anyone and by each server; the two refinements | |
| `RaftElection` | the inductive invariant of elections | |
| `RaftLedger` | the inductive invariant of logs and commit indices | |
| `ReplicatedLog` | abstract: one log of committed entries, of which servers know prefixes | |
| `Replica` | abstract: `TRaft` as the code above it sees it | |
| `RequestProcessor` | `TRequestProcessor`, `IRsm` and the loop of `TRaftServer`, on one server | raft.cpp 27-58, 502-680, net/server.cpp 116-264 |
| `ConsistentRead` | `Seqno`, `CommitSeqno` and `ApproveRead` against a newer leader | raft.cpp 71-89, 410-420, 572-576 |
| `DiskState` | `TDiskState` | persist.cpp |
| `Channel` | abstract: what a connection that breaks and is made again promises | |
| `Node` | `TNode`, the reader and writer of messages, `OutboundServe` | net/server.cpp 12-114, 140-146, 166-194 |
| `Deadlines` | `ProcessTimeout` and the handlers of `TRaft` by the clock, on every server, and `Idle` | raft.cpp 137-485, timesource.h, net/server.cpp 148-159, 248-264 |
| `RaftProofs`, `RaftSafetyProofs`, `RaftHistoryProofs` | proofs: types, elections, what a ledger says of a step, logs match; what is committed stays; the two refinements | |
| `RequestProcessorProofs` | proofs: types, parked commands, the state machine and reads, cookies, what clients are told, why assertions fail | |
| `NodeProofs` | proofs: types, sockets, whole messages in order, the refinement of `Channel` | |
| `DiskStateProofs`, `ConsistentReadProofs` | proofs: the files hold the log and the promises; no stale read among four | |
| `DeadlinesProofs` | proofs: types, deadlines, followers are kept, a first leader in time | |
| `MCRaft`, `MCRequestProcessor`, `MCConsistentRead`, `MCDiskState`, `MCNode`, `MCDeadlines` | instances for TLC | |

`RequestProcessor` sits on `Replica` instead of on `Raft`: a server's `TRaft`
may do to it whatever `Replica` allows, which is checked and proved to be no less than
what `Raft` does (`ServersAreReplicas`). What a server may rely on is what it took for
committed itself (`reached`): an entry that others have committed, and that it
holds without knowing so, a late request of an older leader may still make it
replace, in an instance with a third election. Two more promises are used. Where
entries are replaced, one of the two logs has a stub (`Merged`); and a leader that
commits anything commits its own stub with it, behind which there is none
(`CountsStubs`). A crash may leave the log half way through `OnAppendEntries` and has
an action of its own here too (`CrashInAppend`). That keeps the state of one server and
its clients small enough for TLC. The entries a leader brings are `Foreign` or
stubs; so is a write of this server that had been cut off and comes back.

How the models correspond to the code:

* **Raft.** One function per field (`currentTerm[s]`, `votedFor[s]`, `log[s]`
  for `IState`; the rest for `TVolatileState` and `StateName`). One action per
  branch of `Process` and `ProcessTimeout`. The term check of `Process` and the
  handler that follows it are one action, since the code runs them in one call.
  `WinElection` contains the append of the stub and the first round of
  requests. Deadlines are dropped: whatever waits for one may happen at any
  time. `ProcessTimeout` may be called so rarely that several of its branches
  fire in one call; for a cluster of one they do so always (`SoloElection`).
* **Messages** are a set that only grows. Any message in it may be received
  now, later, again, or never. The code's TCP connections lose what was in
  flight when they break and can reorder across a reconnection; duplicates do
  not occur on them, but the same request sent again looks the same.
* **Crashes** happen between calls (`Restart`), after the term check was made
  durable (`CrashInTermCheck`) and at any point of the replacement of entries
  (`CrashInAppend`). `Raft` takes `IState` for what it promises to be; `DiskState`
  shows when `TDiskState` keeps that promise.
* **RequestProcessor.** Every function of the class is an operator from server
  state to server state, and an action composes the calls in the order in which
  `InboundConnection` makes them. The three queues are sequences, and the loops
  look at the newest element and pop the oldest, as the code does. What a loop
  leaves behind is a recursive function (`Resumed`, `ProcessCommitted` with
  `ApplyEntry`, `AnswerAll`, `AnswersFrom`), so that proofs can speak of it. An assertion
  that fails stops the process (`failed`): the documented build (`cmake .`)
  does not define `NDEBUG`. What a read returns depends on the writes the state
  machine has executed, so a reply records how many these were (`saw`); `reached`
  and `knew` are history, and say what a read may not miss.
* **DiskState.** The files as the process sees them and as they were flushed,
  the order of the three flushes in `Commit`, and the one position that reads
  and writes of the `Entries` stream share. An offset counts entries instead of
  bytes. That entries differ in length matters where an `Append` is cut short: an
  `Index` record left from a removed entry may then point into any other
  (`LeftInIndex`), and what is appended behind a torn entry may overwrite any. The
  history variables name the entries that are in doubt: `torn`, since a crash cut the
  `Commit` of an `Append`, and `astray`, a first entry that was written elsewhere.
* **Node.** One `TNode` with the coroutines that run on it: `drainers` are the
  `DoDrain`s that run (a sequence, so that two of them could), `connector` says
  where `DoConnect` is suspended, `reading` which connection `OutboundServe` reads.
  An action is what runs between two suspensions; each write of a frame is one.
  A connection is the sequence of frames on their way, of which a prefix arrives
  if it breaks. That coroio resumes a pending read with an error when its socket
  breaks or is replaced is an assumption about that library, as is that a write
  to a broken socket throws or vanishes.
* **Deadlines.** The time left until each deadline of each server, and messages
  with their age. Every handler and timeout is there with what it does to the
  deadlines; logs are abstracted to "has entries", "is behind", and a free choice where
  the handler compares logs. A tick is the unit of time. A message takes a
  tick at least, so what servers do within one tick is independent and they take
  turns (`turn`), which leaves out orders that end in the same state.
* **ConsistentRead.** One leader of term 1 whose stub is committed everywhere,
  one possible leader of term 2.

Definitions marked "broken variant" are never used by the specifications. Each
is what a plausible mistake would make of the definition after it, and serves
to confirm that a property would notice the mistake.

## Runs

| Run | Asks | Bounds |
|---|---|---|
| `Raft1` | does a cluster of one keep its log through restarts | 3 elections, 5 entries, two values |
| `Raft3Crash` | three servers, crashes anywhere: votes and leaders, committed entries, refinement of `ReplicatedLog` and `Replica` | 2 candidacies, 2 entries, the requests a new leader sends |
| `Raft3Replication` | three servers, new or started with conflicting logs: log matching, leader completeness, what servers take for committed, logs that only grow within a term, what leaders believe of peers, refinement of `ReplicatedLog` | 2 candidacies, 4 AppendEntries by `LeaderTimeout`, 2 entries, no further crashes |
| `ProcessorProgress` | a stale or consistent read or a forwarded write that waits, to be applied or to be confirmed, is answered unless its client leaves | 3 entries and the stubs, one command waiting at a time, one step-down while none waits, two servers |
| `ProcessorStepDown` | leaders change with commands waiting, commands are due at once, clients leave, restarts: execution in order, what a read sees, the maps of cookies, one answer to a write, of its own index, and why an assertion fails | a write and a read that may both wait and both be due, 2 step-downs, 1 restart, 3 cookies, of which 1 and 2 are used |
| `DiskLog` | what was appended is read back, and which entries are in doubt after a crash or a misplaced write; `LastLogTerm`; term and vote | 2 terms, 3 entries, 4 places in `Entries`, conflicts at any index, every `Commit` cut between any two flushes |
| `Read4` | no stale consistent read among four servers | 5 numbered requests, one read |
| `Node` | a queue, its two coroutines and its reader over connections that break anywhere; refinement of `Channel` | 4 messages, of 1, 0, 0 and 1 entries, 3 connections, 2 answers |
| `Deadlines` | a first leader in time, followers that are kept, no server without a deadline | 3 servers, 4 terms, one restart at any time; times in the table below |

Bounds. Two candidacies are what it takes for two leaders, two candidates of
one term, a deposed leader, or a leader that replaces another's entries.
`RebootedSpec` also starts where a run from scratch would need two more candidacies:
these initial states are those of three servers restarted after two leaders
crashed, each with only its own stub written. They are reachable: a is elected
in term 2 with c's vote and crashes before anything is received; b, which has
heard of term 2 by its vote request, stands in term 3, is elected with c's vote
and crashes as well; a then answers b's old request, learns term 3 and refuses
its vote, because its own last entry is of term 2 and b's request was written
when b's log was empty. Two entries are enough for a stub of each leader, a
stub and a command, or a conflict at either place; with four requests beyond
those of the elections a leader can replace an entry, hear of it, commit, and
send its commit index to a server that lags. `BackOffLimit` is 2 with three servers, so that the cap is
reached; 1024 for `BatchLimit` means that a batch holds all there is. A message may carry any
earlier response, so the cursors meet late successes and failures in these bounds.
A server that restarts in `SoloElection` does so before or after it, not between
the `Commit` of the new term (raft.cpp:434) and the append of the stub (466): with one
server, standing once more is all that would come of it.
`MaxLogLen` of `RequestProcessor` does not count against the stub of a new
leader: else a server could be kept from winning by the bound alone.

`Node`: three connections are two that break, at any frame, and one that does
not; a batch with a message of several frames before and after short ones can
break, be overtaken by what was queued meanwhile, and be followed by another.

`Deadlines`, in ticks:

| Constant | Value | Stands for |
|---|---|---|
| `Election`, `Rpc` | 6, 12 | 5 s and 10 s (`TTimeout`) |
| `Draws` | 6, 9 | `MakeElection`, 5 s to 10 s; every server draws the same first number, later ones are free |
| `Poll`, `Delay` | 1, 1 | `Idle` every 100 ms, and a message's way; a tick is far longer than both |
| `Gap`, `InTime` | 3, 9 | at least that between two first starts; then a leader within that of a majority's start |
| `MaxQueue`, `MaxMissed` | 3, 1 | requests that a peer has for a server when that starts, and when it starts again |

`Poll` and `Delay` are exaggerated, as are the ratios they have to the timeouts:
the margin that heartbeats have in the run is smaller than in the program. `InTime` is the
least that holds. `Gap` is the least for which any holds: servers started
within `Poll + Delay` of each other draw the same numbers and may stand again
before they hear of each other, and split every vote. That contradicts no line of the
documentation, so it is no run, but `Gap = 2` shows it. `MaxQueue` bounds how
late a server starts: with 3, another has stood twice, and may stand once more. Of what a
server missed that starts again, one message is enough to be late or to be lost.
The run also shows that a restarted server stands at once and
deposes a leader that works: its constructor leaves `ElectionDue` at the epoch.

Symmetry and views. Servers and values are interchangeable in `Raft` and its
properties (`CHOOSE` is only used on indices and logs), so `Symmetry` is sound;
the run with a liveness property uses none. `View` leaves out of a state what no
action can read any more: cursors of servers that do not lead, votes of servers
that are no candidates, responses nobody will act on, and `leaderId`, which only
`TRequestProcessor` reads. The `View` of `Deadlines` does the same for what a role does not
read and for counters that have served. `ElectionView` keeps the votes that were cast and
`leaderId`, which the properties of `Raft3Crash` look at.

Runs that are expected to fail, each with a trace of a few steps:

| Run | Shows | In the code |
|---|---|---|
| `ProcessorLostWrite` | queues are not cleaned when the leader steps down | raft.cpp:587 |
| `ProcessorDurable` | the commit index overwrites the index a durable state machine restored | raft.cpp:645 |
| `Read5` | one peer's confirmation is not a quorum | raft.cpp:85 |

In `Read4`, which passes, the peer that confirms and the reader together block
every other quorum. `QuietSpec`, which lets leaders fall and logs be cut only while
nothing waits, serves the liveness property of `ProcessorProgress` alone: a
command whose entry was cut may wait forever.

The safety runs of `RequestProcessor` and `DiskState` keep out none of the cases in
which the code fails. Where it does, the properties say of what it fails and of what not:

* Two commands due at once of which the newest is a write: `ProcessWaiting` looks at
  `back()` and pops the front (raft.cpp:650-651), so the newest write is looked at twice.
  The first turn answers it, the second finds no result, and the assertion of
  raft.cpp:658 fails. It is the first of the two causes in `FailuresHaveCause`; that
  the client is told once even then is `WriteAnsweredOnce`.
* A leader steps down while commands wait: their entries may be cut or replaced, which
  is the second cause. What is then told of a write is what became of the
  index that the write was given (`AnswersOfTheirIndex`), so it is wrong only if another entry
  has taken that index. That this happens is the run `ProcessorLostWrite`.
* The first entry is replaced: `TDiskState::Append` records offset 0 for it but
  writes where the stream stands, which is behind the entry that was just read and
  removed (persist.cpp:75). The entry is `astray`: the one that was removed is read in its place,
  and after a restart `LastLogTerm` is that of the removed one.
* A crash between the flushes of an `Append`: `State`, with the new `LastLogIndex`, is
  flushed before `Index` and `Entries` (persist.cpp:110). The entry is `torn`. Without a
  record in `Index` the constructor uses the entry that `Get` did not find, a
  null dereference (persist.cpp:21); with a record that points at nothing, `Get` throws; with the record of
  a removed entry, that one is read as if it had never been removed.
  `ReadsWhatWasAppended` says that nothing else is lost, and that only a torn last
  entry can keep the process from starting.

Three more defects follow from the models and have no run of their own:

* Two reads due at once: the same `back()` and `pop()` answer the newer one twice
  and the older one never (two `default` reads with `MaxHeld = 2`).
* A command parked during an election stays parked when this server wins it,
  since a leader's own `LeaderId` is 0 and `CheckStateChange` returns on 0
  (raft.cpp:510).
* `ForwardCookie` comes round after 2^32 forwarded commands. The command that is then
  given 0 goes out with cookie 1 (raft.cpp:543-545), and its answer to whoever owns 1
  (`CookieSpace = 2` in the constants of `ProcessorStepDown`, `RelayedToAsker`). In that run
  the counter stops at 0, which no command is given.

Fairness. `ProcessorProgress` and `Node` need it. `Progress` of `RequestProcessor`
asks that a follower or candidate that may stand or win does so in the end
(`Idle` calls `ProcessTimeout` every 100 ms, and the election deadline is
finite) and that a leader's whole log is acknowledged in the end (`LeaderTimeout`
sends again every heartbeat and every `RpcDue`). Nothing is assumed of clients,
of other leaders or of disconnections. `Fairness` of `Node`: `Idle` drains every
100 ms; a write, an attempt to connect and a sleep end, one way or the other; the
other side reads what arrives; `OutboundServe` goes on. That an attempt to connect
succeeds again and again if it is possible (strong fairness of
`ConnectSucceeds`) is assumed of the network: the properties say what follows
once the peer can be reached.

## Proofs

`RaftProofs` proves `TypeCorrectness`: `Spec => []TypeOK`. The one part of it
that is more than bookkeeping is that no next index is 0 (`StepBack`, a success
and `FreshVolatile` each keep it above), on which the arithmetic of
`CreateAppendEntries` rests. `TypeOK` is inductive as it stands.

It also proves `AtMostOneLeader`: `Spec => []ElectionSafety`, for
any finite set of servers, any number of candidacies and crashes, and any loss,
delay or duplication of messages. `ElectionSafety` is not inductive; the
strengthening is `ElectionInv` (module `RaftElection`), with six parts: nobody
sends to itself; a granted vote is remembered by its voter until the term ends;
no voter granted two in one term; candidates and leaders voted for themselves;
a candidate's votes were granted to it; a leader has granted votes of a quorum.
`VotesAreHonoured` proves `Spec => []ElectionInv`: the only step that sends a vote
is `OnVoteRequest` (lemma `OnVoteRequestKeeps`), and every other one keeps the
voters' promises (`NoVoteSent`). From the invariant: two leaders of one term
have two quorums of voters, `MinVotes` makes each more than half
(`MinVotesMajority`), so they share one (`VotersIntersect`), who voted once.

### Logs and commit indices

Why logs match has to do with logs that no longer exist: those of leaders that
have crashed, been deposed or been overwritten. `RaftLedger` keeps them in a
ledger `h`, which maps each term that had a leader to that leader and to its log
when it last led. `h` is no variable of the specification and no step chooses
it: the invariants say that a ledger exists that fits the state, and the proof
of each step says which one fits afterwards (the same, or one in which the page
of one leader is longer or new).

`LogsStayWritten` proves that some ledger always satisfies `WritingInv`. Its parts: every entry
anywhere was written by the leader of its term, after exactly the entries that precede
it, and each term starts with its stub and has no other (`PagesInv`, `LogsInv`); a leader's page is its log (`LeadersInv`); the leader
of a page was elected and will not stand in that term again, which is where
`ElectionInv` is needed, so nobody opens a second page for a term (`ElectedInv`);
requests quote pages (`RequestsInv`); successes answer them (`AcksInv`); match indices
were acknowledged (`CursorsInv`). `LogsMatch` and `NextIndexStaysInRange` follow. The
step that takes work is `OnAppendEntries`: it replaces entries in a loop that a crash
may cut anywhere, so its lemma (`TakeInWriting`) is about `Merge` and every log
of `PartialMerges`.

`LogsStayInAgreement` proves that some ledger also satisfies `AgreementInv`.
`Committed(h, t, i)` says that a commit quorum acknowledged entry `i` to the leader of term `t`;
`Lost(h, t, i)` that so many servers have left term `t` without doing so that no
quorum ever will. Both are final. `LaterLeadersInv`: an entry that the leader
of `t` wrote in its own term is in the log of every later leader or is lost.
`AcksKeptInv`: who acknowledged an entry keeps it, at least until it hears of a
later term, and then unless it is lost. `CandidatesInv` and `VotesInv` carry this through an
election: a vote is given only to a log at least as long in the same last term, or of a later
one, so it covers what the voter acknowledged. `CommitInv`: commit indices, of servers and in requests, are
committed by the ledger. The theorem needs of the two quorum formulas that
`CommitQuorumSize(n) + MinVotes(n) > n`, for even `n` too. The deciding lemma is
`WinElectionAgreement`: for an entry of an earlier term, either one
voter acknowledged it, and the winner has it, or all voters are past that term
without having done so, and it is lost. `OnAppendSuccess` commits only entries
of the current term (raft.cpp:84), without which `CommitInv` fails. From it:
`CommittedEntriesAgree` (`StateMachineSafety`), `LeadersAreComplete`
(`LeaderCompleteness`), `MatchIndicesAreSound` (`MatchIndexSound`). From
`WritingInv` alone follows an action property: `LogsGrowWithinTerms`
(`GrowsWithinTerm`), that a server with an entry of its term loses none for the
rest of that term. Its last entry makes its whole log a part of the leader's
(`Written`), every request of the term quotes that log (`Quotes`), so the loop of
`OnAppendEntries` (raft.cpp:216-229) finds no conflict to cut at, whether the
request is late, repeated or shorter than one before it. A loop that cuts at the
previous entry without looking, a common mistake, violates it.

`RaftHistoryProofs` proves `RaftImplementsReplicatedLog`: `HistorySpec =>
ImplementsReplicatedLog`, for every instance. The abstract log is the longest sequence that was ever
settled; `HistoryInv` says that a ledger accounts for it
(`HistoryIsRecorded`). A step of `Raft` moves the commit index of at most one server
(`OneMoves`), forward or, at a restart, to 0 (`StepRefines`). `LeadersHaveCommitted`
adds that a leader of the newest term has all of it, even
what no running server remembers the commit of.

`ServersImplementReplica` proves `ServersAreReplicas`. `HistoryInv` also says that what each
server ever took for committed was committed by its term and is in its log
(`Remembered`); since what is committed is not lost, `OnAppendEntries` keeps it
wherever a crash cuts the loop (`CommittedHeld`). Where the loop does replace
entries, two terms part, and one of them starts there, with its stub
(`MergeSplits`): that is what lets `RequestProcessor` replace entries only
from a stub on. A stub starts its term wherever it is (`StubsFirst`), so behind an
entry of a leader's own term there is none: what a leader newly
commits has every stub of its log (`StubsCounted`), which is what lets
`Confirm` of `RequestProcessor` take no less.

TLC can not evaluate `LogsWereWritten` and `LogsAgree`, which quantify over an
infinite set of ledgers; it checks what they imply.

### Requests

`RequestProcessorProofs` follows a message through the chain of operators that
handles it. `ProcessorInv` holds between two messages, `Sound` between any two
operators: every variable has its type; cookies number the commands that were
forwarded, and both maps are made of such numbers (`Numbered`); the state machine has
executed exactly the writes up to `LastAppliedIndex` (`Executed`); whatever
waits, waits for an entry past all that it has to see (`Covers`). The loops are
recursive functions; `ResumeSolution`, `AnswerSolution` and `ApplySolution` show
by well-founded induction that these solve their equations, and
the lemmas after them carry `Sound` from turn to turn. The theorems:

* `ProcessorTypes` (`TypeOK`) and `NothingStaysParked` (`NoneParkedUnderLeader`)
  need no hypothesis.
* `StateMachineFollowsLog` (`RsmFollowsLog`) and `ReadsSeeWhatWasExecuted`
  (`ReadsSeeExecuted`) are about a state machine in memory, `~DurableRsm`. With
  a durable one they fail: that is what `ProcessorDurable` shows. They rest on
  what `Replica` promises, that nothing a server took for committed is replaced.
* `CookieMapsAgree` (`CookiesAgree`) and `AnswersReachTheAsker`
  (`RelayedToAsker`) suppose that fewer commands arrive than `ForwardCookie`
  can count, which is 32 bits wide. When it comes round, a live cookie may be
  given a second time, and 0 goes out as 1, as told under "Runs".
* `WritesAreAnsweredOnce` (`WriteAnsweredOnce`), `AnswersAreOfTheirIndex`
  (`AnswersOfTheirIndex`) and `AssertionsFailWithCause` (`FailuresHaveCause`) need no
  hypothesis either: any number of commands waits, several are due at once, and leaders
  fall and logs are cut with commands waiting.

The last three rest on `TidyInv`, which adds two parts to `ProcessorInv`. `Tidy` holds
between any two operators: the results in `WriteAnswers` are in the order of the log
and not past the commit index (`Ordered`); what was told of a write is in the log, and
was committed (`True`); a write that waits, or is parked, was told of nothing, and none was told twice
(`Owing`, `Once`); a leader knows no other (`Leading`). It holds also in the turn of
`ProcessWaiting` that answers the newest write, which is then told of but still in
the queue: the second turn finds its result popped and fails before it tells again (`WriteTurn`,
`TurnNext`). `Ahead` holds between two messages: the newest command that waits, waits for an index
past `LastAppliedIndex`, since the queue is emptied from the newest down
(`TurnedAll`). `NoCause` is the argument for the assertions: if no waiting entry is
overtaken then the queue is sorted and its writes are in the log at their indices
(`Ready`), so `ProcessCommitted` makes the result of the only one that can be due, and
popping the smaller ones before it finds it; new commands go behind it
(`CommandSteady`, `HandledNext`).

### Times

`DeadlinesProofs` proves `TimesAreTyped` (`TypeOK`) and `StandsSomeDay`
(`FollowerHasDeadline`) for any number of servers and any times, from `ClockInv`
(`KeepsPace`). Beside types, `ClockInv` says that a server that had its turn in this tick is
in pace and stays so until the tick (`PassedInv`), that a server that is down
rests, that heartbeats are never put off beyond `Heartbeat` and that an
`ElectionDue` of Max belongs to a leader.

`FollowersAreKept` proves `LeaderKeepsFollowers` if `Heartbeat + Poll + Delay <
Election`. In the program these are 2.5 s, 0.1 s and a message's way, against 5 s, so
that a way of 2.4 s is too long; with `Heartbeat` = `Election` the run finds
the property violated. The invariant, `KeeperInv`, has two more parts.

* `BeatsInv`: a follower that has heard from the leader of its term has a
  deadline later than the leader's next heartbeat by more than `Poll + Delay`,
  or a request of that leader is on its way and will be there before the
  deadline. What the follower does at its turn, what the leader sends at its own and what
  a tick takes from both are `TurnOfFollower`, `TurnOfLeader` and `TickKeeper`.
* `VotesInv`: that leader is the only one of its term, and was one
  when the follower heard from it. A server's vote is forgotten with the term, so
  the invariant says that there is a record `cast` of all votes, by server and
  term, that fits the state: what servers know of their votes, what votes on
  their way say, and that whoever sent AppendEntries had enough of them
  (`Honest`, `Truthful`, `Witnessed`). The proof of each step says which record fits
  afterwards, as with the ledger.

`FirstLeaderInTime` proves `LeaderInTime` of two or three servers if `Poll + Delay <
Gap`, `3 * Delay < Election`, `4 * Delay <= InTime`, and `d + Poll + 2 * Delay <=
InTime + Gap` for every number `d` that may be drawn (`Timely`). The last is sharp: for the times of
the run it says `InTime >= 9`, and 8 is violated. In the program it means that servers which
start a second apart have a leader within about 9 s of the second start. `RaceInv` says what holds until somebody
leads or is stopped.

* `Started`: servers have started in order; each stood for term 2 at once and has no other
  vote than its own. Only server 1 has stood for more, so nobody else asks for a vote in
  a newer term or is given one (`Said`).
* `Tied`, while server 1 is in term 2: the deadlines are as far apart as the starts were,
  because all drew the same number. So server 1 stands again first (`StandsInTime`).
* `Ahead`, after that: its request is on its way to every server and will be there before
  that server's deadline, or the vote is on its way back (`Asked`, `Granted`); and
  the vote of server 2, the second that is needed, is there in time (`Near`, `Early`, `Late`).
  That a server stood in an old term does not cost it its vote in a new one, and a server without entries
  finds every log up to date.

With two votes needed, the first server that answers elects. With four servers three are, so the first two may stand again
and again before the third starts, each time with numbers drawn anew, and then split the
votes of all three: TLC shows 13 ticks without a leader for `Servers = 4`,
`InTime = 12`, 8 terms and queues of 12. The theorem is therefore about at most three, and not about
a weaker bound for more.

Servers that were stopped are left out of `LeaderKeepsFollowers`, since what is sent to their
old connection is lost until the peer has connected again.

### Connections, files and reads

`NodeInv` of `NodeProofs`: at most one `DoDrain` runs, and none while
`DoConnect` does, since `Drain` and `DoDrain` test and set `Connected` in
that order; on every connection and in what `DoDrain` has still to write are the
frames of whole messages, in the order of `Send` (`Stream`), with a torn message
only at the end of a broken connection; and nothing on its way comes before
what was read on that connection. From it, for any messages and any number of connections: `TypeCorrect` (`TypeOK`),
`NoSocketReplaced` (`DrainsOnlyConnected`), `WholeMessages` (`ReadsWhatWasWritten`),
`InOrder` (`InOrderPerConnection`), and `KeepsPromise`: every step of `Node` is
one of `Channel` or a stutter. What implements a channel delivers
each message at most once (`DeliveredOnce`).

`DiskStateProofs` proves `FilesHoldTheLog` (`ReadsWhatWasAppended`) and
`LastLogTermIsKept` (`LastLogTermIsLast`) for logs of any length, with conflicts at any
index and crashes between any two flushes. `DiskInv`: between two operations everything
the object holds is flushed; every entry that is not `torn` has its record in `Index` at its
own place, and what was appended in that place unless it is `astray` (`Keeps`); every
entry but the last can be read, and the last too while the process is up. So an append
goes right behind the last entry and overwrites nothing that counts; only behind a torn one,
whose length is not known, may it take others with it, and then all are in doubt. Removing
an entry takes it out of doubt.
`PromisesAreKept` (`PromisesKept`): `Commit` flushes `State` before the other
files (persist.cpp:110), so the term and the vote it has are those of the object
(`PromiseInv`) after a crash in the `Commit` of any operation, also where the log
can not be read any more.

`ConsistentReadProofs` proves `FourReadNothingStale` (`NoStaleRead`) for up to
four servers and any number of rounds and reads: there `MinVotes(n) >= n - 1`, so whoever
elected the newer leader leaves no peer behind to confirm the read. With five,
`Read5` shows a stale one.

### Assumptions and limits

The theorems use the named assumptions on the constants of each module
(`ServerAssumption`, `ValueAssumption`, `LimitAssumption` of `Raft`,
`RequestAssumption`, `StubAssumption`, `NodeAssumption`, `DiskAssumption`, `ReaderAssumption`,
`DeadlineAssumption`): finitely many servers and requests, a "nobody" that is none of them,
a stub that is no client's command, natural bounds and times, and a message's way and a first term that are not 0. Bounds
occur only as guards. They start from `Init`; the initial states of
`RebootedSpec` are only model-checked.

Only model-checked:

* `ExecutedOnce`, whose run shows it violated.
* Liveness (`WaitingIsAnswered`, `QueueIsDelivered`, `AnswersAreRead`), which is
  out of the prover's reach, as is ENABLED.

## Not modelled

* Bytes: partial reads, lengths, memory layout of messages, TLS.
* What commands do (`TKv`, `TSql`), the client, with its window of requests, and the server programs.
* 32- and 64-bit overflow of indices and terms; the counter of cookies is the
  one that is modelled modulo its width (`CookieSpace`).
* Growth of `WriteAnswers` and of `Messages`.

## Plan

Done, in this order: `RaftQuorums`, `Raft`, `ReplicatedLog` and `RaftHistory`,
`RaftElection` and `RaftLedger` with their proofs, `Replica`, `RequestProcessor`, `DiskState`,
`ConsistentRead`, `Node` with `Channel`, `Deadlines`, and the proofs of these. Next:

1. Two servers of `RequestProcessor` over a shared log: forwarding end to end.
