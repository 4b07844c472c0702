----------------------------- MODULE DiskState ------------------------------
(***************************************************************************)
(* TDiskState (miniraft/persist.cpp): the durable IState, kept in three    *)
(* files.  Entries holds entries one after another, Index the offset of    *)
(* each of them, State the number of entries, the term and the vote.       *)
(*                                                                         *)
(* An entry takes one place in Entries, so an offset counts entries.  That *)
(* entries differ in length shows only where an Append is cut short, see   *)
(* LeftInIndex.  Writes stay in the streams' buffers until they are        *)
(* flushed.  mem holds the object: the fields of TStateFields, the files   *)
(* as the object sees them, and where the Entries stream stands (reads and *)
(* writes move the same position).  disk holds what was flushed.           *)
(*                                                                         *)
(* The operations are called as TRaft calls them: OnAppendEntries removes  *)
(* entries only to replace one it has just read; `replacing` holds that    *)
(* entry's index and the new entry, or nothing.                            *)
(*                                                                         *)
(* History variables: given is the log as the calls made it; torn has the  *)
(* indices at which the files may hold something else since a crash cut    *)
(* the Commit of an Append short; astray has index 1 if the log's first    *)
(* entry was written to another place than the first.                      *)
(***************************************************************************)
EXTENDS Naturals, Sequences, SequencesExt

CONSTANTS
    Candidate,     \* who may be voted for
    NoVote,        \* VotedFor == 0
    Unreadable,    \* what a read of a missing entry gives
    MaxTerm,       \* bound: no term past this one
    MaxLen,        \* bound: no log longer than this
    MaxPlaces      \* bound: no more places in Entries, MaxLen or more

VARIABLES mem, disk, replacing, up, given, torn, astray

history == <<given, torn, astray>>
vars == <<mem, disk, replacing, up, history>>

Term == 1..MaxTerm
Vote == Candidate \cup {NoVote}
Entry == [term : Term]

ASSUME DiskAssumption ==
    /\ NoVote \notin Candidate /\ Unreadable \notin Entry
    /\ MaxTerm \in Nat /\ MaxLen \in Nat /\ MaxPlaces \in Nat

-----------------------------------------------------------------------------
(* Files. *)

\* A write of x at offset `at` of file f, at its end at most.
Put(f, at, x) == [i \in 1..(IF at < Len(f) THEN Len(f) ELSE at + 1) |->
                     IF i = at + 1 THEN x ELSE f[i]]

\* What is at index i of a log in these two files.
ReadAt(entries, index, i) ==
    IF i <= Len(index) /\ index[i] < Len(entries) THEN entries[index[i] + 1]
    ELSE Unreadable

StateOf(m) == <<m.lastLogIndex, m.currentTerm, m.votedFor>>
Flushed(m) == [state |-> StateOf(m), index |-> m.index, entries |-> m.entries]

\* Commit flushes State, then Index, then Entries.
StateFlushed(m) == [disk EXCEPT !.state = StateOf(m)]
IndexFlushed(m) == [StateFlushed(m) EXCEPT !.index = m.index]

\* Where the flushes of an Append end with State, Index has no record of the
\* new entry, or still that of an entry which was removed: as entries differ in
\* length, it may point into any of those that are there now, or make no sense.
LeftInIndex(d, n) ==
    IF n > Len(d.index) THEN {d}
    ELSE {[d EXCEPT !.index[n] = offset] : offset \in 0..Len(d.entries)}

-----------------------------------------------------------------------------
(* Operations, from object to object. *)

Get(m, i) == ReadAt(m.entries, m.index, i)

\* A read leaves the stream behind the entry that was read.
AfterGet(m, i) == [m EXCEPT !.position = m.index[i] + 1]

\* The new entry goes behind the last one of the log.  With no last one, its
\* offset is 0 and the write goes to wherever the stream stands.
AppendToUnread(m, e) ==   \* broken variant
    [m EXCEPT !.entries      = Put(@, m.position, e),
              !.index        = Put(@, m.lastLogIndex, m.position),
              !.position     = @ + 1,
              !.lastLogTerm  = e.term,
              !.lastLogIndex = @ + 1]
AppendTo(m, e) ==
    LET offset == IF m.lastLogIndex > 0 THEN AfterGet(m, m.lastLogIndex).position ELSE 0
        at     == IF m.lastLogIndex > 0 THEN offset ELSE m.position
    IN  [m EXCEPT !.entries      = Put(@, at, e),
                  !.index        = Put(@, m.lastLogIndex, offset),
                  !.position     = at + 1,
                  !.lastLogTerm  = e.term,
                  !.lastLogIndex = @ + 1]

\* LastLogTerm stays as it was.
RemoveLastOf(m) == [m EXCEPT !.lastLogIndex = @ - 1]

SetTermAndVote(m, t, v) == [m EXCEPT !.currentTerm = t, !.votedFor = v]

\* The constructor reads State and, for LastLogTerm, the last entry.
OpenedWithoutTerm(d) ==   \* broken variant
    [lastLogIndex |-> d.state[1], currentTerm |-> d.state[2], votedFor |-> d.state[3],
     lastLogTerm |-> 0, entries |-> d.entries, index |-> d.index, position |-> 0]
OpenedWithoutVote(d) ==   \* broken variant
    [lastLogIndex |-> d.state[1], currentTerm |-> d.state[2], votedFor |-> NoVote,
     lastLogTerm |-> 0, entries |-> d.entries, index |-> d.index, position |-> 0]
Opened(d) ==
    LET n    == d.state[1]
        last == ReadAt(d.entries, d.index, n)
    IN  [lastLogIndex |-> n, currentTerm |-> d.state[2], votedFor |-> d.state[3],
         lastLogTerm |-> IF n = 0 \/ last = Unreadable THEN 0 ELSE last.term,
         entries |-> d.entries, index |-> d.index,
         position |-> IF n = 0 \/ last = Unreadable THEN 0 ELSE d.index[n] + 1]

\* Where the last entry can not be read the constructor does not return: it
\* throws, or uses the entry that Get did not find.
Opens(d) == d.state[1] = 0 \/ ReadAt(d.entries, d.index, d.state[1]) # Unreadable

-----------------------------------------------------------------------------
Init ==
    /\ disk = [state |-> <<0, 1, NoVote>>, index |-> << >>, entries |-> << >>]
    /\ mem = Opened(disk)
    /\ replacing = << >>
    /\ up = TRUE
    /\ given = << >> /\ torn = {} /\ astray = {}

\* An operation ends with Commit.
Commit(m, next) ==
    /\ mem' = m /\ disk' = Flushed(m) /\ replacing' = next
    /\ UNCHANGED up

\* The process starts with these files.
Open(d) ==
    /\ disk' = d
    /\ mem' = Opened(d) /\ up' = Opens(d)
    /\ replacing' = << >>

\* A crash cuts Commit short, and the next start.
CutCommit(m) == Open(StateFlushed(m)) \/ Open(IndexFlushed(m))

\* LogTerm, CreateAppendEntries, ProcessCommitted: an entry is read.
Read(i) ==
    /\ up /\ replacing = << >>
    /\ mem' = AfterGet(mem, i)
    /\ UNCHANGED <<disk, replacing, up, history>>

\* OnAppendEntries finds at index i another term than that of entry e, which
\* is to stand there.
FindConflict(i, e) ==
    /\ up /\ replacing = << >>
    /\ Get(mem, i) # e
    /\ mem' = AfterGet(mem, i)
    /\ replacing' = <<i, e>>
    /\ UNCHANGED <<disk, up, history>>

RemoveLast ==
    /\ up /\ replacing # << >> /\ mem.lastLogIndex >= replacing[1]
    /\ Commit(RemoveLastOf(mem), replacing) \/ CutCommit(RemoveLastOf(mem))
    /\ given' = Front(given)
    /\ torn' = torn \ {Len(given)} /\ astray' = astray \ {Len(given)}

\* With entries that differ in length it is not known where a torn entry ends:
\* the one behind it may overwrite any other.
AppendEntry(e) ==
    LET n == mem.lastLogIndex
        m == AppendTo(mem, e)
    IN  /\ up
        /\ replacing # << >> => replacing = <<n + 1, e>>
        /\ n < MaxLen /\ Len(m.entries) <= MaxPlaces
        /\ \/ /\ Commit(m, << >>)
              /\ torn' = IF n \in torn THEN 1..n + 1 ELSE torn
           \/ /\ \/ \E d \in LeftInIndex(StateFlushed(m), n + 1) : Open(d)
                 \/ Open(IndexFlushed(m))
              /\ torn' = torn \cup {n + 1}
        /\ given' = Append(given, e)
        /\ astray' = IF n = 0 /\ mem.position # 0 THEN {1} ELSE astray

\* Process, ProcessTimeout and OnRequestVote: a new term, a vote.
CommitTerm(t, v) ==
    LET m == SetTermAndVote(mem, t, v)
    IN  /\ up /\ replacing = << >>
        /\ t > mem.currentTerm \/ (t = mem.currentTerm /\ mem.votedFor = NoVote)
        /\ Commit(m, << >>) \/ CutCommit(m)
        /\ UNCHANGED history

\* A crash between two operations, and the next start; also one more try.
Restart ==
    /\ Open(disk)
    /\ UNCHANGED history

Next ==
    \/ \E i \in 1..mem.lastLogIndex : Read(i) \/ \E e \in Entry : FindConflict(i, e)
    \/ RemoveLast
    \/ \E e \in Entry : AppendEntry(e)
    \/ \E t \in Term, v \in Vote : CommitTerm(t, v)
    \/ Restart

Spec == Init /\ [][Next]_vars

-----------------------------------------------------------------------------
(* Properties. *)

Log == [i \in 1..mem.lastLogIndex |-> Get(mem, i)]

\* What was appended is what is read, after any truncations and restarts, but
\* for two entries: the one an interrupted Append was writing, and a first entry
\* that replaced another, which is written to the wrong place.  Such a fault
\* takes no other entry with it, and it is gone once the entry is removed; only
\* the first kind can keep the process from starting (OnAppendEntries, "replace
\* or append log entries", on Append, RemoveLast, Get, Commit).
ReadsWhatWasAppended ==
    /\ mem.lastLogIndex = Len(given)
    /\ \A i \in 1..Len(given) :
          i \notin torn \cup astray => Get(mem, i) = given[i]
    /\ up \/ Len(given) \in torn

\* LastLogTerm, which CreateVote sends to the voters, is the term of the last
\* entry that is read whenever no entry is being replaced, also after an
\* interrupted Append, unless that is a first entry in the wrong place:
\* RemoveLast leaves it alone, and only the Append that follows, or a restart,
\* sets it right.
LastLogTermIsLast ==
    up /\ replacing = << >> /\ Len(given) \notin astray =>
        mem.lastLogTerm = IF Log = << >> THEN 0 ELSE Log[Len(Log)].term

\* No term and no vote is taken back (CommitTerm is flushed before the message
\* that depends on it leaves).
PromisesKept ==
    [][/\ mem'.currentTerm >= mem.currentTerm
       /\ mem'.currentTerm = mem.currentTerm /\ mem.votedFor # NoVote
              => mem'.votedFor = mem.votedFor]_vars
=============================================================================
