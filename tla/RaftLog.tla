------------------------------- MODULE RaftLog -------------------------------
(***************************************************************************)
(* The log of src/src/raft/raft.go: the pure part of its handlers.         *)
(*                                                                         *)
(* rf.Log is a slice whose first element stands for the snapshot (index 0, *)
(* term 0 before the first one).  An entry carries its index, since after  *)
(* a snapshot the position in the slice is no longer the index.            *)
(***************************************************************************)
EXTENDS Integers, Sequences, FiniteSetsExt

CONSTANTS
    Command,  \* the commands clients hand to Start
    None      \* no command, in the first entry; also VotedFor = -1

Entry == [term : Nat, cmd : Command \cup {None}, index : Nat]

\* getFirstLog and getLastLog read the log unconditionally: it is never empty.
Log == Seq(Entry) \ {<<>>}

Sentinel == [term |-> 0, cmd |-> None, index |-> 0]

FirstLog(l) == l[1]
LastLog(l) == l[Len(l)]

\* Position in the slice l of the entry with index i (rf.Log[i-firstIndex]).
Pos(l, i) == i - FirstLog(l).index + 1

MaxInt(a, b) == IF a >= b THEN a ELSE b
MinInt(a, b) == IF a <= b THEN a ELSE b

\* The entries of l from position i on (l[i-1:] in the code).
Suffix(l, i) == SubSeq(l, i, Len(l))

\* Sequence p is a prefix of sequence q.
IsPrefixOf(p, q) == Len(p) <= Len(q) /\ p = SubSeq(q, 1, Len(p))

-----------------------------------------------------------------------------
(* The shape every log has.                                                *)

\* The position in a slice is the index relative to the first entry's.
Contiguous(l) == \A k \in DOMAIN l : l[k].index = l[1].index + k - 1

\* Terms never decrease, which sort.Search relies on.
Sorted(l) == \A j, k \in DOMAIN l : j <= k => l[j].term <= l[k].term

-----------------------------------------------------------------------------
(* RequestVote.                                                            *)

IsLogUpToDate(l, lastTerm, lastIndex) ==
    \/ LastLog(l).term < lastTerm
    \/ LastLog(l).term = lastTerm /\ LastLog(l).index <= lastIndex

-----------------------------------------------------------------------------
(* AppendEntries: what the leader sends.                                   *)

\* The loop of createAppendEntriesArgs: position of the entry with index prev,
\* or of the first entry when there is none.
PrevPos(l, prev) ==
    LET found == {i \in DOMAIN l : l[i].index = prev}
    IN IF found = {} THEN 1 ELSE Max(found)

-----------------------------------------------------------------------------
(* AppendEntries, run by the follower.                                     *)

\* Mutant of IsLogMatched: any entry at prev will do.
IsLongEnough(l, prevTerm, prev) == prev <= LastLog(l).index

IsLogMatched(l, prevTerm, prev) ==
    \/ prev < FirstLog(l).index
    \/ prev \in FirstLog(l).index .. LastLog(l).index /\ l[Pos(l, prev)].term = prevTerm

\* Mutant of Conflict: a short log is reported by its first index, not the next.
ConflictFirstIndex(l, prev) ==
    IF prev > LastLog(l).index
    THEN [xterm |-> -1, xindex |-> LastLog(l).index + 1, xlen |-> FirstLog(l).index]
    ELSE [xterm |-> l[Pos(l, prev)].term, xindex |-> prev, xlen |-> 0]

\* Mutant of Conflict: the first index of the term is reported one too high.
ConflictOneTooHigh(l, prev) ==
    IF prev > LastLog(l).index
    THEN [xterm |-> -1, xindex |-> LastLog(l).index + 1, xlen |-> FirstLog(l).index + 1]
    ELSE LET xterm == l[Pos(l, prev)].term
             run == {i \in FirstLog(l).index .. prev :
                        \A j \in i .. prev : l[Pos(l, j)].term = xterm}
         IN [xterm |-> xterm, xindex |-> Min(run) + 1, xlen |-> 0]

\* What a follower with log l answers when the log does not match at prev.
Conflict(l, prev) ==
    IF prev > LastLog(l).index
    THEN [xterm |-> -1, xindex |-> LastLog(l).index + 1, xlen |-> FirstLog(l).index + 1]
    ELSE LET xterm == l[Pos(l, prev)].term
             run == {i \in FirstLog(l).index .. prev :
                        \A j \in i .. prev : l[Pos(l, j)].term = xterm}
         IN [xterm |-> xterm, xindex |-> Min(run), xlen |-> 0]

\* XTerm, XIndex and XLen of a reply.
ConflictReport == [xterm : Nat \cup {-1}, xindex : Nat, xlen : Nat]

\* The reply fields that stay zero when there is no conflict to report.
NoConflict == [xterm |-> 0, xindex |-> 0, xlen |-> 0]

\* Entry e is not in log l: beyond its end, or of another term there.
Differs(l, e) ==
    /\ e.index >= FirstLog(l).index
    /\ Pos(l, e.index) > Len(l) \/ l[Pos(l, e.index)].term # e.term

\* Mutant of Merge: only entries beyond the end of the log are taken.
MergeBeyondEnd(l, entries) ==
    l \o SelectSeq(entries, LAMBDA e : Pos(l, e.index) > Len(l))

\* Mutant of Merge: the log is cut after prev even when nothing differs, so an
\* old request takes away what a later one brought.
MergeTruncates(l, entries) ==
    IF entries = <<>> \/ entries[1].index < FirstLog(l).index THEN l
    ELSE SubSeq(l, 1, Pos(l, entries[1].index) - 1) \o entries

\* shrinkEntriesArray(append(l[:n], e[k-1:]...)).
Splice(l, n, e, k) == SubSeq(l, 1, n) \o Suffix(e, k)

\* From the first entry that differs on, the log is replaced by the request's.
Merge(l, entries) ==
    LET diff == {k \in DOMAIN entries : Differs(l, entries[k])} IN
    IF diff = {} THEN l
    ELSE Splice(l, Pos(l, entries[Min(diff)].index) - 1, entries, Min(diff))

\* advanceCommitIndexForFollower, for the log l after the merge.
FollowerCommit(l, ci, term, leaderCommit) ==
    IF LastLog(l).term = term THEN MinInt(leaderCommit, LastLog(l).index) ELSE ci

-----------------------------------------------------------------------------
(* The leader's reaction to a conflict.                                    *)

\* sort.Search: position in l of the first entry of a term above xterm.
SearchAbove(l, xterm) ==
    LET above == {k \in DOMAIN l : l[k].term > xterm}
    IN IF above = {} THEN Len(l) + 1 ELSE Min(above)

\* rf.Log[i-1].Term == reply.XTerm: the leader has entries of the term.
HasTerm(l, xterm) ==
    LET i == SearchAbove(l, xterm) IN i > 1 /\ l[i - 1].term = xterm

\* rf.Log[i] with i = len(rf.Log): the handler would panic.
BackoffPanics(l, c) ==
    c.xterm # -1 /\ HasTerm(l, c.xterm) /\ SearchAbove(l, c.xterm) > Len(l)

\* The next index to try after a follower reported conflict c.
BackoffIndex(l, c) ==
    IF c.xterm = -1 THEN c.xlen
    ELSE IF HasTerm(l, c.xterm) THEN l[SearchAbove(l, c.xterm)].index
    ELSE c.xindex

-----------------------------------------------------------------------------
(* InstallSnapshot, run by the follower.                                   *)

\* The log after the snapshot of a request: the entries after it are kept only
\* if the log holds the snapshot's last entry.
AfterSnapshot(l, index, term) ==
    IF index <= LastLog(l).index /\ l[Pos(l, index)].term = term
    THEN Suffix(l, Pos(l, index))
    ELSE <<[term |-> term, cmd |-> None, index |-> index]>>

=============================================================================
