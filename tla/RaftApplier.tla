---------------------------- MODULE RaftApplier ----------------------------
(***************************************************************************)
(* The goroutines of one Raft peer that work outside rf.mu: the applier,   *)
(* which pushes a slice of rf.Log to applyCh, the goroutines that push a   *)
(* snapshot, and a replicator that encodes a slice of rf.Log for a peer.   *)
(* A slice shares rf.Log's array until rf.Log is replaced, and append may  *)
(* write to that array.                                                    *)
(*                                                                         *)
(* The rest of the cluster is the leader of the latest term, and chosen,   *)
(* what is committed: a new leader has it (Raft's LeaderCompleteness).  An *)
(* entry is its term; its index is its place.                              *)
(***************************************************************************)
EXTENDS Naturals, Sequences

CONSTANTS
    Service,      \* who reads applyCh: "kvraft", or "tester", the Raft tests' harness
    MaxTerm,      \* bound: terms
    MaxIndex,     \* bound: entries of a log
    MaxSnapshots, \* bound: snapshots the service takes
    MaxStale,     \* bound: requests that come late and take CommitIndex back
    MaxRestarts   \* bound: restarts of the peer

VARIABLES
    term,         \* CurrentTerm
    leading,      \* state = LEADER
    log,          \* Log, with the entries the snapshot has replaced
    first,        \* getFirstLog().Index: the index of the snapshot
    commit,       \* CommitIndex
    lastApplied,  \* LastApplied
    applier,      \* "awake", "waiting" on applyCond, or "pushing"
    batch,        \* the slice the applier pushes
    request,      \* the slice a replicator encodes
    pushing,      \* the snapshot goroutines: index, and whether it was pushed
    seen,         \* lastApplied of the service
    peer,         \* the leader of the latest term, if this peer is not
    chosen,       \* history: the committed entries
    snapshots, stale, restarts \* counts for the bounds

vars == <<term, leading, log, first, commit, lastApplied, applier, batch, request,
          pushing, seen, peer, chosen, snapshots, stale, restarts>>

\* A slice: the index of its first entry, its entries, those it was made of, and
\* whether it shares the array of rf.Log.
NoSlice == [from |-> 1, cells |-> <<>>, made |-> <<>>, shared |-> FALSE, term |-> 0]

Slice(from, to) ==
    [from |-> from, cells |-> SubSeq(log, from, to), made |-> SubSeq(log, from, to),
     shared |-> TRUE, term |-> term]

\* rf.Log has got an array of its own.
Parted(s) == [s EXCEPT !.shared = FALSE]

\* append wrote the entries es at index k of the array, then rf.Log was copied.
Written(s, k, es) ==
    IF ~s.shared THEN s
    ELSE Parted([s EXCEPT !.cells =
            [i \in DOMAIN @ |-> LET j == s.from + i - k IN
                                IF j \in DOMAIN es THEN es[j] ELSE @[i]]])

\* applyCond.Signal()
Signal == IF applier = "waiting" THEN "awake" ELSE applier

IsPrefix(s, t) == Len(s) <= Len(t) /\ \A j \in 1 .. Len(s) : s[j] = t[j]

Max2(a, b) == IF a > b THEN a ELSE b

Newest == Max2(term, peer.term)

-----------------------------------------------------------------------------
(* The rest of the cluster.                                                *)

\* Another peer wins an election; a log has what is committed.
PeerElected ==
    /\ Newest < MaxTerm
    /\ \E l \in {log, peer.log} : \E n \in Len(chosen) .. Len(l) :
          /\ IsPrefix(chosen, l)
          /\ peer' = [term |-> Newest + 1, log |-> SubSeq(l, 1, n)]
    /\ UNCHANGED <<term, leading, log, first, commit, lastApplied, applier, batch, request,
                   pushing, seen, chosen, snapshots, stale, restarts>>

PeerStart ==
    /\ peer.term = Newest /\ peer.term > 0
    /\ Len(peer.log) < MaxIndex
    /\ peer' = [peer EXCEPT !.log = Append(@, peer.term)]
    /\ UNCHANGED <<term, leading, log, first, commit, lastApplied, applier, batch, request,
                   pushing, seen, chosen, snapshots, stale, restarts>>

PeerCommit ==
    /\ peer.term = Newest
    /\ \E n \in Len(chosen) + 1 .. Len(peer.log) :
          /\ peer.log[n] = peer.term
          /\ chosen' = SubSeq(peer.log, 1, n)
    /\ UNCHANGED <<term, leading, log, first, commit, lastApplied, applier, batch, request,
                   pushing, seen, peer, snapshots, stale, restarts>>

-----------------------------------------------------------------------------
(* Handlers, under rf.mu.                                                  *)

\* The first index where the log differs from the leader's entries up to n.
Differs(n) ==
    {k \in 1 .. n : /\ ~(k \in DOMAIN log /\ log[k] = peer.log[k])
                    /\ IsPrefix(SubSeq(peer.log, 1, k - 1), log)}

\* Mutant of FollowerCommit: whatever the term of the last entry is.
FollowerCommitAnyTerm(l, leaderCommit) ==
    commit' = IF l = <<>> THEN 0 ELSE IF leaderCommit < Len(l) THEN leaderCommit ELSE Len(l)

\* advanceCommitIndexForFollower
FollowerCommit(l, leaderCommit) ==
    commit' = IF l = <<>> \/ l[Len(l)] # peer.term THEN commit
              ELSE IF leaderCommit < Len(l) THEN leaderCommit ELSE Len(l)

\* Mutant of FollowerSignal: only when CommitIndex has changed.
FollowerSignalOnChange(l) ==
    applier' = IF commit' # commit THEN Signal ELSE applier

FollowerSignal(l) ==
    applier' = IF l = <<>> \/ l[Len(l)] # peer.term THEN applier ELSE Signal

\* A request of the leader with its entries up to n and its CommitIndex then.
\* Where a log differs append(rf.Log[:k], ...) writes to the array if it is
\* large enough, which a shorter log never fails to be.
AppendEntries(n, leaderCommit) ==
    /\ peer.term >= term /\ peer.term > 0
    /\ term' = peer.term
    /\ leading' = FALSE
    /\ IF Differs(n) = {}
       THEN UNCHANGED <<log, batch, request>>
       ELSE \E k \in Differs(n), large \in BOOLEAN :
              LET es == SubSeq(peer.log, k, n) IN
              /\ n <= Len(log) => large
              /\ log' = SubSeq(log, 1, k - 1) \o es
              /\ batch' = IF large THEN Written(batch, k, es) ELSE Parted(batch)
              /\ request' = IF large THEN Written(request, k, es) ELSE Parted(request)
    /\ FollowerCommit(log', leaderCommit)
    /\ FollowerSignal(log')
    /\ \/ commit' >= commit /\ UNCHANGED stale
       \/ commit' < commit /\ stale < MaxStale /\ stale' = stale + 1
    /\ UNCHANGED <<first, lastApplied, pushing, seen, peer, chosen, snapshots, restarts>>

\* A request whose previous entry the log does not have.
RejectEntries ==
    /\ peer.term >= term /\ Differs(Len(peer.log)) # {}
    /\ term' = peer.term
    /\ leading' = FALSE
    /\ UNCHANGED <<log, first, commit, lastApplied, applier, batch, request,
                   pushing, seen, peer, chosen, snapshots, stale, restarts>>

\* The leader's snapshot at i.
InstallSnapshot(i) ==
    /\ peer.term >= term
    /\ term' = peer.term
    /\ leading' = FALSE
    /\ i > commit /\ i > first
    /\ log' = IF i \in DOMAIN log /\ log[i] = chosen[i] THEN log ELSE SubSeq(chosen, 1, i)
    /\ first' = i
    /\ commit' = i
    /\ pushing' = pushing \cup {[index |-> i, pushed |-> FALSE]}
    /\ batch' = Parted(batch)
    /\ request' = Parted(request)
    /\ UNCHANGED <<lastApplied, applier, seen, peer, chosen, snapshots, stale, restarts>>

Elected ==
    /\ ~leading
    /\ Newest < MaxTerm
    /\ IsPrefix(chosen, log)
    /\ term' = Newest + 1
    /\ leading' = TRUE
    /\ UNCHANGED <<log, first, commit, lastApplied, applier, batch, request,
                   pushing, seen, peer, chosen, snapshots, stale, restarts>>

\* appendNewLogEntry: append writes behind every slice, or makes a larger array.
Start ==
    /\ leading
    /\ Len(log) < MaxIndex
    /\ log' = Append(log, term)
    /\ \/ UNCHANGED <<batch, request>>
       \/ batch' = Parted(batch) /\ request' = Parted(request)
    /\ UNCHANGED <<term, leading, first, commit, lastApplied, applier,
                   pushing, seen, peer, chosen, snapshots, stale, restarts>>

\* handleReplicateOneRoundResponse
LeaderCommit ==
    /\ leading /\ term = Newest
    /\ \E n \in commit + 1 .. Len(log) :
          /\ log[n] = term
          /\ commit' = n
          /\ chosen' = IF n > Len(chosen) THEN SubSeq(log, 1, n) ELSE chosen
    /\ applier' = Signal
    /\ UNCHANGED <<term, leading, log, first, lastApplied, batch, request,
                   pushing, seen, peer, snapshots, stale, restarts>>

-----------------------------------------------------------------------------
(* A replicator: createAppendEntriesArgs under rf.mu, then Call encodes.   *)

Request ==
    /\ leading /\ request = NoSlice
    /\ \E k \in first + 1 .. Len(log) : request' = Slice(k, Len(log))
    /\ UNCHANGED <<term, leading, log, first, commit, lastApplied, applier, batch,
                   pushing, seen, peer, chosen, snapshots, stale, restarts>>

Encode ==
    /\ request # NoSlice
    /\ request' = NoSlice
    /\ UNCHANGED <<term, leading, log, first, commit, lastApplied, applier, batch,
                   pushing, seen, peer, chosen, snapshots, stale, restarts>>

-----------------------------------------------------------------------------
(* The applier and the snapshot goroutines.                                *)

\* Mutant of needApplyingLog: a snapshot that is still to be pushed is ignored.
needApplyingLogAtOnce == commit > Max2(lastApplied, first)

needApplyingLog == commit > lastApplied /\ lastApplied >= first

\* The applier takes its slice, or waits.
Take ==
    /\ applier = "awake"
    /\ \/ /\ needApplyingLog
          /\ batch' = Slice(Max2(lastApplied, first) + 1, commit)
          /\ applier' = "pushing"
       \/ ~needApplyingLog /\ applier' = "waiting" /\ UNCHANGED batch
    /\ UNCHANGED <<term, leading, log, first, commit, lastApplied, request,
                   pushing, seen, peer, chosen, snapshots, stale, restarts>>

\* Mutant of Receive: the snapshot moves the rest of the log down in its array.
ReceiveCompacts(i) ==
    /\ Service = "tester" => i = seen + 1
    /\ seen' = Max2(seen, i)
    /\ \/ UNCHANGED <<first, request, snapshots>>
       \/ /\ snapshots < MaxSnapshots
          /\ snapshots' = snapshots + 1
          /\ i >= seen /\ i > first
          /\ first' = i
          /\ request' = Written(request, first + 1, SubSeq(log, i + 1, Len(log)))

\* What the service does with an entry, when it is not older than a snapshot.  It
\* may take a snapshot: rf.Snapshot(i).  The harness ends the test when an entry is
\* out of order.
Receive(i) ==
    /\ Service = "tester" => i = seen + 1
    /\ seen' = Max2(seen, i)
    /\ \/ UNCHANGED <<first, request, snapshots>>
       \/ /\ snapshots < MaxSnapshots
          /\ snapshots' = snapshots + 1
          /\ i >= seen /\ i > first
          /\ first' = i
          /\ request' = Parted(request)

Push ==
    /\ applier = "pushing" /\ batch.cells # <<>>
    /\ Receive(batch.from)
    /\ batch' = [batch EXCEPT !.from = @ + 1, !.cells = Tail(@),
                              !.shared = @ /\ first' = first]
    /\ UNCHANGED <<term, leading, log, commit, lastApplied, applier,
                   pushing, peer, chosen, stale, restarts>>

\* The slice is pushed.
Pushed ==
    /\ applier = "pushing" /\ batch.cells = <<>>
    /\ lastApplied' = Max2(lastApplied, batch.from - 1)
    /\ applier' = "awake"
    /\ batch' = NoSlice
    /\ UNCHANGED <<term, leading, log, first, commit, request,
                   pushing, seen, peer, chosen, snapshots, stale, restarts>>

\* What the service does with a snapshot: ingestSnap of the harness takes any, the
\* key/value service only one that is newer than its state.
Ingest(i) == seen' = IF Service = "tester" THEN i ELSE Max2(seen, i)

PushSnapshot(x) ==
    /\ ~x.pushed
    /\ pushing' = (pushing \ {x}) \cup {[x EXCEPT !.pushed = TRUE]}
    /\ Ingest(x.index)
    /\ UNCHANGED <<term, leading, log, first, commit, lastApplied, applier, batch, request,
                   peer, chosen, snapshots, stale, restarts>>

\* LastApplied follows the snapshot; nobody is signalled.
PushedSnapshot(x) ==
    /\ x.pushed
    /\ pushing' = pushing \ {x}
    /\ lastApplied' = Max2(lastApplied, x.index)
    /\ UNCHANGED <<term, leading, log, first, commit, applier, batch, request,
                   seen, peer, chosen, snapshots, stale, restarts>>

\* A crash, Make and readPersist.
Restart ==
    /\ restarts < MaxRestarts
    /\ restarts' = restarts + 1
    /\ leading' = FALSE
    /\ commit' = first
    /\ lastApplied' = 0
    /\ applier' = "awake"
    /\ batch' = NoSlice
    /\ request' = NoSlice
    /\ pushing' = IF first > 0 THEN {[index |-> first, pushed |-> FALSE]} ELSE {}
    /\ seen' = 0
    /\ UNCHANGED <<term, log, first, peer, chosen, snapshots, stale>>

-----------------------------------------------------------------------------

Init ==
    /\ term = 0 /\ leading = FALSE
    /\ log = <<>> /\ first = 0 /\ commit = 0 /\ lastApplied = 0
    /\ applier = "awake" /\ batch = NoSlice /\ request = NoSlice /\ pushing = {}
    /\ seen = 0
    /\ peer = [term |-> 0, log |-> <<>>]
    /\ chosen = <<>>
    /\ snapshots = 0 /\ stale = 0 /\ restarts = 0

Applier == Take \/ Push \/ Pushed

Snapshots == \E x \in pushing : PushSnapshot(x) \/ PushedSnapshot(x)

Next ==
    \/ PeerElected \/ PeerStart \/ PeerCommit
    \/ \E n \in 0 .. Len(peer.log), c \in 0 .. Len(chosen) : AppendEntries(n, c)
    \/ RejectEntries
    \/ \E i \in 1 .. Len(chosen) : InstallSnapshot(i)
    \/ Elected \/ Start \/ LeaderCommit
    \/ Request \/ Encode
    \/ Applier \/ Snapshots
    \/ Restart

Spec == Init /\ [][Next]_vars

\* Goroutines run, and the leader's heartbeats, with all it has, keep coming.
FairSpec ==
    /\ Spec
    /\ WF_vars(Applier) /\ WF_vars(Snapshots)
    /\ WF_vars(AppendEntries(Len(peer.log), Len(chosen)))

-----------------------------------------------------------------------------
(* Properties.                                                             *)

\* What the applier pushes without holding rf.mu is what is committed at its index:
\* an append to the array it reads from never reaches the slice ("这里可以直接零拷贝").
BatchIntact ==
    \A i \in DOMAIN batch.cells :
        /\ batch.from + i - 1 \in DOMAIN chosen
        /\ batch.cells[i] = chosen[batch.from + i - 1]

\* The service misses nothing: an entry comes after all entries before it, pushed or
\* in a snapshot, and LastApplied never counts one the service has not seen.
NothingSkipped ==
    /\ batch.cells # <<>> => batch.from <= seen + 1
    /\ lastApplied <= seen

\* As long as the peer is in the term of a request, the replicator encodes the
\* entries that were in the log when it made the request.
RequestIntactInTerm ==
    request # NoSlice /\ term = request.term => request.cells = request.made

\* Entries come in order, each after the one before it or after the snapshot that
\* ends with it (applierSnap in raft/config.go: "apply out of order").
AppliedInOrder == batch.cells # <<>> => batch.from = seen + 1

\* A follower of a leader that stays and has appended in its term applies all that
\* is committed: a signal that came before a snapshot was pushed is not the last.
AppliesCommitted ==
    <>[](~leading /\ term = peer.term /\ log # <<>> /\ log[Len(log)] = term)
        => []<>(seen = Len(chosen))

=============================================================================
