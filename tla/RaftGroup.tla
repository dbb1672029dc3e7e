----------------------------- MODULE RaftGroup -----------------------------
(***************************************************************************)
(* Raft as the service on top of it sees it: Start, GetState, Snapshot and *)
(* what comes out of applyCh.  A round of calls between two servers is one *)
(* step here; Raft has the messages, RaftApplier the goroutines behind     *)
(* applyCh.                                                                *)
(*                                                                         *)
(* Server are the peers whose service takes part.  The others only vote    *)
(* and replicate, and enough of them follow the newest term and have every *)
(* chosen entry: a leader of the newest term can commit, and a server that *)
(* has all chosen entries can be elected (Raft's LeaderCompleteness and    *)
(* CommittedAgreement).                                                    *)
(***************************************************************************)
EXTENDS Naturals, Sequences, FiniteSets, SequencesExt, Functions

CONSTANTS
    Server,    \* peers
    Leaders,   \* bound: the server elected in each term
    MaxIndex   \* bound: entries of a log

VARIABLES
    term,      \* CurrentTerm of each server
    leading,   \* the servers whose state is LEADER
    log,       \* Log, with the entries a snapshot has replaced
    commit,    \* CommitIndex
    snap,      \* the persisted snapshot: its index, and what the service gave
    pushing,   \* snapshots a goroutine is about to push to applyCh
    batch,     \* entries the applier has taken and not pushed yet
    taken,     \* LastApplied, once the batch is pushed
    chosen     \* history: the entries committed so far

raftVars == <<term, leading, log, commit, snap, pushing, batch, taken, chosen>>

\* The newest term anybody was elected in.
Newest == CHOOSE t \in Range(term) : \A s \in Server : term[s] <= t

RaftInit(none) ==
    /\ term = [s \in Server |-> 0]
    /\ leading = {}
    /\ log = [s \in Server |-> <<>>]
    /\ commit = [s \in Server |-> 0]
    /\ snap = [s \in Server |-> [index |-> 0, term |-> 0, data |-> none]]
    /\ pushing = [s \in Server |-> {}]
    /\ batch = [s \in Server |-> <<>>]
    /\ taken = [s \in Server |-> 0]
    /\ chosen = <<>>

\* startElect, the votes, and changeState(LEADER).
Elect(s) ==
    /\ s \notin leading
    /\ Newest < Len(Leaders) /\ Leaders[Newest + 1] = s
    /\ IsPrefix(chosen, log[s])
    /\ term' = [term EXCEPT ![s] = Newest + 1]
    /\ leading' = leading \cup {s}
    /\ UNCHANGED <<log, commit, snap, pushing, batch, taken, chosen>>

\* s follows l in the term of l.
Follow(l, s) ==
    /\ l \in leading /\ s # l
    /\ term[s] <= term[l]
    /\ term' = [term EXCEPT ![s] = term[l]]
    /\ leading' = leading \ {s}

\* Start, at a leader.
Submit(s, cmd) ==
    /\ s \in leading
    /\ Len(log[s]) < MaxIndex
    /\ log' = [log EXCEPT ![s] = Append(@, [term |-> term[s], cmd |-> cmd])]

\* A round of AppendEntries from l to s that finds where the logs agree.
Replicate(l, s) ==
    /\ Follow(l, s)
    /\ IsPrefix(SubSeq(log[l], 1, snap[l].index), log[s])
    /\ LET new == IF IsPrefix(log[l], log[s]) THEN log[s] ELSE log[l] IN
       /\ log' = [log EXCEPT ![s] = new]
       /\ commit' = [commit EXCEPT ![s] =
             IF new # <<>> /\ Last(new).term = term[l] THEN commit[l] ELSE @]
    /\ UNCHANGED <<snap, pushing, batch, taken, chosen>>

\* handleReplicateOneRoundResponse: an entry of the leader's term is on a
\* majority.  The entries before it are committed one at a time.
Commit(l) ==
    LET i == commit[l] + 1 IN
    /\ l \in leading /\ term[l] = Newest
    /\ \E n \in i .. Len(log[l]) : log[l][n].term = term[l]
    /\ commit' = [commit EXCEPT ![l] = i]
    /\ chosen' = IF i > Len(chosen) THEN Append(chosen, log[l][i]) ELSE chosen
    /\ UNCHANGED <<term, leading, log, snap, pushing, batch, taken>>

\* A round of InstallSnapshot from l to s.
InstallSnapshot(l, s) ==
    LET i == snap[l].index IN
    /\ Follow(l, s)
    /\ i > commit[s] /\ i > snap[s].index
    /\ log' = [log EXCEPT ![s] =
          IF IsPrefix(SubSeq(log[l], 1, i), @) THEN @ ELSE SubSeq(log[l], 1, i)]
    /\ commit' = [commit EXCEPT ![s] = i]
    /\ snap' = [snap EXCEPT ![s] = snap[l]]
    /\ pushing' = [pushing EXCEPT ![s] = @ \cup {snap[l]}]
    /\ UNCHANGED <<batch, taken, chosen>>

\* What the applier pushes next: the rest of the batch it has taken, or else what
\* is committed.  It waits for a snapshot to be pushed.  Taking a batch and
\* pushing its first entry is one step.
Batch(s) ==
    IF batch[s] # <<>> \/ commit[s] <= taken[s] \/ taken[s] < snap[s].index
    THEN batch[s]
    ELSE [k \in 1 .. commit[s] - taken[s] |->
             [index |-> taken[s] + k, entry |-> log[s][taken[s] + k]]]

\* The applier pushes an entry; with the last one LastApplied follows.
PushEntry(s) ==
    /\ Batch(s) # <<>>
    /\ batch' = [batch EXCEPT ![s] = Tail(Batch(s))]
    /\ taken' = IF Len(Batch(s)) = 1 /\ Batch(s)[1].index > taken[s]
                THEN [taken EXCEPT ![s] = Batch(s)[1].index] ELSE taken

\* A snapshot goroutine pushes x.
PushSnapshot(s, x) ==
    /\ x \in pushing[s]
    /\ pushing' = [pushing EXCEPT ![s] = @ \ {x}]
    /\ taken' = IF x.index > taken[s] THEN [taken EXCEPT ![s] = x.index] ELSE taken

\* Snapshot, called by the service with what it has at index i: the new snap.
TakeSnapshot(s, i, data) ==
    IF i > snap[s].index
    THEN [snap EXCEPT ![s] = [index |-> i, term |-> log[s][i].term, data |-> data]]
    ELSE snap

\* A crash, Make and readPersist.
RaftRestart(s) ==
    /\ leading' = leading \ {s}
    /\ commit' = [commit EXCEPT ![s] = snap[s].index]
    /\ pushing' = [pushing EXCEPT ![s] = IF snap[s].index > 0 THEN {snap[s]} ELSE {}]
    /\ batch' = [batch EXCEPT ![s] = <<>>]
    /\ taken' = [taken EXCEPT ![s] = 0]
    /\ UNCHANGED <<term, log, snap, chosen>>

RaftStep ==
    \/ \E s \in Server : Commit(s)
    \/ \E l, s \in Server : Replicate(l, s) \/ InstallSnapshot(l, s)

=============================================================================
