-------------------------------- MODULE Raft --------------------------------
(***************************************************************************)
(* The consensus core of src/src/raft/raft.go: elections, log replication  *)
(* with the XTerm/XIndex/XLen back-off, commitment, persistence, snapshots *)
(* and restarts.  RaftLog has the operators on logs.                       *)
(*                                                                         *)
(* Every handler runs under rf.mu, so a handler is one action.  A call     *)
(* through labrpc is two messages, a request and a reply, that may be      *)
(* delayed, reordered or lost.                                             *)
(***************************************************************************)
EXTENDS RaftLog, FiniteSets

CONSTANTS
    Server,            \* the peers (rf.peers)
    MaxTerm,           \* bound: a server in this term starts no election
    MaxIndex,          \* bound: no command is appended at a higher index
    MaxSnapshotIndex,  \* bound: the service takes no later snapshot
    MaxRestarts,       \* bound: restarts of one server
    MaxInFlight        \* bound, by term: replication messages in flight at once

ASSUME ServerAssumption == IsFiniteSet(Server) /\ None \notin Server

ASSUME BoundAssumption ==
    /\ {MaxTerm, MaxIndex, MaxSnapshotIndex, MaxRestarts} \subseteq Nat
    /\ MaxInFlight \in [0 .. MaxTerm -> Nat]

VARIABLES
    currentTerm,  \* CurrentTerm of each server
    votedFor,     \* VotedFor
    log,          \* Log; log[s][1] stands for the snapshot (index 0 at first)
    saved,        \* the Persister: encoded raft state and snapshot bytes
    state,        \* FOLLOWER, CANDIDATE or LEADER
    commitIndex,  \* CommitIndex
    applied,      \* entries the service has got from applyCh; LastApplied is
                  \* their number
    pushing,      \* snapshots that a goroutine is about to push to applyCh
    votes,        \* peers whose vote was counted in the last election: voteCnt
                  \* is one more (the own vote) than their number
    nextIndex,    \* nextIndex[s][p]
    matchIndex,   \* matchIndex[s][p]
    incarnation,  \* number of restarts of each server
    messages,     \* requests and replies in flight
    committed     \* history: the longest log prefix that a leader committed

persistent == <<currentTerm, votedFor, log, saved>>
leaderVars == <<votes, nextIndex, matchIndex>>
serviceVars == <<applied, pushing>>
vars == <<currentTerm, votedFor, log, saved, state, commitIndex, applied,
          pushing, votes, nextIndex, matchIndex, incarnation, messages, committed>>

-----------------------------------------------------------------------------

IsMajority(n) == n > Cardinality(Server) \div 2

\* Everything server s holds: what its snapshot replaced and its log.
Content(s) == saved[s].snapshot \o Tail(log[s])

-----------------------------------------------------------------------------
(* The network.  A message in flight may be handled at any later time or   *)
(* never.  RequestVote is called once per peer and election, so handling   *)
(* its request or reply consumes it.  A leader sends equal replication     *)
(* requests again and again, so when one is handled an equal copy may      *)
(* still be in flight.  A replication message beyond MaxInFlight is lost.  *)

Replication == {"AppendEntries", "AppendEntriesReply",
                "InstallSnapshot", "InstallSnapshotReply"}

Add(msgs, m) ==
    IF Cardinality({r \in msgs : r.type \in Replication}) < MaxInFlight[m.term]
    THEN msgs \cup {m} ELSE msgs

Send(m) == messages' = Add(messages, m)

\* What is in flight once m is handled.
Rest(m) == {messages, messages \ {m}}

\* A restarted caller has new client ends: replies to its old calls are lost.
Answer(request, reply) ==
    \E rest \in Rest(request) :
        messages' = IF request.inc = incarnation[request.src] THEN Add(rest, reply)
                                                              ELSE rest

\* The network loses a replication message.  (A vote message that is lost is
\* one that is never handled.)
Lose(m) ==
    /\ m.type \in Replication
    /\ messages' = messages \ {m}
    /\ UNCHANGED <<persistent, leaderVars, serviceVars, state, commitIndex,
                   incarnation, committed>>

-----------------------------------------------------------------------------
(* Persistence.                                                            *)

\* Mutant of Save: the state is stored but not the snapshot that goes with it.
SaveStateOnly(s, snapshot) ==
    saved' = [saved EXCEPT ![s] = [currentTerm |-> currentTerm'[s],
                                   votedFor |-> votedFor'[s],
                                   log |-> log'[s],
                                   snapshot |-> saved[s].snapshot]]

\* persister.Save(rf.encodeRaftState(), snapshot), after the handler's changes.
Save(s, snapshot) ==
    saved' = [saved EXCEPT ![s] = [currentTerm |-> currentTerm'[s],
                                   votedFor |-> votedFor'[s],
                                   log |-> log'[s],
                                   snapshot |-> snapshot]]

\* Mutant of Persist: called before the handler's changes, not deferred.
PersistBefore(s) ==
    saved' = [saved EXCEPT ![s] = [currentTerm |-> currentTerm[s],
                                   votedFor |-> votedFor[s],
                                   log |-> log[s],
                                   snapshot |-> saved[s].snapshot]]

\* Mutant of Persist: the log is left out.
PersistTermAndVote(s) ==
    saved' = [saved EXCEPT ![s] = [currentTerm |-> currentTerm'[s],
                                   votedFor |-> votedFor'[s],
                                   log |-> saved[s].log,
                                   snapshot |-> saved[s].snapshot]]

Persist(s) == Save(s, saved[s].snapshot)

\* Make and readPersist: the server comes back with what the persister holds.
\* A stored snapshot is pushed to the service by a goroutine.
Restart(s) ==
    /\ incarnation[s] < MaxRestarts
    /\ incarnation' = [incarnation EXCEPT ![s] = @ + 1]
    /\ currentTerm' = [currentTerm EXCEPT ![s] = saved[s].currentTerm]
    /\ votedFor' = [votedFor EXCEPT ![s] = saved[s].votedFor]
    /\ log' = [log EXCEPT ![s] = saved[s].log]
    /\ state' = [state EXCEPT ![s] = "FOLLOWER"]
    /\ commitIndex' = [commitIndex EXCEPT ![s] = FirstLog(saved[s].log).index]
    /\ applied' = [applied EXCEPT ![s] = <<>>]
    /\ pushing' = [pushing EXCEPT ![s] = {saved[s].snapshot} \ {<<>>}]
    /\ votes' = [votes EXCEPT ![s] = {}]
    /\ nextIndex' = [nextIndex EXCEPT ![s] =
                        [p \in Server |-> LastLog(saved[s].log).index + 1]]
    /\ matchIndex' = [matchIndex EXCEPT ![s] = [p \in Server |-> 0]]
    /\ messages' = {m \in messages : m.dst = s => m.type \notin
           {"RequestVoteReply", "AppendEntriesReply", "InstallSnapshotReply"}}
    /\ UNCHANGED <<saved, committed>>

-----------------------------------------------------------------------------
(* Elections.                                                              *)

\* ticker and startElect: the election timer of a server that is not leader.
ElectionTimeout(s) ==
    /\ state[s] # "LEADER"
    /\ currentTerm[s] < MaxTerm
    /\ state' = [state EXCEPT ![s] = "CANDIDATE"]
    /\ currentTerm' = [currentTerm EXCEPT ![s] = @ + 1]
    /\ votedFor' = [votedFor EXCEPT ![s] = s]
    /\ votes' = [votes EXCEPT ![s] = {}]
    /\ UNCHANGED log
    /\ Persist(s)
    /\ messages' = messages \cup
           {[type |-> "RequestVote", src |-> s, dst |-> p, inc |-> incarnation[s],
             term |-> currentTerm[s] + 1,
             lastIndex |-> LastLog(log[s]).index,
             lastTerm |-> LastLog(log[s]).term] : p \in Server \ {s}}
    /\ UNCHANGED <<commitIndex, serviceVars, nextIndex, matchIndex,
                   incarnation, committed>>

\* Mutant of RefusesVote: forgets whom the server voted for in this term.
RefusesOldTermsOnly(s, m) == m.term < currentTerm[s]

\* A smaller term, or a vote already given to another candidate of the term.
RefusesVote(s, m) ==
    \/ m.term < currentTerm[s]
    \/ m.term = currentTerm[s] /\ votedFor[s] \notin {None, m.src}

AnswerVote(m, term, granted) ==
    messages' = (messages \ {m}) \cup
        {r \in {[type |-> "RequestVoteReply", src |-> m.dst, dst |-> m.src,
                 term |-> term, granted |-> granted, aterm |-> m.term]} :
            m.inc = incarnation[m.src]}

\* RequestVote, run by the voter.
RequestVote(m) ==
    LET s == m.dst
        newer == m.term > currentTerm[s]
        granted == IsLogUpToDate(log[s], m.lastTerm, m.lastIndex)
    IN
    /\ m.type = "RequestVote"
    /\ \/ /\ RefusesVote(s, m)
          /\ AnswerVote(m, 0, FALSE)
          /\ UNCHANGED <<persistent, state>>
       \/ /\ ~RefusesVote(s, m)
          /\ currentTerm' = [currentTerm EXCEPT ![s] = m.term]
          /\ state' = [state EXCEPT ![s] = IF newer THEN "FOLLOWER" ELSE @]
          /\ votedFor' = [votedFor EXCEPT ![s] = IF granted THEN m.src
                                                 ELSE IF newer THEN None ELSE @]
          /\ UNCHANGED log
          /\ Persist(s)
          /\ AnswerVote(m, m.term, granted)
    /\ UNCHANGED <<commitIndex, serviceVars, leaderVars, incarnation, committed>>

\* changeState(LEADER).
BecomeLeader(s) ==
    LET last == LastLog(log[s]).index IN
    /\ state' = [state EXCEPT ![s] = "LEADER"]
    /\ nextIndex' = [nextIndex EXCEPT ![s] =
                        [p \in Server |-> IF p = s THEN @[p] ELSE last + 1]]
    /\ matchIndex' = [matchIndex EXCEPT ![s] =
                        [p \in Server |-> IF p = s THEN last ELSE 0]]

\* A reply with a larger term: back to follower, and the term is stored.
StepDown(s, term) ==
    /\ state' = [state EXCEPT ![s] = "FOLLOWER"]
    /\ currentTerm' = [currentTerm EXCEPT ![s] = term]
    /\ votedFor' = [votedFor EXCEPT ![s] = None]
    /\ UNCHANGED log
    /\ Persist(s)

\* The rest of startElect's goroutine, when the call has returned.
RequestVoteReply(m) ==
    LET s == m.dst
        counted == votes[s] \cup {m.src}
        counts == m.term = currentTerm[s] /\ m.granted
        wins == counts /\ IsMajority(1 + Cardinality(counted)) /\ state[s] # "LEADER"
    IN
    /\ m.type = "RequestVoteReply"
    /\ messages' = messages \ {m}
    /\ IF m.term > currentTerm[s]
       THEN StepDown(s, m.term) /\ UNCHANGED leaderVars
       ELSE /\ votes' = [votes EXCEPT ![s] = IF counts THEN counted ELSE @]
            /\ IF wins THEN BecomeLeader(s)
                       ELSE UNCHANGED <<state, nextIndex, matchIndex>>
            /\ UNCHANGED persistent
    /\ UNCHANGED <<commitIndex, serviceVars, incarnation, committed>>

-----------------------------------------------------------------------------
(* Log replication.                                                        *)

\* Start and appendNewLogEntry.
Start(s, cmd) ==
    LET index == LastLog(log[s]).index + 1 IN
    /\ state[s] = "LEADER"
    /\ index <= MaxIndex
    /\ log' = [log EXCEPT ![s] =
                  Append(@, [term |-> currentTerm[s], cmd |-> cmd, index |-> index])]
    /\ matchIndex' = [matchIndex EXCEPT ![s][s] = index]
    /\ UNCHANGED <<currentTerm, votedFor>>
    /\ Persist(s)
    /\ UNCHANGED <<state, commitIndex, serviceVars, votes, nextIndex,
                   incarnation, messages, committed>>

\* Mutant of AppendEntriesArgs: the entry after prev is left out.
AppendEntriesSkipsOne(s, p, prev) ==
    LET at == PrevPos(log[s], prev) IN
    [type |-> "AppendEntries", src |-> s, dst |-> p, inc |-> incarnation[s],
     term |-> currentTerm[s], prevIndex |-> prev, prevTerm |-> log[s][at].term,
     entries |-> Suffix(log[s], at + 2), commit |-> commitIndex[s]]

AppendEntriesArgs(s, p, prev) ==
    LET at == PrevPos(log[s], prev) IN
    [type |-> "AppendEntries", src |-> s, dst |-> p, inc |-> incarnation[s],
     term |-> currentTerm[s], prevIndex |-> prev, prevTerm |-> log[s][at].term,
     entries |-> Suffix(log[s], at + 1), commit |-> commitIndex[s]]

InstallSnapshotArgs(s, p) ==
    [type |-> "InstallSnapshot", src |-> s, dst |-> p, inc |-> incarnation[s],
     term |-> currentTerm[s], lastIndex |-> FirstLog(log[s]).index,
     lastTerm |-> FirstLog(log[s]).term, data |-> saved[s].snapshot]

\* replicateOneRound up to the call.  A heartbeat and a replicator both run it,
\* so a leader may take it at any time.
ReplicateOneRound(s, p) ==
    LET prev == nextIndex[s][p] - 1 IN
    /\ state[s] = "LEADER"
    /\ p # s
    /\ Send(IF prev < FirstLog(log[s]).index THEN InstallSnapshotArgs(s, p)
                                             ELSE AppendEntriesArgs(s, p, prev))
    /\ UNCHANGED <<persistent, leaderVars, serviceVars, state, commitIndex,
                   incarnation, committed>>

AnswerAppend(m, term, success, conflict) ==
    Answer(m, [type |-> "AppendEntriesReply", src |-> m.dst, dst |-> m.src,
               term |-> term, success |-> success, conflict |-> conflict,
               aterm |-> m.term, prevIndex |-> m.prevIndex, count |-> Len(m.entries)])

\* A request of the server's term or a later one makes it a follower of the sender.
FollowLeader(s, term) ==
    /\ state' = [state EXCEPT ![s] = "FOLLOWER"]
    /\ currentTerm' = [currentTerm EXCEPT ![s] = term]
    /\ votedFor' = [votedFor EXCEPT ![s] = IF term > currentTerm[s] THEN None ELSE @]

\* AppendEntries, run by the follower.
AppendEntries(m) ==
    LET s == m.dst
        matched == IsLogMatched(log[s], m.prevTerm, m.prevIndex)
        merged == Merge(log[s], m.entries)
    IN
    /\ m.type = "AppendEntries"
    /\ \/ /\ m.term < currentTerm[s]
          /\ AnswerAppend(m, currentTerm[s], FALSE, NoConflict)
          /\ UNCHANGED <<persistent, state, commitIndex>>
       \/ /\ m.term >= currentTerm[s]
          /\ FollowLeader(s, m.term)
          /\ ~matched
          /\ UNCHANGED <<log, commitIndex>>
          /\ Persist(s)
          /\ AnswerAppend(m, m.term, FALSE, Conflict(log[s], m.prevIndex))
       \/ /\ m.term >= currentTerm[s]
          /\ FollowLeader(s, m.term)
          /\ matched
          /\ log' = [log EXCEPT ![s] = merged]
          /\ commitIndex' = [commitIndex EXCEPT ![s] =
                                FollowerCommit(merged, @, m.term, m.commit)]
          /\ Persist(s)
          /\ AnswerAppend(m, m.term, TRUE, NoConflict)
    /\ UNCHANGED <<leaderVars, serviceVars, incarnation, committed>>

\* Mutant of HasBeenAppendedMajority: entries of earlier terms count as well.
HasMajorityInAnyTerm(s, match, N) ==
    \/ N <= FirstLog(log[s]).index
    \/ IsMajority(Cardinality({p \in Server : match[p] >= N}))

\* Index N may be committed by leader s whose matchIndex is match.
HasBeenAppendedMajority(s, match, N) ==
    \/ N <= FirstLog(log[s]).index
    \/ /\ IsMajority(Cardinality({p \in Server : match[p] >= N}))
       /\ log[s][Pos(log[s], N)].term = currentTerm[s]

LeaderCommit(s, match) ==
    LET ready == {N \in commitIndex[s] + 1 .. LastLog(log[s]).index :
                     HasBeenAppendedMajority(s, match, N)}
    IN IF ready = {} THEN commitIndex[s] ELSE Max(ready)

\* A reply is current while its caller leads the term it called in.
IsCurrent(s, m) == m.aterm = currentTerm[s] /\ state[s] = "LEADER"

\* Mutant of MatchUpTo: takes the log's end now for what was sent then.
MatchUpToEnd(s, p, index) ==
    LET last == LastLog(log[s]).index IN
    /\ matchIndex' = [matchIndex EXCEPT ![s][p] = MaxInt(@, last)]
    /\ nextIndex' = [nextIndex EXCEPT ![s][p] = MaxInt(@, last + 1)]

MatchUpTo(s, p, index) ==
    /\ matchIndex' = [matchIndex EXCEPT ![s][p] = MaxInt(@, index)]
    /\ nextIndex' = [nextIndex EXCEPT ![s][p] = MaxInt(@, index + 1)]

\* handleReplicateOneRoundResponse.  A reply that is not current is dropped.
AppendEntriesReply(m) ==
    LET s == m.dst
        match == [matchIndex[s] EXCEPT ![m.src] = MaxInt(@, m.prevIndex + m.count)]
        ci == LeaderCommit(s, match)
    IN
    /\ m.type = "AppendEntriesReply"
    /\ IsCurrent(s, m)
    /\ \/ /\ m.term > currentTerm[s]
          /\ StepDown(s, m.term)
          /\ UNCHANGED <<nextIndex, matchIndex, commitIndex, committed>>
       \/ /\ m.term <= currentTerm[s]
          /\ m.success
          /\ MatchUpTo(s, m.src, m.prevIndex + m.count)
          /\ commitIndex' = [commitIndex EXCEPT ![s] = ci]
          /\ committed' = IF ci > MaxInt(commitIndex[s], Len(committed))
                          THEN SubSeq(Content(s), 1, ci) ELSE committed
          /\ UNCHANGED <<persistent, state>>
       \/ /\ m.term <= currentTerm[s]
          /\ ~m.success
          /\ ~BackoffPanics(log[s], m.conflict)
          /\ nextIndex' = [nextIndex EXCEPT ![s][m.src] = BackoffIndex(log[s], m.conflict)]
          /\ UNCHANGED <<persistent, state, matchIndex, commitIndex, committed>>
    /\ messages' \in Rest(m)
    /\ UNCHANGED <<votes, serviceVars, incarnation>>

-----------------------------------------------------------------------------
(* Applying entries, and snapshots.                                        *)

NeedApplyingLog(s) ==
    /\ commitIndex[s] > Len(applied[s])
    /\ Len(applied[s]) >= FirstLog(log[s]).index

\* One round of applier: the service gets the committed entries it has not got.
Apply(s) ==
    /\ NeedApplyingLog(s)
    /\ commitIndex[s] <= LastLog(log[s]).index    \* or the slice would panic
    /\ applied' = [applied EXCEPT ![s] =
           @ \o SubSeq(log[s], Pos(log[s], Len(@) + 1), Pos(log[s], commitIndex[s]))]
    /\ UNCHANGED <<persistent, leaderVars, pushing, state, commitIndex,
                   incarnation, messages, committed>>

\* The goroutine of readPersist or InstallSnapshot: the service restores the
\* snapshot unless it is already past it, and LastApplied is raised to it.
PushSnapshot(s, snapshot) ==
    /\ snapshot \in pushing[s]
    /\ pushing' = [pushing EXCEPT ![s] = @ \ {snapshot}]
    /\ applied' = [applied EXCEPT ![s] = IF Len(snapshot) > Len(@) THEN snapshot ELSE @]
    /\ UNCHANGED <<persistent, leaderVars, state, commitIndex, incarnation,
                   messages, committed>>

\* Snapshot, called by the service with its state after the entry at index.
Snapshot(s, index) ==
    /\ index \in FirstLog(log[s]).index + 1 .. Len(applied[s])
    /\ index <= LastLog(log[s]).index             \* or the slice would panic
    /\ log' = [log EXCEPT ![s] = Suffix(@, Pos(@, index))]
    /\ UNCHANGED <<currentTerm, votedFor>>
    /\ Save(s, SubSeq(applied[s], 1, index))
    /\ UNCHANGED <<leaderVars, serviceVars, state, commitIndex, incarnation,
                   messages, committed>>

AnswerInstall(m) ==
    Answer(m, [type |-> "InstallSnapshotReply", src |-> m.dst, dst |-> m.src,
               term |-> currentTerm[m.dst], aterm |-> m.term, lastIndex |-> m.lastIndex])

\* InstallSnapshot, run by the follower.
InstallSnapshot(m) ==
    LET s == m.dst
        old == m.lastIndex <= commitIndex[s] \/ m.lastIndex <= FirstLog(log[s]).index
    IN
    /\ m.type = "InstallSnapshot"
    /\ AnswerInstall(m)
    /\ \/ /\ m.term < currentTerm[s]
          /\ UNCHANGED <<persistent, state, commitIndex, pushing>>
       \/ /\ m.term >= currentTerm[s]
          /\ FollowLeader(s, m.term)
          /\ old
          /\ UNCHANGED <<log, commitIndex, pushing>>
          /\ IF m.term > currentTerm[s] THEN Persist(s) ELSE UNCHANGED saved
       \/ /\ m.term >= currentTerm[s]
          /\ FollowLeader(s, m.term)
          /\ ~old
          /\ log' = [log EXCEPT ![s] = AfterSnapshot(@, m.lastIndex, m.lastTerm)]
          /\ commitIndex' = [commitIndex EXCEPT ![s] = m.lastIndex]
          /\ Save(s, m.data)
          /\ pushing' = [pushing EXCEPT ![s] = @ \cup {m.data}]
    /\ UNCHANGED <<leaderVars, applied, incarnation, committed>>

\* handleInstallSnapshotResponse.  A reply that is not current is dropped.
InstallSnapshotReply(m) ==
    LET s == m.dst IN
    /\ m.type = "InstallSnapshotReply"
    /\ IsCurrent(s, m)
    /\ \/ /\ m.term > currentTerm[s]
          /\ StepDown(s, m.term)
          /\ UNCHANGED <<nextIndex, matchIndex>>
       \/ /\ m.term <= currentTerm[s]
          /\ MatchUpTo(s, m.src, m.lastIndex)
          /\ UNCHANGED <<persistent, state>>
    /\ messages' \in Rest(m)
    /\ UNCHANGED <<votes, commitIndex, serviceVars, incarnation, committed>>

-----------------------------------------------------------------------------

Init ==
    /\ currentTerm = [s \in Server |-> 0]
    /\ votedFor = [s \in Server |-> None]
    /\ log = [s \in Server |-> <<Sentinel>>]
    /\ saved = [s \in Server |-> [currentTerm |-> 0, votedFor |-> None,
                                  log |-> <<Sentinel>>, snapshot |-> <<>>]]
    /\ state = [s \in Server |-> "FOLLOWER"]
    /\ commitIndex = [s \in Server |-> 0]
    /\ applied = [s \in Server |-> <<>>]
    /\ pushing = [s \in Server |-> {}]
    /\ votes = [s \in Server |-> {}]
    /\ nextIndex = [s \in Server |-> [p \in Server |-> 1]]
    /\ matchIndex = [s \in Server |-> [p \in Server |-> 0]]
    /\ incarnation = [s \in Server |-> 0]
    /\ messages = {}
    /\ committed = <<>>

Next ==
    \/ \E s \in Server :
        \/ ElectionTimeout(s)
        \/ Restart(s)
        \/ Apply(s)
        \/ \E cmd \in Command : Start(s, cmd)
        \/ \E p \in Server : ReplicateOneRound(s, p)
        \/ \E snapshot \in pushing[s] : PushSnapshot(s, snapshot)
        \/ \E index \in 1 .. MaxSnapshotIndex : Snapshot(s, index)
    \/ \E m \in messages :
        \/ RequestVote(m)
        \/ RequestVoteReply(m)
        \/ AppendEntries(m)
        \/ AppendEntriesReply(m)
        \/ InstallSnapshot(m)
        \/ InstallSnapshotReply(m)
        \/ Lose(m)

Spec == Init /\ [][Next]_vars

-----------------------------------------------------------------------------
(* Properties.                                                             *)

RequestVoteRequest ==
    [type : {"RequestVote"}, src : Server, dst : Server, inc : Nat, term : Nat,
     lastIndex : Nat, lastTerm : Nat]
RequestVoteResult ==
    [type : {"RequestVoteReply"}, src : Server, dst : Server, term : Nat,
     granted : BOOLEAN, aterm : Nat]
AppendEntriesRequest ==
    [type : {"AppendEntries"}, src : Server, dst : Server, inc : Nat, term : Nat,
     prevIndex : Nat, prevTerm : Nat, entries : Seq(Entry), commit : Nat]
AppendEntriesResult ==
    [type : {"AppendEntriesReply"}, src : Server, dst : Server, term : Nat,
     success : BOOLEAN, conflict : ConflictReport, aterm : Nat,
     prevIndex : Nat, count : Nat]
InstallSnapshotRequest ==
    [type : {"InstallSnapshot"}, src : Server, dst : Server, inc : Nat, term : Nat,
     lastIndex : Nat, lastTerm : Nat, data : Seq(Entry)]
InstallSnapshotResult ==
    [type : {"InstallSnapshotReply"}, src : Server, dst : Server, term : Nat,
     aterm : Nat, lastIndex : Nat]
Message ==
    RequestVoteRequest \cup RequestVoteResult \cup AppendEntriesRequest
        \cup AppendEntriesResult \cup InstallSnapshotRequest \cup InstallSnapshotResult

Saved == [currentTerm : Nat, votedFor : Server \cup {None},
          log : Log, snapshot : Seq(Entry)]

\* Every variable keeps its type; a log is never empty, since getFirstLog and
\* getLastLog read it unconditionally.
TypeOK ==
    /\ currentTerm \in [Server -> Nat]
    /\ votedFor \in [Server -> Server \cup {None}]
    /\ log \in [Server -> Log]
    /\ saved \in [Server -> Saved]
    /\ state \in [Server -> {"FOLLOWER", "CANDIDATE", "LEADER"}]
    /\ commitIndex \in [Server -> Nat]
    /\ applied \in [Server -> Seq(Entry)]
    /\ pushing \in [Server -> SUBSET Seq(Entry)]
    /\ votes \in [Server -> SUBSET Server]
    /\ nextIndex \in [Server -> [Server -> Nat]]
    /\ matchIndex \in [Server -> [Server -> Nat]]
    /\ incarnation \in [Server -> Nat]
    /\ messages \subseteq Message
    /\ committed \in Seq(Entry)

\* Between two handlers the persister holds exactly the term, vote and log in
\* memory, so a crash at any point (cfg.crash1) loses none of them.
PersistedState ==
    \A s \in Server : /\ saved[s].currentTerm = currentTerm[s]
                      /\ saved[s].votedFor = votedFor[s]
                      /\ saved[s].log = log[s]

\* p has voted for s in the term, or has gone on to a later one.
VotedIn(p, s, term) ==
    term < currentTerm[p] \/ (term = currentTerm[p] /\ votedFor[p] = s)

GrantedVotes == {m \in messages : m.type = "RequestVoteReply" /\ m.granted}

\* Every vote that is counted, or on its way to the candidate of the current
\* term, was given by a server that gives no other in that term, whatever was
\* lost, delayed or restarted in between; a leader has a majority of them.
VoteInvariant ==
    /\ \A m \in messages : m.type = "RequestVote" =>
           /\ m.src # m.dst
           /\ m.term <= currentTerm[m.src]
           /\ m.term = currentTerm[m.src] => votedFor[m.src] = m.src
    /\ \A m \in GrantedVotes :
           /\ m.src # m.dst
           /\ VotedIn(m.src, m.dst, m.term)
           /\ m.term <= currentTerm[m.dst]
           /\ m.term = currentTerm[m.dst] => votedFor[m.dst] = m.dst
    /\ \A s \in Server : votedFor[s] = s =>
           \A p \in votes[s] : p # s /\ VotedIn(p, s, currentTerm[s])
    /\ \A s, t \in Server :
           s # t /\ votedFor[s] = s /\ votedFor[t] = t /\ currentTerm[s] = currentTerm[t]
               => votes[s] \cap votes[t] = {}
    /\ \A m \in GrantedVotes, s \in Server :
           votedFor[s] = s /\ m.term = currentTerm[s] /\ m.src \in votes[s] => m.dst = s
    /\ \A m, n \in GrantedVotes : m.src = n.src /\ m.term = n.term => m.dst = n.dst
    /\ \A s \in Server : state[s] = "LEADER" =>
           votedFor[s] = s /\ IsMajority(1 + Cardinality(votes[s]))

\* No term has two leaders (checkOneLeader's "term %d has %d (>1) leaders"),
\* although votes are counted without a look at the counter's own state.
ElectionSafety ==
    \A s, t \in Server :
        state[s] = "LEADER" /\ state[t] = "LEADER" /\ currentTerm[s] = currentTerm[t]
            => s = t

\* Two servers that hold an entry of the same index and term hold the same
\* entries up to it, snapshots included.
LogMatching ==
    \A s, t \in Server :
        \A i \in DOMAIN Content(s) \cap DOMAIN Content(t) :
            Content(s)[i].term = Content(t)[i].term
                => SubSeq(Content(s), 1, i) = SubSeq(Content(t), 1, i)

\* Slices are addressed by index - firstIndex everywhere: indices in a log are
\* consecutive from the snapshot's, terms are sorted and do not exceed the
\* server's, and the stored snapshot ends where the log starts.
LogShape ==
    \A s \in Server :
        /\ Contiguous(log[s])
        /\ Sorted(log[s])
        /\ LastLog(log[s]).term <= currentTerm[s]
        /\ Len(saved[s].snapshot) = FirstLog(log[s]).index

\* A request in flight continues the log it was cut from: its entries are
\* contiguous, sorted, and start no later than after prev; a snapshot covers
\* exactly the entries up to its last index.
RequestShape ==
    \A m \in messages :
        /\ m.type = "AppendEntries" =>
               /\ Contiguous(m.entries)
               /\ Sorted(m.entries)
               /\ \A k \in DOMAIN m.entries :
                      /\ m.entries[k].index <= m.prevIndex + k
                      /\ m.entries[k].term \in m.prevTerm .. m.term
        /\ m.type = "InstallSnapshot" =>
               Len(m.data) = m.lastIndex /\ m.lastTerm <= m.term

\* The leader of the latest term holds every entry that was ever committed,
\* also by leaders that have crashed since.
LeaderCompleteness ==
    \A s \in Server :
        state[s] = "LEADER" /\ (\A t \in Server : currentTerm[t] <= currentTerm[s])
            => IsPrefixOf(committed, Content(s))

\* What a server takes for committed was committed by a leader and is in its
\* log, and what its service got through applyCh, and stored in its snapshot,
\* is a prefix of it that the log or snapshot still holds.
CommittedAgreement ==
    \A s \in Server :
        /\ commitIndex[s] <= LastLog(log[s]).index
        /\ IsPrefixOf(SubSeq(Content(s), 1, commitIndex[s]), committed)
        /\ IsPrefixOf(applied[s], committed)
        /\ IsPrefixOf(applied[s], Content(s))
        /\ IsPrefixOf(saved[s].snapshot, committed)

\* A committed entry is never replaced: the committed log only grows.
CommittedStable == [][IsPrefixOf(committed, committed')]_committed

\* A leader's matchIndex is the truth about a peer that has not left its term:
\* the peer holds the leader's entries up to it.
MatchIndexTruthful ==
    \A s, p \in Server :
        state[s] = "LEADER" /\ currentTerm[p] <= currentTerm[s]
            => IsPrefixOf(SubSeq(Content(s), 1, matchIndex[s][p]), Content(p))
               /\ matchIndex[s][p] <= LastLog(log[s]).index

\* nextIndex of a leader points into its log or just past it, so that
\* createAppendEntriesArgs finds the previous entry or replicateOneRound sends
\* the snapshot.
NextIndexInRange ==
    \A s, p \in Server :
        state[s] = "LEADER" /\ p # s
            => nextIndex[s][p] \in 1 .. LastLog(log[s]).index + 1

\* A reported conflict never makes rf.Log[i] run off the log, and always moves
\* nextIndex back, to an index not below 1.
BackoffSound ==
    \A m \in {r \in messages : r.type = "AppendEntriesReply"} :
        IsCurrent(m.dst, m) /\ m.term = currentTerm[m.dst] /\ ~m.success
            => /\ ~BackoffPanics(log[m.dst], m.conflict)
               /\ BackoffIndex(log[m.dst], m.conflict) \in 1 .. m.prevIndex

=============================================================================
