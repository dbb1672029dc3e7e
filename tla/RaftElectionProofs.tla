-------------------------- MODULE RaftElectionProofs --------------------------
(***************************************************************************)
(* Election safety of Raft: VoteInvariant is inductive on top of the shape *)
(* invariant IInv, and two majorities of votes have a voter in common.     *)
(***************************************************************************)
EXTENDS RaftProofs

\* Every leaf is tried with Zenon for a moment, then with SMT, then with each of
\* them for longer.
USE ZenonT(2), SMTT(10), ZenonT(20), SMTT(40)

-----------------------------------------------------------------------------
(* The conjuncts of VoteInvariant.                                         *)

\* A candidate that asks for votes in its term has voted for itself.
CandidateVoted == \A m \in messages : m.type = "RequestVote" =>
    /\ m.src # m.dst
    /\ m.term <= currentTerm[m.src]
    /\ m.term = currentTerm[m.src] => votedFor[m.src] = m.src

\* A granted vote in flight was given, and is for a candidate of its term.
GrantedWasGiven == \A m \in GrantedVotes :
    /\ m.src # m.dst
    /\ VotedIn(m.src, m.dst, m.term)
    /\ m.term <= currentTerm[m.dst]
    /\ m.term = currentTerm[m.dst] => votedFor[m.dst] = m.dst

CountedWasGiven == \A s \in Server : votedFor[s] = s =>
    \A p \in votes[s] : p # s /\ VotedIn(p, s, currentTerm[s])

CountedOnce == \A s, t \in Server :
    s # t /\ votedFor[s] = s /\ votedFor[t] = t /\ currentTerm[s] = currentTerm[t]
        => votes[s] \cap votes[t] = {}

GrantedNotCountedElsewhere == \A m \in GrantedVotes, s \in Server :
    votedFor[s] = s /\ m.term = currentTerm[s] /\ m.src \in votes[s] => m.dst = s

GrantedOnce == \A m, n \in GrantedVotes : m.src = n.src /\ m.term = n.term => m.dst = n.dst

LeaderHasMajority == \A s \in Server : state[s] = "LEADER" =>
    votedFor[s] = s /\ IsMajority(1 + Cardinality(votes[s]))

\* VoteInvariant is the conjunction of the statements about votes above.
LEMMA VoteParts ==
  VoteInvariant <=> /\ CandidateVoted /\ GrantedWasGiven /\ CountedWasGiven /\ CountedOnce
                    /\ GrantedNotCountedElsewhere /\ GrantedOnce /\ LeaderHasMajority
  BY DEF VoteInvariant, CandidateVoted, GrantedWasGiven, CountedWasGiven, CountedOnce,
     GrantedNotCountedElsewhere, GrantedOnce, LeaderHasMajority

-----------------------------------------------------------------------------
(* Steps that start no candidacy and count no vote.                        *)

\* Server p goes to a later term, or stays and keeps the vote it has given.
KeepsVote(p) ==
    \/ currentTerm'[p] > currentTerm[p] /\ votedFor'[p] # p
    \/ /\ currentTerm'[p] = currentTerm[p]
       /\ votedFor'[p] = votedFor[p] \/ (votedFor[p] = None /\ votedFor'[p] # p)

\* Vote r, which the step grants, is the only one of its voter in its term.
GrantsVote(r) ==
    /\ r.src \in Server /\ r.dst \in Server /\ r.src # r.dst /\ r.term \in Nat
    /\ currentTerm'[r.src] = r.term /\ votedFor'[r.src] = r.dst
    /\ r.term <= currentTerm'[r.dst]
    /\ r.term = currentTerm'[r.dst] => votedFor'[r.dst] = r.dst
    /\ r.term = currentTerm[r.src] => votedFor[r.src] \in {None, r.dst}

\* The types the arguments about votes need.
LEMMA Types ==
  ASSUME IInv
  PROVE  /\ \A p \in Server : currentTerm[p] \in Nat /\ votedFor[p] \in Server \cup {None}
         /\ \A p \in Server : votes[p] \in SUBSET Server
         /\ \A m \in GrantedVotes : m.src \in Server /\ m.dst \in Server /\ m.term \in Nat
         /\ \A m \in messages : m.type = "RequestVote" =>
                m.src \in Server /\ m.dst \in Server /\ m.term \in Nat
  <1>1. \A p \in Server : currentTerm[p] \in Nat /\ votedFor[p] \in Server \cup {None}
    BY OneServer DEF IInv
  <1>2. \A p \in Server : votes[p] \in SUBSET Server
    BY DEF IInv, VolatileOK
  <1>3. ASSUME NEW m \in messages, m.type = "RequestVote"
        PROVE  m.src \in Server /\ m.dst \in Server /\ m.term \in Nat
    <2>1. m \in RequestVoteRequest
      BY <1>3, MessageKinds DEF IInv, MessagesOK
    <2> QED
      BY <2>1 DEF RequestVoteRequest
  <1>4. ASSUME NEW m \in GrantedVotes
        PROVE  m.src \in Server /\ m.dst \in Server /\ m.term \in Nat
    <2>1. m \in messages /\ m.type = "RequestVoteReply"
      BY <1>4 DEF GrantedVotes
    <2>2. m \in RequestVoteResult
      BY <2>1, MessageKinds DEF IInv, MessagesOK
    <2> QED
      BY <2>2 DEF RequestVoteResult
  <1> QED
    BY <1>1, <1>2, <1>3, <1>4

\* A vote, once given, stays given.
LEMMA VotedInStable ==
  ASSUME IInv, IInv', NEW p \in Server, KeepsVote(p),
         NEW s \in Server, NEW t \in Nat, VotedIn(p, s, t)
  PROVE  VotedIn(p, s, t)'
  <1>1. currentTerm[p] \in Nat /\ currentTerm'[p] \in Nat
    <2>1. (\A q \in Server : currentTerm[q] \in Nat)'
      BY DEF IInv, PersistentOK
    <2> QED
      BY <2>1, Types
  <1>2. s # None
    BY ServerAssumption
  <1> QED
    BY <1>1, <1>2 DEF KeepsVote, VotedIn

\* What a quiet step preserves, under the facts that make it quiet.
LEMMA QuietStep ==
  ASSUME IInv, IInv', VoteInvariant, NEW new,
         \A p \in Server : KeepsVote(p),
         \A p \in Server : votes'[p] \subseteq votes[p],
         \A p \in Server : state'[p] = "LEADER" =>
             /\ state[p] = "LEADER" /\ currentTerm'[p] = currentTerm[p]
             /\ votedFor'[p] = votedFor[p] /\ votes'[p] = votes[p],
         \A m \in messages' : m.type = "RequestVote" => m \in messages,
         GrantedVotes' \subseteq GrantedVotes \cup new,
         \A r \in new : GrantsVote(r),
         \A q, r \in new : q = r
  PROVE  VoteInvariant'
  <1> USE VoteParts
  <1>1. \A p \in Server : currentTerm[p] \in Nat /\ currentTerm'[p] \in Nat
    <2>1. (\A q \in Server : currentTerm[q] \in Nat)'
      BY DEF IInv, PersistentOK
    <2> QED
      BY <2>1, Types
  <1>2. None \notin Server
    BY ServerAssumption
  <1>3. ASSUME NEW s \in Server, votedFor'[s] = s
        PROVE  votedFor[s] = s /\ currentTerm'[s] = currentTerm[s]
    BY <1>1, <1>2, <1>3 DEF KeepsVote
  <1>4. ASSUME NEW r \in new, NEW s \in Server, VotedIn(r.src, s, r.term)
        PROVE  s = r.dst
    <2>1. r.src \in Server /\ r.term \in Nat /\ currentTerm'[r.src] = r.term
      BY DEF GrantsVote
    <2>2. r.term >= currentTerm[r.src]
      BY <1>1, <2>1 DEF KeepsVote
    <2>3. r.term = currentTerm[r.src] /\ votedFor[r.src] = s
      BY <1>1, <1>4, <2>1, <2>2 DEF VotedIn
    <2> QED
      BY <1>2, <2>3 DEF GrantsVote
  <1>5. CandidateVoted'
    <2> SUFFICES ASSUME NEW m \in messages', m.type = "RequestVote"
                 PROVE  /\ m.src # m.dst
                        /\ m.term <= currentTerm'[m.src]
                        /\ m.term = currentTerm'[m.src] => votedFor'[m.src] = m.src
      BY DEF CandidateVoted
    <2>1. m \in messages /\ m.src \in Server /\ m.term \in Nat
      BY Types
    <2>2. /\ m.src # m.dst /\ m.term <= currentTerm[m.src]
          /\ m.term = currentTerm[m.src] => votedFor[m.src] = m.src
      BY <2>1 DEF CandidateVoted
    <2> QED
      BY <1>1, <1>2, <2>1, <2>2 DEF KeepsVote
  <1>6. GrantedWasGiven'
    <2> SUFFICES ASSUME NEW m \in GrantedVotes'
                 PROVE  /\ m.src # m.dst
                        /\ VotedIn(m.src, m.dst, m.term)'
                        /\ m.term <= currentTerm'[m.dst]
                        /\ m.term = currentTerm'[m.dst] => votedFor'[m.dst] = m.dst
      BY DEF GrantedWasGiven
    <2>1. CASE m \in GrantedVotes
      <3>1. m.src \in Server /\ m.dst \in Server /\ m.term \in Nat
        BY <2>1, Types
      <3>2. /\ m.src # m.dst /\ VotedIn(m.src, m.dst, m.term)
            /\ m.term <= currentTerm[m.dst]
            /\ m.term = currentTerm[m.dst] => votedFor[m.dst] = m.dst
        BY <2>1 DEF GrantedWasGiven
      <3>3. VotedIn(m.src, m.dst, m.term)'
        BY <3>1, <3>2, VotedInStable
      <3> QED
        BY <1>1, <1>2, <3>1, <3>2, <3>3 DEF KeepsVote
    <2>2. CASE m \in new
      BY <2>2 DEF GrantsVote, VotedIn
    <2> QED
      BY <2>1, <2>2
  <1>7. CountedWasGiven'
    <2> SUFFICES ASSUME NEW s \in Server, votedFor'[s] = s, NEW p \in votes'[s]
                 PROVE  p # s /\ VotedIn(p, s, currentTerm[s])'
      BY DEF CountedWasGiven
    <2>1. p \in votes[s] /\ p \in Server
      BY Types
    <2>2. p # s /\ VotedIn(p, s, currentTerm[s])
      BY <1>3, <2>1 DEF CountedWasGiven
    <2>3. VotedIn(p, s, currentTerm[s])'
      BY <1>1, <1>2, <1>3, <2>1, <2>2 DEF KeepsVote, VotedIn
    <2> QED
      BY <2>2, <2>3
  <1>8. CountedOnce'
    BY <1>3 DEF CountedOnce
  <1>9. GrantedNotCountedElsewhere'
    <2> SUFFICES ASSUME NEW m \in GrantedVotes', NEW s \in Server,
                        votedFor'[s] = s, m.term = currentTerm'[s], m.src \in votes'[s]
                 PROVE  m.dst = s
      BY DEF GrantedNotCountedElsewhere
    <2>1. votedFor[s] = s /\ m.term = currentTerm[s] /\ m.src \in votes[s]
      BY <1>3
    <2>2. CASE m \in GrantedVotes
      BY <2>1, <2>2 DEF GrantedNotCountedElsewhere
    <2>3. CASE m \in new
      <3>1. VotedIn(m.src, s, m.term)
        BY <2>1 DEF CountedWasGiven
      <3> QED
        BY <1>4, <2>3, <3>1
    <2> QED
      BY <2>2, <2>3
  <1>10. GrantedOnce'
    <2> SUFFICES ASSUME NEW m \in GrantedVotes', NEW n \in GrantedVotes',
                        m.src = n.src, m.term = n.term
                 PROVE  m.dst = n.dst
      BY DEF GrantedOnce
    <2>1. ASSUME NEW a \in GrantedVotes, NEW b \in new, a.src = b.src, a.term = b.term
          PROVE  a.dst = b.dst
      <3>1. VotedIn(b.src, a.dst, b.term) /\ a.dst \in Server
        BY <2>1, Types DEF GrantedWasGiven
      <3> QED
        BY <1>4, <3>1
    <2>2. CASE m \in GrantedVotes /\ n \in GrantedVotes
      BY <2>2 DEF GrantedOnce
    <2>3. CASE m \in GrantedVotes /\ n \in new
      BY <2>1, <2>3
    <2>4. CASE m \in new /\ n \in GrantedVotes
      BY <2>1, <2>4
    <2>5. CASE m \in new /\ n \in new
      BY <2>5
    <2> QED
      BY <2>2, <2>3, <2>4, <2>5
  <1>11. LeaderHasMajority'
    BY DEF LeaderHasMajority
  <1> QED
    <2>1. (VoteInvariant <=> /\ CandidateVoted /\ GrantedWasGiven /\ CountedWasGiven /\ CountedOnce
                    /\ GrantedNotCountedElsewhere /\ GrantedOnce /\ LeaderHasMajority)'
      BY DEF VoteInvariant, CandidateVoted, GrantedWasGiven, CountedWasGiven, CountedOnce,
         GrantedNotCountedElsewhere, GrantedOnce, LeaderHasMajority
    <2> QED
      BY <1>5, <1>6, <1>7, <1>8, <1>9, <1>10, <1>11, <2>1

-----------------------------------------------------------------------------
(* The actions of replication and snapshots take no part in elections.     *)

QuietServers ==
    /\ \A p \in Server : KeepsVote(p)
    /\ \A p \in Server : votes'[p] \subseteq votes[p]
    /\ \A p \in Server : state'[p] = "LEADER" =>
           /\ state[p] = "LEADER" /\ currentTerm'[p] = currentTerm[p]
           /\ votedFor'[p] = votedFor[p] /\ votes'[p] = votes[p]

QuietMessages ==
    /\ \A m \in messages' : m.type = "RequestVote" => m \in messages
    /\ GrantedVotes' \subseteq GrantedVotes

\* A step that is quiet for all servers and messages keeps VoteInvariant.
LEMMA Quiet ==
  ASSUME IInv, IInv', VoteInvariant, QuietServers, QuietMessages
  PROVE  VoteInvariant'
  <1> DEFINE new == {}
  <1>1. GrantedVotes' \subseteq GrantedVotes \cup new
    BY DEF QuietMessages
  <1>2. (\A r \in new : GrantsVote(r)) /\ \A q, r \in new : q = r
    OBVIOUS
  <1> HIDE DEF new
  <1> QED
    BY <1>1, <1>2, QuietStep DEF QuietServers, QuietMessages

\* A step that leaves terms, votes and roles alone is quiet for the servers.
LEMMA SameServers ==
  ASSUME UNCHANGED <<currentTerm, votedFor, votes, state>>
  PROVE  QuietServers
  BY DEF QuietServers, KeepsVote

\* Server s becomes a follower, without a vote if the term is new.
LEMMA NewFollower ==
  ASSUME IInv, NEW s \in Server, NEW t \in Nat, UNCHANGED votes,
         currentTerm' = [currentTerm EXCEPT ![s] = t],
         state' = [state EXCEPT ![s] = "FOLLOWER"],
         \/ votedFor' = [votedFor EXCEPT ![s] = None] /\ t > currentTerm[s]
         \/ votedFor' = votedFor /\ t = currentTerm[s]
  PROVE  QuietServers
  <1>1. currentTerm \in [Server -> Nat] /\ votedFor \in [Server -> Server \cup {None}]
    BY DEF IInv, PersistentOK
  <1>2. DOMAIN state = Server
    BY DEF IInv, VolatileOK
  <1>3. s # None
    BY ServerAssumption
  <1>4. KeepsVote(s)
    BY <1>1, <1>3 DEF KeepsVote
  <1>5. \A p \in Server \ {s} : /\ currentTerm'[p] = currentTerm[p]
                                /\ votedFor'[p] = votedFor[p]
                                /\ state'[p] = state[p]
    BY <1>1, <1>2
  <1>6. state'[s] = "FOLLOWER"
    BY <1>2
  <1> QED
    BY <1>4, <1>5, <1>6 DEF QuietServers, KeepsVote

\* FollowLeader is quiet for the servers.
LEMMA FollowLeaderServers ==
  ASSUME IInv, NEW s \in Server, NEW t \in Nat, UNCHANGED votes,
         FollowLeader(s, t), t >= currentTerm[s]
  PROVE  QuietServers
  <1>1. currentTerm[s] \in Nat
    BY Types
  <1>2. \/ votedFor' = [votedFor EXCEPT ![s] = None] /\ t > currentTerm[s]
        \/ votedFor' = votedFor /\ t = currentTerm[s]
    <2>1. votedFor \in [Server -> Server \cup {None}]
      BY DEF IInv, PersistentOK
    <2>2. CASE t > currentTerm[s]
      BY <2>2 DEF FollowLeader
    <2>3. CASE ~(t > currentTerm[s])
      <3>1. votedFor' = votedFor
        BY <2>1, <2>3 DEF FollowLeader
      <3>2. t = currentTerm[s]
        BY <1>1, <2>3
      <3> QED
        BY <3>1, <3>2
    <2> QED
      BY <2>2, <2>3
  <1> QED
    BY <1>2, NewFollower DEF FollowLeader

\* StepDown is quiet for the servers.
LEMMA StepDownServers ==
  ASSUME IInv, NEW s \in Server, NEW t \in Nat, UNCHANGED votes,
         StepDown(s, t), t > currentTerm[s]
  PROVE  QuietServers
  BY NewFollower DEF StepDown

\* A step that only takes messages away is quiet for the messages.
LEMMA FewerMessages ==
  ASSUME messages' \subseteq messages
  PROVE  QuietMessages
  BY DEF QuietMessages, GrantedVotes

\* Sending a replication message is quiet for the messages.
LEMMA ReplicationMessage ==
  ASSUME NEW r, r.type \in Replication, messages' \subseteq messages \cup {r}
  PROVE  QuietMessages
  <1>1. r.type # "RequestVote" /\ r.type # "RequestVoteReply"
    BY DEF Replication
  <1> QED
    BY <1>1 DEF QuietMessages, GrantedVotes

\* Answering a replication request is quiet for the messages.
LEMMA AnswerQuiet ==
  ASSUME NEW m \in messages, NEW r, r.type \in Replication, Answer(m, r)
  PROVE  QuietMessages
  <1>1. PICK rest \in Rest(m) : messages' \in {rest, Add(rest, r)}
    BY DEF Answer
  <1>2. rest \subseteq messages
    BY <1>1 DEF Rest
  <1>3. messages' \subseteq messages \cup {r}
    BY <1>1, <1>2, AddSubset
  <1> QED
    BY <1>3, ReplicationMessage

\* AppendEntries neither grants nor counts a vote.
LEMMA AppendEntriesQuiet ==
  ASSUME IInv, NEW m \in messages, AppendEntries(m)
  PROVE  QuietServers /\ QuietMessages
  <1>1. m \in AppendEntriesRequest
    BY MessageKinds DEF IInv, MessagesOK, AppendEntries
  <1>2. m.dst \in Server /\ m.term \in Nat
    BY <1>1 DEF AppendEntriesRequest
  <1>3. UNCHANGED votes
    BY DEF AppendEntries, leaderVars
  <1>4. QuietServers
    <2>1. CASE UNCHANGED <<persistent, state>>
      BY <1>3, <2>1, SameServers DEF persistent
    <2>2. CASE FollowLeader(m.dst, m.term) /\ m.term >= currentTerm[m.dst]
      BY <1>2, <1>3, <2>2, FollowLeaderServers
    <2> QED
      BY <2>1, <2>2 DEF AppendEntries
  <1>5. \E t, b, c : AnswerAppend(m, t, b, c)
    BY DEF AppendEntries
  <1>6. PICK r : r.type = "AppendEntriesReply" /\ Answer(m, r)
    BY <1>5 DEF AnswerAppend
  <1>7. QuietMessages
    BY <1>6, AnswerQuiet DEF Replication
  <1> QED
    BY <1>4, <1>7

\* InstallSnapshot neither grants nor counts a vote.
LEMMA InstallSnapshotQuiet ==
  ASSUME IInv, NEW m \in messages, InstallSnapshot(m)
  PROVE  QuietServers /\ QuietMessages
  <1>1. m \in InstallSnapshotRequest
    BY MessageKinds DEF IInv, MessagesOK, InstallSnapshot
  <1>2. m.dst \in Server /\ m.term \in Nat
    BY <1>1 DEF InstallSnapshotRequest
  <1>3. UNCHANGED votes
    BY DEF InstallSnapshot, leaderVars
  <1>4. QuietServers
    <2>1. CASE UNCHANGED <<persistent, state>>
      BY <1>3, <2>1, SameServers DEF persistent
    <2>2. CASE FollowLeader(m.dst, m.term) /\ m.term >= currentTerm[m.dst]
      BY <1>2, <1>3, <2>2, FollowLeaderServers
    <2> QED
      BY <2>1, <2>2 DEF InstallSnapshot
  <1>5. PICK r : r.type = "InstallSnapshotReply" /\ Answer(m, r)
    BY DEF InstallSnapshot, AnswerInstall
  <1>6. QuietMessages
    BY <1>5, AnswerQuiet DEF Replication
  <1> QED
    BY <1>4, <1>6

\* handleReplicateOneRoundResponse neither grants nor counts a vote.
LEMMA AppendEntriesReplyQuiet ==
  ASSUME IInv, NEW m \in messages, AppendEntriesReply(m) \/ InstallSnapshotReply(m)
  PROVE  QuietServers /\ QuietMessages
  <1>1. m.dst \in Server /\ m.term \in Nat
    BY MessageKinds DEF IInv, MessagesOK, AppendEntriesReply, InstallSnapshotReply,
       AppendEntriesResult, InstallSnapshotResult
  <1>2. UNCHANGED votes /\ messages' \subseteq messages
    BY DEF AppendEntriesReply, InstallSnapshotReply, Rest
  <1>3. CASE StepDown(m.dst, m.term) /\ m.term > currentTerm[m.dst]
    BY <1>1, <1>2, <1>3, StepDownServers, FewerMessages
  <1>4. CASE UNCHANGED <<persistent, state>>
    BY <1>2, <1>4, SameServers, FewerMessages DEF persistent
  <1> QED
    BY <1>3, <1>4 DEF AppendEntriesReply, InstallSnapshotReply

\* replicateOneRound neither grants nor counts a vote.
LEMMA ReplicateOneRoundQuiet ==
  ASSUME IInv, NEW s \in Server, NEW p \in Server, ReplicateOneRound(s, p)
  PROVE  QuietServers /\ QuietMessages
  <1>1. PICK r : r.type \in Replication /\ Send(r)
    <2>1. \A prev : AppendEntriesArgs(s, p, prev).type \in Replication
      BY DEF AppendEntriesArgs, Replication
    <2>2. InstallSnapshotArgs(s, p).type \in Replication
      BY DEF InstallSnapshotArgs, Replication
    <2>3. CASE nextIndex[s][p] - 1 < FirstLog(log[s]).index
      BY <2>2, <2>3 DEF ReplicateOneRound
    <2>4. CASE ~(nextIndex[s][p] - 1 < FirstLog(log[s]).index)
      BY <2>1, <2>4 DEF ReplicateOneRound
    <2> QED
      BY <2>3, <2>4
  <1>2. messages' \subseteq messages \cup {r}
    BY <1>1, AddSubset DEF Send
  <1> QED
    BY <1>1, <1>2, ReplicationMessage, SameServers
       DEF ReplicateOneRound, persistent, leaderVars

\* The persisted term and vote come back; the votes of the candidacy are gone.
LEMMA RestartQuiet ==
  ASSUME IInv, NEW s \in Server, Restart(s)
  PROVE  QuietServers /\ QuietMessages
  <1>1. saved[s].currentTerm = currentTerm[s] /\ saved[s].votedFor = votedFor[s]
    BY OneServer DEF IInv
  <1>2. currentTerm' = currentTerm /\ votedFor' = votedFor
    BY <1>1 DEF Restart, IInv, PersistentOK
  <1>3. \A p \in Server : votes'[p] = IF p = s THEN {} ELSE votes[p]
    BY DEF Restart, IInv, VolatileOK
  <1>4. \A p \in Server : state'[p] = IF p = s THEN "FOLLOWER" ELSE state[p]
    BY DEF Restart, IInv, VolatileOK
  <1>5. messages' \subseteq messages
    BY DEF Restart
  <1> QED
    BY <1>2, <1>3, <1>4, <1>5, FewerMessages DEF QuietServers, KeepsVote

-----------------------------------------------------------------------------
(* Elections.                                                              *)

\* VoteInvariant in the next state, from its conjuncts there.
LEMMA VotePartsNext ==
  ASSUME CandidateVoted', GrantedWasGiven', CountedWasGiven', CountedOnce',
         GrantedNotCountedElsewhere', GrantedOnce', LeaderHasMajority'
  PROVE  VoteInvariant'
  BY DEF VoteInvariant, CandidateVoted, GrantedWasGiven, CountedWasGiven, CountedOnce,
     GrantedNotCountedElsewhere, GrantedOnce, LeaderHasMajority

\* A new candidacy starts in a term in which s has neither given nor got a vote.
LEMMA ElectionTimeoutVotes ==
  ASSUME IInv, VoteInvariant, NEW s \in Server, ElectionTimeout(s)
  PROVE  VoteInvariant'
  <1> USE VoteParts
  <1>1. \A p \in Server : currentTerm[p] \in Nat
    BY Types
  <1>2. /\ currentTerm'[s] = currentTerm[s] + 1 /\ votedFor'[s] = s
        /\ votes'[s] = {} /\ state'[s] = "CANDIDATE"
        /\ \A p \in Server \ {s} : /\ currentTerm'[p] = currentTerm[p]
                                   /\ votedFor'[p] = votedFor[p]
                                   /\ votes'[p] = votes[p]
                                   /\ state'[p] = state[p]
    BY DEF ElectionTimeout, IInv, PersistentOK, VolatileOK
  <1>3. GrantedVotes' = GrantedVotes
    <2>1. \A m \in messages' \ messages : m.type = "RequestVote"
      BY DEF ElectionTimeout
    <2>2. messages \subseteq messages'
      BY DEF ElectionTimeout
    <2> QED
      BY <2>1, <2>2 DEF GrantedVotes
  <1>4. ASSUME NEW p \in Server, NEW q \in Server, NEW t \in Nat, VotedIn(p, q, t)
        PROVE  VotedIn(p, q, t)'
    BY <1>1, <1>2, <1>4 DEF VotedIn
  <1>5. CandidateVoted'
    <2> SUFFICES ASSUME NEW m \in messages', m.type = "RequestVote"
                 PROVE  /\ m.src # m.dst
                        /\ m.term <= currentTerm'[m.src]
                        /\ m.term = currentTerm'[m.src] => votedFor'[m.src] = m.src
      BY DEF CandidateVoted
    <2>1. CASE m \in messages
      <3>1. m.src \in Server /\ m.term \in Nat
        BY <2>1, Types
      <3>2. /\ m.src # m.dst /\ m.term <= currentTerm[m.src]
            /\ m.term = currentTerm[m.src] => votedFor[m.src] = m.src
        BY <2>1 DEF CandidateVoted
      <3> QED
        BY <1>1, <1>2, <3>1, <3>2
    <2>2. CASE m \notin messages
      <3>1. m.src = s /\ m.dst # s /\ m.term = currentTerm[s] + 1
        BY <2>2 DEF ElectionTimeout
      <3> QED
        BY <1>1, <1>2, <3>1
    <2> QED
      BY <2>1, <2>2
  <1>6. GrantedWasGiven'
    <2> SUFFICES ASSUME NEW m \in GrantedVotes
                 PROVE  /\ m.src # m.dst
                        /\ VotedIn(m.src, m.dst, m.term)'
                        /\ m.term <= currentTerm'[m.dst]
                        /\ m.term = currentTerm'[m.dst] => votedFor'[m.dst] = m.dst
      BY <1>3 DEF GrantedWasGiven
    <2>1. m.src \in Server /\ m.dst \in Server /\ m.term \in Nat
      BY Types
    <2>2. /\ m.src # m.dst /\ VotedIn(m.src, m.dst, m.term)
          /\ m.term <= currentTerm[m.dst]
          /\ m.term = currentTerm[m.dst] => votedFor[m.dst] = m.dst
      BY DEF GrantedWasGiven
    <2>3. VotedIn(m.src, m.dst, m.term)'
      BY <1>4, <2>1, <2>2
    <2> QED
      BY <1>1, <1>2, <2>1, <2>2, <2>3
  <1>7. CountedWasGiven'
    <2> SUFFICES ASSUME NEW t \in Server, votedFor'[t] = t, NEW p \in votes'[t]
                 PROVE  p # t /\ VotedIn(p, t, currentTerm[t])'
      BY DEF CountedWasGiven
    <2>1. t # s /\ p \in votes[t] /\ votedFor[t] = t /\ currentTerm'[t] = currentTerm[t]
      BY <1>2
    <2>2. p # t /\ VotedIn(p, t, currentTerm[t]) /\ p \in Server
      BY <2>1, Types DEF CountedWasGiven
    <2>3. VotedIn(p, t, currentTerm[t])'
      BY <1>1, <1>2, <2>1, <2>2 DEF VotedIn
    <2> QED
      BY <2>2, <2>3
  <1>8. CountedOnce'
    BY <1>2 DEF CountedOnce
  <1>9. GrantedNotCountedElsewhere'
    BY <1>2, <1>3 DEF GrantedNotCountedElsewhere
  <1>10. GrantedOnce'
    BY <1>3 DEF GrantedOnce
  <1>11. LeaderHasMajority'
    BY <1>2 DEF LeaderHasMajority
  <1> QED
    BY <1>5, <1>6, <1>7, <1>8, <1>9, <1>10, <1>11, VotePartsNext

\* A voter that grants a vote has given none in the term, or this one.
LEMMA RequestVoteVotes ==
  ASSUME IInv, IInv', VoteInvariant, NEW m \in messages, RequestVote(m)
  PROVE  VoteInvariant'
  <1> USE VoteParts
  <1> DEFINE s == m.dst
             newer == m.term > currentTerm[s]
             granted == IsLogUpToDate(log[s], m.lastTerm, m.lastIndex)
             r == [type |-> "RequestVoteReply", src |-> m.dst, dst |-> m.src,
                   term |-> m.term, granted |-> TRUE, aterm |-> m.term]
  <1>1. m.type = "RequestVote" /\ m.src \in Server /\ s \in Server /\ m.term \in Nat
    BY Types DEF RequestVote
  <1>2. /\ m.src # s /\ m.term <= currentTerm[m.src]
        /\ m.term = currentTerm[m.src] => votedFor[m.src] = m.src
    BY <1>1 DEF CandidateVoted
  <1>3. currentTerm[s] \in Nat /\ votedFor[s] \in Server \cup {None} /\ s # None /\ m.src # None
    BY <1>1, Types, ServerAssumption
  <1>4. UNCHANGED votes
    BY DEF RequestVote, leaderVars
  <1>5. ASSUME NEW t, NEW g \in BOOLEAN, AnswerVote(m, t, g)
        PROVE  /\ \A n \in messages' : n.type = "RequestVote" => n \in messages
               /\ \A n \in messages' \ messages : /\ n.type = "RequestVoteReply"
                                                  /\ n.granted = g /\ n.term = t
                                                  /\ n.src = s /\ n.dst = m.src
    BY <1>5 DEF AnswerVote
  <1>6. CASE RefusesVote(s, m)
    <2>1. AnswerVote(m, 0, FALSE) /\ UNCHANGED <<persistent, state>>
      BY <1>6 DEF RequestVote
    <2>2. QuietServers
      BY <1>4, <2>1, SameServers DEF persistent
    <2>3. QuietMessages
      <3>1. \A n \in messages' \ messages : ~n.granted
        BY <1>5, <2>1
      <3> QED
        BY <1>5, <2>1, <3>1 DEF QuietMessages, GrantedVotes
    <2> QED
      BY <2>2, <2>3, Quiet
  <1>7. CASE ~RefusesVote(s, m)
    <2> DEFINE v == IF granted THEN m.src ELSE IF newer THEN None ELSE votedFor[s]
    <2>1. /\ currentTerm' = [currentTerm EXCEPT ![s] = m.term]
          /\ votedFor' = [votedFor EXCEPT ![s] = v]
          /\ state' = [state EXCEPT ![s] = IF newer THEN "FOLLOWER" ELSE @]
          /\ AnswerVote(m, m.term, granted)
      BY <1>7 DEF RequestVote
    <2>2. /\ currentTerm'[s] = m.term /\ votedFor'[s] = v
          /\ state'[s] = IF newer THEN "FOLLOWER" ELSE state[s]
          /\ \A p \in Server \ {s} : /\ currentTerm'[p] = currentTerm[p]
                                     /\ votedFor'[p] = votedFor[p]
                                     /\ state'[p] = state[p]
      BY <1>1, <2>1 DEF IInv, PersistentOK, VolatileOK
    <2>3. /\ m.term >= currentTerm[s]
          /\ m.term = currentTerm[s] => votedFor[s] \in {None, m.src}
      BY <1>1, <1>3, <1>7 DEF RefusesVote
    <2>4. /\ newer => v # s
          /\ ~newer => m.term = currentTerm[s] /\ (v = votedFor[s] \/ (votedFor[s] = None /\ v # s))
      BY <1>1, <1>2, <1>3, <2>3
    <2>5. granted \in BOOLEAN
      BY DEF IsLogUpToDate
    <2> HIDE DEF v
    <2>6. \A p \in Server : KeepsVote(p)
      BY <1>1, <1>3, <2>2, <2>4 DEF KeepsVote
    <2>7. \A p \in Server : state'[p] = "LEADER" =>
              /\ state[p] = "LEADER" /\ currentTerm'[p] = currentTerm[p]
              /\ votedFor'[p] = votedFor[p] /\ votes'[p] = votes[p]
      <3>1. CASE newer
        BY <1>4, <2>2, <3>1
      <3>2. CASE ~newer
        <4>1. state[s] = "LEADER" => votedFor[s] = s
          BY <1>1 DEF LeaderHasMajority
        <4> QED
          BY <1>3, <1>4, <2>2, <2>4, <3>2, <4>1
      <3> QED
        BY <3>1, <3>2
    <2>8. CASE ~granted
      <3>1. QuietServers
        BY <1>4, <2>6, <2>7 DEF QuietServers
      <3>2. QuietMessages
        <4>1. \A n \in messages' \ messages : ~n.granted
          BY <1>5, <2>1, <2>5, <2>8
        <4> QED
          BY <1>5, <2>1, <2>5, <4>1 DEF QuietMessages, GrantedVotes
      <3> QED
        BY <3>1, <3>2, Quiet
    <2>9. CASE granted
      <3> DEFINE new == {r}
      <3>1. GrantsVote(r)
        <4>1. v = m.src
          BY <2>9 DEF v
        <4>2. /\ currentTerm'[m.src] = currentTerm[m.src] /\ votedFor'[m.src] = votedFor[m.src]
          BY <1>1, <1>2, <2>2
        <4>3. r.src = s /\ r.dst = m.src /\ r.term = m.term
          OBVIOUS
        <4> HIDE DEF r
        <4>4. /\ s \in Server /\ m.src \in Server /\ s # m.src /\ m.term \in Nat
              /\ currentTerm'[s] = m.term /\ votedFor'[s] = m.src
          BY <1>1, <1>2, <2>2, <4>1
        <4>5. /\ m.term <= currentTerm'[m.src]
              /\ m.term = currentTerm'[m.src] => votedFor'[m.src] = m.src
          BY <1>2, <4>2
        <4>6. m.term = currentTerm[s] => votedFor[s] \in {None, m.src}
          BY <2>3
        <4> HIDE DEF s
        <4> QED
          BY <4>3, <4>4, <4>5, <4>6 DEF GrantsVote
      <3>2. \A n \in messages' : n.type = "RequestVote" => n \in messages
        BY <1>5, <2>1, <2>5
      <3>3. GrantedVotes' \subseteq GrantedVotes \cup new
        <4>1. messages' \subseteq messages \cup new
          <5>1. granted = TRUE
            BY <2>5, <2>9
          <5> QED
            BY <2>1, <5>1 DEF AnswerVote
        <4> QED
          BY <4>1 DEF GrantedVotes
      <3> HIDE DEF r
      <3>4. (\A q \in new : GrantsVote(q)) /\ \A p, q \in new : p = q
        BY <3>1
      <3> HIDE DEF new
      <3> QED
        BY <1>4, <2>6, <2>7, <3>2, <3>3, <3>4, QuietStep
    <2> QED
      BY <2>8, <2>9
  <1> QED
    BY <1>6, <1>7

\* More votes are a majority if fewer are.
LEMMA MajorityGrows ==
  ASSUME NEW A \in SUBSET Server, NEW B \in SUBSET Server, A \subseteq B,
         IsMajority(1 + Cardinality(A))
  PROVE  IsMajority(1 + Cardinality(B))
  <1>1. IsFiniteSet(Server) /\ IsFiniteSet(B)
    BY ServerAssumption, FS_Subset
  <1>2. Cardinality(A) \in Nat /\ Cardinality(B) \in Nat /\ Cardinality(A) <= Cardinality(B)
    BY <1>1, FS_Subset, FS_CardinalityType
  <1>3. PICK h \in Nat : h = Cardinality(Server) \div 2
    BY <1>1, FS_CardinalityType
  <1> QED
    BY <1>2, <1>3 DEF IsMajority

\* A vote is counted for the candidate it was given to, and for no other.
LEMMA RequestVoteReplyVotes ==
  ASSUME IInv, IInv', VoteInvariant, NEW m \in messages, RequestVoteReply(m)
  PROVE  VoteInvariant'
  <1> USE VoteParts
  <1> DEFINE s == m.dst
             counted == votes[s] \cup {m.src}
             counts == m.term = currentTerm[s] /\ m.granted
             wins == counts /\ IsMajority(1 + Cardinality(counted)) /\ state[s] # "LEADER"
  <1>0. m \in RequestVoteResult /\ m.type = "RequestVoteReply"
    BY MessageKinds DEF IInv, MessagesOK, RequestVoteReply
  <1>1. m.src \in Server /\ s \in Server /\ m.term \in Nat /\ m.granted \in BOOLEAN
    BY <1>0 DEF RequestVoteResult
  <1>2. messages' = messages \ {m}
    BY DEF RequestVoteReply
  <1>3. QuietMessages
    BY <1>2, FewerMessages
  <1>4. CASE m.term > currentTerm[s]
    <2>1. StepDown(s, m.term) /\ UNCHANGED votes
      BY <1>4 DEF RequestVoteReply, leaderVars
    <2> QED
      BY <1>1, <1>3, <1>4, <2>1, StepDownServers, Quiet
  <1>5. CASE ~(m.term > currentTerm[s]) /\ ~counts
    <2>1. UNCHANGED persistent /\ UNCHANGED <<state, nextIndex, matchIndex>>
      BY <1>5 DEF RequestVoteReply
    <2>2. votes' = [votes EXCEPT ![s] = votes[s]]
      BY <1>5 DEF RequestVoteReply
    <2>3. votes' = votes
      BY <1>1, <2>2 DEF IInv, VolatileOK
    <2> QED
      BY <1>3, <2>1, <2>3, SameServers, Quiet DEF persistent
  <1>6. CASE ~(m.term > currentTerm[s]) /\ counts
    <2>1. UNCHANGED <<currentTerm, votedFor>>
      BY <1>6 DEF RequestVoteReply, persistent
    <2>2. votes' = [votes EXCEPT ![s] = counted]
      BY <1>6 DEF RequestVoteReply
    <2>3. votes'[s] = counted /\ \A p \in Server \ {s} : votes'[p] = votes[p]
      BY <1>1, <2>2 DEF IInv, VolatileOK
    <2>4. m \in GrantedVotes
      BY <1>0, <1>6 DEF GrantedVotes
    <2>5. m.src # s /\ VotedIn(m.src, s, currentTerm[s]) /\ votedFor[s] = s
      BY <1>6, <2>4 DEF GrantedWasGiven
    <2>6. GrantedVotes' \subseteq GrantedVotes
      BY <1>3 DEF QuietMessages
    <2>7. CandidateVoted'
      BY <1>2, <2>1 DEF CandidateVoted
    <2>8. GrantedWasGiven'
      BY <2>1, <2>6 DEF GrantedWasGiven, VotedIn
    <2>9. CountedWasGiven'
      BY <2>1, <2>3, <2>5 DEF CountedWasGiven, VotedIn
    <2>10. CountedOnce'
      <3>1. ASSUME NEW t \in Server, t # s, votedFor[t] = t, currentTerm[t] = currentTerm[s]
            PROVE  counted \cap votes[t] = {}
        <4>1. m.src \notin votes[t]
          BY <1>6, <2>4, <3>1 DEF GrantedNotCountedElsewhere
        <4>2. votes[s] \cap votes[t] = {}
          BY <1>1, <2>5, <3>1 DEF CountedOnce
        <4> QED
          BY <4>1, <4>2
      <3> SUFFICES ASSUME NEW a \in Server, NEW b \in Server, a # b,
                          votedFor[a] = a, votedFor[b] = b, currentTerm[a] = currentTerm[b]
                   PROVE  votes'[a] \cap votes'[b] = {}
        BY <2>1 DEF CountedOnce
      <3>2. CASE a = s
        BY <2>3, <3>1, <3>2
      <3>3. CASE b = s
        BY <2>3, <3>1, <3>3
      <3>4. CASE a # s /\ b # s
        BY <2>3, <3>4 DEF CountedOnce
      <3> QED
        BY <3>2, <3>3, <3>4
    <2>11. GrantedNotCountedElsewhere'
      <3> SUFFICES ASSUME NEW n \in GrantedVotes, NEW t \in Server,
                          votedFor[t] = t, n.term = currentTerm[t], n.src \in votes'[t]
                   PROVE  n.dst = t
        BY <2>1, <2>6 DEF GrantedNotCountedElsewhere
      <3>1. CASE n.src \in votes[t]
        BY <3>1 DEF GrantedNotCountedElsewhere
      <3>2. CASE n.src \notin votes[t]
        <4>1. t = s /\ n.src = m.src
          BY <2>3, <3>2
        <4> QED
          BY <1>6, <2>4, <4>1 DEF GrantedOnce
      <3> QED
        BY <3>1, <3>2
    <2>12. GrantedOnce'
      BY <2>6 DEF GrantedOnce
    <2>13. LeaderHasMajority'
      <3> SUFFICES ASSUME NEW t \in Server, state'[t] = "LEADER"
                   PROVE  votedFor[t] = t /\ IsMajority(1 + Cardinality(votes'[t]))
        BY <2>1 DEF LeaderHasMajority, IsMajority
      <3>1. (wins /\ state' = [state EXCEPT ![s] = "LEADER"]) \/ UNCHANGED state
        BY <1>6 DEF RequestVoteReply, BecomeLeader
      <3>2. CASE state[t] = "LEADER"
        <4>1. votedFor[t] = t /\ IsMajority(1 + Cardinality(votes[t]))
          BY <3>2 DEF LeaderHasMajority
        <4>2. votes[t] \subseteq votes'[t] /\ votes[t] \in SUBSET Server /\ votes'[t] \in SUBSET Server
          BY <1>1, <2>3 DEF IInv, VolatileOK
        <4> QED
          BY <4>1, <4>2, MajorityGrows
      <3>3. CASE state[t] # "LEADER"
        <4>1. wins /\ t = s
          BY <3>1, <3>3 DEF IInv, VolatileOK
        <4> QED
          BY <2>3, <2>5, <4>1
      <3> QED
        BY <3>2, <3>3
    <2> QED
      BY <2>7, <2>8, <2>9, <2>10, <2>11, <2>12, <2>13, VotePartsNext
  <1> QED
    BY <1>4, <1>5, <1>6

\* No votes are given at first.
LEMMA VoteInit == Init => VoteInvariant
  BY ServerAssumption DEF Init, VoteInvariant, GrantedVotes

\* Every step keeps VoteInvariant.
LEMMA VoteNext == IInv /\ IInv' /\ VoteInvariant /\ [Next]_vars => VoteInvariant'
  <1> SUFFICES ASSUME IInv, IInv', VoteInvariant, [Next]_vars PROVE VoteInvariant'
    OBVIOUS
  <1>1. CASE UNCHANGED vars
    <2>1. QuietServers /\ QuietMessages
      BY <1>1, SameServers, FewerMessages DEF vars
    <2> QED
      BY <2>1, Quiet
  <1>2. ASSUME NEW s \in Server, ElectionTimeout(s) PROVE VoteInvariant'
    BY <1>2, ElectionTimeoutVotes
  <1>3. ASSUME NEW s \in Server, Restart(s) PROVE VoteInvariant'
    BY <1>3, RestartQuiet, Quiet
  <1>4. ASSUME NEW s \in Server,
               \/ Apply(s)
               \/ \E cmd \in Command : Start(s, cmd)
               \/ \E snapshot \in pushing[s] : PushSnapshot(s, snapshot)
               \/ \E index \in 1 .. MaxSnapshotIndex : Snapshot(s, index)
        PROVE  VoteInvariant'
    <2>1. UNCHANGED <<currentTerm, votedFor, votes, state, messages>>
      BY <1>4 DEF Apply, Start, PushSnapshot, Snapshot, persistent, leaderVars
    <2> QED
      BY <2>1, SameServers, FewerMessages, Quiet
  <1>5. ASSUME NEW s \in Server, NEW p \in Server, ReplicateOneRound(s, p) PROVE VoteInvariant'
    BY <1>5, ReplicateOneRoundQuiet, Quiet
  <1>6. ASSUME NEW m \in messages, RequestVote(m) PROVE VoteInvariant'
    BY <1>6, RequestVoteVotes
  <1>7. ASSUME NEW m \in messages, RequestVoteReply(m) PROVE VoteInvariant'
    BY <1>7, RequestVoteReplyVotes
  <1>8. ASSUME NEW m \in messages, AppendEntries(m) PROVE VoteInvariant'
    BY <1>8, AppendEntriesQuiet, Quiet
  <1>9. ASSUME NEW m \in messages, AppendEntriesReply(m) \/ InstallSnapshotReply(m)
        PROVE  VoteInvariant'
    BY <1>9, AppendEntriesReplyQuiet, Quiet
  <1>10. ASSUME NEW m \in messages, InstallSnapshot(m) PROVE VoteInvariant'
    BY <1>10, InstallSnapshotQuiet, Quiet
  <1>11. ASSUME NEW m \in messages, Lose(m) PROVE VoteInvariant'
    <2>1. UNCHANGED <<currentTerm, votedFor, votes, state>> /\ messages' \subseteq messages
      BY <1>11 DEF Lose, persistent, leaderVars
    <2> QED
      BY <2>1, SameServers, FewerMessages, Quiet
  <1> QED
    BY <1>1, <1>2, <1>3, <1>4, <1>5, <1>6, <1>7, <1>8, <1>9, <1>10, <1>11 DEF Next

-----------------------------------------------------------------------------

\* Every vote counted or in flight is the only one of its voter in its term,
\* whatever is lost, delayed or restarted, and a leader has a majority of them.
THEOREM VotesAccountedFor == Spec => []VoteInvariant
  BY VoteInit, VoteNext, Invariance, PTL DEF Spec

\* Two leaders of one term would have disjoint majorities.
LEMMA OneLeader == IInv /\ VoteInvariant => ElectionSafety
  <1> SUFFICES ASSUME IInv, VoteInvariant, NEW s \in Server, NEW t \in Server,
                      state[s] = "LEADER", state[t] = "LEADER",
                      currentTerm[s] = currentTerm[t], s # t
               PROVE  FALSE
    BY DEF ElectionSafety
  <1> USE VoteParts
  <1>1. /\ votedFor[s] = s /\ IsMajority(1 + Cardinality(votes[s]))
        /\ votedFor[t] = t /\ IsMajority(1 + Cardinality(votes[t]))
    BY DEF LeaderHasMajority
  <1>2. votes[s] \in SUBSET Server /\ votes[t] \in SUBSET Server /\ currentTerm[s] \in Nat
    BY Types
  <1>3. s \notin votes[s] /\ t \notin votes[t]
    BY <1>1 DEF CountedWasGiven
  <1>4. s \notin votes[t] /\ t \notin votes[s]
    BY <1>1, <1>2 DEF CountedWasGiven, VotedIn
  <1>5. votes[s] \cap votes[t] = {}
    BY <1>1 DEF CountedOnce
  <1> DEFINE A == votes[s] \cup {s}
             B == votes[t] \cup {t}
  <1>6. A \cap B = {}
    BY <1>3, <1>4, <1>5
  <1>7. A \in SUBSET Server /\ B \in SUBSET Server /\ IsFiniteSet(Server)
    BY <1>2, ServerAssumption
  <1>8. IsFiniteSet(votes[s]) /\ IsFiniteSet(votes[t])
    BY <1>2, <1>7, FS_Subset
  <1>9. Cardinality(A) = Cardinality(votes[s]) + 1 /\ Cardinality(B) = Cardinality(votes[t]) + 1
    BY <1>3, <1>8, FS_AddElement
  <1>10. PICK c \in Nat, a \in Nat, b \in Nat :
            /\ c = Cardinality(Server) /\ a = Cardinality(votes[s]) /\ b = Cardinality(votes[t])
    BY <1>7, <1>8, FS_CardinalityType
  <1>11. 1 + a > c \div 2 /\ 1 + b > c \div 2
    BY <1>1, <1>10 DEF IsMajority
  <1>12. (a + 1) + (b + 1) > c
    BY <1>11
  <1> HIDE DEF A, B
  <1>13. A \cap B # {}
    BY <1>7, <1>9, <1>10, <1>12, FS_MajoritiesIntersect
  <1> QED
    BY <1>6, <1>13

\* No term ever has two leaders.
THEOREM ElectionSafe == Spec => []ElectionSafety
  BY VotesAccountedFor, Invariance, OneLeader, PTL

=============================================================================
