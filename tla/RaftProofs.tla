----------------------------- MODULE RaftProofs -----------------------------
(***************************************************************************)
(* Proofs about Raft for any number of servers, terms, entries, restarts   *)
(* and messages in flight.                                                 *)
(***************************************************************************)
EXTENDS Raft, RaftLemmas, FiniteSetTheorems

\* Every leaf is tried with Zenon for a moment, then with SMT, then with each of
\* them for longer.
USE ZenonT(2), SMTT(10), ZenonT(20), SMTT(40)

-----------------------------------------------------------------------------
(* The inductive invariant, split by what the handlers write.              *)

\* The shape of one message, which RequestShape states of all in flight.
ShapedRequest(m) ==
    /\ m.type = "AppendEntries" =>
           /\ Contiguous(m.entries)
           /\ Sorted(m.entries)
           /\ \A k \in DOMAIN m.entries :
                  /\ m.entries[k].index <= m.prevIndex + k
                  /\ m.entries[k].term \in m.prevTerm .. m.term
    /\ m.type = "InstallSnapshot" =>
           Len(m.data) = m.lastIndex /\ m.lastTerm <= m.term

MessagesOK == \A m \in messages : m \in Message /\ ShapedRequest(m)

PersistentOK ==
    /\ currentTerm \in [Server -> Nat]
    /\ votedFor \in [Server -> Server \cup {None}]
    /\ log \in [Server -> Log]
    /\ saved \in [Server -> Saved]
    /\ PersistedState
    /\ LogShape

VolatileOK ==
    /\ state \in [Server -> {"FOLLOWER", "CANDIDATE", "LEADER"}]
    /\ commitIndex \in [Server -> Nat]
    /\ applied \in [Server -> Seq(Entry)]
    /\ pushing \in [Server -> SUBSET Seq(Entry)]
    /\ votes \in [Server -> SUBSET Server]
    /\ nextIndex \in [Server -> [Server -> Nat]]
    /\ matchIndex \in [Server -> [Server -> Nat]]
    /\ incarnation \in [Server -> Nat]
    /\ committed \in Seq(Entry)

IInv == PersistentOK /\ VolatileOK /\ MessagesOK

\* The inductive invariant contains the invariants the runs check.
LEMMA IInvParts == IInv <=> TypeOK /\ PersistedState /\ LogShape /\ RequestShape
  <1>1. MessagesOK <=> messages \subseteq Message /\ RequestShape
    BY DEF MessagesOK, RequestShape, ShapedRequest
  <1> QED
    BY <1>1 DEF IInv, PersistentOK, VolatileOK, TypeOK

-----------------------------------------------------------------------------
(* Facts used by several actions.                                          *)

\* A handler that changes the persistent state of s and saves it in the end.
LEMMA SavesState ==
  ASSUME PersistentOK, NEW s \in Server,
         NEW t \in Nat, NEW v \in Server \cup {None}, NEW l \in Log, NEW snapshot \in Seq(Entry),
         currentTerm' = [currentTerm EXCEPT ![s] = t],
         votedFor' = [votedFor EXCEPT ![s] = v],
         log' = [log EXCEPT ![s] = l],
         Save(s, snapshot),
         Contiguous(l), Sorted(l), LastLog(l).term <= t,
         Len(snapshot) = FirstLog(l).index
  PROVE  PersistentOK'
  <1>1. /\ currentTerm' \in [Server -> Nat]
        /\ votedFor' \in [Server -> Server \cup {None}]
        /\ log' \in [Server -> Log]
        /\ currentTerm'[s] = t /\ votedFor'[s] = v /\ log'[s] = l
    BY DEF PersistentOK
  <1> DEFINE new == [currentTerm |-> t, votedFor |-> v, log |-> l, snapshot |-> snapshot]
  <1>2. saved' = [saved EXCEPT ![s] = new] /\ new \in Saved
    BY <1>1 DEF Save, Saved
  <1>3. saved' \in [Server -> Saved] /\ saved'[s] = new
    BY <1>2 DEF PersistentOK
  <1>4. \A p \in Server \ {s} :
            /\ currentTerm'[p] = currentTerm[p] /\ votedFor'[p] = votedFor[p]
            /\ log'[p] = log[p] /\ saved'[p] = saved[p]
    BY <1>2 DEF PersistentOK
  <1>5. PersistedState'
    BY <1>1, <1>3, <1>4 DEF PersistedState, PersistentOK
  <1>6. LogShape'
    <2> SUFFICES ASSUME NEW p \in Server
                 PROVE  /\ Contiguous(log'[p])
                        /\ Sorted(log'[p])
                        /\ LastLog(log'[p]).term <= currentTerm'[p]
                        /\ Len(saved'[p].snapshot) = FirstLog(log'[p]).index
      BY DEF LogShape
    <2>1. CASE p = s
      BY <1>1, <1>3, <2>1
    <2>2. CASE p # s
      BY <1>4, <2>2 DEF LogShape, PersistentOK
    <2> QED
      BY <2>1, <2>2
  <1> QED
    BY <1>1, <1>3, <1>5, <1>6 DEF PersistentOK

\* A step that leaves term, vote, log and persister alone keeps PersistentOK.
LEMMA PersistentUnchanged ==
  ASSUME PersistentOK, UNCHANGED persistent
  PROVE  PersistentOK'
  BY DEF PersistentOK, persistent, PersistedState, LogShape

\* What PersistentOK says of one server.
LEMMA OneServer ==
  ASSUME PersistentOK, NEW s \in Server
  PROVE  /\ currentTerm[s] \in Nat
         /\ votedFor[s] \in Server \cup {None}
         /\ log[s] \in Log
         /\ Contiguous(log[s])
         /\ Sorted(log[s])
         /\ LastLog(log[s]).term <= currentTerm[s]
         /\ saved[s].snapshot \in Seq(Entry)
         /\ Len(saved[s].snapshot) = FirstLog(log[s]).index
         /\ saved[s].currentTerm = currentTerm[s]
         /\ saved[s].votedFor = votedFor[s]
         /\ saved[s].log = log[s]
  BY DEF PersistentOK, PersistedState, LogShape, Saved

\* A handler that changes the term or the vote of s, and not its log.
LEMMA PersistsTermAndVote ==
  ASSUME PersistentOK, NEW s \in Server,
         NEW t \in Nat, NEW v \in Server \cup {None}, t >= currentTerm[s],
         currentTerm' = [currentTerm EXCEPT ![s] = t],
         votedFor' = [votedFor EXCEPT ![s] = v],
         UNCHANGED log, Persist(s)
  PROVE  PersistentOK'
  <1> DEFINE l == log[s]
             snapshot == saved[s].snapshot
  <1>1. log' = [log EXCEPT ![s] = l]
    BY DEF PersistentOK
  <1>2. /\ l \in Log /\ Contiguous(l) /\ Sorted(l)
        /\ snapshot \in Seq(Entry) /\ Len(snapshot) = FirstLog(l).index
    BY OneServer
  <1>3. LastLog(l).term <= t
    <2>1. LastLog(l).term \in Nat
      BY <1>2, LogBasics DEF Entry
    <2>2. LastLog(l).term <= currentTerm[s] /\ currentTerm[s] \in Nat
      BY OneServer
    <2> HIDE DEF l
    <2> QED
      BY <2>1, <2>2
  <1>4. Save(s, snapshot)
    BY DEF Persist
  <1> HIDE DEF l, snapshot
  <1> QED
    BY <1>1, <1>2, <1>3, <1>4, SavesState

\* The type field tells the six kinds of messages apart.
LEMMA MessageKinds ==
  ASSUME NEW m \in Message
  PROVE  /\ m.src \in Server /\ m.dst \in Server
         /\ m.type = "RequestVote" => m \in RequestVoteRequest
         /\ m.type = "RequestVoteReply" => m \in RequestVoteResult
         /\ m.type = "AppendEntries" => m \in AppendEntriesRequest
         /\ m.type = "AppendEntriesReply" => m \in AppendEntriesResult
         /\ m.type = "InstallSnapshot" => m \in InstallSnapshotRequest
         /\ m.type = "InstallSnapshotReply" => m \in InstallSnapshotResult
  <1>1. CASE m \in RequestVoteRequest
    BY <1>1 DEF RequestVoteRequest
  <1>2. CASE m \in RequestVoteResult
    BY <1>2 DEF RequestVoteResult
  <1>3. CASE m \in AppendEntriesRequest
    BY <1>3 DEF AppendEntriesRequest
  <1>4. CASE m \in AppendEntriesResult
    BY <1>4 DEF AppendEntriesResult
  <1>5. CASE m \in InstallSnapshotRequest
    BY <1>5 DEF InstallSnapshotRequest
  <1>6. CASE m \in InstallSnapshotResult
    BY <1>6 DEF InstallSnapshotResult
  <1> QED
    BY <1>1, <1>2, <1>3, <1>4, <1>5, <1>6 DEF Message

\* Messages are only taken away, or one well-shaped message is added.
LEMMA MessagesStep ==
  ASSUME MessagesOK, NEW new \in SUBSET Message, \A m \in new : ShapedRequest(m),
         messages' \subseteq messages \cup new
  PROVE  MessagesOK'
  BY DEF MessagesOK, ShapedRequest

\* Add brings at most the message that is sent.
LEMMA AddSubset ==
  ASSUME NEW msgs, NEW m
  PROVE  Add(msgs, m) \subseteq msgs \cup {m}
  BY DEF Add

\* Answering a request with a well-formed reply keeps MessagesOK.
LEMMA AnswerOK ==
  ASSUME MessagesOK, NEW request \in messages, NEW reply \in Message,
         ShapedRequest(reply), Answer(request, reply)
  PROVE  MessagesOK'
  <1>1. PICK rest \in Rest(request) :
            messages' \in {rest, Add(rest, reply)}
    BY DEF Answer
  <1>2. rest \subseteq messages
    BY <1>1 DEF Rest
  <1>3. messages' \subseteq messages \cup {reply}
    BY <1>1, <1>2, AddSubset
  <1>4. {reply} \in SUBSET Message /\ \A m \in {reply} : ShapedRequest(m)
    OBVIOUS
  <1> DEFINE new == {reply}
  <1> HIDE DEF new
  <1>5. new \in SUBSET Message /\ (\A m \in new : ShapedRequest(m)) /\ messages' \subseteq messages \cup new
    BY <1>3, <1>4 DEF new
  <1> QED
    BY <1>5, MessagesStep

\* Fewer messages in flight keep MessagesOK.
LEMMA MessagesRest ==
  ASSUME MessagesOK, messages' \subseteq messages
  PROVE  MessagesOK'
  BY DEF MessagesOK, ShapedRequest

-----------------------------------------------------------------------------
(* One lemma per action: IInv is preserved.                                *)

\* The persister of a server that never ran is empty, and Make starts from it.
LEMMA InitOK == Init => IInv
  <1> SUFFICES ASSUME Init PROVE IInv
    OBVIOUS
  <1>1. <<Sentinel>> \in Log /\ Len(<<Sentinel>>) = 1 /\ <<Sentinel>>[1] = Sentinel
    BY DEF Log, Sentinel, Entry
  <1>2. <<>> \in Seq(Entry) /\ Len(<<>>) = 0
    BY EmptySeq
  <1>3. Contiguous(<<Sentinel>>) /\ Sorted(<<Sentinel>>)
    BY DEF Contiguous, Sorted, Sentinel
  <1>4. PersistentOK
    <2>1. LogShape
      BY <1>1, <1>2, <1>3 DEF Init, LogShape, FirstLog, LastLog, Sentinel
    <2>2. PersistedState
      BY DEF Init, PersistedState
    <2> QED
      BY <1>1, <1>2, <2>1, <2>2 DEF Init, PersistentOK, Saved
  <1>5. VolatileOK
    BY <1>2 DEF Init, VolatileOK
  <1>6. MessagesOK
    BY DEF Init, MessagesOK
  <1> QED
    BY <1>4, <1>5, <1>6 DEF IInv

\* startElect keeps the invariant: the term it stores is the new one, and the
\* requests carry the last entry of a well-shaped log.
LEMMA ElectionTimeoutOK ==
  ASSUME IInv, NEW s \in Server, ElectionTimeout(s)
  PROVE  IInv'
  <1> USE DEF IInv
  <1>1. currentTerm[s] \in Nat /\ log[s] \in Log
    BY OneServer
  <1>2. PersistentOK'
    <2>1. currentTerm[s] + 1 \in Nat /\ currentTerm[s] + 1 >= currentTerm[s]
      BY <1>1
    <2>2. /\ currentTerm' = [currentTerm EXCEPT ![s] = currentTerm[s] + 1]
          /\ votedFor' = [votedFor EXCEPT ![s] = s]
          /\ UNCHANGED log
          /\ Persist(s)
      BY DEF ElectionTimeout
    <2> QED
      BY <2>1, <2>2, PersistsTermAndVote
  <1>3. VolatileOK'
    BY DEF VolatileOK, ElectionTimeout, serviceVars
  <1>4. MessagesOK'
    <2> DEFINE new == {[type |-> "RequestVote", src |-> s, dst |-> p, inc |-> incarnation[s],
                        term |-> currentTerm[s] + 1,
                        lastIndex |-> LastLog(log[s]).index,
                        lastTerm |-> LastLog(log[s]).term] : p \in Server \ {s}}
    <2>1. LastLog(log[s]).index \in Nat /\ LastLog(log[s]).term \in Nat
      BY <1>1, LogBasics DEF Entry
    <2>2. incarnation[s] \in Nat
      BY DEF VolatileOK
    <2>3. \A m \in new : m \in RequestVoteRequest /\ m.type = "RequestVote"
      BY <1>1, <2>1, <2>2 DEF RequestVoteRequest
    <2>4. messages' = messages \cup new
      BY DEF ElectionTimeout
    <2> HIDE DEF new
    <2>5. new \in SUBSET Message /\ \A m \in new : ShapedRequest(m)
      BY <2>3 DEF Message, ShapedRequest
    <2> QED
      BY <2>4, <2>5, MessagesStep
  <1> QED
    BY <1>2, <1>3, <1>4

\* A restart keeps the invariant, since what the persister holds has its shape.
LEMMA RestartOK ==
  ASSUME IInv, NEW s \in Server, Restart(s)
  PROVE  IInv'
  <1> USE DEF IInv
  <1>1. /\ saved[s].log = log[s] /\ log[s] \in Log /\ saved[s].snapshot \in Seq(Entry)
        /\ saved[s].currentTerm = currentTerm[s] /\ saved[s].votedFor = votedFor[s]
    BY OneServer
  <1>2. FirstLog(log[s]).index \in Nat /\ LastLog(log[s]).index + 1 \in Nat
    BY <1>1, LogBasics DEF Entry
  <1>3. PersistentOK'
    <2>1. UNCHANGED persistent
      BY <1>1 DEF Restart, PersistentOK, persistent
    <2> QED
      BY <2>1, PersistentUnchanged
  <1>4. VolatileOK'
    <2>1. /\ state' \in [Server -> {"FOLLOWER", "CANDIDATE", "LEADER"}]
          /\ commitIndex' \in [Server -> Nat]
          /\ votes' \in [Server -> SUBSET Server]
          /\ incarnation' \in [Server -> Nat]
          /\ committed' \in Seq(Entry)
      BY <1>1, <1>2 DEF VolatileOK, Restart
    <2>2. nextIndex' \in [Server -> [Server -> Nat]] /\ matchIndex' \in [Server -> [Server -> Nat]]
      BY <1>1, <1>2 DEF VolatileOK, Restart
    <2>3. applied' \in [Server -> Seq(Entry)] /\ pushing' \in [Server -> SUBSET Seq(Entry)]
      BY <1>1, EmptySeq DEF VolatileOK, Restart
    <2> QED
      BY <2>1, <2>2, <2>3 DEF VolatileOK
  <1>5. MessagesOK'
    <2>1. messages' \subseteq messages
      BY DEF Restart
    <2> QED
      BY <2>1, MessagesRest
  <1> QED
    BY <1>3, <1>4, <1>5

\* Losing a message keeps the invariant.
LEMMA LoseOK ==
  ASSUME IInv, NEW m \in messages, Lose(m)
  PROVE  IInv'
  <1> USE DEF IInv
  <1>1. PersistentOK'
    BY PersistentUnchanged DEF Lose
  <1>2. VolatileOK'
    BY DEF VolatileOK, Lose, serviceVars, leaderVars
  <1>3. MessagesOK'
    <2>1. messages' \subseteq messages
      BY DEF Lose
    <2> QED
      BY <2>1, MessagesRest
  <1> QED
    BY <1>1, <1>2, <1>3

\* RequestVote keeps the invariant: a refusal changes nothing that is stored, and
\* otherwise term and vote are stored before the reply.
LEMMA RequestVoteOK ==
  ASSUME IInv, NEW m \in messages, RequestVote(m)
  PROVE  IInv'
  <1> USE DEF IInv
  <1> DEFINE s == m.dst
             newer == m.term > currentTerm[s]
             granted == IsLogUpToDate(log[s], m.lastTerm, m.lastIndex)
  <1>0. m \in RequestVoteRequest
    BY MessageKinds DEF MessagesOK, RequestVote
  <1>1. m.src \in Server /\ s \in Server /\ m.term \in Nat
    BY <1>0 DEF RequestVoteRequest
  <1>2. PersistentOK' /\ state' \in [Server -> {"FOLLOWER", "CANDIDATE", "LEADER"}]
    <2>1. CASE RefusesVote(s, m)
      <3>1. UNCHANGED <<persistent, state>>
        BY <2>1 DEF RequestVote
      <3> QED
        BY <3>1, PersistentUnchanged DEF VolatileOK
    <2>2. CASE ~RefusesVote(s, m)
      <3> DEFINE v == IF granted THEN m.src ELSE IF newer THEN None ELSE votedFor[s]
      <3>1. /\ currentTerm' = [currentTerm EXCEPT ![s] = m.term]
            /\ votedFor' = [votedFor EXCEPT ![s] = v]
            /\ state' = [state EXCEPT ![s] = IF newer THEN "FOLLOWER" ELSE @]
            /\ UNCHANGED log
            /\ Persist(s)
        BY <2>2 DEF RequestVote
      <3>2. v \in Server \cup {None} /\ m.term >= currentTerm[s]
        <4>1. votedFor[s] \in Server \cup {None} /\ currentTerm[s] \in Nat
          BY <1>1, OneServer
        <4>2. ~(m.term < currentTerm[s])
          BY <2>2 DEF RefusesVote
        <4> QED
          BY <1>1, <4>1, <4>2
      <3> HIDE DEF v, s
      <3> QED
        BY <1>1, <3>1, <3>2, PersistsTermAndVote DEF VolatileOK
    <2> QED
      BY <2>1, <2>2
  <1>3. VolatileOK'
    BY <1>2 DEF VolatileOK, RequestVote, serviceVars, leaderVars
  <1>4. MessagesOK'
    <2>1. ASSUME NEW t \in Nat, NEW g \in BOOLEAN, AnswerVote(m, t, g)
          PROVE  MessagesOK'
      <3> DEFINE r == [type |-> "RequestVoteReply", src |-> m.dst, dst |-> m.src,
                       term |-> t, granted |-> g, aterm |-> m.term]
                 new == {r}
      <3>1. messages' \subseteq messages \cup new
        BY <2>1 DEF AnswerVote
      <3>2. r \in RequestVoteResult /\ r.type = "RequestVoteReply"
        BY <1>1 DEF RequestVoteResult
      <3> HIDE DEF r
      <3>3. new \in SUBSET Message /\ \A n \in new : ShapedRequest(n)
        BY <3>2 DEF Message, ShapedRequest
      <3> HIDE DEF new
      <3> QED
        BY <3>1, <3>3, MessagesStep
    <2>2. granted \in BOOLEAN
      BY DEF IsLogUpToDate
    <2>3. AnswerVote(m, 0, FALSE) \/ AnswerVote(m, m.term, granted)
      BY DEF RequestVote
    <2> QED
      BY <1>1, <2>1, <2>2, <2>3
  <1> QED
    BY <1>2, <1>3, <1>4

\* A server that steps down takes over a larger term.
LEMMA StepDownOK ==
  ASSUME PersistentOK, NEW s \in Server, NEW t \in Nat, t > currentTerm[s], StepDown(s, t)
  PROVE  PersistentOK'
  <1>1. t >= currentTerm[s]
    BY OneServer
  <1> QED
    BY <1>1, PersistsTermAndVote DEF StepDown

\* Counting a vote, and becoming leader, keep the invariant.
LEMMA RequestVoteReplyOK ==
  ASSUME IInv, NEW m \in messages, RequestVoteReply(m)
  PROVE  IInv'
  <1> USE DEF IInv
  <1> DEFINE s == m.dst
  <1>0. m \in RequestVoteResult
    BY MessageKinds DEF MessagesOK, RequestVoteReply
  <1>1. m.src \in Server /\ s \in Server /\ m.term \in Nat
    BY <1>0 DEF RequestVoteResult
  <1>2. LastLog(log[s]).index \in Nat
    BY <1>1, OneServer, LogBasics DEF Entry
  <1>3. MessagesOK'
    <2>1. messages' \subseteq messages
      BY DEF RequestVoteReply
    <2> QED
      BY <2>1, MessagesRest
  <1>4. CASE m.term > currentTerm[s]
    <2>1. StepDown(s, m.term) /\ UNCHANGED leaderVars
      BY <1>4 DEF RequestVoteReply
    <2>2. PersistentOK'
      BY <1>1, <1>4, <2>1, StepDownOK
    <2>3. VolatileOK'
      BY <2>1 DEF VolatileOK, RequestVoteReply, StepDown, serviceVars, leaderVars
    <2> QED
      BY <1>3, <2>2, <2>3
  <1>5. CASE ~(m.term > currentTerm[s])
    <2>1. UNCHANGED persistent
      BY <1>5 DEF RequestVoteReply
    <2>2. votes' \in [Server -> SUBSET Server]
      <3> DEFINE v == IF m.term = currentTerm[s] /\ m.granted
                      THEN votes[s] \cup {m.src} ELSE votes[s]
      <3>1. votes' = [votes EXCEPT ![s] = v]
        BY <1>5 DEF RequestVoteReply
      <3>2. v \in SUBSET Server
        BY <1>1 DEF VolatileOK
      <3> HIDE DEF v
      <3> QED
        BY <3>1, <3>2 DEF VolatileOK
    <2>3. BecomeLeader(s) \/ UNCHANGED <<state, nextIndex, matchIndex>>
      BY <1>5 DEF RequestVoteReply
    <2>4. /\ state' \in [Server -> {"FOLLOWER", "CANDIDATE", "LEADER"}]
          /\ nextIndex' \in [Server -> [Server -> Nat]]
          /\ matchIndex' \in [Server -> [Server -> Nat]]
      <3>1. CASE BecomeLeader(s)
        <4> DEFINE next == [p \in Server |-> IF p = s THEN nextIndex[s][p]
                                             ELSE LastLog(log[s]).index + 1]
                   match == [p \in Server |-> IF p = s THEN LastLog(log[s]).index ELSE 0]
        <4>1. /\ state' = [state EXCEPT ![s] = "LEADER"]
              /\ nextIndex' = [nextIndex EXCEPT ![s] = next]
              /\ matchIndex' = [matchIndex EXCEPT ![s] = match]
          BY <3>1 DEF BecomeLeader
        <4>2. next \in [Server -> Nat] /\ match \in [Server -> Nat]
          <5>1. nextIndex[s] \in [Server -> Nat]
            BY <1>1 DEF VolatileOK
          <5>2. LastLog(log[s]).index + 1 \in Nat
            BY <1>2
          <5> HIDE DEF s
          <5> QED
            BY <1>2, <5>1, <5>2
        <4> HIDE DEF next, match
        <4> QED
          BY <4>1, <4>2 DEF VolatileOK
      <3>2. CASE UNCHANGED <<state, nextIndex, matchIndex>>
        BY <3>2 DEF VolatileOK
      <3> QED
        BY <2>3, <3>1, <3>2
    <2>5. UNCHANGED <<commitIndex, applied, pushing, incarnation, committed>>
      BY DEF RequestVoteReply, serviceVars
    <2>6. VolatileOK'
      BY <2>2, <2>4, <2>5 DEF VolatileOK
    <2> QED
      BY <1>3, <2>1, <2>6, PersistentUnchanged
  <1> QED
    BY <1>4, <1>5

\* Start keeps the invariant: the new entry continues the log in the leader's term.
LEMMA StartOK ==
  ASSUME IInv, NEW s \in Server, NEW cmd \in Command, Start(s, cmd)
  PROVE  IInv'
  <1> USE DEF IInv
  <1> DEFINE index == LastLog(log[s]).index + 1
             e == [term |-> currentTerm[s], cmd |-> cmd, index |-> index]
             l == Append(log[s], e)
  <1>1. /\ log[s] \in Log /\ Contiguous(log[s]) /\ Sorted(log[s])
        /\ currentTerm[s] \in Nat /\ LastLog(log[s]).term <= currentTerm[s]
        /\ votedFor[s] \in Server \cup {None}
        /\ saved[s].snapshot \in Seq(Entry)
        /\ Len(saved[s].snapshot) = FirstLog(log[s]).index
    BY OneServer
  <1>2. index \in Nat
    BY <1>1, LogBasics DEF Entry
  <1>3. e \in Entry /\ e.index = index /\ e.term = currentTerm[s]
    BY <1>1, <1>2 DEF Entry
  <1>4. /\ currentTerm' = [currentTerm EXCEPT ![s] = currentTerm[s]]
        /\ votedFor' = [votedFor EXCEPT ![s] = votedFor[s]]
        /\ log' = [log EXCEPT ![s] = l]
        /\ Save(s, saved[s].snapshot)
    BY DEF Start, PersistentOK, Persist
  <1>5. matchIndex' = [matchIndex EXCEPT ![s][s] = index]
    BY DEF Start
  <1> HIDE DEF e, index
  <1>6. /\ l \in Log /\ Contiguous(l) /\ Sorted(l)
        /\ LastLog(l) = e /\ FirstLog(l) = FirstLog(log[s])
    BY <1>1, <1>3, AppendShape DEF index
  <1> HIDE DEF l
  <1>7. LastLog(l).term <= currentTerm[s] /\ Len(saved[s].snapshot) = FirstLog(l).index
    BY <1>1, <1>3, <1>6
  <1>8. PersistentOK'
    BY <1>1, <1>4, <1>6, <1>7, SavesState
  <1>9. VolatileOK'
    <2>1. matchIndex' \in [Server -> [Server -> Nat]]
      BY <1>2, <1>5 DEF VolatileOK
    <2> QED
      BY <2>1 DEF VolatileOK, Start, serviceVars
  <1>10. MessagesOK'
    <2>1. messages' \subseteq messages
      BY DEF Start
    <2> QED
      BY <2>1, MessagesRest
  <1> QED
    BY <1>8, <1>9, <1>10

\* replicateOneRound keeps the invariant: both kinds of request have their shape.
LEMMA ReplicateOneRoundOK ==
  ASSUME IInv, NEW s \in Server, NEW p \in Server, ReplicateOneRound(s, p)
  PROVE  IInv'
  <1> USE DEF IInv
  <1> DEFINE prev == nextIndex[s][p] - 1
             first == FirstLog(log[s]).index
  <1>1. /\ log[s] \in Log /\ Contiguous(log[s]) /\ Sorted(log[s])
        /\ currentTerm[s] \in Nat /\ LastLog(log[s]).term <= currentTerm[s]
        /\ saved[s].snapshot \in Seq(Entry) /\ Len(saved[s].snapshot) = first
    BY OneServer
  <1>2. incarnation[s] \in Nat /\ commitIndex[s] \in Nat /\ nextIndex[s][p] \in Nat
    BY DEF VolatileOK
  <1>3. /\ first \in Nat /\ FirstLog(log[s]).term \in Nat /\ LastLog(log[s]).term \in Nat
        /\ FirstLog(log[s]).term <= LastLog(log[s]).term
    BY <1>1, LogBasics DEF Entry, Sorted, FirstLog, LastLog
  <1>4. PersistentOK'
    BY PersistentUnchanged DEF ReplicateOneRound
  <1>5. VolatileOK'
    BY DEF VolatileOK, ReplicateOneRound, serviceVars, leaderVars
  <1>6. ASSUME NEW m \in Message, ShapedRequest(m), Send(m)
        PROVE  MessagesOK'
    <2> DEFINE new == {m}
    <2>1. messages' \subseteq messages \cup new
      BY <1>6, AddSubset DEF Send
    <2>2. new \in SUBSET Message /\ \A n \in new : ShapedRequest(n)
      BY <1>6
    <2> HIDE DEF new
    <2> QED
      BY <2>1, <2>2, MessagesStep
  <1>7. CASE prev < first
    <2> DEFINE m == InstallSnapshotArgs(s, p)
    <2>1. Send(m)
      BY <1>7 DEF ReplicateOneRound
    <2>2. m \in InstallSnapshotRequest
      BY <1>1, <1>2, <1>3 DEF InstallSnapshotArgs, InstallSnapshotRequest
    <2>3. /\ m.type = "InstallSnapshot" /\ Len(m.data) = m.lastIndex
          /\ m.lastTerm = FirstLog(log[s]).term /\ m.term = currentTerm[s]
      BY <1>1 DEF InstallSnapshotArgs
    <2> HIDE DEF m
    <2>4. m.lastTerm <= m.term
      BY <1>1, <1>3, <2>3
    <2>5. m \in Message /\ ShapedRequest(m)
      BY <2>2, <2>3, <2>4 DEF Message, ShapedRequest
    <2> QED
      BY <1>4, <1>5, <1>6, <2>1, <2>5
  <1>8. CASE ~(prev < first)
    <2> DEFINE m == AppendEntriesArgs(s, p, prev)
               at == PrevPos(log[s], prev)
               e == Suffix(log[s], at + 1)
    <2>1. Send(m)
      BY <1>8 DEF ReplicateOneRound
    <2>2. prev \in Nat /\ prev >= first
      BY <1>2, <1>3, <1>8
    <2>3. m = [type |-> "AppendEntries", src |-> s, dst |-> p, inc |-> incarnation[s],
               term |-> currentTerm[s], prevIndex |-> prev, prevTerm |-> log[s][at].term,
               entries |-> e, commit |-> commitIndex[s]]
      BY DEF AppendEntriesArgs
    <2> HIDE DEF m, at, e, prev
    <2>4. /\ at \in 1 .. Len(log[s])
          /\ e \in Seq(Entry)
          /\ Contiguous(e)
          /\ Sorted(e)
          /\ \A k \in DOMAIN e : /\ e[k].index <= prev + k
                                 /\ log[s][at].term <= e[k].term
                                 /\ e[k].term <= LastLog(log[s]).term
      BY <1>1, <2>2, SentShape DEF at, e
    <2>5. log[s][at].term \in Nat
      BY <1>1, <2>4, LogBasics
    <2>6. m \in AppendEntriesRequest
      BY <1>1, <1>2, <2>2, <2>3, <2>4, <2>5 DEF AppendEntriesRequest
    <2>7. /\ m.type = "AppendEntries" /\ m.entries = e /\ m.prevIndex = prev
          /\ m.prevTerm = log[s][at].term /\ m.term = currentTerm[s]
      BY <2>3
    <2>8. ASSUME NEW k \in DOMAIN e
          PROVE  e[k].term \in log[s][at].term .. currentTerm[s]
      <3>1. e[k].term \in Nat
        <4>1. e[k] \in Entry
          BY <2>4, ElementOfSeq, LenProperties
        <4> QED
          BY <4>1 DEF Entry
      <3> QED
        <4>1. /\ log[s][at].term <= e[k].term
              /\ e[k].term <= LastLog(log[s]).term
              /\ LastLog(log[s]).term <= currentTerm[s]
          BY ONLY <1>1, <2>4, k \in DOMAIN e
        <4>2. /\ log[s][at].term \in Nat /\ e[k].term \in Nat
              /\ LastLog(log[s]).term \in Nat /\ currentTerm[s] \in Nat
          BY ONLY <1>1, <1>3, <2>5, <3>1
        <4> QED
          BY ONLY <4>1, <4>2
    <2>9. m \in Message /\ ShapedRequest(m)
      BY <2>4, <2>6, <2>7, <2>8 DEF Message, ShapedRequest
    <2> QED
      BY <1>4, <1>5, <1>6, <2>1, <2>9
  <1> QED
    BY <1>7, <1>8

\* A request of a term that is not smaller is followed, whatever comes of it.
LEMMA FollowLeaderWrites ==
  ASSUME PersistentOK, NEW s \in Server, NEW t \in Nat, FollowLeader(s, t)
  PROVE  \E v \in Server \cup {None} : /\ currentTerm' = [currentTerm EXCEPT ![s] = t]
                                       /\ votedFor' = [votedFor EXCEPT ![s] = v]
  <1> DEFINE v == IF t > currentTerm[s] THEN None ELSE votedFor[s]
  <1>1. v \in Server \cup {None}
    BY OneServer
  <1>2. currentTerm' = [currentTerm EXCEPT ![s] = t] /\ votedFor' = [votedFor EXCEPT ![s] = v]
    BY DEF FollowLeader
  <1> HIDE DEF v
  <1> QED
    BY <1>1, <1>2

\* AppendEntries keeps the invariant: the merged log has its shape and is stored.
LEMMA AppendEntriesOK ==
  ASSUME IInv, NEW m \in messages, AppendEntries(m)
  PROVE  IInv'
  <1> USE DEF IInv
  <1> DEFINE s == m.dst
             merged == Merge(log[s], m.entries)
  <1>0. m \in AppendEntriesRequest /\ ShapedRequest(m) /\ m.type = "AppendEntries"
    BY MessageKinds DEF MessagesOK, AppendEntries
  <1>1. /\ m.src \in Server /\ s \in Server /\ m.term \in Nat
        /\ m.prevIndex \in Nat /\ m.prevTerm \in Nat
        /\ m.entries \in Seq(Entry) /\ m.commit \in Nat
    BY <1>0 DEF AppendEntriesRequest
  <1>2. /\ log[s] \in Log /\ Contiguous(log[s]) /\ Sorted(log[s])
        /\ currentTerm[s] \in Nat /\ LastLog(log[s]).term <= currentTerm[s]
        /\ saved[s].snapshot \in Seq(Entry) /\ Len(saved[s].snapshot) = FirstLog(log[s]).index
    BY <1>1, OneServer
  <1>3. ASSUME NEW t \in Nat, NEW b \in BOOLEAN, NEW c \in ConflictReport,
               AnswerAppend(m, t, b, c)
        PROVE  MessagesOK'
    <2> DEFINE r == [type |-> "AppendEntriesReply", src |-> m.dst, dst |-> m.src,
                     term |-> t, success |-> b, conflict |-> c,
                     aterm |-> m.term, prevIndex |-> m.prevIndex, count |-> Len(m.entries)]
    <2>1. r \in AppendEntriesResult /\ r.type = "AppendEntriesReply"
      BY <1>1, LenProperties DEF AppendEntriesResult
    <2>2. Answer(m, r)
      BY <1>3 DEF AnswerAppend
    <2> HIDE DEF r
    <2>3. r \in Message /\ ShapedRequest(r)
      BY <2>1 DEF Message, ShapedRequest
    <2> QED
      BY <2>2, <2>3, AnswerOK
  <1>4. NoConflict \in ConflictReport
    BY DEF NoConflict, ConflictReport
  <1>5. CASE m.term < currentTerm[s] /\ AnswerAppend(m, currentTerm[s], FALSE, NoConflict)
             /\ UNCHANGED <<persistent, state, commitIndex>>
    <2>1. VolatileOK'
      BY <1>5 DEF VolatileOK, AppendEntries, leaderVars, serviceVars
    <2> QED
      BY <1>2, <1>3, <1>4, <1>5, <2>1, PersistentUnchanged
  <1>6. CASE /\ m.term >= currentTerm[s]
             /\ FollowLeader(s, m.term)
             /\ ~IsLogMatched(log[s], m.prevTerm, m.prevIndex)
             /\ UNCHANGED <<log, commitIndex>>
             /\ Persist(s)
             /\ AnswerAppend(m, m.term, FALSE, Conflict(log[s], m.prevIndex))
    <2>1. PersistentOK'
      BY <1>1, <1>6, FollowLeaderWrites, PersistsTermAndVote
    <2>2. VolatileOK'
      BY <1>6 DEF VolatileOK, AppendEntries, FollowLeader, leaderVars, serviceVars
    <2>3. Conflict(log[s], m.prevIndex) \in ConflictReport
      BY <1>1, <1>2, <1>6, ConflictType
    <2>4. MessagesOK'
      BY <1>1, <1>3, <1>6, <2>3
    <2> QED
      BY <2>1, <2>2, <2>4
  <1>7. CASE /\ m.term >= currentTerm[s]
             /\ FollowLeader(s, m.term)
             /\ IsLogMatched(log[s], m.prevTerm, m.prevIndex)
             /\ log' = [log EXCEPT ![s] = merged]
             /\ commitIndex' = [commitIndex EXCEPT ![s] =
                                   FollowerCommit(merged, @, m.term, m.commit)]
             /\ Persist(s)
             /\ AnswerAppend(m, m.term, TRUE, NoConflict)
    <2>1. LastLog(log[s]).term <= m.term
      <3>1. LastLog(log[s]).term \in Nat
        BY <1>2, LogBasics DEF Entry
      <3>2. m.term >= currentTerm[s] /\ m.term \in Nat
        BY ONLY <1>1, <1>7
      <3>3. LastLog(log[s]).term <= currentTerm[s] /\ currentTerm[s] \in Nat
        BY ONLY <1>2
      <3> QED
        BY ONLY <3>1, <3>2, <3>3
    <2>2. /\ Contiguous(m.entries) /\ Sorted(m.entries)
          /\ \A k \in DOMAIN m.entries :
                 /\ m.entries[k].index <= m.prevIndex + k
                 /\ m.entries[k].term \in m.prevTerm .. m.term
      BY <1>0 DEF ShapedRequest
    <2> HIDE DEF merged
    <2>3. /\ merged \in Log /\ Contiguous(merged) /\ Sorted(merged)
          /\ LastLog(merged).term <= m.term
          /\ FirstLog(merged).index = FirstLog(log[s]).index
      <3> DEFINE l == log[s]
                 e == m.entries
                 prev == m.prevIndex
                 prevTerm == m.prevTerm
                 term == m.term
      <3>1. merged = Merge(l, e)
        BY DEF merged
      <3>2. /\ l \in Log /\ Contiguous(l) /\ Sorted(l) /\ LastLog(l).term <= term
            /\ e \in Seq(Entry) /\ Contiguous(e) /\ Sorted(e)
            /\ prev \in Nat /\ prevTerm \in Nat /\ term \in Nat
            /\ \A k \in DOMAIN e : e[k].index <= prev + k /\ e[k].term \in prevTerm .. term
            /\ IsLogMatched(l, prevTerm, prev)
        BY <1>1, <1>2, <1>7, <2>1, <2>2
      <3> HIDE DEF l, e, prev, prevTerm, term
      <3>3. /\ merged \in Log /\ Contiguous(merged) /\ Sorted(merged)
            /\ LastLog(merged).term <= term
            /\ FirstLog(merged).index = FirstLog(l).index
        BY ONLY <3>1, <3>2, MergeShape
      <3> QED
        BY <3>3 DEF l, term
    <2>4. PersistentOK'
      <3>1. PICK v \in Server \cup {None} : /\ currentTerm' = [currentTerm EXCEPT ![s] = m.term]
                                            /\ votedFor' = [votedFor EXCEPT ![s] = v]
        BY <1>1, <1>7, FollowLeaderWrites
      <3>2. Save(s, saved[s].snapshot)
        BY <1>7 DEF Persist
      <3>3. log' = [log EXCEPT ![s] = merged] /\ Len(saved[s].snapshot) = FirstLog(merged).index
        BY <1>2, <1>7, <2>3
      <3> HIDE DEF s
      <3> QED
        BY <1>1, <1>2, <2>3, <3>1, <3>2, <3>3, SavesState
    <2>5. VolatileOK'
      <3>1. FollowerCommit(merged, commitIndex[s], m.term, m.commit) \in Nat
        <4>1. LastLog(merged).index \in Nat
          BY <2>3, LogBasics DEF Entry
        <4>2. commitIndex[s] \in Nat
          BY <1>1 DEF VolatileOK
        <4> QED
          BY <1>1, <4>1, <4>2 DEF FollowerCommit, MinInt
      <3>2. commitIndex' \in [Server -> Nat]
        BY <1>1, <1>7, <3>1 DEF VolatileOK
      <3>3. state' \in [Server -> {"FOLLOWER", "CANDIDATE", "LEADER"}]
        BY <1>7 DEF VolatileOK, FollowLeader
      <3> QED
        BY <3>2, <3>3 DEF VolatileOK, AppendEntries, leaderVars, serviceVars
    <2> QED
      BY <1>1, <1>3, <1>4, <1>7, <2>4, <2>5
  <1> QED
    BY <1>5, <1>6, <1>7 DEF AppendEntries

\* What a server holds ends at the last index of its log.
LEMMA ContentShape ==
  ASSUME PersistentOK, NEW s \in Server
  PROVE  Content(s) \in Seq(Entry) /\ Len(Content(s)) = LastLog(log[s]).index
  <1> DEFINE l == log[s]
             a == saved[s].snapshot
             b == Tail(l)
  <1>1. /\ l \in Log /\ Contiguous(l)
        /\ a \in Seq(Entry) /\ Len(a) = FirstLog(l).index
    BY OneServer
  <1> HIDE DEF a, l
  <1>2. b \in Seq(Entry) /\ Len(b) = Len(l) - 1
    BY <1>1, HeadTailProperties DEF Log
  <1> HIDE DEF b
  <1>3. a \o b \in Seq(Entry) /\ Len(a \o b) = Len(a) + Len(b)
    BY <1>1, <1>2, ConcatProperties
  <1>4. Content(s) = a \o b
    BY DEF Content, a, b, l
  <1>5. Len(a) + Len(b) = LastLog(l).index
    <2>1. PICK f \in Nat : f = FirstLog(l).index
      BY <1>1, ContiguousPos
    <2>2. LastLog(l).index = f + Len(l) - 1 /\ Len(l) \in Nat
      BY <1>1, <2>1, ContiguousPos, LogBasics
    <2> QED
      BY <1>1, <1>2, <2>1, <2>2
  <1> QED
    BY <1>3, <1>4, <1>5 DEF l

\* A prefix of a sequence of entries is one, of the length asked for.
LEMMA PrefixType ==
  ASSUME NEW q \in Seq(Entry), NEW n \in 0 .. Len(q)
  PROVE  SubSeq(q, 1, n) \in Seq(Entry) /\ Len(SubSeq(q, 1, n)) = n
  <1>1. Len(q) \in Nat /\ \A k \in 1 .. Len(q) : q[k] \in Entry
    BY LenProperties, ElementOfSeq
  <1>2. \A k \in 1 .. n : q[k] \in Entry
    BY <1>1
  <1> QED
    BY <1>1, <1>2, SubSeqProperties

\* The leader commits no index beyond its log.
LEMMA LeaderCommitRange ==
  ASSUME PersistentOK, VolatileOK, NEW s \in Server, NEW match,
         NEW ci, ci = LeaderCommit(s, match)
  PROVE  ci \in Nat /\ (ci = commitIndex[s] \/ ci <= LastLog(log[s]).index)
  <1>1. commitIndex[s] \in Nat
    BY DEF VolatileOK
  <1>2. PICK x \in Nat : x = LastLog(log[s]).index
    BY OneServer, ContiguousPos
  <1> DEFINE ready == {N \in commitIndex[s] + 1 .. LastLog(log[s]).index :
                          HasBeenAppendedMajority(s, match, N)}
  <1>3. CASE ready = {}
    BY <1>1, <1>3 DEF LeaderCommit
  <1>4. CASE ready # {}
    <2>1. ready \in SUBSET (0 .. x)
      BY <1>1, <1>2
    <2>2. ci = Max(ready)
      BY <1>4 DEF LeaderCommit
    <2>3. ci \in ready
      BY <1>4, <2>1, <2>2, MaxNat
    <2> QED
      BY <1>2, <2>1, <2>3
  <1> QED
    BY <1>3, <1>4

\* Raising matchIndex and nextIndex keeps their types.
LEMMA MatchUpToOK ==
  ASSUME VolatileOK, NEW s \in Server, NEW p \in Server, NEW index \in Nat,
         MatchUpTo(s, p, index)
  PROVE  matchIndex' \in [Server -> [Server -> Nat]] /\ nextIndex' \in [Server -> [Server -> Nat]]
  <1>1. matchIndex[s][p] \in Nat /\ nextIndex[s][p] \in Nat
    BY DEF VolatileOK
  <1>2. MaxInt(matchIndex[s][p], index) \in Nat /\ MaxInt(nextIndex[s][p], index + 1) \in Nat
    BY <1>1 DEF MaxInt
  <1> QED
    BY <1>2 DEF VolatileOK, MatchUpTo

\* handleReplicateOneRoundResponse keeps the invariant, in all of its branches.
LEMMA AppendEntriesReplyOK ==
  ASSUME IInv, NEW m \in messages, AppendEntriesReply(m)
  PROVE  IInv'
  <1> USE DEF IInv
  <1> DEFINE s == m.dst
             match == [matchIndex[s] EXCEPT ![m.src] = MaxInt(@, m.prevIndex + m.count)]
             ci == LeaderCommit(s, match)
  <1>0. m \in AppendEntriesResult
    BY MessageKinds DEF MessagesOK, AppendEntriesReply
  <1>1. /\ m.src \in Server /\ s \in Server /\ m.term \in Nat
        /\ m.prevIndex \in Nat /\ m.count \in Nat /\ m.conflict \in ConflictReport
    BY <1>0 DEF AppendEntriesResult
  <1>2. MessagesOK'
    <2>1. messages' \subseteq messages
      BY DEF AppendEntriesReply, Rest
    <2> QED
      BY <2>1, MessagesRest
  <1>3. UNCHANGED <<votes, applied, pushing, incarnation>>
    BY DEF AppendEntriesReply, serviceVars
  <1>4. CASE /\ m.term > currentTerm[s]
             /\ StepDown(s, m.term)
             /\ UNCHANGED <<nextIndex, matchIndex, commitIndex, committed>>
    <2>1. PersistentOK'
      BY <1>1, <1>4, StepDownOK
    <2>2. VolatileOK'
      BY <1>3, <1>4 DEF VolatileOK, StepDown
    <2> QED
      BY <1>2, <2>1, <2>2
  <1>5. CASE /\ MatchUpTo(s, m.src, m.prevIndex + m.count)
             /\ commitIndex' = [commitIndex EXCEPT ![s] = ci]
             /\ committed' = IF ci > MaxInt(commitIndex[s], Len(committed))
                             THEN SubSeq(Content(s), 1, ci) ELSE committed
             /\ UNCHANGED <<persistent, state>>
    <2> HIDE DEF ci
    <2>1. ci \in Nat /\ (ci = commitIndex[s] \/ ci <= LastLog(log[s]).index)
      BY <1>1, LeaderCommitRange DEF ci
    <2>2. commitIndex' \in [Server -> Nat]
      BY <1>5, <2>1 DEF VolatileOK
    <2>3. committed' \in Seq(Entry)
      <3>1. CASE ci > MaxInt(commitIndex[s], Len(committed))
        <4>1. commitIndex[s] \in Nat /\ Len(committed) \in Nat
          BY <1>1, LenProperties DEF VolatileOK
        <4>2. ci > commitIndex[s]
          BY <2>1, <3>1, <4>1 DEF MaxInt
        <4>3. Content(s) \in Seq(Entry) /\ Len(Content(s)) = LastLog(log[s]).index
          BY <1>1, ContentShape
        <4>4. ci \in 0 .. Len(Content(s))
          <5>1. Len(Content(s)) \in Nat
            BY <4>3, LenProperties
          <5> QED
            BY <2>1, <4>1, <4>2, <4>3, <5>1
        <4> QED
          BY <1>5, <3>1, <4>3, <4>4, PrefixType
      <3>2. CASE ~(ci > MaxInt(commitIndex[s], Len(committed)))
        BY <1>5, <3>2 DEF VolatileOK
      <3> QED
        BY <3>1, <3>2
    <2>4. m.prevIndex + m.count \in Nat
      BY <1>1
    <2>5. matchIndex' \in [Server -> [Server -> Nat]] /\ nextIndex' \in [Server -> [Server -> Nat]]
      BY <1>1, <1>5, <2>4, MatchUpToOK
    <2>6. VolatileOK'
      BY <1>3, <1>5, <2>2, <2>3, <2>5 DEF VolatileOK
    <2> QED
      BY <1>2, <1>5, <2>6, PersistentUnchanged
  <1>6. CASE /\ ~BackoffPanics(log[s], m.conflict)
             /\ nextIndex' = [nextIndex EXCEPT ![s][m.src] = BackoffIndex(log[s], m.conflict)]
             /\ UNCHANGED <<persistent, state, matchIndex, commitIndex, committed>>
    <2>1. BackoffIndex(log[s], m.conflict) \in Nat
      BY <1>1, <1>6, OneServer, BackoffType
    <2>2. nextIndex' \in [Server -> [Server -> Nat]]
      BY <1>1, <1>6, <2>1 DEF VolatileOK
    <2>3. VolatileOK'
      BY <1>3, <1>6, <2>2 DEF VolatileOK
    <2> QED
      BY <1>2, <1>6, <2>3, PersistentUnchanged
  <1> QED
    BY <1>4, <1>5, <1>6 DEF AppendEntriesReply

\* A round of the applier keeps the invariant.
LEMMA ApplyOK ==
  ASSUME IInv, NEW s \in Server, Apply(s)
  PROVE  IInv'
  <1> USE DEF IInv
  <1> DEFINE l == log[s]
             n == Len(applied[s])
             i == Pos(l, n + 1)
             j == Pos(l, commitIndex[s])
             batch == SubSeq(l, i, j)
  <1>1. l \in Log /\ Contiguous(l)
    BY OneServer
  <1>2. applied[s] \in Seq(Entry) /\ n \in Nat /\ commitIndex[s] \in Nat
    BY LenProperties DEF VolatileOK
  <1>3. PICK f \in Nat, x \in Nat : f = FirstLog(l).index /\ x = LastLog(l).index
    BY <1>1, ContiguousPos
  <1>4. commitIndex[s] > n /\ n >= f /\ commitIndex[s] <= x
    BY <1>3 DEF Apply, NeedApplyingLog
  <1>5. applied' = [applied EXCEPT ![s] = applied[s] \o batch]
    BY DEF Apply
  <1>6. i \in 1 .. Len(l) /\ j \in 1 .. Len(l)
    <2>1. n + 1 \in f .. x /\ commitIndex[s] \in f .. x
      BY <1>2, <1>4
    <2> QED
      BY <1>1, <1>3, <2>1, ContiguousPos
  <1>7. batch \in Seq(Entry)
    <2>1. \A k \in i .. j : l[k] \in Entry
      BY <1>1, <1>6, LogBasics
    <2> HIDE DEF i, j, l
    <2> QED
      BY <1>6, <2>1, SubSeqProperties
  <1>8. applied[s] \o batch \in Seq(Entry)
    BY <1>2, <1>7, ConcatProperties
  <1> HIDE DEF batch
  <1>9. VolatileOK'
    <2>1. applied' \in [Server -> Seq(Entry)]
      BY <1>5, <1>8 DEF VolatileOK
    <2> QED
      BY <2>1 DEF VolatileOK, Apply, leaderVars
  <1>10. PersistentOK'
    BY PersistentUnchanged DEF Apply
  <1>11. MessagesOK'
    <2>1. messages' \subseteq messages
      BY DEF Apply
    <2> QED
      BY <2>1, MessagesRest
  <1> QED
    BY <1>9, <1>10, <1>11

\* A snapshot goroutine keeps the invariant.
LEMMA PushSnapshotOK ==
  ASSUME IInv, NEW s \in Server, NEW snapshot, PushSnapshot(s, snapshot)
  PROVE  IInv'
  <1> USE DEF IInv
  <1>1. snapshot \in Seq(Entry)
    BY DEF PushSnapshot, VolatileOK
  <1>2. VolatileOK'
    <2>1. applied' \in [Server -> Seq(Entry)]
      BY <1>1 DEF PushSnapshot, VolatileOK
    <2>2. pushing' \in [Server -> SUBSET Seq(Entry)]
      BY DEF PushSnapshot, VolatileOK
    <2> QED
      BY <2>1, <2>2 DEF VolatileOK, PushSnapshot, leaderVars
  <1>3. PersistentOK'
    BY PersistentUnchanged DEF PushSnapshot
  <1>4. MessagesOK'
    <2>1. messages' \subseteq messages
      BY DEF PushSnapshot
    <2> QED
      BY <2>1, MessagesRest
  <1> QED
    BY <1>2, <1>3, <1>4

\* Snapshot keeps the invariant: log and snapshot are cut at the same index.
LEMMA SnapshotOK ==
  ASSUME IInv, NEW s \in Server, NEW index \in Nat, Snapshot(s, index)
  PROVE  IInv'
  <1> USE DEF IInv
  <1> DEFINE l == log[s]
             i == Pos(l, index)
             r == Suffix(l, i)
             snapshot == SubSeq(applied[s], 1, index)
  <1>1. /\ l \in Log /\ Contiguous(l) /\ Sorted(l)
        /\ currentTerm[s] \in Nat /\ LastLog(l).term <= currentTerm[s]
        /\ votedFor[s] \in Server \cup {None}
    BY OneServer
  <1>2. PICK f \in Nat, x \in Nat : f = FirstLog(l).index /\ x = LastLog(l).index
    BY <1>1, ContiguousPos
  <1>3. applied[s] \in Seq(Entry) /\ Len(applied[s]) \in Nat
    BY LenProperties DEF VolatileOK
  <1>4. index \in f + 1 .. Len(applied[s]) /\ index <= x
    BY <1>2 DEF Snapshot
  <1>5. snapshot \in Seq(Entry) /\ Len(snapshot) = index
    BY <1>3, <1>4, PrefixType
  <1>6. i \in 1 .. Len(l) /\ l[i].index = index
    BY <1>1, <1>2, <1>4, ContiguousPos
  <1>7. /\ currentTerm' = [currentTerm EXCEPT ![s] = currentTerm[s]]
        /\ votedFor' = [votedFor EXCEPT ![s] = votedFor[s]]
        /\ log' = [log EXCEPT ![s] = r]
        /\ Save(s, snapshot)
    BY DEF Snapshot, PersistentOK
  <1> HIDE DEF l, i, r, snapshot
  <1>8. /\ r \in Log /\ Contiguous(r) /\ Sorted(r)
        /\ LastLog(r) = LastLog(l) /\ FirstLog(r) = l[i]
    BY <1>1, <1>6, SuffixShape DEF r
  <1>9. LastLog(r).term <= currentTerm[s] /\ Len(snapshot) = FirstLog(r).index
    BY <1>1, <1>5, <1>6, <1>8
  <1>10. PersistentOK'
    BY <1>1, <1>5, <1>7, <1>8, <1>9, SavesState
  <1>11. VolatileOK'
    BY DEF Snapshot, VolatileOK, serviceVars, leaderVars
  <1>12. MessagesOK'
    <2>1. messages' \subseteq messages
      BY DEF Snapshot
    <2> QED
      BY <2>1, MessagesRest
  <1> QED
    BY <1>10, <1>11, <1>12

\* InstallSnapshot keeps the invariant: the log that is left starts where the
\* stored snapshot ends.
LEMMA InstallSnapshotOK ==
  ASSUME IInv, NEW m \in messages, InstallSnapshot(m)
  PROVE  IInv'
  <1> USE DEF IInv
  <1> DEFINE s == m.dst
             old == m.lastIndex <= commitIndex[s] \/ m.lastIndex <= FirstLog(log[s]).index
  <1>0. m \in InstallSnapshotRequest /\ ShapedRequest(m) /\ m.type = "InstallSnapshot"
    BY MessageKinds DEF MessagesOK, InstallSnapshot
  <1>1. /\ m.src \in Server /\ s \in Server /\ m.term \in Nat
        /\ m.lastIndex \in Nat /\ m.lastTerm \in Nat /\ m.data \in Seq(Entry)
        /\ Len(m.data) = m.lastIndex /\ m.lastTerm <= m.term
    BY <1>0 DEF InstallSnapshotRequest, ShapedRequest
  <1>2. /\ log[s] \in Log /\ Contiguous(log[s]) /\ Sorted(log[s])
        /\ currentTerm[s] \in Nat /\ LastLog(log[s]).term <= currentTerm[s]
    BY <1>1, OneServer
  <1>3. MessagesOK'
    <2> DEFINE r == [type |-> "InstallSnapshotReply", src |-> m.dst, dst |-> m.src,
                     term |-> currentTerm[m.dst], aterm |-> m.term, lastIndex |-> m.lastIndex]
    <2>1. r \in InstallSnapshotResult /\ r.type = "InstallSnapshotReply"
      BY <1>1, <1>2 DEF InstallSnapshotResult
    <2>2. Answer(m, r)
      BY DEF InstallSnapshot, AnswerInstall
    <2> HIDE DEF r
    <2>3. r \in Message /\ ShapedRequest(r)
      BY <2>1 DEF Message, ShapedRequest
    <2> QED
      BY <2>2, <2>3, AnswerOK
  <1>4. UNCHANGED <<votes, nextIndex, matchIndex, applied, incarnation, committed>>
    BY DEF InstallSnapshot, leaderVars
  <1>5. CASE UNCHANGED <<persistent, state, commitIndex, pushing>>
    <2>1. VolatileOK'
      BY <1>4, <1>5 DEF VolatileOK
    <2> QED
      BY <1>3, <1>5, <2>1, PersistentUnchanged
  <1>6. CASE /\ m.term >= currentTerm[s]
             /\ FollowLeader(s, m.term)
             /\ UNCHANGED <<log, commitIndex, pushing>>
             /\ IF m.term > currentTerm[s] THEN Persist(s) ELSE UNCHANGED saved
    <2>1. VolatileOK'
      BY <1>4, <1>6 DEF VolatileOK, FollowLeader
    <2>2. PersistentOK'
      <3>1. CASE m.term > currentTerm[s]
        BY <1>1, <1>6, <3>1, FollowLeaderWrites, PersistsTermAndVote
      <3>2. CASE ~(m.term > currentTerm[s])
        <4>1. m.term = currentTerm[s]
          BY <1>1, <1>2, <1>6, <3>2
        <4>2. UNCHANGED <<currentTerm, votedFor, log, saved>>
          BY <1>6, <3>2, <4>1 DEF FollowLeader, PersistentOK
        <4> QED
          BY <4>2, PersistentUnchanged DEF persistent
      <3> QED
        BY <3>1, <3>2
    <2> QED
      BY <1>3, <2>1, <2>2
  <1>7. CASE /\ m.term >= currentTerm[s]
             /\ FollowLeader(s, m.term)
             /\ ~old
             /\ log' = [log EXCEPT ![s] = AfterSnapshot(@, m.lastIndex, m.lastTerm)]
             /\ commitIndex' = [commitIndex EXCEPT ![s] = m.lastIndex]
             /\ Save(s, m.data)
             /\ pushing' = [pushing EXCEPT ![s] = @ \cup {m.data}]
    <2> DEFINE l == log[s]
               r == AfterSnapshot(l, m.lastIndex, m.lastTerm)
    <2>1. m.lastIndex > FirstLog(l).index
      <3>1. FirstLog(l).index \in Nat
        BY <1>2, ContiguousPos
      <3> QED
        BY <1>1, <1>7, <3>1
    <2>2. LastLog(l).term <= m.term
      <3>1. LastLog(l).term \in Nat
        BY <1>2, LogBasics DEF Entry
      <3> QED
        <4>1. m.term >= currentTerm[s] /\ m.term \in Nat
          BY ONLY <1>1, <1>7
        <4>2. LastLog(l).term <= currentTerm[s] /\ currentTerm[s] \in Nat
          BY ONLY <1>2
        <4> QED
          BY ONLY <3>1, <4>1, <4>2
    <2>3. log' = [log EXCEPT ![s] = r]
      BY <1>7
    <2> HIDE DEF l, r
    <2>4. /\ r \in Log /\ Contiguous(r) /\ Sorted(r)
          /\ LastLog(r).term <= m.term /\ FirstLog(r).index = m.lastIndex
      <3>1. l \in Log /\ Contiguous(l) /\ Sorted(l)
        BY <1>2 DEF l
      <3>2. m.lastIndex \in Nat /\ m.lastTerm \in Nat /\ m.term \in Nat /\ m.lastTerm <= m.term
        BY ONLY <1>1
      <3>3. r = AfterSnapshot(l, m.lastIndex, m.lastTerm)
        BY DEF r
      <3> QED
        BY ONLY <2>1, <2>2, <3>1, <3>2, <3>3, AfterSnapshotShape
    <2>5. PersistentOK'
      <3>1. PICK v \in Server \cup {None} : /\ currentTerm' = [currentTerm EXCEPT ![s] = m.term]
                                            /\ votedFor' = [votedFor EXCEPT ![s] = v]
        BY <1>1, <1>7, FollowLeaderWrites
      <3>2. Save(s, m.data) /\ Len(m.data) = FirstLog(r).index
        BY <1>1, <1>7, <2>4
      <3> HIDE DEF s
      <3> QED
        BY <1>1, <2>3, <2>4, <3>1, <3>2, SavesState
    <2>6. VolatileOK'
      <3>1. commitIndex' \in [Server -> Nat] /\ pushing' \in [Server -> SUBSET Seq(Entry)]
        BY <1>1, <1>7 DEF VolatileOK
      <3>2. state' \in [Server -> {"FOLLOWER", "CANDIDATE", "LEADER"}]
        BY <1>7 DEF VolatileOK, FollowLeader
      <3> QED
        BY <1>4, <3>1, <3>2 DEF VolatileOK
    <2> QED
      BY <1>3, <2>5, <2>6
  <1> QED
    BY <1>5, <1>6, <1>7 DEF InstallSnapshot

\* handleInstallSnapshotResponse keeps the invariant.
LEMMA InstallSnapshotReplyOK ==
  ASSUME IInv, NEW m \in messages, InstallSnapshotReply(m)
  PROVE  IInv'
  <1> USE DEF IInv
  <1> DEFINE s == m.dst
  <1>0. m \in InstallSnapshotResult
    BY MessageKinds DEF MessagesOK, InstallSnapshotReply
  <1>1. m.src \in Server /\ s \in Server /\ m.term \in Nat /\ m.lastIndex \in Nat
    BY <1>0 DEF InstallSnapshotResult
  <1>2. MessagesOK'
    <2>1. messages' \subseteq messages
      BY DEF InstallSnapshotReply, Rest
    <2> QED
      BY <2>1, MessagesRest
  <1>3. UNCHANGED <<votes, commitIndex, applied, pushing, incarnation, committed>>
    BY DEF InstallSnapshotReply, serviceVars
  <1>4. CASE /\ m.term > currentTerm[s]
             /\ StepDown(s, m.term)
             /\ UNCHANGED <<nextIndex, matchIndex>>
    <2>1. PersistentOK'
      BY <1>1, <1>4, StepDownOK
    <2>2. VolatileOK'
      BY <1>3, <1>4 DEF VolatileOK, StepDown
    <2> QED
      BY <1>2, <2>1, <2>2
  <1>5. CASE MatchUpTo(s, m.src, m.lastIndex) /\ UNCHANGED <<persistent, state>>
    <2>1. VolatileOK'
      BY <1>1, <1>3, <1>5, MatchUpToOK DEF VolatileOK
    <2> QED
      BY <1>2, <1>5, <2>1, PersistentUnchanged
  <1> QED
    BY <1>4, <1>5 DEF InstallSnapshotReply

-----------------------------------------------------------------------------
(* The invariant.                                                          *)

\* Every step keeps the invariant.
LEMMA NextOK == IInv /\ [Next]_vars => IInv'
  <1> SUFFICES ASSUME IInv, [Next]_vars PROVE IInv'
    OBVIOUS
  <1>1. CASE UNCHANGED vars
    <2>1. PersistentOK'
      BY <1>1, PersistentUnchanged DEF IInv, vars, persistent
    <2>2. VolatileOK'
      BY <1>1 DEF IInv, VolatileOK, vars
    <2>3. MessagesOK'
      BY <1>1, MessagesRest DEF IInv, vars
    <2> QED
      BY <2>1, <2>2, <2>3 DEF IInv
  <1>2. ASSUME NEW s \in Server, ElectionTimeout(s) PROVE IInv'
    BY <1>2, ElectionTimeoutOK
  <1>3. ASSUME NEW s \in Server, Restart(s) PROVE IInv'
    BY <1>3, RestartOK
  <1>4. ASSUME NEW s \in Server, Apply(s) PROVE IInv'
    BY <1>4, ApplyOK
  <1>5. ASSUME NEW s \in Server, NEW cmd \in Command, Start(s, cmd) PROVE IInv'
    BY <1>5, StartOK
  <1>6. ASSUME NEW s \in Server, NEW p \in Server, ReplicateOneRound(s, p) PROVE IInv'
    BY <1>6, ReplicateOneRoundOK
  <1>7. ASSUME NEW s \in Server, NEW snapshot \in pushing[s], PushSnapshot(s, snapshot) PROVE IInv'
    BY <1>7, PushSnapshotOK
  <1>8. ASSUME NEW s \in Server, NEW index \in 1 .. MaxSnapshotIndex, Snapshot(s, index) PROVE IInv'
    BY <1>8, SnapshotOK
  <1>9. ASSUME NEW m \in messages, RequestVote(m) PROVE IInv'
    BY <1>9, RequestVoteOK
  <1>10. ASSUME NEW m \in messages, RequestVoteReply(m) PROVE IInv'
    BY <1>10, RequestVoteReplyOK
  <1>11. ASSUME NEW m \in messages, AppendEntries(m) PROVE IInv'
    BY <1>11, AppendEntriesOK
  <1>12. ASSUME NEW m \in messages, AppendEntriesReply(m) PROVE IInv'
    BY <1>12, AppendEntriesReplyOK
  <1>13. ASSUME NEW m \in messages, InstallSnapshot(m) PROVE IInv'
    BY <1>13, InstallSnapshotOK
  <1>14. ASSUME NEW m \in messages, InstallSnapshotReply(m) PROVE IInv'
    BY <1>14, InstallSnapshotReplyOK
  <1>15. ASSUME NEW m \in messages, Lose(m) PROVE IInv'
    BY <1>15, LoseOK
  <1> QED
    BY <1>1, <1>2, <1>3, <1>4, <1>5, <1>6, <1>7, <1>8, <1>9, <1>10, <1>11, <1>12,
       <1>13, <1>14, <1>15 DEF Next

\* The conjunction that the lemmas above show to be inductive holds always.
THEOREM Invariance == Spec => []IInv
  BY InitOK, NextOK, PTL DEF Spec

\* Every variable keeps its type, and no log is ever empty.
THEOREM TypeCorrect == Spec => []TypeOK
  <1>1. IInv => TypeOK
    BY IInvParts
  <1> QED
    BY <1>1, Invariance, PTL

\* Every handler leaves the persister with the term, vote and log in memory.
THEOREM Persisted == Spec => []PersistedState
  <1>1. IInv => PersistedState
    BY IInvParts
  <1> QED
    BY <1>1, Invariance, PTL

\* Logs stay contiguous and sorted, start where the stored snapshot ends, and
\* hold no entry of a term the server has not reached.
THEOREM LogsShaped == Spec => []LogShape
  <1>1. IInv => LogShape
    BY IInvParts
  <1> QED
    BY <1>1, Invariance, PTL

\* Requests in flight continue the log they were cut from.
THEOREM RequestsShaped == Spec => []RequestShape
  <1>1. IInv => RequestShape
    BY IInvParts
  <1> QED
    BY <1>1, Invariance, PTL

=============================================================================
