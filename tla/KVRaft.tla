------------------------------- MODULE KVRaft -------------------------------
(***************************************************************************)
(* The replicated key/value service of src/src/kvraft: clerks, the Command *)
(* handler with its notify channels, the applier with its duplicate        *)
(* detection, snapshots and restarts.  RaftGroup is the Raft below it.     *)
(*                                                                         *)
(* A handler holds kv.mu three times, for the duplicate check, to get its  *)
(* channel and to delete it, and calls rf.Start between the first two.     *)
(***************************************************************************)
EXTENDS RaftGroup

CONSTANTS
    Client,       \* the clerks
    Key,          \* keys
    Letter,       \* what Put and Append write; a value is a sequence of them
    First,        \* the server a clerk tries first
    Ring,         \* the server after each one in ck.servers
    Work,         \* the operations each clerk does, in order
    Turn,         \* the clerks in the order in which they begin them
    MaxRaftState, \* maxraftstate, in log entries
    MaxBusy,      \* bound: calls at the same time
    MaxLag,       \* bound: goroutines left behind that have not run
    MaxFaults     \* bound: failed calls, restarts, and timeouts that come too early

VARIABLES
    kv,           \* of each server: KVMp and duplicateMp, lastApplied
    chans,        \* of each server: the notify channels
    handlers,     \* the handlers that run
    clerk,        \* what each clerk does
    replay,       \* history: what executing the first n chosen entries leads to
    faults        \* count for the bound

vars == <<raftVars, kv, chans, handlers, clerk, replay, faults>>

-----------------------------------------------------------------------------
(* The state machine.                                                      *)

\* KVMp has a sequence of at most one value for each key.  duplicateMp has the
\* last sequence number of each client, 0 for none, and its response.
Empty == [mp |-> [k \in Key |-> <<>>],
          dup |-> [c \in Client |-> [seq |-> 0, response |-> <<>>]]]

isDuplicate(m, cmd) == cmd.seq <= m.dup[cmd.client].seq

Value(m, k) == IF m.mp[k] = <<>> THEN <<>> ELSE m.mp[k][1]

\* applyLogToKVStateMachine: what is left of the map, and what is returned.
Applied(m, o) ==
    IF o.op = "Get" THEN m.mp
    ELSE [m.mp EXCEPT ![o.key] = <<IF o.op = "Put" THEN o.arg ELSE Value(m, o.key) \o o.arg>>]

Response(m, o) == IF o.op = "Get" THEN Value(m, o.key) ELSE <<>>


\* applyLogToKVStateMachine and updateDuplicateMp.
Execute(m, cmd) ==
    [mp |-> Applied(m, cmd.op),
     dup |-> [m.dup EXCEPT ![cmd.client] =
                 [seq |-> cmd.seq, response |-> Response(m, cmd.op)]]]

-----------------------------------------------------------------------------
(* Clerks.                                                                 *)

Begun == FoldFunction(+, 0, [c \in Client |-> clerk[c].seq])

\* ck.Command is called.
Begin(c) ==
    /\ clerk[c].at = "idle"
    /\ Begun < Len(Turn) /\ Turn[Begun + 1] = c
    /\ Cardinality({d \in Client : clerk[d].at # "idle"}) < MaxBusy
    /\ clerk' = [clerk EXCEPT ![c].at = "calling", ![c].seq = @ + 1]
    /\ UNCHANGED <<raftVars, kv, chans, handlers, replay, faults>>

\* The call is not answered, or with ErrWrongLeader or ErrTimeOut: the clerk
\* tries the next server.
Retry(r) == [r EXCEPT !.at = "calling", !.response = <<>>, !.server = Ring[@]]

\* Call returns false: the request or the reply is lost, or the server is cut off
\* while the handler runs, and the handler goes on.
CallFails(c) ==
    /\ clerk[c].at # "idle"
    /\ faults < MaxFaults
    /\ faults' = faults + 1
    /\ clerk' = [clerk EXCEPT ![c] = Retry(@)]
    /\ UNCHANGED <<raftVars, kv, chans, handlers, replay>>

\* The answer OK, or ErrNoKey with an empty response, arrives.
Receive(c) ==
    /\ clerk[c].at = "answered"
    /\ clerk' = [clerk EXCEPT ![c].at = "idle", ![c].response = <<>>]
    /\ UNCHANGED <<raftVars, kv, chans, handlers, replay, faults>>

Answer(c, response) == [clerk EXCEPT ![c].at = "answered", ![c].response = response]

-----------------------------------------------------------------------------
(* The handler Command.                                                    *)

\* Which handler, for the channel it waits for.
Id(h) == [client |-> h.client, seq |-> h.seq, server |-> h.server]

Running == {h \in handlers : h.at # "deleting"}

\* The handler's clerk has not given up the call.
Awaited(h) ==
    clerk[h.client].at = "served" /\ clerk[h.client].seq = h.seq
        /\ clerk[h.client].server = h.server

\* The duplicate check.  A server handles a command of a clerk once at a time.
Check(c) ==
    LET h == [client |-> c, seq |-> clerk[c].seq, server |-> clerk[c].server,
              at |-> "checked", index |-> 0]
        m == kv[h.server].m
    IN
    /\ clerk[c].at = "calling"
    /\ \A g \in Running : Id(g) # Id(h)
    /\ \/ /\ isDuplicate(m, h)
          /\ clerk' = Answer(c, m.dup[c].response)
          /\ UNCHANGED handlers
       \/ /\ ~isDuplicate(m, h)
          /\ clerk' = [clerk EXCEPT ![c].at = "served"]
          /\ handlers' = handlers \cup {h}
    /\ UNCHANGED <<raftVars, kv, chans, replay, faults>>

\* The handlers when h has gone on to another place.
Moved(h, at) == (handlers \ {h}) \cup {[h EXCEPT !.at = at]}

\* The clerks when h returns ErrWrongLeader or ErrTimeOut.
Refused(h) == IF Awaited(h) THEN [clerk EXCEPT ![h.client] = Retry(@)] ELSE clerk

\* rf.Start
Start(h) ==
    /\ h.at = "checked"
    /\ \/ /\ h.server \notin leading
          /\ handlers' = handlers \ {h}
          /\ clerk' = Refused(h)
          /\ UNCHANGED log
       \/ /\ Submit(h.server, [client |-> h.client, seq |-> h.seq, op |-> Work[h.client][h.seq]])
          /\ handlers' = (handlers \ {h}) \cup
                {[h EXCEPT !.at = "started", !.index = Len(log[h.server]) + 1]}
          /\ UNCHANGED clerk
    /\ UNCHANGED <<term, leading, commit, snap, pushing, batch, taken, chosen,
                   kv, chans, replay, faults>>

\* A notify channel: its index, whether it is in notifyChMp, its buffer, and the
\* handlers that wait for it.
Channel(i) == [index |-> i, mapped |-> TRUE, buf |-> <<>>, holders |-> {}]

\* Mutant of getNotifyCh: the map is not looked at.
getNotifyChNew(s, i) == Channel(i)

\* getNotifyCh(i): the channel in the map, or a new one.
getNotifyCh(s, i) ==
    IF \E x \in chans[s] : x.mapped /\ x.index = i
    THEN CHOOSE x \in chans[s] : x.mapped /\ x.index = i
    ELSE Channel(i)

\* The channels of s with x replaced by y.  What nobody refers to is gone.
Replace(s, x, y) ==
    [chans EXCEPT ![s] = {z \in (@ \ {x}) \cup {y} : z.mapped \/ z.holders # {}}]

Wait(h) ==
    LET x == getNotifyCh(h.server, h.index) IN
    /\ h.at = "started"
    /\ handlers' = Moved(h, "waiting")
    /\ chans' = Replace(h.server, x, [x EXCEPT !.holders = @ \cup {Id(h)}])
    /\ UNCHANGED <<raftVars, kv, clerk, replay, faults>>

\* The channel h waits for.
Held(h) == CHOOSE x \in chans[h.server] : Id(h) \in x.holders

\* case rsp := <-ch
Notified(h) ==
    LET x == Held(h) IN
    /\ h.at = "waiting"
    /\ x.buf # <<>>
    /\ chans' = Replace(h.server, x, [x EXCEPT !.buf = Tail(@), !.holders = @ \ {Id(h)}])
    /\ handlers' = Moved(h, "deleting")
    /\ clerk' = IF Awaited(h) THEN Answer(h.client, Head(x.buf)) ELSE clerk
    /\ UNCHANGED <<raftVars, kv, replay, faults>>

\* The command of h will not be applied at its index in this term, or it has been
\* and the notification was not for h.
Hopeless(h) ==
    \/ h.server \notin leading
    \/ kv[h.server].lastApplied >= h.index
    \/ ~(h.index \in DOMAIN log[h.server]
            /\ log[h.server][h.index].term = term[h.server])

\* Mutant of TimeOut: the handler waits for its channel only.
TimeOutNever(h) == h.at = "waiting" /\ FALSE

\* case <-time.After(ExcuteTimeOut)
TimeOut(h) ==
    LET x == Held(h) IN
    /\ h.at = "waiting"
    /\ \/ Hopeless(h) /\ UNCHANGED faults
       \/ ~Hopeless(h) /\ faults < MaxFaults /\ faults' = faults + 1
    /\ chans' = Replace(h.server, x, [x EXCEPT !.holders = @ \ {Id(h)}])
    /\ handlers' = Moved(h, "deleting")
    /\ clerk' = Refused(h)
    /\ UNCHANGED <<raftVars, kv, replay>>

\* The goroutine the handler leaves behind: delete(kv.notifyChMp, commandIndex)
Delete(h) ==
    LET x == getNotifyCh(h.server, h.index) IN
    /\ h.at = "deleting"
    /\ handlers' = handlers \ {h}
    /\ chans' = IF x \in chans[h.server]
                THEN Replace(h.server, x, [x EXCEPT !.mapped = FALSE]) ELSE chans
    /\ UNCHANGED <<raftVars, kv, clerk, replay, faults>>

-----------------------------------------------------------------------------
(* The applier.                                                            *)

\* What comes out of applyCh next, if it is an entry.
Message(s) == Batch(s)[1]

\* The entry is older than a snapshot, or its command was applied before.
Skips(s) == Message(s).index < kv[s].lastApplied

Ignores(s) == Skips(s) \/ isDuplicate(kv[s].m, Message(s).entry.cmd)

Notifies(s) == ~Ignores(s) /\ s \in leading /\ Message(s).entry.term = term[s]

needTakeSnapShot(s) == MaxRaftState <= Len(log[s]) - snap[s].index

\* Mutant of Room: the channel has no buffer.
RoomUnbuffered(x) == x.holders # {}

\* ch <- does not block: the channel has a buffer of one message.
Room(x) == Len(x.buf) < 1

\* The command is applied, the handler that waits at this index is notified, and
\* a snapshot is taken if the log has grown enough.
ApplyEntry(s) ==
    LET i == Message(s).index
        cmd == Message(s).entry.cmd
        m == Execute(kv[s].m, cmd)
        x == getNotifyCh(s, i)
    IN
    /\ PushEntry(s)
    /\ ~Ignores(s)
    /\ Notifies(s) => Room(x)
    /\ kv' = [kv EXCEPT ![s] = [m |-> m, lastApplied |-> i]]
    /\ chans' = IF Notifies(s)
                THEN Replace(s, x, [x EXCEPT !.buf = Append(@, m.dup[cmd.client].response)])
                ELSE chans
    /\ snap' = IF needTakeSnapShot(s) THEN TakeSnapshot(s, i, m) ELSE snap
    /\ UNCHANGED <<term, leading, log, commit, pushing, chosen,
                   handlers, clerk, replay, faults>>

IgnoreEntry(s) ==
    /\ PushEntry(s)
    /\ Ignores(s)
    /\ kv' = IF Skips(s) THEN kv ELSE [kv EXCEPT ![s].lastApplied = Message(s).index]
    /\ UNCHANGED <<term, leading, log, commit, snap, pushing, chosen,
                   chans, handlers, clerk, replay, faults>>


needRestoreSnapShot(s, x) == term[s] >= x.term /\ x.index > kv[s].lastApplied

\* A snapshot comes out of applyCh.
ApplySnapshot(s, x) ==
    /\ PushSnapshot(s, x)
    /\ kv' = IF needRestoreSnapShot(s, x)
             THEN [kv EXCEPT ![s] = [m |-> x.data, lastApplied |-> x.index]] ELSE kv
    /\ UNCHANGED <<term, leading, log, commit, snap, batch, chosen,
                   chans, handlers, clerk, replay, faults>>

\* ShutdownServer and StartKVServer.  The calls the server was handling fail.
Restart(s) ==
    /\ faults < MaxFaults
    /\ faults' = faults + 1
    /\ RaftRestart(s)
    /\ kv' = [kv EXCEPT ![s] = [m |-> Empty, lastApplied |-> 0]]
    /\ chans' = [chans EXCEPT ![s] = {}]
    /\ handlers' = {h \in handlers : h.server # s}
    /\ clerk' = [c \in Client |->
          IF clerk[c].server = s /\ clerk[c].at = "served" THEN Retry(clerk[c]) ELSE clerk[c]]
    /\ UNCHANGED replay

-----------------------------------------------------------------------------

Init ==
    /\ RaftInit(Empty)
    /\ kv = [s \in Server |-> [m |-> Empty, lastApplied |-> 0]]
    /\ chans = [s \in Server |-> {}]
    /\ handlers = {}
    /\ clerk = [c \in Client |->
                   [at |-> "idle", seq |-> 0, server |-> First, response |-> <<>>]]
    /\ replay = <<Empty>>
    /\ faults = 0

\* What one committed command makes of the state machine.
Step(m, cmd) == IF isDuplicate(m, cmd) THEN m ELSE Execute(m, cmd)

Raft ==
    /\ \/ RaftStep
       \/ \E s \in Server : Elect(s)
    /\ replay' = IF chosen' = chosen THEN replay
                 ELSE Append(replay, Step(Last(replay), Last(chosen').cmd))
    /\ UNCHANGED <<kv, chans, handlers, clerk, faults>>

Apply(s) ==
    \/ ApplyEntry(s) \/ IgnoreEntry(s)
    \/ \E x \in pushing[s] : ApplySnapshot(s, x)

\* At most MaxLag of the goroutines that delete a channel lag behind.
Next ==
    \/ \E h \in handlers : Delete(h)
    \/ /\ Cardinality(handlers \ Running) <= MaxLag
       /\ \/ \E c \in Client : Begin(c) \/ CallFails(c) \/ Check(c) \/ Receive(c)
          \/ \E h \in handlers : Start(h) \/ Wait(h) \/ Notified(h) \/ TimeOut(h)
          \/ \E s \in Server : Apply(s) \/ Restart(s)
          \/ Raft

Spec == Init /\ [][Next]_vars

Handle(s) ==
    \E h \in handlers :
        /\ h.server = s
        /\ Start(h) \/ Wait(h) \/ Notified(h) \/ TimeOut(h) \/ Delete(h)

\* Goroutines run, and calls return: labrpc answers each one in the end.
Fairness ==
    /\ \A s \in Server : WF_vars(Handle(s))
    /\ WF_vars(\E c \in Client : Check(c) \/ Receive(c))
    /\ WF_vars(\E s \in Server : Apply(s))
    /\ WF_vars(Raft /\ RaftStep)

FairSpec == Spec /\ Fairness

-----------------------------------------------------------------------------
(* Properties.                                                             *)

\* Type invariant.  A handler that waits holds exactly one channel, of the index
\* Start returned to it, and notifyChMp has one channel for an index.
TypeOK ==
    /\ faults \in 0 .. MaxFaults
    /\ \A c \in Client :
          /\ clerk[c].at \in {"idle", "calling", "served", "answered"}
          /\ clerk[c].seq \in 0 .. Len(Work[c])
          /\ clerk[c].at = "served" => \E h \in Running : h.client = c /\ Awaited(h)
    /\ \A h \in handlers :
          /\ h.at \in {"checked", "started", "waiting", "deleting"}
          /\ h.at = "waiting" =>
                \E x \in chans[h.server] : Id(h) \in x.holders /\ x.index = h.index
    /\ \A s \in Server : \A x, y \in chans[s] :
          /\ x.holders \subseteq {Id(h) : h \in Running}
          /\ x # y => x.holders \cap y.holders = {}
          /\ x # y /\ x.mapped /\ y.mapped => x.index # y.index


\* The applier, which holds kv.mu, never blocks on ch <-: not when the handler has
\* timed out, and not when it has yet to ask for its channel.
NotifyNeverBlocks ==
    \A s \in Server :
        Batch(s) # <<>> /\ Notifies(s) => Room(getNotifyCh(s, Message(s).index))

\* A handler answers OK only when its command has been applied (common.go says so
\* of the status OK).
OKMeansApplied ==
    \A c \in Client :
        clerk[c].at = "answered" => Last(replay).dup[c].seq >= clerk[c].seq

KV == INSTANCE KVStore WITH
    ReturnsOld <- FALSE,
    store <- [k \in Key |-> Value(Last(replay), k)],
    call <- [c \in Client |->
        IF clerk[c].at = "idle" THEN <<>> ELSE <<Work[c][clerk[c].seq]>>],
    result <- [c \in Client |->
        IF clerk[c].at = "idle" THEN <<>>
        ELSE IF clerk[c].at = "answered" THEN <<clerk[c].response>>
        ELSE IF Last(replay).dup[c].seq >= clerk[c].seq THEN <<Last(replay).dup[c].response>>
        ELSE <<>>]

\* The service implements KVStore: each operation takes effect exactly once, when
\* its first copy is committed, and its clerk gets the result of that moment,
\* through retries at other servers, duplicates in the log and new leaders.
Linearizable == KV!Spec

\* Once a leader stays (and its log is not full) every call returns: a handler that
\* is never notified times out and the retry finds the duplicate.
CallsReturn ==
    <>[](/\ \E s \in leading : term[s] = Newest
         /\ \A s \in Server : Len(log[s]) < MaxIndex)
        => \A c \in Client : clerk[c].at # "idle" ~> clerk[c].at = "idle"

=============================================================================
