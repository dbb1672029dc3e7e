------------------------------- MODULE Tester -------------------------------
(***************************************************************************)
(* The harness of the Raft tests (raft/config.go) and of the replicated    *)
(* store's tests (kvraft/config.go) over the simulated network: it crashes *)
(* and starts servers step by step, while calls are in the network, and    *)
(* connects and disconnects them.                                          *)
(*                                                                         *)
(* disk[i] lists the persisters server i has had; the last is cfg.saved[i].*)
(* An instance goes by the number of its persister.  A persister holds the *)
(* calls whose handlers have saved their update in it.                     *)
(***************************************************************************)
EXTENDS LabRPC, Sequences

CONSTANTS
    MaxStarts,   \* bound: starts of servers, those of make_config not counted
    MaxSettings  \* bound: changes of the network's settings

ASSUME BoundsNat == MaxStarts \in Nat /\ MaxSettings \in Nat

VARIABLES
    lab,         \* whose harness it is, "raft" or "kv"
    disk,        \* the persisters
    made,        \* endnames[i]: the instance whose ends server i has
    connected,   \* connected[i], of the Raft harness
    tester,      \* where the harness is in crash1, start1, ShutdownServer, StartServer
    starts, settings  \* counts for the bounds

testVars == <<lab, disk, made, connected, tester, starts, settings>>

vars == <<netVars, testVars>>

Saved(i) == disk[i][Len(disk[i])]

Idle == [at |-> "idle"]

Steps == {"delete", "copy", "kill", "save", "make"}

TesterState == {Idle} \cup [at : Steps, i : Server, start : BOOLEAN]

\* The ends between server i and the servers in S, both ways.
Links(i, S) ==
    {End(i, made[i], j) : j \in S} \cup {End(j, made[j], i) : j \in S}

----------------------------------------------------------------------------
\* A caller: a clerk, or an instance of a server, replaced or not.
Begin(c) ==
    /\ \E e \in ends : MakeCall(c, e)
    /\ UNCHANGED testVars

\* The handler saves its update in its instance's persister, then returns.
Handle(c) ==
    LET i == calls[c].end.to IN
    /\ HandlerReturns(c)
    /\ disk' = [disk EXCEPT ![i][calls[c].inst] = @ \cup {c}]
    /\ UNCHANGED <<lab, made, connected, tester, starts, settings>>

Hang(c) == HandlerHangs(c) /\ UNCHANGED testVars

Carry(c) == Network(c) /\ UNCHANGED testVars

----------------------------------------------------------------------------
\* Mutant: the ends to servers off the net are enabled too.
connectAll(i) ==
    /\ connected' = [connected EXCEPT ![i] = TRUE]
    /\ Enable(Links(i, Server))

\* connect: the ends to and from the servers on the net, itself included.
connect(i) ==
    /\ connected' = [connected EXCEPT ![i] = TRUE]
    /\ Enable(Links(i, {j \in Server : connected'[j]}))

\* Mutant: only the incoming ends are disabled.
disconnectIncoming(i) ==
    /\ connected' = [connected EXCEPT ![i] = FALSE]
    /\ Disable({End(j, made[j], i) : j \in Server})

disconnect(i) ==
    /\ connected' = [connected EXCEPT ![i] = FALSE]
    /\ Disable(Links(i, Server))

Connect(i) ==
    /\ lab = "raft" /\ tester = Idle /\ servers[i] # 0
    /\ connect(i)
    /\ UNCHANGED <<ends, servers, reliable, reordering, done, calls, lab, disk, made, tester,
                   starts, settings>>

Disconnect(i) ==
    /\ lab = "raft" /\ tester = Idle
    /\ disconnect(i)
    /\ UNCHANGED <<ends, servers, reliable, reordering, done, calls, lab, disk, made, tester,
                   starts, settings>>

\* The ends between the servers in S and those in T.
Between(S, T) == UNION {Links(i, T) : i \in S}

\* ConnectAll and partition: the ends within each part, not those across.
Partition(S) ==
    LET T == Server \ S IN
    /\ lab = "kv" /\ tester = Idle /\ \A i \in Server : servers[i] # 0
    /\ enabled' = (enabled \ Between(S, T)) \cup Between(S, S) \cup Between(T, T)
    /\ UNCHANGED <<ends, servers, reliable, reordering, done, calls, testVars>>

ConnectClient(ck, S) ==
    /\ lab = "kv" /\ tester = Idle
    /\ Enable({End(ck, 0, j) : j \in S})
    /\ UNCHANGED <<ends, servers, reliable, reordering, done, calls, testVars>>

DisconnectClient(ck, S) ==
    /\ lab = "kv" /\ tester = Idle
    /\ Disable({End(ck, 0, j) : j \in S})
    /\ UNCHANGED <<ends, servers, reliable, reordering, done, calls, testVars>>

----------------------------------------------------------------------------
At(at) == tester # Idle /\ tester.at = at

\* The harness goes on to step at.
Goto(at) == tester' = [tester EXCEPT !.at = at]

\* crash1, start1 and ShutdownServer begin by taking the server off the net.
Crash(i) ==
    /\ tester = Idle
    /\ \E start \in BOOLEAN :
         /\ IF start THEN lab = "raft" /\ starts < MaxStarts ELSE servers[i] # 0
         /\ tester' = [at |-> "delete", i |-> i, start |-> start]
    /\ IF lab = "raft" THEN disconnect(i)
       ELSE Disable(Links(i, Server)) /\ UNCHANGED connected
    /\ UNCHANGED <<ends, servers, reliable, reordering, done, calls, lab, disk, made, starts,
                   settings>>

Delete ==
    /\ At("delete")
    /\ DeleteServer(tester.i)
    /\ Goto("copy")
    /\ UNCHANGED <<ends, enabled, reliable, reordering, done, calls, lab, disk, made, connected,
                   starts, settings>>

\* Persister.Copy: cfg.saved[i] is a fresh persister with the same contents.
Copied(i) == disk' = [disk EXCEPT ![i] = Append(@, Saved(i))]

Copy ==
    /\ At("copy")
    /\ Copied(tester.i)
    /\ Goto("kill")
    /\ UNCHANGED <<netVars, lab, made, connected, starts, settings>>

\* Kill, which no handler looks at; crash1 then copies the persister once more.
Kill ==
    /\ At("kill")
    /\ IF lab = "raft" THEN Copied(tester.i) ELSE UNCHANGED disk
    /\ IF tester.start THEN Goto("save") ELSE tester' = Idle
    /\ UNCHANGED <<netVars, lab, made, connected, starts, settings>>

\* StartServer, of a server that was shut down.
StartServer(i) ==
    /\ lab = "kv" /\ tester = Idle /\ servers[i] = 0 /\ starts < MaxStarts
    /\ tester' = [at |-> "save", i |-> i, start |-> TRUE]
    /\ UNCHANGED <<netVars, lab, disk, made, connected, starts, settings>>

\* The fresh ends of instance n of server i.
Named(i, n) ==
    /\ made' = [made EXCEPT ![i] = n]
    /\ MakeEnd({End(i, n, j) : j \in Server})

\* start1 and StartServer: fresh ends and a fresh persister for the new instance.
Save ==
    /\ At("save")
    /\ Copied(tester.i)
    /\ Named(tester.i, Len(disk[tester.i]) + 1)
    /\ starts' = starts + 1
    /\ Goto("make")
    /\ UNCHANGED <<enabled, servers, reliable, reordering, done, calls, lab, connected,
                   settings>>

\* The instance is made and registered.
Make ==
    /\ At("make")
    /\ AddServer(tester.i, Len(disk[tester.i]))
    /\ tester' = Idle
    /\ UNCHANGED <<ends, enabled, reliable, reordering, done, calls, lab, disk, made, connected,
                   starts, settings>>

\* The tests change the settings of the network, and close it at the end.
Settle ==
    /\ \/ settings < MaxSettings /\ settings' = settings + 1
          /\ (Reliable(~reliable) \/ LongReordering(~reordering))
       \/ Cleanup /\ UNCHANGED settings
    /\ UNCHANGED <<lab, disk, made, connected, tester, starts>>

----------------------------------------------------------------------------
\* makeClient, with no server in to.
ClientEnds == {End(ck, 0, j) : ck \in Client, j \in Server}

\* make_config: every server is started and on the net.
Init ==
    /\ lab \in {"raft", "kv"}
    /\ disk = [i \in Server |-> <<{}>>]
    /\ made = [i \in Server |-> 1]
    /\ servers = [i \in Server |-> 1]
    /\ connected = [i \in Server |-> TRUE]
    /\ enabled = {End(i, 1, j) : i, j \in Server}
    /\ ends = enabled \cup IF lab = "kv" THEN ClientEnds ELSE {}
    /\ reliable \in BOOLEAN
    /\ reordering = FALSE
    /\ done = FALSE
    /\ calls = [c \in Call |-> Unused]
    /\ tester = Idle
    /\ starts = 0
    /\ settings = 0

Calling == \E c \in Call : Begin(c) \/ Handle(c) \/ Hang(c) \/ Carry(c)

Linking ==
    \/ \E i \in Server : Connect(i) \/ Disconnect(i)
    \/ \E S \in SUBSET Server : Partition(S)
    \/ \E ck \in Client, S \in SUBSET Server : ConnectClient(ck, S) \/ DisconnectClient(ck, S)

Restarting ==
    \/ \E i \in Server : Crash(i) \/ StartServer(i)
    \/ Delete \/ Copy \/ Kill \/ Save \/ Make

Next == Calling \/ Linking \/ Restarting \/ Settle

Spec == Init /\ [][Next]_vars

\* The goroutines of a call and of its handler run on; the harness need not.
FairSpec ==
    Spec /\ \A c \in Call : WF_vars(Carry(c)) /\ WF_vars(Handle(c) \/ Hang(c))

----------------------------------------------------------------------------
\* A call that returns true has its update in the persister the server's next
\* instance starts from, whatever crashes come between the handler, the answer and
\* now (processReq's second isServerDead, and the order of crash1 and ShutdownServer).
NoLostUpdate ==
    \A c \in Call : calls[c].phase \in {"delayed", "true"} => c \in Saved(calls[c].end.to)

\* Only ends of the instance that is registered are enabled: the instance a restart
\* has replaced cannot send (start1's fresh ends, and disconnect before DeleteServer).
OldInstancesSilent ==
    \A e \in enabled : e.from \in Server => servers[e.from] = e.gen

\* Two servers of the Raft harness reach each other just when both are connected,
\* through every sequence of connect, disconnect, crash1 and start1.
LinksMatchConnected ==
    lab = "raft" =>
        \A i, j \in Server :
            End(i, made[i], j) \in enabled <=> connected[i] /\ connected[j]

\* Call returns unless its handler does not, on a server that is still there
\* (the loop of processReq that watches for the server's end).
CallsReturn ==
    \A c \in Call :
        calls[c].phase \in {"sent", "waiting", "delayed"}
            ~> \/ calls[c].phase \in {"true", "false"}
               \/ calls[c] # Unused /\ calls[c].handler = "hung" /\ ~isServerDead(c)
=============================================================================
