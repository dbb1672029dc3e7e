---------------------------- MODULE TesterProofs ----------------------------
(***************************************************************************)
(* Proofs about Tester, for any servers, clients and calls and any number  *)
(* of crashes: no acknowledged update is lost, and replaced instances are  *)
(* silent.                                                                 *)
(***************************************************************************)
EXTENDS Tester, TLAPS

\* Every leaf is tried with Zenon for a moment, then with SMT, then with each of
\* them for longer.
USE ZenonT(2), SMTT(10), ZenonT(20), SMTT(40)

Types ==
    /\ enabled \subseteq Ends /\ ends \subseteq Ends
    /\ servers \in [Server -> Nat]
    /\ reliable \in BOOLEAN /\ reordering \in BOOLEAN
    /\ calls \in [Call -> CallState]
    /\ lab \in {"raft", "kv"}
    /\ disk \in [Server -> Seq(SUBSET Call)]
    /\ made \in [Server -> Nat]
    /\ connected \in [Server -> BOOLEAN]
    /\ tester \in TesterState

\* A registered instance is the one that was started last, and its persister is the
\* one that is saved.
RegisteredIsLast ==
    \A i \in Server :
        /\ Len(disk[i]) >= 1
        /\ servers[i] # 0 => servers[i] = Len(disk[i]) /\ made[i] = servers[i]

\* While the harness crashes or starts a server, the server is off the net, and from
\* DeleteServer to AddServer it is not registered.
WorkedOn ==
    tester # Idle =>
        /\ tester.at # "delete" => servers[tester.i] = 0
        /\ tester.at = "make" => made[tester.i] = Len(disk[tester.i])
        /\ \A e \in enabled : e.from # tester.i
        /\ lab = "raft" => ~connected[tester.i]

ConnectedIsRegistered ==
    lab = "raft" => \A i \in Server : connected[i] => servers[i] # 0

EnabledIsRegistered ==
    \A e \in enabled : e.from \in Server => e.gen # 0 /\ servers[e.from] = e.gen

\* What is known of call c: its handler ran on an instance that exists, has saved its
\* update there when it returned, and the update is saved when the answer is positive.
CallOK(c) ==
    calls[c] # Unused =>
        LET i == calls[c].end.to IN
        /\ calls[c].handler # "none" => calls[c].inst \in 1 .. Len(disk[i])
        /\ calls[c].handler = "returned" => c \in disk[i][calls[c].inst]
        /\ calls[c].phase \in {"delayed", "true"} => c \in Saved(i)

IInv ==
    /\ Types
    /\ RegisteredIsLast
    /\ WorkedOn
    /\ ConnectedIsRegistered
    /\ EnabledIsRegistered
    /\ \A c \in Call : CallOK(c)

----------------------------------------------------------------------------
(* Persisters only grow.                                                   *)

Grows(i) ==
    /\ Len(disk[i]) <= Len(disk'[i])
    /\ \A k \in 1 .. Len(disk[i]) : disk[i][k] \subseteq disk'[i][k]
    /\ Saved(i) \subseteq Saved(i)'

\* A fresh copy adds one persister with the contents of the last.
LEMMA CopyGrows ==
  ASSUME Types, RegisteredIsLast, NEW i \in Server, Copied(i)
  PROVE  /\ disk' \in [Server -> Seq(SUBSET Call)]
         /\ Len(disk'[i]) = Len(disk[i]) + 1
         /\ \A j \in Server : j # i => disk'[j] = disk[j]
         /\ \A j \in Server : Grows(j)
  <1>1. disk[i] \in Seq(SUBSET Call) /\ Len(disk[i]) >= 1 /\ Len(disk[i]) \in Nat
    BY DEF Types, RegisteredIsLast
  <1>2. Saved(i) \in SUBSET Call
    BY <1>1 DEF Saved
  <1>3. disk'[i] = Append(disk[i], Saved(i)) /\ \A j \in Server : j # i => disk'[j] = disk[j]
    BY DEF Copied, Types
  <1>4. disk' \in [Server -> Seq(SUBSET Call)] /\ Len(disk'[i]) = Len(disk[i]) + 1
    BY <1>1, <1>2, <1>3 DEF Copied, Types
  <1>5. Grows(i)
    BY <1>1, <1>2, <1>3 DEF Grows, Saved
  <1>6. ASSUME NEW j \in Server, j # i PROVE Grows(j)
    BY <1>3, <1>6 DEF Grows, Saved, Types
  <1> QED
    BY <1>3, <1>4, <1>5, <1>6

\* What is known of a call stays true while the call rests and persisters grow.
LEMMA RestingCall ==
  ASSUME Types, NEW c \in Call, CallOK(c), calls'[c] = calls[c], \A j \in Server : Grows(j)
  PROVE  CallOK(c)'
  <1> SUFFICES ASSUME calls[c] # Unused PROVE CallOK(c)'
    BY DEF CallOK, Unused
  <1> DEFINE i == calls[c].end.to
  <1>1. i \in Server
    BY DEF Types, CallState, Ends
  <1>2. Grows(i) /\ disk[i] \in Seq(SUBSET Call) /\ calls[c].inst \in Nat
    BY <1>1 DEF Types, CallState
  <1>3. Len(disk[i]) \in Nat
    BY <1>2
  <1> QED
    BY <1>2, <1>3 DEF CallOK, Grows

\* So it does for every call in a step that leaves the calls alone.
LEMMA RestingCalls ==
  ASSUME IInv, UNCHANGED calls, \A j \in Server : Grows(j)
  PROVE  \A c \in Call : CallOK(c)'
  BY RestingCall DEF IInv

\* Persisters that are left alone have grown, too.
LEMMA SameDiskGrows ==
  ASSUME Types, UNCHANGED disk
  PROVE  \A j \in Server : Grows(j)
  BY DEF Grows, Types, Saved

----------------------------------------------------------------------------
(* The calls.                                                              *)

LEMMA BeginStep ==
  ASSUME IInv, NEW c \in Call, Begin(c)
  PROVE  IInv'
  <1>1. PICK e \in ends : MakeCall(c, e)
    BY DEF Begin
  <1>2. UNCHANGED <<Settings, testVars>>
    BY <1>1 DEF MakeCall, Begin
  <1>3. PICK p \in {"sent", "false"} :
          calls' = [calls EXCEPT ![c] =
                      [phase |-> p, end |-> e, inst |-> 0, reliable |-> TRUE,
                       reordering |-> FALSE, handler |-> "none"]]
    BY <1>1 DEF MakeCall
  <1>4. Types'
    BY <1>2, <1>3 DEF IInv, Types, Settings, testVars, CallState
  <1>5. CallOK(c)'
    BY <1>3 DEF IInv, Types, CallOK
  <1>6. ASSUME NEW d \in Call, d # c PROVE CallOK(d)'
    <2>1. calls'[d] = calls[d]
      BY <1>3, <1>6 DEF IInv, Types
    <2> QED
      BY <2>1, <1>2, SameDiskGrows, RestingCall DEF IInv, testVars
  <1> QED
    BY <1>2, <1>4, <1>5, <1>6
    DEF IInv, RegisteredIsLast, WorkedOn, ConnectedIsRegistered, EnabledIsRegistered, Settings,
        testVars

\* A handler adds its call to a persister.
LEMMA Added ==
  ASSUME NEW s \in Seq(SUBSET Call), NEW k \in 1 .. Len(s), NEW c \in Call,
         NEW t, t = [s EXCEPT ![k] = s[k] \cup {c}]
  PROVE  /\ t \in Seq(SUBSET Call) /\ Len(t) = Len(s) /\ c \in t[k]
         /\ Len(s) \in 1 .. Len(s)
         /\ \A m \in 1 .. Len(s) : s[m] \subseteq t[m]
  <1>1. DOMAIN s = 1 .. Len(s) /\ Len(s) \in Nat /\ s \in [1 .. Len(s) -> SUBSET Call]
    OBVIOUS
  <1>2. t \in [1 .. Len(s) -> SUBSET Call]
    BY <1>1
  <1>3. t \in Seq(SUBSET Call) /\ Len(t) = Len(s)
    BY <1>1, <1>2
  <1>4. c \in t[k] /\ \A m \in 1 .. Len(s) : s[m] \subseteq t[m]
    BY <1>1
  <1>5. Len(s) \in 1 .. Len(s)
    BY <1>1
  <1> QED
    BY <1>3, <1>4, <1>5

LEMMA HandleStep ==
  ASSUME IInv, NEW c \in Call, Handle(c)
  PROVE  IInv'
  <1> DEFINE i == calls[c].end.to
             k == calls[c].inst
  <1>1. calls[c] # Unused /\ calls[c] \in CallState /\ calls[c].handler = "running"
    BY DEF Handle, HandlerReturns, IInv, Types
  <1>2. i \in Server /\ k \in 1 .. Len(disk[i]) /\ disk[i] \in Seq(SUBSET Call)
    BY <1>1 DEF IInv, Types, CallOK, CallState, Ends
  <1>3. /\ disk'[i] = [disk[i] EXCEPT ![k] = disk[i][k] \cup {c}]
        /\ \A j \in Server : j # i => disk'[j] = disk[j]
    <2>1. disk' = [disk EXCEPT ![i] = [disk[i] EXCEPT ![k] = disk[i][k] \cup {c}]]
      BY DEF Handle
    <2> QED
      BY <1>2, <2>1 DEF IInv, Types
  <1>4. /\ disk'[i] \in Seq(SUBSET Call) /\ Len(disk'[i]) = Len(disk[i]) /\ c \in disk'[i][k]
        /\ Len(disk[i]) \in 1 .. Len(disk[i])
        /\ \A m \in 1 .. Len(disk[i]) : disk[i][m] \subseteq disk'[i][m]
    <2> HIDE DEF i, k
    <2> QED
      BY <1>2, <1>3, Added
  <1>5. disk' \in [Server -> Seq(SUBSET Call)]
    BY <1>2, <1>3, <1>4 DEF Handle, IInv, Types
  <1>6. ASSUME NEW j \in Server PROVE Len(disk'[j]) = Len(disk[j]) /\ Grows(j)
    <2>1. CASE j = i
      <3> HIDE DEF i, k
      <3> QED
        BY <1>4, <2>1 DEF Grows, Saved
    <2>2. CASE j # i
      BY <1>3, <2>2 DEF Grows, Saved, IInv, Types
    <2> QED
      BY <2>1, <2>2
  <1>7. calls' = [calls EXCEPT ![c].handler = "returned"] /\ UNCHANGED Settings
        /\ UNCHANGED <<lab, made, connected, tester>>
    BY DEF Handle, HandlerReturns
  <1>8. /\ calls'[c] \in CallState
        /\ calls'[c].end = calls[c].end /\ calls'[c].inst = k
        /\ calls'[c].phase = calls[c].phase /\ calls'[c].handler = "returned"
    BY <1>1, <1>7 DEF IInv, Types, CallState, Unused
  <1>9. Types'
    BY <1>5, <1>7, <1>8 DEF IInv, Types, Settings
  <1>10. CallOK(c)'
    BY <1>1, <1>2, <1>4, <1>6, <1>8 DEF IInv, CallOK, Grows
  <1>11. ASSUME NEW d \in Call, d # c PROVE CallOK(d)'
    <2>1. calls'[d] = calls[d]
      BY <1>7, <1>11 DEF IInv, Types
    <2> QED
      BY <2>1, <1>6, RestingCall DEF IInv
  <1> QED
    BY <1>6, <1>7, <1>9, <1>10, <1>11
    DEF IInv, RegisteredIsLast, WorkedOn, ConnectedIsRegistered, EnabledIsRegistered, Settings,
        TesterState, Types

\* A step of call c that keeps its end and leaves all but the calls alone.
LEMMA CallStep ==
  ASSUME IInv, NEW c \in Call, UNCHANGED <<Settings, testVars>>, CallOK(c)',
         NEW r \in CallState, calls' = [calls EXCEPT ![c] = r]
  PROVE  IInv'
  <1>1. Types'
    BY DEF IInv, Types, Settings, testVars
  <1>2. ASSUME NEW d \in Call, d # c PROVE CallOK(d)'
    <2>1. calls'[d] = calls[d]
      BY <1>2 DEF IInv, Types
    <2> QED
      BY <2>1, SameDiskGrows, RestingCall DEF IInv, testVars
  <1> QED
    BY <1>1, <1>2
    DEF IInv, RegisteredIsLast, WorkedOn, ConnectedIsRegistered, EnabledIsRegistered, Settings,
        testVars

LEMMA HangStep ==
  ASSUME IInv, NEW c \in Call, Hang(c)
  PROVE  IInv'
  <1> DEFINE r == [calls[c] EXCEPT !.handler = "hung"]
  <1>1. calls[c] # Unused /\ calls[c] \in CallState /\ calls[c].handler = "running"
    BY DEF Hang, HandlerHangs, IInv, Types
  <1>2. /\ calls' = [calls EXCEPT ![c] = r] /\ calls'[c] = r
        /\ UNCHANGED <<Settings, testVars>>
    BY DEF Hang, HandlerHangs, IInv, Types
  <1>3. /\ r \in CallState
        /\ r.end = calls[c].end /\ r.inst = calls[c].inst /\ r.phase = calls[c].phase
        /\ r.handler = "hung"
    BY <1>1 DEF CallState, Unused
  <1>4. CallOK(c)'
    BY <1>1, <1>2, <1>3 DEF IInv, CallOK, testVars, Saved
  <1> HIDE DEF r
  <1> QED
    BY <1>2, <1>3, <1>4, CallStep

\* A step that only sets the phase of c, to one that its persister allows.
LEMMA SetStep ==
  ASSUME IInv, NEW c \in Call, NEW p \in {"delayed", "true", "false"},
         calls[c] # Unused, Set(c, p), UNCHANGED <<Settings, testVars>>,
         p # "false" => c \in Saved(calls[c].end.to)
  PROVE  IInv'
  <1> DEFINE r == [calls[c] EXCEPT !.phase = p]
  <1>1. calls[c] \in CallState
    BY DEF IInv, Types
  <1>2. calls' = [calls EXCEPT ![c] = r] /\ calls'[c] = r
    BY DEF Set, IInv, Types
  <1>3. /\ r \in CallState
        /\ r.end = calls[c].end /\ r.inst = calls[c].inst /\ r.phase = p
        /\ r.handler = calls[c].handler
    BY <1>1 DEF CallState, Unused
  <1>4. CallOK(c)'
    BY <1>1, <1>2, <1>3 DEF IInv, CallOK, testVars, Saved
  <1> HIDE DEF r
  <1> QED
    BY <1>2, <1>3, <1>4, CallStep

LEMMA CarryStep ==
  ASSUME IInv, NEW c \in Call, Carry(c)
  PROVE  IInv'
  <1> DEFINE e == calls[c].end
             i == e.to
  <1>1. UNCHANGED <<Settings, testVars>>
    BY DEF Carry, Network, Process, GiveUp, Reply, Deliver
  <1>2. calls[c] # Unused /\ calls[c] \in CallState
    BY DEF Carry, Network, Process, GiveUp, Reply, Deliver, Unused, IInv, Types
  <1>3. i \in Server /\ calls[c].inst \in Nat
    BY <1>2 DEF CallState, Ends
  <1>4. Len(disk[i]) \in Nat /\ servers[i] \in Nat
        /\ (servers[i] # 0 => servers[i] = Len(disk[i]))
    BY <1>3 DEF IInv, Types, RegisteredIsLast
  <1>5. CASE Process(c)
    <2>1. CASE Set(c, "false")
      BY <1>1, <1>2, <2>1, SetStep
    <2>2. CASE ~Set(c, "false")
      <3> DEFINE r == [calls[c] EXCEPT !.phase = "waiting", !.handler = "running",
                                       !.inst = servers[i], !.reliable = reliable,
                                       !.reordering = reordering]
      <3>1. servers[i] # 0
        BY <1>5, <2>2 DEF Process, Target
      <3>2. calls' = [calls EXCEPT ![c] = r] /\ calls'[c] = r
        BY <1>5, <2>2 DEF Process, IInv, Types
      <3>3. r \in CallState
        BY <1>2, <1>4 DEF CallState, Unused, IInv, Types
      <3>4. r.end = e /\ r.inst = servers[i] /\ r.phase = "waiting" /\ r.handler = "running"
        BY <1>2 DEF CallState, Unused
      <3> HIDE DEF r
      <3>5. CallOK(c)'
        BY <1>1, <1>4, <3>1, <3>2, <3>4 DEF CallOK, testVars
      <3> QED
        BY <1>1, <3>2, <3>3, <3>5, CallStep
    <2> QED
      BY <2>1, <2>2
  <1>6. CASE GiveUp(c)
    BY <1>1, <1>2, <1>6, SetStep DEF GiveUp
  <1>7. CASE Reply(c)
    <2>1. CASE Set(c, "false")
      BY <1>1, <1>2, <2>1, SetStep
    <2>2. CASE ~Set(c, "false")
      <3>1. ~isServerDead(c) /\ calls[c].handler = "returned"
            /\ \E p \in {"delayed", "true"} : Set(c, p)
        BY <1>7, <2>2 DEF Reply
      <3>2. servers[i] = calls[c].inst
        BY <3>1 DEF isServerDead
      <3>3. c \in disk[i][calls[c].inst] /\ calls[c].inst \in 1 .. Len(disk[i])
        BY <1>2, <3>1 DEF IInv, CallOK
      <3>4. c \in Saved(i)
        BY <1>4, <3>2, <3>3 DEF Saved
      <3> QED
        BY <1>1, <1>2, <3>1, <3>4, SetStep
    <2> QED
      BY <2>1, <2>2
  <1>8. CASE Deliver(c)
    BY <1>1, <1>2, <1>8, SetStep DEF Deliver, IInv, CallOK
  <1> QED
    BY <1>5, <1>6, <1>7, <1>8 DEF Carry, Network

----------------------------------------------------------------------------
(* The links.                                                              *)

LEMMA LinkTypes ==
  ASSUME Types, NEW i \in Server, NEW S \in SUBSET Server
  PROVE  /\ Links(i, S) \subseteq Ends
         /\ \A e \in Links(i, S) : e.from \in S \cup {i} /\ e.gen = made[e.from]
  BY DEF Types, Links, End, Ends

\* A step that changes enabled and connected only, when the harness is idle.
LEMMA LinkStep ==
  ASSUME IInv, tester = Idle, EnabledIsRegistered', ConnectedIsRegistered',
         enabled' \subseteq Ends, connected' \in [Server -> BOOLEAN],
         UNCHANGED <<ends, servers, reliable, reordering, done, calls, lab, disk, made, tester,
                     starts, settings>>
  PROVE  IInv'
  <1>1. \A c \in Call : CallOK(c)'
    BY SameDiskGrows, RestingCalls DEF IInv
  <1> QED
    BY <1>1 DEF IInv, Types, RegisteredIsLast, WorkedOn

LEMMA LinkingStep ==
  ASSUME IInv, Linking
  PROVE  IInv'
  <1>1. ASSUME NEW i \in Server, Connect(i) PROVE IInv'
    <2> DEFINE S == {j \in Server : connected'[j]}
    <2>1. connected' = [connected EXCEPT ![i] = TRUE] /\ enabled' = enabled \cup Links(i, S)
      BY <1>1 DEF Connect, connect, Enable
    <2>2. connected' \in [Server -> BOOLEAN]
      BY <2>1 DEF IInv, Types
    <2>3. \A j \in S : servers[j] # 0 /\ made[j] = servers[j]
      BY <1>1, <2>1 DEF Connect, IInv, Types, ConnectedIsRegistered, RegisteredIsLast
    <2>4. i \in S
      BY <2>1 DEF IInv, Types
    <2>5. Links(i, S) \subseteq Ends
          /\ \A e \in Links(i, S) : e.from \in S /\ e.gen = made[e.from]
      BY <2>4, LinkTypes DEF IInv
    <2>6. UNCHANGED <<servers, lab>>
      BY <1>1 DEF Connect
    <2>7. EnabledIsRegistered'
      BY <2>1, <2>3, <2>5, <2>6 DEF IInv, EnabledIsRegistered
    <2>8. ConnectedIsRegistered'
      BY <2>3, <2>6 DEF ConnectedIsRegistered
    <2> QED
      BY <1>1, <2>1, <2>2, <2>5, <2>7, <2>8, LinkStep DEF Connect, IInv, Types
  <1>2. ASSUME NEW i \in Server, Disconnect(i) PROVE IInv'
    <2>1. /\ connected' = [connected EXCEPT ![i] = FALSE]
          /\ enabled' \subseteq enabled /\ UNCHANGED <<servers, lab>>
      BY <1>2 DEF Disconnect, disconnect, Disable
    <2>2. EnabledIsRegistered' /\ ConnectedIsRegistered' /\ connected' \in [Server -> BOOLEAN]
          /\ enabled' \subseteq Ends
      BY <2>1 DEF IInv, EnabledIsRegistered, ConnectedIsRegistered, Types
    <2> QED
      BY <1>2, <2>2, LinkStep DEF Disconnect
  <1>3. ASSUME NEW S \in SUBSET Server, Partition(S) PROVE IInv'
    <2>1. ASSUME NEW e \in enabled', e \notin enabled
          PROVE  e \in Ends /\ e.from \in Server /\ e.gen = made[e.from]
      <3>1. PICK i \in Server, T \in SUBSET Server : e \in Links(i, T)
        <4>1. \/ \E i \in S : e \in Links(i, S)
              \/ \E i \in Server \ S : e \in Links(i, Server \ S)
          <5>1. e \in Between(S, S) \/ e \in Between(Server \ S, Server \ S)
            BY <1>3, <2>1 DEF Partition
          <5> QED
            BY <5>1 DEF Between
        <4>2. S \in SUBSET Server /\ Server \ S \in SUBSET Server
          OBVIOUS
        <4> QED
          BY <4>1, <4>2
      <3> QED
        BY <3>1, LinkTypes DEF IInv
    <2>2. UNCHANGED <<connected, servers, lab>> /\ \A i \in Server : servers[i] # 0
      BY <1>3 DEF Partition, testVars
    <2>3. EnabledIsRegistered' /\ ConnectedIsRegistered' /\ connected' \in [Server -> BOOLEAN]
          /\ enabled' \subseteq Ends
      BY <2>1, <2>2
      DEF IInv, EnabledIsRegistered, ConnectedIsRegistered, Types, RegisteredIsLast
    <2> QED
      BY <1>3, <2>3, LinkStep DEF Partition, testVars
  <1>4. ASSUME NEW ck \in Client, NEW S \in SUBSET Server,
               ConnectClient(ck, S) \/ DisconnectClient(ck, S)
        PROVE  IInv'
    <2>1. ASSUME NEW e \in enabled', e \notin enabled PROVE e \in Ends /\ e.from \notin Server
      BY <1>4, <2>1, OwnersDistinct
      DEF ConnectClient, DisconnectClient, Enable, Disable, End, Ends
    <2>2. UNCHANGED <<connected, servers, lab>>
      BY <1>4 DEF ConnectClient, DisconnectClient, testVars
    <2>3. EnabledIsRegistered' /\ ConnectedIsRegistered' /\ connected' \in [Server -> BOOLEAN]
          /\ enabled' \subseteq Ends
      BY <2>1, <2>2 DEF IInv, EnabledIsRegistered, ConnectedIsRegistered, Types
    <2> QED
      BY <1>4, <2>3, LinkStep DEF ConnectClient, DisconnectClient, testVars
  <1> QED
    BY <1>1, <1>2, <1>3, <1>4 DEF Linking

----------------------------------------------------------------------------
(* Crashes and restarts.                                                   *)

\* What the harness works on while it is not idle.
LEMMA AtServer ==
  ASSUME Types, NEW at \in Steps, At(at)
  PROVE  /\ tester.i \in Server /\ tester.start \in BOOLEAN /\ tester.at = at
         /\ tester # Idle
         /\ \A to \in Steps : Goto(to) => /\ tester' \in TesterState
                                        /\ tester' # Idle
                                        /\ tester'.i = tester.i
                                        /\ tester'.at = to
  BY DEF Types, At, TesterState, Goto, Idle, Steps

\* A server that is not registered has no end that is enabled.
LEMMA UnregisteredSilent ==
  ASSUME IInv, NEW i \in Server, servers[i] = 0
  PROVE  \A e \in enabled : e.from # i
  BY DEF IInv, EnabledIsRegistered

LEMMA CrashStep ==
  ASSUME IInv, NEW i \in Server, Crash(i)
  PROVE  IInv'
  <1>1. PICK start \in BOOLEAN : tester' = [at |-> "delete", i |-> i, start |-> start]
    BY DEF Crash
  <1>2. /\ tester' \in TesterState /\ tester' # Idle
        /\ tester'.i = i /\ tester'.at = "delete"
    BY <1>1 DEF TesterState, Idle, Steps
  <1>3. /\ enabled' = enabled \ Links(i, Server)
        /\ UNCHANGED <<ends, servers, reliable, reordering, calls, lab, disk, made>>
        /\ connected' = IF lab = "raft" THEN [connected EXCEPT ![i] = FALSE] ELSE connected
    BY DEF Crash, disconnect, Disable
  <1>4. \A e \in enabled' : e.from # i
    <2> SUFFICES ASSUME NEW e \in enabled, e.from = i PROVE e \in Links(i, Server)
      BY <1>3
    <2>1. e = [from |-> i, gen |-> e.gen, to |-> e.to] /\ e.to \in Server
      BY DEF IInv, Types, Ends
    <2>2. e.gen = made[i]
      BY DEF IInv, EnabledIsRegistered, RegisteredIsLast
    <2> QED
      BY <2>1, <2>2 DEF Links, End
  <1>5. connected' \in [Server -> BOOLEAN] /\ (lab = "raft" => ~connected'[i])
        /\ \A j \in Server : connected'[j] => connected[j]
    BY <1>3 DEF IInv, Types
  <1>6. \A c \in Call : CallOK(c)'
    BY <1>3, SameDiskGrows, RestingCalls DEF IInv
  <1>7. Types'
    BY <1>2, <1>3, <1>5 DEF IInv, Types
  <1>8. WorkedOn'
    BY <1>2, <1>3, <1>4, <1>5 DEF WorkedOn
  <1> QED
    BY <1>3, <1>5, <1>6, <1>7, <1>8
    DEF IInv, RegisteredIsLast, ConnectedIsRegistered, EnabledIsRegistered

LEMMA DeleteStep ==
  ASSUME IInv, Delete
  PROVE  IInv'
  <1> DEFINE i == tester.i
  <1>1. i \in Server /\ tester # Idle
        /\ tester' \in TesterState /\ tester' # Idle /\ tester'.i = i /\ tester'.at = "copy"
    BY AtServer DEF Delete, IInv, Steps
  <1>2. /\ servers' = [servers EXCEPT ![i] = 0]
        /\ UNCHANGED <<ends, enabled, reliable, reordering, calls, lab, disk, made, connected>>
    BY DEF Delete, DeleteServer
  <1>3. Types'
    BY <1>1, <1>2 DEF IInv, Types
  <1>4. \A e \in enabled : e.from # i
    BY <1>1 DEF IInv, WorkedOn
  <1>5. servers'[i] = 0 /\ \A j \in Server : j # i => servers'[j] = servers[j]
    BY <1>1, <1>2 DEF IInv, Types
  <1>6. WorkedOn'
    BY <1>1, <1>2, <1>5 DEF IInv, WorkedOn
  <1>7. RegisteredIsLast'
    BY <1>2, <1>5 DEF IInv, RegisteredIsLast
  <1>8. EnabledIsRegistered'
    BY <1>2, <1>4, <1>5 DEF IInv, EnabledIsRegistered
  <1>9. ConnectedIsRegistered'
    BY <1>1, <1>2, <1>5 DEF IInv, WorkedOn, ConnectedIsRegistered
  <1>10. \A c \in Call : CallOK(c)'
    BY <1>2, SameDiskGrows, RestingCalls DEF IInv
  <1> QED
    BY <1>3, <1>6, <1>7, <1>8, <1>9, <1>10 DEF IInv

\* A step that may copy the persister of the server worked on, which is not registered.
LEMMA CopyStep ==
  ASSUME IInv, tester # Idle, tester.i \in Server, tester.at # "delete",
         Copied(tester.i) \/ UNCHANGED disk, WorkedOn', tester' \in TesterState,
         made' \in [Server -> Nat], \A j \in Server : j # tester.i => made'[j] = made[j],
         ends' \subseteq Ends,
         UNCHANGED <<enabled, servers, reliable, reordering, done, calls, lab, connected>>
  PROVE  IInv'
  <1> DEFINE i == tester.i
  <1>1. servers[i] = 0
    BY DEF IInv, WorkedOn
  <1>2. /\ disk' \in [Server -> Seq(SUBSET Call)]
        /\ Len(disk'[i]) >= 1
        /\ \A j \in Server : j # i => disk'[j] = disk[j]
        /\ \A j \in Server : Grows(j)
    <2>1. CASE Copied(i)
      <3>1. Len(disk[i]) \in Nat
        BY DEF IInv, Types
      <3> QED
        BY <2>1, <3>1, CopyGrows DEF IInv
    <2>2. CASE UNCHANGED disk
      BY <2>2, SameDiskGrows DEF IInv, Types, RegisteredIsLast
    <2> QED
      BY <2>1, <2>2
  <1>3. Types'
    BY <1>2 DEF IInv, Types
  <1>4. RegisteredIsLast'
    BY <1>1, <1>2 DEF IInv, RegisteredIsLast
  <1>5. \A c \in Call : CallOK(c)'
    BY <1>2, RestingCalls
  <1> QED
    BY <1>3, <1>4, <1>5 DEF IInv, EnabledIsRegistered, ConnectedIsRegistered

LEMMA RestartingStep ==
  ASSUME IInv, Restarting
  PROVE  IInv'
  <1>1. ASSUME NEW i \in Server, StartServer(i) PROVE IInv'
    <2>1. tester' = [at |-> "save", i |-> i, start |-> TRUE] /\ servers[i] = 0 /\ lab = "kv"
          /\ UNCHANGED <<netVars, lab, disk, made, connected>>
      BY <1>1 DEF StartServer
    <2>2. tester' \in TesterState /\ tester'.i = i /\ tester'.at = "save"
      BY <2>1 DEF TesterState, Steps
    <2>3. WorkedOn'
      BY <2>1, <2>2, UnregisteredSilent DEF WorkedOn, netVars
    <2>4. \A c \in Call : CallOK(c)'
      BY <2>1, SameDiskGrows, RestingCalls DEF IInv, netVars
    <2> QED
      BY <2>1, <2>2, <2>3, <2>4
      DEF IInv, Types, RegisteredIsLast, ConnectedIsRegistered, EnabledIsRegistered, netVars
  <1>2. CASE Copy
    <2>1. tester.i \in Server /\ tester # Idle /\ tester.at = "copy"
          /\ tester' \in TesterState /\ tester'.i = tester.i /\ tester'.at = "kill"
      BY <1>2, AtServer DEF Copy, IInv, Steps
    <2>2. WorkedOn'
      BY <1>2, <2>1 DEF Copy, IInv, WorkedOn, netVars
    <2> QED
      BY <1>2, <2>1, <2>2, CopyStep DEF Copy, netVars, IInv, Types
  <1>3. CASE Kill
    <2>1. tester.i \in Server /\ tester # Idle /\ tester.at = "kill"
          /\ \/ tester' = Idle
             \/ tester' \in TesterState /\ tester'.i = tester.i /\ tester'.at = "save"
      BY <1>3, AtServer DEF Kill, IInv, Steps
    <2>2. WorkedOn' /\ tester' \in TesterState
      BY <1>3, <2>1 DEF Kill, IInv, WorkedOn, netVars, TesterState
    <2> QED
      BY <1>3, <2>1, <2>2, CopyStep DEF Kill, netVars, IInv, Types
  <1>4. CASE Save
    <2> DEFINE i == tester.i
               n == Len(disk[i]) + 1
    <2>1. i \in Server /\ tester # Idle /\ tester.at = "save"
          /\ tester' \in TesterState /\ tester'.i = i /\ tester'.at = "make"
      BY <1>4, AtServer DEF Save, IInv, Steps
    <2>2. Len(disk'[i]) = n /\ n \in Nat
      BY <1>4, <2>1, CopyGrows DEF Save, IInv, Types
    <2>3. /\ made' = [made EXCEPT ![i] = n]
          /\ ends' = ends \cup {End(i, n, j) : j \in Server}
      BY <1>4 DEF Save, Named, MakeEnd
    <2>4. /\ made' \in [Server -> Nat] /\ made'[i] = n
          /\ \A j \in Server : j # i => made'[j] = made[j]
      BY <2>1, <2>2, <2>3 DEF IInv, Types
    <2>5. ends' \subseteq Ends
      BY <2>1, <2>2, <2>3 DEF IInv, Types, End, Ends
    <2>6. WorkedOn'
      BY <1>4, <2>1, <2>2, <2>4 DEF Save, IInv, WorkedOn
    <2> QED
      BY <1>4, <2>1, <2>4, <2>5, <2>6, CopyStep DEF Save
  <1>5. CASE Make
    <2> DEFINE i == tester.i
    <2>1. i \in Server /\ tester # Idle /\ tester.at = "make"
      BY <1>5, AtServer DEF Make, IInv, Steps
    <2>2. /\ servers' = [servers EXCEPT ![i] = Len(disk[i])] /\ tester' = Idle
          /\ UNCHANGED <<ends, enabled, reliable, reordering, calls, lab, disk, made, connected>>
      BY <1>5 DEF Make, AddServer
    <2>3. made[i] = Len(disk[i]) /\ (\A e \in enabled : e.from # i)
          /\ (lab = "raft" => ~connected[i])
      BY <2>1 DEF IInv, WorkedOn
    <2>4. Len(disk[i]) \in Nat
      BY <2>1 DEF IInv, Types
    <2>5. servers'[i] = Len(disk[i]) /\ \A j \in Server : j # i => servers'[j] = servers[j]
      BY <2>1, <2>2 DEF IInv, Types
    <2>6. Types'
      BY <2>1, <2>2, <2>4 DEF IInv, Types, TesterState
    <2>7. RegisteredIsLast'
      BY <2>2, <2>3, <2>5 DEF IInv, RegisteredIsLast
    <2>8. WorkedOn'
      BY <2>2 DEF WorkedOn, Idle
    <2>9. ConnectedIsRegistered'
      BY <2>2, <2>3, <2>5 DEF IInv, ConnectedIsRegistered
    <2>10. EnabledIsRegistered'
      BY <2>2, <2>3, <2>5 DEF IInv, EnabledIsRegistered
    <2>11. \A c \in Call : CallOK(c)'
      BY <2>2, SameDiskGrows, RestingCalls DEF IInv
    <2> QED
      BY <2>6, <2>7, <2>8, <2>9, <2>10, <2>11 DEF IInv
  <1> QED
    BY <1>1, <1>2, <1>3, <1>4, <1>5, CrashStep, DeleteStep DEF Restarting

----------------------------------------------------------------------------
LEMMA SettleStep ==
  ASSUME IInv, Settle
  PROVE  IInv'
  <1>1. UNCHANGED <<ends, enabled, servers, calls, lab, disk, made, connected, tester>>
    BY DEF Settle, Reliable, LongReordering, Cleanup
  <1>2. reliable' \in BOOLEAN /\ reordering' \in BOOLEAN
    BY DEF IInv, Types, Settle, Reliable, LongReordering, Cleanup
  <1>3. \A c \in Call : CallOK(c)'
    BY <1>1, SameDiskGrows, RestingCalls DEF IInv
  <1> QED
    BY <1>1, <1>2, <1>3
    DEF IInv, Types, RegisteredIsLast, WorkedOn, ConnectedIsRegistered, EnabledIsRegistered

LEMMA InitIInv == Init => IInv
  <1> SUFFICES ASSUME Init PROVE IInv
    OBVIOUS
  <1>1. \A i \in Server : disk[i] = <<{}>> /\ servers[i] = 1 /\ made[i] = 1
    BY DEF Init
  <1>2. disk \in [Server -> Seq(SUBSET Call)]
    BY DEF Init
  <1>3. enabled \subseteq Ends /\ \A e \in enabled : e.from \in Server /\ e.gen = 1
    BY DEF Init, End, Ends
  <1>4. ends \subseteq Ends
    BY <1>3 DEF Init, ClientEnds, End, Ends
  <1>5. Types
    BY <1>2, <1>3, <1>4 DEF Init, Types, CallState, TesterState
  <1>6. \A c \in Call : CallOK(c)
    BY DEF Init, CallOK
  <1> QED
    BY <1>1, <1>3, <1>5, <1>6
    DEF Init, IInv, RegisteredIsLast, WorkedOn, ConnectedIsRegistered, EnabledIsRegistered

LEMMA StutterStep ==
  ASSUME IInv, UNCHANGED vars
  PROVE  IInv'
  <1>1. \A c \in Call : CallOK(c)'
    BY SameDiskGrows, RestingCalls DEF IInv, vars, netVars, testVars
  <1> QED
    BY <1>1
    DEF IInv, Types, RegisteredIsLast, WorkedOn, ConnectedIsRegistered, EnabledIsRegistered,
        vars, netVars, testVars

\* The invariant holds of every state of the network under the harness.
THEOREM Invariance == Spec => []IInv
  <1>1. IInv /\ [Next]_vars => IInv'
    <2> SUFFICES ASSUME IInv, [Next]_vars PROVE IInv'
      OBVIOUS
    <2>1. CASE Calling
      BY <2>1, BeginStep, HandleStep, HangStep, CarryStep DEF Calling
    <2>2. CASE Linking \/ Restarting \/ Settle
      BY <2>2, LinkingStep, RestartingStep, SettleStep
    <2>3. CASE UNCHANGED vars
      BY <2>3, StutterStep
    <2> QED
      BY <2>1, <2>2, <2>3 DEF Next
  <1> QED
    BY <1>1, InitIInv, PTL DEF Spec

\* Whatever the harness crashes, starts, connects and disconnects, and however the
\* goroutines of processReq, the handlers and crash1 interleave, a call that returns
\* true has its update in the persister the next instance of its server starts from.
THEOREM UpdatesSurvive == Spec => []NoLostUpdate
  <1>1. IInv => NoLostUpdate
    BY DEF IInv, CallOK, NoLostUpdate, Unused
  <1> QED
    BY <1>1, Invariance, PTL

\* No end of an instance that was crashed or replaced is ever enabled again: start1
\* makes fresh ends, and connect enables only those.
THEOREM ReplacedAreSilent == Spec => []OldInstancesSilent
  <1>1. IInv => OldInstancesSilent
    BY DEF IInv, EnabledIsRegistered, OldInstancesSilent
  <1> QED
    BY <1>1, Invariance, PTL

----------------------------------------------------------------------------
(* The links of the Raft harness.                                          *)

LEMMA LinksOf ==
  ASSUME NEW i \in Server, NEW S \in SUBSET Server, NEW a \in Server, NEW b \in Server
  PROVE  End(a, made[a], b) \in Links(i, S) <=> (a = i /\ b \in S) \/ (b = i /\ a \in S)
  BY DEF Links, End

LEMMA LinksStep ==
  ASSUME IInv, LinksMatchConnected, [Next]_vars
  PROVE  LinksMatchConnected'
  <1> SUFFICES ASSUME lab' = "raft", NEW a \in Server, NEW b \in Server
               PROVE  (End(a, made[a], b) \in enabled)' <=> connected'[a] /\ connected'[b]
    BY DEF LinksMatchConnected
  <1>1. lab = "raft" /\ (End(a, made[a], b) \in enabled <=> connected[a] /\ connected[b])
    <2>1. lab' = lab
      BY DEF Next, Calling, Linking, Restarting, Begin, Handle, Hang, Carry, Connect, Disconnect,
             Partition, ConnectClient, DisconnectClient, Crash, StartServer, Delete, Copy, Kill,
             Save, Make, Settle, vars, testVars
    <2> QED
      BY <2>1 DEF LinksMatchConnected
  <1>2. CASE UNCHANGED <<enabled, made, connected>>
    BY <1>1, <1>2
  <1>3. CASE Calling
    <2>1. UNCHANGED <<enabled, made, connected>>
      BY <1>3 DEF Calling, Begin, MakeCall, Handle, HandlerReturns, Hang, HandlerHangs, Carry,
                  Network, Process, GiveUp, Reply, Deliver, Settings, testVars
    <2> QED
      BY <1>2, <2>1
  <1>4. ASSUME NEW i \in Server, Connect(i)
        PROVE  (End(a, made[a], b) \in enabled)' <=> connected'[a] /\ connected'[b]
    <2> DEFINE S == {j \in Server : connected'[j]}
    <2>1. connected' = [connected EXCEPT ![i] = TRUE] /\ made' = made
          /\ enabled' = enabled \cup Links(i, S)
      BY <1>4 DEF Connect, connect, Enable
    <2>2. connected'[i] /\ \A j \in Server : j # i => connected'[j] = connected[j]
      BY <2>1 DEF IInv, Types
    <2>3. End(a, made[a], b) \in Links(i, S) <=> (a = i /\ b \in S) \/ (b = i /\ a \in S)
      BY LinksOf
    <2> QED
      BY <1>1, <2>1, <2>2, <2>3
  <1>5. ASSUME NEW i \in Server, Disconnect(i) \/ Crash(i)
        PROVE  (End(a, made[a], b) \in enabled)' <=> connected'[a] /\ connected'[b]
    <2>1. connected' = [connected EXCEPT ![i] = FALSE] /\ made' = made
          /\ enabled' = enabled \ Links(i, Server)
      BY <1>1, <1>5 DEF Disconnect, Crash, disconnect, Disable
    <2>2. ~connected'[i] /\ \A j \in Server : j # i => connected'[j] = connected[j]
      BY <2>1 DEF IInv, Types
    <2>3. End(a, made[a], b) \in Links(i, Server) <=> a = i \/ b = i
      BY LinksOf
    <2> QED
      BY <1>1, <2>1, <2>2, <2>3
  <1>6. CASE Save
    <2> DEFINE i == tester.i
    <2>1. i \in Server /\ ~connected[i] /\ \A e \in enabled : e.from # i
      BY <1>1, <1>6, AtServer DEF Save, IInv, WorkedOn, Steps
    <2>2. UNCHANGED <<enabled, connected>> /\ \A j \in Server : j # i => made'[j] = made[j]
      BY <1>6 DEF Save, Named, IInv, Types
    <2>3. End(i, made'[i], b).from = i
      BY DEF End
    <2> QED
      BY <1>1, <2>1, <2>2, <2>3
  <1>7. CASE Delete \/ Copy \/ Kill \/ Make \/ Settle \/ UNCHANGED vars
    <2>1. UNCHANGED <<enabled, made, connected>>
      BY <1>7 DEF Delete, Copy, Kill, Make, Settle, Reliable, LongReordering, Cleanup, vars,
                  netVars, testVars
    <2> QED
      BY <1>2, <2>1
  <1>8. \A i \in Server : ~StartServer(i)
    BY <1>1 DEF StartServer
  <1>9. ~\E S \in SUBSET Server : Partition(S)
    BY <1>1 DEF Partition
  <1>10. ~\E ck \in Client, S \in SUBSET Server : ConnectClient(ck, S) \/ DisconnectClient(ck, S)
    BY <1>1 DEF ConnectClient, DisconnectClient
  <1> QED
    BY <1>3, <1>4, <1>5, <1>6, <1>7, <1>8, <1>9, <1>10 DEF Next, Linking, Restarting

\* The connected flags of the Raft harness say which servers reach each other, however
\* connect, disconnect, crash1 and start1 follow one another.
THEOREM LinksFollow == Spec => []LinksMatchConnected
  <1>1. Init => LinksMatchConnected
    BY DEF Init, LinksMatchConnected
  <1> QED
    BY <1>1, LinksStep, Invariance, PTL DEF Spec
=============================================================================
