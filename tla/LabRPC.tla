------------------------------- MODULE LabRPC -------------------------------
(***************************************************************************)
(* The simulated network (labrpc/labrpc.go): ends, the registered servers, *)
(* and the life of a Call from the caller through processReq and the       *)
(* handler's goroutine to the answer.                                      *)
(*                                                                         *)
(* An instance of a server is a number, 0 for nil.  An end belongs to an   *)
(* instance of its owner and is connected to one server for its lifetime.  *)
(* Delays are left out: every step is taken at any time.                   *)
(***************************************************************************)
EXTENDS Naturals

CONSTANTS
    Server,      \* the names of servers
    Client,      \* the owners of ends that are not servers
    Call         \* bound: the calls that are made, each once

ASSUME OwnersDistinct == Server \cap Client = {}

VARIABLES
    ends,        \* the ends that were made
    enabled,     \* the ends that are enabled
    servers,     \* the instance registered under a name, 0 for none
    reliable,    \* Network.reliable
    reordering,  \* Network.longReordering
    done,        \* Network.done is closed
    calls        \* the calls

netVars == <<ends, enabled, servers, reliable, reordering, done, calls>>

End(i, gen, j) == [from |-> i, gen |-> gen, to |-> j]

Ends == [from : Server \cup Client, gen : Nat, to : Server]

\* A call: its end, the instance it was given to, the settings read with it, what
\* its handler's goroutine does, and its own phase; "true" and "false" are returns.
Unused == [phase |-> "unused"]

CallState ==
    {Unused} \cup
    [phase : {"sent", "waiting", "delayed", "true", "false"}, end : Ends, inst : Nat,
     reliable : BOOLEAN, reordering : BOOLEAN,
     handler : {"none", "running", "hung", "returned"}]

\* The call c is in phase p.
Set(c, p) == calls' = [calls EXCEPT ![c].phase = p]

Settings == <<ends, enabled, servers, reliable, reordering, done>>

----------------------------------------------------------------------------
\* ClientEnd.Call: the request is taken from endCh, unless the network is closed;
\* once it is, select may still find the reader of endCh.
MakeCall(c, e) ==
    /\ e \in ends
    /\ calls[c] = Unused
    /\ \E p \in IF done THEN {"sent", "false"} ELSE {"sent"} :
         calls' = [calls EXCEPT ![c] =
                     [phase |-> p, end |-> e, inst |-> 0, reliable |-> TRUE,
                      reordering |-> FALSE, handler |-> "none"]]
    /\ UNCHANGED Settings

\* readEndnameInfo: the instance a request on end e is given to.
Target(e) == IF e \in enabled THEN servers[e.to] ELSE 0

\* processReq up to the handler's goroutine: no server, a dropped request, or a
\* handler that runs on the instance that was read.
Process(c) ==
    LET e == calls[c].end IN
    /\ calls[c].phase = "sent"
    /\ \/ /\ Target(e) = 0 \/ ~reliable
          /\ Set(c, "false")
       \/ /\ Target(e) # 0
          /\ calls' = [calls EXCEPT ![c] =
                         [@ EXCEPT !.phase = "waiting", !.handler = "running",
                                   !.inst = servers[e.to], !.reliable = reliable,
                                   !.reordering = reordering]]
    /\ UNCHANGED Settings

\* Server.dispatch and Service.dispatch: the handler returns, whatever became of
\* the call and of the instance, or it never does.
HandlerReturns(c) ==
    /\ calls[c] # Unused
    /\ calls[c].handler = "running"
    /\ calls' = [calls EXCEPT ![c].handler = "returned"]
    /\ UNCHANGED Settings

HandlerHangs(c) ==
    /\ calls[c] # Unused
    /\ calls[c].handler = "running"
    /\ calls' = [calls EXCEPT ![c].handler = "hung"]
    /\ UNCHANGED Settings

\* Mutant: a name that is registered counts as alive, whoever registered it.
isServerDeadByName(c) ==
    \/ calls[c].end \notin enabled
    \/ servers[calls[c].end.to] = 0

isServerDead(c) ==
    \/ calls[c].end \notin enabled
    \/ servers[calls[c].end.to] # calls[c].inst

\* Mutant: the loop waits for the handler only.
GiveUpNever(c) == FALSE /\ UNCHANGED netVars

\* The wait for the handler ends because the server is gone.
GiveUp(c) ==
    /\ calls[c].phase = "waiting"
    /\ isServerDead(c)
    /\ Set(c, "false")
    /\ UNCHANGED Settings

\* The handler has returned: the server is looked at again, then the answer is
\* dropped, delayed or handed over.
Reply(c) ==
    /\ calls[c].phase = "waiting"
    /\ calls[c].handler = "returned"
    /\ \/ /\ isServerDead(c) \/ ~calls[c].reliable
          /\ Set(c, "false")
       \/ /\ ~isServerDead(c)
          /\ \/ Set(c, "true")
             \/ calls[c].reordering /\ Set(c, "delayed")
    /\ UNCHANGED Settings

\* The timer of a delayed answer.
Deliver(c) ==
    /\ calls[c].phase = "delayed"
    /\ Set(c, "true")
    /\ UNCHANGED Settings

\* The steps of the goroutines of c, but for its handler's.
Network(c) == Process(c) \/ GiveUp(c) \/ Reply(c) \/ Deliver(c)

----------------------------------------------------------------------------
\* MakeEnd, and Connect to the server the end is for; ends are disabled at first.
MakeEnd(E) == ends' = ends \cup E

AddServer(i, inst) == servers' = [servers EXCEPT ![i] = inst]

DeleteServer(i) == servers' = [servers EXCEPT ![i] = 0]

Enable(E) == enabled' = enabled \cup E

Disable(E) == enabled' = enabled \ E

Reliable(yes) ==
    /\ reliable' = yes
    /\ UNCHANGED <<ends, enabled, servers, reordering, done, calls>>

LongReordering(yes) ==
    /\ reordering' = yes
    /\ UNCHANGED <<ends, enabled, servers, reliable, done, calls>>

Cleanup ==
    /\ ~done
    /\ done' = TRUE
    /\ UNCHANGED <<ends, enabled, servers, reliable, reordering, calls>>
=============================================================================
