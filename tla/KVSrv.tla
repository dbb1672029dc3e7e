------------------------------- MODULE KVSrv -------------------------------
(***************************************************************************)
(* The single key/value server of src/src/kvsrv and its clerks.            *)
(*                                                                         *)
(* A clerk repeats a call until it succeeds, then asks the server to       *)
(* delete what it remembers of the operation, and returns.  A call through *)
(* labrpc that fails has either lost its request, before the handler, or   *)
(* its reply, after it: when Call returns, nothing of it is in flight.     *)
(***************************************************************************)
EXTENDS Naturals, Sequences, FiniteSets

CONSTANTS
    Client,  \* the clerks
    Key,     \* keys
    Letter,  \* what Put and Append write; a value is a sequence of them
    MaxOps   \* bound: operations of one clerk

ASSUME MaxOpsAssumption == MaxOps \in Nat
ASSUME ClientAssumption == IsFiniteSet(Client)

VARIABLES
    kvMp,  \* the map: a sequence of at most one value for each key
    idMp,  \* the results remembered: [id, value] records, one for an id
    clerk  \* the operation each clerk is at, its id, and how far it is

vars == <<kvMp, idMp, clerk>>

Operation == [op : {"Get"}, key : Key, arg : {<<>>}]
                 \cup [op : {"Put", "Append"}, key : Key, arg : {<<x>> : x \in Letter}]

\* nrand(): ids are assumed to be distinct.  n counts the clerk's operations.
Id(c) == <<c, clerk[c].n>>

\* The entry of an id in idMp, a sequence of at most one value.
Remembered(id) ==
    IF \E e \in idMp : e.id = id THEN <<(CHOOSE e \in idMp : e.id = id).value>> ELSE <<>>

Value(k) == IF kvMp[k] = <<>> THEN <<>> ELSE kvMp[k][1]

\* The handler returns v to the clerk.
Reply(c, v) == clerk' = [clerk EXCEPT ![c].at = "replied", ![c].reply = v]

Remember(id, v) == idMp' = idMp \cup {[id |-> id, value |-> v]}

-----------------------------------------------------------------------------
(* The server's handlers.  Each runs under kv.mu.                          *)

\* Nothing is remembered of a Get that finds no value.
Get(c) ==
    LET o == clerk[c].op
        old == Remembered(Id(c))
    IN
    /\ clerk[c].at = "calling" /\ o.op = "Get"
    /\ \/ old # <<>> /\ Reply(c, old[1]) /\ UNCHANGED idMp
       \/ old = <<>> /\ kvMp[o.key] # <<>> /\ Reply(c, Value(o.key)) /\ Remember(Id(c), Value(o.key))
       \/ old = <<>> /\ kvMp[o.key] = <<>> /\ Reply(c, <<>>) /\ UNCHANGED idMp
    /\ UNCHANGED kvMp

Put(c) ==
    LET o == clerk[c].op IN
    /\ clerk[c].at = "calling" /\ o.op = "Put"
    /\ \/ Remembered(Id(c)) # <<>> /\ UNCHANGED <<kvMp, idMp>>
       \/ /\ Remembered(Id(c)) = <<>>
          /\ kvMp' = [kvMp EXCEPT ![o.key] = <<o.arg>>]
          /\ Remember(Id(c), o.arg)
    /\ Reply(c, <<>>)

\* Mutant of AppendTo: nothing is remembered of the operation.
AppendForgets(c) ==
    LET o == clerk[c].op IN
    /\ clerk[c].at = "calling" /\ o.op = "Append"
    /\ kvMp' = [kvMp EXCEPT ![o.key] = <<Value(o.key) \o o.arg>>]
    /\ Reply(c, Value(o.key))
    /\ UNCHANGED idMp

\* The old value is returned, and remembered for a retry.
AppendTo(c) ==
    LET o == clerk[c].op
        old == Remembered(Id(c))
    IN
    /\ clerk[c].at = "calling" /\ o.op = "Append"
    /\ \/ old # <<>> /\ Reply(c, old[1]) /\ UNCHANGED <<kvMp, idMp>>
       \/ /\ old = <<>>
          /\ kvMp' = [kvMp EXCEPT ![o.key] = <<Value(o.key) \o o.arg>>]
          /\ Reply(c, Value(o.key))
          /\ Remember(Id(c), Value(o.key))

\* Mutant of DeleteId: the entry stays.
DeleteNothing(c) ==
    /\ clerk[c].at = "deleting"
    /\ clerk' = [clerk EXCEPT ![c].at = "deleted"]
    /\ UNCHANGED <<kvMp, idMp>>

DeleteId(c) ==
    /\ clerk[c].at = "deleting"
    /\ idMp' = {e \in idMp : e.id # Id(c)}
    /\ clerk' = [clerk EXCEPT ![c].at = "deleted"]
    /\ UNCHANGED kvMp

-----------------------------------------------------------------------------
(* Clerks and the network.                                                 *)

\* Clerk.Get, Put and Append draw a new id and call.
Begin(c, o) ==
    /\ clerk[c].at = "idle"
    /\ clerk[c].n < MaxOps
    /\ clerk' = [clerk EXCEPT ![c] = [at |-> "calling", op |-> o, n |-> @.n + 1, reply |-> <<>>]]
    /\ UNCHANGED <<kvMp, idMp>>


\* The reply is lost: Call returns false and the clerk calls again.  (When the
\* request is lost nothing changes at all.)
LoseReply(c) ==
    /\ \/ clerk[c].at = "replied" /\ clerk' = [clerk EXCEPT ![c].at = "calling"]
       \/ clerk[c].at = "deleted" /\ clerk' = [clerk EXCEPT ![c].at = "deleting"]
    /\ UNCHANGED <<kvMp, idMp>>

\* The reply arrives; the clerk goes on to DeleteId, or returns.
Receive(c) ==
    /\ \/ clerk[c].at = "replied" /\ clerk' = [clerk EXCEPT ![c].at = "deleting"]
       \/ clerk[c].at = "deleted" /\ clerk' = [clerk EXCEPT ![c].at = "idle", ![c].reply = <<>>]
    /\ UNCHANGED <<kvMp, idMp>>

-----------------------------------------------------------------------------

Init ==
    /\ kvMp = [k \in Key |-> <<>>]
    /\ idMp = {}
    /\ clerk = [c \in Client |-> [at |-> "idle", op |-> CHOOSE o \in Operation : TRUE,
                                  n |-> 0, reply |-> <<>>]]

Handle(c) == Get(c) \/ Put(c) \/ AppendTo(c) \/ DeleteId(c)

Next ==
    \E c \in Client :
        \/ \E o \in Operation : Begin(c, o)
        \/ Handle(c)
        \/ LoseReply(c)
        \/ Receive(c)

Spec == Init /\ [][Next]_vars

\* labrpc drops each message with a fixed probability, independently: a call that
\* is made again and again succeeds in the end.
FairSpec ==
    Spec /\ \A c \in Client : WF_vars(Handle(c)) /\ SF_vars(Receive(c))

-----------------------------------------------------------------------------
(* Properties.                                                             *)

\* The server remembers at most one result of each clerk, that of the operation
\* the clerk has not returned from: idMp does not grow with the number of
\* operations, whatever was lost (lab2/readme.md:49, TestMem*).
RemembersOnlyPending ==
    /\ \A e \in idMp : LET c == e.id[1] IN
           e.id = Id(c) /\ clerk[c].at \in {"calling", "replied", "deleting"}
    /\ Cardinality(idMp) <= Cardinality(Client)

\* The refinement mapping: the store of KVStore, the operations under way, and
\* what each has returned or will return.
StoreMap == [k \in Key |-> Value(k)]

CallMap == [c \in Client |-> IF clerk[c].at = "idle" THEN <<>> ELSE <<clerk[c].op>>]

\* r is the state of the clerk, m what is remembered of its operation.
ResultOf(r, m) ==
    IF r.at = "idle" THEN <<>>
    ELSE IF r.at # "calling" THEN <<r.reply>>
    ELSE IF m = <<>> THEN <<>>
    ELSE IF r.op.op = "Put" THEN <<<<>>>>
    ELSE m

ResultMap == [c \in Client |-> ResultOf(clerk[c], Remembered(Id(c)))]

KV == INSTANCE KVStore WITH
    ReturnsOld <- TRUE, store <- StoreMap, call <- CallMap, result <- ResultMap

\* Every operation takes effect exactly once between its call and its return, and
\* returns what it saw then, although clerks repeat calls whose reply was lost
\* and the server forgets results (lab2/readme.md:9).
Linearizable == KV!Spec

\* Every call of a clerk returns.
CallsReturn == \A c \in Client : clerk[c].at # "idle" ~> clerk[c].at = "idle"

=============================================================================
