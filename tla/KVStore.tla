------------------------------ MODULE KVStore ------------------------------
(***************************************************************************)
(* What a key/value service promises its clients (src/lab2/readme.md):     *)
(* every Get, Put and Append takes effect exactly once, at one moment      *)
(* between its call and its return.  A Get that has not returned may be    *)
(* done again, which nobody can tell from doing it later.                  *)
(***************************************************************************)
EXTENDS Naturals, Sequences

CONSTANTS
    Client,     \* the clerks
    Key,        \* keys
    Letter,     \* what Put and Append write; a value is a sequence of them
    ReturnsOld  \* whether Append returns the old value, as kvsrv's does

VARIABLES
    store,    \* the value of each key; <<>> if it was never written
    call,     \* the operation each client is waiting for, if any
    result    \* what the operation returned, once it took effect

vars == <<store, call, result>>

Operation == [op : {"Get"}, key : Key, arg : {<<>>}]
                 \cup [op : {"Put", "Append"}, key : Key, arg : {<<x>> : x \in Letter}]

\* A call or a result is a sequence of at most one operation or value.
Absent == <<>>

Init ==
    /\ store = [k \in Key |-> <<>>]
    /\ call = [c \in Client |-> Absent]
    /\ result = [c \in Client |-> Absent]

Invoke(c, o) ==
    /\ call[c] = Absent
    /\ call' = [call EXCEPT ![c] = <<o>>]
    /\ UNCHANGED <<store, result>>

\* Get returns the value, Append the old value or nothing, Put nothing.
Perform(c) ==
    /\ call[c] # Absent
    /\ result[c] = Absent
    /\ LET o == call[c][1]
           old == store[o.key]
       IN /\ store' = [store EXCEPT ![o.key] = IF o.op = "Get" THEN old
                                               ELSE IF o.op = "Put" THEN o.arg
                                               ELSE old \o o.arg]
          /\ result' = [result EXCEPT ![c] =
                <<IF o.op = "Get" \/ (o.op = "Append" /\ ReturnsOld) THEN old ELSE <<>>>>]
    /\ UNCHANGED call

Retract(c) ==
    /\ call[c] # Absent
    /\ call[c][1].op = "Get"
    /\ result' = [result EXCEPT ![c] = Absent]
    /\ UNCHANGED <<store, call>>

Return(c) ==
    /\ result[c] # Absent
    /\ call' = [call EXCEPT ![c] = Absent]
    /\ result' = [result EXCEPT ![c] = Absent]
    /\ UNCHANGED store

Next ==
    \E c \in Client :
        \/ \E o \in Operation : Invoke(c, o)
        \/ Perform(c)
        \/ Retract(c)
        \/ Return(c)

Spec == Init /\ [][Next]_vars

=============================================================================
