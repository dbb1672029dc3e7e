------------------------------- MODULE MCRaft -------------------------------
(***************************************************************************)
(* Raft on small instances.                                                *)
(***************************************************************************)
EXTENDS Raft, TLC

\* No handler tells servers apart, except a server from its peers.
Symmetry == Permutations(Server)

\* Vote messages that can no longer change anything: requests that will be
\* refused, refusals, and votes for an election that is over.
Spent(m) ==
    \/ m.type = "RequestVote" /\ RefusesVote(m.dst, m)
    \/ m.type = "RequestVoteReply"
       /\ (~m.granted \/ m.term < currentTerm[m.dst] \/ state[m.dst] = "LEADER")

\* What the future of a state depends on: spent messages are never read again,
\* nor are the votes counted in an election that is over, and the indices of a
\* server that does not lead.
View ==
    <<currentTerm, votedFor, log, saved, state, commitIndex, applied, pushing,
      [s \in Server |-> IF votedFor[s] = s /\ state[s] # "LEADER" THEN votes[s] ELSE {}],
      [s \in Server |-> IF state[s] = "LEADER" THEN <<nextIndex[s], matchIndex[s]>> ELSE <<>>],
      incarnation, {m \in messages : ~Spent(m)}, committed>>

-----------------------------------------------------------------------------
(* Starting after earlier terms.  In term 1 server a led and appended, in  *)
(* term 2 server b led with the vote of c and appended; then all of them   *)
(* restarted.  A log is given by the terms of its entries and the index of *)
(* its snapshot.                                                           *)

Entries(terms) ==
    [i \in DOMAIN terms |->
        [term |-> terms[i], cmd |-> CHOOSE c \in Command : TRUE, index |-> i]]

LogOf(terms, snap) == SubSeq(<<Sentinel>> \o Entries(terms), snap + 1, Len(terms) + 1)

RestartedInit(a, b, c, terms, snap, chosen) ==
    /\ Cardinality({a, b, c}) = 3
    /\ currentTerm = (a :> 1 @@ b :> 2 @@ c :> 2)
    /\ votedFor = (a :> a @@ b :> b @@ c :> b)
    /\ log = (a :> LogOf(terms[1], snap[1]) @@ b :> LogOf(terms[2], snap[2])
                @@ c :> LogOf(terms[3], snap[3]))
    /\ saved = [s \in Server |->
                   [currentTerm |-> currentTerm[s], votedFor |-> votedFor[s],
                    log |-> log[s],
                    snapshot |-> SubSeq(Entries(chosen), 1, FirstLog(log[s]).index)]]
    /\ state = [s \in Server |-> "FOLLOWER"]
    /\ commitIndex = [s \in Server |-> FirstLog(log[s]).index]
    /\ applied = [s \in Server |-> <<>>]
    /\ pushing = [s \in Server |-> {saved[s].snapshot} \ {<<>>}]
    /\ votes = [s \in Server |-> {}]
    /\ nextIndex = [s \in Server |-> [p \in Server |-> LastLog(log[s]).index + 1]]
    /\ matchIndex = [s \in Server |-> [p \in Server |-> 0]]
    /\ incarnation = [s \in Server |-> 0]
    /\ messages = {}
    /\ committed = Entries(chosen)

\* Both leaders appended at index 1 and neither reached anyone.
Fork(a, b, c) == RestartedInit(a, b, c, << <<1>>, <<2>>, <<>> >>, <<0, 0, 0>>, <<>>)

\* Index 1 was committed in term 1; both leaders appended at index 2.
Tails(a, b, c) ==
    RestartedInit(a, b, c, << <<1, 1>>, <<1, 2>>, <<1>> >>, <<0, 0, 0>>, <<1>>)

\* Leader b committed index 1 with c, both took a snapshot there, and b
\* appended another entry.  Leader a had appended one that reached nobody.
Behind(a, b, c) ==
    RestartedInit(a, b, c, << <<1>>, <<2, 2>>, <<2>> >>, <<0, 1, 1>>, <<2>>)

\* Leader a was just elected by everyone in term 1.
Led(a) ==
    /\ currentTerm = [s \in Server |-> 1]
    /\ votedFor = [s \in Server |-> a]
    /\ log = [s \in Server |-> <<Sentinel>>]
    /\ saved = [s \in Server |-> [currentTerm |-> 1, votedFor |-> a,
                                  log |-> <<Sentinel>>, snapshot |-> <<>>]]
    /\ state = [s \in Server |-> IF s = a THEN "LEADER" ELSE "FOLLOWER"]
    /\ commitIndex = [s \in Server |-> 0]
    /\ applied = [s \in Server |-> <<>>]
    /\ pushing = [s \in Server |-> {}]
    /\ votes = [s \in Server |-> IF s = a THEN Server \ {a} ELSE {}]
    /\ nextIndex = [s \in Server |-> [p \in Server |-> 1]]
    /\ matchIndex = [s \in Server |-> [p \in Server |-> 0]]
    /\ incarnation = [s \in Server |-> 0]
    /\ messages = {}
    /\ committed = <<>>

\* Bounds on messages: one, but two of the leader of term 1.
OneInFlight == [t \in 0 .. MaxTerm |-> 1]

TwoOfFirstLeader == [t \in 0 .. MaxTerm |-> IF t = 1 THEN 2 ELSE 1]

\* Bound: where everyone follows the leader of term 1, that term goes on.
FirstTermStays == (\A s \in Server : currentTerm[s] = 1) => currentTerm' = currentTerm

ConflictSpec ==
    /\ \/ \E a, b, c \in Server : Fork(a, b, c) \/ Tails(a, b, c)
       \/ \E a \in Server : Led(a)
    /\ [][Next /\ FirstTermStays]_vars

BehindSpec == (\E a, b, c \in Server : Behind(a, b, c)) /\ [][Next]_vars

=============================================================================
