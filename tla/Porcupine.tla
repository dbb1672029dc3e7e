----------------------------- MODULE Porcupine -----------------------------
(***************************************************************************)
(* The linearizability checker of the tests (porcupine/checker.go and      *)
(* bitset.go) on the key/value model (models/kv.go): checkOperations       *)
(* splits a history by key, one goroutine per key searches it with         *)
(* checkSingle, and checkParallel collects the answers, with or without a  *)
(* timeout and the longest linearizations.                                 *)
(*                                                                         *)
(* A value is a sequence of letters.  An operation has an id, its place in *)
(* the history of its key, counted from 0.                                 *)
(***************************************************************************)
EXTENDS Integers, Sequences, FiniteSets, SequencesExt, FiniteSetsExt

CONSTANTS
    Key,         \* the keys, in their order
    Pools,       \* bound: the sets of operations a history is made of
    MaxOps,      \* bound: operations of a history
    MaxTime,     \* bound: times
    Modes,       \* computeInfo, and whether there is a timeout
    Width        \* the bits of a chunk of a bitset; 64 in the code

VARIABLES
    history,     \* the operations: op, key, value, out, and the times call and ret
    mode,        \* how the check was called
    search,      \* the state of checkSingle for each partition
    kill,        \* kill
    results,     \* the channel of results
    main         \* checkParallel: phase, count, ok, timedOut, result

vars == <<history, mode, search, kill, results, main>>

----------------------------------------------------------------------------
\* KvModel.Step on the value st of the operation's key: whether it can, and the
\* value afterwards.
Steps(o, st) == o.op \in {"Get", "AppendGet"} => o.out = st

Stepped(o, st) ==
    CASE o.op = "Get" -> st
      [] o.op = "Put" -> o.value
      [] OTHER -> st \o o.value

\* KvModel.Partition: the history of each key that occurs, in the order of keys.
KvPartition(h) ==
    LET of(k) == SelectSeq(h, LAMBDA o : o.key = k)
    IN SelectSeq([i \in DOMAIN Key |-> of(Key[i])], LAMBDA p : p # <<>>)

\* byTime.Less
Less(a, b) ==
    a.time < b.time \/ (a.time = b.time /\ a.call /\ ~b.call)

\* makeEntries: sort.Sort of few entries is an insertion sort, which keeps the order
\* of those that Less does not tell apart.
makeEntries(p) ==
    LET made == [k \in 1 .. 2 * Len(p) |->
                    LET o == p[(k + 1) \div 2] IN
                    [id |-> (k - 1) \div 2, call |-> k % 2 = 1,
                     time |-> IF k % 2 = 1 THEN o.call ELSE o.ret]]
        Insert(s, e) == SelectSeq(s, LAMBDA x : ~Less(e, x)) \o <<e>>
                            \o SelectSeq(s, LAMBDA x : Less(e, x))
    IN FoldLeft(Insert, <<>>, made)

----------------------------------------------------------------------------
\* The list of nodes: node k is entry k, node 0 is headEntry.
Nil == -1

\* makeLinkedEntries, and the insertion of headEntry.
makeLinkedEntries(entries) ==
    LET N == Len(entries) IN
    [next |-> [k \in 0 .. N |-> IF k = N THEN Nil ELSE k + 1],
     prev |-> [k \in 0 .. N |-> k - 1],
     match |-> [k \in 1 .. N |->
                   IF entries[k].call
                   THEN CHOOSE l \in 1 .. N : ~entries[l].call /\ entries[l].id = entries[k].id
                   ELSE Nil],
     id |-> [k \in 1 .. N |-> entries[k].id]]

\* Takes node k out of the list, or puts it back where its own pointers say.
Out(l, k) ==
    [l EXCEPT !.next[l.prev[k]] = l.next[k],
              !.prev = IF l.next[k] = Nil THEN @ ELSE [@ EXCEPT ![l.next[k]] = l.prev[k]]]

In(l, k) ==
    [l EXCEPT !.next[l.prev[k]] = k,
              !.prev = IF l.next[k] = Nil THEN @ ELSE [@ EXCEPT ![l.next[k]] = k]]

lift(l, k) == Out(Out(l, k), l.match[k])

\* Mutant: the node after the return does not get its back pointer again.
unliftForward(l, k) == In([l EXCEPT !.next[l.prev[l.match[k]]] = l.match[k]], k)

unlift(l, k) == In(In(l, l.match[k]), k)

\* A bitset: chunks of Width bits, each the set of its bits that are 1.
newBitset(bits) ==
    [major \in 0 .. (bits \div Width) + (IF bits % Width # 0 THEN 1 ELSE 0) - 1 |-> {}]

set(b, pos) == [b EXCEPT ![pos \div Width] = @ \cup {pos % Width}]

clear(b, pos) == [b EXCEPT ![pos \div Width] = @ \ {pos % Width}]

\* Mutant: a cached state counts for every set of linearized operations.
cacheContainsState(cache, linearized, st) == \E c \in cache : c.state = st

\* cacheContains: hash only says where to look.
cacheContains(cache, linearized, st) == [linearized |-> linearized, state |-> st] \in cache

----------------------------------------------------------------------------
\* checkSingle up to its loop, on partition p.
Searching(p) ==
    [ops |-> p, list |-> makeLinkedEntries(makeEntries(p)), entry |-> 1,
     linearized |-> newBitset(Len(p)), cache |-> {}, calls |-> <<>>, state |-> <<>>,
     longest |-> [id \in 0 .. Len(p) - 1 |-> <<>>], result |-> "none"]

\* The ids of the calls linearized so far, in order.
Chosen(s) == [k \in DOMAIN s.calls |-> s.list.id[s.calls[k].entry]]

\* A call that the model can take and whose outcome was not met before.
Linearize(s) ==
    LET o == s.ops[s.list.id[s.entry] + 1]
        st == Stepped(o, s.state)
        lin == set(s.linearized, s.list.id[s.entry])
        list == lift(s.list, s.entry)
    IN [s EXCEPT !.cache = @ \cup {[linearized |-> lin, state |-> st]},
                 !.calls = Append(@, [entry |-> s.entry, state |-> s.state]),
                 !.state = st, !.linearized = lin, !.list = list, !.entry = list.next[0]]

Linearizes(s) ==
    LET o == s.ops[s.list.id[s.entry] + 1] IN
    /\ Steps(o, s.state)
    /\ ~cacheContains(s.cache, set(s.linearized, s.list.id[s.entry]), Stepped(o, s.state))

\* The linearizations that contain each call, where they beat the one on record.
Recorded(s) ==
    LET beats(id) == id \in Range(Chosen(s)) /\ Len(s.calls) > Len(s.longest[id])
    IN [id \in DOMAIN s.longest |-> IF beats(id) THEN Chosen(s) ELSE s.longest[id]]

\* A return: the last call is taken back, and the search goes on after it.
Backtrack(s) ==
    LET top == s.calls[Len(s.calls)]
        list == unlift(s.list, top.entry)
    IN [s EXCEPT !.longest = IF mode.computeInfo THEN Recorded(s) ELSE @,
                 !.entry = list.next[top.entry], !.state = top.state, !.list = list,
                 !.linearized = clear(@, s.list.id[top.entry]),
                 !.calls = SubSeq(@, 1, Len(@) - 1)]

\* One round of the loop of checkSingle, or what follows the loop.
Round(s) ==
    CASE s.list.next[0] = Nil ->
            [s EXCEPT !.longest = [id \in DOMAIN @ |-> Chosen(s)], !.result = "true"]
      [] s.list.next[0] # Nil /\ kill -> [s EXCEPT !.result = "killed"]
      [] s.list.next[0] # Nil /\ ~kill /\ s.list.match[s.entry] # Nil ->
            IF Linearizes(s) THEN Linearize(s) ELSE [s EXCEPT !.entry = s.list.next[@]]
      [] OTHER -> IF s.calls = <<>> THEN [s EXCEPT !.result = "false"] ELSE Backtrack(s)

\* The goroutine of partition i; it sends its result when it has one.
checkSingle(i) ==
    /\ search[i].result = "none"
    /\ search' = [search EXCEPT ![i] = Round(@)]
    /\ results' = IF search'[i].result = "none" THEN results
                  ELSE Append(results, search'[i].result = "true")
    /\ UNCHANGED <<history, mode, kill, main>>

----------------------------------------------------------------------------
\* Mutant: one result too many is waited for.
CollectedMore(count) == count > Len(search)

\* The results are all there.
Collected(count) == count >= Len(search)

\* checkParallel's loop takes a result; the first failure ends it if nobody wants
\* to know more.
Collect ==
    LET ok == main.ok /\ results[1]
        stop == ~ok /\ ~mode.computeInfo
    IN /\ main.phase = "loop"
       /\ results # <<>>
       /\ results' = Tail(results)
       /\ kill' = (kill \/ stop)
       /\ main' = [main EXCEPT !.ok = ok, !.count = @ + 1,
                               !.phase = IF stop \/ Collected(main.count + 1) THEN "drain"
                                         ELSE @]
       /\ UNCHANGED <<history, mode, search>>

\* Mutant: the loop goes on after the timeout.
TimeOutGoesOn ==
    /\ main.phase = "loop" /\ mode.timeout /\ ~main.timedOut
    /\ kill' = TRUE
    /\ main' = [main EXCEPT !.timedOut = TRUE]
    /\ UNCHANGED <<history, mode, search, results>>

TimeOut ==
    /\ main.phase = "loop" /\ mode.timeout
    /\ kill' = TRUE
    /\ main' = [main EXCEPT !.timedOut = TRUE, !.phase = "drain"]
    /\ UNCHANGED <<history, mode, search, results>>

\* With computeInfo, the remaining goroutines are waited for.
Drain ==
    /\ main.phase = "drain" /\ mode.computeInfo /\ ~Collected(main.count)
    /\ results # <<>>
    /\ results' = Tail(results)
    /\ main' = [main EXCEPT !.count = @ + 1]
    /\ UNCHANGED <<history, mode, search, kill>>

Conclude ==
    /\ main.phase = "drain"
    /\ mode.computeInfo => Collected(main.count)
    /\ main' = [main EXCEPT !.phase = "done",
                            !.result = IF ~main.ok THEN "Illegal"
                                       ELSE IF main.timedOut THEN "Unknown" ELSE "Ok"]
    /\ UNCHANGED <<history, mode, search, kill, results>>

----------------------------------------------------------------------------
\* What the clerks of a test may record of an operation of O (test_test.go).
Operation(O) ==
    {o \in {[op |-> o.op, key |-> o.key, value |-> o.value, out |-> o.out, call |-> t, ret |-> u] :
              o \in O, t \in 1 .. MaxTime, u \in 1 .. MaxTime} : o.call <= o.ret}

\* A history of few operations, in the order in which they returned.
Init ==
    /\ \E O \in Pools, n \in 1 .. MaxOps : history \in [1 .. n -> Operation(O)]
    /\ \A i \in DOMAIN history : i > 1 => history[i - 1].ret <= history[i].ret
    /\ mode \in Modes
    /\ search = LET parts == KvPartition(history)
                IN [i \in DOMAIN parts |-> Searching(parts[i])]
    /\ kill = FALSE
    /\ results = <<>>
    /\ main = [phase |-> "loop", count |-> 0, ok |-> TRUE, timedOut |-> FALSE,
               result |-> "none"]

Next ==
    \/ \E i \in DOMAIN search : checkSingle(i)
    \/ Collect \/ TimeOut \/ Drain \/ Conclude

Spec == Init /\ [][Next]_vars

FairSpec == Spec /\ WF_vars(Next)

----------------------------------------------------------------------------
(* What the checker is compared with.                                      *)

\* a returned before b was called.
Precedes(a, b) == a.ret < b.call

\* The sequence p of places in the sequence of operations ops: every operation that
\* precedes one of p comes before it in p.
InRealTime(ops, p) ==
    \A k \in DOMAIN p : \A a \in DOMAIN ops :
        Precedes(ops[a], ops[p[k]]) => \E l \in 1 .. k - 1 : p[l] = a

\* The stores, by key, after each of the operations of p.
Runs(ops, p) ==
    LET st[k \in 0 .. Len(p)] ==
            IF k = 0 THEN [key \in Range(Key) |-> <<>>]
            ELSE LET o == ops[p[k]] IN
                 [st[k - 1] EXCEPT ![o.key] = Stepped(o, @)]
    IN st

\* p is the beginning of a linearization of ops.
Linearization(ops, p) ==
    /\ InRealTime(ops, p)
    /\ \A k \in DOMAIN p : Steps(ops[p[k]], Runs(ops, p)[k - 1][ops[p[k]].key])

Linearizable(ops) == \E p \in SetToSeqs(DOMAIN ops) : Linearization(ops, p)

\* The beginnings of linearizations of ops.
Beginnings(ops) ==
    {p \in UNION {SetToSeqs(S) : S \in SUBSET DOMAIN ops} : Linearization(ops, p)}

\* The operations that the bitset b holds.
Bits(b) == UNION {{major * Width + minor : minor \in b[major]} : major \in DOMAIN b}

\* The nodes of the list from k on.
Follow(l) ==
    LET from[n \in 0 .. Len(l.match)] ==
            IF n = 0 THEN <<l.next[0]>>
            ELSE LET s == from[n - 1] IN
                 IF Last(s) = Nil THEN s ELSE Append(s, l.next[Last(s)])
    IN from[Len(l.match)]

----------------------------------------------------------------------------
\* checkOperations answers Ok for linearizable histories only and Illegal for the
\* others only, although it looks at each key alone, stops early, times out, prunes
\* with a cache and orders equal times (checkSingle, checkParallel, byTime.Less).
AnswerCorrect ==
    /\ main.result = "Ok" => Linearizable(history)
    /\ main.result = "Illegal" => ~Linearizable(history)
    /\ main.result = "Unknown" => mode.timeout

\* Between two rounds of checkSingle the list holds, in order, the nodes of the calls
\* that are not linearized, and the bitset and the state are those of the calls that
\* are, however often the search went back (lift, unlift, set, clear).
SearchConsistent ==
    \A i \in DOMAIN search :
        LET s == search[i]
            chosen == Chosen(s)
            left == SelectSeq([k \in DOMAIN s.list.match |-> k],
                              LAMBDA k : s.list.id[k] \notin Range(chosen))
            place == [k \in DOMAIN chosen |-> chosen[k] + 1]
        IN /\ Follow(s.list) = Append(left, Nil)
           /\ Bits(s.linearized) = Range(chosen)
           /\ Linearization(s.ops, place)
           /\ s.state = Runs(s.ops, place)[Len(place)][s.ops[1].key]

\* When a partition fails, longest[id] is as long as any beginning of a linearization
\* that contains id, and one itself (checker.go:186, "longest linearizable prefix that
\* includes the given entry").
LongestIsLongest ==
    mode.computeInfo =>
        \A i \in DOMAIN search :
            search[i].result = "false" =>
                LET s == search[i] IN
                \A id \in DOMAIN s.longest :
                    LET place == [k \in DOMAIN s.longest[id] |-> s.longest[id][k] + 1]
                        with == {p \in Beginnings(s.ops) : id + 1 \in Range(p)}
                    IN IF with = {} THEN place = <<>>
                       ELSE place \in with /\ \A p \in with : Len(p) <= Len(place)

\* checkParallel returns (its loop, and the wait for the goroutines).
CheckReturns == <>(main.phase = "done")
=============================================================================
