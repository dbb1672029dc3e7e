------------------------------ MODULE MCKVRaft ------------------------------
(***************************************************************************)
(* KVRaft on small instances: two servers, s1 elected first.               *)
(***************************************************************************)
EXTENDS KVRaft, TLC

CONSTANTS s1, s2, c1, c2, k, l1, l2

TwoServers == s1 :> s2 @@ s2 :> s1

\* s1 leads, then s2; or s1 leads again after that.
TwoTerms == <<s1, s2>>
ThreeTerms == <<s1, s2, s1>>

\* c1 appends, then c2 reads.
AppendThenGet == c1 :> <<[op |-> "Append", key |-> k, arg |-> <<l1>>]>>
                 @@ c2 :> <<[op |-> "Get", key |-> k, arg |-> <<>>]>>
InTurn == <<c1, c2>>

\* c1 puts twice, c2 once in between.
ThreePuts == c1 :> <<[op |-> "Put", key |-> k, arg |-> <<l1>>],
                     [op |-> "Put", key |-> k, arg |-> <<l1>>]>>
             @@ c2 :> <<[op |-> "Put", key |-> k, arg |-> <<l2>>]>>
Between == <<c1, c2, c1>>

=============================================================================
