---------------------------- MODULE MCPorcupine ----------------------------
(***************************************************************************)
(* The instance of Porcupine that TLC checks.  With times 1 to 3 every     *)
(* precedence among three operations occurs, equal times included.         *)
(***************************************************************************)
EXTENDS Porcupine

TwoKeys == <<"k1", "k2">>

Op(op, key, value, out) == [op |-> op, key |-> key, value |-> value, out |-> out]

\* One key: reads that tell in which order the writes came.
Single ==
    {Op("Put", "k1", <<"x">>, <<>>), Op("Append", "k1", <<"y">>, <<>>),
     Op("AppendGet", "k1", <<"y">>, <<"x">>), Op("Get", "k1", <<>>, <<"x">>),
     Op("Get", "k1", <<>>, <<"x", "y">>)}

\* Two keys: reads that tell whether the write came before.
Double ==
    {Op("Put", "k1", <<"x">>, <<>>), Op("Get", "k1", <<>>, <<"x">>),
     Op("Put", "k2", <<"x">>, <<>>), Op("Get", "k2", <<>>, <<>>)}

OneOrTwoKeys == {Single, Double}

\* As the tests of kvraft call it, and as CheckOperations does.
TestModes ==
    {[computeInfo |-> TRUE, timeout |-> TRUE], [computeInfo |-> FALSE, timeout |-> FALSE]}
=============================================================================
