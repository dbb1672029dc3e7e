---------------------------- MODULE MCMapReduce ----------------------------
(***************************************************************************)
(* MapReduce on small instances.                                           *)
(***************************************************************************)
EXTENDS MapReduce, TLC

\* What the map tasks emit: the first for every reduce task, the second for the
\* last one only.
TwoMaps == 0 :> ReduceTask @@ 1 :> {NReduce - 1}

=============================================================================
