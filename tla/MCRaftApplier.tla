--------------------------- MODULE MCRaftApplier ---------------------------
(***************************************************************************)
(* RaftApplier on small instances.                                         *)
(***************************************************************************)
EXTENDS RaftApplier

=============================================================================
