------------------------------ MODULE MCKVSrv ------------------------------
(***************************************************************************)
(* KVSrv on a small instance.                                              *)
(***************************************************************************)
EXTENDS KVSrv

=============================================================================
