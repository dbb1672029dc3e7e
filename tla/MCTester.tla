------------------------------ MODULE MCTester ------------------------------
(***************************************************************************)
(* The instance of Tester that TLC checks.                                 *)
(***************************************************************************)
EXTENDS Tester
=============================================================================
