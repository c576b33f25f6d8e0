------------------------------ MODULE MCServe ------------------------------
(***************************************************************************)
(* TLC instances of Serve: two connections for one slot, each with any of  *)
(* the three handlers.                                                     *)
(***************************************************************************)
EXTENDS Serve
=============================================================================
