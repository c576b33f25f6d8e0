----------------------------- MODULE MCRequests -----------------------------
(***************************************************************************)
(* TLC instance of Requests: a limit of two bytes, values up to two bytes  *)
(* longer, and tails that reach past the limit.                            *)
(***************************************************************************)
EXTENDS Requests
=============================================================================
