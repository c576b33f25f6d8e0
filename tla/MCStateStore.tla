---------------------------- MODULE MCStateStore ----------------------------
(***************************************************************************)
(* TLC instance of StateStore: the least number of requests for a lost     *)
(* update behind a third request's back.                                   *)
(***************************************************************************)
EXTENDS StateStore

AnyState  == SUBSET Writers
Empty     == {}

=============================================================================
