------------------------------ MODULE MCListen ------------------------------
(***************************************************************************)
(* TLC instance of Listen: two daemons that run at the same time, and a    *)
(* third one that starts behind them.                                      *)
(***************************************************************************)
EXTENDS Listen
=============================================================================
