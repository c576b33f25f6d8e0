--------------------------- MODULE MCEngineChecks ---------------------------
(***************************************************************************)
(* TLC instance of EngineChecks: two clients and a history in which the    *)
(* user answers one request and leaves another, with a watched post.       *)
(***************************************************************************)
EXTENDS EngineChecks

History      == <<"request", "watch", "own", "request">>
DatedHistory == {1, 2, 4}

=============================================================================
