----------------------------- MODULE MCPending -----------------------------
(***************************************************************************)
(* TLC instance of Pending: a small history of two channels that meets     *)
(* WellStamped.                                                            *)
(***************************************************************************)
EXTENDS Pending

CONSTANTS c1, c2

Post(c, id, stamp) ==
  [channel |-> c, post |-> id, at |-> stamp, own |-> FALSE, addressed |-> FALSE,
   anchored |-> TRUE]
Own(c, id, stamp)  == [Post(c, id, stamp) EXCEPT !.own = TRUE]
Asks(c, id, stamp) == [Post(c, id, stamp) EXCEPT !.addressed = TRUE]
Unanchored(i)      == [i EXCEPT !.anchored = FALSE]

\* One channel with requests around two answers, one of them stampless and two
\* at one instant, and a second channel with a watched post and a request that
\* an earlier version stored without an anchor.
StampedItems ==
  {Asks(c1, 1, Blank), Asks(c1, 5, 1), Asks(c1, 2, 1), Own(c1, 3, 2),
   Asks(c1, 4, 3), Post(c2, 1, 1), Unanchored(Asks(c2, 2, 2))}

=============================================================================
