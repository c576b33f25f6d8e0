----------------------------- MODULE MCCursors -----------------------------
(***************************************************************************)
(* TLC instance of Cursors: one channel (channels never meet in Cursors)   *)
(* with enough posts to close a cycle behind the cursor, if one could.     *)
(***************************************************************************)
EXTENDS Cursors, TLC

Symmetry == Permutations(PostIDs)

=============================================================================
