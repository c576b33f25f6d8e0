----------------------------- MODULE MCJSONFile -----------------------------
(***************************************************************************)
(* TLC instance of JSONFile: three overlapping saves of two values, two    *)
(* readers.                                                                *)
(***************************************************************************)
EXTENDS JSONFile, TLC

Symmetry == Permutations(Writers) \cup Permutations(Readers)

=============================================================================
