----------------------------- MODULE MCKeychain -----------------------------
(***************************************************************************)
(* TLC instance of Keychain: three processes and two tokens, one of which  *)
(* was stored with a trailing newline.                                     *)
(***************************************************************************)
EXTENDS Keychain, TLC

CONSTANTS t1, t2

TwoTexts  == {t1, t2}
TwoTokens == {[text |-> t1, newline |-> FALSE], [text |-> t2, newline |-> TRUE]}
Symmetry  == Permutations(Processes)

=============================================================================
