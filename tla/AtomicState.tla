---------------------------- MODULE AtomicState ----------------------------
(***************************************************************************)
(* What state.json is to the engine requests that change it: one value to  *)
(* which each request adds its update in one step, or not at all.  The     *)
(* value is the set of updates made so far.  A request that is answered    *)
(* without an error has made its update, one that is answered with an      *)
(* error has not, and one that is killed has or has not.                   *)
(***************************************************************************)

CONSTANT Requests

VARIABLES
  value,    \* the updates in state.json
  fate      \* per request: "open", "ok", "error" or "killed"

Init ==
  /\ value = {}
  /\ fate = [p \in Requests |-> "open"]

Commit(p) ==
  /\ fate[p] = "open" /\ p \notin value
  /\ value' = value \cup {p}
  /\ UNCHANGED fate

Answer(p) ==
  /\ fate[p] = "open"
  /\ fate' = [fate EXCEPT ![p] = IF p \in value THEN "ok" ELSE "error"]
  /\ UNCHANGED value

Kill(p) ==
  /\ fate[p] = "open"
  /\ fate' = [fate EXCEPT ![p] = "killed"]
  /\ UNCHANGED value

Next == \E p \in Requests : Commit(p) \/ Answer(p) \/ Kill(p)

Spec == Init /\ [][Next]_<<value, fate>>

=============================================================================
