------------------------------ MODULE Cursors ------------------------------
(***************************************************************************)
(* The cursors of one engine's state.json (state/state.go): per channel,   *)
(* the last acknowledged post, and the order between posts that checks     *)
(* have proven so far.  Post ids are opaque, so the order is not read off  *)
(* the ids: RecordCursor stores "a check that started from base saw        *)
(* candidate last" as one edge base -> candidate, and AdvanceCursor moves  *)
(* the cursor along one such edge, never any other way.                    *)
(*                                                                         *)
(* The Go maps are total functions here: an absent entry of                *)
(* CursorSuccessors is NoCursor (a candidate is never empty), an absent    *)
(* entry of CursorVersions is Unknown.                                     *)
(***************************************************************************)
EXTENDS Integers

CONSTANTS
  Channels,     \* channel ids, never empty
  PostIDs,      \* opaque, non-empty post ids
  NoCursor      \* the empty string: "nothing acknowledged yet"

ASSUME CursorAssumption == NoCursor \notin PostIDs

VARIABLES
  cursors,      \* State.Cursors
  succ,         \* State.CursorSuccessors
  vers,         \* State.CursorVersions
  left          \* history: the values each cursor has held and moved away from

vars == <<cursors, succ, vers, left>>

Cursor  == PostIDs \cup {NoCursor}
Unknown == -1

TypeOK ==
  /\ cursors \in [Channels -> Cursor]
  /\ succ \in [Channels -> [Cursor -> Cursor]]
  /\ vers \in [Channels -> [PostIDs -> Nat \cup {Unknown}]]
  /\ left \in [Channels -> SUBSET Cursor]
  /\ \A c \in Channels, b \in Cursor :     \* the two maps are written together
       succ[c][b] \in PostIDs => vers[c][succ[c][b]] # Unknown

(***************************************************************************)
(* A state.json written before the version maps existed holds cursors and  *)
(* no order at all.                                                        *)
(***************************************************************************)
Init ==
  /\ cursors \in [Channels -> Cursor]
  /\ succ = [c \in Channels |-> [b \in Cursor |-> NoCursor]]
  /\ vers = [c \in Channels |-> [p \in PostIDs |-> Unknown]]
  /\ left = [c \in Channels |-> {}]

-----------------------------------------------------------------------------

\* What indexing the Go map yields: the zero value when the key is absent.
Version(c, b) ==
  IF b \in PostIDs /\ vers[c][b] # Unknown THEN vers[c][b] ELSE 0

Proven(c, base) == succ[c][base] # NoCursor

\* Slip: a candidate with a version is recorded again.
RecordableAgain(c, base, candidate) ==
  candidate # NoCursor /\ base # candidate /\ ~Proven(c, base)

\* RecordCursor got past its early returns: it stores a new edge.
Recordable(c, base, candidate) ==
  /\ candidate # NoCursor
  /\ base # candidate
  /\ ~Proven(c, base)
  /\ vers[c][candidate] = Unknown

\* Slip: the candidate is left without a version.
RecordedBaseOnly(c, base, candidate) ==
  [p \in PostIDs |-> IF p = base /\ vers[c][p] = Unknown THEN 0 ELSE vers[c][p]]

\* The versions after the edge: a base seen for the first time gets 0.
RecordedVersions(c, base, candidate) ==
  [p \in PostIDs |->
     CASE p = candidate                          -> Version(c, base) + 1
       [] p = base /\ vers[c][p] = Unknown       -> 0
       [] OTHER                                  -> vers[c][p]]

\* RecordCursor when it stores an edge; every other call changes nothing that
\* a later call can tell (it may leave empty inner maps behind).
RecordCursor(c, base, candidate) ==
  /\ Recordable(c, base, candidate)
  /\ vers' = [vers EXCEPT ![c] = RecordedVersions(c, base, candidate)]
  /\ succ' = [succ EXCEPT ![c][base] = candidate]
  /\ UNCHANGED <<cursors, left>>

\* Slip: any post a check has proven is accepted, from whatever base.
AdvanceableKnown(c, candidate) ==
  /\ candidate # NoCursor
  /\ cursors[c] # candidate
  /\ \E base \in Cursor : succ[c][base] = candidate

\* AdvanceCursor accepts only the proven successor of the active cursor.
Advanceable(c, candidate) ==
  /\ candidate # NoCursor
  /\ cursors[c] # candidate
  /\ succ[c][cursors[c]] = candidate

AdvanceCursor(c, candidate) ==
  /\ Advanceable(c, candidate)
  /\ cursors' = [cursors EXCEPT ![c] = candidate]
  /\ left' = [left EXCEPT ![c] = @ \cup {cursors[c]}]
  /\ UNCHANGED <<succ, vers>>

\* Checks and acks of any number of clients, in any order: a base or a
\* candidate can be as stale as the caller likes.
Next ==
  \E c \in Channels :
    \/ \E base, candidate \in Cursor : RecordCursor(c, base, candidate)
    \/ \E candidate \in Cursor : AdvanceCursor(c, candidate)

Spec == Init /\ [][Next]_vars

-----------------------------------------------------------------------------

\* The versions are a witness that the recorded edges are ordered: each edge
\* climbs by exactly one, however checks with stale bases interleave.
ProvenOrder ==
  \A c \in Channels, b \in Cursor :
    Proven(c, b) => /\ vers[c][succ[c][b]] = Version(c, b) + 1
                    /\ b \in PostIDs => vers[c][b] # Unknown

\* A post is the proven successor of at most one base: the recorded order is a
\* set of chains, so two cursors can never be merged into one by a late check.
OnePredecessor ==
  \A c \in Channels, a, b \in Cursor :
    Proven(c, a) /\ succ[c][a] = succ[c][b] => a = b

\* The recorded order is a set of chains, whatever stale checks record late.
Chains == ProvenOrder /\ OnePredecessor

\* A cursor never comes back to a value it has left, whatever stale,
\* duplicated or reordered acks arrive: no post is delivered again because the
\* cursor went round in a circle.
NoReturn == \A c \in Channels : cursors[c] \notin left[c]

\* An acknowledged step always climbs in the proven order, by one edge: from
\* the moment a cursor is stored its place in the order only grows.
CursorClimbs ==
  [][\A c \in Channels :
       cursors'[c] # cursors[c] =>
         Version(c, cursors'[c]) = Version(c, cursors[c]) + 1]_vars

=============================================================================
