--------------------------- MODULE CursorsProofs ---------------------------
(***************************************************************************)
(* What Cursors promises, for any number of channels and posts.  NoReturn  *)
(* is not inductive: that no edge leads back to a value a cursor has left  *)
(* is only visible through the versions, so the invariant says that every  *)
(* value left behind has a version for good, and a smaller one than the    *)
(* value the cursor now has.                                               *)
(***************************************************************************)
EXTENDS Cursors, TLAPS

\* A value whose version no later step can change.
Known(c, b) == b \in PostIDs => vers[c][b] # Unknown

LeftBehind ==
  \A c \in Channels : \A b \in left[c] :
    Known(c, b) /\ Version(c, b) < Version(c, cursors[c])

IInv == TypeOK /\ ProvenOrder /\ OnePredecessor /\ LeftBehind

\* A version, however it is looked up, is a natural number.
LEMMA VersionNat ==
  ASSUME TypeOK, NEW c \in Channels, NEW b \in Cursor
  PROVE  Version(c, b) \in Nat
BY CursorAssumption DEF TypeOK, Version, Cursor, Unknown

\* Recording an edge never changes a version that is already known (state.go,
\* RecordCursor: a base gets 0 only when absent, a known candidate is refused).
LEMMA KnownStays ==
  ASSUME TypeOK, NEW c \in Channels, NEW base \in Cursor,
         NEW candidate \in Cursor, RecordCursor(c, base, candidate),
         NEW d \in Channels, NEW b \in Cursor, Known(d, b)
  PROVE  Known(d, b)' /\ Version(d, b)' = Version(d, b)
<1>1. CASE b \notin PostIDs
  BY <1>1 DEF Known, Version
<1>2. CASE b \in PostIDs /\ d = c
  BY <1>2 DEF RecordCursor, RecordedVersions, Recordable, Known, Version, TypeOK, Unknown
<1>3. CASE b \in PostIDs /\ d # c
  BY <1>3 DEF RecordCursor, Known, Version, TypeOK
<1> QED BY <1>1, <1>2, <1>3

\* What one recorded edge does to the channel it is recorded for.
LEMMA RecordedEdge ==
  ASSUME TypeOK, NEW c \in Channels, NEW base \in Cursor,
         NEW candidate \in Cursor, RecordCursor(c, base, candidate)
  PROVE  /\ candidate \in PostIDs
         /\ succ' = [succ EXCEPT ![c][base] = candidate]
         /\ vers'[c][candidate] = Version(c, base) + 1
         /\ Known(c, base)'
         /\ Version(c, base)' = Version(c, base)
<1>1. candidate \in PostIDs /\ base # candidate /\ vers[c][candidate] = Unknown
  BY DEF RecordCursor, Recordable, Cursor
<1>2. Version(c, base) \in Nat
  BY VersionNat
<1>3. vers'[c] = RecordedVersions(c, base, candidate)
  BY DEF RecordCursor, TypeOK
<1>4. vers'[c][candidate] = Version(c, base) + 1
  BY <1>1, <1>3 DEF RecordedVersions
<1>5. ASSUME base \in PostIDs
      PROVE  vers'[c][base] = Version(c, base)
  BY <1>1, <1>3, <1>5 DEF RecordedVersions, Version
<1>6. Known(c, base)' /\ Version(c, base)' = Version(c, base)
  BY <1>2, <1>5 DEF Known, Version, Unknown
<1> QED BY <1>1, <1>4, <1>6 DEF RecordCursor

-----------------------------------------------------------------------------

LEMMA InitIInv == Init => IInv
BY CursorAssumption
   DEF Init, IInv, TypeOK, ProvenOrder, OnePredecessor, LeftBehind, Proven,
       Cursor, Unknown

LEMMA RecordTyped ==
  ASSUME TypeOK, NEW c \in Channels, NEW base \in Cursor,
         NEW candidate \in Cursor, RecordCursor(c, base, candidate)
  PROVE  TypeOK'
<1>1. Version(c, base) + 1 \in Nat \cup {Unknown}
  BY VersionNat
<1>2. RecordedVersions(c, base, candidate) \in [PostIDs -> Nat \cup {Unknown}]
  BY <1>1 DEF RecordedVersions, TypeOK
<1>3. ASSUME NEW d \in Channels, NEW b \in Cursor, succ'[d][b] \in PostIDs
      PROVE  vers'[d][succ'[d][b]] # Unknown
  <2>1. CASE d = c /\ b = base
    <3>1. succ'[d][b] = candidate /\ vers'[c][candidate] \in Nat
      BY <2>1, RecordedEdge, VersionNat DEF TypeOK
    <3> QED BY <2>1, <3>1 DEF Unknown
  <2>2. CASE d # c \/ b # base
    <3>1. succ'[d][b] = succ[d][b]
      BY <2>2 DEF RecordCursor, TypeOK
    <3>2. PICK q \in PostIDs : q = succ[d][b] /\ vers[d][q] # Unknown
      BY <1>3, <3>1 DEF TypeOK
    <3>3. Known(d, q)'
      BY <3>2, KnownStays DEF Known, Cursor
    <3> QED BY <3>1, <3>2, <3>3 DEF Known
  <2> QED BY <2>1, <2>2
<1> QED BY <1>2, <1>3 DEF RecordCursor, TypeOK

LEMMA RecordKeepsIInv ==
  ASSUME IInv, NEW c \in Channels, NEW base \in Cursor,
         NEW candidate \in Cursor, RecordCursor(c, base, candidate)
  PROVE  IInv'
<1> USE DEF IInv
<1>1. TypeOK'
  BY RecordTyped
<1>2. /\ candidate \in PostIDs /\ Known(c, base)'
      /\ succ' = [succ EXCEPT ![c][base] = candidate]
      /\ vers'[c][candidate] = Version(c, base) + 1
      /\ Version(c, base)' = Version(c, base)
      /\ vers[c][candidate] = Unknown
  BY RecordedEdge DEF RecordCursor, Recordable
<1>3. ASSUME NEW d \in Channels, NEW b \in Cursor, d # c \/ b # base
      PROVE  succ'[d][b] = succ[d][b]
  BY <1>2, <1>3 DEF TypeOK
<1>4. succ'[c][base] = candidate
  BY <1>2 DEF TypeOK
<1>5. ASSUME NEW d \in Channels, NEW b \in Cursor, Proven(d, b),
             NEW q \in Cursor, q = succ[d][b]
      PROVE  /\ Known(d, b)
             /\ vers[d][q] # Unknown
             /\ vers'[d][q] = vers[d][q]
  <2>1. q \in PostIDs
    BY <1>5 DEF Proven, Cursor
  <2>2. Known(d, b) /\ vers[d][q] = Version(d, b) + 1
    BY <1>5 DEF ProvenOrder, Known
  <2>3. vers[d][q] # Unknown
    BY <2>2, VersionNat DEF Unknown
  <2>4. Known(d, q)' /\ Version(d, q)' = Version(d, q)
    BY <2>3, KnownStays DEF Known
  <2> QED BY <2>1, <2>2, <2>3, <2>4 DEF Version, Known
<1>6. ProvenOrder'
  <2> SUFFICES ASSUME NEW d \in Channels, NEW b \in Cursor, Proven(d, b)'
               PROVE  /\ vers'[d][succ'[d][b]] = Version(d, b)' + 1
                      /\ Known(d, b)'
    BY DEF ProvenOrder, Known
  <2>1. CASE d = c /\ b = base
    BY <2>1, <1>2, <1>4
  <2>2. CASE d # c \/ b # base
    <3>1. Proven(d, b)
      BY <2>2, <1>3 DEF Proven
    <3>2. vers[d][succ[d][b]] = Version(d, b) + 1
      BY <3>1 DEF ProvenOrder
    <3>3. Known(d, b)' /\ Version(d, b)' = Version(d, b)
      BY <3>1, KnownStays DEF ProvenOrder, Known
    <3>4. vers'[d][succ[d][b]] = vers[d][succ[d][b]]
      BY <3>1, <1>5 DEF TypeOK
    <3> QED BY <2>2, <1>3, <3>2, <3>3, <3>4
  <2> QED BY <2>1, <2>2
<1>7. OnePredecessor'
  <2> SUFFICES ASSUME NEW d \in Channels, NEW a \in Cursor, NEW b \in Cursor,
                      Proven(d, a)', succ'[d][a] = succ'[d][b]
               PROVE  a = b
    BY DEF OnePredecessor
  <2>1. ASSUME NEW e \in Cursor, e # base, Proven(c, e)
        PROVE  succ[c][e] # candidate
    BY <2>1, <1>5, <1>2 DEF TypeOK
  <2>2. Proven(d, b)'
    BY DEF Proven
  <2>3. CASE d = c /\ (a = base \/ b = base)
    BY <2>1, <2>2, <2>3, <1>3, <1>4 DEF Proven
  <2>4. CASE d # c \/ (a # base /\ b # base)
    BY <2>4, <1>3 DEF OnePredecessor, Proven
  <2> QED BY <2>3, <2>4
<1>8. LeftBehind'
  <2> SUFFICES ASSUME NEW d \in Channels, NEW b \in left[d]
               PROVE  Known(d, b)' /\ Version(d, b)' < Version(d, cursors[d])'
    BY DEF LeftBehind, RecordCursor
  <2>1. b \in Cursor /\ cursors[d] \in Cursor /\ cursors' = cursors
    BY DEF TypeOK, RecordCursor
  <2>2. Known(d, b) /\ Version(d, b) < Version(d, cursors[d])
    BY DEF LeftBehind
  <2>3. Known(d, cursors[d])
    BY <2>1, <2>2, VersionNat DEF Version, Known, Unknown
  <2>4. /\ Known(d, b)' /\ Version(d, b)' = Version(d, b)
        /\ Version(d, cursors[d])' = Version(d, cursors[d])
    <3>1. Known(d, b)' /\ Version(d, b)' = Version(d, b)
      BY <2>1, <2>2, KnownStays
    <3>2. ASSUME NEW q \in Cursor, Known(d, q)
          PROVE  Version(d, q)' = Version(d, q)
      BY <3>2, KnownStays
    <3> QED BY <2>1, <2>3, <3>1, <3>2 DEF Version
  <2> QED BY <2>2, <2>4
<1> QED BY <1>1, <1>6, <1>7, <1>8

\* The step an acknowledgement takes: one edge up from where the cursor was.
LEMMA AdvanceClimbs ==
  ASSUME IInv, NEW c \in Channels, NEW candidate \in Cursor,
         AdvanceCursor(c, candidate)
  PROVE  /\ cursors' = [cursors EXCEPT ![c] = candidate]
         /\ candidate \in PostIDs /\ Known(c, cursors[c])
         /\ Version(c, candidate) = Version(c, cursors[c]) + 1
<1>1. Proven(c, cursors[c]) /\ succ[c][cursors[c]] = candidate /\ cursors[c] \in Cursor
  BY DEF AdvanceCursor, Advanceable, Proven, IInv, TypeOK
<1>2. /\ vers[c][candidate] = Version(c, cursors[c]) + 1
      /\ Known(c, cursors[c])
  BY <1>1 DEF IInv, ProvenOrder, Known
<1>3. Version(c, cursors[c]) \in Nat
  BY <1>1, VersionNat DEF IInv
<1> QED BY <1>2, <1>3 DEF AdvanceCursor, Advanceable, Cursor, Version, Unknown

LEMMA AdvanceKeepsIInv ==
  ASSUME IInv, NEW c \in Channels, NEW candidate \in Cursor,
         AdvanceCursor(c, candidate)
  PROVE  IInv'
<1> USE DEF IInv
<1>1. TypeOK'
  BY DEF TypeOK, AdvanceCursor
<1>2. ProvenOrder' /\ OnePredecessor'
  BY DEF ProvenOrder, OnePredecessor, AdvanceCursor, Proven, Version
<1>3. LeftBehind'
  <2> SUFFICES ASSUME NEW d \in Channels, NEW b \in left'[d]
               PROVE  Known(d, b)' /\ Version(d, b)' < Version(d, cursors[d])'
    BY DEF LeftBehind
  <2>1. vers' = vers
    BY DEF AdvanceCursor
  <2>2. CASE d # c
    <3>1. b \in left[d] /\ cursors'[d] = cursors[d]
      BY <2>2 DEF AdvanceCursor, TypeOK
    <3> QED BY <2>1, <3>1 DEF LeftBehind, Known, Version
  <2>3. CASE d = c
    <3>1. b \in left[c] \cup {cursors[c]} /\ cursors'[c] = candidate
      BY <2>3 DEF AdvanceCursor, TypeOK
    <3>2. Known(c, b) /\ Version(c, b) =< Version(c, cursors[c])
      BY <3>1, AdvanceClimbs, VersionNat DEF LeftBehind, TypeOK
    <3>3. Version(c, b) \in Nat /\ Version(c, cursors[c]) \in Nat
      BY <3>1, VersionNat DEF TypeOK
    <3>4. Version(c, b) < Version(c, candidate)
      BY <3>2, <3>3, AdvanceClimbs
    <3> QED BY <2>1, <2>3, <3>1, <3>2, <3>4 DEF Known, Version
  <2> QED BY <2>2, <2>3
<1> QED BY <1>1, <1>2, <1>3

-----------------------------------------------------------------------------

LEMMA StepIInv == IInv /\ [Next]_vars => IInv'
<1> SUFFICES ASSUME IInv, [Next]_vars PROVE IInv'
  OBVIOUS
<1>1. ASSUME NEW c \in Channels, NEW base \in Cursor, NEW candidate \in Cursor,
             RecordCursor(c, base, candidate)
      PROVE  IInv'
  BY <1>1, RecordKeepsIInv
<1>2. ASSUME NEW c \in Channels, NEW candidate \in Cursor,
             AdvanceCursor(c, candidate)
      PROVE  IInv'
  BY <1>2, AdvanceKeepsIInv
<1>3. CASE UNCHANGED vars
  BY <1>3 DEF vars, IInv, TypeOK, ProvenOrder, OnePredecessor, LeftBehind,
              Proven, Known, Version
<1> QED BY <1>1, <1>2, <1>3 DEF Next

LEMMA InvariantIInv == Spec => []IInv
BY InitIInv, StepIInv, PTL DEF Spec

\* The maps of state.json keep their types.
THEOREM Typing == Spec => []TypeOK
<1>1. IInv => TypeOK
  BY DEF IInv
<1> QED BY <1>1, InvariantIInv, PTL

\* RecordCursor keeps every recorded edge climbing by one.
THEOREM OrderProven == Spec => []ProvenOrder
<1>1. IInv => ProvenOrder
  BY DEF IInv
<1> QED BY <1>1, InvariantIInv, PTL

\* RecordCursor never joins two chains: a successor has one predecessor.
THEOREM ChainsNeverMerge == Spec => []OnePredecessor
<1>1. IInv => OnePredecessor
  BY DEF IInv
<1> QED BY <1>1, InvariantIInv, PTL

\* What RecordCursor has recorded of a channel is a set of chains that climb by
\* one version at every edge.
THEOREM OrderIsChains == Spec => []Chains
<1>1. ProvenOrder /\ OnePredecessor => Chains
  BY DEF Chains
<1> QED BY <1>1, OrderProven, ChainsNeverMerge, PTL

\* AdvanceCursor never brings a cursor back to a value it has left.
THEOREM NeverReturns == Spec => []NoReturn
<1>1. IInv => NoReturn
  <2> SUFFICES ASSUME IInv, NEW c \in Channels, cursors[c] \in left[c]
               PROVE  FALSE
    BY DEF NoReturn
  <2>1. Version(c, cursors[c]) < Version(c, cursors[c])
    BY DEF IInv, LeftBehind
  <2>2. Version(c, cursors[c]) \in Nat
    BY VersionNat DEF IInv, TypeOK
  <2> QED BY <2>1, <2>2
<1> QED BY <1>1, InvariantIInv, PTL

\* Every acknowledged step climbs one edge of the proven order.
THEOREM AcksClimb == Spec => CursorClimbs
<1> DEFINE Climb(c) == cursors'[c] # cursors[c] =>
                         Version(c, cursors'[c]) = Version(c, cursors[c]) + 1
<1>1. ASSUME IInv, [Next]_vars, NEW d \in Channels
      PROVE  Climb(d)
  <2>1. CASE UNCHANGED vars
    BY <2>1 DEF vars
  <2>2. ASSUME NEW c \in Channels, NEW base \in Cursor,
               NEW candidate \in Cursor, RecordCursor(c, base, candidate)
        PROVE  Climb(d)
    BY <2>2 DEF RecordCursor
  <2>3. ASSUME NEW c \in Channels, NEW candidate \in Cursor,
               AdvanceCursor(c, candidate)
        PROVE  Climb(d)
    <3>1. /\ cursors' = [cursors EXCEPT ![c] = candidate]
          /\ Version(c, candidate) = Version(c, cursors[c]) + 1
      BY <1>1, <2>3, AdvanceClimbs
    <3> QED BY <1>1, <3>1 DEF IInv, TypeOK
  <2> QED BY <1>1, <2>1, <2>2, <2>3 DEF Next
<1>2. IInv /\ [Next]_vars => [\A c \in Channels : Climb(c)]_vars
  BY <1>1
<1> QED BY <1>2, InvariantIInv, PTL DEF Spec, CursorClimbs

=============================================================================
