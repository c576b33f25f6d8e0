--------------------------- MODULE PendingProofs ---------------------------
(***************************************************************************)
(* What the projection promises for any posts, and what it promises for    *)
(* posts with usable stamps (WellStamped).  Everything rests on one fact   *)
(* about the frontier, TurnedAwayStays: accepting a post never makes room  *)
(* for one that was turned away before.                                    *)
(***************************************************************************)
EXTENDS Pending, TLAPS

USE DEF Blank, Kept, CoversRevisions

\* compareItems orders posts: a weak order, strict on every post.
LEMMA NewerOrder ==
  ASSUME NEW x \in CheckItem, NEW y \in CheckItem, NEW z \in CheckItem
  PROVE  /\ ~Newer(x, x)
         /\ ~Newer(x, y) /\ Newer(z, y) => ~Newer(x, z)
         /\ ~Newer(x, y) /\ ~Newer(y, z) => ~Newer(x, z)
         /\ ~Newer(x, y) /\ ~Newer(y, x) => x.post = y.post
BY DEF Newer, Parses, CheckItem, Stamps, Garbled

LEMMA ItemFields ==
  ASSUME NEW i \in Items
  PROVE  /\ i \in CheckItem /\ i # None /\ i.at \in Stamps
         /\ Relevant(i) => i.channel \in Channels
BY PendingAssumption DEF CheckItem, Relevant

-----------------------------------------------------------------------------

\* Once a post is accepted it is not accepted again.
LEMMA AcceptedTurnedAway ==
  ASSUME TypeOK, NEW i \in Items, Accepts(i), Accept(i)
  PROVE  ~Accepts(i)'
<1>1. i \in CheckItem /\ i.channel \in Channels /\ i.at \in Stamps /\ i # None
  BY ItemFields DEF Accepts
<1>2. CASE i.own
  <2>1. PICK now \in Clock :
          resolvedAt' = [resolvedAt EXCEPT
                           ![i.channel] = IF i.at = Blank THEN now ELSE i.at]
    BY <1>2 DEF Accept, CloseRequest
  <2>2. now \in Nat \ {0}
    BY PendingAssumption
  <2>3. resolvedAt'[i.channel] = IF i.at = Blank THEN now ELSE i.at
    BY <1>1, <2>1 DEF TypeOK
  <2> QED BY <1>1, <2>2, <2>3 DEF Accepts, PastResolution, Parses, Stamps, Garbled
<1>3. CASE ~i.own
  <2>1. pending'[i.channel] = i
    BY <1>1, <1>3 DEF Accept, OpenRequest, TypeOK
  <2> QED BY <1>1, <2>1, NewerOrder DEF Accepts, PastPending
<1> QED BY <1>2, <1>3

\* Accepting y leaves a post x of the same channel, turned away before, turned
\* away: y is beyond whatever x was not.
LEMMA SameChannelStays ==
  ASSUME TypeOK, NEW x \in Items, NEW y \in Items, x.channel = y.channel,
         Relevant(x), ~Accepts(x), Accepts(y), Accept(y)
  PROVE  ~Accepts(x)'
<1> DEFINE c == y.channel
<1>1. /\ x \in CheckItem /\ y \in CheckItem /\ c \in Channels
      /\ x.at \in Stamps /\ y.at \in Stamps /\ y # None
  BY ItemFields DEF Accepts
<1>2. pending[c] # None => pending[c] \in CheckItem /\ pending[c].at \in Stamps
  BY <1>1, ItemFields DEF TypeOK
<1>3. resolvedAt[c] \in Stamps
  BY <1>1 DEF TypeOK
<1>4. CASE y.own
  <2>1. PICK now \in Clock :
          resolvedAt' = [resolvedAt EXCEPT
                           ![y.channel] = IF y.at = Blank THEN now ELSE y.at]
    BY <1>4 DEF Accept, CloseRequest
  <2>2. now \in Nat \ {0}
    BY PendingAssumption
  <2>3. resolvedAt'[c] = IF y.at = Blank THEN now ELSE y.at
    BY <1>1, <2>1 DEF TypeOK
  <2>4. ~PastResolution(x)'
    <3>1. ~Parses(x.at) => ~PastResolution(x)'
      BY <2>2, <2>3, <1>1 DEF PastResolution, Parses, Stamps, Garbled
    <3>2. ASSUME Parses(x.at)
          PROVE  Parses(y.at) /\ x.at =< y.at
      <4>1. CASE ~PastPending(x)
        BY <3>2, <4>1, <1>1, <1>2
           DEF PastPending, Newer, Accepts, Parses, Stamps, Garbled
      <4>2. CASE ~PastResolution(x)
        BY <3>2, <4>2, <1>1, <1>3
           DEF PastResolution, Accepts, Parses, Stamps, Garbled
      <4> QED BY <4>1, <4>2 DEF Accepts
    <3> QED
      BY <3>1, <3>2, <2>3, <1>1 DEF PastResolution, Parses, Stamps, Garbled
  <2> QED BY <2>4 DEF Accepts
<1>5. CASE ~y.own
  <2>1. pending'[c] = y
    BY <1>1, <1>5 DEF Accept, OpenRequest, TypeOK
  <2>2. ~Newer(x, y)
    <3>1. CASE ~PastPending(x)
      BY <3>1, <1>1, <1>2, NewerOrder DEF PastPending, Accepts
    <3>2. CASE ~PastResolution(x)
      BY <3>2, <1>1, <1>3
         DEF PastResolution, Accepts, Newer, Parses, Stamps, Garbled
    <3> QED BY <3>1, <3>2 DEF Accepts
  <2> QED BY <2>1, <2>2, <1>1 DEF Accepts, PastPending
<1> QED BY <1>4, <1>5

\* A post of another channel is not concerned.
LEMMA OtherChannelSame ==
  ASSUME TypeOK, NEW x \in Items, NEW y \in Items, x.channel # y.channel,
         Relevant(x), Accept(y)
  PROVE  Accepts(x)' = Accepts(x)
<1>1. x.channel \in Channels
  BY ItemFields
<1>2. /\ pending'[x.channel] = pending[x.channel]
      /\ resolvedAt'[x.channel] = resolvedAt[x.channel]
  BY <1>1 DEF Accept, CloseRequest, OpenRequest, TypeOK
<1> QED BY <1>2 DEF Accepts, PastPending, PastResolution

LEMMA TurnedAwayStays ==
  ASSUME TypeOK, NEW x \in Items, NEW y \in Items,
         Relevant(x), ~Accepts(x), ApplyPending(y)
  PROVE  ~Accepts(x)'
<1>1. CASE Accepts(y)
  BY <1>1, SameChannelStays, OtherChannelSame DEF ApplyPending
<1>2. CASE ~Accepts(y)
  BY <1>2 DEF ApplyPending, state, Accepts, PastPending, PastResolution
<1> QED BY <1>1, <1>2


-----------------------------------------------------------------------------

LEMMA AcceptTyped ==
  ASSUME TypeOK, loaded, NEW i \in Items, Accepts(i), Accept(i)
  PROVE  /\ pending' \in [Channels -> Items \cup {None}]
         /\ \A c \in Channels : pending'[c] # None =>
              Request(pending'[c], c) /\ pending'[c].anchored
         /\ resolvedAt' \in [Channels -> Stamps]
         /\ revision' \in Nat
         /\ pendingRevision' \in [Channels -> Nat]
<1>1. /\ i.channel \in Channels /\ i.at \in Stamps
      /\ ~i.own => i.addressed /\ i.anchored
  BY ItemFields DEF Accepts, Relevant
<1>2. Clock \subseteq Stamps
  BY PendingAssumption DEF Stamps
<1>3. revision' \in Nat /\ pendingRevision' \in [Channels -> Nat]
  BY <1>1 DEF Accept, Touch, TypeOK
<1>4. CASE i.own
  <2>1. PICK now \in Clock :
          /\ pending' = [pending EXCEPT ![i.channel] = None]
          /\ resolvedAt' = [resolvedAt EXCEPT
                              ![i.channel] = IF i.at = Blank THEN now ELSE i.at]
    BY <1>4 DEF Accept, CloseRequest
  <2>2. resolvedAt' \in [Channels -> Stamps]
    BY <1>1, <1>2, <2>1 DEF TypeOK
  <2>3. pending' \in [Channels -> Items \cup {None}]
    BY <1>1, <2>1 DEF TypeOK
  <2>4. ASSUME NEW c \in Channels, pending'[c] # None
        PROVE  Request(pending'[c], c) /\ pending'[c].anchored
    BY <1>1, <2>1, <2>4 DEF TypeOK
  <2> QED BY <1>3, <2>2, <2>3, <2>4
<1>5. CASE ~i.own
  <2>1. /\ pending' = [pending EXCEPT ![i.channel] = i]
        /\ resolvedAt' = [resolvedAt EXCEPT ![i.channel] = Blank]
    BY <1>5 DEF Accept, OpenRequest
  <2>2. resolvedAt' \in [Channels -> Stamps]
    BY <1>1, <2>1 DEF TypeOK, Stamps
  <2>3. pending' \in [Channels -> Items \cup {None}]
    BY <1>1, <2>1 DEF TypeOK
  <2>4. ASSUME NEW c \in Channels, pending'[c] # None
        PROVE  Request(pending'[c], c) /\ pending'[c].anchored
    <3>1. pending'[c] = IF c = i.channel THEN i ELSE pending[c]
      BY <2>1 DEF TypeOK
    <3> QED BY <1>1, <1>5, <3>1, <2>4 DEF TypeOK, Request
  <2> QED BY <1>3, <2>2, <2>3, <2>4
<1> QED BY <1>4, <1>5

LEMMA ApplyTyped ==
  ASSUME TypeOK, loaded, loaded' = loaded, NEW i \in Items, ApplyPending(i),
         batch' \in Seq(Items), due' \subseteq Items, notified' \in [Items -> Nat]
  PROVE  TypeOK'
<1>1. seen' \subseteq Items
  BY DEF ApplyPending, TypeOK
<1>2. CASE Accepts(i)
  BY <1>1, <1>2, AcceptTyped DEF ApplyPending, TypeOK
<1>3. CASE ~Accepts(i)
  BY <1>1, <1>3 DEF ApplyPending, TypeOK, state
<1> QED BY <1>2, <1>3

LEMMA LoadTyped == TypeOK /\ LoadState => TypeOK'
<1> SUFFICES ASSUME TypeOK, LoadState PROVE TypeOK'
  OBVIOUS
<1>1. /\ pending' = [c \in Channels |->
                      IF pending[c] # None /\ pending[c].anchored
                        THEN pending[c] ELSE None]
      /\ revision' \in {revision} \cup {pendingRevision[c] : c \in Channels}
      /\ seen' = {pending'[c] : c \in Channels} \ {None}
      /\ UNCHANGED <<resolvedAt, pendingRevision, batch, due, notified>>
      /\ loaded' = TRUE
  BY DEF LoadState
<1>2. /\ pending' \in [Channels -> Items \cup {None}]
      /\ \A c \in Channels : pending'[c] # None =>
           Request(pending'[c], c) /\ pending'[c].anchored
  BY <1>1 DEF TypeOK, Request
<1>3. seen' \subseteq Items
  BY <1>1, <1>2
<1>4. revision' \in Nat
  BY <1>1 DEF TypeOK
<1> QED BY <1>1, <1>2, <1>3, <1>4 DEF TypeOK

LEMMA BatchesTyped == Batches \subseteq Seq(Items)
BY PendingAssumption DEF Batches

\* The item MergeStep applies, and what is left of the batch.
LEMMA HeadTail ==
  ASSUME TypeOK, batch # <<>>
  PROVE  /\ Head(batch) \in Items /\ Head(batch) = batch[1]
         /\ Tail(batch) \in Seq(Items)
         /\ \A k \in DOMAIN batch : k = 1 \/ (k - 1 \in DOMAIN Tail(batch))
         /\ \A k \in DOMAIN Tail(batch) : k + 1 \in DOMAIN batch
                                          /\ Tail(batch)[k] = batch[k + 1]
BY DEF TypeOK

LEMMA MergeStepTyped == TypeOK /\ (batch # <<>> => loaded) /\ MergeStep => TypeOK'
<1> SUFFICES ASSUME TypeOK, loaded, MergeStep PROVE TypeOK'
  BY DEF MergeStep
<1> DEFINE i == Head(batch)
<1>1. i \in Items /\ batch' \in Seq(Items) /\ loaded' = loaded
  BY HeadTail DEF MergeStep
<1>2. due' \subseteq Items /\ notified' \in [Items -> Nat]
  <2>1. due' \in {due, due \ {i}}
    BY DEF MergeStep
  <2>2. notified' \in {notified, [notified EXCEPT ![i] = @ + 1]}
    BY DEF MergeStep
  <2> HIDE DEF i
  <2> QED BY <1>1, <2>1, <2>2 DEF TypeOK
<1>3. CASE i.own \/ i.addressed
  <2>1. ApplyPending(i)
    BY <1>3 DEF MergeStep
  <2> HIDE DEF i
  <2> QED BY <1>1, <1>2, <2>1, ApplyTyped
<1>4. CASE ~(i.own \/ i.addressed)
  BY <1>1, <1>2, <1>4 DEF MergeStep, TypeOK
<1> QED BY <1>3, <1>4

-----------------------------------------------------------------------------
(***************************************************************************)
(* The inductive invariant that needs no condition on the posts.           *)
(***************************************************************************)

\* Nothing happens before LoadState.
Idle == ~loaded => batch = <<>> /\ due = {} /\ seen = {} /\ notified = [i \in Items |-> 0]

\* A notified post is behind the frontier.
NotifiedBehind ==
  \A i \in Items : notified[i] # 0 => notified[i] = 1 /\ Relevant(i) /\ ~Accepts(i)

RevisionTop == loaded => \A c \in Channels : pendingRevision[c] =< revision

IInv == TypeOK /\ Idle /\ NotifiedBehind /\ RevisionTop

LEMMA InitIInv == Init => IInv
<1> SUFFICES ASSUME Init PROVE IInv
  OBVIOUS
<1>1. revision \in Nat /\ pendingRevision \in [Channels -> Nat]
  BY PendingAssumption DEF Init
<1>2. /\ pending \in [Channels -> Items \cup {None}]
      /\ \A c \in Channels : pending[c] # None => Request(pending[c], c)
  BY DEF Init
<1>3. resolvedAt \in [Channels -> Stamps] /\ batch \in Seq(Items)
  BY DEF Init, Stamps
<1>4. notified \in [Items -> Nat] /\ due \subseteq Items /\ seen \subseteq Items
  BY DEF Init
<1>5. TypeOK
  BY <1>1, <1>2, <1>3, <1>4 DEF Init, TypeOK
<1> QED BY <1>5 DEF Init, IInv, Idle, NotifiedBehind, RevisionTop

\* What one ApplyPending does to the parts of IInv that are not types.
LEMMA ApplyKeeps ==
  ASSUME IInv, loaded, NEW y \in Items, ApplyPending(y)
  PROVE  /\ \A x \in Items : Relevant(x) /\ ~Accepts(x) => ~Accepts(x)'
         /\ Accepts(y) => Relevant(y) /\ ~Accepts(y)'
         /\ \A c \in Channels : pendingRevision'[c] =< revision'
         /\ \A c \in Channels :
              pending'[c] # pending[c] \/ resolvedAt'[c] # resolvedAt[c] =>
                \A d \in Channels : pendingRevision'[c] > pendingRevision[d]
<1>1. \A x \in Items : Relevant(x) /\ ~Accepts(x) => ~Accepts(x)'
  BY TurnedAwayStays DEF IInv
<1>2. Accepts(y) => Relevant(y) /\ ~Accepts(y)'
  BY AcceptedTurnedAway DEF ApplyPending, IInv, Accepts
<1>3. CASE Accepts(y)
  <2>1. y.channel \in Channels
    BY <1>3, ItemFields DEF Accepts
  <2>2. /\ revision' = revision + 1 /\ revision \in Nat
        /\ pendingRevision' = [pendingRevision EXCEPT ![y.channel] = revision + 1]
        /\ pendingRevision \in [Channels -> Nat]
    BY <1>3 DEF ApplyPending, Accept, Touch, IInv, TypeOK
  <2>3. \A c \in Channels : pendingRevision[c] =< revision
    BY DEF IInv, RevisionTop
  <2>4. ASSUME NEW c \in Channels, c # y.channel
        PROVE  pending'[c] = pending[c] /\ resolvedAt'[c] = resolvedAt[c]
    BY <1>3, <2>4
       DEF ApplyPending, Accept, CloseRequest, OpenRequest, IInv, TypeOK
  <2>5. \A c \in Channels : pendingRevision'[c] =< revision'
    BY <2>1, <2>2, <2>3
  <2>6. \A d \in Channels : pendingRevision'[y.channel] > pendingRevision[d]
    BY <2>1, <2>2, <2>3
  <2> QED BY <1>1, <1>2, <2>4, <2>5, <2>6
<1>4. CASE ~Accepts(y)
  BY <1>1, <1>2, <1>4 DEF ApplyPending, state, IInv, RevisionTop
<1> QED BY <1>3, <1>4

LEMMA ApplyIInv ==
  ASSUME IInv, NEW i \in Items, Apply(i)
  PROVE  IInv'
<1>1. TypeOK'
  BY ApplyTyped DEF Apply, IInv, TypeOK
<1>2. NotifiedBehind'
  <2>1. \A x \in Items : Relevant(x)' = Relevant(x)
    BY DEF Relevant
  <2> QED BY <2>1, ApplyKeeps DEF Apply, IInv, NotifiedBehind
<1>3. Idle' /\ RevisionTop'
  BY ApplyKeeps DEF Apply, Idle, RevisionTop
<1> QED BY <1>1, <1>2, <1>3 DEF IInv

LEMMA LoadIInv == IInv /\ LoadState => IInv'
<1> SUFFICES ASSUME IInv, LoadState PROVE IInv'
  OBVIOUS
<1>1. TypeOK'
  BY LoadTyped DEF IInv
<1>2. NotifiedBehind'
  BY DEF LoadState, IInv, Idle, NotifiedBehind
<1>3. RevisionTop' /\ Idle'
  BY DEF LoadState, RevisionTop, Idle
<1> QED BY <1>1, <1>2, <1>3 DEF IInv

LEMMA BeginMergeIInv ==
  ASSUME IInv, NEW items \in Batches, BeginMerge(items)
  PROVE  IInv'
<1>1. TypeOK'
  <2>1. items \in Seq(Items)
    BY BatchesTyped
  <2> QED BY <2>1 DEF BeginMerge, IInv, TypeOK
<1>2. (NotifiedBehind /\ RevisionTop /\ Idle)'
  BY DEF BeginMerge, IInv, NotifiedBehind, RevisionTop, Idle, Accepts,
         PastPending, PastResolution
<1> QED BY <1>1, <1>2 DEF IInv

LEMMA MergeStepIInv == IInv /\ MergeStep => IInv'
<1> SUFFICES ASSUME IInv, MergeStep PROVE IInv'
  OBVIOUS
<1> DEFINE y == Head(batch)
<1>1. loaded /\ loaded' /\ y \in Items
  BY HeadTail DEF MergeStep, IInv, Idle, TypeOK
<1>2. TypeOK'
  BY <1>1, MergeStepTyped DEF IInv
<1>3. CASE y.own \/ y.addressed
  <2>1. /\ ApplyPending(y)
        /\ notified' = IF Accepts(y) THEN [notified EXCEPT ![y] = @ + 1]
                                     ELSE notified
    BY <1>3 DEF MergeStep
  <2> HIDE DEF y
  <2>2. RevisionTop'
    BY <1>1, <2>1, ApplyKeeps DEF RevisionTop
  <2>3. ASSUME NEW x \in Items, notified'[x] # 0
        PROVE  notified'[x] = 1 /\ Relevant(x) /\ ~Accepts(x)'
    <3>1. notified \in [Items -> Nat]
      BY DEF IInv, TypeOK
    <3>2. CASE Accepts(y) /\ x = y
      <4>1. notified[y] = 0
        BY <1>1, <3>2 DEF IInv, NotifiedBehind
      <4> QED BY <1>1, <2>1, <3>1, <3>2, <4>1, ApplyKeeps
    <3>3. CASE ~(Accepts(y) /\ x = y)
      <4>1. notified'[x] = notified[x]
        BY <1>1, <2>1, <3>1, <3>3
      <4> QED BY <1>1, <2>1, <2>3, <4>1, ApplyKeeps DEF IInv, NotifiedBehind
    <3> QED BY <3>2, <3>3
  <2>4. NotifiedBehind'
    BY <2>3 DEF NotifiedBehind, Relevant
  <2> QED BY <1>1, <1>2, <2>2, <2>4 DEF IInv, Idle
<1>4. CASE ~(y.own \/ y.addressed)
  <2>1. UNCHANGED <<pending, resolvedAt, revision, pendingRevision, notified>>
    BY <1>4 DEF MergeStep
  <2> QED
    BY <1>1, <1>2, <2>1
       DEF IInv, Idle, NotifiedBehind, RevisionTop, Accepts, PastPending,
           PastResolution
<1> QED BY <1>3, <1>4

LEMMA StepIInv == IInv /\ [Next]_vars => IInv'
<1> SUFFICES ASSUME IInv, [Next]_vars PROVE IInv'
  OBVIOUS
<1>1. CASE LoadState
  BY <1>1, LoadIInv
<1>2. ASSUME NEW i \in Items, Apply(i) PROVE IInv'
  BY <1>2, ApplyIInv
<1>3. ASSUME NEW items \in Batches, BeginMerge(items) PROVE IInv'
  BY <1>3, BeginMergeIInv
<1>4. CASE MergeStep
  BY <1>4, MergeStepIInv
<1>5. CASE UNCHANGED vars
  BY <1>5 DEF vars, IInv, TypeOK, Idle, NotifiedBehind, RevisionTop, Accepts,
              PastPending, PastResolution
<1> QED BY <1>1, <1>2, <1>3, <1>4, <1>5 DEF Next

LEMMA InvariantIInv == Spec => []IInv
BY InitIInv, StepIInv, PTL DEF Spec

\* The projection keeps its types, and requests that can be anchored.
THEOREM Typing == Spec => []TypeOK
<1>1. IInv => TypeOK
  BY DEF IInv
<1> QED BY <1>1, InvariantIInv, PTL

\* MergePending accepts an own or addressed post at most once.
THEOREM NotifiedOnce == Spec => []NotifyOnce
<1>1. IInv => NotifyOnce
  BY DEF IInv, TypeOK, NotifiedBehind, NotifyOnce
<1> QED BY <1>1, InvariantIInv, PTL

\* ApplyPending: turned away once, turned away ever after.
THEOREM FrontierNeverBack == Spec => TurnedAwayForGood
<1> DEFINE Good == loaded => \A i \in Items :
                     Relevant(i) /\ ~Accepts(i) => ~Accepts(i)'
<1>1. ASSUME IInv, [Next]_vars PROVE Good
  <2> USE <1>1
  <2>1. CASE LoadState
    BY <2>1 DEF LoadState
  <2>2. ASSUME NEW y \in Items, Apply(y) PROVE Good
    BY <2>2, ApplyKeeps DEF Apply
  <2>3. CASE UNCHANGED state
    BY <2>3 DEF state, Accepts, PastPending, PastResolution
  <2>4. ASSUME NEW items \in Batches, BeginMerge(items) PROVE Good
    BY <2>3, <2>4 DEF BeginMerge, state
  <2>5. CASE MergeStep
    <3> DEFINE y == Head(batch)
    <3>1. y \in Items
      BY <2>5, HeadTail DEF MergeStep, IInv
    <3>2. ApplyPending(y) \/ UNCHANGED state
      BY <2>5 DEF MergeStep, state
    <3> HIDE DEF y
    <3> QED BY <2>3, <3>1, <3>2, ApplyKeeps
  <2> QED BY <2>1, <2>2, <2>3, <2>4, <2>5 DEF Next, vars, state
<1>2. IInv /\ [Next]_vars => [Good]_vars
  BY <1>1
<1> QED BY <1>2, InvariantIInv, PTL DEF Spec, TurnedAwayForGood

\* touchPending never reuses a revision, whatever LoadState found in the file.
THEOREM RevisionsNeverReused == Spec => RevisionFresh
<1> DEFINE Fresh ==
      \A c \in Channels :
        loaded /\ (pending'[c] # pending[c] \/ resolvedAt'[c] # resolvedAt[c]) =>
          \A d \in Channels : pendingRevision'[c] > pendingRevision[d]
<1>1. ASSUME IInv, [Next]_vars PROVE Fresh
  <2> USE <1>1
  <2>1. CASE LoadState
    BY <2>1 DEF LoadState
  <2>2. ASSUME NEW y \in Items, Apply(y) PROVE Fresh
    BY <2>2, ApplyKeeps DEF Apply
  <2>3. CASE UNCHANGED state
    BY <2>3 DEF state
  <2>4. ASSUME NEW items \in Batches, BeginMerge(items) PROVE Fresh
    BY <2>3, <2>4 DEF BeginMerge, state
  <2>5. CASE MergeStep
    <3> DEFINE y == Head(batch)
    <3>1. y \in Items /\ (loaded = TRUE \/ loaded = FALSE)
      BY <2>5, HeadTail DEF MergeStep, IInv, TypeOK
    <3>2. ApplyPending(y) \/ UNCHANGED state
      BY <2>5 DEF MergeStep, state
    <3> HIDE DEF y
    <3> QED BY <2>3, <3>1, <3>2, ApplyKeeps
  <2> QED BY <2>1, <2>2, <2>3, <2>4, <2>5 DEF Next, vars, state
<1>2. IInv /\ [Next]_vars => [Fresh]_vars
  BY <1>1
<1> QED BY <1>2, InvariantIInv, PTL DEF Spec, RevisionFresh

-----------------------------------------------------------------------------
(***************************************************************************)
(* Under WellStamped the frontier is a post that was seen: the pending     *)
(* request or the own post that closed the last one.                       *)
(***************************************************************************)

\* i is the newest post of channel c seen so far.
NewestSeen(i, c) ==
  i \in seen /\ i.channel = c /\ \A j \in seen : j.channel = c => ~Newer(j, i)

FrontierSeen ==
  /\ \A i \in seen : Relevant(i)
  /\ \A c \in Channels :
       IF pending[c] # None
         THEN resolvedAt[c] = Blank /\ NewestSeen(pending[c], c)
         ELSE IF resolvedAt[c] # Blank
           THEN \E o \in seen : o.own /\ o.at = resolvedAt[c] /\ NewestSeen(o, c)
           ELSE \A j \in seen : j.channel # c

\* What comes past the frontier is newer than everything seen in its channel,
\* and what does not is not newer than the frontier.
LEMMA FrontierDecides ==
  ASSUME WellStamped, TypeOK, FrontierSeen, NEW y \in Items, Relevant(y)
  PROVE  /\ Accepts(y) =>
              \A j \in seen : j.channel = y.channel => ~Newer(j, y)
         /\ ~Accepts(y) =>
              \E o \in seen : /\ NewestSeen(o, y.channel) /\ ~Newer(y, o)
                              /\ pending[y.channel] = IF o.own THEN None ELSE o
<1> DEFINE c == y.channel
<1>1. c \in Channels /\ y \in CheckItem /\ y.at \in Stamps
  BY ItemFields
<1>2. CASE pending[c] # None
  <2>1. resolvedAt[c] = Blank /\ NewestSeen(pending[c], c)
    BY <1>1, <1>2 DEF FrontierSeen
  <2>2. pending[c] \in Items /\ ~pending[c].own
    BY <1>1, <1>2 DEF TypeOK, Request
  <2>3. Accepts(y) <=> Newer(y, pending[c])
    BY <1>1, <1>2, <2>1 DEF Accepts, PastPending, PastResolution
  <2>4. ASSUME NEW j \in seen, j.channel = c, Newer(y, pending[c])
        PROVE  ~Newer(j, y)
    BY <2>1, <2>2, <2>4, <1>1, ItemFields, NewerOrder
       DEF NewestSeen, TypeOK, Newer, Parses, Stamps, Garbled, CheckItem
  <2>5. pending[c] \in seen
    BY <2>1 DEF NewestSeen
  <2> QED BY <2>1, <2>2, <2>3, <2>4, <2>5
<1>3. CASE pending[c] = None /\ resolvedAt[c] # Blank
  <2>1. PICK o \in seen : o.own /\ o.at = resolvedAt[c] /\ NewestSeen(o, c)
    BY <1>1, <1>3 DEF FrontierSeen
  <2>2. /\ o \in Items /\ Parses(o.at) /\ o.at \in Stamps /\ o \in CheckItem
        /\ Relevant(o) /\ o.channel = c
    BY <2>1, ItemFields DEF TypeOK, WellStamped, FrontierSeen, NewestSeen
  <2>3. Accepts(y) <=> Parses(y.at) /\ y.at > o.at
    BY <1>1, <1>3, <2>1, <2>2 DEF Accepts, PastPending, PastResolution
  <2>4. ASSUME NEW j \in seen, j.channel = c, Parses(y.at), y.at > o.at
        PROVE  ~Newer(j, y)
    <3>1. j \in CheckItem /\ j.at \in Stamps /\ ~Newer(j, o)
      BY <2>1, <2>4, ItemFields DEF TypeOK, NewestSeen
    <3> QED BY <2>2, <2>4, <3>1, <1>1 DEF Newer, Parses, Stamps, Garbled
  <2>5. ASSUME ~(Parses(y.at) /\ y.at > o.at)
        PROVE  ~Newer(y, o)
    <3>1. y = o \/ y.at # o.at
      BY <2>1, <2>2 DEF WellStamped
    <3> QED BY <2>2, <2>5, <3>1, <1>1, NewerOrder
               DEF Newer, Parses, Stamps, Garbled
  <2> QED BY <1>3, <2>1, <2>3, <2>4, <2>5
<1>4. CASE pending[c] = None /\ resolvedAt[c] = Blank
  BY <1>1, <1>4 DEF FrontierSeen, Accepts, PastPending, PastResolution
<1> QED BY <1>2, <1>3, <1>4

LEMMA ApplyFrontier ==
  ASSUME WellStamped, TypeOK, FrontierSeen, NEW y \in Items, ApplyPending(y)
  PROVE  FrontierSeen'
<1>1. CASE ~Relevant(y)
  <2>1. UNCHANGED <<state, seen>>
    BY <1>1 DEF ApplyPending, Accepts
  <2> QED BY <2>1 DEF FrontierSeen, NewestSeen, state, Relevant
<1>2. CASE Relevant(y) /\ Accepts(y)
  <2> DEFINE c == y.channel
  <2>1. c \in Channels /\ y \in CheckItem /\ y # None /\ seen' = seen \cup {y}
    BY <1>2, ItemFields DEF ApplyPending
  <2>2. NewestSeen(y, c)'
    BY <1>2, <2>1, FrontierDecides, NewerOrder DEF NewestSeen
  <2>3. CASE y.own
    <3>1. y.at # Blank
      BY <2>3 DEF WellStamped, Parses
    <3>2. pending' = [pending EXCEPT ![c] = None]
          /\ resolvedAt' = [resolvedAt EXCEPT ![c] = y.at]
      BY <1>2, <2>3, <3>1 DEF ApplyPending, Accept, CloseRequest
    <3>3. pending'[c] = None /\ resolvedAt'[c] = y.at
      BY <2>1, <3>2 DEF TypeOK
    <3>4. ASSUME NEW d \in Channels, d # c
          PROVE  pending'[d] = pending[d] /\ resolvedAt'[d] = resolvedAt[d]
      BY <3>2, <3>4 DEF TypeOK
    <3>5. \A i : \A d \in Channels : d # c /\ NewestSeen(i, d) =>
            i \in seen' /\ i.channel = d /\ \A j \in seen' : j.channel = d => ~Newer(j, i)
      BY <2>1 DEF NewestSeen
    <3> QED BY <1>2, <2>1, <2>2, <2>3, <3>1, <3>3, <3>4, <3>5
               DEF FrontierSeen, NewestSeen, Relevant
  <2>4. CASE ~y.own
    <3>2. pending' = [pending EXCEPT ![c] = y]
          /\ resolvedAt' = [resolvedAt EXCEPT ![c] = Blank]
      BY <1>2, <2>4 DEF ApplyPending, Accept, OpenRequest
    <3>3. pending'[c] = y /\ resolvedAt'[c] = Blank
      BY <2>1, <3>2 DEF TypeOK
    <3>4. ASSUME NEW d \in Channels, d # c
          PROVE  pending'[d] = pending[d] /\ resolvedAt'[d] = resolvedAt[d]
      BY <3>2, <3>4 DEF TypeOK
    <3>5. \A i : \A d \in Channels : d # c /\ NewestSeen(i, d) =>
            i \in seen' /\ i.channel = d /\ \A j \in seen' : j.channel = d => ~Newer(j, i)
      BY <2>1 DEF NewestSeen
    <3> QED BY <1>2, <2>1, <2>2, <2>4, <3>3, <3>4, <3>5
               DEF FrontierSeen, NewestSeen, Relevant
  <2> QED BY <2>3, <2>4
<1>3. CASE Relevant(y) /\ ~Accepts(y)
  <2>1. seen' = seen \cup {y} /\ UNCHANGED state
    BY <1>3 DEF ApplyPending
  <2>2. PICK o \in seen : /\ NewestSeen(o, y.channel) /\ ~Newer(y, o)
                          /\ pending[y.channel] = IF o.own THEN None ELSE o
    BY <1>3, FrontierDecides
  <2>3. ASSUME NEW i \in seen, NewestSeen(i, y.channel)
        PROVE  ~Newer(y, i)
    <3>1. i \in CheckItem /\ o \in CheckItem /\ y \in CheckItem /\ ~Newer(o, i)
      BY <2>2, <2>3, ItemFields DEF TypeOK, NewestSeen
    <3> QED BY <2>2, <3>1, NewerOrder
  <2>4. \A i \in seen : \A d \in Channels : NewestSeen(i, d) =>
          i \in seen' /\ i.channel = d /\ \A j \in seen' : j.channel = d => ~Newer(j, i)
    BY <2>1, <2>3 DEF NewestSeen
  <2>5. y.channel \in Channels /\ ~(\A j \in seen : j.channel # y.channel)
    BY <1>3, <2>2, ItemFields DEF NewestSeen
  <2>6. \A i : \A d : NewestSeen(i, d) => i \in seen
    BY DEF NewestSeen
  <2> QED BY <1>3, <2>1, <2>4, <2>5, <2>6 DEF FrontierSeen, NewestSeen, Relevant, state
<1> QED BY <1>1, <1>2, <1>3

LEMMA LoadFrontier ==
  ASSUME TypeOK, Idle, LoadState, resolvedAt = [c \in Channels |-> Blank]
  PROVE  FrontierSeen'
<1>1. /\ seen' = {pending'[c] : c \in Channels} \ {None}
      /\ resolvedAt' = resolvedAt /\ loaded' = TRUE
  BY DEF LoadState
<1>2. TypeOK'
  BY LoadTyped
<1>3. ASSUME NEW i \in seen'
      PROVE  i \in CheckItem /\ Relevant(i) /\ pending'[i.channel] = i
  <2>1. PICK c \in Channels : i = pending'[c] /\ i # None
    BY <1>1, <1>3
  <2>2. i \in Items /\ i.channel = c /\ i.addressed /\ i.anchored
    BY <1>1, <1>2, <2>1 DEF TypeOK, Request
  <2> QED BY <2>1, <2>2, PendingAssumption DEF Relevant
<1>4. ASSUME NEW c \in Channels, pending'[c] # None
      PROVE  NewestSeen(pending[c], c)'
  <2>1. pending'[c] \in seen' /\ pending'[c].channel = c
    BY <1>1, <1>2, <1>4 DEF TypeOK, Request
  <2>2. \A j \in seen' : j.channel = c => j = pending'[c]
    BY <1>3
  <2> QED BY <1>3, <2>1, <2>2, NewerOrder DEF NewestSeen
<1>5. ASSUME NEW c \in Channels, pending'[c] = None
      PROVE  \A j \in seen' : j.channel # c
  BY <1>3, <1>5, ItemFields, PendingAssumption
<1> QED BY <1>1, <1>3, <1>4, <1>5 DEF FrontierSeen, Relevant

\* LoadState runs first, on a file that holds no resolution.
FInv ==
  /\ IInv
  /\ ~loaded => resolvedAt = [c \in Channels |-> Blank]
  /\ loaded => FrontierSeen

LEMMA StepFInv == WellStamped /\ FInv /\ [Next]_vars => FInv'
<1> SUFFICES ASSUME WellStamped, FInv, [Next]_vars PROVE FInv'
  OBVIOUS
<1>1. IInv'
  BY StepIInv DEF FInv
<1>2. CASE LoadState
  BY <1>1, <1>2, LoadFrontier DEF FInv, IInv, LoadState
<1>3. ASSUME NEW y \in Items, ApplyPending(y), loaded, UNCHANGED loaded
      PROVE  FInv'
  BY <1>1, <1>3, ApplyFrontier DEF FInv, IInv
<1>4. CASE UNCHANGED <<state, seen, loaded>>
  BY <1>1, <1>4 DEF FInv, FrontierSeen, NewestSeen, state
<1>5. ASSUME NEW y \in Items, Apply(y) PROVE FInv'
  BY <1>3, <1>5 DEF Apply
<1>6. ASSUME NEW items \in Batches, BeginMerge(items) PROVE FInv'
  BY <1>4, <1>6 DEF BeginMerge, state
<1>7. CASE MergeStep
  <2> DEFINE y == Head(batch)
  <2>1. y \in Items /\ loaded /\ UNCHANGED loaded
    BY <1>7, HeadTail DEF MergeStep, FInv, IInv, Idle, TypeOK
  <2>2. ApplyPending(y) \/ UNCHANGED <<state, seen, loaded>>
    BY <1>7 DEF MergeStep, state
  <2> HIDE DEF y
  <2> QED BY <1>3, <1>4, <2>1, <2>2
<1>8. CASE UNCHANGED vars
  BY <1>4, <1>8 DEF vars, state
<1> QED BY <1>2, <1>5, <1>6, <1>7, <1>8 DEF Next

\* For well-stamped posts the projection shows the latest request exactly when
\* it is unanswered, in whatever order checks deliver the posts (ApplyPending).
THEOREM LatestWins ==
  ASSUME WellStamped PROVE Spec => []LatestUnansweredWins
<1>1. Init => FInv
  BY InitIInv DEF Init, FInv
<1>2. FInv /\ [Next]_vars => FInv'
  BY StepFInv
<1>3. FInv => LatestUnansweredWins
  <2> SUFFICES ASSUME FInv, loaded, NEW c \in Channels, NEW i \in seen,
                      i.channel = c,
                      \A j \in seen : j.channel = c => ~Newer(j, i)
               PROVE  pending[c] = IF i.own THEN None ELSE i
    BY DEF LatestUnansweredWins
  <2>1. FrontierSeen /\ TypeOK
    BY DEF FInv, IInv
  <2>2. ASSUME NEW o \in seen, NewestSeen(o, c) PROVE o = i
    <3>1. /\ o \in Items /\ i \in Items /\ o.channel = c
          /\ ~Newer(o, i) /\ ~Newer(i, o)
      BY <2>1, <2>2 DEF NewestSeen, TypeOK
    <3>2. o.post = i.post
      BY <3>1, ItemFields, NewerOrder
    <3> QED BY <3>1, <3>2 DEF WellStamped
  <2>3. CASE pending[c] # None
    BY <2>1, <2>2, <2>3 DEF FrontierSeen, NewestSeen, TypeOK, Request
  <2>4. CASE pending[c] = None
    BY <2>1, <2>2, <2>4 DEF FrontierSeen
  <2> QED BY <2>3, <2>4
<1> QED BY <1>1, <1>2, <1>3, PTL DEF Spec

-----------------------------------------------------------------------------
(***************************************************************************)
(* Under WellStamped the posts of a batch clear the frontier one after the *)
(* other, because they are applied in the order of compareItems.           *)
(***************************************************************************)

Waiting(i) == \E k \in DOMAIN batch : batch[k] = i

DueInv ==
  /\ MergeOrder(batch)
  /\ \A i \in due : Waiting(i) /\ Accepts(i)

\* Accepting the head of the batch does not overtake what is behind it.
LEMMA BehindHead ==
  ASSUME WellStamped, TypeOK, MergeOrder(batch), batch # <<>>,
         NEW y \in Items, y = Head(batch), Accept(y), Accepts(y),
         NEW i \in Items, i # y, Waiting(i), Accepts(i)
  PROVE  Accepts(i)'
<1>1. /\ y \in CheckItem /\ i \in CheckItem /\ Relevant(i) /\ Relevant(y)
      /\ i.channel \in Channels /\ i.at \in Stamps /\ y.at \in Stamps
  BY ItemFields DEF Accepts
<1>2. CASE i.channel # y.channel
  BY <1>1, <1>2, OtherChannelSame
<1>3. CASE i.channel = y.channel
  <2>1. PICK k \in DOMAIN batch : batch[k] = i /\ k > 1 /\ 1 \in DOMAIN batch /\ batch[1] = y
    BY DEF Waiting, TypeOK
  <2>2. ~Newer(y, i)
    BY <2>1, <1>3 DEF MergeOrder, TypeOK
  <2>3. Newer(i, y)
    BY <2>2, <1>1, <1>3, NewerOrder DEF WellStamped
  <2>4. CASE y.own
    <3>1. y.at # Blank /\ Parses(y.at) /\ i.at # y.at
      BY <1>1, <1>3, <2>4 DEF WellStamped, Parses
    <3>2. pending'[y.channel] = None /\ resolvedAt'[y.channel] = y.at
      BY <1>1, <1>3, <2>4, <3>1 DEF Accept, CloseRequest, TypeOK
    <3>3. Parses(i.at) /\ i.at > y.at
      BY <1>1, <2>3, <3>1 DEF Newer, Parses, Stamps, Garbled
    <3> QED BY <1>1, <1>3, <3>1, <3>2, <3>3
               DEF Accepts, PastPending, PastResolution
  <2>5. CASE ~y.own
    <3>1. pending'[y.channel] = y /\ resolvedAt'[y.channel] = Blank
      BY <1>1, <1>3, <2>5 DEF Accept, OpenRequest, TypeOK
    <3> QED BY <1>1, <1>3, <2>3, <3>1
               DEF Accepts, PastPending, PastResolution
  <2> QED BY <2>4, <2>5
<1> QED BY <1>2, <1>3

LEMMA MergeStepDue ==
  ASSUME WellStamped, TypeOK, DueInv, MergeStep
  PROVE  DueInv'
<1> DEFINE y == Head(batch)
<1>1. y \in Items /\ batch' = Tail(batch)
  BY HeadTail DEF MergeStep
<1>2. MergeOrder(batch')
  <2> SUFFICES ASSUME NEW j \in DOMAIN Tail(batch), NEW k \in DOMAIN Tail(batch),
                      j < k,
                      Tail(batch)[j].channel = Tail(batch)[k].channel
               PROVE  /\ ~Newer(Tail(batch)[j], Tail(batch)[k])
                      /\ \A m \in j..k : Tail(batch)[m].channel = Tail(batch)[j].channel
    BY <1>1 DEF MergeOrder
  <2>1. DOMAIN Tail(batch) = 1..(Len(batch) - 1) /\ DOMAIN batch = 1..Len(batch)
        /\ Len(batch) \in Nat
    BY DEF TypeOK, MergeStep
  <2>2. \A m \in DOMAIN Tail(batch) :
          m + 1 \in DOMAIN batch /\ Tail(batch)[m] = batch[m + 1]
    BY HeadTail DEF MergeStep
  <2>3. /\ ~Newer(batch[j + 1], batch[k + 1])
        /\ \A m \in (j + 1)..(k + 1) : batch[m].channel = batch[j + 1].channel
    BY <2>1, <2>2 DEF DueInv, MergeOrder
  <2>4. \A m \in j..k : m \in DOMAIN Tail(batch) /\ m + 1 \in (j + 1)..(k + 1)
    BY <2>1
  <2> QED BY <2>2, <2>3, <2>4
<1>3. ASSUME NEW i \in due'
      PROVE  Waiting(i)' /\ Accepts(i)'
  <2>1. i \in due /\ i \in Items /\ Waiting(i) /\ Accepts(i)
    BY <1>3 DEF MergeStep, DueInv, TypeOK
  <2>2. i # y
    BY <1>3, <2>1 DEF MergeStep, Accepts, Relevant
  <2>3. Waiting(i)'
    BY <1>1, <2>1, <2>2, HeadTail DEF Waiting, MergeStep
  <2>4. CASE (y.own \/ y.addressed) /\ Accepts(y)
    <3>1. Accept(y) /\ MergeOrder(batch) /\ batch # <<>>
      BY <2>4 DEF MergeStep, ApplyPending, DueInv
    <3> QED BY <1>1, <2>1, <2>2, <2>3, <2>4, <3>1, BehindHead
  <2>5. CASE ~((y.own \/ y.addressed) /\ Accepts(y))
    <3>1. UNCHANGED state
      BY <2>5 DEF MergeStep, ApplyPending, state
    <3> QED BY <2>1, <2>3, <3>1 DEF state, Accepts, PastPending, PastResolution
  <2> QED BY <2>4, <2>5
<1> QED BY <1>2, <1>3 DEF DueInv

\* Nothing a check brings past the frontier is lost to the order of its items
\* (MergePending's sort).
THEOREM NoneSkipped ==
  ASSUME WellStamped PROVE Spec => []NothingSkipped
<1>1. Init => DueInv
  BY DEF Init, DueInv, MergeOrder
<1>2. IInv /\ DueInv /\ [Next]_vars => DueInv'
  <2> SUFFICES ASSUME IInv, DueInv, [Next]_vars PROVE DueInv'
    OBVIOUS
  <2>1. CASE LoadState
    BY <2>1 DEF LoadState, IInv, Idle, DueInv
  <2>2. ASSUME NEW y \in Items, Apply(y) PROVE DueInv'
    <3>1. due = {} /\ batch' = batch /\ due' = due
      BY <2>2 DEF Apply, DueInv, Waiting
    <3> QED BY <3>1 DEF DueInv
  <2>3. ASSUME NEW items \in Batches, BeginMerge(items) PROVE DueInv'
    BY <2>3 DEF BeginMerge, DueInv, Waiting, Accepts, PastPending, PastResolution
  <2>4. CASE MergeStep
    BY <2>4, MergeStepDue DEF IInv
  <2>5. CASE UNCHANGED vars
    BY <2>5 DEF vars, DueInv, Waiting, Accepts, PastPending, PastResolution
  <2> QED BY <2>1, <2>2, <2>3, <2>4, <2>5 DEF Next
<1>3. DueInv => NothingSkipped
  BY DEF DueInv, Waiting, NothingSkipped
<1> QED BY <1>1, <1>2, <1>3, InvariantIInv, PTL DEF Spec

=============================================================================
