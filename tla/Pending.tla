------------------------------ MODULE Pending ------------------------------
(***************************************************************************)
(* The pending projection of state.json (state/state.go): per channel the  *)
(* one unanswered request shown to the user, closed by the user's own      *)
(* posts.  Checks deliver posts in any order and more than once; what is   *)
(* accepted is decided against a frontier, the pending request or else the *)
(* time of the last own post, by ApplyPending.                             *)
(*                                                                         *)
(* A time stamp is the instant it parses to, or Blank when it is empty, or *)
(* Garbled when it does not parse.  A post id is its rank in the text      *)
(* order of ids.  MergePending runs under the writer lock as one call: it  *)
(* is one BeginMerge (grouping and sorting) and one MergeStep per item,    *)
(* with nothing else enabled in between.                                   *)
(***************************************************************************)
EXTENDS Integers, Sequences

CONSTANTS
  Channels,    \* channel ids, never empty
  NoChannel,   \* the empty channel id
  Items,       \* the posts that checks can deliver
  None,        \* no pending request
  Clock,       \* the instants time.Now() may return
  MaxBatch,    \* bound: items of one check
  MaxLegacy    \* bound: revisions in a state.json of an earlier version

Blank   == 0
Garbled == -1
Stamps  == {Garbled} \cup Nat

\* The fields of protocol.CheckItem that the projection reads.  anchored: the
\* item has the channel id, channel reference and post id validPending asks for.
CheckItem == [channel : Channels \cup {NoChannel}, post : Nat, at : Stamps,
              own : BOOLEAN, addressed : BOOLEAN, anchored : BOOLEAN]

ASSUME PendingAssumption ==
  /\ Items \subseteq CheckItem
  /\ None \notin CheckItem
  /\ NoChannel \notin Channels
  /\ Clock \subseteq Nat \ {Blank}
  /\ MaxBatch \in Nat
  /\ MaxLegacy \in Nat

VARIABLES
  pending,          \* State.Pending
  resolvedAt,       \* State.PendingResolvedAt, Blank when absent
  revision,         \* State.Revision
  pendingRevision,  \* State.PendingRevision, 0 when absent
  loaded,           \* LoadState has normalised the file
  batch,            \* what MergePending has still to apply, in its order
  due,              \* history: items ahead of the frontier when their merge began,
                    \*   not accepted so far
  notified,         \* history: how often a merge accepted an own or addressed item
  seen              \* history: the own and addressed items applied so far

state == <<pending, resolvedAt, revision, pendingRevision>>
vars == <<pending, resolvedAt, revision, pendingRevision, loaded, batch, due,
          notified, seen>>

\* What a state.json can hold for a channel: a request of that channel.
Request(i, c) == i.channel = c /\ i.addressed /\ ~i.own

TypeOK ==
  /\ pending \in [Channels -> Items \cup {None}]
  /\ \A c \in Channels : pending[c] # None =>
       Request(pending[c], c) /\ (loaded => pending[c].anchored)
  /\ resolvedAt \in [Channels -> Stamps]
  /\ revision \in Nat
  /\ pendingRevision \in [Channels -> Nat]
  /\ loaded \in BOOLEAN
  /\ batch \in Seq(Items)
  /\ due \subseteq Items
  /\ notified \in [Items -> Nat]
  /\ seen \subseteq Items

(***************************************************************************)
(* A file of an earlier version: it may hold requests without an anchor,   *)
(* and revisions per channel with a smaller overall revision, or none.     *)
(***************************************************************************)
Init ==
  /\ pending \in {p \in [Channels -> Items \cup {None}] :
                    \A c \in Channels : p[c] # None => Request(p[c], c)}
  /\ resolvedAt = [c \in Channels |-> Blank]
  /\ revision \in 0..MaxLegacy
  /\ pendingRevision \in [Channels -> 0..MaxLegacy]
  /\ loaded = FALSE
  /\ batch = <<>>
  /\ due = {}
  /\ notified = [i \in Items |-> 0]
  /\ seen = {}

-----------------------------------------------------------------------------

\* time.Parse(time.RFC3339Nano, stamp) succeeds.
Parses(stamp) == stamp > Blank

\* compareItems(left, right) > 0: by instant, a stamp that parses after one
\* that does not, by post id when the stamps do not decide.
Newer(left, right) ==
  \/ Parses(left.at) /\ ~Parses(right.at)
  \/ Parses(left.at) /\ Parses(right.at) /\ left.at > right.at
  \/ /\ Parses(left.at) <=> Parses(right.at)
     /\ Parses(left.at) => left.at = right.at
     /\ left.post > right.post

\* Slip: an own post closes the request without being compared with it.
PastPendingIfOwn(i) ==
  pending[i.channel] = None \/ i.own \/ Newer(i, pending[i.channel])

PastPending(i) ==
  pending[i.channel] = None \/ Newer(i, pending[i.channel])

\* Slip: an item at the instant of the resolution is let through.
PastResolutionOrAt(i) ==
  \/ resolvedAt[i.channel] = Blank
  \/ Parses(i.at) /\ Parses(resolvedAt[i.channel]) /\ i.at >= resolvedAt[i.channel]

\* compareItemToResolution(i, resolvedAt, "") > 0, or nothing is resolved: a
\* stamp that does not parse, on either side, compares as equal.
PastResolution(i) ==
  \/ resolvedAt[i.channel] = Blank
  \/ /\ Parses(i.at)
     /\ Parses(resolvedAt[i.channel])
     /\ i.at > resolvedAt[i.channel]

\* The items ApplyPending looks at; it returns false at once for the others.
Relevant(i) == i.channel # NoChannel /\ (i.own \/ (i.addressed /\ i.anchored))

Accepts(i) == Relevant(i) /\ PastPending(i) /\ PastResolution(i)

\* Slip: the request is removed and the resolution not recorded.
CloseUnresolved(i) ==
  pending' = [pending EXCEPT ![i.channel] = None] /\ UNCHANGED resolvedAt

\* An own post closes the projection; without a stamp it is dated by the
\* local clock.
CloseRequest(i) ==
  \E now \in Clock :
    /\ pending' = [pending EXCEPT ![i.channel] = None]
    /\ resolvedAt' = [resolvedAt EXCEPT
                        ![i.channel] = IF i.at = Blank THEN now ELSE i.at]

OpenRequest(i) ==
  /\ pending' = [pending EXCEPT ![i.channel] = i]
  /\ resolvedAt' = [resolvedAt EXCEPT ![i.channel] = Blank]

\* touchPending
Touch(c) ==
  /\ revision' = revision + 1
  /\ pendingRevision' = [pendingRevision EXCEPT ![c] = revision + 1]

\* ApplyPending when it returns true, and its effect in both cases.
Accept(i) ==
  /\ IF i.own THEN CloseRequest(i) ELSE OpenRequest(i)
  /\ Touch(i.channel)

ApplyPending(i) ==
  /\ IF Accepts(i) THEN Accept(i) ELSE UNCHANGED state
  /\ seen' = IF Relevant(i) THEN seen \cup {i} ELSE seen

-----------------------------------------------------------------------------

\* Slips: requests are kept whatever they lack; the revision is kept as stored.
KeptAlways(c) == pending[c] # None
CoversItself(n) == n = revision

\* What LoadState keeps of the file: a request with an anchor, and a revision
\* that is at least every channel's.
Kept(c) == pending[c] # None /\ pending[c].anchored
CoversRevisions(n) ==
  revision =< n /\ \A c \in Channels : pendingRevision[c] =< n

\* LoadState: the overall revision is raised to the channels' revisions and
\* requests that cannot be anchored are dropped.
LoadState ==
  /\ ~loaded
  /\ loaded' = TRUE
  /\ \E top \in {revision} \cup {pendingRevision[c] : c \in Channels} :
       CoversRevisions(top) /\ revision' = top
  /\ pending' = [c \in Channels |->
                   IF Kept(c) THEN pending[c] ELSE None]
  /\ seen' = {pending'[c] : c \in Channels} \ {None}
  /\ UNCHANGED <<resolvedAt, pendingRevision, batch, due, notified>>

\* A direct call: an engine applies the post its user has just sent.
Apply(i) ==
  /\ loaded /\ batch = <<>>
  /\ ApplyPending(i)
  /\ UNCHANGED <<loaded, batch, due, notified>>

\* Slip: grouped by channel and not sorted.
MergeOrderUnsorted(items) ==
  \A j, k \in DOMAIN items :
    j < k /\ items[j].channel = items[k].channel =>
      \A m \in j..k : items[m].channel = items[j].channel

\* The order MergePending applies a check's items in: one run per channel,
\* sorted by compareItems.  Every such sequence is the outcome for some input.
MergeOrder(items) ==
  \A j, k \in DOMAIN items :
    j < k /\ items[j].channel = items[k].channel =>
      /\ ~Newer(items[j], items[k])
      /\ \A m \in j..k : items[m].channel = items[j].channel

BeginMerge(items) ==
  /\ loaded /\ batch = <<>>
  /\ MergeOrder(items)
  /\ batch' = items
  /\ due' = {i \in Items : (\E k \in DOMAIN items : items[k] = i) /\ Accepts(i)}
  /\ UNCHANGED <<pending, resolvedAt, revision, pendingRevision, loaded,
                 notified, seen>>

\* One round of the inner loop.  A post that is neither own nor addressed is a
\* notification whatever the projection says.
MergeStep ==
  /\ batch # <<>>
  /\ LET i == Head(batch) IN
       IF i.own \/ i.addressed
         THEN /\ ApplyPending(i)
              /\ IF Accepts(i)
                   THEN /\ notified' = [notified EXCEPT ![i] = @ + 1]
                        /\ due' = due \ {i}
                   ELSE UNCHANGED <<notified, due>>
         ELSE UNCHANGED <<pending, resolvedAt, revision, pendingRevision, seen,
                          notified, due>>
  /\ batch' = Tail(batch)
  /\ UNCHANGED loaded

Batches == UNION {[1..n -> Items] : n \in 1..MaxBatch}

Next ==
  \/ LoadState
  \/ \E i \in Items : Apply(i)
  \/ \E items \in Batches : BeginMerge(items)
  \/ MergeStep

Spec == Init /\ [][Next]_vars

-----------------------------------------------------------------------------
(***************************************************************************)
(* Two conditions on the posts.  Neither is a promise of the protocol: the *)
(* stamp is optional and a platform may put two posts at one instant.      *)
(***************************************************************************)

\* A post is one post, own posts are dated, and no own post shares its instant
\* with another post of its channel.
WellStamped ==
  \A i, j \in Items :
    /\ i.own => Parses(i.at)
    /\ i.channel = j.channel /\ i # j =>
         /\ i.post # j.post
         /\ i.own /\ Relevant(i) /\ Relevant(j) => i.at # j.at

-----------------------------------------------------------------------------

\* The projection is the latest of the posts seen, if that is a request: an
\* unanswered request is never hidden and an answered one never shown,
\* whatever order and however often checks deliver the posts.
LatestUnansweredWins ==
  loaded =>
    \A c \in Channels :
      LET latest == {i \in seen : /\ i.channel = c
                                  /\ \A j \in seen : j.channel = c => ~Newer(j, i)}
      IN  \A i \in latest : pending[c] = IF i.own THEN None ELSE i

\* Repeated and overlapping checks notify of an own or addressed post at most
\* once.
NotifyOnce == \A i \in Items : notified[i] =< 1

\* What one check brings in front of the frontier is notified, none of it lost
\* to the order in which the items of the check are applied.
NothingSkipped == \A i \in due : \E k \in DOMAIN batch : batch[k] = i

\* The frontier never goes back: a post that is turned away once is turned
\* away ever after, through requests and answers alike.
TurnedAwayForGood ==
  [][loaded => \A i \in Items :
       Relevant(i) /\ ~Accepts(i) => ~Accepts(i)']_vars

\* No change of a channel's projection reuses a revision any channel has, so
\* that equal revisions mean an unchanged projection; also over legacy files.
RevisionFresh ==
  [][\A c \in Channels :
       loaded /\ (pending'[c] # pending[c] \/ resolvedAt'[c] # resolvedAt[c]) =>
         \A d \in Channels : pendingRevision'[c] > pendingRevision[d]]_vars

=============================================================================
