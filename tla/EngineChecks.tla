---------------------------- MODULE EngineChecks ----------------------------
(***************************************************************************)
(* The checks of several clients on one channel, end to end: an engine     *)
(* notes the active cursor, fetches what was posted after it, and in one   *)
(* locked update of state.json (StateStore: OneAtomicUpdate) merges the    *)
(* posts into the pending projection, records the cursor's successor and   *)
(* the channel's activity.  Its reply carries the accepted items and a     *)
(* cursor, which the client acknowledges once it has notified (CheckData,  *)
(* AckArgs).  Replies and acks are lost, engines die before they save.     *)
(*                                                                         *)
(* Posts are numbered in the order of the platform, which the state never  *)
(* sees: to it their ids are opaque.  They are well stamped, so the        *)
(* projection is its frontier, the latest own or addressed post applied    *)
(* (Pending: LatestUnansweredWins).  The engine's own code is outside the  *)
(* repository; its sequence of calls is the one that RecordCursor,         *)
(* MergePending and CheckData document.                                    *)
(***************************************************************************)
EXTENDS Integers

CONSTANTS
  Clients,
  Channel,
  MaxPosts, \* bound: posts of the channel
  Kind,     \* per post: "own", "request" (addressed to the user) or "watch"
  Dated,    \* the posts with a stamp that parses
  MaxLost   \* bound: replies and acks that are lost

Posts   == 1..MaxPosts
Nothing == 0           \* the empty cursor, and no activity
Garbled == -1          \* a stored activity that does not parse

ASSUME ChecksAssumption ==
  /\ MaxPosts \in Nat /\ MaxLost \in Nat
  /\ Kind \in [Posts -> {"own", "request", "watch"}]
  /\ Dated \subseteq Posts

VARIABLES
  cursors, succ, vers, left,   \* see Cursors
  posted,      \* how many posts the platform has
  frontier,    \* the latest own or addressed post the projection has applied
  activity,    \* State.Activity of the channel
  stage,       \* per client: where its check is
  base,        \* the cursor the check started from
  upto,        \* the latest post the check has seen
  news,        \* the items of the check's reply
  delivered,   \* history: the posts some client was notified of
  missed,      \* history: the items of replies that were lost
  lost         \* how many replies and acks were lost

cursorVars == <<cursors, succ, vers, left>>
checkVars  == <<stage, base, upto, news>>
vars == <<cursors, succ, vers, left, posted, frontier, activity, stage, base, upto,
          news, delivered, missed, lost>>

C == INSTANCE Cursors
       WITH Channels <- {Channel}, PostIDs <- Posts, NoCursor <- Nothing

Cursor == cursors[Channel]

TypeOK ==
  /\ C!TypeOK
  /\ posted \in 0..MaxPosts
  /\ frontier \in 0..posted
  /\ activity \in {Garbled} \cup 0..posted
  /\ stage \in [Clients -> {"idle", "fetching", "fetched", "replying", "acking"}]
  /\ base \in [Clients -> 0..posted]
  /\ upto \in [Clients -> 0..posted]
  /\ news \in [Clients -> SUBSET Posts]
  /\ delivered \subseteq Posts /\ missed \subseteq Posts
  /\ lost \in 0..MaxLost

Init ==
  /\ C!Init /\ Cursor = Nothing
  /\ posted = 0 /\ frontier = 0
  /\ activity \in {Nothing, Garbled}
  /\ stage = [k \in Clients |-> "idle"]
  /\ base = [k \in Clients |-> Nothing]
  /\ upto = [k \in Clients |-> Nothing]
  /\ news = [k \in Clients |-> {}]
  /\ delivered = {} /\ missed = {} /\ lost = 0

Goto(k, where) == stage' = [stage EXCEPT ![k] = where]

\* The check is over: what it held is gone.
Forget(k) ==
  /\ Goto(k, "idle")
  /\ base' = [base EXCEPT ![k] = Nothing]
  /\ upto' = [upto EXCEPT ![k] = Nothing]
  /\ news' = [news EXCEPT ![k] = {}]

-----------------------------------------------------------------------------

\* Somebody posts on the platform, the user included.
Post ==
  /\ posted < MaxPosts
  /\ posted' = posted + 1
  /\ UNCHANGED <<cursorVars, frontier, activity, checkVars, delivered, missed, lost>>

\* The engine has sent a post for the user and applies it: an own post ahead of
\* the frontier closes the projection, another changes nothing.
ApplySent(n) ==
  /\ Kind[n] = "own" /\ n > frontier
  /\ frontier' = n
  /\ UNCHANGED <<cursorVars, posted, activity, checkVars, delivered, missed, lost>>

\* A check starts: the state is loaded without the lock.
Begin(k) ==
  /\ stage[k] = "idle"
  /\ Goto(k, "fetching")
  /\ base' = [base EXCEPT ![k] = Cursor]
  /\ UNCHANGED <<cursorVars, posted, frontier, activity, upto, news, delivered, missed, lost>>

\* The platform answers with the posts after the base; a check that finds none
\* changes nothing.
Fetch(k) ==
  /\ stage[k] = "fetching"
  /\ IF posted > base[k]
       THEN /\ Goto(k, "fetched")
            /\ upto' = [upto EXCEPT ![k] = posted]
            /\ UNCHANGED <<base, news>>
       ELSE Forget(k)
  /\ UNCHANGED <<cursorVars, posted, frontier, activity, delivered, missed, lost>>

\* The engine is killed or gives up before it has saved.
Die(k) ==
  /\ stage[k] = "fetched"
  /\ Forget(k)
  /\ UNCHANGED <<cursorVars, posted, frontier, activity, delivered, missed, lost>>

Fetched(k) == base[k] + 1 .. upto[k]

Projected(posts) == {n \in posts : Kind[n] \in {"own", "request"}}

\* Slip: the whole batch is held against the frontier.
AcceptedAhead(k) == {n \in Fetched(k) : n > frontier}

\* What MergePending accepts of a check's posts: the sorted own and addressed
\* posts ahead of the frontier, and every other post.
Accepted(k) == {n \in Fetched(k) : n \in Projected({n}) => n > frontier}

\* The latest of some posts, as a set of one.
Latest(posts) == {n \in posts : \A m \in posts : m =< n}

\* Slip: the channel's activity is overwritten.
LastActivity(current, posts) ==
  Latest(IF posts \cap Dated = {} THEN {current} ELSE posts \cap Dated)

\* RecordActivity for each post of a check, in any order: the newest stamp that
\* parses stays, one that does not is replaced.
NewestActivity(current, posts) == Latest({current} \cup (posts \cap Dated))

\* Slip: the base is read again when the check saves.
BaseAtSave(k) == Cursor

\* "the exact active cursor used by a check" (state.go:221)
Base(k) == base[k]

\* The check's update of state.json; then the engine writes its reply.
Commit(k) ==
  /\ stage[k] = "fetched"
  /\ IF C!Recordable(Channel, Base(k), upto[k])
       THEN C!RecordCursor(Channel, Base(k), upto[k])
       ELSE UNCHANGED cursorVars
  /\ news' = [news EXCEPT ![k] = Accepted(k)]
  /\ frontier' \in Latest({frontier} \cup Projected(Accepted(k)))
  /\ activity' \in NewestActivity(activity, Fetched(k))
  /\ Goto(k, "replying")
  /\ UNCHANGED <<posted, base, upto, delivered, missed, lost>>

\* The reply does not reach the client: the engine is killed, the call or the
\* connection times out.
LoseReply(k) ==
  /\ stage[k] = "replying" /\ lost < MaxLost
  /\ missed' = missed \cup news[k]
  /\ lost' = lost + 1
  /\ Forget(k)
  /\ UNCHANGED <<cursorVars, posted, frontier, activity, delivered>>

\* The client has the reply and notifies.
Deliver(k) ==
  /\ stage[k] = "replying"
  /\ delivered' = delivered \cup news[k]
  /\ Goto(k, "acking")
  /\ UNCHANGED <<cursorVars, posted, frontier, activity, base, upto, news, missed, lost>>

\* Slip: the reply names the platform's latest post.
MarkOfPlatform(k) == posted

\* CheckData.Cursors: the latest seen post.
Mark(k) == upto[k]

\* The client acknowledges the reply's cursor; it may send the ack again.
Ack(k) ==
  /\ stage[k] = "acking"
  /\ IF C!Advanceable(Channel, Mark(k))
       THEN C!AdvanceCursor(Channel, Mark(k))
       ELSE UNCHANGED cursorVars
  /\ Forget(k) \/ UNCHANGED checkVars
  /\ UNCHANGED <<posted, frontier, activity, delivered, missed, lost>>

LoseAck(k) ==
  /\ stage[k] = "acking" /\ lost < MaxLost
  /\ lost' = lost + 1
  /\ Forget(k)
  /\ UNCHANGED <<cursorVars, posted, frontier, activity, delivered, missed>>

Client(k) ==
  \/ Begin(k) \/ Fetch(k) \/ Die(k) \/ Commit(k)
  \/ LoseReply(k) \/ Deliver(k) \/ Ack(k) \/ LoseAck(k)

Next ==
  \/ Post
  \/ \E n \in 1..posted : ApplySent(n)
  \/ \E k \in Clients : Client(k)

Spec == Init /\ [][Next]_vars

\* Clients go on checking, and not every engine dies before it saves.
Fairness ==
  \A k \in Clients :
    /\ WF_vars(Begin(k)) /\ WF_vars(Fetch(k)) /\ SF_vars(Commit(k))
    /\ WF_vars(Deliver(k)) /\ WF_vars(Ack(k))

FairSpec == Spec /\ Fairness

-----------------------------------------------------------------------------

\* The order proven on opaque ids is the order of the platform, although stale
\* checks save late: no ack ever takes the cursor back to an older post.
ProvenIsPlatformOrder ==
  \A b \in 0..MaxPosts : C!Proven(Channel, b) => succ[Channel][b] > b

\* An answer to the request was applied, or is on the way to be.
Answered(n) == \E m \in n + 1 .. frontier : Kind[m] = "own"

\* What is acknowledged was notified: a watched post always; a request unless it
\* was answered or its one notification was in a reply that was lost, which is
\* all a lost reply can cost.
AckedWasNotified ==
  \A n \in 1..Cursor :
    \/ n \in delivered
    \/ Kind[n] = "own"
    \/ /\ Kind[n] = "request"
       /\ \/ Answered(n)
          \/ n \in missed
          \/ \E k \in Clients : stage[k] = "replying" /\ n \in news[k]

\* The activity index is never behind an acknowledged post, whatever the order in
\* which overlapping checks save and whatever an older version left in it.
ActivityCoversAcked == \A n \in Dated : n =< Cursor => activity >= n

\* The one successor of the cursor that is proven has been overtaken by a post,
\* and a message that carried it was lost.
Blocked == lost > 0 /\ C!Proven(Channel, Cursor) /\ succ[Channel][Cursor] < posted

\* The cursor arrives at the last post, whatever stale checks record; or a post
\* came after a reply or an ack was lost, and then it may stand still for good:
\* no later check can replace the successor that nobody acknowledges (state.go:244).
CatchesUpOrBlocked == <>[](Cursor = posted) \/ <>[]Blocked

=============================================================================
