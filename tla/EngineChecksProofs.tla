------------------------- MODULE EngineChecksProofs -------------------------
(***************************************************************************)
(* Checks and acks end to end, for any number of clients, posts and        *)
(* losses: the order proven on opaque ids is the platform's, what is       *)
(* acknowledged was notified, and the activity index covers it.            *)
(***************************************************************************)
EXTENDS EngineChecks, TLAPS

\* The types the arguments below rest on.
Typed ==
  /\ cursors \in [{Channel} -> 0..MaxPosts]
  /\ succ \in [{Channel} -> [0..MaxPosts -> 0..MaxPosts]]
  /\ posted \in 0..MaxPosts
  /\ frontier \in 0..MaxPosts
  /\ activity \in Int
  /\ stage \in [Clients -> {"idle", "fetching", "fetched", "replying", "acking"}]
  /\ base \in [Clients -> 0..MaxPosts]
  /\ upto \in [Clients -> 0..MaxPosts]
  /\ news \in [Clients -> SUBSET Posts]
  /\ delivered \subseteq Posts /\ missed \subseteq Posts

\* A check starts at or below the cursor, and has seen more.
Snapshots ==
  \A k \in Clients :
    /\ base[k] =< Cursor
    /\ stage[k] \in {"fetched", "replying", "acking"} => base[k] < upto[k]

\* A post is saved when it is acknowledged or can be.
Saved(n) ==
  \/ n =< Cursor
  \/ \E k \in Clients : stage[k] \in {"replying", "acking"} /\ n =< upto[k]

\* The one notification of a request was made, lost or is under way, or the
\* request was answered.
Told(n) ==
  \/ n \in delivered \/ n \in missed \/ Answered(n)
  \/ \E k \in Clients : stage[k] = "replying" /\ n \in news[k]

ActivityCoversSaved == \A n \in Dated : Saved(n) => activity >= n

RequestsTold ==
  \A n \in Posts : Kind[n] = "request" /\ (Saved(n) \/ n =< frontier) => Told(n)

WatchedTold ==
  \A n \in Posts : Kind[n] = "watch" =>
    /\ n =< Cursor => n \in delivered
    /\ \A k \in Clients :
         /\ stage[k] = "replying" /\ n =< upto[k] => n \in delivered \cup news[k]
         /\ stage[k] = "acking" /\ n =< upto[k] => n \in delivered

IInv ==
  /\ Typed /\ Snapshots /\ ProvenIsPlatformOrder
  /\ ActivityCoversSaved /\ RequestsTold /\ WatchedTold

LEMMA InitIInv == Init => IInv
<1> SUFFICES ASSUME Init PROVE IInv
  OBVIOUS
<1> USE ChecksAssumption DEF Nothing, Garbled
<1>1. Typed
  BY DEF Init, Cursor, C!Init, C!Cursor, Posts, Typed
<1>2. Snapshots
  <2> SUFFICES ASSUME NEW k \in Clients
               PROVE  base[k] =< Cursor /\ stage[k] = "idle"
    BY DEF Snapshots
  <2>1. base[k] = 0 /\ Cursor = 0 /\ stage[k] = "idle"
    BY DEF Init
  <2> QED BY <2>1
<1>3. ProvenIsPlatformOrder
  BY DEF Init, C!Init, C!Cursor, C!Proven, Posts, ProvenIsPlatformOrder
<1>4. \A n \in Posts : ~Saved(n) /\ ~(n =< frontier)
  BY DEF Init, Saved, Posts
<1>5. ActivityCoversSaved /\ RequestsTold
  BY <1>4 DEF ActivityCoversSaved, RequestsTold
<1>6. WatchedTold
  BY DEF Init, WatchedTold, Posts
<1> QED BY <1>1, <1>2, <1>3, <1>5, <1>6 DEF IInv

-----------------------------------------------------------------------------
(***************************************************************************)
(* What the steps do.                                                      *)
(***************************************************************************)

\* RecordCursor moves no cursor and adds one edge.
LEMMA RecordEffect ==
  ASSUME NEW b, NEW u, C!RecordCursor(Channel, b, u)
  PROVE  cursors' = cursors /\ succ' = [succ EXCEPT ![Channel][b] = u]
BY DEF C!RecordCursor

\* AdvanceCursor goes up along a proven edge.
LEMMA AdvanceEffect ==
  ASSUME Typed, ProvenIsPlatformOrder, NEW u, C!AdvanceCursor(Channel, u)
  PROVE  /\ cursors' = [cursors EXCEPT ![Channel] = u] /\ succ' = succ
         /\ u \in 0..MaxPosts /\ u > Cursor
<1>1. u # Nothing /\ succ[Channel][Cursor] = u
  BY DEF C!AdvanceCursor, C!Advanceable, Cursor
<1>2. Cursor \in 0..MaxPosts
  BY DEF Typed, Cursor
<1>3. u > Cursor /\ u \in 0..MaxPosts
  BY <1>1, <1>2, ChecksAssumption DEF ProvenIsPlatformOrder, C!Proven, Typed
<1> QED BY <1>3 DEF C!AdvanceCursor

\* The cursor only climbs.
LEMMA CursorClimbs ==
  ASSUME Typed, ProvenIsPlatformOrder, Next
  PROVE  /\ Cursor \in 0..MaxPosts /\ Cursor' \in 0..MaxPosts /\ Cursor =< Cursor'
         /\ Cursor' # Cursor =>
              \E k \in Clients : stage[k] = "acking" /\ Cursor' = upto[k] /\ Ack(k)
<1>1. Cursor \in 0..MaxPosts
  BY DEF Typed, Cursor
<1>2. CASE UNCHANGED cursors
  BY <1>1, <1>2, ChecksAssumption DEF Cursor
<1>3. ASSUME NEW k \in Clients, Commit(k) PROVE UNCHANGED cursors
  BY <1>3, RecordEffect DEF Commit, cursorVars
<1>4. ASSUME NEW k \in Clients, Ack(k), cursors' # cursors
      PROVE  Cursor' = upto[k] /\ Cursor' \in 0..MaxPosts /\ Cursor < Cursor'
  <2>1. C!AdvanceCursor(Channel, upto[k])
    BY <1>4 DEF Ack, Mark, cursorVars
  <2>2. cursors' = [cursors EXCEPT ![Channel] = upto[k]] /\ upto[k] \in 0..MaxPosts
        /\ upto[k] > Cursor
    BY <2>1, AdvanceEffect
  <2> QED BY <2>2, <1>1, ChecksAssumption DEF Typed, Cursor
<1>5. CASE \E k \in Clients : Ack(k) /\ cursors' # cursors
  BY <1>1, <1>4, <1>5, ChecksAssumption DEF Ack
<1> QED
  BY <1>2, <1>3, <1>5
     DEF Next, Client, Post, ApplySent, Begin, Fetch, Die, LoseReply, Deliver, LoseAck,
         cursorVars

\* What a check accepts is between its base and what it has seen.
LEMMA AcceptedPosts ==
  ASSUME Typed, NEW k \in Clients
  PROVE  /\ Fetched(k) \subseteq Posts /\ Accepted(k) \subseteq Fetched(k)
         /\ Projected(Accepted(k)) \subseteq Accepted(k)
BY ChecksAssumption DEF Typed, Fetched, Accepted, Projected, Posts

\* The frontier and the activity move to saved posts, and only up.
LEMMA CommitEffect ==
  ASSUME Typed, NEW k \in Clients, Commit(k)
  PROVE  /\ frontier' \in {frontier} \cup Accepted(k) /\ frontier =< frontier'
         /\ activity' \in {activity} \cup Fetched(k) /\ activity =< activity'
         /\ \A n \in Fetched(k) \cap Dated : n =< activity'
         /\ activity' \in Int /\ frontier' \in 0..MaxPosts
<1>1. frontier' \in {frontier} \cup Accepted(k) /\ frontier =< frontier'
  BY AcceptedPosts DEF Commit, Latest
<1>2. /\ activity' \in {activity} \cup Fetched(k) /\ activity =< activity'
      /\ \A n \in Fetched(k) \cap Dated : n =< activity'
  BY DEF Commit, NewestActivity, Latest
<1> QED BY <1>1, <1>2, AcceptedPosts, ChecksAssumption DEF Typed, Posts

LEMMA ForgetEffect ==
  ASSUME Typed, NEW k \in Clients, Forget(k)
  PROVE  /\ stage' = [stage EXCEPT ![k] = "idle"]
         /\ base' = [base EXCEPT ![k] = 0] /\ upto' = [upto EXCEPT ![k] = 0]
         /\ news' = [news EXCEPT ![k] = {}]
BY DEF Forget, Goto, Nothing

\* The types of what a check holds.
CheckTypes ==
  /\ stage \in [Clients -> {"idle", "fetching", "fetched", "replying", "acking"}]
  /\ base \in [Clients -> 0..MaxPosts]
  /\ upto \in [Clients -> 0..MaxPosts]
  /\ news \in [Clients -> SUBSET Posts]

LEMMA ForgetTypes ==
  ASSUME Typed, NEW k \in Clients, Forget(k)
  PROVE  CheckTypes'
<1>1. 0 \in 0..MaxPosts
  BY ChecksAssumption
<1>2. base' \in [Clients -> 0..MaxPosts] /\ upto' \in [Clients -> 0..MaxPosts]
  BY <1>1, ForgetEffect DEF Typed
<1>3. stage' \in [Clients -> {"idle", "fetching", "fetched", "replying", "acking"}]
  BY ForgetEffect DEF Typed
<1>4. news' \in [Clients -> SUBSET Posts]
  BY ForgetEffect DEF Typed
<1> QED BY <1>2, <1>3, <1>4 DEF CheckTypes

-----------------------------------------------------------------------------
(***************************************************************************)
(* The conjuncts of the invariant.                                         *)
(***************************************************************************)

LEMMA TypedStep ==
  ASSUME IInv, Next
  PROVE  Typed'
<1> USE ChecksAssumption DEF IInv
<1>1. CASE Post
  BY <1>1 DEF Post, Typed, cursorVars, checkVars
<1>2. ASSUME NEW n \in 1..posted, ApplySent(n) PROVE Typed'
  BY <1>2 DEF ApplySent, Typed, cursorVars, checkVars
<1>3. ASSUME NEW k \in Clients, Begin(k) PROVE Typed'
  BY <1>3 DEF Begin, Goto, Typed, Cursor, cursorVars
<1>4. ASSUME NEW k \in Clients, Fetch(k) PROVE Typed'
  <2>1. CASE Forget(k)
    BY <1>4, <2>1, ForgetTypes DEF Fetch, Typed, CheckTypes, cursorVars
  <2>2. CASE posted > base[k]
    BY <1>4, <2>2 DEF Fetch, Goto, Typed, cursorVars
  <2> QED BY <1>4, <2>1, <2>2 DEF Fetch
<1>5. ASSUME NEW k \in Clients, Die(k) \/ LoseAck(k) PROVE Typed'
  BY <1>5, ForgetTypes DEF Die, LoseAck, Typed, CheckTypes, cursorVars
<1>6. ASSUME NEW k \in Clients, Commit(k) PROVE Typed'
  <2>1. cursors' \in [{Channel} -> 0..MaxPosts]
        /\ succ' \in [{Channel} -> [0..MaxPosts -> 0..MaxPosts]]
    <3>1. CASE C!RecordCursor(Channel, base[k], upto[k])
      <4>1. cursors' = cursors /\ succ' = [succ EXCEPT ![Channel][base[k]] = upto[k]]
        BY <3>1, RecordEffect
      <4>2. base[k] \in 0..MaxPosts /\ upto[k] \in 0..MaxPosts
        BY DEF Typed
      <4> QED BY <4>1, <4>2 DEF Typed
    <3>2. CASE UNCHANGED cursorVars
      BY <3>2 DEF Typed, cursorVars
    <3> QED BY <1>6, <3>1, <3>2 DEF Commit, Base
  <2>2. activity' \in Int /\ frontier' \in 0..MaxPosts
    BY <1>6, CommitEffect
  <2>3. news' \in [Clients -> SUBSET Posts]
    BY <1>6, AcceptedPosts DEF Commit, Typed
  <2> QED BY <1>6, <2>1, <2>2, <2>3 DEF Commit, Goto, Typed
<1>7. ASSUME NEW k \in Clients, LoseReply(k) PROVE Typed'
  BY <1>7, ForgetTypes DEF LoseReply, Typed, CheckTypes, cursorVars
<1>8. ASSUME NEW k \in Clients, Deliver(k) PROVE Typed'
  BY <1>8 DEF Deliver, Goto, Typed, cursorVars
<1>9. ASSUME NEW k \in Clients, Ack(k) PROVE Typed'
  <2>1. cursors' \in [{Channel} -> 0..MaxPosts]
        /\ succ' \in [{Channel} -> [0..MaxPosts -> 0..MaxPosts]]
    BY <1>9, AdvanceEffect DEF Ack, Typed, cursorVars
  <2>2. CASE Forget(k)
    BY <1>9, <2>1, <2>2, ForgetTypes DEF Ack, Typed, CheckTypes
  <2>3. CASE UNCHANGED checkVars
    BY <1>9, <2>1, <2>3 DEF Ack, Typed, checkVars
  <2> QED BY <1>9, <2>2, <2>3 DEF Ack
<1> QED BY <1>1, <1>2, <1>3, <1>4, <1>5, <1>6, <1>7, <1>8, <1>9 DEF Next, Client

LEMMA SnapshotsStep ==
  ASSUME IInv, Next
  PROVE  Snapshots'
<1>1. Cursor \in 0..MaxPosts /\ Cursor' \in 0..MaxPosts /\ Cursor =< Cursor'
  BY CursorClimbs DEF IInv
<1> SUFFICES ASSUME NEW j \in Clients
             PROVE  /\ base'[j] =< Cursor'
                    /\ stage'[j] \in {"fetched", "replying", "acking"} => base'[j] < upto'[j]
  BY DEF Snapshots
<1>2. /\ base[j] =< Cursor /\ base[j] \in 0..MaxPosts
      /\ stage[j] \in {"fetched", "replying", "acking"} => base[j] < upto[j]
  BY DEF IInv, Snapshots, Typed
<1>3. ASSUME NEW k \in Clients, Begin(k)
      PROVE  /\ base'[j] =< Cursor'
             /\ stage'[j] \in {"fetched", "replying", "acking"} => base'[j] < upto'[j]
  <2>1. CASE j = k
    BY <1>1, <1>3, <2>1, ChecksAssumption DEF Begin, Goto, IInv, Typed
  <2>2. CASE j # k
    BY <1>1, <1>2, <1>3, <2>2, ChecksAssumption DEF Begin, Goto, IInv, Typed
  <2> QED BY <2>1, <2>2
<1>4. ASSUME NEW k \in Clients, Fetch(k)
      PROVE  /\ base'[j] =< Cursor'
             /\ stage'[j] \in {"fetched", "replying", "acking"} => base'[j] < upto'[j]
  BY <1>1, <1>2, <1>4, ChecksAssumption DEF Fetch, Forget, Goto, Nothing, IInv, Typed
<1>5. CASE base'[j] = base[j] /\ upto'[j] = upto[j]
           /\ (stage'[j] = stage[j] \/ stage[j] \in {"fetched", "replying"})
  BY <1>1, <1>2, <1>5, ChecksAssumption
<1>6. CASE base'[j] = 0 /\ stage'[j] = "idle"
  BY <1>1, <1>6, ChecksAssumption
<1> QED
  BY <1>3, <1>4, <1>5, <1>6
     DEF Next, Client, Post, ApplySent, Die, Commit, LoseReply, Deliver, Ack, LoseAck,
         Forget, Goto, Nothing, checkVars, IInv, Typed

\* A new edge leads from a base to a post the platform gave after it.
LEMMA OrderStep ==
  ASSUME IInv, Next
  PROVE  ProvenIsPlatformOrder'
<1> USE ChecksAssumption DEF IInv
<1>1. CASE succ' = succ
  BY <1>1 DEF ProvenIsPlatformOrder, C!Proven
<1>2. ASSUME NEW k \in Clients, Commit(k), succ' # succ
      PROVE  ProvenIsPlatformOrder'
  <2>1. succ' = [succ EXCEPT ![Channel][base[k]] = upto[k]]
    BY <1>2, RecordEffect DEF Commit, Base, cursorVars
  <2>2. base[k] \in 0..MaxPosts /\ upto[k] \in 0..MaxPosts /\ base[k] < upto[k]
    BY <1>2 DEF Commit, Snapshots, Typed
  <2> QED BY <2>1, <2>2 DEF ProvenIsPlatformOrder, C!Proven, Typed
<1>3. ASSUME NEW k \in Clients, Ack(k) PROVE succ' = succ
  BY <1>3, AdvanceEffect DEF Ack, cursorVars
<1> QED
  BY <1>1, <1>2, <1>3
     DEF Next, Client, Post, ApplySent, Begin, Fetch, Die, LoseReply, Deliver, LoseAck,
         cursorVars

\* Only a save makes posts saved, those of its check.
LEMMA SavedStep ==
  ASSUME IInv, Next, NEW n \in Posts, Saved(n)', ~Saved(n)
  PROVE  \E k \in Clients : Commit(k) /\ n \in Fetched(k)
<1>1. /\ Cursor \in 0..MaxPosts /\ Cursor' \in 0..MaxPosts
      /\ Cursor' # Cursor =>
           \E k \in Clients : stage[k] = "acking" /\ Cursor' = upto[k] /\ Ack(k)
  BY CursorClimbs DEF IInv
<1>2. n \in Int /\ \A k \in Clients : upto[k] \in Int /\ base[k] \in Int
  BY ChecksAssumption DEF IInv, Typed, Posts
<1>3. ~(n =< Cursor')
  BY <1>1, <1>2 DEF Saved
<1>4. PICK k \in Clients : stage'[k] \in {"replying", "acking"} /\ n =< upto'[k]
  BY <1>3 DEF Saved
<1>5. CASE Commit(k)
  <2>1. upto'[k] = upto[k] /\ base[k] =< Cursor
    BY <1>5 DEF Commit, IInv, Snapshots
  <2>2. n > base[k] /\ n =< upto[k]
    BY <1>1, <1>2, <1>4, <2>1, ChecksAssumption DEF Saved
  <2> QED BY <1>2, <1>5, <2>2 DEF Fetched
<1>6. CASE ~Commit(k)
  <2>1. stage[k] \in {"replying", "acking"} /\ upto'[k] = upto[k]
    BY <1>4, <1>6
       DEF Next, Client, Post, ApplySent, Begin, Fetch, Die, Commit, LoseReply, Deliver,
           Ack, LoseAck, Forget, Goto, checkVars, IInv, Typed
  <2> QED BY <1>4, <2>1 DEF Saved
<1> QED BY <1>5, <1>6

\* The activity grows, and a save brings it to the posts it saves.
LEMMA ActivityStep ==
  ASSUME IInv, Next
  PROVE  ActivityCoversSaved'
<1>1. activity \in Int /\ activity' \in Int /\ activity =< activity'
  <2>1. CASE activity' = activity
    BY <2>1 DEF IInv, Typed
  <2>2. ASSUME NEW k \in Clients, Commit(k) PROVE activity' \in Int /\ activity =< activity'
    BY <2>2, CommitEffect DEF IInv
  <2> QED
    BY <2>1, <2>2
       DEF Next, Client, Post, ApplySent, Begin, Fetch, Die, LoseReply, Deliver, Ack,
           LoseAck, IInv, Typed
<1> SUFFICES ASSUME NEW n \in Dated, Saved(n)'
             PROVE  activity' >= n
  BY DEF ActivityCoversSaved
<1>2. n \in Posts /\ n \in Int
  BY ChecksAssumption DEF Posts
<1>3. CASE Saved(n)
  BY <1>1, <1>2, <1>3 DEF IInv, ActivityCoversSaved
<1>4. CASE ~Saved(n)
  <2>1. PICK k \in Clients : Commit(k) /\ n \in Fetched(k)
    BY <1>2, <1>4, SavedStep
  <2>2. n =< activity'
    BY <2>1, CommitEffect DEF IInv
  <2> QED BY <1>1, <1>2, <2>2
<1> QED BY <1>3, <1>4

\* The frontier and the two histories only grow.
LEMMA HistoryGrows ==
  ASSUME IInv, Next
  PROVE  /\ frontier \in 0..MaxPosts /\ frontier' \in 0..MaxPosts /\ frontier =< frontier'
         /\ delivered \subseteq delivered' /\ missed \subseteq missed'
<1>1. delivered \subseteq delivered' /\ missed \subseteq missed'
  BY DEF Next, Client, Post, ApplySent, Begin, Fetch, Die, Commit, LoseReply, Deliver, Ack,
         LoseAck
<1>2. CASE frontier' = frontier
  BY <1>1, <1>2, ChecksAssumption DEF IInv, Typed
<1>3. ASSUME NEW n \in 1..posted, ApplySent(n) PROVE frontier' \in 0..MaxPosts /\ frontier =< frontier'
  BY <1>3, ChecksAssumption DEF ApplySent, IInv, Typed
<1>4. ASSUME NEW k \in Clients, Commit(k) PROVE frontier' \in 0..MaxPosts /\ frontier =< frontier'
  BY <1>4, CommitEffect DEF IInv
<1> QED
  BY <1>1, <1>2, <1>3, <1>4
     DEF Next, Client, Post, Begin, Fetch, Die, LoseReply, Deliver, Ack, LoseAck, IInv, Typed

\* A check is changed by its own client only.
LEMMA OwnChecks ==
  ASSUME Typed, Next, NEW k \in Clients
  PROVE  \/ Client(k)
         \/ stage'[k] = stage[k] /\ upto'[k] = upto[k] /\ news'[k] = news[k]
<1>1. ASSUME NEW j \in Clients, j # k, Client(j)
      PROVE  stage'[k] = stage[k] /\ upto'[k] = upto[k] /\ news'[k] = news[k]
  <2>1. CASE Forget(j)
    BY <1>1, <2>1 DEF Forget, Goto, Typed
  <2>2. CASE UNCHANGED checkVars
    BY <2>2 DEF checkVars
  <2>3. CASE Begin(j) \/ Deliver(j)
    BY <1>1, <2>3 DEF Begin, Deliver, Goto, Typed
  <2>4. CASE Fetch(j) /\ ~Forget(j)
    BY <1>1, <2>4 DEF Fetch, Goto, Typed
  <2>5. CASE Commit(j)
    BY <1>1, <2>5 DEF Commit, Goto, Typed
  <2> QED
    BY <1>1, <2>1, <2>2, <2>3, <2>4, <2>5 DEF Client, Die, LoseReply, Ack, LoseAck
<1>2. CASE Post \/ \E n \in 1..posted : ApplySent(n)
  BY <1>2 DEF Post, ApplySent, checkVars
<1> QED BY <1>1, <1>2 DEF Next

\* Of a reply that was saved nothing changes until it is delivered or lost, nor
\* of a check that is acknowledged.
LEMMA RepliesKept ==
  ASSUME Typed, Next, NEW k \in Clients, ~Commit(k), ~Deliver(k)
  PROVE  /\ stage'[k] \in {"replying", "acking"} =>
              stage'[k] = stage[k] /\ upto'[k] = upto[k] /\ news'[k] = news[k]
         /\ stage[k] = "replying" /\ ~LoseReply(k) =>
              stage'[k] = stage[k] /\ news'[k] = news[k]
<1>1. CASE ~Client(k)
  BY <1>1, OwnChecks
<1>2. CASE Forget(k) /\ stage[k] # "replying"
  BY <1>2 DEF Forget, Goto, Typed
<1>3. CASE UNCHANGED checkVars
  BY <1>3 DEF checkVars
<1>4. CASE Begin(k)
  BY <1>4 DEF Begin, Goto, Typed
<1>5. CASE Fetch(k) /\ ~Forget(k)
  BY <1>5 DEF Fetch, Goto, Typed
<1>6. CASE LoseReply(k)
  BY <1>6 DEF LoseReply, Forget, Goto, Typed
<1> QED
  BY <1>1, <1>2, <1>3, <1>4, <1>5, <1>6 DEF Client, Fetch, Die, Ack, LoseAck

\* A request that is told stays told: a reply that is delivered or lost is
\* remembered as that.
LEMMA ToldStays ==
  ASSUME IInv, Next, NEW n \in Posts, Told(n)
  PROVE  Told(n)'
<1>1. /\ frontier \in 0..MaxPosts /\ frontier' \in 0..MaxPosts /\ frontier =< frontier'
      /\ delivered \subseteq delivered' /\ missed \subseteq missed'
  BY HistoryGrows
<1>2. CASE n \in delivered \/ n \in missed
  BY <1>1, <1>2 DEF Told
<1>3. CASE Answered(n)
  <2>1. Answered(n)'
    BY <1>1, <1>3, ChecksAssumption DEF Answered, Posts
  <2> QED BY <2>1 DEF Told
<1>4. ASSUME NEW k \in Clients, stage[k] = "replying", n \in news[k]
      PROVE  Told(n)'
  <2>1. CASE LoseReply(k)
    BY <1>4, <2>1 DEF LoseReply, Told
  <2>2. CASE Deliver(k)
    BY <1>4, <2>2 DEF Deliver, Told
  <2>3. CASE ~LoseReply(k) /\ ~Deliver(k)
    <3>1. stage'[k] = stage[k] /\ news'[k] = news[k]
      <4>1. ~Commit(k)
        BY <1>4 DEF Commit
      <4> QED BY <1>4, <2>3, <4>1, RepliesKept DEF IInv
    <3> QED BY <1>4, <3>1 DEF Told
  <2> QED BY <2>1, <2>2, <2>3
<1> QED BY <1>2, <1>3, <1>4 DEF Told

\* A request that a save brings below the cursor or the frontier is in its
\* reply, and one that the user's own post brings there is answered.
LEMMA RequestsStep ==
  ASSUME IInv, Next
  PROVE  RequestsTold'
<1> SUFFICES ASSUME NEW n \in Posts, Kind[n] = "request", Saved(n)' \/ n =< frontier'
             PROVE  Told(n)'
  BY DEF RequestsTold
<1>1. /\ frontier \in 0..MaxPosts /\ frontier' \in 0..MaxPosts /\ frontier =< frontier'
  BY HistoryGrows
<1>2. n \in Int /\ n > 0
  BY ChecksAssumption DEF Posts
<1>3. CASE Saved(n) \/ n =< frontier
  BY <1>3, ToldStays DEF IInv, RequestsTold
<1>4. ASSUME ~(n =< frontier), NEW k \in Clients, Commit(k), n \in Fetched(k)
      PROVE  Told(n)'
  <2>1. n \in Accepted(k)
    BY <1>1, <1>2, <1>4 DEF Accepted
  <2>2. stage'[k] = "replying" /\ n \in news'[k]
    BY <1>4, <2>1 DEF Commit, Goto, IInv, Typed
  <2> QED BY <2>2 DEF Told
<1>5. CASE ~Saved(n) /\ ~(n =< frontier) /\ Saved(n)'
  <2>1. PICK k \in Clients : Commit(k) /\ n \in Fetched(k)
    BY <1>5, SavedStep
  <2> QED BY <1>4, <1>5, <2>1
<1>6. CASE ~Saved(n) /\ ~(n =< frontier) /\ n =< frontier'
  <2>1. ASSUME NEW m \in 1..posted, ApplySent(m) PROVE Told(n)'
    <3>1. frontier' = m /\ Kind[m] = "own" /\ n # m /\ m \in Int
      BY <2>1 DEF ApplySent
    <3>2. Answered(n)'
      BY <1>2, <1>6, <3>1 DEF Answered
    <3> QED BY <3>2 DEF Told
  <2>2. ASSUME NEW k \in Clients, Commit(k) PROVE Told(n)'
    <3>1. frontier' \in Fetched(k)
      BY <1>1, <1>2, <1>6, <2>2, CommitEffect, AcceptedPosts DEF IInv
    <3>2. /\ base[k] \in Int /\ upto[k] \in Int /\ Cursor \in Int /\ base[k] =< Cursor
      BY ChecksAssumption DEF IInv, Snapshots, Typed, Cursor
    <3>3. n \in Fetched(k)
      BY <1>1, <1>2, <1>6, <3>1, <3>2 DEF Fetched, Saved
    <3> QED BY <1>4, <1>6, <2>2, <3>3
  <2>3. frontier' # frontier
    BY <1>1, <1>2, <1>6
  <2> QED
    BY <2>1, <2>2, <2>3
       DEF Next, Client, Post, Begin, Fetch, Die, LoseReply, Deliver, Ack, LoseAck
<1> QED BY <1>3, <1>5, <1>6

\* A watched post is in the reply of every check that saves it, and delivered
\* before that check acknowledges.
LEMMA WatchedStep ==
  ASSUME IInv, Next
  PROVE  WatchedTold'
<1> SUFFICES ASSUME NEW n \in Posts, Kind[n] = "watch"
             PROVE  /\ n =< Cursor' => n \in delivered'
                    /\ \A k \in Clients :
                         /\ stage'[k] = "replying" /\ n =< upto'[k] =>
                              n \in delivered' \cup news'[k]
                         /\ stage'[k] = "acking" /\ n =< upto'[k] => n \in delivered'
  BY DEF WatchedTold
<1>1. /\ n =< Cursor => n \in delivered
      /\ \A k \in Clients :
           /\ stage[k] = "replying" /\ n =< upto[k] => n \in delivered \cup news[k]
           /\ stage[k] = "acking" /\ n =< upto[k] => n \in delivered
  BY DEF IInv, WatchedTold
<1>2. delivered \subseteq delivered'
  BY HistoryGrows
<1>3. n =< Cursor' => n \in delivered'
  BY <1>1, <1>2, CursorClimbs DEF IInv
<1>4. ASSUME NEW k \in Clients
      PROVE  /\ stage'[k] = "replying" /\ n =< upto'[k] => n \in delivered' \cup news'[k]
             /\ stage'[k] = "acking" /\ n =< upto'[k] => n \in delivered'
  <2>1. CASE Commit(k)
    <3>1. stage'[k] = "replying" /\ upto'[k] = upto[k] /\ news'[k] = Accepted(k)
      BY <2>1 DEF Commit, Goto, IInv, Typed
    <3>2. /\ n \in Int /\ base[k] \in Int /\ upto[k] \in Int /\ Cursor \in Int
          /\ base[k] =< Cursor
      BY ChecksAssumption DEF IInv, Snapshots, Typed, Posts, Cursor
    <3>3. n \in Fetched(k) => n \in Accepted(k)
      BY DEF Accepted, Projected
    <3>4. n =< upto[k] => n =< Cursor \/ n \in Fetched(k)
      BY <3>2 DEF Fetched
    <3> QED BY <1>1, <1>2, <3>1, <3>3, <3>4
  <2>2. CASE Deliver(k)
    BY <1>1, <2>2 DEF Deliver, Goto, IInv, Typed
  <2>3. CASE ~Commit(k) /\ ~Deliver(k)
    <3>1. stage'[k] \in {"replying", "acking"} =>
            stage'[k] = stage[k] /\ upto'[k] = upto[k] /\ news'[k] = news[k]
      BY <2>3, RepliesKept DEF IInv
    <3> QED BY <1>1, <1>2, <3>1
  <2> QED BY <2>1, <2>2, <2>3
<1> QED BY <1>3, <1>4

-----------------------------------------------------------------------------

LEMMA StepIInv == IInv /\ [Next]_vars => IInv'
<1>1. ASSUME IInv, Next PROVE IInv'
  BY <1>1, TypedStep, SnapshotsStep, OrderStep, ActivityStep, RequestsStep, WatchedStep
     DEF IInv
<1>2. ASSUME IInv, UNCHANGED vars PROVE IInv'
  <2> USE <1>2 DEF vars, IInv, Cursor
  <2>1. Typed' /\ Snapshots'
    BY DEF Typed, Snapshots
  <2>2. ProvenIsPlatformOrder'
    BY DEF ProvenIsPlatformOrder, C!Proven
  <2>3. ActivityCoversSaved' /\ WatchedTold'
    BY DEF ActivityCoversSaved, WatchedTold, Saved
  <2>4. RequestsTold'
    BY DEF RequestsTold, Saved, Told, Answered
  <2> QED BY <2>1, <2>2, <2>3, <2>4
<1> QED BY <1>1, <1>2

LEMMA InvariantIInv == Spec => []IInv
BY InitIInv, StepIInv, PTL DEF Spec

\* The order that checks prove on opaque ids is the platform's, whatever stale
\* checks save late.
THEOREM PlatformOrder == Spec => []ProvenIsPlatformOrder
<1>1. IInv => ProvenIsPlatformOrder
  BY DEF IInv
<1> QED BY <1>1, InvariantIInv, PTL

\* The activity index covers every acknowledged post.
THEOREM ActivityCovers == Spec => []ActivityCoversAcked
<1>1. IInv => ActivityCoversAcked
  BY DEF IInv, ActivityCoversSaved, ActivityCoversAcked, Saved
<1> QED BY <1>1, InvariantIInv, PTL

\* What is acknowledged was notified, but for the items of a lost reply and
\* requests that were answered meanwhile.
THEOREM NotifiedBeforeAcked == Spec => []AckedWasNotified
<1>1. IInv => AckedWasNotified
  <2> SUFFICES ASSUME IInv, NEW n \in 1..Cursor
               PROVE  \/ n \in delivered
                      \/ Kind[n] = "own"
                      \/ /\ Kind[n] = "request"
                         /\ \/ Answered(n)
                            \/ n \in missed
                            \/ \E k \in Clients : stage[k] = "replying" /\ n \in news[k]
    BY DEF AckedWasNotified
  <2>1. n \in Posts /\ n =< Cursor
    BY ChecksAssumption DEF IInv, Typed, Cursor, Posts
  <2>2. Kind[n] \in {"own", "request", "watch"}
    BY <2>1, ChecksAssumption
  <2>3. Kind[n] = "request" => Told(n)
    BY <2>1 DEF IInv, RequestsTold, Saved
  <2>4. Kind[n] = "watch" => n \in delivered
    BY <2>1 DEF IInv, WatchedTold
  <2> QED BY <2>2, <2>3, <2>4 DEF Told
<1> QED BY <1>1, InvariantIInv, PTL

-----------------------------------------------------------------------------
(***************************************************************************)
(* The cursors of the checks are Cursors: every step of a check or an ack  *)
(* is a step of Cursors on the one channel, or none of its business.       *)
(***************************************************************************)

CP == INSTANCE CursorsProofs
        WITH Channels <- {Channel}, PostIDs <- Posts, NoCursor <- Nothing

LEMMA PostIsNoCursor == Nothing \notin Posts
BY ChecksAssumption DEF Posts, Nothing

\* The base and the mark of a check are values a cursor can have.
LEMMA MarksAreCursors ==
  ASSUME Typed, NEW k \in Clients
  PROVE  base[k] \in C!Cursor /\ upto[k] \in C!Cursor
BY ChecksAssumption DEF Typed, C!Cursor, Posts, Nothing

LEMMA CursorsStep ==
  ASSUME IInv, [Next]_vars
  PROVE  [C!Next]_C!vars
<1>1. CASE UNCHANGED cursorVars
  BY <1>1 DEF cursorVars, C!vars
<1>2. ASSUME NEW k \in Clients, Commit(k), ~UNCHANGED cursorVars PROVE C!Next
  <2>1. C!RecordCursor(Channel, base[k], upto[k])
    BY <1>2 DEF Commit, Base
  <2> QED BY <2>1, MarksAreCursors DEF C!Next, IInv
<1>3. ASSUME NEW k \in Clients, Ack(k), ~UNCHANGED cursorVars PROVE C!Next
  <2>1. C!AdvanceCursor(Channel, upto[k])
    BY <1>3 DEF Ack, Mark
  <2> QED BY <2>1, MarksAreCursors DEF C!Next, IInv
<1> QED
  BY <1>1, <1>2, <1>3
     DEF Next, Client, Post, ApplySent, Begin, Fetch, Die, LoseReply, Deliver, LoseAck,
         vars, cursorVars

\* Checks and acks end to end implement Cursors, which knows neither clients,
\* engines nor losses, and no order but the proven one.
THEOREM ImplementsCursors == Spec => C!Spec
<1>1. Init => C!Init
  BY DEF Init
<1> QED BY <1>1, InvariantIInv, CursorsStep, PTL DEF Spec, C!Spec

\* What is proved about Cursors therefore holds of the checks.
LEMMA CursorsPromises == Spec => [](C!TypeOK /\ C!NoReturn)
<1> USE PostIsNoCursor
<1>1. C!Spec <=> CP!Spec
  <2>1. C!Init <=> CP!Init
    BY DEF C!Init, CP!Init, C!Cursor, CP!Cursor, C!Unknown, CP!Unknown
  <2>2. C!Next <=> CP!Next
    BY DEF C!Next, CP!Next, C!RecordCursor, CP!RecordCursor, C!AdvanceCursor,
           CP!AdvanceCursor, C!Recordable, CP!Recordable, C!Advanceable, CP!Advanceable,
           C!RecordedVersions, CP!RecordedVersions, C!Version, CP!Version, C!Proven,
           CP!Proven, C!Cursor, CP!Cursor, C!Unknown, CP!Unknown
  <2>4. [C!Next]_C!vars <=> [CP!Next]_CP!vars
    BY <2>2 DEF C!vars, CP!vars
  <2> QED BY <2>1, <2>4, PTL DEF C!Spec, CP!Spec
<1>2. CP!TypeOK => C!TypeOK
  BY DEF C!TypeOK, CP!TypeOK, C!Cursor, CP!Cursor, C!Unknown, CP!Unknown
<1>3. CP!NoReturn => C!NoReturn
  BY DEF C!NoReturn, CP!NoReturn
<1> QED BY <1>1, <1>2, <1>3, ImplementsCursors, CP!Typing, CP!NeverReturns, PTL

\* However checks are overtaken, engines die and acks are repeated, no client is
\* taken back to a post it has acknowledged (AdvanceCursor).
THEOREM ChecksNeverReturn == Spec => []C!NoReturn
BY CursorsPromises, PTL

-----------------------------------------------------------------------------
(***************************************************************************)
(* Types.                                                                  *)
(***************************************************************************)

\* Nothing that is kept is ahead of the platform, although no step that keeps
\* it looks at the platform but Fetch.
WithinPosted ==
  /\ posted \in 0..MaxPosts
  /\ Cursor \in 0..posted /\ frontier \in 0..posted
  /\ activity \in {Garbled} \cup 0..posted
  /\ base \in [Clients -> 0..posted] /\ upto \in [Clients -> 0..posted]
  /\ lost \in 0..MaxLost

LEMMA WithinStep ==
  ASSUME IInv, WithinPosted, Next
  PROVE  WithinPosted'
<1> USE ChecksAssumption DEF Nothing
<1>1. /\ posted \in 0..MaxPosts /\ posted' \in {posted, posted + 1}
      /\ posted' \in 0..MaxPosts
  <2>1. posted' = posted \/ (posted < MaxPosts /\ posted' = posted + 1)
    BY DEF Next, Client, Post, ApplySent, Begin, Fetch, Die, Commit, LoseReply, Deliver, Ack,
           LoseAck
  <2> QED BY <2>1 DEF WithinPosted
<1>2. Cursor' \in 0..posted'
  <2>1. \A k \in Clients : upto[k] =< posted
    BY DEF WithinPosted
  <2> QED BY <1>1, <2>1, CursorClimbs DEF IInv, WithinPosted
<1>3. frontier' \in 0..posted' /\ activity' \in {Garbled} \cup 0..posted'
  <2>1. ASSUME NEW k \in Clients, Commit(k)
        PROVE  frontier' \in 0..posted /\ activity' \in {Garbled} \cup 0..posted
    <3>1. Fetched(k) \subseteq 0..posted
      BY DEF WithinPosted, Fetched
    <3> QED BY <2>1, <3>1, CommitEffect, AcceptedPosts DEF IInv, WithinPosted
  <2>2. ASSUME NEW n \in 1..posted, ApplySent(n)
        PROVE  frontier' \in 0..posted /\ activity' = activity
    BY <1>1, <2>2 DEF ApplySent
  <2>3. \/ \E k \in Clients : Commit(k)
        \/ \E n \in 1..posted : ApplySent(n)
        \/ frontier' = frontier /\ activity' = activity
    BY DEF Next, Client, Post, Begin, Fetch, Die, LoseReply, Deliver, Ack, LoseAck
  <2> QED BY <1>1, <2>1, <2>2, <2>3 DEF WithinPosted, Garbled
<1>4. base' \in [Clients -> 0..posted'] /\ upto' \in [Clients -> 0..posted']
  <2>1. ASSUME NEW k \in Clients, Forget(k)
        PROVE  base' \in [Clients -> 0..posted] /\ upto' \in [Clients -> 0..posted]
    <3>1. base' = [base EXCEPT ![k] = 0] /\ upto' = [upto EXCEPT ![k] = 0]
      BY <2>1, ForgetEffect DEF IInv
    <3> QED BY <1>1, <3>1 DEF WithinPosted
  <2>2. ASSUME NEW k \in Clients, Begin(k)
        PROVE  base' \in [Clients -> 0..posted] /\ upto' \in [Clients -> 0..posted]
    BY <2>2 DEF Begin, WithinPosted
  <2>3. ASSUME NEW k \in Clients, Fetch(k), ~Forget(k)
        PROVE  base' \in [Clients -> 0..posted] /\ upto' \in [Clients -> 0..posted]
    BY <1>1, <2>3 DEF Fetch, WithinPosted
  <2>4. \/ \E k \in Clients : Forget(k) \/ Begin(k) \/ (Fetch(k) /\ ~Forget(k))
        \/ base' = base /\ upto' = upto
    BY DEF Next, Client, Post, ApplySent, Fetch, Die, Commit, LoseReply, Deliver, Ack, LoseAck,
           checkVars
  <2>5. base' \in [Clients -> 0..posted] /\ upto' \in [Clients -> 0..posted]
    BY <2>1, <2>2, <2>3, <2>4 DEF WithinPosted
  <2>6. 0..posted \subseteq 0..posted'
    BY <1>1
  <2> QED BY <2>5, <2>6
<1>5. lost' \in 0..MaxLost
  <2>1. lost' = lost \/ (lost < MaxLost /\ lost' = lost + 1)
    BY DEF Next, Client, Post, ApplySent, Begin, Fetch, Die, Commit, LoseReply, Deliver, Ack,
           LoseAck
  <2> QED BY <2>1 DEF WithinPosted
<1> QED BY <1>1, <1>2, <1>3, <1>4, <1>5 DEF WithinPosted

LEMMA InvariantWithin == Spec => []WithinPosted
<1>1. Init => WithinPosted
  BY ChecksAssumption DEF Init, WithinPosted, Nothing, Garbled
<1>2. IInv /\ WithinPosted /\ [Next]_vars => WithinPosted'
  <2>1. CASE UNCHANGED vars
    BY <2>1 DEF vars, WithinPosted, Cursor
  <2> QED BY <2>1, WithinStep
<1> QED BY <1>1, <1>2, InvariantIInv, PTL DEF Spec

\* The type of a check's state: the cursor's versions stay in order, and neither
\* the frontier, the activity nor what a check holds is ahead of the platform.
THEOREM Typing == Spec => []TypeOK
<1>1. IInv /\ WithinPosted /\ C!TypeOK => TypeOK
  BY DEF IInv, Typed, WithinPosted, TypeOK
<1> QED BY <1>1, InvariantIInv, InvariantWithin, CursorsPromises, PTL

-----------------------------------------------------------------------------
(***************************************************************************)
(* When the cursor stands still: the safety half of CatchesUpOrBlocked.    *)
(***************************************************************************)

\* The one successor of the cursor that is proven has been overtaken by a post,
\* and no check that could acknowledge it is under way.
StandsStill ==
  /\ C!Proven(Channel, Cursor) /\ succ[Channel][Cursor] < posted
  /\ \A k \in Clients :
       stage[k] \in {"fetched", "replying", "acking"} => upto[k] # succ[Channel][Cursor]

\* Edges start at the cursor only, and whoever leaves a base has proven it.
EdgesAtCursor ==
  /\ \A b \in 0..MaxPosts : C!Proven(Channel, b) => b =< Cursor
  /\ \A k \in Clients : base[k] < Cursor => C!Proven(Channel, base[k])
  /\ Nothing < Cursor => C!Proven(Channel, Nothing)

\* Until something is lost, a check holds the successor of the cursor.
SuccessorHeld ==
  lost = 0 /\ C!Proven(Channel, Cursor) =>
    \E k \in Clients : stage[k] \in {"replying", "acking"} /\ upto[k] = succ[Channel][Cursor]

StillInv == EdgesAtCursor /\ SuccessorHeld

\* Only a check that started from the present cursor records, and it proves a
\* successor where there was none.
LEMMA RecordsAtCursor ==
  ASSUME IInv, EdgesAtCursor, NEW k \in Clients, Commit(k)
  PROVE  /\ cursors' = cursors
         /\ succ' # succ => /\ base[k] = Cursor /\ ~C!Proven(Channel, Cursor)
                            /\ succ' = [succ EXCEPT ![Channel][Cursor] = upto[k]]
<1>1. CASE UNCHANGED cursorVars
  BY <1>1 DEF cursorVars
<1>2. CASE C!RecordCursor(Channel, base[k], upto[k])
  <2>1. cursors' = cursors /\ succ' = [succ EXCEPT ![Channel][base[k]] = upto[k]]
    BY <1>2, RecordEffect
  <2>2. ~C!Proven(Channel, base[k])
    BY <1>2 DEF C!RecordCursor, C!Recordable
  <2>3. base[k] = Cursor
    BY <2>2, ChecksAssumption DEF IInv, Typed, Snapshots, EdgesAtCursor, Cursor
  <2> QED BY <2>1, <2>2, <2>3
<1> QED BY <1>1, <1>2 DEF Commit, Base

\* An ack leaves the cursor alone, or takes it to its successor.
LEMMA AckTakesSuccessor ==
  ASSUME IInv, NEW k \in Clients, Ack(k)
  PROVE  /\ succ' = succ
         /\ \/ Cursor' = Cursor /\ (C!Proven(Channel, Cursor) => upto[k] # succ[Channel][Cursor])
            \/ /\ C!Proven(Channel, Cursor) /\ Cursor' = upto[k]
               /\ upto[k] = succ[Channel][Cursor] /\ Cursor < Cursor'
<1>1. CASE C!Advanceable(Channel, upto[k])
  <2>1. C!AdvanceCursor(Channel, upto[k])
    BY <1>1 DEF Ack, Mark
  <2>2. Cursor' = upto[k] /\ succ' = succ /\ upto[k] > Cursor
    BY <2>1, AdvanceEffect DEF IInv, Typed, Cursor
  <2> QED BY <1>1, <2>2 DEF C!Advanceable, C!Proven, Cursor
<1>2. CASE ~C!Advanceable(Channel, upto[k])
  <2>1. UNCHANGED cursorVars
    BY <1>2 DEF Ack, Mark
  <2>2. C!Proven(Channel, Cursor) => succ[Channel][Cursor] # Cursor
    BY ChecksAssumption DEF IInv, ProvenIsPlatformOrder, Typed, Cursor
  <2> QED BY <1>2, <2>1, <2>2 DEF cursorVars, C!Advanceable, C!Proven, Cursor
<1> QED BY <1>1, <1>2

\* Every other step leaves the cursor and the recorded order alone.
LEMMA OtherSteps ==
  ASSUME Next, \A k \in Clients : ~Commit(k) /\ ~Ack(k)
  PROVE  cursors' = cursors /\ succ' = succ
BY DEF Next, Client, Post, ApplySent, Begin, Fetch, Die, LoseReply, Deliver, LoseAck, cursorVars

\* What a check holds, in a step that is not its own or does not end it.
LEMMA BasesMove ==
  ASSUME IInv, Next, NEW k \in Clients
  PROVE  base'[k] = base[k] \/ base'[k] = 0 \/ (base'[k] = Cursor /\ Begin(k))
<1>1. ASSUME NEW j \in Clients, Forget(j) PROVE base'[k] = base[k] \/ base'[k] = 0
  BY <1>1, ForgetEffect DEF IInv, Typed
<1>2. ASSUME NEW j \in Clients, Begin(j)
      PROVE  base'[k] = base[k] \/ (base'[k] = Cursor /\ Begin(k))
  BY <1>2 DEF Begin, IInv, Typed
<1>3. \/ \E j \in Clients : Forget(j) \/ Begin(j)
      \/ base' = base
  BY DEF Next, Client, Post, ApplySent, Fetch, Die, Commit, LoseReply, Deliver, Ack, LoseAck,
         checkVars
<1> QED BY <1>1, <1>2, <1>3

LEMMA EdgesStep ==
  ASSUME IInv, EdgesAtCursor, Next
  PROVE  EdgesAtCursor'
<1>1. Cursor \in 0..MaxPosts /\ Cursor' \in 0..MaxPosts /\ Cursor =< Cursor'
  BY CursorClimbs DEF IInv
<1>2. \A b \in 0..MaxPosts : /\ C!Proven(Channel, b)' => C!Proven(Channel, b) \/ b = Cursor
                             /\ C!Proven(Channel, b) => C!Proven(Channel, b)'
  <2>1. CASE succ' = succ
    BY <2>1 DEF C!Proven
  <2>2. ASSUME NEW k \in Clients, Commit(k), succ' # succ
        PROVE  /\ ~C!Proven(Channel, Cursor)
               /\ succ' = [succ EXCEPT ![Channel][Cursor] = upto[k]]
    BY <2>2, RecordsAtCursor
  <2>3. succ' # succ => \E k \in Clients : Commit(k)
    BY AckTakesSuccessor, OtherSteps
  <2> QED BY <1>1, <2>1, <2>2, <2>3 DEF C!Proven, IInv, Typed
<1>3. \A b \in 0..MaxPosts : C!Proven(Channel, b)' => b =< Cursor'
  BY <1>1, <1>2 DEF EdgesAtCursor
<1>4. Cursor' # Cursor => C!Proven(Channel, Cursor)
  <2>1. Cursor' # Cursor => \E k \in Clients : Ack(k)
    BY CursorClimbs DEF IInv
  <2> QED BY <2>1, AckTakesSuccessor
<1>5. \A b \in 0..MaxPosts :
        b =< Cursor /\ (b < Cursor => C!Proven(Channel, b)) /\ b < Cursor' => C!Proven(Channel, b)'
  BY <1>1, <1>2, <1>4
<1>6. Nothing < Cursor' => C!Proven(Channel, Nothing)'
  BY <1>1, <1>5, ChecksAssumption DEF EdgesAtCursor, Nothing
<1>7. ASSUME NEW k \in Clients, base'[k] < Cursor' PROVE C!Proven(Channel, base[k])'
  <2>1. base[k] \in 0..MaxPosts /\ base[k] =< Cursor
    BY DEF IInv, Typed, Snapshots
  <2>2. CASE base'[k] = base[k]
    BY <1>5, <1>7, <2>1, <2>2 DEF EdgesAtCursor
  <2>3. CASE base'[k] = 0
    BY <1>6, <1>7, <2>3 DEF Nothing
  <2>4. CASE base'[k] = Cursor
    BY <1>1, <1>5, <1>7, <2>4
  <2> QED BY <2>2, <2>3, <2>4, BasesMove
<1> QED BY <1>3, <1>6, <1>7 DEF EdgesAtCursor, C!Proven

\* While nothing is lost, who holds the successor acknowledges it.
LEMMA HeldStep ==
  ASSUME IInv, WithinPosted, StillInv, Next
  PROVE  SuccessorHeld'
<1> SUFFICES ASSUME lost' = 0, C!Proven(Channel, Cursor)'
             PROVE  \E k \in Clients : /\ stage'[k] \in {"replying", "acking"}
                                       /\ upto'[k] = succ'[Channel][Cursor']
  BY DEF SuccessorHeld, C!Proven, Cursor
<1>1. lost = 0 /\ \A k \in Clients : ~LoseReply(k) /\ ~LoseAck(k)
  <2>1. lost \in Nat
    BY ChecksAssumption DEF WithinPosted
  <2>2. ASSUME NEW k \in Clients, LoseReply(k) \/ LoseAck(k) PROVE FALSE
    BY <2>1, <2>2 DEF LoseReply, LoseAck
  <2>3. lost' = lost
    BY <2>2 DEF Next, Client, Post, ApplySent, Begin, Fetch, Die, Commit, Deliver, Ack
  <2> QED BY <2>2, <2>3
<1>2. CASE succ' # succ
  <2>1. PICK k \in Clients : Commit(k)
    BY <1>2, AckTakesSuccessor, OtherSteps
  <2>2. /\ Cursor' = Cursor
        /\ succ' = [succ EXCEPT ![Channel][Cursor] = upto[k]]
    BY <1>2, <2>1, RecordsAtCursor DEF StillInv, Cursor
  <2>3. succ'[Channel][Cursor'] = upto[k]
    BY <2>2 DEF IInv, Typed, Cursor
  <2>4. stage'[k] = "replying" /\ upto'[k] = upto[k]
    BY <2>1 DEF Commit, Goto, IInv, Typed
  <2> QED BY <2>3, <2>4
<1>3. CASE succ' = succ
  <2>1. Cursor' = Cursor
    <3>1. Cursor' \in 0..MaxPosts /\ Cursor' =< Cursor
      BY <1>3, CursorClimbs DEF StillInv, EdgesAtCursor, C!Proven, IInv
    <3> QED BY <3>1, CursorClimbs DEF IInv
  <2>2. PICK k \in Clients : /\ stage[k] \in {"replying", "acking"}
                             /\ upto[k] = succ[Channel][Cursor]
    BY <1>1, <1>3, <2>1 DEF StillInv, SuccessorHeld, C!Proven
  <2>3. stage'[k] \in {"replying", "acking"} /\ upto'[k] = upto[k]
    <3>1. ~Ack(k)
      <4>1. C!Proven(Channel, Cursor) /\ ~(Cursor < Cursor')
        BY <1>3, <2>1, CursorClimbs DEF C!Proven, IInv
      <4> QED BY <2>2, <4>1, AckTakesSuccessor
    <3>2. CASE Deliver(k)
      BY <2>2, <3>2 DEF Deliver, Goto, IInv, Typed
    <3>3. ~Begin(k) /\ ~Fetch(k) /\ ~Die(k) /\ ~Commit(k)
      BY <2>2 DEF Begin, Fetch, Die, Commit
    <3> QED BY <1>1, <2>2, <3>1, <3>2, <3>3, OwnChecks DEF Client, IInv
  <2> QED BY <1>3, <2>1, <2>2, <2>3
<1> QED BY <1>2, <1>3

LEMMA InvariantStill == Spec => []StillInv
<1>1. Init => StillInv
  BY ChecksAssumption
     DEF Init, StillInv, EdgesAtCursor, SuccessorHeld, C!Init, C!Proven, C!Cursor, Cursor,
         Nothing, Posts
<1>2. IInv /\ WithinPosted /\ StillInv /\ [Next]_vars => StillInv'
  <2>1. CASE UNCHANGED vars
    BY <2>1 DEF vars, StillInv, EdgesAtCursor, SuccessorHeld, C!Proven, Cursor
  <2> QED BY <2>1, EdgesStep, HeldStep DEF StillInv
<1> QED BY <1>1, <1>2, InvariantIInv, InvariantWithin, PTL DEF Spec

\* The cursor stands still only after a reply or an ack was lost.
THEOREM BlockedByLoss == Spec => [](StandsStill => Blocked)
<1>1. WithinPosted /\ StillInv => (StandsStill => Blocked)
  BY ChecksAssumption DEF WithinPosted, StillInv, SuccessorHeld, StandsStill, Blocked
<1> QED BY <1>1, InvariantWithin, InvariantStill, PTL

\* Once it does, no later check, ack or post sets it going again (RecordCursor
\* returns early for a base that has a successor).
THEOREM BlockedForGood ==
  Spec => [][StandsStill => StandsStill' /\ Cursor' = Cursor]_vars
<1> DEFINE Stays == StandsStill => StandsStill' /\ Cursor' = Cursor
<1>1. ASSUME IInv, WithinPosted, StillInv, Next, StandsStill
      PROVE  StandsStill' /\ Cursor' = Cursor
  <2>1. succ' = succ \/ \E k \in Clients : Commit(k)
    BY <1>1, AckTakesSuccessor, OtherSteps
  <2>2. succ' = succ
    BY <1>1, <2>1, RecordsAtCursor DEF StillInv, StandsStill
  <2>3. Cursor' = Cursor
    <3>1. \A k \in Clients : Ack(k) => Cursor' = Cursor
      BY <1>1, AckTakesSuccessor DEF StandsStill, Ack
    <3> QED BY <1>1, <3>1, CursorClimbs DEF IInv
  <2>4. posted =< posted'
    <3>1. posted' = posted \/ posted' = posted + 1
      BY <1>1 DEF Next, Client, Post, ApplySent, Begin, Fetch, Die, Commit, LoseReply, Deliver,
                  Ack, LoseAck
    <3> QED BY <1>1, <3>1 DEF WithinPosted
  <2>5. ASSUME NEW k \in Clients, stage'[k] \in {"fetched", "replying", "acking"}
        PROVE  upto'[k] # succ[Channel][Cursor]
    <3>1. CASE Fetch(k)
      BY <1>1, <2>5, <3>1 DEF Fetch, Forget, Goto, IInv, Typed, StandsStill
    <3>2. CASE ~Fetch(k)
      <4>1. stage[k] \in {"fetched", "replying", "acking"} /\ upto'[k] = upto[k]
        <5>1. CASE Forget(k)
          BY <1>1, <2>5, <5>1, ForgetEffect DEF IInv, Typed
        <5>2. CASE ~Forget(k)
          BY <1>1, <2>5, <3>2, <5>2, OwnChecks
             DEF Client, Begin, Die, Commit, LoseReply, Deliver, Ack, LoseAck, Goto, checkVars,
                 IInv, Typed
        <5> QED BY <5>1, <5>2
      <4> QED BY <1>1, <4>1 DEF StandsStill
    <3> QED BY <3>1, <3>2
  <2>6. succ[Channel][Cursor] < posted'
    <3>1. Cursor \in 0..MaxPosts
      BY <1>1, CursorClimbs DEF IInv
    <3>2. succ[Channel][Cursor] \in Int
      BY <1>1, <3>1, ChecksAssumption DEF IInv, Typed
    <3>3. posted \in Int /\ posted' \in Int
      BY <1>1, WithinStep, ChecksAssumption DEF WithinPosted
    <3> QED BY <1>1, <2>4, <3>2, <3>3 DEF StandsStill
  <2> QED BY <1>1, <2>2, <2>3, <2>5, <2>6 DEF StandsStill, C!Proven
<1>2. IInv /\ WithinPosted /\ StillInv /\ [Next]_vars => [Stays]_vars
  BY <1>1
<1> QED BY <1>2, InvariantIInv, InvariantWithin, InvariantStill, PTL DEF Spec

=============================================================================
