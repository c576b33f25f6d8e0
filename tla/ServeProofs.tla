---------------------------- MODULE ServeProofs ----------------------------
(***************************************************************************)
(* Proofs about Serve, for any finite set of connections and any number of *)
(* slots; and, at the end, about Listen, which makes the listener that is  *)
(* served, for any set of daemons.                                         *)
(***************************************************************************)
EXTENDS Serve, Listen, FiniteSetTheorems, TLAPS

USE DEF serverVars, slotVars

-----------------------------------------------------------------------------
(***************************************************************************)
(* The three sets of ServeContext are functions of where the goroutines    *)
(* are: each of them changes in the step that moves one goroutine.         *)
(***************************************************************************)

LEMMA InitTyped == Init => TypeOK
<1> SUFFICES ASSUME Init PROVE TypeOK
  OBVIOUS
<1>1. \A where \in SUBSET Stages : "none" \notin where => At(where) = {}
  BY DEF Init, At
<1> QED BY <1>1 DEF Init, TypeOK, Stages, Answers, Told, InSlot, Handlers

\* Who is at one of some places when one goroutine has gone from here to there.
LEMMA Moved ==
  ASSUME stage \in [Conns -> Stages], NEW c \in Conns, NEW there \in Stages,
         Goto(c, there), NEW where
  PROVE  /\ stage' \in [Conns -> Stages]
         /\ At(where)' = IF there \in where THEN At(where) \cup {c} ELSE At(where) \ {c}
  BY DEF Goto, At

\* Nobody has moved.
LEMMA Stayed ==
  ASSUME UNCHANGED stage, NEW where
  PROVE  At(where)' = At(where)
  BY DEF At

LEMMA ClientTyped ==
  ASSUME TypeOK, NEW c \in Conns, Client(c)
  PROVE  TypeOK'
<1>0. UNCHANGED <<stage, slotVars, serverVars, answer, started>>
  BY DEF Client, Connect, Send, HangUp
<1>1. client' \in [Conns -> Told \cup {"away", "queued", "waiting", "gone"}]
      /\ sent' \subseteq Conns
  BY DEF Client, Connect, Send, HangUp, TypeOK, Told
<1> QED BY <1>0, <1>1, Stayed DEF TypeOK

\* The three sets hold c exactly when its goroutine is at one of their places.
LEMMA StageOf ==
  ASSUME TypeOK, NEW c \in Conns
  PROVE  /\ c \in sem <=> stage[c] \in InSlot
         /\ c \in active <=> stage[c] \in InSlot \ {"left"}
         /\ c \in wg <=> stage[c] \in InSlot \cup {"freed"}
  BY DEF TypeOK, At

\* After a step of the goroutine of c the three sets follow it, if the step
\* adds or removes c where its new place says so, and changes nothing else.
LEMMA Followed ==
  ASSUME TypeOK, NEW c \in Conns, NEW there \in Stages, Goto(c, there),
         sem' = IF there \in InSlot THEN sem \cup {c} ELSE sem \ {c},
         active' = IF there \in InSlot \ {"left"} THEN active \cup {c} ELSE active \ {c},
         wg' = IF there \in InSlot \cup {"freed"} THEN wg \cup {c} ELSE wg \ {c}
  PROVE  /\ stage' \in [Conns -> Stages]
         /\ sem' = At(InSlot)'
         /\ active' = At(InSlot \ {"left"})'
         /\ wg' = At(InSlot \cup {"freed"})'
<1>1. stage \in [Conns -> Stages] BY DEF TypeOK
<1>2. stage' \in [Conns -> Stages] BY <1>1, Moved
<1>3. sem' = At(InSlot)' BY <1>1, Moved DEF TypeOK
<1>4. active' = At(InSlot \ {"left"})'
  <2>1. active = At(InSlot \ {"left"}) BY DEF TypeOK
  <2> QED BY <1>1, <2>1, Moved
<1>5. wg' = At(InSlot \cup {"freed"})'
  <2>1. wg = At(InSlot \cup {"freed"}) BY DEF TypeOK
  <2> QED BY <1>1, <2>1, Moved
<1> QED BY <1>2, <1>3, <1>4, <1>5

LEMMA AcceptTyped ==
  ASSUME TypeOK, NEW c \in Conns, Accept(c)
  PROVE  TypeOK'
<1>1. stage[c] = "none" /\ c \notin sem /\ c \notin active /\ c \notin wg
  BY StageOf DEF Accept, InSlot, Handlers
<1>2. PICK there \in {"reading", "busy"} :
        /\ Goto(c, there)
        /\ there = "reading" =>
             sem' = sem \cup {c} /\ active' = active \cup {c} /\ wg' = wg \cup {c}
        /\ there = "busy" => UNCHANGED <<sem, active, wg>>
  BY DEF Accept
<1>3. /\ stage' \in [Conns -> Stages]
      /\ sem' = At(InSlot)'
      /\ active' = At(InSlot \ {"left"})'
      /\ wg' = At(InSlot \cup {"freed"})'
  <2>1. there \in Stages BY DEF Stages, InSlot
  <2> QED BY <1>1, <1>2, <2>1, Followed DEF InSlot, Handlers
<1>4. client' \in [Conns -> Told \cup {"away", "queued", "waiting", "gone"}]
  BY DEF Accept, TypeOK, Told
<1> QED BY <1>3, <1>4 DEF Accept, TypeOK

\* Every step of a goroutine goes somewhere, and the sets follow.
LEMMA GoroutineFollowed ==
  ASSUME TypeOK, NEW c \in Conns, Goroutine(c) \/ HandlerEnds(c)
  PROVE  /\ stage' \in [Conns -> Stages]
         /\ sem' = At(InSlot)'
         /\ active' = At(InSlot \ {"left"})'
         /\ wg' = At(InSlot \cup {"freed"})'
<1> USE StageOf DEF InSlot, Handlers, Stages
<1>1. CASE ReadRequest(c)
  <2>1. PICK handler \in Handlers : Goto(c, handler)
    BY <1>1 DEF ReadRequest
  <2> QED BY <1>1, <2>1, Followed DEF ReadRequest
<1>2. CASE RejectRequest(c)
  BY <1>2, Followed DEF RejectRequest
<1>3. CASE HandlerEnds(c)
  BY <1>3, Followed DEF HandlerEnds
<1>4. CASE Reply(c)
  BY <1>4, Followed DEF Reply
<1>5. CASE CloseConn(c)
  BY <1>5, Followed DEF CloseConn
<1>6. CASE LeaveActive(c)
  BY <1>6, Followed DEF LeaveActive
<1>7. CASE FreeSlot(c)
  BY <1>7, Followed DEF FreeSlot
<1>8. CASE Finish(c)
  BY <1>8, Followed DEF Finish
<1>9. CASE BusyReply(c)
  BY <1>9, Followed DEF BusyReply
<1> QED BY <1>1, <1>2, <1>3, <1>4, <1>5, <1>6, <1>7, <1>8, <1>9 DEF Goroutine

\* What is told is always something a client can be told.
LEMMA TellTyped ==
  ASSUME TypeOK, NEW c \in Conns, NEW what \in Told, Tell(c, what)
  PROVE  client' \in [Conns -> Told \cup {"away", "queued", "waiting", "gone"}]
  BY DEF Tell, TypeOK

LEMMA GoroutineTyped ==
  ASSUME TypeOK, NEW c \in Conns, Goroutine(c) \/ HandlerEnds(c)
  PROVE  TypeOK'
<1>1. UNCHANGED serverVars /\ severed' = severed /\ sent' = sent
  BY DEF Goroutine, ReadRequest, RejectRequest, HandlerEnds, Reply, CloseConn,
         LeaveActive, FreeSlot, Finish, BusyReply
<1>2. started' \subseteq Conns /\ cancelled' \subseteq Conns
  BY DEF Goroutine, ReadRequest, RejectRequest, HandlerEnds, Reply, CloseConn,
         LeaveActive, FreeSlot, Finish, BusyReply, TypeOK
<1>3. answer' \in [Conns -> Answers]
  BY DEF Goroutine, ReadRequest, RejectRequest, HandlerEnds, Reply, CloseConn,
         LeaveActive, FreeSlot, Finish, BusyReply, TypeOK, Answers
<1>4. client' = client \/ \E what \in Told : Tell(c, what)
  BY DEF Goroutine, ReadRequest, RejectRequest, HandlerEnds, Reply, CloseConn,
         LeaveActive, FreeSlot, Finish, BusyReply, TypeOK, Told
<1>5. client' \in [Conns -> Told \cup {"away", "queued", "waiting", "gone"}]
  BY <1>4, TellTyped DEF TypeOK
<1> QED BY <1>1, <1>2, <1>3, <1>5, GoroutineFollowed DEF TypeOK

LEMMA ShutdownTyped ==
  ASSUME TypeOK, CancelContext \/ CloseListener \/ Server
  PROVE  TypeOK'
<1> USE DEF CancelContext, CloseListener, Server, StopAccepting, CloseActive,
            Return, GiveUp
<1>1. UNCHANGED <<stage, sem, active, wg, answer, sent, started>>
  OBVIOUS
<1>2. client' \in [Conns -> Told \cup {"away", "queued", "waiting", "gone"}]
  BY DEF TypeOK, Told
<1>3. cancelled' \subseteq Conns /\ severed' \subseteq Conns
  BY DEF TypeOK, At
<1>4. /\ server' \in {"accepting", "stopping", "waiting", "returned"}
      /\ forced' \in BOOLEAN /\ ctxDone' \in BOOLEAN /\ closed' \in BOOLEAN
  BY DEF TypeOK
<1> QED BY <1>1, <1>2, <1>3, <1>4, Stayed DEF TypeOK

LEMMA StepTyped == TypeOK /\ [Next]_vars => TypeOK'
<1> SUFFICES ASSUME TypeOK, [Next]_vars PROVE TypeOK'
  OBVIOUS
<1>1. CASE UNCHANGED vars BY <1>1, Stayed DEF vars, TypeOK
<1>2. CASE Next
  BY <1>2, ClientTyped, AcceptTyped, GoroutineTyped, ShutdownTyped DEF Next
<1> QED BY <1>1, <1>2

\* Type correctness; above all, the semaphore, the map of active connections
\* and the WaitGroup each hold exactly the goroutines between the two
\* statements that enter and leave them.
THEOREM Typing == Spec => []TypeOK
<1>1. Init => TypeOK BY InitTyped
<1>2. TypeOK /\ [Next]_vars => TypeOK' BY StepTyped
<1> QED BY <1>1, <1>2, PTL DEF Spec

-----------------------------------------------------------------------------
(***************************************************************************)
(* The slots.                                                              *)
(***************************************************************************)

SlotsBounded == IsFiniteSet(sem) /\ Cardinality(sem) =< Slots

LEMMA InitSlots == Init => SlotsBounded
<1>1. IsFiniteSet({}) /\ Cardinality({}) = 0 BY FS_EmptySet
<1>2. 0 =< Slots BY ServeAssumption
<1> QED BY <1>1, <1>2 DEF Init, SlotsBounded

LEMMA StepSlots == SlotsBounded /\ [Next]_vars => SlotsBounded'
<1> SUFFICES ASSUME SlotsBounded, [Next]_vars PROVE SlotsBounded'
  OBVIOUS
<1> USE DEF SlotsBounded
<1>1. CASE sem' = sem BY <1>1
<1>2. ASSUME NEW c \in Conns, sem' = sem \cup {c}, SlotFree
      PROVE  SlotsBounded'
  <2>1. /\ IsFiniteSet(sem \cup {c})
        /\ Cardinality(sem \cup {c}) \in {Cardinality(sem), Cardinality(sem) + 1}
    BY FS_AddElement
  <2>2. Cardinality(sem) \in Nat BY FS_CardinalityType
  <2> QED BY <1>2, <2>1, <2>2, ServeAssumption DEF SlotFree
<1>3. ASSUME NEW c \in Conns, sem' = sem \ {c}
      PROVE  SlotsBounded'
  <2>1. sem' \subseteq sem BY <1>3
  <2>2. IsFiniteSet(sem') /\ Cardinality(sem') =< Cardinality(sem)
    BY <2>1, FS_Subset
  <2>3. Cardinality(sem) \in Nat /\ Cardinality(sem') \in Nat
    BY <2>2, FS_CardinalityType
  <2> QED BY <2>2, <2>3, ServeAssumption
<1>4. \/ sem' = sem
      \/ \E c \in Conns : sem' = sem \cup {c} /\ SlotFree
      \/ \E c \in Conns : sem' = sem \ {c}
  BY DEF vars, Next, Client, Connect, Send, HangUp, Accept, Goroutine,
         ReadRequest, RejectRequest, HandlerEnds, Reply, CloseConn, LeaveActive,
         FreeSlot, Finish, BusyReply, CancelContext, CloseListener, Server,
         StopAccepting, CloseActive, Return, GiveUp
<1> QED BY <1>1, <1>2, <1>3, <1>4

\* At most Slots handlers run at one time: each holds a slot, and a slot is
\* taken only when one is free.
THEOREM Bounded == Spec => []HandlersBounded
<1>1. TypeOK /\ SlotsBounded => HandlersBounded
  <2> SUFFICES ASSUME TypeOK, SlotsBounded PROVE HandlersBounded
    OBVIOUS
  <2>1. Handling \subseteq sem BY DEF Handling, TypeOK, InSlot, At
  <2>2. IsFiniteSet(Handling) /\ Cardinality(Handling) =< Cardinality(sem)
    BY <2>1, FS_Subset DEF SlotsBounded
  <2>3. Cardinality(sem) \in Nat /\ Cardinality(Handling) \in Nat
    BY <2>2, FS_CardinalityType DEF SlotsBounded
  <2> QED BY <2>2, <2>3, ServeAssumption DEF SlotsBounded, HandlersBounded
<1> QED BY <1>1, InitSlots, StepSlots, Typing, PTL DEF Spec

-----------------------------------------------------------------------------
(***************************************************************************)
(* The answers.                                                            *)
(***************************************************************************)

\* The invariant behind AnswerTellsHandled: where the goroutine of a started
\* handler is, and what it is about to answer.
AnswerOf(c) ==
  /\ client[c] \in {"away", "unreachable"} => stage[c] = "none"
  /\ c \in started => stage[c] \notin {"none", "reading", "busy", "busyDone"}
  /\ stage[c] \in Handlers => c \in started
  /\ stage[c] = "replying" => (c \in started <=> answer[c] # "bad request")
  /\ client[c] \in {"result", "internal error"} => c \in started
  /\ client[c] \in {"bad request", "server busy", "unreachable"} => c \notin started

AnswerInv == \A c \in Conns : AnswerOf(c)

LEMMA InitAnswer == Init => AnswerInv
  BY DEF Init, AnswerInv, AnswerOf, Handlers

\* A step of one connection leaves what the others are told alone.
LEMMA OthersAnswer ==
  ASSUME TypeOK, NEW c \in Conns, NEW d \in Conns, d # c, AnswerOf(d),
         Client(c) \/ Accept(c) \/ Goroutine(c) \/ HandlerEnds(c)
  PROVE  AnswerOf(d)'
<1>1. /\ client'[d] = client[d] /\ stage'[d] = stage[d] /\ answer'[d] = answer[d]
      /\ d \in started' <=> d \in started
  <2> USE DEF TypeOK, Goto, Tell
  <2>1. CASE Client(c) BY <2>1 DEF Client, Connect, Send, HangUp
  <2>2. CASE Accept(c) BY <2>2 DEF Accept
  <2>3. CASE Goroutine(c) \/ HandlerEnds(c)
    BY <2>3 DEF Goroutine, ReadRequest, RejectRequest, HandlerEnds, Reply, CloseConn,
                LeaveActive, FreeSlot, Finish, BusyReply
  <2> QED BY <2>1, <2>2, <2>3
<1> QED BY <1>1 DEF AnswerOf

LEMMA OwnAnswer ==
  ASSUME TypeOK, NEW c \in Conns, AnswerOf(c),
         Client(c) \/ Accept(c) \/ Goroutine(c) \/ HandlerEnds(c)
  PROVE  AnswerOf(c)'
<1> USE DEF AnswerOf, TypeOK, Goto, Tell, Handlers
<1>1. CASE Client(c) BY <1>1 DEF Client, Connect, Send, HangUp
<1>2. CASE Accept(c) BY <1>2 DEF Accept
<1>3. CASE ReadRequest(c) BY <1>3 DEF ReadRequest, Answers
<1>4. CASE RejectRequest(c) BY <1>4 DEF RejectRequest, Answers
<1>5. CASE HandlerEnds(c) BY <1>5 DEF HandlerEnds, Answers
<1>6. CASE Reply(c) BY <1>6 DEF Reply, Answers
<1>7. CASE CloseConn(c) BY <1>7 DEF CloseConn, Answers
<1>8. CASE LeaveActive(c) BY <1>8 DEF LeaveActive, Answers
<1>9. CASE FreeSlot(c) BY <1>9 DEF FreeSlot, Answers
<1>10. CASE Finish(c) BY <1>10 DEF Finish, Answers
<1>11. CASE BusyReply(c) BY <1>11 DEF BusyReply, Answers
<1> QED BY <1>1, <1>2, <1>3, <1>4, <1>5, <1>6, <1>7, <1>8, <1>9, <1>10, <1>11
        DEF Goroutine

LEMMA ShutdownAnswer ==
  ASSUME TypeOK, NEW c \in Conns, AnswerOf(c), CancelContext \/ CloseListener \/ Server
  PROVE  AnswerOf(c)'
<1>1. UNCHANGED <<stage, answer, started>>
  BY DEF CancelContext, CloseListener, Server, StopAccepting, CloseActive, Return, GiveUp
<1>2. client'[c] = client[c] \/ client'[c] = "eof"
  BY DEF CancelContext, CloseListener, Server, StopAccepting, CloseActive, Return,
         GiveUp, TypeOK
<1> QED BY <1>1, <1>2 DEF AnswerOf

LEMMA StepAnswer == TypeOK /\ AnswerInv /\ [Next]_vars => AnswerInv'
<1> SUFFICES ASSUME TypeOK, AnswerInv, [Next]_vars, NEW d \in Conns
             PROVE  AnswerOf(d)'
  BY DEF AnswerInv
<1>0. AnswerOf(d) BY DEF AnswerInv
<1>1. CASE UNCHANGED vars BY <1>0, <1>1 DEF vars, AnswerOf
<1>2. ASSUME NEW c \in Conns, Client(c) \/ Accept(c) \/ Goroutine(c) \/ HandlerEnds(c)
      PROVE  AnswerOf(d)'
  BY <1>0, <1>2, OthersAnswer, OwnAnswer
<1>3. CASE CancelContext \/ CloseListener \/ Server
  BY <1>0, <1>3, ShutdownAnswer
<1> QED BY <1>1, <1>2, <1>3 DEF Next

\* A client that was answered knows whether its request was handled, and one
\* that was refused can send it again.
THEOREM AnswersTell == Spec => []AnswerTellsHandled
<1>1. AnswerInv => AnswerTellsHandled
  BY DEF AnswerInv, AnswerOf, AnswerTellsHandled
<1> QED BY <1>1, InitAnswer, StepAnswer, Typing, PTL DEF Spec

-----------------------------------------------------------------------------
(***************************************************************************)
(* The shutdown.                                                           *)
(***************************************************************************)

\* The invariant behind NothingLeftBehind: the loop that closed the active
\* connections missed none, since none is accepted after it.
ShutdownInv ==
  /\ server \in {"waiting", "returned"} =>
       active \subseteq cancelled /\ active \subseteq severed
  /\ server = "returned" /\ ~forced => wg = {}

LEMMA StepShutdown == TypeOK /\ ShutdownInv /\ [Next]_vars => ShutdownInv'
<1> SUFFICES ASSUME TypeOK, ShutdownInv, [Next]_vars PROVE ShutdownInv'
  OBVIOUS
<1> USE DEF ShutdownInv
<1>1. CASE UNCHANGED vars BY <1>1 DEF vars
<1>2. ASSUME NEW c \in Conns, Client(c) PROVE ShutdownInv'
  BY <1>2 DEF Client, Connect, Send, HangUp
<1>3. ASSUME NEW c \in Conns, Accept(c) PROVE ShutdownInv'
  BY <1>3 DEF Accept
<1>4. ASSUME NEW c \in Conns, Goroutine(c) \/ HandlerEnds(c) PROVE ShutdownInv'
  BY <1>4 DEF Goroutine, ReadRequest, RejectRequest, HandlerEnds, Reply, CloseConn,
              LeaveActive, FreeSlot, Finish, BusyReply
<1>5. CASE CancelContext \/ CloseListener
  BY <1>5 DEF CancelContext, CloseListener
<1>6. CASE Server
  BY <1>6 DEF Server, StopAccepting, CloseActive, Return, AllDone, GiveUp, TypeOK
<1> QED BY <1>1, <1>2, <1>3, <1>4, <1>5, <1>6 DEF Next

\* When ServeContext returns, every slot goroutine is over, or its timeout
\* passed and what still runs has a done context and a closed socket.
THEOREM NoneLeftBehind == Spec => []NothingLeftBehind
<1>1. Init => ShutdownInv BY DEF Init, ShutdownInv
<1>2. TypeOK /\ ShutdownInv => NothingLeftBehind
  <2> SUFFICES ASSUME TypeOK, ShutdownInv, server = "returned" PROVE NothingLeftBehind
    BY DEF NothingLeftBehind
  <2>1. ASSUME NEW c \in Conns, ~forced
        PROVE  stage[c] \in {"none", "done", "busy", "busyDone"}
    <3>1. c \notin wg BY <2>1 DEF ShutdownInv
    <3>2. stage[c] \in Stages BY DEF TypeOK
    <3> QED BY <3>1, <3>2, StageOf DEF Stages
  <2>2. ASSUME NEW c \in Conns, stage[c] \in {"reading", "replying"} \cup Handlers
        PROVE  ContextDone(c) /\ c \in severed
    <3>1. c \in active BY <2>2, StageOf DEF InSlot, Handlers
    <3> QED BY <3>1 DEF ShutdownInv, ContextDone
  <2> QED BY <2>1, <2>2 DEF NothingLeftBehind
<1> QED BY <1>1, <1>2, StepShutdown, Typing, PTL DEF Spec

-----------------------------------------------------------------------------
(***************************************************************************)
(* The socket file of Listen.                                              *)
(***************************************************************************)

\* Who has met no other daemon since it started runs alone.
RunsAlone ==
  \A d \in Daemons \ met, e \in Daemons : Running(d) /\ Running(e) => d = e

\* The path is its own, from the removal of what was left to its own close.
OwnsPath ==
  \A d \in Daemons \ met :
    /\ daemon[d] = "binding" => path = NoFile
    /\ daemon[d] \in {"permitting", "serving"} => path = d

SocketInv == SocketTypeOK /\ RunsAlone /\ OwnsPath /\ AloneIsReachable

LEMMA InitSocket == SocketInit => SocketInv
BY DEF SocketInit, SocketInv, SocketTypeOK, RunsAlone, Running, OwnsPath, AloneIsReachable

\* A start makes those meet that run.
LEMMA StartSocket ==
  ASSUME SocketInv, NEW d \in Daemons, Start(d)
  PROVE  SocketInv'
<1>1. /\ daemon' = [daemon EXCEPT ![d] = "clearing"] /\ path' = path
      /\ \A e \in Daemons : Running(e)' <=> Running(e) \/ e = d
  BY DEF Start, MoveTo, SocketInv, SocketTypeOK, Running
<1>2. /\ met' \subseteq Daemons /\ met \ {d} \subseteq met'
      /\ \A e \in Daemons \ {d} : Running(e) => e \in met' /\ d \in met'
  BY DEF Start, SocketInv, SocketTypeOK
<1>3. RunsAlone'
  BY <1>1, <1>2 DEF SocketInv, RunsAlone
<1> QED
  BY <1>1, <1>2, <1>3 DEF SocketInv, SocketTypeOK, OwnsPath, AloneIsReachable

\* Another step of a running daemon: nobody else is alone meanwhile.
LEMMA RunSocket ==
  ASSUME SocketInv, NEW d \in Daemons,
         Clear(d) \/ Bind(d) \/ Permit(d) \/ CloseSocket(d) \/ Crash(d)
  PROVE  SocketInv'
<1>1. Running(d) /\ met' = met
  BY DEF Clear, Bind, Permit, CloseSocket, Crash, Running
<1>2. SocketTypeOK'
  BY DEF SocketInv, SocketTypeOK, Clear, Bind, Permit, CloseSocket, Crash, MoveTo
<1>3. \A e \in Daemons \ {d} : daemon'[e] = daemon[e] /\ (e \notin met => ~Running(e))
  BY <1>1 DEF SocketInv, SocketTypeOK, RunsAlone, Clear, Bind, Permit, CloseSocket, Crash, MoveTo
<1>4. RunsAlone'
  BY <1>1, <1>3 DEF SocketInv, RunsAlone, Running
<1>5. d \notin met =>
        /\ daemon'[d] = "binding" => path' = NoFile
        /\ daemon'[d] \in {"permitting", "serving"} => path' = d
        /\ daemon'[d] # "in use"
  BY DEF SocketInv, SocketTypeOK, OwnsPath, AloneIsReachable, Clear, Bind, Permit,
         CloseSocket, Crash, MoveTo
<1> QED
  BY <1>1, <1>2, <1>3, <1>4, <1>5 DEF SocketInv, OwnsPath, AloneIsReachable, Running

LEMMA StepSocket == SocketInv /\ [SocketNext]_socketVars => SocketInv'
<1>1. SocketInv /\ UNCHANGED socketVars => SocketInv'
  BY DEF socketVars, SocketInv, SocketTypeOK, RunsAlone, Running, OwnsPath, AloneIsReachable
<1> QED BY <1>1, StartSocket, RunSocket DEF SocketNext, Daemon

\* However many daemons started, crashed and took the path from each other
\* before, one that starts and stays alone gets its socket and keeps it.
THEOREM Reachable == SocketSpec => []AloneIsReachable
<1>1. SocketInv => AloneIsReachable
  BY DEF SocketInv
<1> QED BY <1>1, InitSocket, StepSocket, PTL DEF SocketSpec

=============================================================================
