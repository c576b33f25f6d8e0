------------------------------- MODULE Serve -------------------------------
(***************************************************************************)
(* ServeContext (pkg/protocol/protocol.go): the accept loop, a goroutine   *)
(* per connection within a fixed number of slots, a short busy reply to    *)
(* the connections beyond, and the shutdown.  Each connection carries one  *)
(* request of one client (Call), which may hang up at any time.            *)
(*                                                                         *)
(* Time is abstracted: a deadline or timer may pass whenever the code can  *)
(* wait for it.  A transient error of Accept changes nothing and is left   *)
(* out.                                                                    *)
(***************************************************************************)
EXTENDS Integers, FiniteSets

CONSTANTS
  Conns,       \* the connections clients make, one request each
  Slots        \* serveMaxConcurrentConnections

ASSUME ServeAssumption == IsFiniteSet(Conns) /\ Slots \in Nat \ {0}

VARIABLES
  server,      \* ServeContext: "accepting", "stopping", "waiting", "returned"
  forced,      \* it returned because serveShutdownTimeout passed
  ctxDone,     \* the context given to ServeContext is done
  closed,      \* the listener is closed
  stage,       \* per connection: where its goroutine is
  answer,      \* per connection: the response its goroutine has to write
  sem,         \* the connections that hold a slot
  active,      \* the map of connections to close at shutdown
  wg,          \* the connections the WaitGroup counts
  cancelled,   \* the connections whose own context was cancelled
  severed,     \* the connections whose socket the shutdown closed
  client,      \* per connection: what the client knows
  sent,        \* the connections whose client has sent its whole request
  started      \* history: the connections whose handler was called

serverVars == <<server, forced, ctxDone, closed>>
slotVars   == <<sem, active, wg, cancelled, severed>>
vars == <<server, forced, ctxDone, closed, stage, answer, sem, active, wg,
          cancelled, severed, client, sent, started>>

\* What the handler of a request may do: work and end, wait until its context
\* is done, or never return.
Handlers == {"working", "observing", "stuck"}

\* A slot goroutine in order: serveConn reads, handles, replies and closes;
\* then the deferred functions run, last one first.
InSlot  == {"reading"} \cup Handlers \cup {"replying", "closing", "closed", "left"}
Stages  == InSlot \cup {"none", "freed", "done", "busy", "busyDone"}
Answers == {"result", "internal error", "bad request"}
Told    == Answers \cup {"server busy", "eof", "unreachable"}

\* The connections whose goroutine is at one of these places.
At(where) == {c \in Conns : stage[c] \in where}

Goto(c, where) == stage' = [stage EXCEPT ![c] = where]

TypeOK ==
  /\ server \in {"accepting", "stopping", "waiting", "returned"}
  /\ forced \in BOOLEAN /\ ctxDone \in BOOLEAN /\ closed \in BOOLEAN
  /\ stage \in [Conns -> Stages]
  /\ answer \in [Conns -> Answers]
  /\ sem = At(InSlot)
  /\ active = At(InSlot \ {"left"})
  /\ wg = At(InSlot \cup {"freed"})
  /\ cancelled \subseteq Conns /\ severed \subseteq Conns
  /\ client \in [Conns -> Told \cup {"away", "queued", "waiting", "gone"}]
  /\ sent \subseteq Conns
  /\ started \subseteq Conns

Init ==
  /\ server = "accepting"
  /\ forced = FALSE /\ ctxDone = FALSE /\ closed = FALSE
  /\ stage = [c \in Conns |-> "none"]
  /\ answer = [c \in Conns |-> "bad request"]
  /\ sem = {} /\ active = {} /\ wg = {} /\ cancelled = {} /\ severed = {}
  /\ client = [c \in Conns |-> "away"]
  /\ sent = {} /\ started = {}

-----------------------------------------------------------------------------
(***************************************************************************)
(* The clients.                                                            *)
(***************************************************************************)

\* The kernel queues the connection, or refuses it without a listener.
Connect(c) ==
  /\ client[c] = "away"
  /\ client' = [client EXCEPT ![c] = IF closed THEN "unreachable" ELSE "queued"]
  /\ UNCHANGED <<serverVars, slotVars, stage, answer, sent, started>>

\* The client sends its request.  One that sends something else (no single
\* JSON value, one that is too long, trailing data) is to the server what one
\* that sends nothing is: it never takes this step.
Send(c) ==
  /\ client[c] \in {"queued", "waiting"} /\ c \notin sent
  /\ sent' = sent \cup {c}
  /\ UNCHANGED <<serverVars, slotVars, stage, answer, client, started>>

\* The client closes the connection: its deadline passed, or it was stopped.
HangUp(c) ==
  /\ client[c] \in {"queued", "waiting"}
  /\ client' = [client EXCEPT ![c] = "gone"]
  /\ UNCHANGED <<serverVars, slotVars, stage, answer, sent, started>>

\* What a client that still waits learns when bytes or the end of the stream
\* reach it.
Tell(c, what) ==
  client' = IF client[c] = "waiting" THEN [client EXCEPT ![c] = what] ELSE client

-----------------------------------------------------------------------------
(***************************************************************************)
(* The accept loop.                                                        *)
(***************************************************************************)

\* Slip: one slot too many.
SlotFreeOrLast == Cardinality(sem) =< Slots

SlotFree == Cardinality(sem) < Slots

\* Accept returns a connection of the queue, also one whose client has left.
Accept(c) ==
  /\ server = "accepting" /\ ~closed
  /\ stage[c] = "none" /\ client[c] \in {"queued", "gone"}
  /\ client' = [client EXCEPT ![c] = IF @ = "queued" THEN "waiting" ELSE @]
  /\ IF SlotFree
       THEN /\ Goto(c, "reading")
            /\ sem' = sem \cup {c} /\ active' = active \cup {c} /\ wg' = wg \cup {c}
       ELSE /\ Goto(c, "busy")
            /\ UNCHANGED <<sem, active, wg>>
  /\ UNCHANGED <<serverVars, answer, cancelled, severed, sent, started>>

\* writeBusyResponse reads for a short while, replies and closes; closing
\* before everything was read can reset the connection under the reply.  Its
\* goroutine is in neither active nor the WaitGroup.
BusyReply(c) ==
  /\ stage[c] = "busy"
  /\ Goto(c, "busyDone")
  /\ Tell(c, "server busy") \/ (c \notin sent /\ Tell(c, "eof"))
  /\ UNCHANGED <<serverVars, slotVars, answer, sent, started>>

-----------------------------------------------------------------------------
(***************************************************************************)
(* One slot goroutine.                                                     *)
(***************************************************************************)

\* The context the handler of c was given is done.
ContextDone(c) == ctxDone \/ c \in cancelled

\* decodeBoundedRequest succeeds: a whole request and, for the time of the
\* trailing-data check, an open connection.  The request decides what its
\* handler does.
ReadRequest(c) ==
  /\ stage[c] = "reading"
  /\ c \in sent /\ client[c] = "waiting" /\ c \notin severed
  /\ \E handler \in Handlers : Goto(c, handler)
  /\ started' = started \cup {c}
  /\ UNCHANGED <<serverVars, slotVars, answer, client, sent>>

\* It fails: something else was sent, the client or the shutdown closed the
\* socket, or the deadline passed.
RejectRequest(c) ==
  /\ stage[c] = "reading"
  /\ c \notin sent \/ client[c] # "waiting" \/ c \in severed
  /\ Goto(c, "replying")
  /\ answer' = [answer EXCEPT ![c] = "bad request"]
  /\ UNCHANGED <<serverVars, slotVars, client, sent, started>>

\* Slip: a recovered panic is answered like a request that did not decode.
HandlerEndsAsBadRequest(c) ==
  /\ stage[c] = "working" \/ (stage[c] = "observing" /\ ContextDone(c))
  /\ Goto(c, "replying")
  /\ \E a \in {"result", "bad request"} : answer' = [answer EXCEPT ![c] = a]
  /\ UNCHANGED <<serverVars, slotVars, client, sent, started>>

\* The handler returns, or panics and is recovered.
HandlerEnds(c) ==
  /\ stage[c] = "working" \/ (stage[c] = "observing" /\ ContextDone(c))
  /\ Goto(c, "replying")
  /\ \E a \in {"result", "internal error"} : answer' = [answer EXCEPT ![c] = a]
  /\ UNCHANGED <<serverVars, slotVars, client, sent, started>>

\* The response is written, unless the socket is closed or the deadline that
\* was set before the handler ran has passed.
Reply(c) ==
  /\ stage[c] = "replying"
  /\ Goto(c, "closing")
  /\ \/ c \notin severed /\ Tell(c, answer[c])
     \/ UNCHANGED client
  /\ UNCHANGED <<serverVars, slotVars, answer, sent, started>>

\* serveConn's deferred conn.Close.
CloseConn(c) ==
  /\ stage[c] = "closing"
  /\ Goto(c, "closed")
  /\ Tell(c, "eof")
  /\ UNCHANGED <<serverVars, slotVars, answer, sent, started>>

\* Slip: the finished connection stays in the map.
LeaveActiveKept(c) ==
  /\ stage[c] = "closed"
  /\ Goto(c, "left")
  /\ UNCHANGED <<serverVars, slotVars, answer, client, sent, started>>

LeaveActive(c) ==
  /\ stage[c] = "closed"
  /\ Goto(c, "left")
  /\ active' = active \ {c}
  /\ UNCHANGED <<serverVars, answer, sem, wg, cancelled, severed, client, sent, started>>

\* Slip: a goroutine whose client has gone forgets its slot.
FreeSlotOrLeak(c) ==
  /\ stage[c] = "left"
  /\ Goto(c, "freed")
  /\ sem' = IF client[c] = "gone" THEN sem ELSE sem \ {c}
  /\ UNCHANGED <<serverVars, answer, active, wg, cancelled, severed, client, sent, started>>

FreeSlot(c) ==
  /\ stage[c] = "left"
  /\ Goto(c, "freed")
  /\ sem' = sem \ {c}
  /\ UNCHANGED <<serverVars, answer, active, wg, cancelled, severed, client, sent, started>>

\* cancel() and wg.Done().
Finish(c) ==
  /\ stage[c] = "freed"
  /\ Goto(c, "done")
  /\ cancelled' = cancelled \cup {c}
  /\ wg' = wg \ {c}
  /\ UNCHANGED <<serverVars, answer, sem, active, severed, client, sent, started>>

-----------------------------------------------------------------------------
(***************************************************************************)
(* The shutdown.                                                           *)
(***************************************************************************)

CancelContext ==
  /\ ~ctxDone
  /\ ctxDone' = TRUE
  /\ UNCHANGED <<server, forced, closed, slotVars, stage, answer, client, sent, started>>

\* The watching goroutine closes the listener, or its owner does; the kernel
\* resets what is still queued.
CloseListener ==
  /\ ~closed
  /\ closed' = TRUE
  /\ client' = [c \in Conns |-> IF client[c] = "queued" THEN "eof" ELSE client[c]]
  /\ UNCHANGED <<server, forced, ctxDone, slotVars, stage, answer, sent, started>>

\* Accept returns net.ErrClosed: the loop ends.
StopAccepting ==
  /\ server = "accepting" /\ closed
  /\ server' = "stopping"
  /\ UNCHANGED <<forced, ctxDone, closed, slotVars, stage, answer, client, sent, started>>

\* Slip: the contexts are left to the handlers' own goroutines to cancel.
CloseActiveOnly ==
  /\ server = "stopping"
  /\ server' = "waiting"
  /\ severed' = severed \cup active
  /\ client' = [c \in Conns |->
                  IF c \in active /\ client[c] = "waiting" THEN "eof" ELSE client[c]]
  /\ UNCHANGED <<forced, ctxDone, closed, stage, answer, sem, active, wg, cancelled, sent, started>>

\* Under activeMu: every active connection's context is cancelled and its
\* socket closed.
CloseActive ==
  /\ server = "stopping"
  /\ server' = "waiting"
  /\ cancelled' = cancelled \cup active
  /\ severed' = severed \cup active
  /\ client' = [c \in Conns |->
                  IF c \in active /\ client[c] = "waiting" THEN "eof" ELSE client[c]]
  /\ UNCHANGED <<forced, ctxDone, closed, stage, answer, sem, active, wg, sent, started>>

\* Slip: the goroutines that have freed their slot are not waited for.
AllQuiet == sem = {}

AllDone == wg = {}

Return ==
  /\ server = "waiting" /\ AllDone
  /\ server' = "returned"
  /\ UNCHANGED <<forced, ctxDone, closed, slotVars, stage, answer, client, sent, started>>

\* Slip: the timeout is not looked at while a handler runs.
GiveUpWhenIdle ==
  /\ server = "waiting" /\ \A c \in Conns : stage[c] \notin Handlers
  /\ server' = "returned" /\ forced' = TRUE
  /\ UNCHANGED <<ctxDone, closed, slotVars, stage, answer, client, sent, started>>

\* serveShutdownTimeout passes first.
GiveUp ==
  /\ server = "waiting"
  /\ server' = "returned" /\ forced' = TRUE
  /\ UNCHANGED <<ctxDone, closed, slotVars, stage, answer, client, sent, started>>

-----------------------------------------------------------------------------

Client(c) == Connect(c) \/ Send(c) \/ HangUp(c)

\* What the goroutine of c does on its own; HandlerEnds is the handler's.
Goroutine(c) ==
  \/ ReadRequest(c) \/ RejectRequest(c) \/ Reply(c) \/ CloseConn(c)
  \/ LeaveActive(c) \/ FreeSlot(c) \/ Finish(c) \/ BusyReply(c)

Server == StopAccepting \/ CloseActive \/ Return \/ GiveUp

Next ==
  \/ \E c \in Conns : Client(c) \/ Accept(c) \/ Goroutine(c) \/ HandlerEnds(c)
  \/ CancelContext \/ CloseListener \/ Server

Spec == Init /\ [][Next]_vars

\* The server's goroutines are scheduled, timers fire, and a handler that is
\* neither stuck nor waiting for its context ends.  Clients are not fair, and
\* nobody has to cancel the context; once it is done the listener is closed.
Fairness ==
  /\ \A c \in Conns : WF_vars(Goroutine(c)) /\ WF_vars(HandlerEnds(c))
  /\ WF_vars(Server)
  /\ WF_vars(ctxDone /\ CloseListener)

FairSpec == Spec /\ Fairness

-----------------------------------------------------------------------------

Handling == At(Handlers)

\* No more handlers run at one time than there are slots, whatever the order
\* in which goroutines take and give back slots.
HandlersBounded == Cardinality(Handling) =< Slots

\* An answer tells the client whether its request was handled: only a handled
\* request is answered with a result, and one that is refused was never
\* handled and can be sent again.
AnswerTellsHandled ==
  \A c \in Conns :
    /\ client[c] \in {"result", "internal error"} => c \in started
    /\ client[c] \in {"bad request", "server busy", "unreachable"} => c \notin started

\* ServeContext returns behind its goroutines, or after its timeout; no handler
\* is left behind with a live context or an open connection.
NothingLeftBehind ==
  server = "returned" =>
    /\ ~forced => \A c \in Conns : stage[c] \in {"none", "done", "busy", "busyDone"}
    /\ \A c \in Conns : stage[c] \in {"reading", "replying"} \cup Handlers =>
         ContextDone(c) /\ c \in severed

\* Closing the listener ends ServeContext, whatever the handlers do.
ServeReturns == closed ~> (server = "returned")

\* A slot is given back, long before any shutdown and whatever its client
\* does, unless the handler is stuck or waits for a context nobody ends.
SlotsComeBack ==
  \A c \in Conns :
    (c \in sem) ~> \/ c \notin sem
                   \/ stage[c] = "stuck"
                   \/ stage[c] = "observing" /\ ~closed /\ ~ctxDone

\* A handler that observes its context returns when the connection closes.
HandlerSeesHangUp ==
  \A c \in Conns :
    (stage[c] = "observing" /\ client[c] = "gone") ~> (stage[c] # "observing")

=============================================================================
