-------------------------- MODULE EngineCallProofs --------------------------
(***************************************************************************)
(* What CallStdio returns is right, for any number of descendants, any     *)
(* limit and both platforms: whole responses, the right cause, buffers     *)
(* that nobody writes any more, and a last signal that misses nobody.      *)
(***************************************************************************)
EXTENDS EngineCall, TLAPS

\* The buffer is what was written, unless it is cut.
BufferCounts ==
  IF stdout.truncated THEN written > Limit ELSE stdout.kept = written

\* cmd.Wait is past the process only when it is gone, and past the pipes only
\* when nobody holds one; both stay so.
WaitIsOver ==
  /\ waiter \in {"pipes", "sent", "taken"} => life[Engine] = "gone"
  /\ waiter \in {"sent", "taken"} => holds = {}

Timely == {"engine failed", "too long", "bad response", "response"}

\* Signals follow the deadline, and a command that ended in time got none.
SignalsFollow ==
  /\ caller \in {"terminating", "grace", "killing", "draining"} => deadline
  /\ result \in Timeouts => deadline
  /\ caller \in {"starting", "select", "terminating"} \/ result \in Timely =>
       \A p \in Procs : pending[p] = "none"

\* Every result but these was taken from cmd.Wait.
WaitedFor ==
  result \notin {"none", "start failed", "not signalled"} => waiter = "taken"

\* A group has only processes that were born.
Born == \A p \in group : life[p] # "unborn"

IInv ==
  /\ TypeOK /\ Born /\ BufferCounts /\ WaitIsOver /\ SignalsFollow /\ WaitedFor
  /\ ResponseIsWhole /\ KillReachesGroup

LEMMA InitIInv == Init => IInv
<1> SUFFICES ASSUME Init PROVE IInv
  OBVIOUS
<1>1. stdout \in [kept : 0..Limit, truncated : BOOLEAN] /\ written \in 0..MaxWritten
  BY EngineAssumption DEF Init
<1>2. TypeOK
  BY <1>1, EngineAssumption DEF Init, TypeOK, Results, Timeouts
<1>3. BufferCounts /\ WaitIsOver /\ Born
  BY DEF Init, BufferCounts, WaitIsOver, Born
<1>4. SignalsFollow /\ WaitedFor /\ ResponseIsWhole /\ KillReachesGroup
  BY DEF Init, SignalsFollow, Timeouts, Timely, WaitedFor, ResponseIsWhole, KillReachesGroup
<1> QED BY <1>2, <1>3, <1>4 DEF IInv

-----------------------------------------------------------------------------
(***************************************************************************)
(* Types.                                                                  *)
(***************************************************************************)

\* The types of the caller's side.
CallerTypes ==
  /\ caller \in {"starting", "select", "terminating", "grace", "killing",
                 "draining", "returned"}
  /\ result \in Results
  /\ result = "none" <=> caller # "returned"
  /\ deadline \in BOOLEAN
  /\ waiter \in {"none", "process", "pipes", "sent", "taken"}

\* The types of the processes and of what they share with the call.
ProcessTypes ==
  /\ platform \in Platforms
  /\ life \in [Procs -> {"unborn", "alive", "zombie", "gone"}]
  /\ group \subseteq Procs
  /\ pending \in [Procs -> {"none", "term", "kill"}]
  /\ holds \subseteq {p \in Procs : life[p] = "alive"}
  /\ exit \in {"none", "ok", "failed"}
  /\ stdout \in [kept : 0..Limit, truncated : BOOLEAN]
  /\ written \in 0..MaxWritten

LEMMA TypesSplit == TypeOK <=> CallerTypes /\ ProcessTypes
BY DEF TypeOK, CallerTypes, ProcessTypes

LEMMA CallerTyping ==
  ASSUME CallerTypes, Next
  PROVE  CallerTypes'
<1> USE DEF CallerTypes, Results, Timeouts
<1>1. CASE Start \/ StartFails \/ TakeDone \/ TakeDeadline
  BY <1>1 DEF Start, StartFails, TakeDone, TakeDeadline, Return, Outcome
<1>2. CASE TakeTerminated \/ GraceOver \/ TakeKilled
  BY <1>2 DEF TakeTerminated, GraceOver, TakeKilled, Return
<1>3. CASE SendTerm \/ SendKill
  BY <1>3 DEF SendTerm, SendKill, Escalate, Return
<1>4. CASE Waiter \/ Deadline
  BY <1>4 DEF Waiter, Reap, SendDone, Deadline
<1>5. CASE UNCHANGED <<caller, result, deadline, waiter>>
  BY <1>5
<1> QED
  BY <1>1, <1>2, <1>3, <1>4, <1>5
     DEF Next, Caller, Write, Spawn, LeaveGroup, ClosePipes, Exit

\* A signal leaves every process with a signal.
LEMMA SignalTypes ==
  ASSUME ProcessTypes, NEW signal \in {"term", "kill"}, Signal(signal)
  PROVE  pending' \in [Procs -> {"none", "term", "kill"}]
BY DEF ProcessTypes, Signal

LEMMA EscalateTypes ==
  ASSUME ProcessTypes, NEW from, NEW to, NEW signal \in {"term", "kill"},
         Escalate(from, signal, to)
  PROVE  ProcessTypes'
<1>1. pending' \in [Procs -> {"none", "term", "kill"}]
  BY SignalTypes DEF Escalate, ProcessTypes
<1> QED BY <1>1 DEF Escalate, ProcessTypes

\* What the buffer keeps is no more than its limit.
LEMMA KeepTypes ==
  ASSUME NEW b \in [kept : 0..Limit, truncated : BOOLEAN], NEW n \in 1..2
  PROVE  /\ Keep(b, n) \in [kept : 0..Limit, truncated : BOOLEAN]
         /\ Keep(b, n).truncated => b.truncated \/ n > Limit - b.kept
         /\ ~Keep(b, n).truncated => ~b.truncated /\ Keep(b, n).kept = b.kept + n
BY EngineAssumption DEF Keep

LEMMA ProcessTyping ==
  ASSUME ProcessTypes, Next
  PROVE  ProcessTypes'
<1>1. CASE Start
  BY <1>1, EngineAssumption DEF Start, ProcessTypes
<1>2. CASE UNCHANGED processVars
  BY <1>2 DEF processVars, ProcessTypes
<1>3. CASE SendTerm \/ SendKill
  BY <1>3, EscalateTypes DEF SendTerm, SendKill
<1>4. CASE Reap
  BY <1>4, EngineAssumption DEF Reap, ProcessTypes
<1>5. ASSUME NEW p \in Procs, NEW n \in 1..2, Write(p, n) PROVE ProcessTypes'
  <2>1. written' \in 0..MaxWritten
    BY <1>5, EngineAssumption DEF Write, ProcessTypes
  <2>2. stdout' \in [kept : 0..Limit, truncated : BOOLEAN]
    BY <1>5, KeepTypes DEF Write, ProcessTypes
  <2> QED BY <1>5, <2>1, <2>2 DEF Write, ProcessTypes
<1>6. ASSUME NEW p \in Procs, NEW q \in Procs, Spawn(p, q) PROVE ProcessTypes'
  <2>1. life' = [life EXCEPT ![p] = "alive"] /\ life[p] = "unborn"
    BY <1>6 DEF Spawn
  <2>2. holds' \subseteq holds \cup {p} /\ group' \subseteq group \cup {p}
    BY <1>6 DEF Spawn
  <2>3. holds' \subseteq {r \in Procs : life'[r] = "alive"}
    BY <2>1, <2>2 DEF ProcessTypes
  <2> QED BY <1>6, <2>1, <2>2, <2>3 DEF Spawn, ProcessTypes
<1>7. ASSUME NEW p \in Procs, LeaveGroup(p) PROVE ProcessTypes'
  <2>1. group' \subseteq Procs
    BY <1>7 DEF LeaveGroup, ProcessTypes
  <2> QED BY <1>7, <2>1 DEF LeaveGroup, ProcessTypes
<1>8. ASSUME NEW p \in Procs, ClosePipes(p) PROVE ProcessTypes'
  BY <1>8 DEF ClosePipes, ProcessTypes
<1>9. ASSUME NEW p \in Procs, Exit(p) PROVE ProcessTypes'
  BY <1>9 DEF Exit, Alive, ProcessTypes
<1> QED
  BY <1>1, <1>2, <1>3, <1>4, <1>5, <1>6, <1>7, <1>8, <1>9
     DEF Next, Caller, Waiter, StartFails, TakeDone, TakeDeadline, TakeTerminated,
         GraceOver, TakeKilled, SendDone, Deadline

-----------------------------------------------------------------------------
(***************************************************************************)
(* The conjuncts of the invariant, each with the actions that disturb it.  *)
(***************************************************************************)

LEMMA BornStep ==
  ASSUME TypeOK, Born, Next
  PROVE  Born'
<1> USE DEF Born
<1>1. CASE Start
  BY <1>1, EngineAssumption DEF Start, TypeOK
<1>2. CASE Reap
  BY <1>2, EngineAssumption DEF Reap, TypeOK
<1>3. ASSUME NEW p \in Procs, NEW q \in Procs, Spawn(p, q) PROVE Born'
  BY <1>3 DEF Spawn, TypeOK
<1>4. ASSUME NEW p \in Procs, LeaveGroup(p) \/ Exit(p) PROVE Born'
  BY <1>4 DEF LeaveGroup, Exit, TypeOK
<1>5. CASE UNCHANGED <<group, life>>
  BY <1>5
<1> QED
  BY <1>1, <1>2, <1>3, <1>4, <1>5
     DEF Next, Caller, Waiter, StartFails, TakeDone, TakeDeadline, SendTerm,
         TakeTerminated, GraceOver, SendKill, TakeKilled, Escalate, SendDone, Deadline,
         Write, ClosePipes, processVars

LEMMA BufferStep ==
  ASSUME TypeOK, BufferCounts, Next
  PROVE  BufferCounts'
<1>1. ASSUME NEW p \in Procs, NEW n \in 1..2, Write(p, n) PROVE BufferCounts'
  <2>1. /\ stdout \in [kept : 0..Limit, truncated : BOOLEAN]
        /\ written \in Nat /\ written' = written + n /\ stdout' = Keep(stdout, n)
    BY <1>1, EngineAssumption DEF Write, TypeOK
  <2>2. CASE stdout.truncated
    BY <2>1, <2>2, EngineAssumption DEF BufferCounts, Keep
  <2>3. CASE ~stdout.truncated /\ n > Limit - stdout.kept
    BY <2>1, <2>3, EngineAssumption DEF BufferCounts, Keep
  <2>4. CASE ~stdout.truncated /\ ~(n > Limit - stdout.kept)
    BY <2>1, <2>4, EngineAssumption DEF BufferCounts, Keep
  <2> QED BY <2>2, <2>3, <2>4
<1>2. CASE UNCHANGED <<stdout, written>>
  BY <1>2 DEF BufferCounts
<1> QED
  BY <1>1, <1>2
     DEF Next, Caller, Waiter, Start, StartFails, TakeDone, TakeDeadline, SendTerm,
         TakeTerminated, GraceOver, SendKill, TakeKilled, Escalate, Reap, SendDone,
         Deadline, Spawn, LeaveGroup, ClosePipes, Exit, processVars

LEMMA WaitStep ==
  ASSUME TypeOK, WaitIsOver, Next
  PROVE  WaitIsOver'
<1> USE EngineAssumption DEF WaitIsOver
<1>1. CASE Start
  BY <1>1 DEF Start
<1>2. CASE TakeDone \/ TakeTerminated \/ TakeKilled
  BY <1>2 DEF TakeDone, TakeTerminated, TakeKilled, processVars
<1>3. CASE Reap \/ SendDone
  BY <1>3 DEF Reap, SendDone, processVars, TypeOK
<1>4. ASSUME NEW p \in Procs, NEW q \in Procs, Spawn(p, q) PROVE WaitIsOver'
  BY <1>4 DEF Spawn, TypeOK
<1>5. ASSUME NEW p \in Procs, ClosePipes(p) \/ Exit(p) PROVE WaitIsOver'
  BY <1>5 DEF ClosePipes, Exit, Alive, TypeOK
<1>6. CASE UNCHANGED <<waiter, life, holds>>
  BY <1>6
<1> QED
  BY <1>1, <1>2, <1>3, <1>4, <1>5, <1>6
     DEF Next, Caller, Waiter, StartFails, TakeDeadline, SendTerm, GraceOver, SendKill,
         Escalate, Deadline, Write, LeaveGroup, processVars

LEMMA SignalsStep ==
  ASSUME TypeOK, SignalsFollow, Next
  PROVE  SignalsFollow'
<1> USE DEF SignalsFollow, Timely, Timeouts
<1>1. CASE Start \/ StartFails
  BY <1>1 DEF Start, StartFails, Return, processVars, TypeOK
<1>2. CASE TakeDone
  BY <1>2 DEF TakeDone, Return, Outcome, processVars
<1>3. CASE TakeDeadline \/ GraceOver
  BY <1>3 DEF TakeDeadline, GraceOver, processVars, TypeOK
<1>4. CASE TakeTerminated \/ TakeKilled
  BY <1>4 DEF TakeTerminated, TakeKilled, Return, processVars
<1>5. CASE SendTerm \/ SendKill
  BY <1>5 DEF SendTerm, SendKill, Escalate, Return, TypeOK
<1>6. CASE Deadline
  BY <1>6 DEF Deadline, processVars
<1>7. CASE UNCHANGED <<caller, result, deadline, pending>>
  BY <1>7
<1> QED
  BY <1>1, <1>2, <1>3, <1>4, <1>5, <1>6, <1>7
     DEF Next, Caller, Waiter, Reap, SendDone, Write, Spawn, LeaveGroup, ClosePipes,
         Exit, processVars

LEMMA WaitedStep ==
  ASSUME TypeOK, WaitedFor, Next
  PROVE  WaitedFor'
<1> USE DEF WaitedFor
<1>1. CASE Start \/ StartFails
  BY <1>1 DEF Start, StartFails, Return, TypeOK
<1>2. CASE TakeDone \/ TakeTerminated \/ TakeKilled
  BY <1>2 DEF TakeDone, TakeTerminated, TakeKilled, Return
<1>3. CASE SendTerm \/ SendKill
  BY <1>3 DEF SendTerm, SendKill, Escalate, Return
<1>4. CASE Reap \/ SendDone
  BY <1>4 DEF Reap, SendDone
<1>5. CASE UNCHANGED <<result, waiter>>
  BY <1>5
<1> QED
  BY <1>1, <1>2, <1>3, <1>4, <1>5
     DEF Next, Caller, Waiter, TakeDeadline, GraceOver, Deadline, Write, Spawn,
         LeaveGroup, ClosePipes, Exit

\* Once cmd.Wait is over nothing more is written, the engine has ended, and a
\* call that has returned sends no signal.
LEMMA WholeStep ==
  ASSUME IInv, Next
  PROVE  ResponseIsWhole'
<1> USE DEF ResponseIsWhole
<1>1. CASE TakeDone
  <2>1. /\ pending[Engine] = "none" /\ result' = Outcome
        /\ UNCHANGED <<exit, written, pending>>
    BY <1>1, EngineAssumption DEF TakeDone, Return, processVars, IInv, SignalsFollow
  <2>2. CASE stdout.truncated
    BY <2>1, <2>2 DEF Outcome, IInv, BufferCounts
  <2>3. CASE ~stdout.truncated
    BY <2>1, <2>3 DEF Outcome, IInv, BufferCounts
  <2> QED BY <2>2, <2>3
<1>2. CASE /\ ~TakeDone
           /\ result \in {"response", "too long", "bad response"}
  <2>1. waiter = "taken" /\ caller = "returned" /\ holds = {} /\ life[Engine] = "gone"
    BY <1>2 DEF IInv, WaitedFor, WaitIsOver, TypeOK
  <2>2. ~Caller /\ ~Waiter
    BY <2>1 DEF Caller, Waiter, Start, StartFails, TakeDone, TakeDeadline, SendTerm,
                TakeTerminated, GraceOver, SendKill, TakeKilled, Escalate, Reap, SendDone
  <2>3. \A p \in Procs, n \in 1..2 : ~Write(p, n)
    BY <2>1 DEF Write
  <2>4. UNCHANGED <<result, exit, written, pending>>
    BY <2>1, <2>2, <2>3, EngineAssumption
       DEF Next, Deadline, Spawn, LeaveGroup, ClosePipes, Exit, Alive, processVars
  <2> QED BY <2>4 DEF IInv
<1>3. CASE /\ ~TakeDone
           /\ result \notin {"response", "too long", "bad response"}
  <2>1. result' \notin {"response", "too long", "bad response"}
    BY <1>3 DEF Next, Caller, Waiter, Start, StartFails, TakeDeadline, SendTerm,
                TakeTerminated, GraceOver, SendKill, TakeKilled, Escalate, Return, Reap,
                SendDone, Deadline, Write, Spawn, LeaveGroup, ClosePipes, Exit
  <2> QED BY <2>1
<1> QED BY <1>1, <1>2, <1>3

\* A child of a process that was sent SIGKILL is not born; a child of one that
\* could not be signalled cannot be signalled either.
LEMMA KillStep ==
  ASSUME TypeOK, Born, KillReachesGroup, Next
  PROVE  KillReachesGroup'
<1> USE DEF KillReachesGroup, InReach, Alive
<1>1. CASE SendKill
  <2>1. CASE result' = "not signalled"
    BY <1>1, <2>1 DEF SendKill, Escalate, Return, TypeOK
  <2>2. CASE Signal("kill")
    <3>1. pending' = [p \in Procs |-> IF p \in InReach /\ Alive(p) THEN "kill" ELSE pending[p]]
      BY <2>2 DEF Signal
    <3>2. InReach' = InReach /\ life' = life
      BY <1>1 DEF SendKill, Escalate
    <3>3. InReach \subseteq Procs
      BY EngineAssumption DEF TypeOK
    <3> QED BY <3>1, <3>2, <3>3
  <2> QED BY <1>1, <2>1, <2>2 DEF SendKill, Escalate, Return
<1>2. CASE SendTerm \/ Start \/ StartFails \/ TakeDone \/ TakeDeadline \/ TakeTerminated
           \/ GraceOver
  BY <1>2 DEF SendTerm, Start, StartFails, TakeDone, TakeDeadline, TakeTerminated,
              GraceOver, Escalate, Return, Outcome, TypeOK
<1>3. CASE TakeKilled
  BY <1>3 DEF TakeKilled, Return, processVars
<1>4. CASE Reap
  BY <1>4, EngineAssumption DEF Reap, TypeOK
<1>5. ASSUME NEW p \in Procs, NEW q \in Procs, Spawn(p, q) PROVE KillReachesGroup'
  <2>1. CASE ~(caller = "draining" \/ result = "killed")
    BY <1>5, <2>1 DEF Spawn
  <2>2. CASE caller = "draining" \/ result = "killed"
    <3>1. p # Engine /\ life' = [life EXCEPT ![p] = "alive"]
          /\ UNCHANGED <<platform, caller, result, pending>>
      BY <1>5 DEF Spawn
    <3>2. p \notin InReach'
      <4>1. p \notin group
        BY <1>5 DEF Spawn, Born
      <4>2. CASE q \in group /\ platform = "unix"
        <5>1. q \in Denied
          BY <1>5, <2>2, <4>2 DEF Spawn, Runs
        <5> QED BY <1>5, <5>1 DEF Spawn
      <4>3. CASE q \notin group \/ platform # "unix"
        BY <1>5, <4>1, <4>3 DEF Spawn
      <4> QED BY <4>2, <4>3
    <3>3. \A r \in InReach' : r # p => r \in InReach
      BY <1>5 DEF Spawn
    <3> QED BY <2>2, <3>1, <3>2, <3>3 DEF TypeOK
  <2> QED BY <2>1, <2>2
<1>6. ASSUME NEW p \in Procs, LeaveGroup(p) PROVE KillReachesGroup'
  BY <1>6 DEF LeaveGroup
<1>7. ASSUME NEW p \in Procs, Exit(p) PROVE KillReachesGroup'
  BY <1>7 DEF Exit, TypeOK
<1>8. CASE UNCHANGED <<platform, caller, result, life, group, pending>>
  BY <1>8
<1> QED
  BY <1>1, <1>2, <1>3, <1>4, <1>5, <1>6, <1>7, <1>8
     DEF Next, Caller, Waiter, SendDone, Deadline, Write, ClosePipes, processVars

-----------------------------------------------------------------------------

LEMMA StepIInv == IInv /\ [Next]_vars => IInv'
<1>1. ASSUME IInv, Next PROVE IInv'
  <2>1. TypeOK'
    BY <1>1, TypesSplit, CallerTyping, ProcessTyping DEF IInv, TypeOK, CallerTypes, ProcessTypes
  <2> QED
    BY <1>1, <2>1, BornStep, BufferStep, WaitStep, SignalsStep, WaitedStep, WholeStep,
       KillStep DEF IInv
<1>2. ASSUME IInv, UNCHANGED vars PROVE IInv'
  <2> USE <1>2 DEF vars, IInv
  <2>1. TypeOK'
    BY DEF TypeOK
  <2>2. Born' /\ BufferCounts' /\ WaitIsOver' /\ SignalsFollow' /\ WaitedFor'
    BY DEF Born, BufferCounts, WaitIsOver, SignalsFollow, WaitedFor
  <2>3. ResponseIsWhole'
    BY DEF ResponseIsWhole
  <2>4. KillReachesGroup'
    BY DEF KillReachesGroup, InReach, Alive
  <2> QED BY <2>1, <2>2, <2>3, <2>4
<1> QED BY <1>1, <1>2

LEMMA InvariantIInv == Spec => []IInv
BY InitIInv, StepIInv, PTL DEF Spec

\* The variables of the call and of the processes it starts keep their types.
THEOREM Typing == Spec => []TypeOK
<1>1. IInv => TypeOK
  BY DEF IInv
<1> QED BY <1>1, InvariantIInv, PTL

\* CallStdio takes no stream that was cut for a response, and none that just
\* fits for one that was cut.
THEOREM WholeResponses == Spec => []ResponseIsWhole
<1>1. IInv => ResponseIsWhole
  BY DEF IInv
<1> QED BY <1>1, InvariantIInv, PTL

\* A timeout is reported only after the deadline, a failure of the engine's own
\* only when the call sent no signal.
THEOREM RightBlame == Spec => []BlameIsRight
<1>1. IInv => BlameIsRight
  BY DEF IInv, SignalsFollow, Timely, BlameIsRight
<1> QED BY <1>1, InvariantIInv, PTL

\* CallStdio reads the buffers when cmd.Wait is over and nobody holds a pipe.
THEOREM QuietBuffers == Spec => []BuffersQuiet
<1>1. IInv => BuffersQuiet
  BY DEF IInv, WaitedFor, WaitIsOver, BuffersQuiet
<1> QED BY <1>1, InvariantIInv, PTL

\* SIGKILL misses no process of the group that can be signalled, those born
\* after SIGTERM included.
THEOREM KillMissesNobody == Spec => []KillReachesGroup
<1>1. IInv => KillReachesGroup
  BY DEF IInv
<1> QED BY <1>1, InvariantIInv, PTL

=============================================================================
