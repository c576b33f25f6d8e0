----------------------------- MODULE EngineCall -----------------------------
(***************************************************************************)
(* CallStdio and runBoundedCommand (pkg/protocol): one engine binary is    *)
(* started, its output is copied into a bounded buffer, and the call waits *)
(* for the process and for the end of its pipes, or for a deadline after   *)
(* which it signals: on Unix the process group the engine was started in,  *)
(* elsewhere the engine alone.                                             *)
(*                                                                         *)
(* os/exec and the kernel are modelled as far as the code relies on them:  *)
(* cmd.Wait returns once the process is reaped and nobody holds a pipe of  *)
(* the call, and kill(-pgid) reaches the members the caller may signal.    *)
(* stderr is copied like stdout and is left out, as is what the request    *)
(* and the response say.                                                   *)
(***************************************************************************)
EXTENDS Integers, FiniteSets

CONSTANTS
  Platforms,    \* "unix" (process_unix.go), "elsewhere" (process_other.go)
  Procs,        \* the engine and the descendants it may have
  Engine,       \* the process the call starts
  Escapees,     \* processes that may leave the engine's process group
  Ignoring,     \* processes that do not end on SIGTERM
  Denied,       \* processes the caller has no permission to signal
  Limit,        \* maxEngineStdoutBytes
  Response,     \* the length of the one stdout that decodes
  MaxWritten    \* bound: how much is ever written to stdout

ASSUME EngineAssumption ==
  /\ Platforms \subseteq {"unix", "elsewhere"}
  /\ Engine \in Procs
  /\ Escapees \subseteq Procs
  /\ Ignoring \subseteq Procs /\ Denied \subseteq Procs
  /\ Limit \in Nat /\ Response \in Nat /\ MaxWritten \in Nat

VARIABLES
  platform,   \* what the program was built for
  caller,     \* where runBoundedCommand is
  result,     \* what CallStdio has returned
  deadline,   \* ctx is done
  waiter,     \* the goroutine in cmd.Wait and its channel
  life,       \* per process
  group,      \* the processes of the engine's group
  pending,    \* per process: the strongest signal it was sent
  holds,      \* the processes with an open end of the call's pipes
  exit,       \* how the engine ended
  stdout,     \* the boundedBuffer
  written     \* history: how much was written to stdout

processVars == <<platform, life, group, pending, holds, exit, stdout, written>>
vars == <<platform, caller, result, deadline, waiter, life, group, pending, holds, exit,
          stdout, written>>

Timeouts == {"terminated", "killed", "not signalled"}
Results  == {"none", "start failed", "engine failed", "too long", "bad response",
             "response"} \cup Timeouts

TypeOK ==
  /\ platform \in Platforms
  /\ caller \in {"starting", "select", "terminating", "grace", "killing",
                 "draining", "returned"}
  /\ result \in Results
  /\ result = "none" <=> caller # "returned"
  /\ deadline \in BOOLEAN
  /\ waiter \in {"none", "process", "pipes", "sent", "taken"}
  /\ life \in [Procs -> {"unborn", "alive", "zombie", "gone"}]
  /\ group \subseteq Procs
  /\ pending \in [Procs -> {"none", "term", "kill"}]
  /\ holds \subseteq {p \in Procs : life[p] = "alive"}
  /\ exit \in {"none", "ok", "failed"}
  /\ stdout \in [kept : 0..Limit, truncated : BOOLEAN]
  /\ written \in 0..MaxWritten

Init ==
  /\ platform \in Platforms
  /\ caller = "starting" /\ result = "none" /\ deadline = FALSE /\ waiter = "none"
  /\ life = [p \in Procs |-> "unborn"]
  /\ group = {} /\ holds = {}
  /\ pending = [p \in Procs |-> "none"]
  /\ exit = "none"
  /\ stdout = [kept |-> 0, truncated |-> FALSE]
  /\ written = 0

-----------------------------------------------------------------------------
(***************************************************************************)
(* The bounded buffer.                                                     *)
(***************************************************************************)

\* Slip: everything is retained.
KeepAll(b, n) == [b EXCEPT !.kept = @ + n]

\* boundedBuffer.Write of n bytes: what does not fit is dropped.
Keep(b, n) ==
  IF b.truncated THEN b
  ELSE IF n > Limit - b.kept
         THEN [kept |-> Limit, truncated |-> TRUE]
         ELSE [kept |-> b.kept + n, truncated |-> FALSE]

-----------------------------------------------------------------------------
(***************************************************************************)
(* The processes.                                                          *)
(***************************************************************************)

Alive(p) == life[p] = "alive"

\* A process with a kill pending runs no more code.
Runs(p) == Alive(p) /\ pending[p] # "kill"

Members == {p \in group : life[p] \in {"alive", "zombie"}}

\* Whoever holds the pipe can write to it, the engine or a descendant.
Write(p, n) ==
  /\ p \in holds /\ Runs(p) /\ written + n =< MaxWritten
  /\ written' = written + n
  /\ stdout' = Keep(stdout, n)
  /\ UNCHANGED <<platform, caller, result, deadline, waiter, life, group, pending, holds, exit>>

\* A child is born in its parent's group and under its user; it keeps the
\* parent's pipes or not.
Spawn(p, q) ==
  /\ life[p] = "unborn" /\ p # Engine /\ Runs(q) /\ (q \in Denied => p \in Denied)
  /\ life' = [life EXCEPT ![p] = "alive"]
  /\ group' = IF q \in group THEN group \cup {p} ELSE group
  /\ \E keeps \in (IF q \in holds THEN {{p}, {}} ELSE {{}}) : holds' = holds \cup keeps
  /\ UNCHANGED <<platform, caller, result, deadline, waiter, pending, exit, stdout, written>>

\* It moves to another group or session, the engine too: configureProcessGroup
\* makes it the leader of a group, and only the leader of a session has to stay.
LeaveGroup(p) ==
  /\ p \in Escapees /\ p \in group /\ Runs(p)
  /\ group' = group \ {p}
  /\ UNCHANGED <<platform, caller, result, deadline, waiter, life, pending, holds, exit, stdout, written>>

ClosePipes(p) ==
  /\ p \in holds /\ Runs(p)
  /\ holds' = holds \ {p}
  /\ UNCHANGED <<platform, caller, result, deadline, waiter, life, group, pending, exit, stdout, written>>

\* The engine stays a zombie until cmd.Wait reaps it; a descendant is reaped
\* by somebody else.
Exit(p) ==
  /\ Alive(p)
  /\ life' = [life EXCEPT ![p] = IF p = Engine THEN "zombie" ELSE "gone"]
  /\ holds' = holds \ {p}
  /\ exit' \in (IF p # Engine THEN {exit}
                ELSE IF pending[p] = "kill" THEN {"failed"} ELSE {"ok", "failed"})
  /\ UNCHANGED <<platform, caller, result, deadline, waiter, group, pending, stdout, written>>

\* Whom the call's signals reach.  That the number of a group that is gone can
\* name another group is left out.
InReach == (IF platform = "unix" THEN group ELSE {Engine}) \ Denied

\* Slip: on every platform the signal goes to the process, not to its group.
SignalEngineOnly(signal) ==
  pending' = IF Alive(Engine) THEN [pending EXCEPT ![Engine] = signal] ELSE pending

\* signalProcessGroup, or Process.Signal and Kill.  Elsewhere the interrupt may
\* not be supported, and errors are not looked at.
Signal(signal) ==
  LET sent == [p \in Procs |-> IF p \in InReach /\ Alive(p) THEN signal ELSE pending[p]]
  IN  \/ pending' = sent
      \/ platform = "elsewhere" /\ signal = "term" /\ UNCHANGED pending

\* kill(-pgid) fails with EPERM (ESRCH, for a group that is gone, is no failure).
NotPermitted == platform = "unix" /\ Members # {} /\ Members \subseteq Denied

-----------------------------------------------------------------------------
(***************************************************************************)
(* cmd.Wait in its goroutine.                                              *)
(***************************************************************************)

Reap ==
  /\ waiter = "process" /\ life[Engine] = "zombie"
  /\ waiter' = "pipes"
  /\ life' = [life EXCEPT ![Engine] = "gone"]
  /\ UNCHANGED <<platform, caller, result, deadline, group, pending, holds, exit, stdout, written>>

\* The copying goroutines have seen the end of every pipe; the error goes to
\* the buffered channel done.
SendDone ==
  /\ waiter = "pipes" /\ holds = {}
  /\ waiter' = "sent"
  /\ UNCHANGED <<caller, result, deadline, processVars>>

-----------------------------------------------------------------------------
(***************************************************************************)
(* The caller.                                                             *)
(***************************************************************************)

Return(what) == caller' = "returned" /\ result' = what

\* Slip: the buffer's flag is not looked at.
OutcomeUnchecked ==
  IF exit # "ok" THEN "engine failed"
  ELSE IF stdout.kept = Response THEN "response"
  ELSE "bad response"

\* What CallStdio makes of a command that ended in time.
Outcome ==
  IF exit # "ok" THEN "engine failed"
  ELSE IF stdout.truncated THEN "too long"
  ELSE IF stdout.kept = Response THEN "response"
  ELSE "bad response"

Start ==
  /\ caller = "starting"
  /\ caller' = "select"
  /\ waiter' = "process"
  /\ life' = [life EXCEPT ![Engine] = "alive"]
  /\ group' = {Engine} /\ holds' = {Engine}
  /\ UNCHANGED <<platform, result, deadline, pending, exit, stdout, written>>

StartFails ==
  /\ caller = "starting"
  /\ Return("start failed")
  /\ UNCHANGED <<deadline, waiter, processVars>>

Deadline ==
  /\ ~deadline
  /\ deadline' = TRUE
  /\ UNCHANGED <<caller, result, waiter, processVars>>

\* The select takes either channel when both are ready.
TakeDone ==
  /\ caller = "select" /\ waiter = "sent"
  /\ waiter' = "taken"
  /\ Return(Outcome)
  /\ UNCHANGED <<deadline, processVars>>

TakeDeadline ==
  /\ caller = "select" /\ deadline
  /\ caller' = "terminating"
  /\ UNCHANGED <<result, deadline, waiter, processVars>>

\* A signal of the escalation; a failure other than ESRCH ends the call while
\* cmd.Wait still runs.
Escalate(from, signal, to) ==
  /\ caller = from
  /\ IF NotPermitted
       THEN Return("not signalled") /\ UNCHANGED pending
       ELSE caller' = to /\ Signal(signal) /\ UNCHANGED result
  /\ UNCHANGED <<platform, deadline, waiter, life, group, holds, exit, stdout, written>>

SendTerm == Escalate("terminating", "term", "grace")

\* Slip: an engine that ended on SIGTERM is judged like one that ended by
\* itself.
TakeTerminatedAsOwn ==
  /\ caller = "grace" /\ waiter = "sent"
  /\ waiter' = "taken"
  /\ Return(Outcome)
  /\ UNCHANGED <<deadline, processVars>>

TakeTerminated ==
  /\ caller = "grace" /\ waiter = "sent"
  /\ waiter' = "taken"
  /\ Return("terminated")
  /\ UNCHANGED <<deadline, processVars>>

\* The timer of childTerminationGrace fires.
GraceOver ==
  /\ caller = "grace"
  /\ caller' = "killing"
  /\ UNCHANGED <<result, deadline, waiter, processVars>>

SendKill == Escalate("killing", "kill", "draining")

\* Slip: after SIGKILL the call does not wait for the channel.
TakeKilledAtOnce ==
  /\ caller = "draining"
  /\ Return("killed")
  /\ UNCHANGED <<deadline, waiter, processVars>>

TakeKilled ==
  /\ caller = "draining" /\ waiter = "sent"
  /\ waiter' = "taken"
  /\ Return("killed")
  /\ UNCHANGED <<deadline, processVars>>

-----------------------------------------------------------------------------

Caller ==
  \/ Start \/ StartFails \/ TakeDone \/ TakeDeadline
  \/ SendTerm \/ TakeTerminated \/ GraceOver \/ SendKill \/ TakeKilled

Waiter == Reap \/ SendDone

Next ==
  \/ Caller \/ Waiter \/ Deadline
  \/ \E p \in Procs, n \in 1..2 : Write(p, n)
  \/ \E p, q \in Procs : Spawn(p, q)
  \/ \E p \in Procs : LeaveGroup(p) \/ ClosePipes(p) \/ Exit(p)

Spec == Init /\ [][Next]_vars

\* A process that was sent a signal it cannot survive ends.
Dies(p) == (pending[p] = "kill" \/ (pending[p] = "term" /\ p \notin Ignoring)) /\ Exit(p)

\* Goroutines are scheduled, timers fire, and signals work.  Nothing makes a
\* process end by itself, write, or close its pipes.
FairSpec ==
  /\ Spec
  /\ WF_vars(Caller) /\ WF_vars(Waiter) /\ WF_vars(Deadline)
  /\ \A p \in Procs : WF_vars(Dies(p))

-----------------------------------------------------------------------------

\* A response comes from an engine that ended well by itself, and exactly that
\* response was written to stdout; no stream that was cut, by the limit or by a signal,
\* passes for one, and one that just fits is not taken for cut.
ResponseIsWhole ==
  /\ result = "response" =>
       exit = "ok" /\ written = Response /\ pending[Engine] = "none"
  /\ result = "too long" => written > Limit
  /\ result = "bad response" => written # Response

\* The call says which of the two ended the engine: a timeout is reported only
\* after the deadline, and a failure of the engine's own was not caused by a
\* signal of this call.
BlameIsRight ==
  /\ result \in Timeouts => deadline
  /\ result = "engine failed" => \A p \in Procs : pending[p] = "none"

\* Nobody writes the buffers any more when CallStdio reads them, unless the
\* caller was not permitted to signal the group.
BuffersQuiet ==
  result \notin {"none", "start failed", "not signalled"} => waiter = "taken" /\ holds = {}

\* The last signal misses nobody it can reach, on Unix the whole group, children
\* born meanwhile included.
KillReachesGroup ==
  caller = "draining" \/ result = "killed" =>
    \A p \in InReach : Alive(p) => pending[p] = "kill"

\* The call returns, unless a process that the signals do not reach holds one
\* of its pipes for ever, or is the engine itself, which never ends.
CallReturns ==
  \/ <>(caller = "returned")
  \/ <>[](\E p \in Procs \ InReach : p \in holds \/ (p = Engine /\ Alive(p)))

\* The call is bounded by its timeout (protocol.go:1169), whatever the engine
\* and its descendants do.
CallBounded == <>(caller = "returned")

=============================================================================
