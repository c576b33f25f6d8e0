----------------------------- MODULE StateStore -----------------------------
(***************************************************************************)
(* Engine requests that change state.json: each takes the cross-process    *)
(* lock (LockContext), loads the file, changes the state in memory, saves  *)
(* it with writeJSON and releases the lock.  Any of them can be killed at  *)
(* any point, and requests that only read (LoadState without the lock) run *)
(* beside them.                                                            *)
(*                                                                         *)
(* The state is the set of the updates in it, a request's update is the    *)
(* request itself.  The order of the calls is the engines'; Lock,          *)
(* LoadState and SaveState are what the package gives them.                *)
(***************************************************************************)
EXTENDS JSONFile

CONSTANT Free    \* no process has the flock on state.lock

ASSUME StoreAssumption ==
  /\ Free \notin Writers
  /\ Values = SUBSET Writers
  /\ Zero = {}

VARIABLES
  lock,      \* the request whose descriptor holds the flock
  pc,        \* per request: where it is
  expired    \* the requests whose context is done

vars == <<name, text, whole, temp, step, job, reading, got, torn, lock, pc, expired>>

Holding == {"locked", "saving"}
Trying  == {"polling", "waiting"}
Ended   == {"done", "refused", "dead"}

TypeOK ==
  /\ FileTypeOK
  /\ lock \in Writers \cup {Free}
  /\ pc \in [Writers -> {"start"} \cup Trying \cup Holding \cup Ended]
  /\ expired \in SUBSET Writers
  /\ \A p \in Writers : pc[p] \in Holding <=> lock = p

Init ==
  /\ EmptyDirectory
  /\ job = [p \in Writers |-> Zero]
  /\ lock = Free
  /\ pc = [p \in Writers |-> "start"]
  /\ expired = {}

Goto(p, where) == pc' = [pc EXCEPT ![p] = where]

-----------------------------------------------------------------------------

\* MkdirAll, Chmod, OpenFile and Chmod of the lock file.
OpenLock(p) ==
  /\ pc[p] = "start"
  /\ Goto(p, "polling")
  /\ UNCHANGED <<fileVars, lock, expired>>

\* Slip: LOCK_SH in place of LOCK_EX.
TryLockShared(p) ==
  /\ pc[p] = "polling"
  /\ lock' = p /\ Goto(p, "locked")
  /\ UNCHANGED <<fileVars, expired>>

\* Slip: the deadline is looked at only when the poll interval is over.
TryLockForever(p) ==
  /\ pc[p] = "polling"
  /\ IF lock = Free THEN lock' = p /\ Goto(p, "locked")
                    ELSE Goto(p, "waiting") /\ UNCHANGED lock
  /\ UNCHANGED <<fileVars, expired>>

\* One flock(LOCK_EX|LOCK_NB).  When it would block, the select returns at once
\* if the context is done, because the timer has only just been started.
TryLock(p) ==
  /\ pc[p] = "polling"
  /\ IF lock = Free
       THEN lock' = p /\ Goto(p, "locked")
       ELSE /\ Goto(p, IF p \in expired THEN "refused" ELSE "waiting")
            /\ UNCHANGED lock
  /\ UNCHANGED <<fileVars, expired>>

\* The select ends: the poll interval is over or the context is done.
StopWaiting(p) ==
  /\ pc[p] = "waiting"
  /\ \/ Goto(p, "polling")
     \/ p \in expired /\ Goto(p, "refused")
  /\ UNCHANGED <<fileVars, lock, expired>>

\* Any other error of the lock file.
FailLock(p) ==
  /\ pc[p] \in {"start", "polling"}
  /\ Goto(p, "refused")
  /\ UNCHANGED <<fileVars, lock, expired>>

\* The context's deadline passes or its caller cancels it.
Expire(p) ==
  /\ pc[p] \in {"start"} \cup Trying /\ p \notin expired
  /\ expired' = expired \cup {p}
  /\ UNCHANGED <<fileVars, lock, pc>>

\* Slip: a read error is taken for a missing file.
LoadStateOrZero(p) ==
  /\ pc[p] = "locked"
  /\ \E base \in {text[name], Zero} : job' = [job EXCEPT ![p] = base \cup {p}]
  /\ Goto(p, "saving")
  /\ UNCHANGED <<name, text, whole, temp, step, reading, got, torn, lock, expired>>

\* LoadState and the change in memory.  The read is one step: the name only
\* moves in a save, and every save is made under the lock.
LoadState(p) ==
  /\ pc[p] = "locked"
  /\ whole[name]
  /\ job' = [job EXCEPT ![p] = text[name] \cup {p}]
  /\ Goto(p, "saving")
  /\ UNCHANGED <<name, text, whole, temp, step, reading, got, torn, lock, expired>>

\* LoadState fails: the request gives up without a save.
FailLoad(p) ==
  /\ pc[p] = "locked"
  /\ lock' = Free
  /\ Goto(p, "done")
  /\ step' = [step EXCEPT ![p] = "failed"]
  /\ UNCHANGED <<name, text, whole, temp, job, reading, got, torn, expired>>

SaveState(p) ==
  /\ pc[p] = "saving"
  /\ Save(p)
  /\ UNCHANGED <<lock, pc, expired>>

\* The function Lock returned: LOCK_UN, then the file is closed.
Release(p) ==
  /\ pc[p] = "saving" /\ step[p] \in {"saved"} \cup Failed
  /\ lock' = Free
  /\ Goto(p, "done")
  /\ UNCHANGED <<fileVars, expired>>

\* The process is killed: the kernel closes its descriptors, which frees the
\* flock; a temporary file stays.
Kill(p) ==
  /\ pc[p] \notin Ended
  /\ Die(p)
  /\ lock' = IF lock = p THEN Free ELSE lock
  /\ Goto(p, "dead")
  /\ UNCHANGED expired

ReadState(r) == Read(r) /\ UNCHANGED <<lock, pc, expired>>

Request(p) ==
  \/ OpenLock(p) \/ TryLock(p) \/ StopWaiting(p) \/ FailLock(p) \/ Expire(p)
  \/ LoadState(p) \/ FailLoad(p) \/ SaveState(p) \/ Release(p) \/ Kill(p)

Next ==
  \/ \E p \in Writers : Request(p)
  \/ \E r \in Readers : ReadState(r)

Spec == Init /\ [][Next]_vars

\* A caller that waits is scheduled, and its deadline comes (Lock gives every
\* caller 30 seconds).  Nothing is assumed of the request that holds the lock.
Fairness ==
  \A p \in Writers : /\ WF_vars(TryLock(p))
                     /\ WF_vars(StopWaiting(p))
                     /\ WF_vars(Expire(p))

FairSpec == Spec /\ Fairness

-----------------------------------------------------------------------------

\* A request that is told its save succeeded stays in state.json whatever the
\* others do, and one that got an error is not in it: each request is one
\* atomic update (LockContext, LoadState, writeJSON and the deferred removal).
Fate(p) ==
  CASE pc[p] = "dead"                        -> "killed"
    [] pc[p] = "refused"                     -> "error"
    [] pc[p] = "done" /\ step[p] = "saved"   -> "ok"
    [] pc[p] = "done" /\ step[p] # "saved"   -> "error"
    [] OTHER                                 -> "open"

Abstract == INSTANCE AtomicState
              WITH Requests <- Writers, value <- text[name],
                   fate <- [p \in Writers |-> Fate(p)]

OneAtomicUpdate == Abstract!Spec

\* No update is ever lost: a request past its rename is in the file for good.
NoLostUpdate == \A p \in Writers : step[p] = "saved" => p \in text[name]

\* A process that reads without the lock never sees the state go back.
ReadsGoForward ==
  [][\A r \in Readers : got[r] \subseteq got'[r]]_vars

\* LockContext comes back, with the lock or with an error, even when the
\* holder never releases it.
LockReturns == \A p \in Writers : (pc[p] \in Trying) ~> (pc[p] \notin Trying)

=============================================================================
