-------------------------- MODULE StateStoreProofs --------------------------
(***************************************************************************)
(* writeJSON's file is never seen half-written, for any number of saves    *)
(* and readers; and every request on state.json is one atomic update, for  *)
(* any number of requests, readers and kills: StateStore implements        *)
(* AtomicState, where the commit is the rename.                            *)
(***************************************************************************)
EXTENDS StateStore, TLAPS

(***************************************************************************)
(* The file.  The steps of one save keep FileInv on their own, so that the *)
(* lemmas hold for the saves under the lock as well.                       *)
(***************************************************************************)

FileInv ==
  /\ FileTypeOK
  /\ whole[name]
  /\ \A w \in Writers :
       /\ name = w => step[w] \in {"saved", "dead"}
       /\ step[w] \in InSave => text[w] = job[w]
       /\ step[w] \in {"written", "closed"} => whole[w]
       /\ temp[w] \in {w, NoFile}
       /\ temp[w] # NoFile => step[w] \in InSave \cup {"littered", "dead"}
  /\ \A r \in Readers : reading[r] # NoFile =>
       /\ whole[reading[r]]
       /\ \A w \in Writers : reading[r] = w => step[w] \in {"saved", "dead"}
  /\ torn = {}

USE DEF InSave, Failed, Inodes, TempName

LEMMA CreateKeeps ==
  ASSUME FileInv, NEW w \in Writers, CreateTemp(w)
  PROVE  FileInv'
<1>1. /\ step' = [step EXCEPT ![w] = "created"]
      /\ text' = [text EXCEPT ![w] = job[w]]
      /\ temp' = [temp EXCEPT ![w] = w]
      /\ UNCHANGED <<name, whole, job, reading, got, torn>> /\ step[w] = "idle"
  BY DEF CreateTemp
<1>2. FileTypeOK'
  BY <1>1 DEF FileInv, FileTypeOK
<1> QED BY <1>1, <1>2, FileAssumption DEF FileInv, FileTypeOK

LEMMA WriteKeeps ==
  ASSUME FileInv, NEW w \in Writers, WriteTemp(w)
  PROVE  FileInv'
<1>1. /\ step' = [step EXCEPT ![w] = "written"]
      /\ whole' = [whole EXCEPT ![w] = TRUE]
      /\ UNCHANGED <<name, text, temp, job, reading, got, torn>> /\ step[w] = "created"
  BY DEF WriteTemp
<1>2. FileTypeOK'
  BY <1>1 DEF FileInv, FileTypeOK
<1> QED BY <1>1, <1>2, FileAssumption DEF FileInv, FileTypeOK

LEMMA CloseKeeps ==
  ASSUME FileInv, NEW w \in Writers, CloseTemp(w)
  PROVE  FileInv'
<1>1. FileTypeOK'
  BY DEF FileInv, FileTypeOK, CloseTemp
<1> QED BY <1>1, FileAssumption DEF FileInv, FileTypeOK, CloseTemp

LEMMA RenameKeeps ==
  ASSUME FileInv, NEW w \in Writers, Rename(w)
  PROVE  FileInv' /\ name' = w /\ text'[name'] = job[w]
<1>1. /\ step' = [step EXCEPT ![w] = "saved"]
      /\ name' = w
      /\ temp' = [temp EXCEPT ![w] = NoFile]
      /\ UNCHANGED <<text, whole, job, reading, got, torn>> /\ step[w] = "closed"
  BY DEF Rename, FileInv
<1>2. FileTypeOK'
  BY <1>1 DEF FileInv, FileTypeOK
<1> QED BY <1>1, <1>2, FileAssumption DEF FileInv, FileTypeOK

LEMMA FailKeeps ==
  ASSUME FileInv, NEW w \in Writers, FailSave(w)
  PROVE  FileInv'
<1>1. PICK s \in Failed :
        /\ step' = [step EXCEPT ![w] = s]
        /\ temp' \in {temp, [temp EXCEPT ![w] = NoFile]}
        /\ s = "failed" => temp' = [temp EXCEPT ![w] = NoFile] \/ step[w] = "idle"
        /\ UNCHANGED <<name, text, whole, job, reading, got, torn>>
        /\ step[w] \in InSave \cup {"idle"}
  BY DEF FailSave
<1>2. FileTypeOK'
  BY <1>1 DEF FileInv, FileTypeOK
<1>3. temp'[w] = NoFile \/ s = "littered"
  BY <1>1 DEF FileInv, FileTypeOK
<1> QED BY <1>1, <1>2, <1>3, FileAssumption DEF FileInv, FileTypeOK

LEMMA SaveKeeps ==
  ASSUME FileInv, NEW w \in Writers, Save(w)
  PROVE  FileInv'
BY CreateKeeps, WriteKeeps, CloseKeeps, RenameKeeps, FailKeeps DEF Save

LEMMA DieKeeps ==
  ASSUME FileInv, NEW w \in Writers, Die(w)
  PROVE  FileInv'
<1>1. FileTypeOK'
  BY DEF FileInv, FileTypeOK, Die
<1> QED BY <1>1 DEF FileInv, FileTypeOK, Die

LEMMA ReadKeeps ==
  ASSUME FileInv, NEW r \in Readers, Read(r)
  PROVE  FileInv'
<1>1. CASE OpenFile(r)
  <2>1. FileTypeOK'
    BY <1>1 DEF FileInv, FileTypeOK, OpenFile
  <2> QED BY <1>1, <2>1, FileAssumption DEF FileInv, FileTypeOK, OpenFile
<1>2. CASE ReadFile(r)
  <2>1. /\ whole[reading[r]] /\ reading[r] \in Inodes
        /\ got' = [got EXCEPT ![r] = text[reading[r]]]
        /\ reading' = [reading EXCEPT ![r] = NoFile]
        /\ UNCHANGED <<name, text, whole, temp, step, job, torn>>
    BY <1>2 DEF ReadFile, FileInv, FileTypeOK
  <2>2. FileTypeOK'
    BY <2>1 DEF FileInv, FileTypeOK
  <2> QED BY <2>1, <2>2 DEF FileInv, FileTypeOK
<1> QED BY <1>1, <1>2 DEF Read

LEMMA EmptyInv == EmptyDirectory /\ job \in [Writers -> Values] => FileInv
BY FileAssumption DEF EmptyDirectory, FileInv, FileTypeOK

LEMMA StutterKeeps == FileInv /\ UNCHANGED fileVars => FileInv'
BY DEF fileVars, FileInv, FileTypeOK

-----------------------------------------------------------------------------

LEMMA InvariantFileInv == FileSpec => []FileInv
<1>1. FileInit => FileInv
  BY EmptyInv DEF FileInit
<1>2. FileInv /\ [FileNext]_fileVars => FileInv'
  BY SaveKeeps, DieKeeps, ReadKeeps, StutterKeeps DEF FileNext
<1> QED BY <1>1, <1>2, PTL DEF FileSpec

\* No read of config.json or state.json fails on a half-written file.
THEOREM NoTornReads == FileSpec => []NeverTorn
<1>1. FileInv => NeverTorn
  BY DEF FileInv, NeverTorn
<1> QED BY <1>1, InvariantFileInv, PTL

\* A failed save is not in the file, and its temporary file is gone unless the
\* removal failed too.
THEOREM FailuresClean == FileSpec => []FailedLeavesNothing
<1>1. FileInv => FailedLeavesNothing
  BY DEF FileInv, FailedLeavesNothing
<1> QED BY <1>1, InvariantFileInv, PTL

\* Overlapping saves each put their own value in place.
THEOREM SavesNeverMixed == FileSpec => EachSaveItsOwn
<1> DEFINE Own == name' # name =>
                    \E w \in Writers : /\ step[w] # "saved" /\ step'[w] = "saved"
                                       /\ text'[name'] = job[w]
<1>1. ASSUME FileInv, [FileNext]_fileVars, name' # name
      PROVE  \E w \in Writers : /\ step[w] # "saved" /\ step'[w] = "saved"
                                /\ text'[name'] = job[w]
  <2>1. PICK w \in Writers : Rename(w)
    BY <1>1 DEF FileNext, fileVars, Save, CreateTemp, WriteTemp, CloseTemp,
                FailSave, Die, Read, OpenFile, ReadFile
  <2>2. step[w] # "saved" /\ step'[w] = "saved"
    BY <1>1, <2>1 DEF Rename, FileInv, FileTypeOK
  <2> QED BY <1>1, <2>1, <2>2, RenameKeeps
<1>2. FileInv /\ [FileNext]_fileVars => [Own]_fileVars
  BY <1>1
<1> QED BY <1>2, InvariantFileInv, PTL DEF FileSpec, EachSaveItsOwn

-----------------------------------------------------------------------------
(***************************************************************************)
(* The store.  Only the holder of the lock saves, and until its rename the *)
(* file is still what it loaded.                                           *)
(***************************************************************************)

\* How far a request's save has come, by where the request is.
SaveFollows ==
  \A p \in Writers :
    /\ pc[p] \in {"start", "locked", "refused"} \cup Trying => step[p] = "idle"
    /\ pc[p] = "done" => step[p] \in {"saved"} \cup Failed
    /\ pc[p] = "saving" => step[p] # "dead"
    /\ pc[p] = "dead" => step[p] = "dead"

\* The holder of the lock works on the file's present value.
FreshCopy ==
  \A p \in Writers :
    pc[p] = "saving" /\ step[p] \in InSave \cup {"idle"} =>
      job[p] = text[name] \cup {p}

\* What is in the file is there because its save was made.
FileTellsSaved ==
  \A p \in Writers :
    /\ p \in text[name] => step[p] \in {"saved", "dead"}
    /\ step[p] = "saved" => p \in text[name]

\* Readers are never ahead of the file.
ReadersBehind ==
  \A r \in Readers :
    /\ got[r] \subseteq text[name]
    /\ reading[r] # NoFile =>
         /\ got[r] \subseteq text[reading[r]]
         /\ text[reading[r]] \subseteq text[name]

StoreInv == TypeOK /\ FileInv /\ SaveFollows /\ FreshCopy /\ FileTellsSaved /\ ReadersBehind

USE DEF Holding, Trying, Ended

LEMMA InitStore == Init => StoreInv
<1> SUFFICES ASSUME Init PROVE StoreInv
  OBVIOUS
<1>1. job \in [Writers -> Values]
  BY FileAssumption DEF Init
<1>2. FileInv
  BY <1>1, EmptyInv DEF Init
<1>3. TypeOK
  BY <1>2, StoreAssumption DEF Init, TypeOK, FileInv
<1> QED BY <1>2, <1>3, StoreAssumption
           DEF Init, EmptyDirectory, StoreInv, SaveFollows, FreshCopy,
               FileTellsSaved, ReadersBehind

-----------------------------------------------------------------------------
(***************************************************************************)
(* The steps that leave the file and its copies alone.                     *)
(***************************************************************************)

LEMMA LockSteps ==
  ASSUME StoreInv, NEW p \in Writers,
         OpenLock(p) \/ TryLock(p) \/ StopWaiting(p) \/ FailLock(p) \/ Expire(p)
  PROVE  StoreInv'
<1> USE DEF StoreInv
<1>1. UNCHANGED fileVars
  BY DEF OpenLock, TryLock, StopWaiting, FailLock, Expire
<1>2. FileInv'
  BY <1>1, StutterKeeps
<1>3. TypeOK'
  <2>1. FileTypeOK'
    BY <1>2 DEF FileInv
  <2>2. CASE TryLock(p) /\ lock = Free
    BY <2>1, <2>2, StoreAssumption DEF TypeOK, TryLock, Goto
  <2>3. CASE ~(TryLock(p) /\ lock = Free)
    <3>1. /\ lock' = lock /\ expired' \in SUBSET Writers
          /\ \/ pc' = pc
             \/ /\ pc[p] \in {"start"} \cup Trying
                /\ \E q \in {"polling", "waiting", "refused"} : pc' = [pc EXCEPT ![p] = q]
      BY <2>3 DEF TypeOK, OpenLock, TryLock, StopWaiting, FailLock, Expire, Goto
    <3> QED BY <2>1, <3>1 DEF TypeOK
  <2> QED BY <2>2, <2>3
<1>4. SaveFollows'
  BY <1>1 DEF SaveFollows, OpenLock, TryLock, StopWaiting, FailLock, Expire,
              Goto, TypeOK, fileVars
<1>5. FreshCopy'
  BY <1>1 DEF FreshCopy, OpenLock, TryLock, StopWaiting, FailLock, Expire,
              Goto, TypeOK, fileVars
<1>6. FileTellsSaved' /\ ReadersBehind'
  BY <1>1 DEF FileTellsSaved, ReadersBehind, fileVars
<1> QED BY <1>2, <1>3, <1>4, <1>5, <1>6

LEMMA ReleaseStep ==
  ASSUME StoreInv, NEW p \in Writers, Release(p)
  PROVE  StoreInv'
<1> USE DEF StoreInv
<1>1. /\ UNCHANGED fileVars /\ pc' = [pc EXCEPT ![p] = "done"]
      /\ lock' = Free /\ lock = p /\ step[p] \in {"saved"} \cup Failed
      /\ expired' = expired
  BY DEF Release, Goto, TypeOK
<1>2. FileInv'
  BY <1>1, StutterKeeps
<1>3. TypeOK'
  BY <1>1, <1>2, StoreAssumption DEF TypeOK, FileInv
<1>4. SaveFollows' /\ FreshCopy'
  BY <1>1 DEF SaveFollows, FreshCopy, TypeOK, fileVars
<1>5. FileTellsSaved' /\ ReadersBehind'
  BY <1>1 DEF FileTellsSaved, ReadersBehind, fileVars
<1> QED BY <1>2, <1>3, <1>4, <1>5

LEMMA KillStep ==
  ASSUME StoreInv, NEW p \in Writers, Kill(p)
  PROVE  StoreInv'
<1> USE DEF StoreInv
<1>1. /\ pc' = [pc EXCEPT ![p] = "dead"] /\ step' = [step EXCEPT ![p] = "dead"]
      /\ lock' = IF lock = p THEN Free ELSE lock
      /\ UNCHANGED <<name, text, whole, temp, job, reading, got, torn, expired>>
      /\ pc[p] \notin Ended
  BY DEF Kill, Die, Goto
<1>2. FileInv'
  BY DieKeeps DEF Kill
<1>3. TypeOK'
  BY <1>1, <1>2, StoreAssumption DEF TypeOK, FileInv
<1>4. SaveFollows' /\ FreshCopy'
  BY <1>1 DEF SaveFollows, FreshCopy, TypeOK, FileTypeOK
<1>5. FileTellsSaved' /\ ReadersBehind'
  BY <1>1 DEF FileTellsSaved, ReadersBehind, TypeOK, FileTypeOK
<1> QED BY <1>2, <1>3, <1>4, <1>5

-----------------------------------------------------------------------------
(***************************************************************************)
(* The steps of the holder of the lock.                                    *)
(***************************************************************************)

LEMMA LoadStep ==
  ASSUME StoreInv, NEW p \in Writers, LoadState(p)
  PROVE  StoreInv'
<1> USE DEF StoreInv
<1>1. /\ job' = [job EXCEPT ![p] = text[name] \cup {p}]
      /\ pc' = [pc EXCEPT ![p] = "saving"] /\ pc[p] = "locked"
      /\ UNCHANGED <<name, text, whole, temp, step, reading, got, torn, lock, expired>>
  BY DEF LoadState, Goto
<1>2. step[p] = "idle"
  BY <1>1 DEF SaveFollows
<1>3. job' \in [Writers -> Values]
  BY <1>1, StoreAssumption DEF TypeOK, FileTypeOK
<1>4. FileTypeOK'
  BY <1>1, <1>3 DEF TypeOK, FileTypeOK
<1>5. FileInv'
  BY <1>1, <1>2, <1>4 DEF FileInv, TypeOK, FileTypeOK
<1>6. TypeOK'
  BY <1>1, <1>4 DEF TypeOK
<1>7. SaveFollows'
  BY <1>1, <1>2 DEF SaveFollows, TypeOK
<1>8. FreshCopy'
  BY <1>1 DEF FreshCopy, TypeOK, FileTypeOK
<1>9. FileTellsSaved' /\ ReadersBehind'
  BY <1>1 DEF FileTellsSaved, ReadersBehind
<1> QED BY <1>5, <1>6, <1>7, <1>8, <1>9

LEMMA FailLoadStep ==
  ASSUME StoreInv, NEW p \in Writers, FailLoad(p)
  PROVE  StoreInv'
<1> USE DEF StoreInv
<1>1. /\ step' = [step EXCEPT ![p] = "failed"] /\ lock' = Free /\ lock = p
      /\ pc' = [pc EXCEPT ![p] = "done"] /\ pc[p] = "locked"
      /\ UNCHANGED <<name, text, whole, temp, job, reading, got, torn, expired>>
  BY DEF FailLoad, Goto, TypeOK
<1>2. step[p] = "idle"
  BY <1>1 DEF SaveFollows
<1>3. FileTypeOK'
  BY <1>1 DEF TypeOK, FileTypeOK
<1>4. FileInv'
  BY <1>1, <1>2, <1>3 DEF FileInv, TypeOK, FileTypeOK
<1>5. TypeOK'
  BY <1>1, <1>3, StoreAssumption DEF TypeOK
<1>6. SaveFollows' /\ FreshCopy'
  BY <1>1 DEF SaveFollows, FreshCopy, TypeOK, FileTypeOK
<1>7. FileTellsSaved' /\ ReadersBehind'
  BY <1>1, <1>2 DEF FileTellsSaved, ReadersBehind, TypeOK, FileTypeOK
<1> QED BY <1>4, <1>5, <1>6, <1>7

\* The commit: the file becomes the loaded value with the request's update.
LEMMA RenameCommits ==
  ASSUME StoreInv, NEW p \in Writers, pc[p] = "saving", Rename(p)
  PROVE  /\ text' = text /\ name' = p /\ step' = [step EXCEPT ![p] = "saved"]
         /\ text[p] = text[name] \cup {p}
         /\ p \notin text[name]
<1>1. step[p] = "closed" /\ text' = text /\ name' = p
  BY RenameKeeps DEF Rename, StoreInv
<1>2. text[p] = job[p] /\ job[p] = text[name] \cup {p}
  BY <1>1 DEF StoreInv, FileInv, FreshCopy
<1>3. p \notin text[name]
  BY <1>1 DEF StoreInv, FileTellsSaved
<1> QED BY <1>1, <1>2, <1>3 DEF Rename

\* The other steps of a save leave the contents readers can reach alone.
LEMMA SaveAside ==
  ASSUME StoreInv, NEW p \in Writers, pc[p] = "saving", Save(p), ~Rename(p)
  PROVE  /\ name' = name /\ text'[name] = text[name]
         /\ \E s \in InSave \cup Failed : step' = [step EXCEPT ![p] = s]
         /\ step[p] \in InSave \cup {"idle"}
         /\ UNCHANGED <<job, reading, got>>
         /\ \A r \in Readers : reading[r] # NoFile => text'[reading[r]] = text[reading[r]]
<1>1. /\ name' = name /\ UNCHANGED <<job, reading, got>>
      /\ step[p] \in InSave \cup {"idle"}
      /\ \E s \in InSave \cup Failed : step' = [step EXCEPT ![p] = s]
      /\ text' = text \/ (step[p] = "idle" /\ text' = [text EXCEPT ![p] = job[p]])
  BY DEF Save, CreateTemp, WriteTemp, CloseTemp, FailSave
<1>2. CASE text' = text
  BY <1>1, <1>2
<1>3. CASE step[p] = "idle" /\ text' = [text EXCEPT ![p] = job[p]]
  <2>1. name # p /\ \A r \in Readers : reading[r] # p
    BY <1>3, FileAssumption DEF StoreInv, FileInv
  <2> QED BY <1>1, <1>3, <2>1 DEF StoreInv, FileInv, FileTypeOK
<1> QED BY <1>1, <1>2, <1>3

LEMMA SaveStep ==
  ASSUME StoreInv, NEW p \in Writers, SaveState(p)
  PROVE  StoreInv'
<1> USE DEF StoreInv
<1>1. pc[p] = "saving" /\ Save(p) /\ lock = p /\ UNCHANGED <<lock, pc, expired>>
  BY DEF SaveState, TypeOK
<1>2. FileInv'
  BY <1>1, SaveKeeps
<1>3. TypeOK'
  BY <1>1, <1>2 DEF TypeOK, FileInv
<1>4. \A q \in Writers : q # p => pc[q] # "saving"
  BY <1>1 DEF TypeOK
<1>5. CASE Rename(p)
  <2>1. /\ name' = p /\ step' = [step EXCEPT ![p] = "saved"] /\ text' = text
        /\ text[p] = text[name] \cup {p} /\ UNCHANGED <<job, reading, got>>
    BY <1>1, <1>5, RenameCommits DEF Rename
  <2>2. SaveFollows'
    BY <1>1, <2>1 DEF SaveFollows, TypeOK, FileTypeOK
  <2>3. FreshCopy'
    BY <1>1, <1>4, <2>1 DEF FreshCopy, TypeOK, FileTypeOK
  <2>4. FileTellsSaved'
    BY <2>1 DEF FileTellsSaved, TypeOK, FileTypeOK
  <2>5. ReadersBehind'
    BY <2>1 DEF ReadersBehind
  <2> QED BY <1>2, <1>3, <2>2, <2>3, <2>4, <2>5
<1>6. CASE ~Rename(p)
  <2>1. PICK s \in InSave \cup Failed : step' = [step EXCEPT ![p] = s]
    BY <1>1, <1>6, SaveAside
  <2>2. /\ name' = name /\ text'[name] = text[name]
        /\ step[p] \in InSave \cup {"idle"}
        /\ UNCHANGED <<job, reading, got>>
        /\ \A r \in Readers : reading[r] # NoFile => text'[reading[r]] = text[reading[r]]
    BY <1>1, <1>6, SaveAside
  <2>3. SaveFollows'
    BY <1>1, <2>1, <2>2 DEF SaveFollows, TypeOK, FileTypeOK
  <2>4. FreshCopy'
    BY <1>1, <1>4, <2>1, <2>2 DEF FreshCopy, TypeOK, FileTypeOK
  <2>5. FileTellsSaved'
    BY <2>1, <2>2 DEF FileTellsSaved, TypeOK, FileTypeOK
  <2>6. ReadersBehind'
    BY <2>2 DEF ReadersBehind
  <2> QED BY <1>2, <1>3, <2>3, <2>4, <2>5, <2>6
<1> QED BY <1>5, <1>6

LEMMA ReadStep ==
  ASSUME StoreInv, NEW r \in Readers, ReadState(r)
  PROVE  StoreInv' /\ \A q \in Readers : got[q] \subseteq got'[q]
<1> USE DEF StoreInv
<1>1. Read(r) /\ UNCHANGED <<lock, pc, expired, name, text, step, job>>
  BY DEF ReadState, Read, OpenFile, ReadFile
<1>2. FileInv'
  BY <1>1, ReadKeeps
<1>3. TypeOK'
  BY <1>1, <1>2 DEF TypeOK, FileInv
<1>4. SaveFollows' /\ FreshCopy' /\ FileTellsSaved'
  BY <1>1 DEF SaveFollows, FreshCopy, FileTellsSaved
<1>5. CASE OpenFile(r)
  <2>1. ReadersBehind' /\ got' = got
    BY <1>1, <1>5 DEF OpenFile, ReadersBehind, TypeOK, FileTypeOK
  <2> QED BY <1>2, <1>3, <1>4, <2>1
<1>6. CASE ReadFile(r)
  <2>1. /\ got' = [got EXCEPT ![r] = text[reading[r]]]
        /\ reading' = [reading EXCEPT ![r] = NoFile] /\ reading[r] # NoFile
    BY <1>6 DEF ReadFile, FileInv
  <2>2. ReadersBehind'
    BY <1>1, <2>1 DEF ReadersBehind, TypeOK, FileTypeOK
  <2>3. \A q \in Readers : got[q] \subseteq got'[q]
    BY <2>1 DEF ReadersBehind, TypeOK, FileTypeOK
  <2> QED BY <1>2, <1>3, <1>4, <2>2, <2>3
<1> QED BY <1>1, <1>5, <1>6 DEF Read

-----------------------------------------------------------------------------

LEMMA StepStore == StoreInv /\ [Next]_vars => StoreInv'
<1> SUFFICES ASSUME StoreInv, [Next]_vars PROVE StoreInv'
  OBVIOUS
<1>1. ASSUME NEW p \in Writers, Request(p) PROVE StoreInv'
  BY <1>1, LockSteps, LoadStep, FailLoadStep, SaveStep, ReleaseStep, KillStep
     DEF Request
<1>2. ASSUME NEW r \in Readers, ReadState(r) PROVE StoreInv'
  BY <1>2, ReadStep
<1>3. CASE UNCHANGED vars
  <2>1. UNCHANGED fileVars
    BY <1>3 DEF vars, fileVars
  <2>2. FileInv'
    BY <2>1, StutterKeeps DEF StoreInv
  <2> QED BY <1>3, <2>2 DEF vars, StoreInv, TypeOK, FileInv, SaveFollows,
             FreshCopy, FileTellsSaved, ReadersBehind
<1> QED BY <1>1, <1>2, <1>3 DEF Next

LEMMA InvariantStore == Spec => []StoreInv
BY InitStore, StepStore, PTL DEF Spec

\* The lock has at most one holder and exactly the requests between LockContext
\* and release hold it.
THEOREM Typing == Spec => []TypeOK
<1>1. StoreInv => TypeOK
  BY DEF StoreInv
<1> QED BY <1>1, InvariantStore, PTL

\* The update of a request whose save succeeded stays in state.json.
THEOREM UpdatesStay == Spec => []NoLostUpdate
<1>1. StoreInv => NoLostUpdate
  BY DEF StoreInv, FileTellsSaved, NoLostUpdate
<1> QED BY <1>1, InvariantStore, PTL

\* A reader without the lock never sees the state go back.
THEOREM ReadsAdvance == Spec => ReadsGoForward
<1> DEFINE Forward == \A r \in Readers : got[r] \subseteq got'[r]
<1>1. ASSUME StoreInv, [Next]_vars PROVE Forward
  <2>1. CASE \E r \in Readers : ReadState(r)
    BY <1>1, <2>1, ReadStep
  <2>2. CASE ~(\E r \in Readers : ReadState(r))
    <3>1. got' = got
      BY <1>1, <2>2
         DEF Next, vars, fileVars, Request, OpenLock, TryLock, StopWaiting,
             FailLock, Expire, LoadState, FailLoad, SaveState, Save, CreateTemp,
             WriteTemp, CloseTemp, Rename, FailSave, Release, Kill, Die
    <3> QED BY <3>1
  <2> QED BY <2>1, <2>2
<1>2. StoreInv /\ [Next]_vars => [Forward]_vars
  BY <1>1
<1> QED BY <1>2, InvariantStore, PTL DEF Spec, ReadsGoForward

-----------------------------------------------------------------------------
(***************************************************************************)
(* Refinement: the rename is the commit, leaving the lock the answer.      *)
(***************************************************************************)

Fates == [p \in Writers |-> Fate(p)]

\* What the fates are after a step of one request.
LEMMA FateOfOne ==
  ASSUME NEW p \in Writers,
         \A q \in Writers : q # p => pc'[q] = pc[q] /\ step'[q] = step[q]
  PROVE  Fates' = [Fates EXCEPT ![p] = Fate(p)']
<1>1. \A q \in Writers : q # p => Fate(q)' = Fate(q)
  BY DEF Fate
<1> QED BY <1>1 DEF Fates

LEMMA FateOpen ==
  ASSUME NEW p \in Writers, pc[p] \notin Ended
  PROVE  Fates[p] = "open"
BY DEF Fates, Fate

\* A request leaves with its update made or with an error.
LEMMA EndAnswers ==
  ASSUME StoreInv, NEW p \in Writers, pc[p] \notin Ended, text'[name'] = text[name],
         \A q \in Writers : q # p => pc'[q] = pc[q] /\ step'[q] = step[q],
         \/ pc'[p] = "refused" /\ p \notin text[name]
         \/ pc'[p] = "done" /\ (step'[p] = "saved" <=> p \in text[name])
  PROVE  Abstract!Answer(p)
<1>1. Fates' = [Fates EXCEPT ![p] = Fate(p)'] /\ Fates[p] = "open"
  BY FateOfOne, FateOpen
<1>2. Fate(p)' = IF p \in text[name] THEN "ok" ELSE "error"
  BY DEF Fate
<1> QED BY <1>1, <1>2 DEF Abstract!Answer, Fates

LEMMA StutterFates ==
  ASSUME text'[name'] = text[name], pc' = pc \/ \E p \in Writers :
           pc[p] \notin Ended /\ \E q \in {"polling", "waiting", "locked", "saving"} :
             pc' = [pc EXCEPT ![p] = q],
         pc \in [Writers -> {"start"} \cup Trying \cup Holding \cup Ended],
         \A p \in Writers : pc[p] = "done" => step'[p] = step[p]
  PROVE  text'[name'] = text[name] /\ Fates' = Fates
<1>1. \A p \in Writers : \/ pc'[p] = pc[p] /\ (pc[p] = "done" => step'[p] = step[p])
                         \/ pc[p] \notin Ended /\ pc'[p] \notin Ended
  OBVIOUS
<1>2. \A p \in Writers : Fate(p)' = Fate(p)
  BY <1>1 DEF Fate
<1> QED BY <1>2 DEF Fates

LEMMA StepRefines ==
  ASSUME StoreInv, Next
  PROVE  Abstract!Next \/ (text'[name'] = text[name] /\ Fates' = Fates)
<1> DEFINE Still == text'[name'] = text[name] /\ Fates' = Fates
<1> USE DEF StoreInv
<1>1. pc \in [Writers -> {"start"} \cup Trying \cup Holding \cup Ended]
      /\ step \in [Writers -> InSave \cup Failed \cup {"idle", "saved", "dead"}]
  BY DEF TypeOK, FileTypeOK
<1>2. ASSUME NEW p \in Writers, pc[p] \in {"start", "locked"} \cup Trying
      PROVE  p \notin text[name] /\ step[p] = "idle"
  BY <1>2 DEF SaveFollows, FileTellsSaved
<1>3. ASSUME NEW p \in Writers, pc[p] \in {"start"} \cup Trying, UNCHANGED fileVars,
             pc' = [pc EXCEPT ![p] = "refused"]
      PROVE  Abstract!Answer(p)
  <2>1. /\ p \notin text[name] /\ pc'[p] = "refused" /\ text'[name'] = text[name]
        /\ \A q \in Writers : q # p => pc'[q] = pc[q] /\ step'[q] = step[q]
    BY <1>1, <1>2, <1>3 DEF fileVars
  <2> QED BY <1>3, <2>1, EndAnswers
<1>4. ASSUME NEW p \in Writers,
             OpenLock(p) \/ TryLock(p) \/ StopWaiting(p) \/ FailLock(p) \/ Expire(p)
      PROVE  Abstract!Answer(p) \/ Still
  <2>1. /\ UNCHANGED fileVars
        /\ \/ pc' = pc
           \/ /\ pc[p] \in {"start"} \cup Trying
              /\ \E q \in {"polling", "waiting", "locked", "refused"} :
                   pc' = [pc EXCEPT ![p] = q]
    BY <1>4 DEF OpenLock, TryLock, StopWaiting, FailLock, Expire, Goto
  <2>2. CASE pc[p] \in {"start"} \cup Trying /\ pc' = [pc EXCEPT ![p] = "refused"]
    BY <1>3, <2>1, <2>2
  <2>3. CASE ~(pc[p] \in {"start"} \cup Trying /\ pc' = [pc EXCEPT ![p] = "refused"])
    BY <1>1, <2>1, <2>3, StutterFates DEF fileVars
  <2> QED BY <2>2, <2>3
<1>5. ASSUME NEW p \in Writers, LoadState(p)
      PROVE  Still
  BY <1>1, <1>5, StutterFates DEF LoadState, Goto
<1>6. ASSUME NEW p \in Writers, FailLoad(p)
      PROVE  Abstract!Answer(p)
  <2>1. /\ p \notin text[name] /\ pc'[p] = "done" /\ step'[p] = "failed"
        /\ text'[name'] = text[name] /\ pc[p] = "locked"
        /\ \A q \in Writers : q # p => pc'[q] = pc[q] /\ step'[q] = step[q]
    BY <1>1, <1>2, <1>6 DEF FailLoad, Goto
  <2> QED BY <2>1, EndAnswers
<1>7. ASSUME NEW p \in Writers, SaveState(p)
      PROVE  Abstract!Commit(p) \/ Still
  <2>1. pc[p] = "saving" /\ Save(p) /\ pc' = pc
    BY <1>7 DEF SaveState
  <2>2. CASE Rename(p)
    <3>1. /\ text'[name'] = text[name] \cup {p} /\ p \notin text[name]
          /\ step' = [step EXCEPT ![p] = "saved"]
      BY <2>1, <2>2, RenameCommits
    <3>2. \A q \in Writers : q # p => step'[q] = step[q]
      BY <1>1, <3>1
    <3>3. Fates' = [Fates EXCEPT ![p] = Fate(p)'] /\ Fates[p] = "open"
      BY <2>1, <3>2, FateOfOne, FateOpen
    <3>4. Fate(p)' = "open"
      BY <2>1 DEF Fate
    <3>5. Fates' = Fates
      BY <3>3, <3>4 DEF Fates
    <3> QED BY <3>1, <3>3, <3>5 DEF Abstract!Commit, Fates
  <2>3. CASE ~Rename(p)
    <3>1. /\ text'[name'] = text[name]
          /\ \E s \in InSave \cup Failed : step' = [step EXCEPT ![p] = s]
      BY <2>1, <2>3, SaveAside
    <3>2. \A q \in Writers : pc[q] = "done" => step'[q] = step[q]
      BY <1>1, <2>1, <3>1
    <3> QED BY <1>1, <2>1, <3>1, <3>2, StutterFates
  <2> QED BY <2>2, <2>3
<1>8. ASSUME NEW p \in Writers, Release(p)
      PROVE  Abstract!Answer(p)
  <2>1. /\ pc[p] = "saving" /\ pc'[p] = "done" /\ UNCHANGED fileVars
        /\ step[p] \in {"saved"} \cup Failed
        /\ \A q \in Writers : q # p => pc'[q] = pc[q]
    BY <1>1, <1>8 DEF Release, Goto
  <2>2. step'[p] = "saved" <=> p \in text[name]
    BY <2>1 DEF FileTellsSaved, fileVars
  <2> QED BY <2>1, <2>2, EndAnswers DEF fileVars
<1>9. ASSUME NEW p \in Writers, Kill(p)
      PROVE  Abstract!Kill(p)
  <2>1. /\ pc[p] \notin Ended /\ pc'[p] = "dead" /\ text'[name'] = text[name]
        /\ \A q \in Writers : q # p => pc'[q] = pc[q] /\ step'[q] = step[q]
    BY <1>1, <1>9 DEF Kill, Die, Goto
  <2>2. Fates' = [Fates EXCEPT ![p] = Fate(p)'] /\ Fates[p] = "open" /\ Fate(p)' = "killed"
    BY <2>1, FateOfOne, FateOpen DEF Fate
  <2> QED BY <2>1, <2>2 DEF Abstract!Kill, Fates
<1>10. ASSUME NEW r \in Readers, ReadState(r)
       PROVE  Still
  BY <1>1, <1>10, StutterFates DEF ReadState, Read, OpenFile, ReadFile
<1>11. ASSUME NEW p \in Writers, Request(p)
       PROVE  Abstract!Next \/ Still
  BY <1>4, <1>5, <1>6, <1>7, <1>8, <1>9, <1>11 DEF Request, Abstract!Next
<1> QED BY <1>10, <1>11 DEF Next

\* Every request is one atomic update of state.json, or none.
THEOREM Refinement == Spec => OneAtomicUpdate
<1>1. Init => Abstract!Init
  BY StoreAssumption DEF Init, EmptyDirectory, Abstract!Init, Fate, Inodes
<1>2. StoreInv /\ [Next]_vars => [Abstract!Next]_<<text[name], Fates>>
  <2> SUFFICES ASSUME StoreInv, [Next]_vars
               PROVE  Abstract!Next \/ <<text[name], Fates>>' = <<text[name], Fates>>
    OBVIOUS
  <2>1. CASE Next
    BY <2>1, StepRefines
  <2>2. CASE UNCHANGED vars
    BY <2>2 DEF vars, Fates, Fate
  <2> QED BY <2>1, <2>2
<1> QED BY <1>1, <1>2, InvariantStore, PTL DEF Spec, OneAtomicUpdate, Abstract!Spec, Fates

=============================================================================
