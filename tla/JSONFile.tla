------------------------------ MODULE JSONFile ------------------------------
(***************************************************************************)
(* A JSON file of an engine's directory: writeJSON saves it, LoadConfig    *)
(* and LoadState read it (state/state.go).  The name config.json or        *)
(* state.json refers to an inode; a save fills an inode of its own under a *)
(* temporary name that os.CreateTemp makes unique, and renames it.         *)
(* SaveConfig does this without any lock, so saves overlap freely here;    *)
(* StateStore adds the lock that requests changing state.json take.        *)
(*                                                                         *)
(* A writer makes one save; it may be killed at any point.  Losing what    *)
(* the operating system has buffered (no fsync) is not modelled.           *)
(***************************************************************************)

CONSTANTS
  Writers,    \* the calls of writeJSON
  Readers,    \* processes that read the file, again and again
  Values,     \* what the file can hold
  Zero,       \* the value read when the file does not exist
  Original,   \* the inode before the first save
  NoFile      \* a name without a file, a reader that has nothing open

ASSUME FileAssumption ==
  /\ Original \notin Writers
  /\ NoFile \notin Writers \cup {Original}
  /\ Zero \in Values

VARIABLES
  name,      \* the inode the file name refers to
  text,      \* per inode: the value being written to it
  whole,     \* per inode: it has been written completely
  temp,      \* per temporary name: the inode it refers to, or NoFile
  step,      \* per writer: how far its writeJSON has come
  job,       \* per writer: the value it is to save
  reading,   \* per reader: the inode it has open
  got,       \* per reader: the value it has read last
  torn       \* the readers for which json.Unmarshal has failed

fileVars == <<name, text, whole, temp, step, job, reading, got, torn>>

Inodes == Writers \cup {Original}
InSave == {"created", "written", "closed"}

\* writeJSON has returned an error; "littered" where its os.Remove failed as well.
Failed == {"failed", "littered"}

FileTypeOK ==
  /\ name \in Inodes
  /\ text \in [Inodes -> Values]
  /\ whole \in [Inodes -> BOOLEAN]
  /\ temp \in [Writers -> Inodes \cup {NoFile}]
  /\ step \in [Writers -> InSave \cup Failed \cup {"idle", "saved", "dead"}]
  /\ job \in [Writers -> Values]
  /\ reading \in [Readers -> Inodes \cup {NoFile}]
  /\ got \in [Readers -> Values]
  /\ torn \in SUBSET Readers
  /\ \A w \in Writers : step[w] \in {"written", "closed"} => whole[w]

EmptyDirectory ==
  /\ name = Original
  /\ text = [i \in Inodes |-> Zero]
  /\ whole = [i \in Inodes |-> i = Original]
  /\ temp = [w \in Writers |-> NoFile]
  /\ step = [w \in Writers |-> "idle"]
  /\ reading = [r \in Readers |-> NoFile]
  /\ got = [r \in Readers |-> Zero]
  /\ torn = {}

FileInit == EmptyDirectory /\ job \in [Writers -> Values]

-----------------------------------------------------------------------------

\* Slip: the fixed name path+".tmp".
TempNameFixed(w) == CHOOSE v \in Writers : TRUE

\* The name os.CreateTemp gives the writer: never one that is taken.
TempName(w) == w

CreateTemp(w) ==
  /\ step[w] = "idle"
  /\ step' = [step EXCEPT ![w] = "created"]
  /\ text' = [text EXCEPT ![w] = job[w]]
  /\ temp' = [temp EXCEPT ![TempName(w)] = w]
  /\ UNCHANGED <<name, whole, job, reading, got, torn>>

\* Slip: the error of tmp.Write is ignored.
WriteUnchecked(w) ==
  /\ step[w] = "created"
  /\ step' = [step EXCEPT ![w] = "written"]
  /\ whole' \in {whole, [whole EXCEPT ![w] = TRUE]}
  /\ UNCHANGED <<name, text, temp, job, reading, got, torn>>

\* tmp.Chmod and tmp.Write
WriteTemp(w) ==
  /\ step[w] = "created"
  /\ step' = [step EXCEPT ![w] = "written"]
  /\ whole' = [whole EXCEPT ![w] = TRUE]
  /\ UNCHANGED <<name, text, temp, job, reading, got, torn>>

CloseTemp(w) ==
  /\ step[w] = "written"
  /\ step' = [step EXCEPT ![w] = "closed"]
  /\ UNCHANGED <<name, text, whole, temp, job, reading, got, torn>>

\* Slip: an error after the rename, say of an fsync, is returned.
RenameThenFail(w) ==
  /\ step[w] = "closed"
  /\ \E s \in {"saved", "failed"} : step' = [step EXCEPT ![w] = s]
  /\ temp[TempName(w)] # NoFile
  /\ name' = temp[TempName(w)]
  /\ temp' = [temp EXCEPT ![TempName(w)] = NoFile]
  /\ UNCHANGED <<text, whole, job, reading, got, torn>>

Rename(w) ==
  /\ step[w] = "closed"
  /\ step' = [step EXCEPT ![w] = "saved"]
  /\ temp[TempName(w)] # NoFile
  /\ name' = temp[TempName(w)]
  /\ temp' = [temp EXCEPT ![TempName(w)] = NoFile]
  /\ UNCHANGED <<text, whole, job, reading, got, torn>>

\* Slip: the deferred os.Remove is missing.
FailLeavingTemp(w) ==
  /\ step[w] \in InSave \cup {"idle"}
  /\ step' = [step EXCEPT ![w] = "failed"]
  /\ UNCHANGED <<name, text, whole, temp, job, reading, got, torn>>

\* Any of the calls fails, the marshalling and the directory's mode included:
\* the deferred function removes the temporary file if it was created, and does
\* not look at the error of os.Remove.
FailSave(w) ==
  /\ \/ step[w] = "idle" /\ step' = [step EXCEPT ![w] = "failed"] /\ UNCHANGED temp
     \/ /\ step[w] \in InSave
        /\ \/ /\ step' = [step EXCEPT ![w] = "failed"]
              /\ temp' = [temp EXCEPT ![TempName(w)] = NoFile]
           \/ step' = [step EXCEPT ![w] = "littered"] /\ UNCHANGED temp
  /\ UNCHANGED <<name, text, whole, job, reading, got, torn>>

Save(w) ==
  \/ CreateTemp(w)
  \/ WriteTemp(w)
  \/ CloseTemp(w)
  \/ Rename(w)
  \/ FailSave(w)

\* The writer is killed: no deferred function runs.
Die(w) ==
  /\ step[w] # "dead"
  /\ step' = [step EXCEPT ![w] = "dead"]
  /\ UNCHANGED <<name, text, whole, temp, job, reading, got, torn>>

\* os.ReadFile opens what the name refers to now and reads that inode later,
\* also when the name has been moved on in between.
OpenFile(r) ==
  /\ reading[r] = NoFile
  /\ reading' = [reading EXCEPT ![r] = name]
  /\ UNCHANGED <<name, text, whole, temp, step, job, got, torn>>

ReadFile(r) ==
  /\ reading[r] # NoFile
  /\ IF whole[reading[r]]
       THEN got' = [got EXCEPT ![r] = text[reading[r]]] /\ UNCHANGED torn
       ELSE torn' = torn \cup {r} /\ UNCHANGED got
  /\ reading' = [reading EXCEPT ![r] = NoFile]
  /\ UNCHANGED <<name, text, whole, temp, step, job>>

Read(r) == OpenFile(r) \/ ReadFile(r)

FileNext ==
  \/ \E w \in Writers : Save(w) \/ Die(w)
  \/ \E r \in Readers : Read(r)

FileSpec == FileInit /\ [][FileNext]_fileVars

-----------------------------------------------------------------------------

\* No reader ever sees a half-written file, whatever saves overlap with its
\* read and wherever a writer was killed (writeJSON's temp file and rename).
NeverTorn == torn = {}

\* A save that returned an error is not in the file, and leaves its temporary
\* file only if the removal fails too; else only a killed writer leaves one
\* (writeJSON's deferred os.Remove).
FailedLeavesNothing ==
  \A w \in Writers :
    /\ step[w] \in Failed => name # w
    /\ temp[w] # NoFile => step[w] \in InSave \cup {"littered", "dead"}

\* Saves that overlap are never mixed: when the name moves, it moves to the
\* value of the save that moves it.
EachSaveItsOwn ==
  [][name' # name =>
       \E w \in Writers : /\ step[w] # "saved" /\ step'[w] = "saved"
                          /\ text'[name'] = job[w]]_fileVars

=============================================================================
