----------------------------- MODULE ModelStore -----------------------------
(***************************************************************************)
(* save_model and load_model (model_io.py) on one path, called by any       *)
(* number of processes of one machine.  A save pickles into a temporary     *)
(* file of its own beside the destination, flushes and fsyncs it and        *)
(* renames it over the destination.                                         *)
(*                                                                         *)
(* The file system is external: a file has the content the processes see    *)
(* and the content that is on the medium, which lags behind it until fsync; *)
(* a rename is atomic, and on the medium it may come late.                  *)
(***************************************************************************)
EXTENDS Naturals

CONSTANTS Saves,      \* calls of save_model, each of a fitted model
          Loads,      \* calls of load_model
          NoFile

ASSUME NoFileIsNoSave == NoFile \notin Saves

\* How much of the envelope a file has.  A longer content has every shorter one as a
\* prefix the medium may hold.
Empty == 0
Part == 1
Whole == 2

VARIABLES
  step,       \* of each save: where it is in save_model
  content,    \* of each save's temporary file (and of what it was renamed to)
  medium,     \* the content on the medium
  temps,      \* the saves whose temporary file is in the directory
  dest,       \* the save whose file is the destination
  destMedium, \* what the destination may be on the medium
  reader      \* of each load: "idle", the file it opened, "error"

storeVars == <<step, content, medium, temps, dest, destMedium, reader>>

Running == {"dumping", "dumped", "flushed", "synced"}

StoreInit ==
  /\ step = [s \in Saves |-> "idle"]
  /\ content = [s \in Saves |-> Empty]
  /\ medium = [s \in Saves |-> Empty]
  /\ temps = {}
  /\ dest = NoFile /\ destMedium = {NoFile}
  /\ reader = [l \in Loads |-> [at |-> "idle", file |-> NoFile]]

Goto(s, label) == step' = [step EXCEPT ![s] = label]

\* Mutant: the destination itself is opened for writing.
CreateInPlace(s) ==
  /\ step[s] = "idle"
  /\ Goto(s, "dumping")
  /\ dest' = s /\ destMedium' = destMedium \cup {s}
  /\ UNCHANGED <<content, medium, temps, reader>>

\* NamedTemporaryFile: an empty file under a name nobody else has.
Create(s) ==
  /\ step[s] = "idle"
  /\ Goto(s, "dumping")
  /\ temps' = temps \cup {s}
  /\ UNCHANGED <<content, medium, dest, destMedium, reader>>

\* pickle.dump into the stream's buffer, which spills into the file.
Dump(s) ==
  /\ step[s] = "dumping"
  /\ content' = [content EXCEPT ![s] = Part]
  /\ Goto(s, "dumped")
  /\ UNCHANGED <<medium, temps, dest, destMedium, reader>>

\* stream.flush
Flush(s) ==
  /\ step[s] = "dumped"
  /\ content' = [content EXCEPT ![s] = Whole]
  /\ Goto(s, "flushed")
  /\ UNCHANGED <<medium, temps, dest, destMedium, reader>>

\* Mutant: no fsync.
SyncNothing(s) ==
  /\ step[s] = "flushed"
  /\ Goto(s, "synced")
  /\ UNCHANGED <<content, medium, temps, dest, destMedium, reader>>

\* os.fsync
Sync(s) ==
  /\ step[s] = "flushed"
  /\ medium' = [medium EXCEPT ![s] = content[s]]
  /\ Goto(s, "synced")
  /\ UNCHANGED <<content, temps, dest, destMedium, reader>>

\* os.replace
Replace(s) ==
  /\ step[s] = "synced"
  /\ Goto(s, "saved")
  /\ temps' = temps \ {s}
  /\ dest' = s /\ destMedium' = destMedium \cup {s}
  /\ UNCHANGED <<content, medium, reader>>

\* Any of the steps raises an Exception: the temporary file is unlinked.
Fail(s) ==
  /\ step[s] \in Running
  /\ Goto(s, "failed")
  /\ temps' = temps \ {s}
  /\ UNCHANGED <<content, medium, dest, destMedium, reader>>

\* The process is killed or interrupted (not an Exception): nothing is cleaned up.
Die(s) ==
  /\ step[s] \in Running
  /\ Goto(s, "killed")
  /\ UNCHANGED <<content, medium, temps, dest, destMedium, reader>>

\* The system writes the directory back.
WriteBack ==
  /\ destMedium # {dest}
  /\ destMedium' = {dest}
  /\ UNCHANGED <<step, content, medium, temps, dest, reader>>

\* Power is lost: of every file any content between the one on the medium and the one
\* that was written is left, of the destination one of those the medium may have; the
\* temporary name of a rename that is lost may be back.
LosePower ==
  /\ \E left \in [Saves -> Empty..Whole] :
       /\ \A s \in Saves : medium[s] <= left[s] /\ left[s] <= content[s]
       /\ content' = left /\ medium' = left
  /\ dest' \in destMedium
  /\ destMedium' = {dest'}
  /\ temps' \in SUBSET ((temps \cup (destMedium \cap Saves)) \ {dest'})
  /\ step' = [s \in Saves |-> IF step[s] \in Running THEN "killed" ELSE step[s]]
  /\ reader' = [l \in Loads |-> IF reader[l].at = "reading"
                                THEN [at |-> "killed", file |-> reader[l].file] ELSE reader[l]]

\* load_model opens the path ...
Open(l) ==
  /\ reader[l].at = "idle"
  /\ reader' = [reader EXCEPT ![l] = [at |-> IF dest = NoFile THEN "missing" ELSE "reading",
                                      file |-> dest]]
  /\ UNCHANGED <<step, content, medium, temps, dest, destMedium>>

\* ... and unpickles the file it opened, which may no longer be the destination.
Read(l) ==
  /\ reader[l].at = "reading"
  /\ reader' = [reader EXCEPT ![l].at = IF content[reader[l].file] = Whole THEN "loaded" ELSE "error"]
  /\ UNCHANGED <<step, content, medium, temps, dest, destMedium>>

StoreNext ==
  \/ \E s \in Saves : Create(s) \/ Dump(s) \/ Flush(s) \/ Sync(s) \/ Replace(s) \/ Fail(s) \/ Die(s)
  \/ WriteBack \/ LosePower
  \/ \E l \in Loads : Open(l) \/ Read(l)

StoreSpec == StoreInit /\ [][StoreNext]_storeVars

-----------------------------------------------------------------------------
(* Properties.                                                             *)

Files == Saves \cup {NoFile}
Handle == [at : {"idle", "missing", "reading", "loaded", "error", "killed"}, file : Files]

StoreTypeOK ==
  /\ step \in [Saves -> Running \cup {"idle", "saved", "failed", "killed"}]
  /\ content \in [Saves -> Empty..Whole] /\ medium \in [Saves -> Empty..Whole]
  /\ temps \subseteq Saves
  /\ dest \in Files /\ destMedium \subseteq Files
  /\ reader \in [Loads -> Handle]

\* A loader never meets a torn file, whatever saves run, fail or die beside it and
\* whenever power is lost.
LoadsWholeModels == \A l \in Loads : reader[l].at # "error"

\* Whatever the destination may be after a loss of power is a whole model.
SurvivesPowerLoss == \A s \in destMedium \cap Saves : medium[s] = Whole

\* A save that returns or raises leaves no temporary file behind.
NoLitter ==
  [][\A s \in Saves : step[s] # step'[s] /\ step'[s] \in {"saved", "failed"} => s \notin temps']_storeVars

\* A save that failed or died has not become the destination, and never will be.
FailedSaveIsInvisible ==
  \A s \in Saves : step[s] \in Running \cup {"failed", "killed"} => s \notin destMedium \cup {dest}

-----------------------------------------------------------------------------
(* The promise: an atomic store.                                            *)

Promised == INSTANCE AtomicStore WITH
  Nothing <- NoFile,
  stored <- dest,
  earlier <- destMedium \cup {dest},
  saving <- [s \in Saves |-> IF step[s] \in Running THEN "running" ELSE step[s]],
  loaded <- [l \in Loads |-> IF reader[l].at = "idle" THEN "idle"
                            ELSE IF reader[l].at = "missing" THEN "none"
                            ELSE IF reader[l].at = "error" THEN "torn"
                            ELSE reader[l].file]

\* save_model is atomic: every step is one of the promised store's, or none, and a load
\* returns a model that was stored (the promised store has no "torn").
ImplementsAtomicStore == Promised!Spec
=============================================================================
