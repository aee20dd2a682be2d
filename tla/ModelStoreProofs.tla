-------------------------- MODULE ModelStoreProofs --------------------------
(***************************************************************************)
(* Theorems about ModelStore for any saves and loads: torn files are never *)
(* loaded, no loss of power leaves one at the destination, a save that did *)
(* not return is never seen, and model_io implements AtomicStore.          *)
(***************************************************************************)
EXTENDS ModelStore, TLAPS

(* Once synced, a whole file is on the medium, and no loss of power can    *)
(* tear it again, because what is left lies between medium and content.    *)
SyncedIsDurable ==
  /\ \A s \in Saves : medium[s] <= content[s]
  /\ \A s \in Saves : step[s] \in {"idle", "dumping"} => content[s] = Empty
  /\ \A s \in Saves : step[s] = "flushed" => content[s] = Whole
  /\ \A s \in Saves : step[s] \in {"synced", "saved"} =>
       medium[s] = Whole /\ content[s] = Whole

(* Only saves that returned are, or may come back as, the destination.     *)
DestIsSaved ==
  /\ dest \in destMedium
  /\ \A s \in destMedium \cap Saves : step[s] = "saved"

(* Loads hold open the files of saves that returned.                       *)
ReadersHoldSaved ==
  \A l \in Loads :
    /\ reader[l].at = "reading" => reader[l].file \in Saves
                                   /\ step[reader[l].file] = "saved"
    /\ reader[l].at # "error"

IInv == StoreTypeOK /\ SyncedIsDurable /\ DestIsSaved /\ ReadersHoldSaved
-----------------------------------------------------------------------------
(* In every reachable state of any saves and loads, with any failures.     *)
THEOREM Inductive == StoreSpec => []IInv
<1> USE NoFileIsNoSave DEF Empty, Part, Whole, Running, Files, Handle, Goto
<1>1. StoreInit => IInv
  BY DEF StoreInit, IInv, StoreTypeOK, SyncedIsDurable, DestIsSaved, ReadersHoldSaved
<1>2. IInv /\ [StoreNext]_storeVars => IInv'
  <2> SUFFICES ASSUME IInv, [StoreNext]_storeVars PROVE IInv'
    OBVIOUS
  <2>1. ASSUME NEW s \in Saves, Create(s) PROVE IInv'
    <3>1. StoreTypeOK'
      BY <2>1 DEF IInv, StoreTypeOK, Create
    <3>2. SyncedIsDurable'
      BY <2>1 DEF IInv, StoreTypeOK, SyncedIsDurable, Create
    <3>3. DestIsSaved'
      BY <2>1 DEF IInv, StoreTypeOK, SyncedIsDurable, DestIsSaved, Create
    <3>4. ReadersHoldSaved'
      BY <2>1 DEF IInv, StoreTypeOK, SyncedIsDurable, DestIsSaved, ReadersHoldSaved, Create
    <3> QED BY <3>1, <3>2, <3>3, <3>4 DEF IInv
  <2>2. ASSUME NEW s \in Saves, Dump(s) PROVE IInv'
    <3>1. StoreTypeOK'
      BY <2>2 DEF IInv, StoreTypeOK, Dump
    <3>2. SyncedIsDurable'
      BY <2>2 DEF IInv, StoreTypeOK, SyncedIsDurable, Dump
    <3>3. DestIsSaved'
      BY <2>2 DEF IInv, StoreTypeOK, SyncedIsDurable, DestIsSaved, Dump
    <3>4. ReadersHoldSaved'
      BY <2>2 DEF IInv, StoreTypeOK, SyncedIsDurable, DestIsSaved, ReadersHoldSaved, Dump
    <3> QED BY <3>1, <3>2, <3>3, <3>4 DEF IInv
  <2>3. ASSUME NEW s \in Saves, Flush(s) PROVE IInv'
    <3>1. StoreTypeOK'
      BY <2>3 DEF IInv, StoreTypeOK, Flush
    <3>2. SyncedIsDurable'
      BY <2>3 DEF IInv, StoreTypeOK, SyncedIsDurable, Flush
    <3>3. DestIsSaved'
      BY <2>3 DEF IInv, StoreTypeOK, SyncedIsDurable, DestIsSaved, Flush
    <3>4. ReadersHoldSaved'
      BY <2>3 DEF IInv, StoreTypeOK, SyncedIsDurable, DestIsSaved, ReadersHoldSaved, Flush
    <3> QED BY <3>1, <3>2, <3>3, <3>4 DEF IInv
  <2>4. ASSUME NEW s \in Saves, Sync(s) PROVE IInv'
    <3>1. StoreTypeOK'
      BY <2>4 DEF IInv, StoreTypeOK, Sync
    <3>2. SyncedIsDurable'
      BY <2>4 DEF IInv, StoreTypeOK, SyncedIsDurable, Sync
    <3>3. DestIsSaved'
      BY <2>4 DEF IInv, StoreTypeOK, SyncedIsDurable, DestIsSaved, Sync
    <3>4. ReadersHoldSaved'
      BY <2>4 DEF IInv, StoreTypeOK, SyncedIsDurable, DestIsSaved, ReadersHoldSaved, Sync
    <3> QED BY <3>1, <3>2, <3>3, <3>4 DEF IInv
  <2>5. ASSUME NEW s \in Saves, Replace(s) PROVE IInv'
    <3>1. StoreTypeOK'
      BY <2>5 DEF IInv, StoreTypeOK, Replace
    <3>2. SyncedIsDurable'
      BY <2>5 DEF IInv, StoreTypeOK, SyncedIsDurable, Replace
    <3>3. DestIsSaved'
      BY <2>5 DEF IInv, StoreTypeOK, SyncedIsDurable, DestIsSaved, Replace
    <3>4. ReadersHoldSaved'
      BY <2>5 DEF IInv, StoreTypeOK, SyncedIsDurable, DestIsSaved, ReadersHoldSaved, Replace
    <3> QED BY <3>1, <3>2, <3>3, <3>4 DEF IInv
  <2>6. ASSUME NEW s \in Saves, Fail(s) PROVE IInv'
    <3>1. StoreTypeOK'
      BY <2>6 DEF IInv, StoreTypeOK, Fail
    <3>2. SyncedIsDurable'
      BY <2>6 DEF IInv, StoreTypeOK, SyncedIsDurable, Fail
    <3>3. DestIsSaved'
      BY <2>6 DEF IInv, StoreTypeOK, SyncedIsDurable, DestIsSaved, Fail
    <3>4. ReadersHoldSaved'
      BY <2>6 DEF IInv, StoreTypeOK, SyncedIsDurable, DestIsSaved, ReadersHoldSaved, Fail
    <3> QED BY <3>1, <3>2, <3>3, <3>4 DEF IInv
  <2>7. ASSUME NEW s \in Saves, Die(s) PROVE IInv'
    <3>1. StoreTypeOK'
      BY <2>7 DEF IInv, StoreTypeOK, Die
    <3>2. SyncedIsDurable'
      BY <2>7 DEF IInv, StoreTypeOK, SyncedIsDurable, Die
    <3>3. DestIsSaved'
      BY <2>7 DEF IInv, StoreTypeOK, SyncedIsDurable, DestIsSaved, Die
    <3>4. ReadersHoldSaved'
      BY <2>7 DEF IInv, StoreTypeOK, SyncedIsDurable, DestIsSaved, ReadersHoldSaved, Die
    <3> QED BY <3>1, <3>2, <3>3, <3>4 DEF IInv
  <2>8. ASSUME WriteBack PROVE IInv'
    <3>1. StoreTypeOK'
      BY <2>8 DEF IInv, StoreTypeOK, WriteBack
    <3>2. SyncedIsDurable'
      BY <2>8 DEF IInv, StoreTypeOK, SyncedIsDurable, WriteBack
    <3>3. DestIsSaved'
      BY <2>8 DEF IInv, StoreTypeOK, SyncedIsDurable, DestIsSaved, WriteBack
    <3>4. ReadersHoldSaved'
      BY <2>8 DEF IInv, StoreTypeOK, SyncedIsDurable, DestIsSaved, ReadersHoldSaved, WriteBack
    <3> QED BY <3>1, <3>2, <3>3, <3>4 DEF IInv
  <2>9. ASSUME LosePower PROVE IInv'
    <3>1. StoreTypeOK'
      BY <2>9 DEF IInv, StoreTypeOK, LosePower
    <3>2. SyncedIsDurable'
      BY <2>9 DEF IInv, StoreTypeOK, SyncedIsDurable, LosePower
    <3>3. DestIsSaved'
      BY <2>9 DEF IInv, StoreTypeOK, SyncedIsDurable, DestIsSaved, LosePower
    <3>4. ReadersHoldSaved'
      BY <2>9 DEF IInv, StoreTypeOK, SyncedIsDurable, DestIsSaved, ReadersHoldSaved, LosePower
    <3> QED BY <3>1, <3>2, <3>3, <3>4 DEF IInv
  <2>10. ASSUME NEW l \in Loads, Open(l) PROVE IInv'
    <3>1. StoreTypeOK'
      BY <2>10 DEF IInv, StoreTypeOK, Open
    <3>2. SyncedIsDurable'
      BY <2>10 DEF IInv, StoreTypeOK, SyncedIsDurable, Open
    <3>3. DestIsSaved'
      BY <2>10 DEF IInv, StoreTypeOK, SyncedIsDurable, DestIsSaved, Open
    <3>4. ReadersHoldSaved'
      BY <2>10 DEF IInv, StoreTypeOK, SyncedIsDurable, DestIsSaved, ReadersHoldSaved, Open
    <3> QED BY <3>1, <3>2, <3>3, <3>4 DEF IInv
  <2>11. ASSUME NEW l \in Loads, Read(l) PROVE IInv'
    <3>1. StoreTypeOK'
      BY <2>11 DEF IInv, StoreTypeOK, Read
    <3>2. SyncedIsDurable'
      BY <2>11 DEF IInv, StoreTypeOK, SyncedIsDurable, Read
    <3>3. DestIsSaved'
      BY <2>11 DEF IInv, StoreTypeOK, SyncedIsDurable, DestIsSaved, Read
    <3>4. ReadersHoldSaved'
      BY <2>11 DEF IInv, StoreTypeOK, SyncedIsDurable, DestIsSaved, ReadersHoldSaved, Read
    <3> QED BY <3>1, <3>2, <3>3, <3>4 DEF IInv
  <2>12. ASSUME UNCHANGED storeVars PROVE IInv'
    BY <2>12 DEF storeVars, IInv, StoreTypeOK, SyncedIsDurable, DestIsSaved, ReadersHoldSaved
  <2> QED
    BY <2>1, <2>2, <2>3, <2>4, <2>5, <2>6, <2>7, <2>8, <2>9, <2>10, <2>11, <2>12 DEF StoreNext
<1> QED BY <1>1, <1>2, PTL DEF StoreSpec

(* The variables keep their types.                                         *)
THEOREM StoreTypeCorrect == StoreSpec => []StoreTypeOK
<1>1. IInv => StoreTypeOK BY DEF IInv
<1> QED BY <1>1, Inductive, PTL

(* load_model never unpickles a torn file.                                 *)
THEOREM LoadsAreWhole == StoreSpec => []LoadsWholeModels
<1>1. IInv => LoadsWholeModels BY DEF IInv, ReadersHoldSaved, LoadsWholeModels
<1> QED BY <1>1, Inductive, PTL

(* The destination is a whole model after any loss of power.               *)
THEOREM DestinationIsDurable == StoreSpec => []SurvivesPowerLoss
<1>1. IInv => SurvivesPowerLoss
  BY DEF IInv, StoreTypeOK, SyncedIsDurable, DestIsSaved, SurvivesPowerLoss
<1> QED BY <1>1, Inductive, PTL

(* A save that has not returned is not the destination.                    *)
THEOREM OnlyReturnedSavesShow == StoreSpec => []FailedSaveIsInvisible
<1>1. IInv => FailedSaveIsInvisible
  BY DEF IInv, DestIsSaved, FailedSaveIsInvisible, Running
<1> QED BY <1>1, Inductive, PTL

(* A save that returns or raises has removed its temporary file.           *)
THEOREM EndedSavesLeaveNoLitter == StoreSpec => NoLitter
<1>1. StoreTypeOK /\ [StoreNext]_storeVars =>
        [\A s \in Saves : step[s] # step'[s] /\ step'[s] \in {"saved", "failed"}
                         => s \notin temps']_storeVars
  BY DEF StoreTypeOK, StoreNext, storeVars, Running, Goto, Create, Dump, Flush, Sync, Replace, Fail,
         Die, WriteBack, LosePower, Open, Read
<1> QED BY <1>1, StoreTypeCorrect, PTL DEF StoreSpec, NoLitter
-----------------------------------------------------------------------------
(* save_model and load_model implement the atomic store: each step of the  *)
(* protocol is a step of AtomicStore or leaves its state alone.            *)
THEOREM SaveIsAtomic == StoreSpec => ImplementsAtomicStore
<1> USE NoFileIsNoSave DEF Running, Files, Handle, Goto
<1>1. StoreInit => Promised!Init
  BY DEF StoreInit, Promised!Init
<1>2. IInv /\ [StoreNext]_storeVars => [Promised!Next]_(Promised!vars)
  <2> SUFFICES ASSUME IInv, [StoreNext]_storeVars PROVE [Promised!Next]_(Promised!vars)
    OBVIOUS
  <2> USE DEF IInv, StoreTypeOK, DestIsSaved, ReadersHoldSaved
  <2>1. ASSUME NEW s \in Saves, Create(s) PROVE Promised!Start(s)
    <3> DEFINE saving == [c \in Saves |-> IF step[c] \in Running THEN "running" ELSE step[c]]
    <3>1. /\ step[s] = "idle" /\ step' = [step EXCEPT ![s] = "dumping"]
          /\ UNCHANGED <<dest, destMedium, reader>>
      BY <2>1 DEF Create
    <3>2. saving[s] = "idle" /\ saving' = [saving EXCEPT ![s] = "running"]
      BY <3>1
    <3> QED
      BY <3>1, <3>2 DEF Promised!Start
  <2>2. ASSUME NEW s \in Saves, Dump(s) \/ Flush(s) \/ Sync(s)
        PROVE UNCHANGED Promised!vars
    BY <2>2 DEF Dump, Flush, Sync, Promised!vars
  <2>3. ASSUME NEW s \in Saves, Replace(s) PROVE Promised!Commit(s)
    <3> DEFINE saving == [c \in Saves |-> IF step[c] \in Running THEN "running" ELSE step[c]]
    <3>1. /\ step[s] = "synced" /\ step' = [step EXCEPT ![s] = "saved"]
          /\ dest' = s /\ destMedium' = destMedium \cup {s} /\ reader' = reader
      BY <2>3 DEF Replace
    <3>2. saving[s] = "running" /\ saving' = [saving EXCEPT ![s] = "saved"]
      BY <3>1
    <3> QED
      BY <3>1, <3>2 DEF Promised!Commit
  <2>4. ASSUME NEW s \in Saves, Fail(s) \/ Die(s) PROVE Promised!Abort(s)
    <3> DEFINE saving == [c \in Saves |-> IF step[c] \in Running THEN "running" ELSE step[c]]
    <3>1. PICK outcome \in {"failed", "killed"} :
             step' = [step EXCEPT ![s] = outcome] /\ UNCHANGED <<dest, destMedium, reader>>
      BY <2>4 DEF Fail, Die
    <3>2. step[s] \in Running
      BY <2>4 DEF Fail, Die
    <3>3. saving' = [saving EXCEPT ![s] = outcome]
      BY <3>1, <3>2
    <3> QED BY <3>1, <3>2, <3>3 DEF Promised!Abort
  <2>5. ASSUME WriteBack PROVE Promised!Persist
    BY <2>5 DEF WriteBack, Promised!Persist
  <2>6. ASSUME LosePower PROVE Promised!LosePower
    BY <2>6 DEF LosePower, Promised!LosePower
  <2>7. ASSUME NEW l \in Loads, Open(l) PROVE Promised!Load(l)
    BY <2>7 DEF Open, Promised!Load
  <2>8. ASSUME NEW l \in Loads, Read(l) PROVE UNCHANGED Promised!vars
    <3>1. reader[l].file \in Saves /\ content[reader[l].file] = Whole
      BY <2>8 DEF SyncedIsDurable, Read
    <3>2. /\ reader[l].at = "reading"
          /\ reader' = [reader EXCEPT ![l].at = "loaded"]
          /\ UNCHANGED <<step, content, medium, temps, dest, destMedium>>
      BY <2>8, <3>1 DEF Read
    <3> QED BY <3>2 DEF Promised!vars
  <2>9. ASSUME UNCHANGED storeVars PROVE UNCHANGED Promised!vars
    BY <2>9 DEF storeVars, Promised!vars
  <2> QED
    BY <2>1, <2>2, <2>3, <2>4, <2>5, <2>6, <2>7, <2>8, <2>9 DEF StoreNext, Promised!Next
<1> QED BY <1>1, <1>2, Inductive, PTL DEF StoreSpec, ImplementsAtomicStore, Promised!Spec
=============================================================================
