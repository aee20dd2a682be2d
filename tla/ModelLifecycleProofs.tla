------------------------ MODULE ModelLifecycleProofs ------------------------
(***************************************************************************)
(* Theorems about ModelLifecycle for any number of fits, of any kind and   *)
(* failing anywhere.  The strengthening says, stage by stage, what the     *)
(* fit in progress has already assigned or cleared; a fit that raises      *)
(* keeps only the clauses that hold in every stage.                        *)
(***************************************************************************)
EXTENDS ModelLifecycle, TLAPS

Relating  == {"induce", "score"}
Building  == {"validate", "encode", "interact", "boost", "train",
              "calibrate", "gate", "attach"}
Measured  == Building \ {"validate"}
Encoded   == Measured \ {"encode"}
Cleared   == {"train", "calibrate", "gate", "attach"}
Trained   == {"calibrate", "gate", "attach"}
Confident == {"gate", "attach"}

Mine(a) == owner[a] \in {0, fits}

(* What every stage relies on: numbers of fits come from the past, a fit   *)
(* in progress has a kind, and a stage belongs to its kind of fit.         *)
Numbering ==
  /\ \A a \in Attributes : owner[a] <= fits
  /\ stage # "idle" => fits \in Fits /\ kind[fits] \in Kinds
  /\ stage \in Relating => kind[fits] = "relational" /\ mode = "relational"
  /\ stage \in Building => kind[fits] # "relational"
  /\ stage = "attach" => kind[fits] = "event"

(* No replay state while a fit works, and none without its own predictor.  *)
NoReplayDuringFit ==
  stage \in Relating \cup Building => owner["schema"] = 0 /\ owner["tmap"] = 0

(* What the fit in progress has assigned by now.                           *)
Assigned ==
  /\ stage = "score" => owner["graph"] = fits
  /\ stage \in Building => Mine("prep") /\ Mine("interactions") /\ Mine("heads")
  /\ stage \in Measured => owner["width"] = fits
  /\ stage \in Encoded =>
       mode \in TabularModes /\ (kind[fits] = "event" => owner["prep"] = fits)
  /\ stage \in Cleared => Mine("members")
  /\ stage \in Trained => owner["pred"] = fits
  /\ stage \in Confident => Mine("conf")

Clocks ==
  /\ JudgedByOwnClock
  /\ stage = "reset" => pending = (IF kind[fits] = "event" THEN fits ELSE 0)

Decisions ==
  /\ DecisionsAreOfServedModel
  /\ stage \in Relating \cup Building => policy = 0 /\ last = 0

(* A fit that returned is over: a number, a kind, and no other mode.       *)
Returned ==
  stage = "idle" /\ outcome = "ok" =>
     /\ fits \in Fits
     /\ mode \in TabularModes \cup {"relational"}

IInv ==
  /\ TypeOK
  /\ Numbering /\ NoReplayDuringFit /\ Assigned
  /\ Clocks /\ Decisions /\ Returned
  /\ EventReplayIsWhole /\ ServesOneFit

-----------------------------------------------------------------------------
(* For every number of fits: what the fit in progress has assigned by each *)
(* stage, and what every ended fit leaves, holds in every reachable state. *)
THEOREM Inductive == Spec => []IInv
<1>1. Init => IInv
  BY MaxFitsAssumption
  DEF Init, IInv, TypeOK, Numbering, NoReplayDuringFit, Assigned, Mine, Clocks,
      JudgedByOwnClock, Decisions, DecisionsAreOfServedModel, Returned,
      EventReplayIsWhole, ServesOneFit, Attributes, Tabular, Event, Relational,
      Stages, Relating, Building, Measured, Encoded, Cleared, Trained, Confident,
      TabularModes, Fits, Owner
<1>2. IInv /\ [Next]_vars => IInv'
  <2> SUFFICES ASSUME IInv, [Next]_vars PROVE IInv'
    OBVIOUS
  <2> USE MaxFitsAssumption
      DEF Assign, Attributes, Tabular, Event, Relational, TabularModes, Fits, Owner,
          Relating, Building, Measured, Encoded, Cleared, Trained, Confident
  <2>1. ASSUME NEW k \in Kinds, Fit(k) PROVE IInv'
    <3>1. TypeOK'
      BY <2>1 DEF IInv, TypeOK, Numbering, Fit, Stages, Kinds
    <3>2. Numbering'
      BY <2>1 DEF IInv, TypeOK, Numbering, Fit, Kinds
    <3>3. (NoReplayDuringFit /\ Assigned)'
      BY <2>1 DEF IInv, TypeOK, Numbering, NoReplayDuringFit, Assigned, Mine,
          Fit
    <3>4. (Clocks /\ Decisions /\ Returned)'
      BY <2>1 DEF IInv, TypeOK, Numbering, Clocks, JudgedByOwnClock,
          Decisions, DecisionsAreOfServedModel, Returned, Assigned, Fit,
          Stages
    <3>5. EventReplayIsWhole'
      BY <2>1 DEF IInv, TypeOK, Numbering, NoReplayDuringFit, Assigned,
          EventReplayIsWhole, Fit
    <3>6. ServesOneFit'
      BY <2>1 DEF IInv, TypeOK, Numbering, NoReplayDuringFit, Assigned, Mine,
          ServesOneFit, Fit
    <3> QED BY <3>1, <3>2, <3>3, <3>4, <3>5, <3>6 DEF IInv
  <2>2. ASSUME Reset PROVE IInv'
    <3>1. TypeOK'
      BY <2>2 DEF IInv, TypeOK, Numbering, Reset, Stages, Kinds
    <3>2. Numbering'
      BY <2>2 DEF IInv, TypeOK, Numbering, Reset, Kinds
    <3>3. (NoReplayDuringFit /\ Assigned)'
      BY <2>2 DEF IInv, TypeOK, Numbering, NoReplayDuringFit, Assigned, Mine,
          Reset
    <3>4. (Clocks /\ Decisions /\ Returned)'
      BY <2>2 DEF IInv, TypeOK, Numbering, Clocks, JudgedByOwnClock,
          Decisions, DecisionsAreOfServedModel, Returned, Assigned, Reset,
          Stages
    <3>5. EventReplayIsWhole'
      BY <2>2 DEF IInv, TypeOK, Numbering, NoReplayDuringFit, Assigned,
          EventReplayIsWhole, Reset
    <3>6. ServesOneFit'
      BY <2>2 DEF IInv, TypeOK, Numbering, NoReplayDuringFit, Assigned, Mine,
          ServesOneFit, Reset
    <3> QED BY <3>1, <3>2, <3>3, <3>4, <3>5, <3>6 DEF IInv
  <2>3. ASSUME StoreGraph PROVE IInv'
    <3>1. TypeOK'
      BY <2>3 DEF IInv, TypeOK, Numbering, StoreGraph, Stages, Kinds
    <3>2. Numbering'
      BY <2>3 DEF IInv, TypeOK, Numbering, StoreGraph, Kinds
    <3>3. (NoReplayDuringFit /\ Assigned)'
      BY <2>3 DEF IInv, TypeOK, Numbering, NoReplayDuringFit, Assigned, Mine,
          StoreGraph
    <3>4. (Clocks /\ Decisions /\ Returned)'
      BY <2>3 DEF IInv, TypeOK, Numbering, Clocks, JudgedByOwnClock,
          Decisions, DecisionsAreOfServedModel, Returned, Assigned,
          StoreGraph, Stages
    <3>5. EventReplayIsWhole'
      BY <2>3 DEF IInv, TypeOK, Numbering, NoReplayDuringFit, Assigned,
          EventReplayIsWhole, StoreGraph
    <3>6. ServesOneFit'
      BY <2>3 DEF IInv, TypeOK, Numbering, NoReplayDuringFit, Assigned, Mine,
          ServesOneFit, StoreGraph
    <3> QED BY <3>1, <3>2, <3>3, <3>4, <3>5, <3>6 DEF IInv
  <2>4. ASSUME Induce PROVE IInv'
    <3>1. TypeOK'
      BY <2>4 DEF IInv, TypeOK, Numbering, Induce, Stages, Kinds
    <3>2. Numbering'
      BY <2>4 DEF IInv, TypeOK, Numbering, Induce, Kinds
    <3>3. (NoReplayDuringFit /\ Assigned)'
      BY <2>4 DEF IInv, TypeOK, Numbering, NoReplayDuringFit, Assigned, Mine,
          Induce
    <3>4. (Clocks /\ Decisions /\ Returned)'
      BY <2>4 DEF IInv, TypeOK, Numbering, Clocks, JudgedByOwnClock,
          Decisions, DecisionsAreOfServedModel, Returned, Assigned, Induce,
          Stages
    <3>5. EventReplayIsWhole'
      BY <2>4 DEF IInv, TypeOK, Numbering, NoReplayDuringFit, Assigned,
          EventReplayIsWhole, Induce
    <3>6. ServesOneFit'
      BY <2>4 DEF IInv, TypeOK, Numbering, NoReplayDuringFit, Assigned, Mine,
          ServesOneFit, Induce
    <3> QED BY <3>1, <3>2, <3>3, <3>4, <3>5, <3>6 DEF IInv
  <2>5. ASSUME RecordWidth PROVE IInv'
    <3>1. TypeOK'
      BY <2>5 DEF IInv, TypeOK, Numbering, RecordWidth, Stages, Kinds
    <3>2. Numbering'
      BY <2>5 DEF IInv, TypeOK, Numbering, RecordWidth, Kinds
    <3>3. (NoReplayDuringFit /\ Assigned)'
      BY <2>5 DEF IInv, TypeOK, Numbering, NoReplayDuringFit, Assigned, Mine,
          RecordWidth
    <3>4. (Clocks /\ Decisions /\ Returned)'
      BY <2>5 DEF IInv, TypeOK, Numbering, Clocks, JudgedByOwnClock,
          Decisions, DecisionsAreOfServedModel, Returned, Assigned,
          RecordWidth, Stages
    <3>5. EventReplayIsWhole'
      BY <2>5 DEF IInv, TypeOK, Numbering, NoReplayDuringFit, Assigned,
          EventReplayIsWhole, RecordWidth
    <3>6. ServesOneFit'
      BY <2>5 DEF IInv, TypeOK, Numbering, NoReplayDuringFit, Assigned, Mine,
          ServesOneFit, RecordWidth
    <3> QED BY <3>1, <3>2, <3>3, <3>4, <3>5, <3>6 DEF IInv
  <2>6. ASSUME Encode PROVE IInv'
    <3>1. TypeOK'
      BY <2>6 DEF IInv, TypeOK, Numbering, Encode, Stages, Kinds
    <3>2. Numbering'
      BY <2>6 DEF IInv, TypeOK, Numbering, Encode, Kinds
    <3>3. (NoReplayDuringFit /\ Assigned)'
      BY <2>6 DEF IInv, TypeOK, Numbering, NoReplayDuringFit, Assigned, Mine,
          Encode
    <3>4. (Clocks /\ Decisions /\ Returned)'
      BY <2>6 DEF IInv, TypeOK, Numbering, Clocks, JudgedByOwnClock,
          Decisions, DecisionsAreOfServedModel, Returned, Assigned, Encode,
          Stages
    <3>5. EventReplayIsWhole'
      BY <2>6 DEF IInv, TypeOK, Numbering, NoReplayDuringFit, Assigned,
          EventReplayIsWhole, Encode
    <3>6. ServesOneFit'
      BY <2>6 DEF IInv, TypeOK, Numbering, NoReplayDuringFit, Assigned, Mine,
          ServesOneFit, Encode
    <3> QED BY <3>1, <3>2, <3>3, <3>4, <3>5, <3>6 DEF IInv
  <2>7. ASSUME Interact PROVE IInv'
    <3>1. TypeOK'
      BY <2>7 DEF IInv, TypeOK, Numbering, Interact, Stages, Kinds
    <3>2. Numbering'
      BY <2>7 DEF IInv, TypeOK, Numbering, Interact, Kinds
    <3>3. (NoReplayDuringFit /\ Assigned)'
      BY <2>7 DEF IInv, TypeOK, Numbering, NoReplayDuringFit, Assigned, Mine,
          Interact
    <3>4. (Clocks /\ Decisions /\ Returned)'
      BY <2>7 DEF IInv, TypeOK, Numbering, Clocks, JudgedByOwnClock,
          Decisions, DecisionsAreOfServedModel, Returned, Assigned, Interact,
          Stages
    <3>5. EventReplayIsWhole'
      BY <2>7 DEF IInv, TypeOK, Numbering, NoReplayDuringFit, Assigned,
          EventReplayIsWhole, Interact
    <3>6. ServesOneFit'
      BY <2>7 DEF IInv, TypeOK, Numbering, NoReplayDuringFit, Assigned, Mine,
          ServesOneFit, Interact
    <3> QED BY <3>1, <3>2, <3>3, <3>4, <3>5, <3>6 DEF IInv
  <2>8. ASSUME ClearMembers PROVE IInv'
    <3>1. TypeOK'
      BY <2>8 DEF IInv, TypeOK, Numbering, ClearMembers, Stages, Kinds
    <3>2. Numbering'
      BY <2>8 DEF IInv, TypeOK, Numbering, ClearMembers, Kinds
    <3>3. (NoReplayDuringFit /\ Assigned)'
      BY <2>8 DEF IInv, TypeOK, Numbering, NoReplayDuringFit, Assigned, Mine,
          ClearMembers
    <3>4. (Clocks /\ Decisions /\ Returned)'
      BY <2>8 DEF IInv, TypeOK, Numbering, Clocks, JudgedByOwnClock,
          Decisions, DecisionsAreOfServedModel, Returned, Assigned,
          ClearMembers, Stages
    <3>5. EventReplayIsWhole'
      BY <2>8 DEF IInv, TypeOK, Numbering, NoReplayDuringFit, Assigned,
          EventReplayIsWhole, ClearMembers
    <3>6. ServesOneFit'
      BY <2>8 DEF IInv, TypeOK, Numbering, NoReplayDuringFit, Assigned, Mine,
          ServesOneFit, ClearMembers
    <3> QED BY <3>1, <3>2, <3>3, <3>4, <3>5, <3>6 DEF IInv
  <2>9. ASSUME Train PROVE IInv'
    <3>1. TypeOK'
      BY <2>9 DEF IInv, TypeOK, Numbering, Train, Stages, Kinds
    <3>2. Numbering'
      BY <2>9 DEF IInv, TypeOK, Numbering, Train, Kinds
    <3>3. (NoReplayDuringFit /\ Assigned)'
      BY <2>9 DEF IInv, TypeOK, Numbering, NoReplayDuringFit, Assigned, Mine,
          Train
    <3>4. (Clocks /\ Decisions /\ Returned)'
      BY <2>9 DEF IInv, TypeOK, Numbering, Clocks, JudgedByOwnClock,
          Decisions, DecisionsAreOfServedModel, Returned, Assigned, Train,
          Stages
    <3>5. EventReplayIsWhole'
      BY <2>9 DEF IInv, TypeOK, Numbering, NoReplayDuringFit, Assigned,
          EventReplayIsWhole, Train
    <3>6. ServesOneFit'
      BY <2>9 DEF IInv, TypeOK, Numbering, NoReplayDuringFit, Assigned, Mine,
          ServesOneFit, Train
    <3> QED BY <3>1, <3>2, <3>3, <3>4, <3>5, <3>6 DEF IInv
  <2>10. ASSUME Calibrate PROVE IInv'
    <3>1. TypeOK'
      BY <2>10 DEF IInv, TypeOK, Numbering, Calibrate, Stages, Kinds
    <3>2. Numbering'
      BY <2>10 DEF IInv, TypeOK, Numbering, Calibrate, Kinds
    <3>3. (NoReplayDuringFit /\ Assigned)'
      BY <2>10 DEF IInv, TypeOK, Numbering, NoReplayDuringFit, Assigned, Mine,
          Calibrate
    <3>4. (Clocks /\ Decisions /\ Returned)'
      BY <2>10 DEF IInv, TypeOK, Numbering, Clocks, JudgedByOwnClock,
          Decisions, DecisionsAreOfServedModel, Returned, Assigned, Calibrate,
          Stages
    <3>5. EventReplayIsWhole'
      BY <2>10 DEF IInv, TypeOK, Numbering, NoReplayDuringFit, Assigned,
          EventReplayIsWhole, Calibrate
    <3>6. ServesOneFit'
      BY <2>10 DEF IInv, TypeOK, Numbering, NoReplayDuringFit, Assigned, Mine,
          ServesOneFit, Calibrate
    <3> QED BY <3>1, <3>2, <3>3, <3>4, <3>5, <3>6 DEF IInv
  <2>11. ASSUME Admit PROVE IInv'
    <3>1. TypeOK'
      BY <2>11 DEF IInv, TypeOK, Numbering, Admit, Stages, Kinds
    <3>2. Numbering'
      BY <2>11 DEF IInv, TypeOK, Numbering, Admit, Kinds
    <3>3. (NoReplayDuringFit /\ Assigned)'
      BY <2>11 DEF IInv, TypeOK, Numbering, NoReplayDuringFit, Assigned, Mine,
          Admit
    <3>4. (Clocks /\ Decisions /\ Returned)'
      BY <2>11 DEF IInv, TypeOK, Numbering, Clocks, JudgedByOwnClock,
          Decisions, DecisionsAreOfServedModel, Returned, Assigned, Admit,
          Stages
    <3>5. EventReplayIsWhole'
      BY <2>11 DEF IInv, TypeOK, Numbering, NoReplayDuringFit, Assigned,
          EventReplayIsWhole, Admit
    <3>6. ServesOneFit'
      BY <2>11 DEF IInv, TypeOK, Numbering, NoReplayDuringFit, Assigned, Mine,
          ServesOneFit, Admit
    <3> QED BY <3>1, <3>2, <3>3, <3>4, <3>5, <3>6 DEF IInv
  <2>12. ASSUME Attach PROVE IInv'
    <3>1. TypeOK'
      BY <2>12 DEF IInv, TypeOK, Numbering, Attach, Stages, Kinds
    <3>2. Numbering'
      BY <2>12 DEF IInv, TypeOK, Numbering, Attach, Kinds
    <3>3. (NoReplayDuringFit /\ Assigned)'
      BY <2>12 DEF IInv, TypeOK, Numbering, NoReplayDuringFit, Assigned, Mine,
          Attach
    <3>4. (Clocks /\ Decisions /\ Returned)'
      BY <2>12 DEF IInv, TypeOK, Numbering, Clocks, JudgedByOwnClock,
          Decisions, DecisionsAreOfServedModel, Returned, Assigned, Attach,
          Stages
    <3>5. EventReplayIsWhole'
      BY <2>12 DEF IInv, TypeOK, Numbering, NoReplayDuringFit, Assigned,
          EventReplayIsWhole, Attach
    <3>6. ServesOneFit'
      BY <2>12 DEF IInv, TypeOK, Numbering, NoReplayDuringFit, Assigned, Mine,
          ServesOneFit, Attach
    <3> QED BY <3>1, <3>2, <3>3, <3>4, <3>5, <3>6 DEF IInv
  <2>13. ASSUME Raise PROVE IInv'
    <3>1. TypeOK'
      <4>1. stage' \in Stages /\ outcome' \in {"none", "ok", "failed"}
        BY <2>13 DEF Raise, Stages
      <4>2. pending' \in Owner /\ clock' \in Owner
        <5>1. pending \in Owner /\ clock \in Owner /\ 0 \in Owner
          BY DEF IInv, TypeOK
        <5>2. pending' \in {0, pending} /\ clock' \in {0, clock}
          BY <2>13 DEF Raise
        <5> QED
          BY <5>1, <5>2
      <4>3. UNCHANGED <<fits, kind, mode, owner, policy, last>>
        BY <2>13 DEF Raise
      <4> QED
        BY <4>1, <4>2, <4>3 DEF IInv, TypeOK
    <3>2. Numbering'
      BY <2>13 DEF IInv, TypeOK, Numbering, Raise, Kinds
    <3>3. (NoReplayDuringFit /\ Assigned)'
      BY <2>13 DEF IInv, TypeOK, Numbering, NoReplayDuringFit, Assigned, Mine,
          Raise
    <3>4. (Clocks /\ Decisions /\ Returned)'
      BY <2>13 DEF IInv, TypeOK, Numbering, Clocks, JudgedByOwnClock,
          Decisions, DecisionsAreOfServedModel, Returned, Assigned, Raise,
          Stages
    <3>5. EventReplayIsWhole'
      BY <2>13 DEF IInv, TypeOK, Numbering, NoReplayDuringFit, Assigned,
          EventReplayIsWhole, Raise
    <3>6. ServesOneFit'
      BY <2>13 DEF IInv, TypeOK, Numbering, NoReplayDuringFit, Assigned, Mine,
          ServesOneFit, Raise
    <3> QED BY <3>1, <3>2, <3>3, <3>4, <3>5, <3>6 DEF IInv
  <2>14. ASSUME ConfigureDecisions PROVE IInv'
    <3>1. TypeOK'
      BY <2>14 DEF IInv, TypeOK, Numbering, ConfigureDecisions, Stages, Kinds,
          IsFitted
    <3>2. Numbering'
      BY <2>14 DEF IInv, TypeOK, Numbering, ConfigureDecisions, Kinds,
          IsFitted
    <3>3. (NoReplayDuringFit /\ Assigned)'
      BY <2>14 DEF IInv, TypeOK, Numbering, NoReplayDuringFit, Assigned, Mine,
          ConfigureDecisions, IsFitted
    <3>4. (Clocks /\ Decisions /\ Returned)'
      BY <2>14 DEF IInv, TypeOK, Numbering, Clocks, JudgedByOwnClock,
          Decisions, DecisionsAreOfServedModel, Returned, Assigned,
          ConfigureDecisions, Stages, IsFitted
    <3>5. EventReplayIsWhole'
      BY <2>14 DEF IInv, TypeOK, Numbering, NoReplayDuringFit, Assigned,
          EventReplayIsWhole, ConfigureDecisions, IsFitted
    <3>6. ServesOneFit'
      BY <2>14 DEF IInv, TypeOK, Numbering, NoReplayDuringFit, Assigned, Mine,
          ServesOneFit, ConfigureDecisions, IsFitted
    <3> QED BY <3>1, <3>2, <3>3, <3>4, <3>5, <3>6 DEF IInv
  <2>15. ASSUME ClearDecisions PROVE IInv'
    <3>1. TypeOK'
      BY <2>15 DEF IInv, TypeOK, Numbering, ClearDecisions, Stages, Kinds
    <3>2. Numbering'
      BY <2>15 DEF IInv, TypeOK, Numbering, ClearDecisions, Kinds
    <3>3. (NoReplayDuringFit /\ Assigned)'
      BY <2>15 DEF IInv, TypeOK, Numbering, NoReplayDuringFit, Assigned, Mine,
          ClearDecisions
    <3>4. (Clocks /\ Decisions /\ Returned)'
      BY <2>15 DEF IInv, TypeOK, Numbering, Clocks, JudgedByOwnClock,
          Decisions, DecisionsAreOfServedModel, Returned, Assigned,
          ClearDecisions, Stages
    <3>5. EventReplayIsWhole'
      BY <2>15 DEF IInv, TypeOK, Numbering, NoReplayDuringFit, Assigned,
          EventReplayIsWhole, ClearDecisions
    <3>6. ServesOneFit'
      BY <2>15 DEF IInv, TypeOK, Numbering, NoReplayDuringFit, Assigned, Mine,
          ServesOneFit, ClearDecisions
    <3> QED BY <3>1, <3>2, <3>3, <3>4, <3>5, <3>6 DEF IInv
  <2>16. ASSUME PredictUnderPolicy PROVE IInv'
    <3>1. TypeOK'
      BY <2>16 DEF IInv, TypeOK, Numbering, PredictUnderPolicy, Stages, Kinds,
          IsFitted
    <3>2. Numbering'
      BY <2>16 DEF IInv, TypeOK, Numbering, PredictUnderPolicy, Kinds,
          IsFitted
    <3>3. (NoReplayDuringFit /\ Assigned)'
      BY <2>16 DEF IInv, TypeOK, Numbering, NoReplayDuringFit, Assigned, Mine,
          PredictUnderPolicy, IsFitted
    <3>4. (Clocks /\ Decisions /\ Returned)'
      BY <2>16 DEF IInv, TypeOK, Numbering, Clocks, JudgedByOwnClock,
          Decisions, DecisionsAreOfServedModel, Returned, Assigned,
          PredictUnderPolicy, Stages, IsFitted
    <3>5. EventReplayIsWhole'
      BY <2>16 DEF IInv, TypeOK, Numbering, NoReplayDuringFit, Assigned,
          EventReplayIsWhole, PredictUnderPolicy, IsFitted
    <3>6. ServesOneFit'
      BY <2>16 DEF IInv, TypeOK, Numbering, NoReplayDuringFit, Assigned, Mine,
          ServesOneFit, PredictUnderPolicy, IsFitted
    <3> QED BY <3>1, <3>2, <3>3, <3>4, <3>5, <3>6 DEF IInv
  <2>17. ASSUME Derive PROVE IInv'
    <3>1. TypeOK'
      BY <2>17 DEF IInv, TypeOK, Numbering, Derive, Stages, Kinds, IsFitted
    <3>2. Numbering'
      BY <2>17 DEF IInv, TypeOK, Numbering, Derive, Kinds, IsFitted
    <3>3. (NoReplayDuringFit /\ Assigned)'
      BY <2>17 DEF IInv, TypeOK, Numbering, NoReplayDuringFit, Assigned, Mine,
          Derive, IsFitted
    <3>4. (Clocks /\ Decisions /\ Returned)'
      BY <2>17 DEF IInv, TypeOK, Numbering, Clocks, JudgedByOwnClock,
          Decisions, DecisionsAreOfServedModel, Returned, Assigned, Derive,
          Stages, IsFitted
    <3>5. EventReplayIsWhole'
      BY <2>17 DEF IInv, TypeOK, Numbering, NoReplayDuringFit, Assigned,
          EventReplayIsWhole, Derive, IsFitted
    <3>6. ServesOneFit'
      BY <2>17 DEF IInv, TypeOK, Numbering, NoReplayDuringFit, Assigned, Mine,
          ServesOneFit, Derive, IsFitted
    <3> QED BY <3>1, <3>2, <3>3, <3>4, <3>5, <3>6 DEF IInv
  <2>18. ASSUME UNCHANGED vars PROVE IInv'
    BY <2>18
    DEF vars, IInv, TypeOK, Numbering, NoReplayDuringFit, Assigned, Mine, Clocks,
        JudgedByOwnClock, Decisions, DecisionsAreOfServedModel, Returned,
        EventReplayIsWhole, ServesOneFit
  <2> QED
    BY <2>1, <2>2, <2>3, <2>4, <2>5, <2>6, <2>7, <2>8, <2>9, <2>10, <2>11, <2>12, <2>13, <2>14, <2>15, <2>16, <2>17, <2>18 DEF Next
<1> QED BY <1>1, <1>2, PTL DEF Spec

(* Every owner, clock and certificate is a past fit, in every state.       *)
THEOREM LifecycleTypeCorrect == Spec => []TypeOK
<1>1. IInv => TypeOK BY DEF IInv
<1> QED BY <1>1, Inductive, PTL

(* A fit that returned serves only what it assigned itself, after any      *)
(* history of earlier fits and failures.                                   *)
THEOREM ReturnedFitIsWhole == Spec => []ServesOneFit
<1>1. IInv => ServesOneFit BY DEF IInv
<1> QED BY <1>1, Inductive, PTL

(* Attached replay state always has its own predictor, preprocessor and    *)
(* width beside it.                                                        *)
THEOREM ReplayKeepsItsPredictor == Spec => []EventReplayIsWhole
<1>1. IInv => EventReplayIsWhole BY DEF IInv
<1> QED BY <1>1, Inductive, PTL

(* The timestamps of one fit never judge another.                          *)
THEOREM ClocksDoNotLeak == Spec => []JudgedByOwnClock
<1>1. IInv => JudgedByOwnClock BY DEF IInv, Clocks
<1> QED BY <1>1, Inductive, PTL

(* Policies and certificates never outlive the predictor they are about.   *)
THEOREM EconomicsFollowPredictor == Spec => []DecisionsAreOfServedModel
<1>1. IInv => DecisionsAreOfServedModel BY DEF IInv, Decisions
<1> QED BY <1>1, Inductive, PTL
=============================================================================
