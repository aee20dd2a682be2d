------------------------- MODULE EvidenceAuthority -------------------------
(***************************************************************************)
(* How TabPVN decides which auxiliary evidence members a classifier is      *)
(* served with, and what each of them may change.  The tail of              *)
(* _fit_predictor (base.py) runs the gates one after the other: each gate   *)
(* scores its member out of fold against the surface the earlier members    *)
(* left, and installs it with the permission the evidence earned.  The      *)
(* serving half (predict, predict_proba, proof) then recomposes the         *)
(* installed members row by row.                                            *)
(*                                                                          *)
(* Probabilities are abstracted to their provenance.  A surface records     *)
(* which layers were blended into it, whether it is still RAW (its argmax   *)
(* may have left the certified class because no projection followed), and   *)
(* which layers were blended while the incumbent was raw.  Gate verdicts    *)
(* and fit failures are nondeterministic.                                   *)
(***************************************************************************)
EXTENDS Integers

CONSTANTS Class,   \* class labels of the fitted target
          Absent   \* Python's None

Layer == {"nosignal", "smooth", "category", "path",
          "posterior", "interval", "affine", "prior"}

\* The layers that can be granted authority over the predicted class.
Challenger == {"posterior", "interval", "affine"}

Permission == {"none", "class_change", "rank_only", "decision_only", "decision_and_rank"}

Surface == [layers : SUBSET Layer, raw : BOOLEAN, late : SUBSET Layer]

ASSUME AbsentIsNoValue == /\ \A s \in Surface : s # Absent
                          /\ \A m \in SUBSET Layer : m # Absent
ASSUME AbsentIsNoEvidence ==
  \A c \in Class, o \in BOOLEAN : [prediction |-> c, override |-> o] # Absent

Table == {t \in [auto : BOOLEAN, multiclass : BOOLEAN, rare : BOOLEAN, temporal : BOOLEAN,
                 rows : {"tiny", "small", "medium", "large"}] :
            ~(t.rare /\ t.multiclass)}

\* A stage named after a member runs its gate; "<member>_fit" builds the admitted member.
Stages == {"confidence", "nosignal", "nosignal_fit", "smooth", "smooth_fit",
           "category", "category_fit", "path", "path_fit", "posterior", "posterior_fit",
           "interval", "interval_fit", "affine", "affine_fit", "prior", "clear",
           "done", "raised"}

VARIABLES
  table,     \* the fit's inputs: self-configured, class count, rare event, validation, size
  stage,     \* where the fit is in the admission sequence
  deployed,  \* members that serving will find installed
  perm,      \* authority each challenger was granted
  surface,   \* transient out-of-fold surface of each layer (_smooth_oof_proba, ...)
  labels,    \* transient out-of-fold decision labels of the decision heads
  calib,     \* _conf, _cal_conf and (_bal_thr, _rare_thr), by what they were fitted on
  reported,  \* members whose gate report says "selected"
  judged     \* history: the incumbent surface a gate compared its member with

vars == <<table, stage, deployed, perm, surface, labels, calib, reported, judged>>

-----------------------------------------------------------------------------
(* Composition of probability surfaces.                                    *)

Booster == [layers |-> {}, raw |-> FALSE, late |-> {}]

\* A convex blend or posterior update that keeps the raw/projected status.
Blend(s, m) == [s EXCEPT !.layers = @ \cup {m},
                         !.late = IF s.raw THEN @ \cup {m} ELSE @]

\* A blend that is not followed by a projection of its own.
BlendRaw(s, m) == [Blend(s, m) EXCEPT !.raw = TRUE]

\* _preserve_certified_class(certified, s)
Project(s) == [s EXCEPT !.raw = FALSE]

Pick(s, otherwise) == IF s # Absent THEN s ELSE otherwise

-----------------------------------------------------------------------------
(* The out-of-fold stack each gate reads (_oof_probability_base, the        *)
(* inlined overrides in the gates, and _oof_probability_stack).             *)

OofBase == IF "nosignal" \in deployed THEN Blend(Booster, "nosignal") ELSE Booster
OofSmooth == Pick(surface["smooth"], OofBase)
OofCategory == Pick(surface["category"], OofSmooth)
OofPath == Pick(surface["path"], OofCategory)
OofPosterior == Pick(surface["posterior"], OofPath)
\* Mutant: the interval rank surface is left out of the stack.
OofIntervalSkipped == OofPosterior

OofInterval == Pick(surface["interval"], OofPosterior)
OofStack == Pick(surface["affine"], OofInterval)

-----------------------------------------------------------------------------
(* The surfaces serving composes from the installed members                 *)
(* (_blended_proba and _classification_prediction).                         *)

With(m, before, after) == IF m \in deployed THEN after ELSE before

ServedBase == With("nosignal", Booster, Blend(Booster, "nosignal"))
ServedSmooth == With("smooth", ServedBase, BlendRaw(ServedBase, "smooth"))
ServedCategory == With("category", ServedSmooth, Blend(Project(ServedSmooth), "category"))
ServedPath == With("path", ServedCategory, Blend(ServedCategory, "path"))
ServedCertified == Project(ServedPath)
\* predict_calibrated_proba
ServedCalibrated == With("posterior", ServedCertified, Blend(ServedCertified, "posterior"))

DecisionHead == {"decision_only", "decision_and_rank"}
RankRead == {"rank_only", "decision_and_rank"}

ServedInterval == With("interval", ServedCalibrated, Blend(ServedCalibrated, "interval"))
ServedIntervalRank ==
  IF perm["interval"] = "decision_and_rank" THEN ServedInterval ELSE ServedCalibrated
\* predict_proba, before the prior-rank view
ServedRank ==
  IF perm["affine"] \in RankRead
    THEN With("affine", ServedIntervalRank, Blend(ServedIntervalRank, "affine"))
    ELSE ServedIntervalRank

\* The surface on which serving applies member m.
Incumbent(m) ==
  CASE m = "nosignal" -> Booster
    [] m = "smooth" -> ServedBase
    [] m = "category" -> Project(ServedSmooth)
    [] m = "path" -> ServedCategory
    [] m = "posterior" -> ServedCertified
    [] m = "interval" -> ServedCalibrated
    [] m = "affine" -> IF perm["affine"] = "decision_only" THEN ServedInterval
                                                           ELSE ServedIntervalRank
    [] m = "prior" -> ServedRank

-----------------------------------------------------------------------------
(* Which installed challengers may move the predicted class.  A posterior   *)
(* whose permission is unset is treated as class_change, as the code does.  *)

PosteriorChanges == "posterior" \in deployed /\ perm["posterior"] # "rank_only"
IntervalDecides == "interval" \in deployed
AffineDecides == "affine" \in deployed /\ perm["affine"] \in DecisionHead

Changers == {m \in Challenger : \/ m = "posterior" /\ PosteriorChanges
                                \/ m = "interval" /\ IntervalDecides
                                \/ m = "affine" /\ AffineDecides}

\* The challengers whose decisions a label surface already contains.
LabelSource(s) ==
  {m \in Challenger \cap s.layers : m = "posterior" => perm["posterior"] # "rank_only"}

-----------------------------------------------------------------------------
(* Eligibility, calibration writes and their rollback.                      *)

\* _oof: the one K-fold of the deployed configuration every gate shares.
SharedOof == table.auto /\ ~table.rare /\ table.rows \in {"tiny", "small"}

Eligible(m) ==
  /\ SharedOof
  /\ m \in {"nosignal", "prior"} => table.multiclass
  /\ m = "nosignal" => ~table.temporal
  /\ m \in {"category", "path", "posterior", "interval", "affine"} => table.rows # "tiny"

\* Mutant: a refresh that forgets the operating points.
RefreshedKeepsThresholds(c, s, k) ==
  [c EXCEPT !.conf = IF k >= 1 THEN LabelSource(s) ELSE @, !.cal = IF k >= 2 THEN s ELSE @]

\* _refresh_classification_confidence, interrupted after its first k writes.
Refreshed(c, s, k) ==
  [conf |-> IF k >= 1 THEN LabelSource(s) ELSE c.conf,
   cal  |-> IF k >= 2 THEN s ELSE c.cal,
   thr  |-> IF k >= 3 /\ ~table.multiclass THEN s ELSE c.thr]

\* _refresh_classification_decision_confidence
DecisionRefreshed(c, s) == [c EXCEPT !.conf = LabelSource(s)]

\* The handler of the posterior fit puts the saved tuple back.
RolledBack(previous, written) == previous

NoCalibration == [conf |-> Absent, cal |-> Absent, thr |-> Absent]
NoSurface == [m \in Layer |-> Absent]
NoPermission == [m \in Challenger |-> "none"]
NoLabels == [m \in {"interval", "affine"} |-> Absent]

Init ==
  /\ table \in Table
  /\ stage = "confidence"
  /\ deployed = {} /\ reported = {}
  /\ perm = NoPermission /\ labels = NoLabels
  /\ surface = NoSurface /\ judged = NoSurface
  /\ calib = NoCalibration

-----------------------------------------------------------------------------
(* The admission sequence.                                                  *)

\* _build_confidence: skipped on little evidence, calibrated on an independent
\* holdout or out of fold, or failed and cleared.
CalibrationOutcomes ==
  LET fitted(c) == [conf |-> {}, cal |-> c, thr |-> IF table.multiclass THEN Absent ELSE Booster]
  IN {NoCalibration} \cup
     (IF table.rows = "tiny" THEN {} ELSE
        {fitted(IF table.rare /\ table.rows = "large" THEN Absent ELSE Booster)} \cup
        (IF table.auto /\ table.rows # "large" THEN {} ELSE {fitted(Absent)}))

BuildConfidence ==
  /\ stage = "confidence"
  /\ calib' \in CalibrationOutcomes
  /\ stage' = "nosignal"
  /\ UNCHANGED <<table, deployed, perm, surface, labels, reported, judged>>

After == [nosignal |-> "smooth", smooth |-> "category", category |-> "path",
          path |-> "posterior", posterior |-> "interval", interval |-> "affine",
          affine |-> "prior", prior |-> "clear"]

FitOf == [nosignal |-> "nosignal_fit", smooth |-> "smooth_fit", category |-> "category_fit",
          path |-> "path_fit", posterior |-> "posterior_fit", interval |-> "interval_fit",
          affine |-> "affine_fit", prior |-> "clear"]

\* The gate is not run, or runs and keeps the incumbent.
Reject(m) ==
  /\ stage = m
  /\ stage' = After[m]
  /\ UNCHANGED <<table, deployed, perm, surface, labels, calib, reported, judged>>

\* Gate m selects its member: its report says so, and its out-of-fold surface
\* (None for a hidden decision head) becomes the incumbent of the later gates.
Select(m, base, selected) ==
  /\ stage = m
  /\ Eligible(m)
  /\ stage' = FitOf[m]
  /\ surface' = [surface EXCEPT ![m] = selected]
  /\ reported' = reported \cup {m}
  /\ judged' = [judged EXCEPT ![m] = base]
  /\ UNCHANGED <<table, calib>>

NoSignalGate ==
  /\ Select("nosignal", Booster, Absent)
  /\ deployed' = deployed \cup {"nosignal"}
  /\ UNCHANGED <<perm, labels>>

SmoothGate ==
  /\ Select("smooth", OofBase, Project(BlendRaw(OofBase, "smooth")))
  /\ UNCHANGED <<deployed, perm, labels>>

CategoryGate ==
  /\ Select("category", OofSmooth, Blend(OofSmooth, "category"))
  /\ UNCHANGED <<deployed, perm, labels>>

PathGate ==
  /\ Select("path", OofCategory, Blend(OofCategory, "path"))
  /\ UNCHANGED <<deployed, perm, labels>>

PosteriorGate ==
  \E p \in {"class_change", "rank_only"} :
    /\ Select("posterior", OofPath, Blend(OofPath, "posterior"))
    /\ perm' = [perm EXCEPT !["posterior"] = p]
    /\ UNCHANGED <<deployed, labels>>

IntervalGate ==
  \E p \in DecisionHead :
    LET challenged == Blend(OofPosterior, "interval") IN
    /\ Select("interval", OofPosterior, IF p = "decision_and_rank" THEN challenged ELSE Absent)
    /\ perm' = [perm EXCEPT !["interval"] = p]
    /\ labels' = [labels EXCEPT !["interval"] = challenged]
    /\ UNCHANGED deployed

\* Top-1 authority is only on offer while no interval head holds it.
AffineOffer == {"rank_only"} \cup (IF labels["interval"] = Absent THEN DecisionHead ELSE {})

AffineGate ==
  \E p \in AffineOffer :
    LET challenged == Blend(OofInterval, "affine") IN
    /\ Select("affine", OofInterval, IF p = "decision_only" THEN Absent ELSE challenged)
    /\ perm' = [perm EXCEPT !["affine"] = p]
    /\ labels' = [labels EXCEPT !["affine"] = IF p \in DecisionHead THEN challenged ELSE Absent]
    /\ UNCHANGED deployed

PriorGate ==
  /\ Select("prior", OofStack, Blend(OofStack, "prior"))
  /\ deployed' = deployed \cup {"prior"}
  /\ UNCHANGED <<perm, labels>>

-----------------------------------------------------------------------------
(* Building the admitted members on all rows.                               *)

Install(m, c) ==
  /\ stage = FitOf[m]
  /\ stage' = After[m]
  /\ deployed' = deployed \cup {m}
  /\ calib' = c
  /\ UNCHANGED <<table, perm, surface, labels, reported, judged>>

\* An exception no handler names leaves fit with whatever was written so far.
Raise(m, c, d) ==
  /\ stage = FitOf[m]
  /\ stage' = "raised"
  /\ calib' = c
  /\ deployed' = d
  /\ UNCHANGED <<table, perm, surface, labels, reported, judged>>

\* A handler revokes what its gate granted and the fit goes on without m.
FailClosed(m, c) ==
  /\ stage = FitOf[m]
  /\ stage' = After[m]
  /\ calib' = c
  /\ surface' = [surface EXCEPT ![m] = Absent]
  /\ perm' = [perm EXCEPT ![m] = "none"]
  /\ labels' = IF m = "posterior" THEN labels ELSE [labels EXCEPT ![m] = Absent]
  /\ reported' = reported \ {m}
  /\ UNCHANGED <<table, deployed, judged>>

\* The no-signal refresh runs outside any handler.
NoSignalFit ==
  \/ Install("nosignal", Refreshed(calib, OofBase, 3))
  \/ \E k \in 0..2 : Raise("nosignal", Refreshed(calib, OofBase, k), deployed)

SmoothFit ==
  \/ Install("smooth", [calib EXCEPT !.cal = surface["smooth"]])
  \/ Raise("smooth", calib, deployed)

\* Mutant: the calibration read-out is not moved to the category surface.
CategoryFitStale ==
  \/ Install("category", calib)
  \/ \E d \in {deployed, deployed \cup {"category"}} : Raise("category", calib, d)

CategoryFit ==
  \/ Install("category", [calib EXCEPT !.cal = surface["category"]])
  \/ \E d \in {deployed, deployed \cup {"category"}} : Raise("category", calib, d)

\* The path index fails closed on any exception, but only its surface is
\* withdrawn: the gate report keeps saying "selected".
PathFit ==
  \/ Install("path", [calib EXCEPT !.cal = surface["path"]])
  \/ /\ stage = "path_fit"
     /\ stage' = After["path"]
     /\ surface' = [surface EXCEPT !["path"] = Absent]
     /\ UNCHANGED <<table, deployed, perm, labels, calib, reported, judged>>

PosteriorFit ==
  LET refreshed(k) == Refreshed(calib, surface["posterior"], k)
  IN \/ Install("posterior", refreshed(3))
     \/ \E k \in 0..2 : \/ FailClosed("posterior", RolledBack(calib, refreshed(k)))
                        \/ Raise("posterior", refreshed(k), deployed)

IntervalFit ==
  \/ Install("interval", DecisionRefreshed(calib, labels["interval"]))
  \/ FailClosed("interval", calib)
  \/ Raise("interval", calib, deployed)

AffineFit ==
  \/ Install("affine", IF perm["affine"] \in DecisionHead
                         THEN DecisionRefreshed(calib, labels["affine"]) ELSE calib)
  \/ FailClosed("affine", calib)
  \/ Raise("affine", calib, deployed)

\* The transient out-of-fold surfaces must not travel with the fitted model.
Clear ==
  /\ stage = "clear"
  /\ stage' = "done"
  /\ surface' = NoSurface
  /\ labels' = NoLabels
  /\ UNCHANGED <<table, deployed, perm, calib, reported, judged>>

\* fit is called again on the same estimator: members, permissions and reports are
\* reset; the calibration stays until _build_confidence overwrites it.
Refit ==
  /\ stage \in {"done", "raised"}
  /\ table' \in Table
  /\ stage' = "confidence"
  /\ deployed' = {} /\ reported' = {}
  /\ perm' = NoPermission /\ labels' = NoLabels
  /\ surface' = NoSurface /\ judged' = NoSurface
  /\ UNCHANGED calib

Gate == \/ \E m \in Layer : Reject(m)
        \/ NoSignalGate \/ SmoothGate \/ CategoryGate \/ PathGate
        \/ PosteriorGate \/ IntervalGate \/ AffineGate \/ PriorGate

FinalFit == \/ NoSignalFit \/ SmoothFit \/ CategoryFit \/ PathFit
            \/ PosteriorFit \/ IntervalFit \/ AffineFit

Next == BuildConfidence \/ Gate \/ FinalFit \/ Clear \/ Refit

Spec == Init /\ [][Next]_vars

-----------------------------------------------------------------------------
(* Serving one row.  A vote is the argmax of one surface on that row; a     *)
(* projected surface has no vote of its own.                                *)

Vote == [booster : Class, posterior : Class, interval : Class,
         affine : Class, affineRank : Class]

\* The affine read is applied to the decision stack by predict and to the rank stack
\* by predict_proba: where these are the same surface, so are its two argmaxes.
Votes == {v \in Vote :
            ("interval" \in deployed => perm["interval"] = "decision_and_rank")
               => v.affine = v.affineRank}

\* argmax of predict_calibrated_proba
CalibratedTop(v) == IF PosteriorChanges THEN v.posterior ELSE v.booster

IntervalTop(v) == IF IntervalDecides THEN v.interval ELSE CalibratedTop(v)

\* predict
DecisionTop(v) == IF AffineDecides THEN v.affine ELSE IntervalTop(v)

\* Mutant: every affine read is projected back into the incumbent class.
PublicTopProjected(v) ==
  IF "interval" \in deployed /\ perm["interval"] = "decision_and_rank" THEN v.interval
  ELSE CalibratedTop(v)

\* argmax of predict_proba: rank_only affine and the prior-rank view are projections
PublicTop(v) ==
  IF "affine" \in deployed /\ perm["affine"] = "decision_and_rank" THEN v.affineRank
  ELSE IF "interval" \in deployed /\ perm["interval"] = "decision_and_rank" THEN v.interval
  ELSE CalibratedTop(v)

\* An evidence record: the class it concludes and whether it overrides its base.
Evidence(concludes, base) == [prediction |-> concludes, override |-> concludes # base]

\* Mutant: a rank-only posterior also produces override evidence.
PosteriorEvidenceUngated(v) ==
  LET interval == IF IntervalDecides THEN Evidence(v.interval, CalibratedTop(v)) ELSE Absent
      posterior == IF "posterior" \in deployed THEN Evidence(v.posterior, v.booster) ELSE Absent
  IN IF interval # Absent /\ (interval.override \/ posterior = Absent) THEN interval
     ELSE IF posterior = Absent \/ posterior.override THEN posterior
     ELSE Pick(interval, posterior)

PosteriorEvidence(v) ==
  LET interval == IF IntervalDecides THEN Evidence(v.interval, CalibratedTop(v)) ELSE Absent
      posterior == IF PosteriorChanges THEN Evidence(v.posterior, v.booster) ELSE Absent
  IN IF interval # Absent /\ (interval.override \/ posterior = Absent) THEN interval
     ELSE IF posterior = Absent \/ posterior.override THEN posterior
     ELSE Pick(interval, posterior)

AffineEvidence(v) ==
  LET affine == Evidence(v.affine, IntervalTop(v))
  IN IF AffineDecides /\ affine.override THEN affine ELSE Absent

\* _prediction_proof_encoded: the class the returned proof derives
ProofConcludes(v) ==
  LET evidence == Pick(AffineEvidence(v), PosteriorEvidence(v))
  IN IF evidence # Absent /\ evidence.override THEN evidence.prediction ELSE v.booster

-----------------------------------------------------------------------------
(* Properties.                                                             *)

\* Each head only ever holds a permission its gate can grant, and the transient
\* out-of-fold data holds surfaces of the kinds the gates store.
TypeOK ==
  /\ table \in Table /\ stage \in Stages
  /\ deployed \subseteq Layer /\ reported \subseteq Layer
  /\ perm \in [Challenger -> Permission]
  /\ perm["posterior"] \in {"none", "class_change", "rank_only"}
  /\ perm["interval"] \in {"none"} \cup DecisionHead
  /\ perm["affine"] \in {"none", "rank_only"} \cup DecisionHead
  /\ surface \in [Layer -> {Absent} \cup Surface]
  /\ judged \in [Layer -> {Absent} \cup Surface]
  /\ labels \in [{"interval", "affine"} -> {Absent} \cup Surface]
  /\ calib \in [conf : {Absent} \cup SUBSET Challenger,
                cal : {Absent} \cup Surface, thr : {Absent} \cup Surface]

\* The one composition in which fit and serving part: a local member, no category
\* member to project it, and a proof-path member on top.
RawSmoothUnderPath == {"smooth", "path"} \subseteq deployed /\ "category" \notin deployed

\* After a completed fit _cal_conf (the confidences predict reports are calibrated
\* with) was measured on exactly the stack predict_calibrated_proba serves, through
\* every order of admission, failed final fit and rollback.
CalibrationMatchesServing ==
  stage = "done" /\ ~RawSmoothUnderPath => calib.cal \in {Absent, ServedCalibrated}

\* After a completed fit the precision regions in _conf were calibrated on the labels
\* of exactly the challengers that change what predict returns.
ConfidenceDescribesDecisions ==
  stage = "done" => calib.conf \in {Absent, Changers}

\* After a completed fit the operating points of predict_balanced and predict_rare were
\* tuned with the class challenger if and only if serving applies it.
ThresholdsFollowClassChallenger ==
  stage = "done" /\ calib.thr # Absent =>
    ("posterior" \in calib.thr.layers <=> "posterior" \in deployed)

\* Every installed member was admitted by comparing it, out of fold, with the very
\* composition serving applies it to.
GatesJudgedServedIncumbent ==
  stage = "done" /\ ~RawSmoothUnderPath => \A m \in deployed : judged[m] = Incumbent(m)

\* The class derived by the returned proof is the class predict returns, on every row.
ProofConcludesServedClass == \A v \in Votes : ProofConcludes(v) = DecisionTop(v)

\* predict and the argmax of predict_proba disagree only under a decision_only head.
PublicAgreesUnlessDecisionOnly ==
  (\A m \in deployed \cap Challenger : perm[m] # "decision_only")
     => \A v \in Votes : PublicTop(v) = DecisionTop(v)

\* The numeric intervals and the affine read never both hold top-1 authority.
OneDecisionHead == ~(IntervalDecides /\ AffineDecides)
=============================================================================
