---------------------- MODULE EvidenceAuthorityProofs ----------------------
(* Theorems about the evidence-admission sequence, for every set of classes. *)
(* The inductive invariant says, stage by stage, which challengers can be    *)
(* installed already and which of them the stored surfaces contain: it is    *)
(* what ties the calibrated decisions to the served ones.                    *)
EXTENDS EvidenceAuthority, TLAPS

-----------------------------------------------------------------------------
(* Surfaces.                                                               *)

\* The composition operators yield surfaces and add exactly the layer they name
\* (_preserve_certified_class and the convex blends of _blended_proba).
LEMMA Composition ==
  ASSUME NEW s \in Surface, NEW m \in Layer
  PROVE  /\ Blend(s, m) \in Surface /\ BlendRaw(s, m) \in Surface /\ Project(s) \in Surface
         /\ Project(BlendRaw(s, m)) \in Surface
         /\ Blend(s, m).layers = s.layers \cup {m}
         /\ Project(BlendRaw(s, m)).layers = s.layers \cup {m}
  BY DEF Surface, Blend, BlendRaw, Project

\* A stored surface is not None.
LEMMA SurfaceIsPresent == \A s \in Surface : s # Absent
  BY AbsentIsNoValue

\* Every incumbent a gate reads (_oof_probability_stack) is a surface.
LEMMA OofTypes ==
  ASSUME TypeOK
  PROVE  /\ OofBase \in Surface /\ OofSmooth \in Surface /\ OofCategory \in Surface
         /\ OofPath \in Surface /\ OofPosterior \in Surface /\ OofInterval \in Surface
         /\ OofStack \in Surface
  <1>1. OofBase \in Surface
    <2>1. Booster \in Surface
      BY DEF Booster, Surface
    <2>2. Blend(Booster, "nosignal") \in Surface
      BY <2>1, Composition DEF Layer
    <2> QED BY <2>1, <2>2 DEF OofBase
  <1>2. \A m \in Layer : surface[m] \in {Absent} \cup Surface
    BY DEF TypeOK
  <1> QED
    BY <1>1, <1>2 DEF OofSmooth, OofCategory, OofPath, OofPosterior, OofInterval, OofStack,
                      Pick, Layer

-----------------------------------------------------------------------------
(* Type correctness.                                                       *)

\* Everything a refresh leaves in the calibration triple is well typed.
LEMMA RefreshedType ==
  ASSUME TypeOK, NEW s \in {Absent} \cup Surface, NEW k \in 0..3
  PROVE  /\ Refreshed(calib, s, k) \in [conf : {Absent} \cup SUBSET Challenger,
                                        cal : {Absent} \cup Surface, thr : {Absent} \cup Surface]
         /\ DecisionRefreshed(calib, s) \in [conf : {Absent} \cup SUBSET Challenger,
                                        cal : {Absent} \cup Surface, thr : {Absent} \cup Surface]
  BY DEF TypeOK, Refreshed, DecisionRefreshed, LabelSource

\* Nothing is served before the first fit.
LEMMA TypeInit == Init => TypeOK
  <1> SUFFICES ASSUME Init PROVE TypeOK
    OBVIOUS
  <1> USE DEF Init
  <1>1. NoPermission \in [Challenger -> Permission]
    BY DEF NoPermission, Challenger, Permission
  <1>2. NoSurface \in [Layer -> {Absent} \cup Surface]
    BY DEF NoSurface
  <1>3. NoLabels \in [{"interval", "affine"} -> {Absent} \cup Surface]
    BY DEF NoLabels
  <1>4. NoCalibration \in [conf : {Absent} \cup SUBSET Challenger,
                            cal : {Absent} \cup Surface, thr : {Absent} \cup Surface]
    BY DEF NoCalibration
  <1> QED
    BY <1>1, <1>2, <1>3, <1>4 DEF TypeOK, NoPermission, Challenger, Stages

\* Every stage keeps the types.
LEMMA TypeNext == TypeOK /\ [Next]_vars => TypeOK'
  <1> SUFFICES ASSUME TypeOK, [Next]_vars PROVE TypeOK'
    OBVIOUS
  <1> DEFINE Calibration == [conf : {Absent} \cup SUBSET Challenger,
                             cal : {Absent} \cup Surface, thr : {Absent} \cup Surface]
  <1>t. /\ \A m \in Layer : After[m] \in Stages /\ FitOf[m] \in Stages
        /\ "raised" \in Stages /\ "done" \in Stages /\ "nosignal" \in Stages
        /\ "confidence" \in Stages
    BY DEF Layer, After, FitOf, Stages
  <1>1. CASE BuildConfidence
    <2>1. Booster \in Surface
      BY DEF Booster, Surface
    <2>2. calib' \in Calibration
      BY <1>1, <2>1 DEF BuildConfidence, CalibrationOutcomes, NoCalibration
    <2> QED
      BY <1>1, <2>2, <1>t DEF BuildConfidence, TypeOK
  <1>2. CASE \E m \in Layer : Reject(m)
    BY <1>2, <1>t DEF Reject, TypeOK
  <1>s. ASSUME NEW m \in Layer, NEW base \in Surface, NEW chosen \in {Absent} \cup Surface,
               Select(m, base, chosen)
        PROVE  /\ stage' \in Stages /\ table' = table /\ calib' = calib
               /\ surface' \in [Layer -> {Absent} \cup Surface]
               /\ judged' \in [Layer -> {Absent} \cup Surface]
               /\ reported' \subseteq Layer
    BY <1>s, <1>t DEF Select, TypeOK
  <1>l. /\ "nosignal" \in Layer /\ "smooth" \in Layer /\ "category" \in Layer /\ "path" \in Layer
        /\ "posterior" \in Layer /\ "interval" \in Layer /\ "affine" \in Layer /\ "prior" \in Layer
        /\ Challenger \subseteq Layer
    BY DEF Layer, Challenger
  <1>o. /\ Booster \in Surface
        /\ Project(BlendRaw(OofBase, "smooth")) \in Surface
        /\ Blend(OofSmooth, "category") \in Surface
        /\ Blend(OofCategory, "path") \in Surface
        /\ Blend(OofPath, "posterior") \in Surface
        /\ Blend(OofPosterior, "interval") \in Surface
        /\ Blend(OofInterval, "affine") \in Surface
        /\ Blend(OofStack, "prior") \in Surface
    <2>1. Booster \in Surface
      BY DEF Booster, Surface
    <2> QED
      BY <2>1, <1>l, OofTypes, Composition
  <1>3. CASE NoSignalGate
    BY <1>3, <1>s, <1>o, <1>l DEF NoSignalGate, TypeOK
  <1>4. CASE SmoothGate
    BY <1>4, <1>s, <1>o, <1>l, OofTypes DEF SmoothGate, TypeOK
  <1>5. CASE CategoryGate
    BY <1>5, <1>s, <1>o, <1>l, OofTypes DEF CategoryGate, TypeOK
  <1>6. CASE PathGate
    BY <1>6, <1>s, <1>o, <1>l, OofTypes DEF PathGate, TypeOK
  <1>7. CASE PosteriorGate
    BY <1>7, <1>s, <1>o, <1>l, OofTypes DEF PosteriorGate, TypeOK, Permission, Challenger
  <1>8. CASE IntervalGate
    <2> PICK p \in DecisionHead :
          /\ Select("interval", OofPosterior,
                    IF p = "decision_and_rank" THEN Blend(OofPosterior, "interval") ELSE Absent)
          /\ perm' = [perm EXCEPT !["interval"] = p]
          /\ labels' = [labels EXCEPT !["interval"] = Blend(OofPosterior, "interval")]
          /\ UNCHANGED deployed
      BY <1>8 DEF IntervalGate
    <2> QED
      BY <1>s, <1>o, <1>l, OofTypes DEF TypeOK, Permission, Challenger, DecisionHead
  <1>9. CASE AffineGate
    <2> PICK p \in AffineOffer :
          /\ Select("affine", OofInterval,
                    IF p = "decision_only" THEN Absent ELSE Blend(OofInterval, "affine"))
          /\ perm' = [perm EXCEPT !["affine"] = p]
          /\ labels' = [labels EXCEPT !["affine"] =
                          IF p \in DecisionHead THEN Blend(OofInterval, "affine") ELSE Absent]
          /\ UNCHANGED deployed
      BY <1>9 DEF AffineGate
    <2> QED
      BY <1>s, <1>o, <1>l, OofTypes DEF TypeOK, Permission, Challenger, DecisionHead, AffineOffer
  <1>10. CASE PriorGate
    BY <1>10, <1>s, <1>o, <1>l, OofTypes DEF PriorGate, TypeOK
  <1>i. ASSUME NEW m \in Layer, NEW c \in Calibration, NEW d \in SUBSET Layer,
               Install(m, c) \/ Raise(m, c, d)
        PROVE  TypeOK'
    BY <1>i, <1>t DEF Install, Raise, TypeOK
  <1>f. ASSUME NEW m \in Challenger, NEW c \in Calibration, FailClosed(m, c)
        PROVE  TypeOK'
    BY <1>f, <1>t, <1>l DEF FailClosed, TypeOK, Challenger, Permission, Layer
  <1>r. \A s \in {Absent} \cup Surface : \A k \in 0..3 : /\ Refreshed(calib, s, k) \in Calibration
                                           /\ DecisionRefreshed(calib, s) \in Calibration
    BY RefreshedType
  <1>c. /\ calib \in Calibration /\ deployed \in SUBSET Layer
    BY DEF TypeOK
  <1>11. CASE NoSignalFit
    BY <1>11, <1>i, <1>r, <1>c, <1>l, OofTypes DEF NoSignalFit
  <1>12. CASE SmoothFit
    BY <1>12, <1>i, <1>c, <1>l DEF SmoothFit, TypeOK
  <1>13. CASE CategoryFit
    BY <1>13, <1>i, <1>c, <1>l DEF CategoryFit, TypeOK
  <1>14. CASE PathFit
    <2>1. CASE Install("path", [calib EXCEPT !.cal = surface["path"]])
      BY <2>1, <1>i, <1>c, <1>l DEF TypeOK
    <2> QED
      BY <1>14, <2>1, <1>t, <1>l DEF PathFit, TypeOK
  <1>15. CASE PosteriorFit
    <2>1. surface["posterior"] \in {Absent} \cup Surface
      BY <1>l DEF TypeOK
    <2>2. \A k \in 0..3 : /\ Refreshed(calib, surface["posterior"], k) \in Calibration
                          /\ RolledBack(calib, Refreshed(calib, surface["posterior"], k)) \in Calibration
      BY <2>1, <1>r, <1>c DEF RolledBack
    <2>3. CASE Install("posterior", Refreshed(calib, surface["posterior"], 3))
      BY <2>2, <2>3, <1>i, <1>c, <1>l
    <2>4. CASE \E k \in 0..2 : FailClosed("posterior", RolledBack(calib, Refreshed(calib, surface["posterior"], k)))
      BY <2>2, <2>4, <1>f DEF Challenger
    <2>5. CASE \E k \in 0..2 : Raise("posterior", Refreshed(calib, surface["posterior"], k), deployed)
      BY <2>2, <2>5, <1>i, <1>c, <1>l
    <2> QED
      BY <1>15, <2>3, <2>4, <2>5 DEF PosteriorFit
  <1>16. CASE IntervalFit
    <2>1. DecisionRefreshed(calib, labels["interval"]) \in Calibration
      BY <1>r DEF TypeOK
    <2> QED
      BY <1>16, <2>1, <1>i, <1>f, <1>c, <1>l DEF IntervalFit, Challenger
  <1>17. CASE AffineFit
    <2>1. DecisionRefreshed(calib, labels["affine"]) \in Calibration
      BY <1>r DEF TypeOK
    <2> QED
      BY <1>17, <2>1, <1>i, <1>f, <1>c, <1>l DEF AffineFit, Challenger
  <1>n. /\ NoPermission \in [Challenger -> Permission]
        /\ NoSurface \in [Layer -> {Absent} \cup Surface]
        /\ NoLabels \in [{"interval", "affine"} -> {Absent} \cup Surface]
    BY DEF NoPermission, NoSurface, NoLabels, Permission
  <1>18. CASE Clear
    BY <1>18, <1>n, <1>t DEF Clear, TypeOK
  <1>19. CASE Refit
    BY <1>19, <1>n, <1>t DEF Refit, TypeOK, NoPermission, Challenger
  <1>20. CASE UNCHANGED vars
    BY <1>20 DEF TypeOK, vars
  <1> QED
    BY <1>1, <1>2, <1>3, <1>4, <1>5, <1>6, <1>7, <1>8, <1>9, <1>10, <1>11, <1>12, <1>13,
       <1>14, <1>15, <1>16, <1>17, <1>18, <1>19, <1>20 DEF Next, Gate, FinalFit

\* The declared types of the admission state of _fit_predictor hold in every reachable
\* state: no gate grants a permission its head cannot hold.
THEOREM TypeCorrect == Spec => []TypeOK
  BY TypeInit, TypeNext, PTL DEF Spec

-----------------------------------------------------------------------------
(* The inductive invariant.                                                *)

EarlyStages == {"confidence", "nosignal", "nosignal_fit", "smooth", "smooth_fit",
                "category", "category_fit", "path", "path_fit"}
BeforePosterior == EarlyStages \cup {"posterior"}
BeforeInterval == BeforePosterior \cup {"posterior_fit", "interval"}
BeforeAffine == BeforeInterval \cup {"interval_fit", "affine"}

\* No challenger holds anything before its gate.
UntouchedBeforeGate ==
  /\ stage \in BeforePosterior =>
       perm["posterior"] = "none" /\ surface["posterior"] = Absent
  /\ stage \in BeforeInterval =>
       perm["interval"] = "none" /\ surface["interval"] = Absent /\ labels["interval"] = Absent
  /\ stage \in BeforeAffine => perm["affine"] = "none"

\* No challenger is installed before its final fit, none without a permission.
InstalledAfterFit ==
  /\ stage \in BeforePosterior \cup {"posterior_fit"} => "posterior" \notin deployed
  /\ stage \in BeforeInterval \cup {"interval_fit"} => "interval" \notin deployed
  /\ stage \in BeforeAffine \cup {"affine_fit"} => "affine" \notin deployed
  /\ \A m \in Challenger : m \in deployed \/ stage = FitOf[m] => perm[m] # "none"

\* While the fit runs, a challenger past its final fit left out-of-fold data behind
\* exactly when it is installed.
HeldWhileInstalled ==
  /\ stage = "posterior_fit" => surface["posterior"] # Absent
  /\ stage = "interval_fit" => labels["interval"] # Absent
  /\ stage \in {"interval", "interval_fit", "affine", "affine_fit", "prior", "clear"} =>
       (surface["posterior"] # Absent <=> "posterior" \in deployed)
  /\ stage \in {"affine", "affine_fit", "prior", "clear"} =>
       (labels["interval"] # Absent <=> "interval" \in deployed)

Challengers(s) == s.layers \cap Challenger

PosteriorPart == IF surface["posterior"] # Absent THEN {"posterior"} ELSE {}

\* The challengers blended into each stored surface.
SurfaceLayers ==
  /\ \A m \in {"smooth", "category", "path"} :
       surface[m] # Absent => Challengers(surface[m]) = {}
  /\ surface["posterior"] # Absent => Challengers(surface["posterior"]) = {"posterior"}
  /\ labels["interval"] # Absent =>
       Challengers(labels["interval"]) = {"interval"} \cup PosteriorPart
  /\ surface["interval"] # Absent => labels["interval"] # Absent
  /\ stage = "affine_fit" /\ perm["affine"] \in DecisionHead =>
       /\ labels["interval"] = Absent /\ labels["affine"] # Absent
       /\ Challengers(labels["affine"]) = {"affine"} \cup PosteriorPart

ConfidenceFollows ==
  stage \notin {"confidence", "raised"} => calib.conf \in {Absent, Changers}

IInv == /\ TypeOK /\ UntouchedBeforeGate /\ InstalledAfterFit /\ HeldWhileInstalled
        /\ SurfaceLayers /\ OneDecisionHead /\ ConfidenceFollows

\* The challengers contained in the incumbent of each challenger's gate.
LEMMA OofChallengers ==
  ASSUME TypeOK, SurfaceLayers
  PROVE  /\ Challengers(OofBase) = {} /\ Challengers(OofSmooth) = {}
         /\ Challengers(OofCategory) = {} /\ Challengers(OofPath) = {}
         /\ Challengers(OofPosterior) = PosteriorPart
         /\ labels["interval"] = Absent => Challengers(OofInterval) = PosteriorPart
  <1>1. Challengers(OofBase) = {}
    <2>1. Booster \in Surface /\ Booster.layers = {}
      BY DEF Booster, Surface
    <2>2. Blend(Booster, "nosignal").layers = {"nosignal"}
      BY <2>1, Composition DEF Layer
    <2> QED
      BY <2>1, <2>2 DEF OofBase, Challengers, Challenger
  <1>2. /\ Challengers(OofSmooth) = {} /\ Challengers(OofCategory) = {} /\ Challengers(OofPath) = {}
    BY <1>1 DEF SurfaceLayers, OofSmooth, OofCategory, OofPath, Pick
  <1>3. Challengers(OofPosterior) = PosteriorPart
    BY <1>2 DEF SurfaceLayers, OofPosterior, Pick, PosteriorPart
  <1>4. labels["interval"] = Absent => Challengers(OofInterval) = PosteriorPart
    BY <1>3 DEF SurfaceLayers, OofInterval, Pick
  <1> QED
    BY <1>1, <1>2, <1>3, <1>4

\* Blending a member in adds its challenger name and nothing else.
LEMMA BlendChallengers ==
  ASSUME NEW s \in Surface, NEW m \in Layer
  PROVE  /\ Challengers(Blend(s, m)) = Challengers(s) \cup ({m} \cap Challenger)
         /\ Challengers(Project(BlendRaw(s, m))) = Challengers(s) \cup ({m} \cap Challenger)
  BY Composition DEF Challengers

\* The invariant before the first stage.
LEMMA InvInit == Init => IInv
  <1> SUFFICES ASSUME Init PROVE IInv
    OBVIOUS
  <1>1. TypeOK
    BY TypeInit
  <1>2. /\ stage = "confidence" /\ deployed = {}
        /\ \A m \in Challenger : perm[m] = "none"
        /\ \A m \in Layer : surface[m] = Absent
        /\ labels["interval"] = Absent
    BY DEF Init, NoPermission, NoSurface, NoLabels
  <1>3. UntouchedBeforeGate
    BY <1>2 DEF UntouchedBeforeGate, Challenger, Layer
  <1>4. InstalledAfterFit
    BY <1>2 DEF InstalledAfterFit, Challenger, FitOf
  <1>5. HeldWhileInstalled
    BY <1>2 DEF HeldWhileInstalled
  <1>6. SurfaceLayers
    BY <1>2 DEF SurfaceLayers, Layer
  <1>7. OneDecisionHead
    BY <1>2 DEF OneDecisionHead, IntervalDecides
  <1>8. ConfidenceFollows
    BY <1>2 DEF ConfidenceFollows
  <1> QED
    BY <1>1, <1>3, <1>4, <1>5, <1>6, <1>7, <1>8 DEF IInv

\* Every stage keeps the invariant.
LEMMA InvNext == IInv /\ [Next]_vars => IInv'
  <1> SUFFICES ASSUME IInv, [Next]_vars PROVE IInv'
    OBVIOUS
  <1>t. TypeOK /\ TypeOK'
    BY TypeNext DEF IInv
  <1>o. /\ OofBase \in Surface /\ OofSmooth \in Surface /\ OofCategory \in Surface
        /\ OofPath \in Surface /\ OofPosterior \in Surface /\ OofInterval \in Surface
    BY <1>t, OofTypes
  <1>p. \A s \in Surface : s # Absent
    BY SurfaceIsPresent
  <1> USE DEF IInv
  <1>1. CASE BuildConfidence
    <2>1. calib'.conf \in {Absent, {}}
      BY <1>1 DEF BuildConfidence, CalibrationOutcomes, NoCalibration
    <2>2. Changers' = {}
      BY <1>1 DEF BuildConfidence, Changers, InstalledAfterFit, BeforePosterior, BeforeInterval,
                  BeforeAffine, EarlyStages, Challenger, PosteriorChanges, IntervalDecides, AffineDecides
    <2>3. UntouchedBeforeGate' /\ InstalledAfterFit' /\ HeldWhileInstalled'
      BY <1>1 DEF BuildConfidence, UntouchedBeforeGate, InstalledAfterFit, HeldWhileInstalled,
                  BeforePosterior, BeforeInterval, BeforeAffine, EarlyStages, Challenger, FitOf
    <2>4. SurfaceLayers' /\ OneDecisionHead'
      BY <1>1 DEF BuildConfidence, SurfaceLayers, PosteriorPart, OneDecisionHead,
                  IntervalDecides, AffineDecides
    <2> QED
      BY <1>1, <1>t, <2>1, <2>2, <2>3, <2>4 DEF ConfidenceFollows
  <1>2. ASSUME NEW m \in Layer, Reject(m) PROVE IInv'
    <2>1. Changers' = Changers
      BY <1>2 DEF Reject, Changers, PosteriorChanges, IntervalDecides, AffineDecides
    <2>2. UntouchedBeforeGate' /\ InstalledAfterFit' /\ HeldWhileInstalled'
      BY <1>2 DEF Reject, UntouchedBeforeGate, InstalledAfterFit, HeldWhileInstalled, After, Layer,
                  BeforePosterior, BeforeInterval, BeforeAffine, EarlyStages, Challenger, FitOf
    <2>3. SurfaceLayers'
      BY <1>2 DEF Reject, SurfaceLayers, PosteriorPart, After, Layer
    <2>4. OneDecisionHead' /\ ConfidenceFollows'
      BY <1>2, <2>1 DEF Reject, OneDecisionHead, IntervalDecides, AffineDecides, ConfidenceFollows,
                  Layer
    <2> QED
      BY <1>t, <2>2, <2>3, <2>4
  <1>b. /\ Challengers(OofBase) = {} /\ Challengers(OofSmooth) = {}
        /\ Challengers(OofCategory) = {} /\ Challengers(OofPath) = {}
        /\ Challengers(OofPosterior) = PosteriorPart
        /\ labels["interval"] = Absent => Challengers(OofInterval) = PosteriorPart
    BY <1>t, OofChallengers
  \* A gate of a member that cannot change a class.
  <1>g. ASSUME NEW m \in {"nosignal", "smooth", "category", "path"}, NEW base, NEW chosen,
               chosen = Absent \/ Challengers(chosen) = {},
               Select(m, base, chosen), UNCHANGED <<perm, labels>>,
               deployed' \cap Challenger = deployed \cap Challenger
        PROVE  IInv'
    <2>1. Changers' = Changers
      BY <1>g DEF Changers, PosteriorChanges, IntervalDecides, AffineDecides, Challenger
    <2>0. /\ stage = m /\ stage' = FitOf[m]
          /\ surface' = [surface EXCEPT ![m] = chosen] /\ calib' = calib
      BY <1>g DEF Select
    <2>2. UntouchedBeforeGate' /\ InstalledAfterFit' /\ HeldWhileInstalled'
      BY <1>g, <1>t, <2>0 DEF UntouchedBeforeGate, InstalledAfterFit, HeldWhileInstalled, TypeOK,
                  BeforePosterior, BeforeInterval, BeforeAffine, EarlyStages, Challenger, FitOf
    <2>3. SurfaceLayers'
      BY <1>g, <1>t, <2>0 DEF SurfaceLayers, PosteriorPart, FitOf, Layer, TypeOK, Challengers
    <2>4. OneDecisionHead' /\ ConfidenceFollows'
      BY <1>g, <2>0, <2>1 DEF OneDecisionHead, IntervalDecides, AffineDecides, ConfidenceFollows,
                  Challenger
    <2> QED
      BY <1>t, <2>2, <2>3, <2>4
  <1>3. CASE NoSignalGate
    BY <1>3, <1>g DEF NoSignalGate, Challenger
  <1>4. CASE SmoothGate
    BY <1>4, <1>g, <1>b, <1>o, BlendChallengers DEF SmoothGate, Challenger, Layer
  <1>5. CASE CategoryGate
    BY <1>5, <1>g, <1>b, <1>o, BlendChallengers DEF CategoryGate, Challenger, Layer
  <1>6. CASE PathGate
    BY <1>6, <1>g, <1>b, <1>o, BlendChallengers DEF PathGate, Challenger, Layer
  <1>7. CASE PosteriorGate
    <2>0. PICK p \in {"class_change", "rank_only"} :
            /\ Select("posterior", OofPath, Blend(OofPath, "posterior"))
            /\ perm' = [perm EXCEPT !["posterior"] = p]
            /\ UNCHANGED <<deployed, labels>>
      BY <1>7 DEF PosteriorGate
    <2>1. /\ stage = "posterior" /\ stage' = "posterior_fit" /\ calib' = calib
          /\ surface' = [surface EXCEPT !["posterior"] = Blend(OofPath, "posterior")]
      BY <2>0 DEF Select, FitOf
    <2>2. /\ Blend(OofPath, "posterior") # Absent
          /\ Challengers(Blend(OofPath, "posterior")) = {"posterior"}
      BY <1>b, <1>o, <1>p, Composition, BlendChallengers DEF Layer, Challenger
    <2>3. UntouchedBeforeGate' /\ InstalledAfterFit' /\ HeldWhileInstalled'
      BY <1>t, <2>0, <2>1, <2>2 DEF UntouchedBeforeGate, InstalledAfterFit, HeldWhileInstalled, TypeOK,
                  BeforePosterior, BeforeInterval, BeforeAffine, EarlyStages, Challenger, FitOf, Layer
    <2>4. SurfaceLayers'
      BY <1>t, <2>0, <2>1, <2>2 DEF SurfaceLayers, PosteriorPart, Layer, TypeOK, Challengers,
                  UntouchedBeforeGate, BeforeInterval, BeforePosterior
    <2>5. Changers' = {} /\ Changers = {}
      BY <2>0, <2>1 DEF Changers, InstalledAfterFit, BeforePosterior, BeforeInterval,
                  BeforeAffine, Challenger, PosteriorChanges, IntervalDecides, AffineDecides
    <2>6. OneDecisionHead' /\ ConfidenceFollows'
      BY <2>0, <2>1, <2>5 DEF OneDecisionHead, IntervalDecides, AffineDecides, ConfidenceFollows,
                  InstalledAfterFit, BeforePosterior, BeforeInterval
    <2> QED
      BY <1>t, <2>3, <2>4, <2>6
  <1>8. CASE IntervalGate
    <2>0. PICK p \in DecisionHead :
            /\ Select("interval", OofPosterior,
                      IF p = "decision_and_rank" THEN Blend(OofPosterior, "interval") ELSE Absent)
            /\ perm' = [perm EXCEPT !["interval"] = p]
            /\ labels' = [labels EXCEPT !["interval"] = Blend(OofPosterior, "interval")]
            /\ UNCHANGED deployed
      BY <1>8 DEF IntervalGate
    <2>1. /\ stage = "interval" /\ stage' = "interval_fit" /\ calib' = calib
          /\ \A m \in Layer \ {"interval"} : surface'[m] = surface[m]
          /\ surface'["interval"] \in {Absent, Blend(OofPosterior, "interval")}
      BY <1>t, <2>0 DEF Select, FitOf, Layer, TypeOK
    <2>2. /\ Blend(OofPosterior, "interval") # Absent
          /\ Challengers(Blend(OofPosterior, "interval")) = {"interval"} \cup PosteriorPart
      BY <1>b, <1>o, <1>p, Composition, BlendChallengers DEF Layer, Challenger
    <2>3. UntouchedBeforeGate' /\ InstalledAfterFit' /\ HeldWhileInstalled'
      BY <1>t, <2>0, <2>1, <2>2 DEF UntouchedBeforeGate, InstalledAfterFit, HeldWhileInstalled, TypeOK,
                  BeforePosterior, BeforeInterval, BeforeAffine, EarlyStages, Challenger, FitOf, Layer,
                  DecisionHead
    <2>4. SurfaceLayers'
      BY <1>t, <2>0, <2>1, <2>2 DEF SurfaceLayers, PosteriorPart, Layer, TypeOK, Challengers
    <2>5. Changers' = Changers
      BY <2>0, <2>1 DEF Changers, InstalledAfterFit, BeforePosterior, BeforeInterval, EarlyStages,
                  BeforeAffine, Challenger, PosteriorChanges, IntervalDecides, AffineDecides, TypeOK
    <2>6. OneDecisionHead' /\ ConfidenceFollows'
      BY <2>0, <2>1, <2>5 DEF OneDecisionHead, IntervalDecides, AffineDecides, ConfidenceFollows,
                  InstalledAfterFit, BeforePosterior, BeforeInterval
    <2> QED
      BY <1>t, <2>3, <2>4, <2>6
  <1>9. CASE AffineGate
    <2>0. PICK p \in AffineOffer :
            /\ Select("affine", OofInterval,
                      IF p = "decision_only" THEN Absent ELSE Blend(OofInterval, "affine"))
            /\ perm' = [perm EXCEPT !["affine"] = p]
            /\ labels' = [labels EXCEPT !["affine"] =
                            IF p \in DecisionHead THEN Blend(OofInterval, "affine") ELSE Absent]
            /\ UNCHANGED deployed
      BY <1>9 DEF AffineGate
    <2>1. /\ stage = "affine" /\ stage' = "affine_fit" /\ calib' = calib
          /\ \A m \in Layer \ {"affine"} : surface'[m] = surface[m]
          /\ perm'["affine"] = p /\ perm'["posterior"] = perm["posterior"]
          /\ perm'["interval"] = perm["interval"]
          /\ labels'["interval"] = labels["interval"]
      BY <1>t, <2>0 DEF Select, FitOf, Layer, TypeOK, Challenger
    <2>2. p \in DecisionHead =>
            /\ labels["interval"] = Absent /\ labels'["affine"] # Absent
            /\ Challengers(labels'["affine"]) = {"affine"} \cup PosteriorPart
      <3>1. p \in DecisionHead => labels["interval"] = Absent
        BY DEF AffineOffer, DecisionHead
      <3>2. p \in DecisionHead => labels'["affine"] = Blend(OofInterval, "affine")
        BY <1>t, <2>0 DEF TypeOK
      <3>3. /\ Blend(OofInterval, "affine") # Absent
            /\ Challengers(Blend(OofInterval, "affine")) = Challengers(OofInterval) \cup {"affine"}
        BY <1>o, <1>p, Composition, BlendChallengers DEF Layer, Challenger
      <3> QED
        BY <3>1, <3>2, <3>3, <1>b
    <2>3. UntouchedBeforeGate' /\ InstalledAfterFit' /\ HeldWhileInstalled'
      BY <1>t, <2>0, <2>1 DEF UntouchedBeforeGate, InstalledAfterFit, HeldWhileInstalled,
                  BeforePosterior, BeforeInterval, BeforeAffine, EarlyStages, Challenger, FitOf, Layer,
                  AffineOffer, DecisionHead
    <2>4. SurfaceLayers'
      BY <2>1, <2>2 DEF SurfaceLayers, PosteriorPart, Layer, Challengers
    <2>5. Changers' = Changers
      BY <2>0, <2>1 DEF Changers, InstalledAfterFit, BeforeAffine,
                  Challenger, PosteriorChanges, IntervalDecides, AffineDecides
    <2>6. OneDecisionHead' /\ ConfidenceFollows'
      BY <2>0, <2>1, <2>5 DEF OneDecisionHead, IntervalDecides, AffineDecides, ConfidenceFollows,
                  InstalledAfterFit, BeforeAffine
    <2> QED
      BY <1>t, <2>3, <2>4, <2>6
  <1>10. CASE PriorGate
    <2>1. /\ stage = "prior" /\ stage' = "clear" /\ calib' = calib
          /\ \A m \in Layer \ {"prior"} : surface'[m] = surface[m]
          /\ deployed' = deployed \cup {"prior"} /\ perm' = perm /\ labels' = labels
      BY <1>10, <1>t DEF PriorGate, Select, FitOf, Layer, TypeOK
    <2>2. UntouchedBeforeGate' /\ InstalledAfterFit' /\ HeldWhileInstalled'
      BY <2>1 DEF UntouchedBeforeGate, InstalledAfterFit, HeldWhileInstalled,
                  BeforePosterior, BeforeInterval, BeforeAffine, EarlyStages, Challenger, FitOf, Layer
    <2>3. SurfaceLayers'
      BY <2>1 DEF SurfaceLayers, PosteriorPart, Layer, Challengers
    <2>4. Changers' = Changers /\ OneDecisionHead'
      BY <2>1 DEF Changers, Challenger, PosteriorChanges, IntervalDecides, AffineDecides, OneDecisionHead
    <2> QED
      BY <1>t, <2>1, <2>2, <2>3, <2>4 DEF ConfidenceFollows
  \* A final fit of a member that cannot change a class, or a failure of one.
  <1>e. ASSUME NEW m \in {"nosignal", "smooth", "category", "path"},
               stage = FitOf[m], stage' = After[m],
               UNCHANGED <<perm, labels>>, deployed' \cap Challenger = deployed \cap Challenger,
               \A n \in Layer : surface'[n] \in {Absent, surface[n]},
               \A n \in Layer \ {m} : surface'[n] = surface[n],
               calib'.conf \in {calib.conf, {}}
        PROVE  IInv'
    <2>1. Changers' = {} /\ Changers = {}
      BY <1>e DEF Changers, PosteriorChanges, IntervalDecides, AffineDecides, Challenger, FitOf,
                  InstalledAfterFit, BeforePosterior, BeforeInterval, BeforeAffine, EarlyStages
    <2>2. UntouchedBeforeGate' /\ InstalledAfterFit' /\ HeldWhileInstalled'
      BY <1>e DEF UntouchedBeforeGate, InstalledAfterFit, HeldWhileInstalled, After, Layer,
                  BeforePosterior, BeforeInterval, BeforeAffine, EarlyStages, Challenger, FitOf
    <2>3. SurfaceLayers'
      BY <1>e DEF SurfaceLayers, PosteriorPart, After, Layer, Challengers
    <2>4. OneDecisionHead' /\ ConfidenceFollows'
      BY <1>e, <2>1 DEF OneDecisionHead, IntervalDecides, AffineDecides, ConfidenceFollows, FitOf,
                  Challenger, InstalledAfterFit, BeforePosterior, BeforeInterval, EarlyStages
    <2> QED
      BY <1>t, <2>2, <2>3, <2>4
  \* An exception that leaves fit.
  <1>x. ASSUME NEW m \in Layer, NEW c, NEW d, Raise(m, c, d), d \cap Challenger = deployed \cap Challenger
        PROVE  IInv'
    <2>1. /\ stage' = "raised" /\ UNCHANGED <<perm, surface, labels>>
          /\ deployed' \cap Challenger = deployed \cap Challenger
      BY <1>x DEF Raise
    <2>2. UntouchedBeforeGate' /\ InstalledAfterFit' /\ HeldWhileInstalled'
      BY <2>1 DEF UntouchedBeforeGate, InstalledAfterFit, HeldWhileInstalled,
                  BeforePosterior, BeforeInterval, BeforeAffine, EarlyStages, Challenger, FitOf
    <2>3. SurfaceLayers'
      BY <2>1 DEF SurfaceLayers, PosteriorPart, Challengers
    <2>4. OneDecisionHead' /\ ConfidenceFollows'
      BY <2>1 DEF OneDecisionHead, IntervalDecides, AffineDecides, ConfidenceFollows, Challenger
    <2> QED
      BY <1>t, <2>2, <2>3, <2>4
  <1>11. CASE NoSignalFit
    <2>1. \A k \in 0..3 : Refreshed(calib, OofBase, k).conf \in {calib.conf, {}}
      BY <1>b DEF Refreshed, LabelSource, Challengers
    <2>2. CASE Install("nosignal", Refreshed(calib, OofBase, 3))
      BY <2>1, <2>2, <1>e DEF Install, Challenger
    <2>3. CASE \E k \in 0..2 : Raise("nosignal", Refreshed(calib, OofBase, k), deployed)
      BY <2>3, <1>x DEF Layer
    <2> QED
      BY <1>11, <2>2, <2>3 DEF NoSignalFit
  <1>12. CASE SmoothFit
    <2>1. CASE Install("smooth", [calib EXCEPT !.cal = surface["smooth"]])
      BY <2>1, <1>e, <1>t DEF Install, Challenger, TypeOK
    <2> QED
      BY <1>12, <2>1, <1>x DEF SmoothFit, Layer
  <1>13. CASE CategoryFit
    <2>1. CASE Install("category", [calib EXCEPT !.cal = surface["category"]])
      BY <2>1, <1>e, <1>t DEF Install, Challenger, TypeOK
    <2>2. CASE \E d \in {deployed, deployed \cup {"category"}} : Raise("category", calib, d)
      BY <2>2, <1>x DEF Layer, Challenger
    <2> QED
      BY <1>13, <2>1, <2>2 DEF CategoryFit
  <1>14. CASE PathFit
    <2>1. CASE Install("path", [calib EXCEPT !.cal = surface["path"]])
      BY <2>1, <1>e, <1>t DEF Install, Challenger, TypeOK
    <2>2. CASE /\ stage = "path_fit"
               /\ stage' = After["path"]
               /\ surface' = [surface EXCEPT !["path"] = Absent]
               /\ UNCHANGED <<table, deployed, perm, labels, calib, reported, judged>>
      BY <2>2, <1>e, <1>t DEF FitOf, TypeOK
    <2> QED
      BY <1>14, <2>1, <2>2 DEF PathFit
  \* A challenger whose final fit is undone.
  <1>u. ASSUME NEW m \in Challenger, NEW c, c.conf = calib.conf, FailClosed(m, c)
        PROVE  IInv'
    <2>1. /\ stage = FitOf[m] /\ stage' = After[m] /\ calib' = c
          /\ deployed' = deployed /\ m \notin deployed
          /\ perm' = [perm EXCEPT ![m] = "none"]
          /\ \A n \in Layer \ {m} : surface'[n] = surface[n]
          /\ surface'[m] = Absent
      BY <1>u, <1>t DEF FailClosed, TypeOK, InstalledAfterFit, FitOf, Challenger, Layer
    <2>2. /\ m # "posterior" => labels' = [labels EXCEPT ![m] = Absent]
          /\ m = "posterior" => labels' = labels
      BY <1>u DEF FailClosed
    <2>3. UntouchedBeforeGate' /\ InstalledAfterFit'
      BY <1>t, <2>1, <2>2 DEF UntouchedBeforeGate, InstalledAfterFit, After, Layer, TypeOK,
                  BeforePosterior, BeforeInterval, BeforeAffine, EarlyStages, Challenger, FitOf
    <2>4. HeldWhileInstalled'
      BY <1>t, <2>1, <2>2 DEF HeldWhileInstalled, After, Layer, TypeOK, Challenger, FitOf,
                  UntouchedBeforeGate, BeforeInterval
    <2>5. SurfaceLayers'
      BY <1>t, <2>1, <2>2 DEF SurfaceLayers, PosteriorPart, After, Layer, TypeOK, Challenger, FitOf,
                  Challengers, UntouchedBeforeGate, BeforeInterval
    <2>6. Changers' = Changers
      BY <1>t, <2>1 DEF Changers, Challenger, PosteriorChanges, IntervalDecides, AffineDecides, TypeOK
    <2>7. OneDecisionHead' /\ ConfidenceFollows'
      BY <1>t, <1>u, <2>1, <2>6 DEF OneDecisionHead, IntervalDecides, AffineDecides, ConfidenceFollows,
                  Challenger, FitOf, TypeOK, DecisionHead
    <2> QED
      BY <1>t, <2>3, <2>4, <2>5, <2>7
  \* A challenger that is installed: what is left to show is that _conf follows it.
  <1>i. ASSUME NEW m \in Challenger, NEW c, Install(m, c),
               Changers' = c.conf \/ (Changers' = Changers /\ c.conf = calib.conf),
               OneDecisionHead'
        PROVE  IInv'
    <2>1. /\ stage = FitOf[m] /\ stage' = After[m] /\ calib' = c
          /\ deployed' = deployed \cup {m}
          /\ UNCHANGED <<perm, surface, labels>>
      BY <1>i DEF Install
    <2>2. UntouchedBeforeGate' /\ InstalledAfterFit' /\ HeldWhileInstalled'
      BY <2>1 DEF UntouchedBeforeGate, InstalledAfterFit, HeldWhileInstalled, After, Layer,
                  BeforePosterior, BeforeInterval, BeforeAffine, EarlyStages, Challenger, FitOf
    <2>3. SurfaceLayers'
      BY <2>1 DEF SurfaceLayers, PosteriorPart, After, Challenger, Challengers
    <2>4. ConfidenceFollows'
      BY <1>i, <2>1 DEF ConfidenceFollows, Challenger, FitOf
    <2> QED
      BY <1>t, <1>i, <2>2, <2>3, <2>4
  <1>15. CASE PosteriorFit
    <2>1. CASE Install("posterior", Refreshed(calib, surface["posterior"], 3))
      <3>1. /\ stage = "posterior_fit" /\ deployed' = deployed \cup {"posterior"} /\ perm' = perm
            /\ "interval" \notin deployed /\ "affine" \notin deployed
            /\ surface["posterior"] # Absent
        BY <2>1 DEF Install, FitOf, InstalledAfterFit, BeforeInterval, BeforeAffine, HeldWhileInstalled
      <3>2. Changers' = {n \in {"posterior"} : perm["posterior"] # "rank_only"}
        BY <3>1 DEF Changers, Challenger, PosteriorChanges, IntervalDecides, AffineDecides
      <3>3. Challengers(surface["posterior"]) = {"posterior"}
        BY <3>1 DEF SurfaceLayers
      <3>4. LabelSource(surface["posterior"]) = {n \in {"posterior"} : perm["posterior"] # "rank_only"}
        BY <3>3 DEF LabelSource, Challengers
      <3>5. Refreshed(calib, surface["posterior"], 3).conf = LabelSource(surface["posterior"])
        BY DEF Refreshed
      <3>6. OneDecisionHead'
        BY <3>1 DEF OneDecisionHead, IntervalDecides
      <3> QED
        BY <2>1, <3>2, <3>4, <3>5, <3>6, <1>i DEF Challenger
    <2>2. ASSUME NEW k \in 0..2,
                 FailClosed("posterior", RolledBack(calib, Refreshed(calib, surface["posterior"], k)))
          PROVE  IInv'
      BY <2>2, <1>u DEF RolledBack, Challenger
    <2>3. CASE \E k \in 0..2 : Raise("posterior", Refreshed(calib, surface["posterior"], k), deployed)
      BY <2>3, <1>x DEF Layer
    <2> QED
      BY <1>15, <2>1, <2>2, <2>3 DEF PosteriorFit
  <1>16. CASE IntervalFit
    <2>1. CASE Install("interval", DecisionRefreshed(calib, labels["interval"]))
      <3>1. /\ stage = "interval_fit" /\ deployed' = deployed \cup {"interval"} /\ perm' = perm
            /\ "affine" \notin deployed /\ labels["interval"] # Absent
            /\ surface["posterior"] # Absent <=> "posterior" \in deployed
        BY <2>1 DEF Install, FitOf, InstalledAfterFit, BeforeAffine, HeldWhileInstalled
      <3>2. Changers' = {"interval"} \cup
                        {n \in {"posterior"} : "posterior" \in deployed /\ perm["posterior"] # "rank_only"}
        BY <3>1 DEF Changers, Challenger, PosteriorChanges, IntervalDecides, AffineDecides
      <3>3. LabelSource(labels["interval"]) = Changers'
        BY <3>1, <3>2 DEF LabelSource, Challengers, SurfaceLayers, PosteriorPart, Challenger
      <3>4. DecisionRefreshed(calib, labels["interval"]).conf = LabelSource(labels["interval"])
        BY <1>t DEF DecisionRefreshed, TypeOK
      <3>5. OneDecisionHead'
        BY <3>1 DEF OneDecisionHead, AffineDecides
      <3> QED
        BY <2>1, <3>3, <3>4, <3>5, <1>i DEF Challenger
    <2> QED
      BY <1>16, <2>1, <1>u, <1>x DEF IntervalFit, Challenger, Layer
  <1>17. CASE AffineFit
    <2>0. ASSUME NEW c, Install("affine", c)
          PROVE  /\ stage = "affine_fit" /\ deployed' = deployed \cup {"affine"} /\ perm' = perm
                 /\ labels["interval"] # Absent <=> "interval" \in deployed
                 /\ surface["posterior"] # Absent <=> "posterior" \in deployed
                 /\ "affine" \notin deployed
      BY <2>0 DEF Install, FitOf, InstalledAfterFit, HeldWhileInstalled
    <2>1. CASE perm["affine"] \in DecisionHead
               /\ Install("affine", DecisionRefreshed(calib, labels["affine"]))
      <3>1. /\ "interval" \notin deployed
            /\ Challengers(labels["affine"]) = {"affine"} \cup PosteriorPart
        BY <2>0, <2>1 DEF SurfaceLayers
      <3>2. Changers' = {"affine"} \cup
                        {n \in {"posterior"} : "posterior" \in deployed /\ perm["posterior"] # "rank_only"}
        BY <2>0, <2>1, <3>1 DEF Changers, Challenger, PosteriorChanges, IntervalDecides, AffineDecides
      <3>3. LabelSource(labels["affine"]) = Changers'
        BY <2>0, <2>1, <3>1, <3>2 DEF LabelSource, Challengers, PosteriorPart, Challenger
      <3>4. DecisionRefreshed(calib, labels["affine"]).conf = LabelSource(labels["affine"])
        BY <1>t DEF DecisionRefreshed, TypeOK
      <3>5. OneDecisionHead'
        BY <2>0, <2>1, <3>1 DEF OneDecisionHead, IntervalDecides
      <3> QED
        BY <2>1, <3>3, <3>4, <3>5, <1>i DEF Challenger
    <2>2. CASE perm["affine"] \notin DecisionHead /\ Install("affine", calib)
      <3>1. Changers' = Changers /\ OneDecisionHead'
        BY <2>0, <2>2 DEF Changers, Challenger, PosteriorChanges, IntervalDecides, AffineDecides,
                          OneDecisionHead
      <3> QED
        BY <2>2, <3>1, <1>i DEF Challenger
    <2> QED
      BY <1>17, <2>1, <2>2, <1>u, <1>x DEF AffineFit, Challenger, Layer
  <1>18. CASE Clear
    <2>1. /\ stage = "clear" /\ stage' = "done" /\ UNCHANGED <<deployed, perm, calib>>
          /\ \A m \in Layer : surface'[m] = Absent
          /\ labels'["interval"] = Absent
      BY <1>18 DEF Clear, NoSurface, NoLabels
    <2>2. UntouchedBeforeGate' /\ InstalledAfterFit' /\ HeldWhileInstalled' /\ SurfaceLayers'
      BY <2>1 DEF UntouchedBeforeGate, InstalledAfterFit, HeldWhileInstalled, SurfaceLayers, Layer,
                  BeforePosterior, BeforeInterval, BeforeAffine, EarlyStages, Challenger, FitOf
    <2>3. Changers' = Changers /\ OneDecisionHead'
      BY <2>1 DEF Changers, PosteriorChanges, IntervalDecides, AffineDecides, OneDecisionHead
    <2> QED
      BY <1>t, <2>1, <2>2, <2>3 DEF ConfidenceFollows
  <1>19. CASE Refit
    <2>1. /\ stage' = "confidence" /\ deployed' = {}
          /\ \A m \in Challenger : perm'[m] = "none"
          /\ \A m \in Layer : surface'[m] = Absent
          /\ labels'["interval"] = Absent
      BY <1>19 DEF Refit, NoSurface, NoLabels, NoPermission
    <2> QED
      BY <1>t, <2>1 DEF UntouchedBeforeGate, InstalledAfterFit, HeldWhileInstalled, SurfaceLayers, Layer,
                  BeforePosterior, BeforeInterval, BeforeAffine, EarlyStages, Challenger, FitOf,
                  OneDecisionHead, IntervalDecides, ConfidenceFollows
  <1>20. CASE UNCHANGED vars
    BY <1>20, <1>t DEF vars, UntouchedBeforeGate, InstalledAfterFit, HeldWhileInstalled, SurfaceLayers,
                  PosteriorPart, OneDecisionHead, IntervalDecides, AffineDecides, ConfidenceFollows,
                  Changers, PosteriorChanges
  <1> QED
    BY <1>1, <1>2, <1>3, <1>4, <1>5, <1>6, <1>7, <1>8, <1>9, <1>10, <1>11, <1>12, <1>13,
       <1>14, <1>15, <1>16, <1>17, <1>18, <1>19, <1>20 DEF Next, Gate, FinalFit

\* The inductive invariant of the admission sequence.
THEOREM Inductive == Spec => []IInv
  BY InvInit, InvNext, PTL DEF Spec

-----------------------------------------------------------------------------
(* What the invariant gives.                                               *)

\* Whatever the gates decide and whichever final fits fail, the precision regions
\* that confidence() reports were calibrated on the decisions predict() returns.
THEOREM ConfidenceIsOfServedDecisions == Spec => []ConfidenceDescribesDecisions
  <1>1. IInv => ConfidenceDescribesDecisions
    BY DEF IInv, ConfidenceFollows, ConfidenceDescribesDecisions
  <1> QED
    BY <1>1, Inductive, PTL

\* No sequence of admissions gives two hidden decision heads top-1 authority.
THEOREM SingleDecisionHead == Spec => []OneDecisionHead
  <1>1. IInv => OneDecisionHead
    BY DEF IInv
  <1> QED
    BY <1>1, Inductive, PTL

\* The evidence cascade of proof() ends in the decision predict() makes.
LEMMA CascadeConcludes ==
  ASSUME NEW v \in Vote
  PROVE  ProofConcludes(v) = DecisionTop(v)
  <1>1. /\ v.booster \in Class /\ v.posterior \in Class /\ v.interval \in Class /\ v.affine \in Class
    BY DEF Vote
  <1>2. \A c, b \in Class : /\ Evidence(c, b) # Absent
                            /\ Evidence(c, b).prediction = c /\ (Evidence(c, b).override <=> c # b)
    BY AbsentIsNoEvidence DEF Evidence
  <1>3. CalibratedTop(v) \in Class /\ IntervalTop(v) \in Class
    BY <1>1 DEF CalibratedTop, IntervalTop
  <1>4. LET e == PosteriorEvidence(v)
        IN IF e # Absent /\ e.override THEN e.prediction = IntervalTop(v)
                                       ELSE v.booster = IntervalTop(v)
    <2>1. CASE IntervalDecides /\ PosteriorChanges
      BY <2>1, <1>1, <1>2, <1>3 DEF PosteriorEvidence, IntervalTop, CalibratedTop, Pick
    <2>2. CASE IntervalDecides /\ ~PosteriorChanges
      BY <2>2, <1>1, <1>2, <1>3 DEF PosteriorEvidence, IntervalTop, CalibratedTop, Pick
    <2>3. CASE ~IntervalDecides /\ PosteriorChanges
      BY <2>3, <1>1, <1>2, <1>3 DEF PosteriorEvidence, IntervalTop, CalibratedTop, Pick
    <2>4. CASE ~IntervalDecides /\ ~PosteriorChanges
      BY <2>4 DEF PosteriorEvidence, IntervalTop, CalibratedTop, Pick
    <2> QED
      BY <2>1, <2>2, <2>3, <2>4
  <1>5. CASE AffineDecides /\ v.affine # IntervalTop(v)
    BY <1>5, <1>1, <1>2, <1>3 DEF ProofConcludes, AffineEvidence, DecisionTop, Pick
  <1>6. CASE ~(AffineDecides /\ v.affine # IntervalTop(v))
    <2>1. AffineEvidence(v) = Absent
      BY <1>6, <1>1, <1>2, <1>3 DEF AffineEvidence
    <2>2. DecisionTop(v) = IntervalTop(v)
      BY <1>6 DEF DecisionTop
    <2> QED
      BY <2>1, <2>2, <1>4 DEF ProofConcludes, Pick
  <1> QED
    BY <1>5, <1>6

\* The class the proof returned for a row derives is the class predict returns for it.
THEOREM ProofIsOfServedClass == Spec => []ProofConcludesServedClass
  <1>1. IInv => ProofConcludesServedClass
    BY CascadeConcludes DEF ProofConcludesServedClass, Votes
  <1> QED
    BY <1>1, Inductive, PTL

\* predict and the argmax of predict_proba part only under a decision_only head.
THEOREM PublicAgreement == Spec => []PublicAgreesUnlessDecisionOnly
  <1>1. IInv => PublicAgreesUnlessDecisionOnly
    <2> SUFFICES ASSUME IInv, \A m \in deployed \cap Challenger : perm[m] # "decision_only",
                        NEW v \in Votes
                 PROVE  PublicTop(v) = DecisionTop(v)
      BY DEF PublicAgreesUnlessDecisionOnly
    <2>1. "interval" \in deployed => perm["interval"] = "decision_and_rank"
      BY DEF IInv, TypeOK, InstalledAfterFit, Challenger, DecisionHead
    <2>2. "affine" \in deployed => perm["affine"] \in {"rank_only", "decision_and_rank"}
      BY DEF IInv, TypeOK, InstalledAfterFit, Challenger, DecisionHead
    <2>3. v.affine = v.affineRank
      BY <2>1 DEF Votes
    <2> QED
      BY <2>1, <2>2, <2>3 DEF PublicTop, DecisionTop, IntervalTop, AffineDecides, IntervalDecides,
                              DecisionHead
  <1> QED
    BY <1>1, Inductive, PTL

-----------------------------------------------------------------------------
(* The out-of-fold stack of the gates and the served stack.                *)

\* Member m passed its gate, and its final fit is under way or has succeeded.
Held(m) == m \in deployed \/ (m # "prior" /\ stage = FitOf[m])

\* A member is installed by its final fit and by nothing else; the no-signal and
\* prior-rank members are installed by their gates.
InstalledInOrder ==
  /\ stage \in {"confidence", "nosignal"} => "nosignal" \notin deployed
  /\ stage = "nosignal_fit" => "nosignal" \in deployed
  /\ stage \in {"confidence", "nosignal", "nosignal_fit", "smooth", "smooth_fit"} =>
       "smooth" \notin deployed
  /\ stage \in {"confidence", "nosignal", "nosignal_fit", "smooth", "smooth_fit",
                "category", "category_fit"} => "category" \notin deployed
  /\ stage \in EarlyStages => "path" \notin deployed
  /\ stage \notin {"clear", "done", "raised"} => "prior" \notin deployed

\* The surface gate m compares its member with.  It is the one serving applies m to, but
\* for the path gate, which reads a projection serving may not have made.
JudgedOn(m) == IF m = "path" THEN Project(ServedCategory) ELSE Incumbent(m)

\* The out-of-fold surface an admitted member leaves for the later gates.
Left(m) == IF m = "smooth" THEN Project(BlendRaw(JudgedOn(m), m)) ELSE Blend(JudgedOn(m), m)

\* A head that only decides keeps its surface to itself.
Shown(m) == /\ m = "interval" => perm["interval"] = "decision_and_rank"
            /\ m = "affine" => perm["affine"] \in RankRead

\* The members whose incumbent is the served one, come what may to the smooth member.
Unprojected == {"nosignal", "smooth", "category", "path"}

\* While the fit runs, a member that was admitted has left its surface, and no other has.
SurfacesAsServed ==
  stage \notin {"done", "raised"} =>
    \A m \in Layer \ {"nosignal", "prior"} :
      (RawSmoothUnderPath => m \in Unprojected) =>
        surface[m] = IF Held(m) /\ Shown(m) THEN Left(m) ELSE Absent

JudgedAsServed ==
  stage # "raised" =>
    \A m \in Layer : Held(m) /\ (RawSmoothUnderPath => m \in Unprojected)
                       => judged[m] = JudgedOn(m)

\* The calibrated surface moves with the stack, member by member.
CalibrationFollows ==
  stage \notin {"confidence", "nosignal_fit", "raised"} /\ ~RawSmoothUnderPath =>
    calib.cal \in {Absent, ServedCalibrated}

\* The thresholds move with the posterior, where there are any.
ThresholdsFollow ==
  stage \notin {"confidence", "raised"} =>
    /\ table.multiclass => calib.thr = Absent
    /\ calib.thr # Absent => ("posterior" \in calib.thr.layers <=> "posterior" \in deployed)

ServingInv == /\ InstalledInOrder /\ SurfacesAsServed /\ JudgedAsServed
              /\ CalibrationFollows /\ ThresholdsFollow

\* Every surface serving composes is a surface, and which of them are projected:
\* _blended_proba leaves only a smooth member without a projection of its own.
LEMMA ServedTypes ==
  /\ ServedBase \in Surface /\ ServedSmooth \in Surface /\ ServedCategory \in Surface
  /\ ServedPath \in Surface /\ ServedCertified \in Surface /\ ServedCalibrated \in Surface
  /\ ServedInterval \in Surface /\ ServedIntervalRank \in Surface /\ ServedRank \in Surface
  /\ ~ServedBase.raw
  /\ "smooth" \notin deployed => ~ServedSmooth.raw
  /\ "smooth" \notin deployed \/ "category" \in deployed => ~ServedCategory.raw
  <1>0. /\ Booster \in Surface /\ ~Booster.raw
        /\ \A s \in Surface : \A m \in Layer : Blend(s, m) \in Surface /\ BlendRaw(s, m) \in Surface
        /\ \A s \in Surface : Project(s) \in Surface /\ ~Project(s).raw
        /\ \A s \in Surface : \A m \in Layer : Blend(s, m).raw = s.raw
    <2>1. Booster \in Surface /\ ~Booster.raw
      BY DEF Booster, Surface
    <2>2. \A s \in Surface : Project(s) \in Surface /\ ~Project(s).raw
      BY DEF Surface, Project
    <2>3. \A s \in Surface : \A m \in Layer : Blend(s, m).raw = s.raw
      BY DEF Surface, Blend
    <2> QED
      BY <2>1, <2>2, <2>3, Composition
  <1>l. /\ "nosignal" \in Layer /\ "smooth" \in Layer /\ "category" \in Layer /\ "path" \in Layer
        /\ "posterior" \in Layer /\ "interval" \in Layer /\ "affine" \in Layer
    BY DEF Layer
  <1>1. ServedBase \in Surface /\ ~ServedBase.raw
    BY <1>0, <1>l DEF ServedBase, With
  <1>2. ServedSmooth \in Surface /\ ("smooth" \notin deployed => ~ServedSmooth.raw)
    BY <1>0, <1>1, <1>l DEF ServedSmooth, With
  <1>3. /\ ServedCategory \in Surface
        /\ "smooth" \notin deployed \/ "category" \in deployed => ~ServedCategory.raw
    BY <1>0, <1>2, <1>l DEF ServedCategory, With
  <1>4. ServedPath \in Surface
    BY <1>0, <1>3, <1>l DEF ServedPath, With
  <1>5. ServedCertified \in Surface
    BY <1>0, <1>4 DEF ServedCertified
  <1>6. ServedCalibrated \in Surface
    BY <1>0, <1>5, <1>l DEF ServedCalibrated, With
  <1>7. ServedInterval \in Surface
    BY <1>0, <1>6, <1>l DEF ServedInterval, With
  <1>8. ServedIntervalRank \in Surface
    BY <1>6, <1>7 DEF ServedIntervalRank
  <1>9. ServedRank \in Surface
    BY <1>0, <1>8, <1>l DEF ServedRank, With
  <1> QED
    BY <1>1, <1>2, <1>3, <1>4, <1>5, <1>6, <1>7, <1>8, <1>9

\* _preserve_certified_class changes nothing on a surface that is projected already.
LEMMA ProjectIdle ==
  ASSUME NEW s \in Surface, ~s.raw
  PROVE  Project(s) = s
  BY DEF Project, Surface

\* Without a raw smooth member under the path member, the projection of the path surface is
\* the path member blended into the projection below it.
LEMMA CertifiedStack ==
  /\ Project(ServedBase) = ServedBase
  /\ "smooth" \notin deployed => Project(ServedSmooth) = ServedBase
  /\ "category" \in deployed => Project(ServedCategory) = Blend(Project(ServedSmooth), "category")
  /\ "category" \notin deployed => Project(ServedCategory) = Project(ServedSmooth)
  /\ "path" \notin deployed => ServedCertified = Project(ServedCategory)
  /\ ~RawSmoothUnderPath /\ "path" \in deployed =>
       /\ ServedCertified = Blend(Project(ServedCategory), "path")
       /\ Project(ServedCategory) = ServedCategory
  <1>1. Project(ServedBase) = ServedBase
    BY ServedTypes, ProjectIdle
  <1>2. "smooth" \notin deployed => Project(ServedSmooth) = ServedBase
    BY <1>1 DEF ServedSmooth, With
  <1>3. "category" \in deployed => Project(ServedCategory) = Blend(Project(ServedSmooth), "category")
    BY ServedTypes, ProjectIdle DEF ServedCategory, With
  <1>4. "category" \notin deployed => Project(ServedCategory) = Project(ServedSmooth)
    BY DEF ServedCategory, With
  <1>5. "path" \notin deployed => ServedCertified = Project(ServedCategory)
    BY DEF ServedCertified, ServedPath, With
  <1>6. ASSUME ~RawSmoothUnderPath, "path" \in deployed
        PROVE  /\ ServedCertified = Blend(Project(ServedCategory), "path")
               /\ Project(ServedCategory) = ServedCategory
    <2>1. ~ServedCategory.raw
      BY <1>6, ServedTypes DEF RawSmoothUnderPath
    <2>2. Project(ServedCategory) = ServedCategory
      BY <2>1, ServedTypes, ProjectIdle
    <2>3. ServedPath = Blend(ServedCategory, "path")
      BY <1>6 DEF ServedPath, With
    <2>4. Blend(ServedCategory, "path") \in Surface /\ ~Blend(ServedCategory, "path").raw
      BY <2>1, ServedTypes DEF Blend, Surface, Layer
    <2> QED
      BY <2>2, <2>3, <2>4, ProjectIdle DEF ServedCertified
  <1> QED
    BY <1>1, <1>2, <1>3, <1>4, <1>5, <1>6

\* What a gate reads from _oof_probability_base and its overrides is what serving composes,
\* whenever no final fit of an earlier member is pending.
LEMMA OofIsServed ==
  ASSUME TypeOK, IInv, SurfacesAsServed, stage \notin {"done", "raised"}
  PROVE  /\ OofBase = ServedBase
         /\ stage # "smooth_fit" => OofSmooth = Project(ServedSmooth)
         /\ stage \notin {"smooth_fit", "category_fit"} => OofCategory = Project(ServedCategory)
         /\ ~RawSmoothUnderPath =>
              /\ stage \notin {"smooth_fit", "category_fit", "path_fit"} => OofPath = ServedCertified
              /\ stage \in {"interval", "affine", "prior"} => OofPosterior = ServedCalibrated
              /\ stage \in {"affine", "prior"} => OofInterval = ServedIntervalRank
              /\ stage = "prior" => OofStack = ServedRank
  <1>p. /\ \A s \in Surface : s # Absent
        /\ \A s \in Surface : \A m \in Layer : Blend(s, m) \in Surface /\ Project(BlendRaw(s, m)) \in Surface
        /\ \A s \in Surface : Project(s) \in Surface
    <2>1. "smooth" \in Layer
      BY DEF Layer
    <2> QED
      BY <2>1, SurfaceIsPresent, Composition
  <1>s. \A m \in Layer \ {"nosignal", "prior"} :
          (RawSmoothUnderPath => m \in Unprojected) =>
            surface[m] = IF Held(m) /\ Shown(m) THEN Left(m) ELSE Absent
    BY DEF SurfacesAsServed
  <1>1. OofBase = ServedBase
    BY DEF OofBase, ServedBase, With
  <1>2. ASSUME stage # "smooth_fit" PROVE OofSmooth = Project(ServedSmooth)
    <2>1. surface["smooth"] =
            IF "smooth" \in deployed THEN Project(BlendRaw(ServedBase, "smooth")) ELSE Absent
      BY <1>2, <1>s DEF Layer, Unprojected, Held, Shown, Left, JudgedOn, Incumbent, FitOf
    <2>2. Project(BlendRaw(ServedBase, "smooth")) # Absent
      BY <1>p, ServedTypes DEF Layer
    <2> QED
      BY <2>1, <2>2, <1>1, CertifiedStack DEF OofSmooth, Pick, ServedSmooth, With
  <1>3. ASSUME stage \notin {"smooth_fit", "category_fit"}
        PROVE  OofCategory = Project(ServedCategory)
    <2>1. surface["category"] =
            IF "category" \in deployed THEN Blend(Project(ServedSmooth), "category") ELSE Absent
      BY <1>3, <1>s DEF Layer, Unprojected, Held, Shown, Left, JudgedOn, Incumbent, FitOf
    <2>2. Blend(Project(ServedSmooth), "category") # Absent
      BY <1>p, ServedTypes DEF Layer
    <2> QED
      BY <2>1, <2>2, <1>2, <1>3, CertifiedStack DEF OofCategory, Pick
  <1>4. ASSUME stage \notin {"smooth_fit", "category_fit", "path_fit"}, ~RawSmoothUnderPath
        PROVE  OofPath = ServedCertified
    <2>1. surface["path"] =
            IF "path" \in deployed THEN Blend(Project(ServedCategory), "path") ELSE Absent
      BY <1>4, <1>s DEF Layer, Unprojected, Held, Shown, Left, JudgedOn, FitOf
    <2>2. Blend(Project(ServedCategory), "path") # Absent
      BY <1>p, ServedTypes DEF Layer
    <2> QED
      BY <2>1, <2>2, <1>3, <1>4, CertifiedStack DEF OofPath, Pick
  <1>5. ASSUME stage \in {"interval", "affine", "prior"}, ~RawSmoothUnderPath
        PROVE  OofPosterior = ServedCalibrated
    <2>1. surface["posterior"] =
            IF "posterior" \in deployed THEN Blend(ServedCertified, "posterior") ELSE Absent
      BY <1>5, <1>s DEF Layer, Held, Shown, Left, JudgedOn, Incumbent, FitOf
    <2>2. Blend(ServedCertified, "posterior") # Absent
      BY <1>p, ServedTypes DEF Layer
    <2> QED
      BY <2>1, <2>2, <1>4, <1>5 DEF OofPosterior, Pick, ServedCalibrated, With
  <1>6. ASSUME stage \in {"affine", "prior"}, ~RawSmoothUnderPath
        PROVE  OofInterval = ServedIntervalRank
    <2>1. surface["interval"] =
            IF "interval" \in deployed /\ perm["interval"] = "decision_and_rank"
              THEN Blend(ServedCalibrated, "interval") ELSE Absent
      BY <1>6, <1>s DEF Layer, Held, Shown, Left, JudgedOn, Incumbent, FitOf
    <2>2. Blend(ServedCalibrated, "interval") # Absent
      BY <1>p, ServedTypes DEF Layer
    <2> QED
      BY <2>1, <2>2, <1>5, <1>6 DEF OofInterval, Pick, ServedIntervalRank, ServedInterval, With
  <1>7. ASSUME stage = "prior", ~RawSmoothUnderPath
        PROVE  OofStack = ServedRank
    <2>1. perm["affine"] = "decision_only" \/ perm["affine"] \in RankRead \/ perm["affine"] = "none"
      BY DEF TypeOK, DecisionHead, RankRead
    <2>2. perm["affine"] \in RankRead => "decision_only" # perm["affine"]
      BY DEF RankRead
    <2>3. surface["affine"] =
            IF "affine" \in deployed /\ perm["affine"] \in RankRead
              THEN Blend(ServedIntervalRank, "affine") ELSE Absent
      BY <1>7, <2>2, <1>s DEF Layer, Held, Shown, Left, JudgedOn, Incumbent, FitOf
    <2>4. Blend(ServedIntervalRank, "affine") # Absent
      BY <1>p, ServedTypes DEF Layer
    <2> QED
      BY <2>3, <2>4, <1>6, <1>7 DEF OofStack, Pick, ServedRank, With
  <1> QED
    BY <1>1, <1>2, <1>3, <1>4, <1>5, <1>6, <1>7

\* A step that changes nothing below member n leaves the surface n is judged on alone.
Below == [nosignal |-> {}, smooth |-> {"nosignal"}, category |-> {"nosignal", "smooth"},
          path |-> {"nosignal", "smooth", "category"},
          posterior |-> Unprojected, interval |-> Unprojected \cup {"posterior"},
          affine |-> Unprojected \cup {"posterior", "interval"},
          prior |-> Unprojected \cup Challenger]

\* A gate's surface depends only on the members below it, and on what those may see.
LEMMA JudgedOnStable ==
  ASSUME NEW n \in Layer,
         \A k \in Below[n] : k \in deployed' <=> k \in deployed,
         n \in {"affine", "prior"} /\ "interval" \in deployed => perm'["interval"] = perm["interval"],
         n = "affine" \/ (n = "prior" /\ "affine" \in deployed) => perm'["affine"] = perm["affine"]
  PROVE  JudgedOn(n)' = JudgedOn(n)
  <1>u. /\ Unprojected = {"nosignal", "smooth", "category", "path"}
        /\ Challenger = {"posterior", "interval", "affine"}
    BY DEF Unprojected, Challenger
  <1>1. n # "nosignal" => ServedBase' = ServedBase
    BY <1>u DEF ServedBase, With, Layer, Below
  <1>2. n \notin {"nosignal", "smooth"} => ServedSmooth' = ServedSmooth
    BY <1>1, <1>u DEF ServedSmooth, With, Layer, Below
  <1>3. n \notin {"nosignal", "smooth", "category"} => ServedCategory' = ServedCategory
    BY <1>2, <1>u DEF ServedCategory, With, Layer, Below
  <1>4. n \in {"posterior", "interval", "affine", "prior"} => ServedCertified' = ServedCertified
    BY <1>3, <1>u DEF ServedCertified, ServedPath, With, Layer, Below
  <1>5. n \in {"interval", "affine", "prior"} => ServedCalibrated' = ServedCalibrated
    BY <1>4, <1>u DEF ServedCalibrated, With, Layer, Below
  <1>6. n \in {"affine", "prior"} => /\ ServedInterval' = ServedInterval
                                     /\ ServedIntervalRank' = ServedIntervalRank
    <2>1. n \in {"affine", "prior"} => ("interval" \in deployed' <=> "interval" \in deployed)
      BY <1>u DEF Layer, Below
    <2> QED
      BY <1>5, <2>1 DEF ServedInterval, ServedIntervalRank, With
  <1>7. n = "prior" => ServedRank' = ServedRank
    <2>1. n = "prior" => ("affine" \in deployed' <=> "affine" \in deployed)
      BY <1>u DEF Below
    <2> QED
      BY <1>6, <2>1 DEF ServedRank, With
  <1> QED
    BY <1>1, <1>2, <1>3, <1>4, <1>5, <1>6, <1>7 DEF JudgedOn, Incumbent, Layer

\* The members are admitted in one order: while the gate or the final fit of m is due, only
\* members below it can be installed (the no-signal gate installs its own member).
LEMMA OnlyBelow ==
  ASSUME IInv, InstalledInOrder, NEW m \in Layer, stage \in {m, FitOf[m]}, m # "prior"
  PROVE  /\ \A n \in deployed : n \in Below[m] \/ (n = m /\ m = "nosignal")
         /\ m # "nosignal" => m \notin deployed
  <1>1. deployed \subseteq Layer
    BY DEF IInv, TypeOK
  <1>2. InstalledAfterFit
    BY DEF IInv
  <1>3. \A n \in deployed : n \in Below[m] \/ (n = m /\ m = "nosignal")
    BY <1>1, <1>2 DEF InstalledInOrder, InstalledAfterFit, EarlyStages, BeforePosterior, BeforeInterval,
       BeforeAffine, Layer, Below, FitOf, Unprojected
  <1>4. m \notin Below[m]
    BY DEF Layer, Below, Unprojected, Challenger
  <1> QED
    BY <1>3, <1>4

\* No two members are below each other.
LEMMA OrderIsStrict ==
  \A m, n \in Layer : n \in Below[m] => m \notin Below[n]
  BY DEF Layer, Below, Unprojected, Challenger

\* While a gate is due no final fit is pending: the members held are the installed ones.
LEMMA HeldAtGate ==
  ASSUME NEW m \in Layer, stage = m, NEW n \in Layer
  PROVE  Held(n) <=> n \in deployed
  BY DEF Held, Layer, FitOf

\* At a final fit the member being built is held besides the installed ones.
LEMMA HeldAtFit ==
  ASSUME NEW m \in Layer \ {"prior"}, stage = FitOf[m], NEW n \in Layer
  PROVE  Held(n) <=> n \in deployed \cup {m}
  BY DEF Held, Layer, FitOf

\* The surface a member is judged on, and whether it shows its own, outlive the later steps.
LEMMA KeptBelow ==
  ASSUME NEW m \in Layer, NEW n \in Layer, n = m \/ n \in Below[m],
         deployed' \in {deployed, deployed \cup {m}},
         \A k \in Challenger \ {m} : perm'[k] = perm[k],
         n = m => perm' = perm
  PROVE  JudgedOn(n)' = JudgedOn(n) /\ Left(n)' = Left(n) /\ Shown(n)' = Shown(n)
  <1>1. m \notin Below[n]
    BY OrderIsStrict DEF Below, Layer, Unprojected, Challenger
  <1>2. \A k \in Below[n] : k \in deployed' <=> k \in deployed
    BY <1>1
  <1>3. /\ n \in {"affine", "prior"} => perm'["interval"] = perm["interval"]
        /\ n = "affine" => perm'["affine"] = perm["affine"]
        /\ n = "interval" => perm'["interval"] = perm["interval"]
        /\ n = "prior" => perm'["affine"] = perm["affine"]
    BY DEF Below, Layer, Challenger, Unprojected
  <1>4. JudgedOn(n)' = JudgedOn(n)
    BY <1>2, <1>3, JudgedOnStable
  <1>5. Shown(n)' = Shown(n)
    BY <1>3 DEF Shown
  <1> QED
    BY <1>4, <1>5 DEF Left

\* A member that is passed over, or withdrawn by its handler (_fit_predictor's except arms).
LEMMA Passed ==
  ASSUME TypeOK, TypeOK', IInv, ServingInv, NEW m \in Layer \ {"prior"}, stage \in {m, FitOf[m]},
         stage' = After[m], UNCHANGED <<table, deployed, judged, calib>>,
         \A k \in Challenger \ {m} : perm'[k] = perm[k],
         m # "nosignal" /\ (RawSmoothUnderPath => m \in Unprojected) => surface'[m] = Absent,
         \A n \in Layer \ {m} : surface'[n] = surface[n],
         m = "nosignal" => stage = m
  PROVE  ServingInv'
  <1> USE DEF ServingInv
  <1>1. /\ \A n \in deployed : n \in Below[m]
        /\ m \notin deployed
    BY OnlyBelow DEF InstalledInOrder
  <1>2. \A n \in Layer : Held(n)' <=> n \in deployed
    BY DEF Held, Layer, FitOf, After
  <1>3. \A n \in Layer : n # m => (Held(n) <=> n \in deployed)
    BY DEF Held, Layer, FitOf
  <1>4. \A n \in deployed : JudgedOn(n)' = JudgedOn(n) /\ Left(n)' = Left(n) /\ Shown(n)' = Shown(n)
    BY <1>1, KeptBelow DEF TypeOK
  <1>5. RawSmoothUnderPath' = RawSmoothUnderPath
    BY DEF RawSmoothUnderPath
  <1>6. InstalledInOrder'
    BY <1>1 DEF InstalledInOrder, After, Layer, EarlyStages, Below, Unprojected, FitOf
  <1>7. SurfacesAsServed'
    <2> SUFFICES ASSUME NEW n \in Layer \ {"nosignal", "prior"}, (RawSmoothUnderPath => n \in Unprojected)
                 PROVE  surface'[n] = IF Held(n)' /\ Shown(n)' THEN Left(n)' ELSE Absent
      BY <1>5 DEF SurfacesAsServed
    <2>1. stage \notin {"done", "raised"}
      BY DEF Layer, FitOf
    <2>2. surface[n] = IF Held(n) /\ Shown(n) THEN Left(n) ELSE Absent
      BY <2>1 DEF SurfacesAsServed
    <2> QED
      BY <2>2, <1>1, <1>2, <1>3, <1>4
  <1>8. JudgedAsServed'
    <2> SUFFICES ASSUME NEW n \in Layer, Held(n)', (RawSmoothUnderPath => n \in Unprojected)
                 PROVE  judged[n] = JudgedOn(n)'
      BY <1>5 DEF JudgedAsServed
    <2>1. stage # "raised"
      BY DEF Layer, FitOf
    <2> QED
      BY <2>1, <1>1, <1>2, <1>3, <1>4 DEF JudgedAsServed
  <1>9. CalibrationFollows'
    <2>1. ServedCalibrated' = ServedCalibrated
      BY JudgedOnStable DEF JudgedOn, Incumbent, Layer
    <2>2. stage \notin {"confidence", "nosignal_fit", "raised"}
      BY DEF Layer, FitOf
    <2> QED
      BY <2>1, <2>2, <1>5 DEF CalibrationFollows
  <1>10. ThresholdsFollow'
    BY DEF ThresholdsFollow, Layer, FitOf
  <1> QED
    BY <1>6, <1>7, <1>8, <1>9, <1>10

\* A gate that admits its member against the surface serving applies the member to.
LEMMA Admitted ==
  ASSUME TypeOK, TypeOK', IInv, ServingInv, NEW m \in Layer \ {"nosignal", "prior"}, stage = m,
         stage' = FitOf[m], UNCHANGED <<table, deployed, calib>>,
         \A k \in Challenger \ {m} : perm'[k] = perm[k],
         \A n \in Layer \ {m} : surface'[n] = surface[n] /\ judged'[n] = judged[n],
         (RawSmoothUnderPath => m \in Unprojected) =>
           /\ judged'[m] = JudgedOn(m)'
           /\ surface'[m] = IF Shown(m)' THEN Left(m)' ELSE Absent
  PROVE  ServingInv'
  <1> USE DEF ServingInv
  <1>1. /\ \A n \in deployed : n \in Below[m]
        /\ m \notin deployed
    BY OnlyBelow DEF InstalledInOrder
  <1>2. \A n \in Layer : Held(n)' <=> n \in deployed \cup {m}
    BY DEF Held, Layer, FitOf
  <1>3. \A n \in Layer : Held(n) <=> n \in deployed
    BY HeldAtGate
  <1>4. \A n \in deployed : JudgedOn(n)' = JudgedOn(n) /\ Left(n)' = Left(n) /\ Shown(n)' = Shown(n)
    BY <1>1, KeptBelow DEF TypeOK
  <1>5. RawSmoothUnderPath' = RawSmoothUnderPath
    BY DEF RawSmoothUnderPath
  <1>6. InstalledInOrder'
    BY <1>1 DEF InstalledInOrder, Layer, EarlyStages, Below, Unprojected, Challenger, FitOf
  <1>0. stage \notin {"done", "raised", "confidence", "nosignal_fit"}
    BY DEF Layer
  <1>7. SurfacesAsServed'
    <2> SUFFICES ASSUME NEW n \in Layer \ {"nosignal", "prior"}, (RawSmoothUnderPath => n \in Unprojected)
                 PROVE  surface'[n] = IF Held(n)' /\ Shown(n)' THEN Left(n)' ELSE Absent
      BY <1>5 DEF SurfacesAsServed
    <2>2. surface[n] = IF Held(n) /\ Shown(n) THEN Left(n) ELSE Absent
      BY <1>0 DEF SurfacesAsServed
    <2> QED
      BY <2>2, <1>1, <1>2, <1>3, <1>4
  <1>8. JudgedAsServed'
    <2> SUFFICES ASSUME NEW n \in Layer, Held(n)', (RawSmoothUnderPath => n \in Unprojected)
                 PROVE  judged'[n] = JudgedOn(n)'
      BY <1>5 DEF JudgedAsServed
    <2> QED
      BY <1>0, <1>1, <1>2, <1>3, <1>4 DEF JudgedAsServed
  <1>9. CalibrationFollows'
    <2>1. ServedCalibrated' = ServedCalibrated
      BY JudgedOnStable DEF JudgedOn, Incumbent, Layer
    <2> QED
      BY <2>1, <1>0, <1>5 DEF CalibrationFollows
  <1>10. ThresholdsFollow'
    BY <1>0 DEF ThresholdsFollow
  <1> QED
    BY <1>6, <1>7, <1>8, <1>9, <1>10

\* A final fit that installs its member: the stored surfaces stay the served ones.
LEMMA InstalledAsJudged ==
  ASSUME TypeOK, TypeOK', IInv, ServingInv, NEW m \in Layer \ {"prior"}, stage = FitOf[m],
         stage' = After[m], deployed' = deployed \cup {m}, UNCHANGED <<table, perm, surface, judged>>
  PROVE  /\ InstalledInOrder' /\ SurfacesAsServed' /\ JudgedAsServed'
         /\ RawSmoothUnderPath => RawSmoothUnderPath'
  <1> USE DEF ServingInv
  <1>1. \A n \in deployed \cup {m} : n = m \/ n \in Below[m]
    BY OnlyBelow DEF InstalledInOrder
  <1>2. \A n \in Layer : Held(n)' <=> n \in deployed \cup {m}
    BY DEF Held, Layer, FitOf, After
  <1>3. \A n \in Layer : Held(n) <=> n \in deployed \cup {m}
    BY HeldAtFit
  <1>4. \A n \in deployed \cup {m} :
          JudgedOn(n)' = JudgedOn(n) /\ Left(n)' = Left(n) /\ Shown(n)' = Shown(n)
    BY <1>1, KeptBelow DEF TypeOK
  <1>5. RawSmoothUnderPath => RawSmoothUnderPath'
    <2>1. RawSmoothUnderPath => "path" \in Below[m]
      BY <1>1, OnlyBelow DEF RawSmoothUnderPath
    <2>2. "path" \in Below[m] => m # "category"
      BY DEF Below
    <2> QED
      BY <2>1, <2>2 DEF RawSmoothUnderPath
  <1>6. InstalledInOrder'
    BY <1>1 DEF InstalledInOrder, After, Layer, EarlyStages, Below, Unprojected, Challenger, FitOf
  <1>0. stage \notin {"done", "raised"}
    BY DEF Layer, FitOf
  <1>7. SurfacesAsServed'
    <2> SUFFICES ASSUME NEW n \in Layer \ {"nosignal", "prior"}, (RawSmoothUnderPath => n \in Unprojected)
                 PROVE  surface[n] = IF Held(n)' /\ Shown(n)' THEN Left(n)' ELSE Absent
      BY <1>5 DEF SurfacesAsServed
    <2>2. surface[n] = IF Held(n) /\ Shown(n) THEN Left(n) ELSE Absent
      BY <1>0 DEF SurfacesAsServed
    <2> QED
      BY <2>2, <1>2, <1>3, <1>4
  <1>8. JudgedAsServed'
    <2> SUFFICES ASSUME NEW n \in Layer, Held(n)', (RawSmoothUnderPath => n \in Unprojected)
                 PROVE  judged[n] = JudgedOn(n)'
      BY <1>5 DEF JudgedAsServed
    <2> QED
      BY <1>0, <1>2, <1>3, <1>4 DEF JudgedAsServed
  <1> QED
    BY <1>5, <1>6, <1>7, <1>8

\* The top of the served stack, member by member, while the members above it are not there.
LEMMA TopOfStack ==
  ~RawSmoothUnderPath =>
    /\ deployed \cap {"smooth", "category", "path", "posterior"} = {} => ServedCalibrated = ServedBase
    /\ deployed \cap {"smooth", "category", "path", "posterior"} = {"smooth"} =>
         ServedCalibrated = Project(BlendRaw(ServedBase, "smooth"))
    /\ "category" \in deployed /\ deployed \cap {"path", "posterior"} = {} =>
         ServedCalibrated = Blend(Project(ServedSmooth), "category")
    /\ "path" \in deployed /\ "posterior" \notin deployed =>
         ServedCalibrated = Blend(Project(ServedCategory), "path")
    /\ "posterior" \in deployed => ServedCalibrated = Blend(ServedCertified, "posterior")
  <1> SUFFICES ASSUME ~RawSmoothUnderPath
               PROVE  /\ deployed \cap {"smooth", "category", "path", "posterior"} = {} =>
                           ServedCalibrated = ServedBase
                      /\ deployed \cap {"smooth", "category", "path", "posterior"} = {"smooth"} =>
                           ServedCalibrated = Project(BlendRaw(ServedBase, "smooth"))
                      /\ "category" \in deployed /\ deployed \cap {"path", "posterior"} = {} =>
                           ServedCalibrated = Blend(Project(ServedSmooth), "category")
                      /\ "path" \in deployed /\ "posterior" \notin deployed =>
                           ServedCalibrated = Blend(Project(ServedCategory), "path")
                      /\ "posterior" \in deployed => ServedCalibrated = Blend(ServedCertified, "posterior")
    OBVIOUS
  <1>1. "posterior" \notin deployed => ServedCalibrated = ServedCertified
    BY DEF ServedCalibrated, With
  <1>2. "posterior" \in deployed => ServedCalibrated = Blend(ServedCertified, "posterior")
    BY DEF ServedCalibrated, With
  <1>3. "smooth" \in deployed => ServedSmooth = BlendRaw(ServedBase, "smooth")
    BY DEF ServedSmooth, With
  <1> QED
    BY <1>1, <1>2, <1>3, CertifiedStack

\* The serving half before the first stage.
LEMMA ServingInit == Init => ServingInv
  <1> SUFFICES ASSUME Init PROVE ServingInv
    OBVIOUS
  <1>1. stage = "confidence" /\ deployed = {} /\ \A m \in Layer : surface[m] = Absent
    BY DEF Init, NoSurface
  <1>2. \A m \in Layer : ~Held(m)
    BY <1>1 DEF Held, Layer, FitOf
  <1>3. SurfacesAsServed
    BY <1>1, <1>2 DEF SurfacesAsServed
  <1> QED
    BY <1>1, <1>2, <1>3 DEF ServingInv, InstalledInOrder, JudgedAsServed, CalibrationFollows, ThresholdsFollow

\* Every stage keeps the serving half.
LEMMA ServingNext == IInv /\ ServingInv /\ [Next]_vars => ServingInv'
  <1> SUFFICES ASSUME IInv, ServingInv, [Next]_vars PROVE ServingInv'
    OBVIOUS
  <1>t. /\ TypeOK /\ TypeOK' /\ IInv'
    BY TypeNext, InvNext DEF IInv
  <1>l. /\ Layer = {"nosignal", "smooth", "category", "path", "posterior", "interval", "affine", "prior"}
        /\ Unprojected = {"nosignal", "smooth", "category", "path"}
        /\ Challenger = {"posterior", "interval", "affine"}
    BY DEF Layer, Unprojected, Challenger
  <1>s. InstalledInOrder /\ SurfacesAsServed /\ JudgedAsServed /\ CalibrationFollows /\ ThresholdsFollow
    BY DEF ServingInv
  <1>f. \A m \in Layer \ {"prior"} : /\ stage = FitOf[m] => stage \notin {"done", "raised", "confidence"}
                                     /\ stage = m => stage \notin {"done", "raised", "confidence"}
    BY DEF Layer, FitOf
  <1>1. CASE BuildConfidence
    <2>1. /\ stage = "confidence" /\ stage' = "nosignal"
          /\ UNCHANGED <<table, deployed, perm, surface, labels, judged>>
          /\ calib' \in CalibrationOutcomes
      BY <1>1 DEF BuildConfidence
    <2>2. /\ calib'.cal \in {Absent, Booster} /\ calib'.thr \in {Absent, Booster}
          /\ table.multiclass => calib'.thr = Absent
      BY <2>1 DEF CalibrationOutcomes, NoCalibration
    <2>3. deployed \cap Layer = {} /\ deployed \subseteq Layer
      BY <1>s, <1>t, <2>1 DEF InstalledInOrder, IInv, InstalledAfterFit, EarlyStages, BeforePosterior,
                              BeforeInterval, BeforeAffine, Layer, TypeOK, Challenger
    <2>4. /\ \A m \in Layer : ~Held(m) /\ ~Held(m)'
          /\ ~RawSmoothUnderPath'
      BY <2>1, <2>3 DEF Held, Layer, FitOf, RawSmoothUnderPath
    <2>5. SurfacesAsServed' /\ JudgedAsServed'
      BY <1>s, <2>1, <2>4 DEF SurfacesAsServed, JudgedAsServed, RawSmoothUnderPath
    <2>6. InstalledInOrder'
      BY <2>1, <2>3, <1>l DEF InstalledInOrder
    <2>7. ServedCalibrated' = Booster
      <3>1. deployed' = {}
        BY <2>1, <2>3
      <3> QED
        BY <3>1 DEF ServedCalibrated, ServedCertified, ServedPath, ServedCategory, ServedSmooth, ServedBase,
                    With, Project, Booster
    <2>8. "posterior" \notin Booster.layers /\ "posterior" \notin deployed'
      BY <2>1, <2>3, <1>l DEF Booster
    <2> QED
      BY <2>1, <2>2, <2>5, <2>6, <2>7, <2>8 DEF ServingInv, CalibrationFollows, ThresholdsFollow
  <1>2. ASSUME NEW m \in Layer, Reject(m) PROVE ServingInv'
    <2>1. CASE m # "prior"
      <3>1. /\ stage = m /\ stage' = After[m]
            /\ UNCHANGED <<table, deployed, perm, surface, judged, calib>>
        BY <1>2 DEF Reject
      <3>2. stage \notin {"done", "raised"} /\ (m # "nosignal" => ~Held(m))
        BY <1>s, <1>l, <1>t, <2>1, <3>1, OnlyBelow, HeldAtGate
      <3>3. m # "nosignal" /\ (RawSmoothUnderPath => m \in Unprojected) => surface[m] = Absent
        BY <1>s, <2>1, <3>2 DEF SurfacesAsServed
      <3> QED
        BY <1>t, <2>1, <3>1, <3>3, Passed
    <2>2. CASE m = "prior"
      <3>1. /\ stage = "prior" /\ stage' = "clear"
            /\ UNCHANGED <<table, deployed, perm, surface, judged, calib>>
        BY <1>2, <2>2 DEF Reject, After
      <3>2. \A n \in Layer : /\ Held(n)' <=> Held(n)
                             /\ JudgedOn(n)' = JudgedOn(n) /\ Left(n)' = Left(n) /\ Shown(n)' = Shown(n)
        BY <3>1, JudgedOnStable DEF Held, FitOf, Layer, Left, Shown
      <3>3. ServedCalibrated' = ServedCalibrated /\ RawSmoothUnderPath' = RawSmoothUnderPath
        BY <3>1, JudgedOnStable DEF JudgedOn, Incumbent, Layer, RawSmoothUnderPath
      <3>4. SurfacesAsServed' /\ JudgedAsServed'
        BY <1>s, <3>1, <3>2, <3>3 DEF SurfacesAsServed, JudgedAsServed
      <3> QED
        BY <1>s, <3>1, <3>3, <3>4 DEF ServingInv, InstalledInOrder, CalibrationFollows, ThresholdsFollow,
                                     EarlyStages
    <2> QED
      BY <2>1, <2>2
  <1>o. /\ stage \in {"smooth", "category", "path", "posterior", "interval", "affine", "prior"} =>
              OofBase = ServedBase
        /\ stage \in {"category", "path", "posterior", "interval", "affine", "prior"} =>
              OofSmooth = Project(ServedSmooth)
        /\ stage \in {"path", "posterior", "interval", "affine", "prior"} =>
              OofCategory = Project(ServedCategory)
        /\ stage = "posterior" /\ ~RawSmoothUnderPath => OofPath = ServedCertified
        /\ stage = "interval" /\ ~RawSmoothUnderPath => OofPosterior = ServedCalibrated
        /\ stage = "affine" /\ ~RawSmoothUnderPath => OofInterval = ServedIntervalRank
        /\ stage = "prior" /\ ~RawSmoothUnderPath => OofStack = ServedRank
    BY <1>t, <1>s, OofIsServed
  <1>j. ASSUME UNCHANGED deployed, NEW n \in Layer \ {"affine", "prior"}
        PROVE  JudgedOn(n)' = JudgedOn(n)
    BY <1>j, JudgedOnStable
  \* A gate that selects its member.
  <1>g. ASSUME NEW m \in Layer, NEW base, NEW chosen, Select(m, base, chosen)
        PROVE  /\ stage = m /\ stage' = FitOf[m] /\ UNCHANGED <<table, calib>>
               /\ \A n \in Layer \ {m} : surface'[n] = surface[n] /\ judged'[n] = judged[n]
               /\ judged'[m] = base /\ surface'[m] = chosen
    BY <1>g, <1>t DEF Select, TypeOK
  <1>4. CASE SmoothGate
    <2>1. JudgedOn("smooth")' = JudgedOn("smooth") /\ JudgedOn("smooth") = ServedBase
      BY <1>4, <1>j, <1>l DEF SmoothGate, JudgedOn, Incumbent
    <2>2. Left("smooth")' = Project(BlendRaw(ServedBase, "smooth")) /\ Shown("smooth")'
      BY <2>1 DEF Left, Shown
    <2> QED
      BY <1>4, <1>g, <1>l, <1>o, <1>t, <2>1, <2>2, Admitted DEF SmoothGate
  <1>5. CASE CategoryGate
    <2>1. JudgedOn("category")' = JudgedOn("category") /\ JudgedOn("category") = Project(ServedSmooth)
      BY <1>5, <1>j, <1>l DEF CategoryGate, JudgedOn, Incumbent
    <2>2. Left("category")' = Blend(Project(ServedSmooth), "category") /\ Shown("category")'
      BY <2>1 DEF Left, Shown
    <2> QED
      BY <1>5, <1>g, <1>l, <1>o, <1>t, <2>1, <2>2, Admitted DEF CategoryGate
  <1>6. CASE PathGate
    <2>1. JudgedOn("path")' = JudgedOn("path") /\ JudgedOn("path") = Project(ServedCategory)
      BY <1>6, <1>j, <1>l DEF PathGate, JudgedOn
    <2>2. Left("path")' = Blend(Project(ServedCategory), "path") /\ Shown("path")'
      BY <2>1 DEF Left, Shown
    <2> QED
      BY <1>6, <1>g, <1>l, <1>o, <1>t, <2>1, <2>2, Admitted DEF PathGate
  <1>7. CASE PosteriorGate
    <2> PICK p \in {"class_change", "rank_only"} :
          /\ Select("posterior", OofPath, Blend(OofPath, "posterior"))
          /\ perm' = [perm EXCEPT !["posterior"] = p]
          /\ UNCHANGED <<deployed, labels>>
      BY <1>7 DEF PosteriorGate
    <2>1. JudgedOn("posterior")' = JudgedOn("posterior") /\ JudgedOn("posterior") = ServedCertified
      BY <1>j, <1>l DEF JudgedOn, Incumbent
    <2>2. Left("posterior")' = Blend(ServedCertified, "posterior") /\ Shown("posterior")'
      BY <2>1 DEF Left, Shown
    <2>3. \A k \in Challenger \ {"posterior"} : perm'[k] = perm[k]
      BY <1>t DEF TypeOK
    <2>4. stage = "posterior" /\ (RawSmoothUnderPath \/ OofPath = ServedCertified)
      BY <1>g, <1>l, <1>o
    <2> QED
      BY <1>g, <1>l, <1>t, <2>1, <2>2, <2>3, <2>4, Admitted
  <1>8. CASE IntervalGate
    <2> PICK p \in DecisionHead :
          /\ Select("interval", OofPosterior,
                    IF p = "decision_and_rank" THEN Blend(OofPosterior, "interval") ELSE Absent)
          /\ perm' = [perm EXCEPT !["interval"] = p]
          /\ UNCHANGED deployed
      BY <1>8 DEF IntervalGate
    <2>1. JudgedOn("interval")' = JudgedOn("interval") /\ JudgedOn("interval") = ServedCalibrated
      BY <1>j, <1>l DEF JudgedOn, Incumbent
    <2>2. /\ Left("interval")' = Blend(ServedCalibrated, "interval")
          /\ Shown("interval")' <=> perm'["interval"] = "decision_and_rank"
      BY <2>1 DEF Left, Shown
    <2>3. /\ \A k \in Challenger \ {"interval"} : perm'[k] = perm[k]
          /\ perm'["interval"] = p
      BY <1>t, <1>l DEF TypeOK
    <2>4. stage = "interval" /\ (RawSmoothUnderPath \/ OofPosterior = ServedCalibrated)
      BY <1>g, <1>l, <1>o
    <2> QED
      BY <1>g, <1>l, <1>t, <2>1, <2>2, <2>3, <2>4, Admitted
  <1>9. CASE AffineGate
    <2> PICK p \in AffineOffer :
          /\ Select("affine", OofInterval,
                    IF p = "decision_only" THEN Absent ELSE Blend(OofInterval, "affine"))
          /\ perm' = [perm EXCEPT !["affine"] = p]
          /\ UNCHANGED deployed
      BY <1>9 DEF AffineGate
    <2>1. stage = "affine" /\ (RawSmoothUnderPath \/ OofInterval = ServedIntervalRank)
      BY <1>g, <1>l, <1>o
    <2>2. /\ \A k \in Challenger \ {"affine"} : perm'[k] = perm[k]
          /\ perm'["affine"] = p
      BY <1>t, <1>l DEF TypeOK
    <2>3. p = "decision_only" => "interval" \notin deployed
      BY <2>1, <1>t DEF AffineOffer, IInv, HeldWhileInstalled
    <2>4. ServedCalibrated' = ServedCalibrated
      BY JudgedOnStable DEF JudgedOn, Incumbent, Layer
    <2>5. ServedInterval' = ServedInterval /\ ServedIntervalRank' = ServedIntervalRank
      BY <2>2, <2>4, <1>l DEF ServedInterval, ServedIntervalRank, With
    <2>6. "interval" \notin deployed => ServedInterval = ServedIntervalRank
      BY DEF ServedInterval, ServedIntervalRank, With
    <2>7. JudgedOn("affine")' = ServedIntervalRank
      BY <2>2, <2>3, <2>5, <2>6 DEF JudgedOn, Incumbent
    <2>8. /\ Left("affine")' = Blend(ServedIntervalRank, "affine")
          /\ Shown("affine")' <=> perm'["affine"] \in RankRead
      BY <2>7 DEF Left, Shown
    <2>9. p \in RankRead <=> p # "decision_only"
      BY DEF AffineOffer, DecisionHead, RankRead
    <2> QED
      BY <1>g, <1>l, <1>t, <2>1, <2>2, <2>7, <2>8, <2>9, Admitted
  <1>3. CASE NoSignalGate
    <2>1. /\ stage = "nosignal" /\ stage' = "nosignal_fit" /\ UNCHANGED <<table, calib, perm>>
          /\ \A n \in Layer \ {"nosignal"} : surface'[n] = surface[n]
          /\ judged'["nosignal"] = Booster
          /\ deployed' = deployed \cup {"nosignal"}
      BY <1>3, <1>g, <1>l DEF NoSignalGate, FitOf
    <2>2. deployed \cap Layer = {} /\ deployed \subseteq Layer
      BY <1>s, <1>t, <2>1 DEF InstalledInOrder, IInv, InstalledAfterFit, EarlyStages, BeforePosterior,
                              BeforeInterval, BeforeAffine, Layer, TypeOK, Challenger
    <2>3. /\ \A n \in Layer : ~Held(n) /\ (Held(n)' <=> n = "nosignal")
          /\ ~RawSmoothUnderPath' /\ ~RawSmoothUnderPath
      BY <2>1, <2>2 DEF Held, Layer, FitOf, RawSmoothUnderPath
    <2>4. SurfacesAsServed'
      BY <1>s, <2>1, <2>3 DEF SurfacesAsServed
    <2>5. JudgedOn("nosignal")' = Booster
      BY DEF JudgedOn, Incumbent
    <2>6. JudgedAsServed'
      BY <2>1, <2>3, <2>5 DEF JudgedAsServed
    <2>7. InstalledInOrder'
      BY <2>1, <2>2, <1>l DEF InstalledInOrder, EarlyStages
    <2>8. ThresholdsFollow' /\ CalibrationFollows'
      BY <1>s, <2>1 DEF ThresholdsFollow, CalibrationFollows
    <2> QED
      BY <2>4, <2>6, <2>7, <2>8 DEF ServingInv
  <1>10. CASE PriorGate
    <2>1. /\ stage = "prior" /\ stage' = "clear" /\ UNCHANGED <<table, calib, perm>>
          /\ \A n \in Layer \ {"prior"} : surface'[n] = surface[n] /\ judged'[n] = judged[n]
          /\ judged'["prior"] = OofStack
          /\ deployed' = deployed \cup {"prior"}
      BY <1>10, <1>g, <1>l DEF PriorGate, FitOf
    <2>2. \A n \in Layer : \A k \in Below[n] : k \in deployed' <=> k \in deployed
      BY <2>1, <1>l DEF Below
    <2>3. \A n \in Layer : JudgedOn(n)' = JudgedOn(n) /\ Left(n)' = Left(n) /\ Shown(n)' = Shown(n)
      BY <2>1, <2>2, JudgedOnStable DEF Left, Shown
    <2>4. \A n \in Layer \ {"prior"} : Held(n)' <=> Held(n)
      BY <2>1, <1>l DEF Held, FitOf
    <2>5. RawSmoothUnderPath' = RawSmoothUnderPath
      BY <2>1 DEF RawSmoothUnderPath
    <2>6. SurfacesAsServed'
      BY <1>s, <2>1, <2>3, <2>4, <2>5 DEF SurfacesAsServed
    <2>7. JudgedOn("prior") = ServedRank
      BY DEF JudgedOn, Incumbent
    <2>8. JudgedAsServed'
      BY <1>s, <1>l, <1>o, <2>1, <2>3, <2>4, <2>5, <2>7 DEF JudgedAsServed
    <2>9. InstalledInOrder'
      BY <1>s, <2>1 DEF InstalledInOrder, EarlyStages
    <2>10. ServedCalibrated' = ServedCalibrated
      BY <2>3, <1>l DEF JudgedOn, Incumbent
    <2>11. ThresholdsFollow' /\ CalibrationFollows'
      BY <1>s, <2>1, <2>5, <2>10 DEF ThresholdsFollow, CalibrationFollows
    <2> QED
      BY <2>6, <2>8, <2>9, <2>11 DEF ServingInv
  \* What is left to show of an installation: the calibration moved with the stack.
  <1>i. ASSUME NEW m \in Layer \ {"prior"}, NEW c, Install(m, c)
        PROVE  /\ stage = FitOf[m] /\ stage' = After[m] /\ deployed' = deployed \cup {m} /\ calib' = c
               /\ UNCHANGED <<table, perm, surface, judged>>
               /\ InstalledInOrder' /\ SurfacesAsServed' /\ JudgedAsServed'
               /\ RawSmoothUnderPath => RawSmoothUnderPath'
               /\ stage' \notin {"confidence", "nosignal_fit", "raised"}
    <2>1. /\ stage = FitOf[m] /\ stage' = After[m] /\ deployed' = deployed \cup {m} /\ calib' = c
          /\ UNCHANGED <<table, perm, surface, judged>>
      BY <1>i DEF Install
    <2>2. stage' \notin {"confidence", "nosignal_fit", "raised"}
      BY <2>1 DEF Layer, After
    <2> QED
      BY <2>1, <2>2, <1>t, InstalledAsJudged
  <1>v. ASSUME stage \notin {"done", "raised"}, NEW m \in Layer \ {"nosignal", "prior"}, stage = FitOf[m],
               RawSmoothUnderPath => m \in Unprojected, Shown(m)
        PROVE  surface[m] = Left(m)
    BY <1>v, <1>s, <1>l DEF SurfacesAsServed, Held
  <1>d. ASSUME NEW m \in Layer \ {"prior"}, stage = FitOf[m]
        PROVE  \A n \in deployed : n \in Below[m] \/ n = m
    BY <1>d, <1>s, <1>t, OnlyBelow
  <1>w. ASSUME ~RawSmoothUnderPath'
        PROVE  /\ deployed' \cap {"smooth", "category", "path", "posterior"} = {} =>
                    ServedCalibrated' = ServedBase'
               /\ deployed' \cap {"smooth", "category", "path", "posterior"} = {"smooth"} =>
                    ServedCalibrated' = Project(BlendRaw(ServedBase', "smooth"))
               /\ "category" \in deployed' /\ deployed' \cap {"path", "posterior"} = {} =>
                    ServedCalibrated' = Blend(Project(ServedSmooth'), "category")
               /\ "path" \in deployed' /\ "posterior" \notin deployed' =>
                    ServedCalibrated' = Blend(Project(ServedCategory'), "path")
               /\ "posterior" \in deployed' => ServedCalibrated' = Blend(ServedCertified', "posterior")
    <2>1. (~RawSmoothUnderPath =>
            /\ deployed \cap {"smooth", "category", "path", "posterior"} = {} => ServedCalibrated = ServedBase
            /\ deployed \cap {"smooth", "category", "path", "posterior"} = {"smooth"} =>
                 ServedCalibrated = Project(BlendRaw(ServedBase, "smooth"))
            /\ "category" \in deployed /\ deployed \cap {"path", "posterior"} = {} =>
                 ServedCalibrated = Blend(Project(ServedSmooth), "category")
            /\ "path" \in deployed /\ "posterior" \notin deployed =>
                 ServedCalibrated = Blend(Project(ServedCategory), "path")
            /\ "posterior" \in deployed => ServedCalibrated = Blend(ServedCertified, "posterior"))'
      BY TopOfStack, PTL
    <2> QED
      BY <1>w, <2>1
  \* An exception that leaves fit: nothing is promised of the half-built estimator.
  <1>x. ASSUME NEW m \in Layer, NEW c, NEW d, Raise(m, c, d)
        PROVE  ServingInv'
    BY <1>x DEF Raise, ServingInv, InstalledInOrder, SurfacesAsServed, JudgedAsServed, CalibrationFollows,
                ThresholdsFollow, EarlyStages
  <1>11. CASE NoSignalFit
    <2>1. CASE Install("nosignal", Refreshed(calib, OofBase, 3))
      <3>1. /\ stage = "nosignal_fit" /\ deployed' = deployed \cup {"nosignal"} /\ table' = table
            /\ calib' = Refreshed(calib, OofBase, 3)
            /\ InstalledInOrder' /\ SurfacesAsServed' /\ JudgedAsServed'
        BY <2>1, <1>i, <1>l DEF FitOf
      <3>2. deployed = {"nosignal"} /\ deployed' = {"nosignal"}
        <4>1. deployed \subseteq {"nosignal"}
          BY <1>d, <1>l, <3>1 DEF FitOf, Below
        <4> QED
          BY <4>1, <3>1, <1>s DEF InstalledInOrder
      <3>3. OofBase = ServedBase' /\ ~RawSmoothUnderPath'
        BY <3>2 DEF OofBase, ServedBase, With, RawSmoothUnderPath
      <3>4. ServedCalibrated' = ServedBase'
        BY <1>w, <3>2, <3>3
      <3>5. CalibrationFollows'
        BY <3>1, <3>3, <3>4 DEF CalibrationFollows, Refreshed
      <3>6. "posterior" \notin OofBase.layers
        BY <3>2 DEF OofBase, Blend, Booster
      <3>7. table.multiclass => calib.thr = Absent
        BY <1>s, <3>1 DEF ThresholdsFollow
      <3>8. ThresholdsFollow'
        BY <3>1, <3>2, <3>6, <3>7 DEF ThresholdsFollow, Refreshed
      <3> QED
        BY <3>1, <3>5, <3>8 DEF ServingInv
    <2> QED
      BY <1>11, <2>1, <1>x, <1>l DEF NoSignalFit
  <1>12. CASE SmoothFit
    <2>1. CASE Install("smooth", [calib EXCEPT !.cal = surface["smooth"]])
      <3>1. /\ stage = "smooth_fit" /\ deployed' = deployed \cup {"smooth"} /\ table' = table
            /\ calib' = [calib EXCEPT !.cal = surface["smooth"]]
            /\ InstalledInOrder' /\ SurfacesAsServed' /\ JudgedAsServed'
        BY <2>1, <1>i, <1>l DEF FitOf
      <3>2. deployed' \cap {"smooth", "category", "path", "posterior"} = {"smooth"}
        BY <1>d, <1>l, <3>1 DEF FitOf, Below
      <3>3. Shown("smooth") /\ Left("smooth") = Project(BlendRaw(ServedBase, "smooth"))
        BY DEF Shown, Left, JudgedOn, Incumbent
      <3>4. surface["smooth"] = Project(BlendRaw(ServedBase, "smooth"))
        BY <1>v, <1>l, <3>1, <3>3 DEF FitOf
      <3>5. ServedBase' = ServedBase /\ ~RawSmoothUnderPath'
        BY <3>1, <3>2 DEF ServedBase, With, RawSmoothUnderPath
      <3>6. ServedCalibrated' = surface["smooth"]
        BY <1>w, <3>2, <3>4, <3>5
      <3>7. CalibrationFollows' /\ ThresholdsFollow'
        BY <1>s, <1>t, <3>1, <3>6 DEF CalibrationFollows, ThresholdsFollow, TypeOK
      <3> QED
        BY <3>1, <3>7 DEF ServingInv
    <2> QED
      BY <1>12, <2>1, <1>x, <1>l DEF SmoothFit
  <1>13. CASE CategoryFit
    <2>1. CASE Install("category", [calib EXCEPT !.cal = surface["category"]])
      <3>1. /\ stage = "category_fit" /\ deployed' = deployed \cup {"category"} /\ table' = table
            /\ calib' = [calib EXCEPT !.cal = surface["category"]]
            /\ InstalledInOrder' /\ SurfacesAsServed' /\ JudgedAsServed'
        BY <2>1, <1>i, <1>l DEF FitOf
      <3>2. "category" \in deployed' /\ deployed' \cap {"path", "posterior"} = {}
        BY <1>d, <1>l, <3>1 DEF FitOf, Below
      <3>3. Shown("category") /\ Left("category") = Blend(Project(ServedSmooth), "category")
        BY DEF Shown, Left, JudgedOn, Incumbent
      <3>4. surface["category"] = Blend(Project(ServedSmooth), "category")
        BY <1>v, <1>l, <3>1, <3>3 DEF FitOf
      <3>5. ServedSmooth' = ServedSmooth /\ ~RawSmoothUnderPath'
        BY <3>1, <3>2 DEF ServedSmooth, ServedBase, With, RawSmoothUnderPath
      <3>6. ServedCalibrated' = surface["category"]
        BY <1>w, <3>2, <3>4, <3>5
      <3>7. CalibrationFollows' /\ ThresholdsFollow'
        BY <1>s, <1>t, <3>1, <3>6 DEF CalibrationFollows, ThresholdsFollow, TypeOK
      <3> QED
        BY <3>1, <3>7 DEF ServingInv
    <2> QED
      BY <1>13, <2>1, <1>x, <1>l DEF CategoryFit
  <1>14. CASE PathFit
    <2>1. CASE Install("path", [calib EXCEPT !.cal = surface["path"]])
      <3>1. /\ stage = "path_fit" /\ deployed' = deployed \cup {"path"} /\ table' = table
            /\ calib' = [calib EXCEPT !.cal = surface["path"]]
            /\ InstalledInOrder' /\ SurfacesAsServed' /\ JudgedAsServed'
        BY <2>1, <1>i, <1>l DEF FitOf
      <3>2. "path" \in deployed' /\ "posterior" \notin deployed'
        BY <1>d, <1>l, <3>1 DEF FitOf, Below
      <3>3. Shown("path") /\ Left("path") = Blend(Project(ServedCategory), "path")
        BY DEF Shown, Left, JudgedOn
      <3>4. surface["path"] = Blend(Project(ServedCategory), "path")
        BY <1>v, <1>l, <3>1, <3>3 DEF FitOf
      <3>5. ServedCategory' = ServedCategory
        BY <3>1 DEF ServedCategory, ServedSmooth, ServedBase, With
      <3>6. ~RawSmoothUnderPath' => ServedCalibrated' = surface["path"]
        BY <1>w, <3>2, <3>4, <3>5
      <3>7. CalibrationFollows' /\ ThresholdsFollow'
        BY <1>s, <1>t, <3>1, <3>6 DEF CalibrationFollows, ThresholdsFollow, TypeOK
      <3> QED
        BY <3>1, <3>7 DEF ServingInv
    <2>2. CASE /\ stage = "path_fit"
               /\ stage' = After["path"]
               /\ surface' = [surface EXCEPT !["path"] = Absent]
               /\ UNCHANGED <<table, deployed, perm, labels, calib, reported, judged>>
      <3>1. /\ stage = FitOf["path"] /\ surface'["path"] = Absent
            /\ \A n \in Layer \ {"path"} : surface'[n] = surface[n]
        BY <2>2, <1>t, <1>l DEF FitOf, TypeOK
      <3> QED
        BY <1>t, <1>l, <2>2, <3>1, Passed
    <2> QED
      BY <1>14, <2>1, <2>2 DEF PathFit
  \* A challenger whose handler revokes it.
  <1>u. ASSUME NEW m \in Challenger, FailClosed(m, calib)
        PROVE  ServingInv'
    <2>1. /\ stage = FitOf[m] /\ stage' = After[m] /\ UNCHANGED <<table, deployed, judged, calib>>
          /\ surface'[m] = Absent /\ \A n \in Layer \ {m} : surface'[n] = surface[n]
          /\ \A k \in Challenger \ {m} : perm'[k] = perm[k]
      BY <1>u, <1>t, <1>l DEF FailClosed, TypeOK
    <2> QED
      BY <1>t, <1>l, <2>1, Passed
  <1>15. CASE PosteriorFit
    <2>1. CASE Install("posterior", Refreshed(calib, surface["posterior"], 3))
      <3>1. /\ stage = "posterior_fit" /\ deployed' = deployed \cup {"posterior"} /\ table' = table
            /\ calib' = Refreshed(calib, surface["posterior"], 3)
            /\ InstalledInOrder' /\ SurfacesAsServed' /\ JudgedAsServed'
            /\ RawSmoothUnderPath => RawSmoothUnderPath'
        BY <2>1, <1>i, <1>l DEF FitOf
      <3>2. Shown("posterior") /\ Left("posterior") = Blend(ServedCertified, "posterior")
        BY DEF Shown, Left, JudgedOn, Incumbent
      <3>3. ~RawSmoothUnderPath => surface["posterior"] = Blend(ServedCertified, "posterior")
        BY <1>v, <1>l, <3>1, <3>2 DEF FitOf
      <3>4. ServedCertified' = ServedCertified
        BY <3>1 DEF ServedCertified, ServedPath, ServedCategory, ServedSmooth, ServedBase, With
      <3>5. ~RawSmoothUnderPath' => ServedCalibrated' = surface["posterior"]
        BY <1>w, <3>1, <3>3, <3>4
      <3>6. CalibrationFollows'
        BY <3>1, <3>5 DEF CalibrationFollows, Refreshed
      <3>7. surface["posterior"] # Absent /\ "posterior" \in surface["posterior"].layers
        BY <1>t, <3>1 DEF IInv, HeldWhileInstalled, SurfaceLayers, Challengers
      <3>8. table.multiclass => calib.thr = Absent
        BY <1>s, <3>1 DEF ThresholdsFollow
      <3>9. ThresholdsFollow'
        BY <3>1, <3>7, <3>8 DEF ThresholdsFollow, Refreshed
      <3> QED
        BY <3>1, <3>6, <3>9 DEF ServingInv
    <2>2. CASE \E k \in 0..2 : FailClosed("posterior", RolledBack(calib, Refreshed(calib, surface["posterior"], k)))
      BY <2>2, <1>u, <1>l DEF RolledBack
    <2> QED
      BY <1>15, <2>1, <2>2, <1>x, <1>l DEF PosteriorFit
  \* The decision heads refresh the precision regions and leave the surface as it is.
  <1>h. ASSUME NEW m \in {"interval", "affine"}, NEW c, Install(m, c), c.cal = calib.cal, c.thr = calib.thr
        PROVE  ServingInv'
    <2>1. /\ stage = FitOf[m] /\ deployed' = deployed \cup {m} /\ table' = table /\ calib' = c
          /\ InstalledInOrder' /\ SurfacesAsServed' /\ JudgedAsServed'
          /\ RawSmoothUnderPath => RawSmoothUnderPath'
      BY <1>h, <1>i, <1>l
    <2>2. ServedCalibrated' = ServedCalibrated
      <3>1. \A k \in Below["interval"] : k \in deployed' <=> k \in deployed
        BY <2>1, <1>l DEF Below
      <3>2. JudgedOn("interval")' = JudgedOn("interval")
        BY <3>1, <1>l, JudgedOnStable
      <3> QED
        BY <3>2 DEF JudgedOn, Incumbent
    <2>3. stage \notin {"confidence", "nosignal_fit", "raised"}
      BY <2>1 DEF FitOf
    <2>4. CalibrationFollows' /\ ThresholdsFollow'
      BY <1>h, <1>s, <2>1, <2>2, <2>3 DEF CalibrationFollows, ThresholdsFollow
    <2> QED
      BY <2>1, <2>4 DEF ServingInv
  <1>c. \A s : /\ DecisionRefreshed(calib, s).cal = calib.cal
               /\ DecisionRefreshed(calib, s).thr = calib.thr
    BY <1>t DEF DecisionRefreshed, TypeOK
  <1>16. CASE IntervalFit
    BY <1>16, <1>h, <1>c, <1>u, <1>x, <1>l DEF IntervalFit
  <1>17. CASE AffineFit
    BY <1>17, <1>h, <1>c, <1>u, <1>x, <1>l DEF AffineFit
  <1>18. CASE Clear
    <2>1. /\ stage = "clear" /\ stage' = "done"
          /\ UNCHANGED <<table, deployed, perm, calib, judged>>
      BY <1>18 DEF Clear
    <2>2. \A n \in Layer : JudgedOn(n)' = JudgedOn(n) /\ (Held(n)' => Held(n))
      BY <2>1, JudgedOnStable DEF Held, Layer, FitOf
    <2>3. ServedCalibrated' = ServedCalibrated /\ RawSmoothUnderPath' = RawSmoothUnderPath
      BY <2>1, <2>2, <1>l DEF JudgedOn, Incumbent, RawSmoothUnderPath
    <2> QED
      BY <1>s, <2>1, <2>2, <2>3 DEF ServingInv, InstalledInOrder, SurfacesAsServed, JudgedAsServed,
                                   CalibrationFollows, ThresholdsFollow, EarlyStages
  <1>19. CASE Refit
    <2>1. /\ stage' = "confidence" /\ deployed' = {} /\ \A m \in Layer : surface'[m] = Absent
      BY <1>19 DEF Refit, NoSurface
    <2>2. \A m \in Layer : ~Held(m)'
      BY <2>1 DEF Held, Layer, FitOf
    <2>3. SurfacesAsServed'
      BY <2>1, <2>2 DEF SurfacesAsServed
    <2> QED
      BY <2>1, <2>2, <2>3 DEF ServingInv, InstalledInOrder, JudgedAsServed, CalibrationFollows, ThresholdsFollow
  <1>20. CASE UNCHANGED vars
    <2>1. UNCHANGED <<table, stage, deployed, perm, surface, judged, calib>>
      BY <1>20 DEF vars
    <2>2. \A n \in Layer : /\ JudgedOn(n)' = JudgedOn(n) /\ Left(n)' = Left(n)
                           /\ Shown(n)' = Shown(n) /\ (Held(n)' <=> Held(n))
      BY <2>1, JudgedOnStable DEF Held, Left, Shown
    <2>3. ServedCalibrated' = ServedCalibrated /\ RawSmoothUnderPath' = RawSmoothUnderPath
      BY <2>1, <2>2, <1>l DEF JudgedOn, Incumbent, RawSmoothUnderPath
    <2> QED
      BY <1>s, <2>1, <2>2, <2>3 DEF ServingInv, InstalledInOrder, SurfacesAsServed, JudgedAsServed,
                                   CalibrationFollows, ThresholdsFollow
  <1> QED
    BY <1>1, <1>2, <1>3, <1>4, <1>5, <1>6, <1>7, <1>8, <1>9, <1>10, <1>11, <1>12, <1>13,
       <1>14, <1>15, <1>16, <1>17, <1>18, <1>19, <1>20 DEF Next, Gate, FinalFit

\* The out-of-fold stack of the gates is the served stack, member by member, in every
\* reachable state of a fit.
THEOREM ServingInvariant == Spec => []ServingInv
  BY Inductive, ServingInit, ServingNext, PTL DEF Spec

\* Whatever the gates decide and whichever final fits fail or are rolled back, the confidences
\* predict() reports were calibrated on the surface predict_calibrated_proba() serves.
THEOREM CalibrationIsOfServedSurface == Spec => []CalibrationMatchesServing
  <1>1. ServingInv => CalibrationMatchesServing
    BY DEF ServingInv, CalibrationFollows, CalibrationMatchesServing
  <1> QED
    BY <1>1, ServingInvariant, PTL

\* The operating points of predict_balanced and predict_rare were tuned with the class
\* challenger exactly when it is served.
THEOREM ThresholdsAreOfServedChallenger == Spec => []ThresholdsFollowClassChallenger
  <1>1. ServingInv => ThresholdsFollowClassChallenger
    BY DEF ServingInv, ThresholdsFollow, ThresholdsFollowClassChallenger
  <1> QED
    BY <1>1, ServingInvariant, PTL

\* Every installed member was admitted against the very composition serving applies it to.
THEOREM MembersAreJudgedAsServed == Spec => []GatesJudgedServedIncumbent
  <1>1. IInv /\ ServingInv => GatesJudgedServedIncumbent
    <2> SUFFICES ASSUME IInv, ServingInv, stage = "done", ~RawSmoothUnderPath, NEW m \in deployed
                 PROVE  judged[m] = Incumbent(m)
      BY DEF GatesJudgedServedIncumbent
    <2>1. m \in Layer /\ Held(m)
      BY DEF IInv, TypeOK, Held
    <2>2. judged[m] = JudgedOn(m)
      BY <2>1 DEF ServingInv, JudgedAsServed
    <2>3. m = "path" => Project(ServedCategory) = ServedCategory
      BY CertifiedStack
    <2> QED
      BY <2>2, <2>3 DEF JudgedOn, Incumbent
  <1> QED
    BY <1>1, Inductive, ServingInvariant, PTL

=============================================================================
