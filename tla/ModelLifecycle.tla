--------------------------- MODULE ModelLifecycle ---------------------------
(***************************************************************************)
(* One TabPVN estimator over its life: fit, refit, a fit that raises half  *)
(* way, and the serving calls between fits (tabpvn/base.py).  An estimator *)
(* keeps what it learned in some forty attributes that a fit assigns one   *)
(* after another; what can go wrong is a mixture of two fits.  The model   *)
(* therefore keeps, for every group of attributes that a fit assigns       *)
(* together, WHICH fit assigned it (0: None, empty, or never assigned).    *)
(*                                                                         *)
(* A fit is a sequence of steps with an exception possible between any two *)
(* of them: a booster keyword the classifier does not know, a preprocessor *)
(* that meets a value it cannot encode, tau outside [0, 1], no memory left *)
(* or an interrupt.  An event-table fit whose metadata is rejected before  *)
(* line 2112 assigns nothing and is not a step of this model.              *)
(***************************************************************************)
EXTENDS Naturals, FiniteSets

CONSTANT MaxFits                       \* bound on the calls to fit
ASSUME MaxFitsAssumption == MaxFits \in Nat

Fits  == 1 .. MaxFits
Owner == 0 .. MaxFits

Kinds == {"table", "event", "relational"}
TabularModes == {"classification", "regression"}

(* The groups of attributes.  width: n_features_in_; heads: the affine,    *)
(* prior-rank and no-signal state that _fit_predictor clears at its start; *)
(* members: the smooth, category, path, posterior and interval members,    *)
(* cleared only when the booster is about to be fitted; conf: _conf, its   *)
(* thresholds and calibration pairs; schema: _event_mode and event_schema_;*)
(* graph: base and target; rules: _rules and positives; closures:          *)
(* _rc_cache.                                                              *)
Tabular == {"prep", "width", "interactions", "pred", "heads", "members", "conf"}
Event   == {"schema", "tmap"}
Relational == {"graph", "rules", "closures"}
Attributes == Tabular \cup Event \cup Relational

Stages == {"idle", "reset", "induce", "score", "validate", "encode",
           "interact", "boost", "train", "calibrate", "gate", "attach"}

VARIABLES
  fits,      \* calls to fit so far; the current or last fit is number fits
  kind,      \* what each call was: [Fits -> Kinds \cup {"none"}]
  stage,     \* where the current fit is
  outcome,   \* how the last fit ended: "none", "ok", "failed"
  mode,      \* self.mode, "none" while the attribute does not exist
  owner,     \* which fit assigned each group of attributes
  pending,   \* _pending_validation: whose timestamps
  clock,     \* _fit_validation: whose timestamps
  policy,    \* _policy: the predictor it was configured on
  last       \* _last_decision: the predictor that made it

vars == <<fits, kind, stage, outcome, mode, owner, pending, clock, policy, last>>

Assign(names, who) ==
  [a \in Attributes |-> IF a \in names THEN who ELSE owner[a]]

Init ==
  /\ fits = 0
  /\ kind = [f \in Fits |-> "none"]
  /\ stage = "idle"
  /\ outcome = "none"
  /\ mode = "none"
  /\ owner = [a \in Attributes |-> 0]
  /\ pending = 0 /\ clock = 0
  /\ policy = 0 /\ last = 0

IsFitted ==
  /\ mode # "none"
  /\ \/ owner["pred"] # 0
     \/ mode = "relational" /\ owner["rules"] # 0

-----------------------------------------------------------------------------
(*                               Fitting                                    *)

(* fit() on an event table leaves its timestamps for the pipeline to pick  *)
(* up; the other calls go straight to the pipeline.                        *)
Fit(k) ==
  /\ stage = "idle" /\ fits < MaxFits
  /\ fits' = fits + 1
  /\ kind' = [kind EXCEPT ![fits + 1] = k]
  /\ pending' = IF k = "event" THEN fits + 1 ELSE pending
  /\ stage' = "reset"
  /\ UNCHANGED <<outcome, mode, owner, clock, policy, last>>

ResetKeepingPolicy ==                            \* mutant
  /\ stage = "reset"
  /\ clock' = pending /\ pending' = 0
  /\ IF kind[fits] = "relational"
     THEN /\ mode' = "relational"
          /\ owner' = Assign(Event \cup {"interactions", "heads"}, 0)
          /\ stage' = "induce"
     ELSE /\ mode' = mode
          /\ owner' = Assign(Event \cup {"interactions", "heads", "prep"}, 0)
          /\ stage' = "validate"
  /\ UNCHANGED <<fits, kind, outcome, policy, last>>

ResetKeepingEncoder ==                           \* mutant
  /\ stage = "reset"
  /\ clock' = pending /\ pending' = 0
  /\ policy' = 0 /\ last' = 0
  /\ mode' = IF kind[fits] = "relational" THEN "relational" ELSE mode
  /\ owner' = Assign(Event \cup {"interactions", "heads"}, 0)
  /\ stage' = IF kind[fits] = "relational" THEN "induce" ELSE "validate"
  /\ UNCHANGED <<fits, kind, outcome>>

(* "A refit is a new model": the opening assignments of _fit_predictor,    *)
(* with the preprocessor dropped on the tabular branch only.               *)
Reset ==
  /\ stage = "reset"
  /\ clock' = pending /\ pending' = 0
  /\ policy' = 0 /\ last' = 0
  /\ IF kind[fits] = "relational"
     THEN /\ mode' = "relational"
          /\ owner' = Assign(Event \cup {"interactions", "heads"}, 0)
          /\ stage' = "induce"
     ELSE /\ mode' = mode
          /\ owner' = Assign(Event \cup {"interactions", "heads", "prep"}, 0)
          /\ stage' = "validate"
  /\ UNCHANGED <<fits, kind, outcome>>

(* _fit_relational stores the graph and the target, then induces.          *)
StoreGraph ==
  /\ stage = "induce"
  /\ owner' = Assign({"graph"}, fits)
  /\ stage' = "score"
  /\ UNCHANGED <<fits, kind, outcome, mode, pending, clock, policy, last>>

Induce ==
  /\ stage = "score"
  /\ owner' = Assign({"rules"}, fits)
  /\ stage' = "idle" /\ outcome' = "ok"
  /\ UNCHANGED <<fits, kind, mode, pending, clock, policy, last>>

(* The shape of X and y is checked and the input width recorded; the mode  *)
(* is decided after the last check, so a rejected y leaves the old mode.   *)
RecordWidth ==
  /\ stage = "validate"
  /\ owner' = Assign({"width"}, fits)
  /\ stage' = "encode"
  /\ UNCHANGED <<fits, kind, outcome, mode, pending, clock, policy, last>>

(* A DataFrame (an event table always is one) or an object array gets a    *)
(* preprocessor; a numeric array is used as it is.                         *)
Encode ==
  /\ stage = "encode"
  /\ mode' \in TabularModes
  /\ \/ owner' = Assign({"prep"}, fits)
     \/ kind[fits] # "event" /\ owner' = owner
  /\ stage' = "interact"
  /\ UNCHANGED <<fits, kind, outcome, pending, clock, policy, last>>

(* Classification may find an interaction map.                             *)
Interact ==
  /\ stage = "interact"
  /\ \/ mode = "classification" /\ owner' = Assign({"interactions"}, fits)
     \/ owner' = owner
  /\ stage' = "boost"
  /\ UNCHANGED <<fits, kind, outcome, mode, pending, clock, policy, last>>

(* boost_ is resolved and every evidence member cleared ...                *)
ClearMembers ==
  /\ stage = "boost"
  /\ owner' = Assign({"members", "heads"}, 0)
  /\ stage' = "train"
  /\ UNCHANGED <<fits, kind, outcome, mode, pending, clock, policy, last>>

(* ... before the predictor is built and fitted.                           *)
Train ==
  /\ stage = "train"
  /\ owner' = Assign({"pred"}, fits)
  /\ stage' = "calibrate"
  /\ UNCHANGED <<fits, kind, outcome, mode, pending, clock, policy, last>>

(* _build_confidence swallows its own exceptions and leaves no confidence. *)
Calibrate ==
  /\ stage = "calibrate"
  /\ \E who \in {0, fits} : owner' = Assign({"conf"}, who)
  /\ stage' = "gate"
  /\ UNCHANGED <<fits, kind, outcome, mode, pending, clock, policy, last>>

(* The evidence gates of a classifier admit members and heads, and refit   *)
(* the confidence when they change the decisions.                          *)
Admit ==
  /\ stage = "gate"
  /\ \/ mode = "classification"
        /\ \E groups \in SUBSET {"members", "heads", "conf"} :
              owner' = Assign(groups, fits)
     \/ owner' = owner
  /\ IF kind[fits] = "event"
     THEN stage' = "attach" /\ outcome' = outcome
     ELSE stage' = "idle" /\ outcome' = "ok"
  /\ UNCHANGED <<fits, kind, mode, pending, clock, policy, last>>

(* The tail of _fit_event_table: the finally clause drops the timestamps,  *)
(* then the replay state is attached and the width becomes the raw one.    *)
Attach ==
  /\ stage = "attach"
  /\ pending' = 0 /\ clock' = 0
  /\ \E groups \in {{"schema", "width"}, {"schema", "width", "tmap"}} :
        owner' = Assign(groups, fits)
  /\ stage' = "idle" /\ outcome' = "ok"
  /\ UNCHANGED <<fits, kind, mode, policy, last>>

(* An exception leaves fit.  Nothing is rolled back but the timestamps of  *)
(* an event table, by the finally clause of _fit_event_table.              *)
Raise ==
  /\ stage \notin {"idle", "reset", "attach"}
  /\ stage' = "idle" /\ outcome' = "failed"
  /\ IF kind[fits] = "event"
     THEN pending' = 0 /\ clock' = 0
     ELSE UNCHANGED <<pending, clock>>
  /\ UNCHANGED <<fits, kind, mode, owner, policy, last>>

-----------------------------------------------------------------------------
(*                               Serving                                    *)

ConfigureDecisions ==
  /\ stage = "idle" /\ IsFitted /\ mode = "classification"
  /\ policy' = owner["pred"]
  /\ UNCHANGED <<fits, kind, stage, outcome, mode, owner, pending, clock, last>>

ClearDecisions ==
  /\ stage = "idle"
  /\ policy' = 0 /\ last' = 0
  /\ UNCHANGED <<fits, kind, stage, outcome, mode, owner, pending, clock>>

(* predict() under a policy stores the decision bundle it certified.  (A   *)
(* predictor that cannot serve the new encoding raises: nothing changes.)  *)
PredictUnderPolicy ==
  /\ stage = "idle" /\ IsFitted /\ mode = "classification"
  /\ policy # 0
  /\ last' = owner["pred"]
  /\ UNCHANGED <<fits, kind, stage, outcome, mode, owner, pending, clock, policy>>

(* derive(), query() and derive_certified() compute the closure of every   *)
(* rule once and keep it.                                                  *)
Derive ==
  /\ stage = "idle" /\ IsFitted /\ mode = "relational"
  /\ owner["rules"] # 0 /\ owner["closures"] = 0
  /\ owner' = Assign({"closures"}, owner["rules"])
  /\ UNCHANGED <<fits, kind, stage, outcome, mode, pending, clock, policy, last>>

Next ==
  \/ \E k \in Kinds : Fit(k)
  \/ Reset \/ StoreGraph \/ Induce
  \/ RecordWidth \/ Encode \/ Interact \/ ClearMembers \/ Train
  \/ Calibrate \/ Admit \/ Attach \/ Raise
  \/ ConfigureDecisions \/ ClearDecisions \/ PredictUnderPolicy \/ Derive

Spec == Init /\ [][Next]_vars

-----------------------------------------------------------------------------
(*                              Properties                                  *)

TypeOK ==
  /\ fits \in Owner
  /\ kind \in [Fits -> Kinds \cup {"none"}]
  /\ stage \in Stages
  /\ outcome \in {"none", "ok", "failed"}
  /\ mode \in TabularModes \cup {"relational", "none"}
  /\ owner \in [Attributes -> Owner]
  /\ pending \in Owner /\ clock \in Owner
  /\ policy \in Owner /\ last \in Owner

(* After a fit that returned, everything predict reads was assigned by     *)
(* that fit or is cleared, whatever earlier fits left, on whatever kind of *)
(* data, and however they ended.  (What derive caches is the next          *)
(* property's.)                                                            *)
ServesOneFit ==
  stage = "idle" /\ outcome = "ok" =>
    LET mine == {0, fits}
    IN  IF mode = "relational"
        THEN /\ owner["graph"] = fits /\ owner["rules"] = fits
             /\ owner["schema"] = 0 /\ owner["tmap"] = 0
        ELSE /\ owner["pred"] = fits /\ owner["width"] = fits
             /\ \A a \in Tabular \cup Event : owner[a] \in mine
             /\ owner["schema"] = (IF kind[fits] = "event" THEN fits ELSE 0)

(* The closures derive() and query() answer from are those of the rules    *)
(* the model now holds (the docstring of _rule_closures, base.py:10031).   *)
ClosuresAreOfServedRules ==
  stage = "idle" /\ outcome = "ok" /\ mode = "relational" =>
    owner["closures"] \in {0, owner["rules"]}

(* In every state, after failures and during a fit too: where replay state *)
(* is attached, the predictor, its preprocessor and the declared width all *)
(* come from the event fit that attached it.                               *)
EventReplayIsWhole ==
  LET event == owner["schema"]
  IN  /\ event # 0 => /\ mode \in TabularModes
                      /\ kind[event] = "event"
                      /\ owner["pred"] = event
                      /\ owner["prep"] = event
                      /\ owner["width"] = event
      /\ owner["tmap"] \in {0, event}

(* "... so failures cannot leave a partially fitted temporal model behind" *)
(* (base.py:2109): a fitted tabular model whose predictor was trained on   *)
(* an event table has that table's replay state.                           *)
NoPartialTemporalModel ==
  stage = "idle" /\ mode \in TabularModes /\ owner["pred"] # 0 =>
    (kind[owner["pred"]] = "event" => owner["schema"] = owner["pred"])

(* A fit is judged by its own timestamps and only an event table's has     *)
(* any; none survive the fit, whichever way it ends, to judge a later one. *)
JudgedByOwnClock ==
  /\ stage \in {"idle", "reset"} => clock = 0
  /\ stage \notin {"idle", "reset"} =>
       clock = (IF kind[fits] = "event" THEN fits ELSE 0)
  /\ stage # "reset" => pending = 0

(* Decision economics and the last certificate belong to the predictor     *)
(* that serves: a refit drops them before it can fail.                     *)
DecisionsAreOfServedModel ==
  /\ policy \in {0, owner["pred"]}
  /\ last \in {0, owner["pred"]}
=============================================================================
