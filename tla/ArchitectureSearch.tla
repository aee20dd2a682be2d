-------------------------- MODULE ArchitectureSearch --------------------------
(***************************************************************************)
(* How TabPVN configures itself: the chain of gates in _fit that builds    *)
(* the booster configuration (src/tabpvn/base.py 2303-2452), each gate     *)
(* fitting the configuration so far and a challenger on untouched rows.    *)
(*                                                                         *)
(* A table is what the gates' preconditions read: number of classes (0 is  *)
(* regression), rows, events (rows of the smallest class), columns,        *)
(* category columns, and whether it is event data.  Evidence of a gate is  *)
(* the gain of the challenger per fold, in thousandths.                    *)
(***************************************************************************)
EXTENDS CandidateSearch, SymbolicLayers

CONSTANTS Tables,            \* the tables fitted
          FoldGains,         \* gains a two- or three-fold gate may measure
          RareChoices,       \* what the interaction gates may deploy
          MultiChoices,
          BinaryChoices

\* What SymbolicLayers says of every choice: a residual head is a multiclass one, and it
\* reads a program.
ASSUME ChoicesAssumption ==
    /\ \A c \in RareChoices \cup MultiChoices \cup BinaryChoices :
          c.metric \in {"own", "rank"} /\ c.head \in BOOLEAN
    /\ \A c \in RareChoices \cup BinaryChoices : ~c.head
    /\ \A c \in MultiChoices : c.head => c.families # {}

VARIABLES table,    \* the table being fitted
          stage,    \* the gate that is next
          rare,     \* rare_event_
          pools,    \* [search, final]: the columns the search sees, and deploys
          cfg,      \* boost: the configuration so far
          memo,     \* _linear_leaf_tune_config and _linear_leaf_tune_decision
          judged    \* the last accepted edit of cfg
archVars == <<table, stage, rare, pools, cfg, memo, judged>>

\* Shapes of trees: the search's candidates, and those of the gates.
Shallow == 100
Joint   == 101
Small   == 102

Blank == [shape |-> Small, rounds |-> 600, pairs |-> FALSE, columns |-> "all",
          weighted |-> FALSE, linear |-> FALSE, metric |-> "logloss", squared |-> FALSE,
          mono |-> FALSE, head |-> FALSE, stratified |-> FALSE, program |-> FALSE,
          refit |-> TRUE, capped |-> FALSE, rareFit |-> FALSE]
NoMemo == [of |-> {}, use |-> FALSE]

-----------------------------------------------------------------------------
(* Preconditions of the gates *)

Binary     == table.classes = 2
Multiclass == table.classes > 2
Regression == table.classes = 0

\* The share of the smallest class is at most num/den.
RateAtMost(num, den) == den * table.events <= num * table.rows

CandidatesFit == IF Regression THEN table.rows >= 500
                 ELSE table.rows >= 400 /\ ~(rare /\ table.events < 8)

\* _adaptive_multiclass_pair_work_is_bounded
BoundedPairs == \/ table.columns <= 128
                \/ table.columns <= 512 /\ table.rows * table.columns <= 1000000

\* _with_adaptive_multiclass_pair_growth
WithPairs(config) ==
    [config EXCEPT !.pairs = Multiclass /\ table.rows >= 400 /\ BoundedPairs /\ ~rare]

Medium == table.rows \in 400 .. 10000

-----------------------------------------------------------------------------
(* Acceptance of a gate *)

Rises(d)      == \A i \in DOMAIN d : d[i] > 0
Mean(d, gain) == SumOf(d) >= gain * Len(d)

\* An accepted challenger: what its baseline was fitted with, and what it is applied to.
Accept(gate, against, edited) ==
    /\ cfg' = edited
    /\ judged' = [gate |-> gate, against |-> against, from |-> cfg]

Refuse == UNCHANGED <<cfg, judged>>

At(s) == stage = s
To(s) == stage' = s
Quiet == UNCHANGED <<table, rare, pools, memo, searchVars>>

-----------------------------------------------------------------------------
(* Before the search *)

\* _auto_rare_architecture: too few events are taken as rare, otherwise the paired gate
\* decides on ROC-AUC or average precision; a failure keeps the standard booster.
RareArchitecture ==
    /\ At("rare") /\ To("screen")
    /\ rare' \in (IF ~(Binary /\ RateAtMost(1, 10)) THEN {FALSE}
                  ELSE IF table.events < 8 THEN {TRUE}
                  ELSE {\/ auc >= 1 /\ ap >= -2
                        \/ ap >= 5 /\ auc >= -2 : auc \in {-3, -2, 1}, ap \in {-3, -2, 5}})
    /\ UNCHANGED <<table, pools, cfg, memo, judged, searchVars>>

WideScreened == ~rare /\ Binary /\ table.columns >= 512 /\ CandidatesFit

\* The search on a screened pool of columns, and the pool of all rows for the final fit.
\* The search pool is set before the pool of all rows is computed: a failure in between
\* leaves a search on the pool that deploys all columns.
WideScreen ==
    /\ At("screen") /\ To("search")
    /\ pools' \in IF ~WideScreened THEN {pools}
                  ELSE {pools, [search |-> "pool", final |-> "pool"],
                        [search |-> "pool", final |-> "all"]}
    /\ UNCHANGED <<table, rare, cfg, memo, judged, searchVars>>

\* Too little data to search.
SmallDefault ==
    /\ At("search") /\ ~CandidatesFit
    /\ cfg' = WithPairs([Blank EXCEPT !.rounds = IF Regression THEN 800 ELSE 600])
    /\ To(IF Regression THEN "monotone" ELSE "shallow")
    /\ Quiet /\ UNCHANGED judged

-----------------------------------------------------------------------------
(* The search *)

Search ==
    /\ At("search") /\ CandidatesFit
    /\ SearchStep(~Regression, table.temporal /\ ~Regression)
    /\ UNCHANGED archVars

\* The configuration the search returns.  Its fallback has neither pool nor memo, and the
\* one future holdout of event data is too little evidence for a memo.
SearchDone ==
    /\ At("search") /\ phase \in {"done", "fallback"}
    /\ LET found == [Blank EXCEPT !.shape = pick,
                                  !.rounds = IF Regression THEN 2000 ELSE 800,
                                  !.columns = IF phase = "done" THEN pools.final ELSE "all"]
       IN  cfg' = WithPairs(found)
    /\ To(CASE Regression -> "loss"
            [] phase = "done" /\ Binary /\ ~rare /\ ~table.temporal -> "memo"
            [] OTHER -> "shallow")
    /\ SearchReturn
    /\ UNCHANGED <<table, rare, pools, memo, judged>>

\* An error that is not caught ends the fit.
Raised ==
    /\ \/ At("search") /\ phase = "raised"
       \/ stage \in {"memo", "weight", "leaf", "monotone", "linear"}
    /\ To("raised")
    /\ UNCHANGED <<table, rare, pools, cfg, memo, judged, searchVars>>

\* The squared loss challenges the Huber loss on the final rung.
SquaredLoss ==
    /\ At("loss") /\ To("monotone")
    /\ \/ \E d \in FoldGains :
             /\ (\A i \in DOMAIN d : d[i] >= -1) /\ Mean(d, 2)
             /\ Accept("squared", cfg, [cfg EXCEPT !.squared = TRUE])
       \/ Refuse
    /\ Quiet

\* The linear-leaf challenger on the final rung: its verdict is kept for the configuration
\* the search resolved, to be used if that is the one still in force at the linear gate.
LinearMemo ==
    /\ At("memo") /\ To("shallow")
    /\ \E use \in BOOLEAN : memo' = [of |-> {cfg}, use |-> use]
    /\ UNCHANGED <<table, rare, pools, cfg, judged, searchVars>>

-----------------------------------------------------------------------------
(* After the search: each gate has its own precondition *)

\* _auto_shallow_boost
ShallowBoost ==
    /\ At("shallow") /\ To("weight")
    /\ \/ \E d \in FoldGains :
             /\ ~rare /\ Binary /\ Medium /\ table.events >= 2
             /\ Rises(d) /\ Mean(d, 15)
             /\ Accept("shallow", cfg, [cfg EXCEPT !.shape = Shallow])
       \/ Refuse
    /\ Quiet

\* _auto_class_weight
ClassWeight ==
    /\ At("weight") /\ To("linear")
    /\ \/ \E d \in FoldGains :
             /\ ~rare /\ RateAtMost(1, 5) /\ table.events >= 2
             /\ Mean(d, 3)
             /\ Accept("weight", cfg, [cfg EXCEPT !.weighted = TRUE])
       \/ Refuse
    /\ Quiet

\* The fields the linear gate passes on; all others have the booster's defaults.
LinearGateConfig(config) ==
    [Blank EXCEPT !.shape = config.shape, !.rounds = config.rounds, !.pairs = config.pairs,
                  !.columns = config.columns, !.weighted = config.weighted]

\* Mutant: the verdict of the search is used whatever the gates in between changed.
MemoOfSearch == memo # NoMemo

\* The verdict is about the configuration now in force.
MemoApplies == memo.of = {cfg}

\* The verdict of the search when it is about this configuration, otherwise
\* _auto_linear_leaf_clf: all three folds and the mean.
LinearLeaves ==
    /\ At("linear") /\ To("joint")
    /\ LET edited == [cfg EXCEPT !.linear = TRUE]
       IN  \/ /\ ~rare /\ MemoApplies /\ memo.use
              /\ \E of \in memo.of : Accept("linear", of, edited)
           \/ /\ ~rare /\ ~MemoApplies /\ table.rows >= 400
              /\ \E d \in FoldGains : Rises(d) /\ Mean(d, 10)
              /\ Accept("linear", LinearGateConfig(cfg), edited)
           \/ Refuse
    /\ Quiet

\* _auto_joint_rank_regions
JointRankRegions ==
    /\ At("joint") /\ To("checkpoint")
    /\ \/ \E d \in FoldGains :
             /\ ~rare /\ Binary /\ Medium /\ table.events >= 2 /\ table.categories >= 4
             /\ RateAtMost(1, 10) /\ ~RateAtMost(1, 20)
             /\ Rises(d) /\ Mean(d, 3)
             /\ Accept("joint", cfg, [cfg EXCEPT !.shape = Joint, !.linear = TRUE, !.metric = "auc"])
       \/ Refuse
    /\ Quiet

\* _auto_rank_checkpoint_clf
RankCheckpoint ==
    /\ At("checkpoint") /\ To("interactions")
    /\ \/ \E d \in FoldGains :
             /\ ~rare /\ Binary /\ table.rows >= 400 /\ cfg.metric = "logloss"
             /\ RateAtMost(1, 10) \/ table.columns >= 512 \/ table.categories >= 4
             /\ (\A i \in DOMAIN d : d[i] >= 0) /\ Mean(d, 1)
             /\ Accept("checkpoint", cfg, [cfg EXCEPT !.metric = "auc"])
       \/ Refuse
    /\ Quiet

-----------------------------------------------------------------------------
(* Interactions, and the columns a program appends *)

\* A program's columns are appended to the table; a pool of columns admits them, unless the
\* residual head alone reads them.
WithProgram(config) ==
    [config EXCEPT !.program = TRUE,
                   !.columns = IF @ = "pool" /\ ~config.head THEN "extended" ELSE @]

Deployed(choice, rank) ==
    LET config == [cfg EXCEPT !.metric = IF choice.metric = "rank" THEN rank ELSE @,
                              !.head = choice.head]
    IN  IF choice.families = {} THEN config ELSE WithProgram(config)

RareInteractions ==
    /\ At("interactions") /\ rare
    /\ \E choice \in RareChoices :
          /\ choice = Nothing \/ table.events >= 16
          /\ IF choice.measured = "baseline" THEN Refuse
             ELSE Accept("rare", cfg, Deployed(choice, "average_precision"))
    /\ To("resolve") /\ Quiet

\* Mutant: the multiclass gate is also opened on linear leaves.
MulticlassOpenOnLeaves ==
    table.rows >= 400 /\ table.classes \in 3 .. 20 /\ table.events >= 8

\* The multiclass gate has no head for affine leaves.
MulticlassOpen ==
    table.rows >= 400 /\ table.classes \in 3 .. 20 /\ table.events >= 8 /\ ~cfg.linear

\* The final fit of a compact numeric table keeps the class-covering verifier of the gate.
Stratified(config) ==
    [config EXCEPT !.stratified =
        Multiclass /\ table.categories = 0 /\ table.rows \in 400 .. 4000 /\ table.columns <= 32]

MulticlassInteractions ==
    /\ At("interactions") /\ ~rare /\ Multiclass
    /\ \E choice \in MultiChoices :
          /\ choice = Nothing \/ MulticlassOpen
          /\ IF choice.measured = "baseline" THEN cfg' = Stratified(cfg) /\ UNCHANGED judged
             ELSE Accept("multiclass", cfg, Stratified(Deployed(choice, "macro_ovo_auc")))
    /\ To("resolve") /\ Quiet

BinaryInteractions ==
    /\ At("interactions") /\ ~rare /\ Binary
    /\ \E choice \in BinaryChoices :
          /\ choice.families = {} \/ table.rows >= 400
          /\ IF choice.families = {} THEN Refuse
             ELSE Accept("binary", cfg, Deployed(choice, "auc"))
    /\ To("resolve") /\ Quiet

-----------------------------------------------------------------------------
(* Regression, and the resolved configuration *)

\* _auto_monotone: constraints whose error is at most neutral.
Monotone ==
    /\ At("monotone") /\ To("leaf")
    /\ \/ /\ table.rows >= 400
          /\ \E d \in FoldGains : Mean(d, -2)
          /\ Accept("monotone", [cfg EXCEPT !.mono = FALSE], [cfg EXCEPT !.mono = TRUE])
       \/ Refuse
    /\ Quiet

\* _auto_linear_leaf, on the configuration with its constraints
LinearLeaf ==
    /\ At("leaf") /\ To("resolve")
    /\ \/ /\ table.rows >= 400
          /\ \E d \in FoldGains : SumOf(d) > 2 * Len(d)
          /\ Accept("leaf", [cfg EXCEPT !.linear = FALSE], [cfg EXCEPT !.linear = TRUE])
       \/ Refuse
    /\ Quiet

\* No refit of large tables, a cap on the rows of very large ones, and with it more rounds
\* for a binary search that reached its ceiling (_large_fit_budget).
Resolve ==
    /\ At("resolve") /\ To("done")
    /\ LET large == table.rows > 2000000
       IN  cfg' = [cfg EXCEPT !.refit = table.rows < 50000, !.capped = large,
                              !.rounds = IF large /\ Binary /\ @ >= 800 THEN 1000 ELSE @,
                              !.rareFit = rare]
    /\ Quiet /\ UNCHANGED judged

ArchInit ==
    /\ table \in Tables
    /\ stage = "rare" /\ rare = FALSE
    /\ pools = [search |-> "all", final |-> "all"]
    /\ cfg = Blank /\ memo = NoMemo
    /\ judged = [gate |-> "none", against |-> Blank, from |-> Blank]
    /\ SearchInit

ArchNext ==
    \/ RareArchitecture \/ WideScreen \/ SmallDefault \/ Search \/ SearchDone \/ Raised
    \/ SquaredLoss \/ LinearMemo \/ ShallowBoost \/ ClassWeight \/ LinearLeaves
    \/ JointRankRegions \/ RankCheckpoint
    \/ RareInteractions \/ MulticlassInteractions \/ BinaryInteractions
    \/ Monotone \/ LinearLeaf \/ Resolve

-----------------------------------------------------------------------------
(* Properties *)

\* Every accepted edit of the configuration was measured against the configuration it is
\* applied to, up to rounds and refit: the linear gate's projection drops no field that is
\* set by then, and the verdict kept from the search is used only if no gate in between
\* changed anything (_fit, _auto_tune_clf, _auto_linear_leaf_clf).
EditsJudgedOnConfiguration == judged.gate # "none" => judged.against = judged.from

\* The gates are independent, the booster is not: whatever combination of them accepts,
\* the final fit is one the booster takes (the checks of CertifiedBoostClassifier.fit,
\* reason_boost_softmax and its binary form), and a program's columns can be split on.
ConfigurationIsTrainable ==
    stage = "done" =>
        /\ cfg.head => Multiclass /\ ~cfg.linear /\ cfg.program
        /\ cfg.metric = "average_precision" => Binary /\ ~cfg.linear /\ cfg.rareFit
        /\ cfg.metric = "macro_ovo_auc" => Multiclass
        /\ cfg.metric = "auc" => Binary /\ ~cfg.rareFit
        /\ cfg.pairs => Multiclass
        /\ cfg.rareFit => Binary /\ ~cfg.weighted
        /\ cfg.mono \/ cfg.squared => Regression
        /\ cfg.program /\ ~cfg.head => cfg.columns # "pool"
=============================================================================
