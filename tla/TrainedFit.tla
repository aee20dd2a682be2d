----------------------------- MODULE TrainedFit -----------------------------
(***************************************************************************)
(* A fit that configures itself: ArchitectureSearch settles the booster's  *)
(* options, and BoosterRounds grows the deployed forest under them.  The   *)
(* gates of the search call the same loops with options of their own, so   *)
(* every fit of BoosterRounds may also be called directly.                 *)
(***************************************************************************)
EXTENDS ArchitectureSearch, BoosterRounds

CONSTANT NoTable

\* A call of the booster: no search of this estimator is under way.
Called ==
    /\ table = NoTable /\ stage = "called" /\ rare = FALSE
    /\ pools = [search |-> "all", final |-> "all"]
    /\ cfg = Blank /\ memo = NoMemo
    /\ judged = [gate |-> "none", against |-> Blank, from |-> Blank]
    /\ SearchInit

\* What the round loop reads of a configuration: pair growth, and whether the kept
\* rounds are fitted again on all rows.
Configured(f) ==
    /\ f.growth = (IF cfg.pairs THEN "gated" ELSE "plain")
    /\ f.refit = cfg.refit
    /\ Cardinality(f.metrics) = 1

\* The deployed fit; the locals of the search go.
Train ==
    /\ stage = "done"
    /\ \E f \in Fits : Configured(f) /\ Begin(f)
    /\ table' = NoTable /\ stage' = "called" /\ rare' = FALSE
    /\ pools' = [search |-> "all", final |-> "all"]
    /\ cfg' = Blank /\ memo' = NoMemo
    /\ judged' = [gate |-> "none", against |-> Blank, from |-> Blank]
    /\ UNCHANGED searchVars

Init == (ArchInit \/ Called) /\ RoundsInit

Next ==
    \/ ArchNext /\ UNCHANGED <<fitVars, roundVars>>
    \/ Train
    \/ stage = "called" /\ RoundsNext /\ UNCHANGED <<archVars, searchVars>>

Spec == Init /\ [][Next]_<<archVars, searchVars, fitVars, roundVars>>
=============================================================================
