---------------------------- MODULE BoosterRounds ----------------------------
(***************************************************************************)
(* The round loops of the boosters (trees.py): a round grows trees, the     *)
(* verifier scores the forest so far, and a fit stops once every tracked    *)
(* metric has gone without gain for its patience.  Multiclass rounds may    *)
(* give a pair of classes extra capacity: the tracker of residual dynamics  *)
(* (residual_dynamics.py) opens the round for it, the fit residuals propose *)
(* the pair, and auditions on the verifier admit or reject it.              *)
(*                                                                         *)
(* Trees are left out: a round counts as one, whatever it adds per class.   *)
(* Scores are in units of the least gain that matters.                      *)
(***************************************************************************)
EXTENDS Integers, Sequences, FiniteSets, SequencesExt, FiniteSetsExt

CONSTANTS
    Fits,              \* records [growth, metrics, primary, scores, rounds, patience, refit, ranked]
    Pairs, NoPair,
    Looks,             \* what the tracker may see of a round
    Tolerance,         \* a score must exceed the best by more than this
    AuditionRounds,    \* _PAIR_EXPERT_AUDITION_ROUNDS
    MaxAuditions,      \* _PAIR_EXPERT_MAX_TOTAL_AUDITIONS
    ProbeRounds        \* _ADAPTIVE_PAIR_PROBE_ROUNDS

ASSUME BoosterAssumption ==
    /\ NoPair \notin Pairs
    /\ {Tolerance, AuditionRounds, MaxAuditions, ProbeRounds} \subseteq Nat
    /\ AuditionRounds > 0
    /\ \A look \in Looks : look.pair \in Pairs
    /\ \A f \in Fits :
          /\ f.growth \in {"plain", "hardest", "adaptive", "gated"}
          /\ f.primary \in f.metrics /\ f.scores \subseteq Int
          /\ f.rounds \in Nat \ {0} /\ f.patience \in Nat \ {0}
          /\ {f.refit, f.ranked} \subseteq BOOLEAN
          /\ f.refit => f.metrics = {f.primary}

VARIABLES
    fit,
    loop,           \* "idle", then "grow", "checkpoint", "stopped", "done"
    scored,         \* per round, its score on the verifier under each metric
    best, keeps, bad,   \* best_scores, keeps (in rounds) and bad_rounds
    tracker,        \* [previous, active, monitoring, activated]
    gates,          \* pair_expert_states
    hard,           \* the pair of the round: [attempted, selected]
    granted, attempted,  \* growth_schedule, attempted_growth_schedule
    decisions,      \* pair_expert_decisions
    deployed        \* the pair each deployed round was grown for

fitVars   == <<fit, loop, best, keeps, bad>>
roundVars == <<scored, tracker, gates, hard, granted, attempted, decisions, deployed>>

Extended == fit.growth # "plain"
Adaptive == fit.growth \in {"adaptive", "gated"}
Gated    == fit.growth = "gated"
KeptRounds == keeps[fit.primary]

NewGate == [phase |-> "new", attempts |-> 0, proper |-> 0, rank |-> 0]

\* No fit is running.
NoFit == [growth |-> "plain", metrics |-> {}, primary |-> "none", scores |-> {}, rounds |-> 0,
          patience |-> 0, refit |-> FALSE, ranked |-> FALSE]

RoundsInit ==
    /\ fit = NoFit /\ loop = "idle"
    /\ best = <<>> /\ keeps = <<>> /\ bad = <<>>
    /\ scored = <<>>
    /\ tracker = [previous |-> NoPair, active |-> NoPair, monitoring |-> TRUE, activated |-> FALSE]
    /\ gates = [p \in Pairs |-> NewGate]
    /\ hard = [attempted |-> NoPair, selected |-> NoPair]
    /\ granted = <<>> /\ attempted = <<>> /\ decisions = <<>> /\ deployed = <<>>

\* The best scores are those of the prior alone.
Begin(f) ==
    /\ loop = "idle" /\ loop' = "grow"
    /\ fit' = f
    /\ best' \in [f.metrics -> f.scores]
    /\ keeps' = [m \in f.metrics |-> 0] /\ bad' = [m \in f.metrics |-> 0]
    /\ UNCHANGED roundVars

-----------------------------------------------------------------------------
(* Growing a round *)

\* Prior scores express prevalence, not a boundary, so the first round has no pair.
HardPair(proposed) ==
    IF ~Extended \/ scored = <<>> \/ (Adaptive /\ tracker.active = NoPair) THEN NoPair ELSE proposed

Trials == Cardinality({i \in DOMAIN decisions : decisions[i].phase = "audition"})

\* The gate of a pair, opened when the pair is first proposed.
Gate(p) ==
    IF gates[p].phase # "new" THEN gates[p]
    ELSE [gates[p] EXCEPT !.phase = IF Trials >= MaxAuditions THEN "approved" ELSE "audition"]

\* Mutant: the verdict rests on the last audition alone
HeardLast(g, proper, rank) ==
    LET now == [g EXCEPT !.attempts = @ + 1, !.proper = proper, !.rank = rank]
        harmed == now.proper < 0 /\ (now.rank < 0 \/ ~fit.ranked)
    IN  [now EXCEPT !.phase = IF now.attempts < AuditionRounds THEN @
                              ELSE IF harmed THEN "rejected" ELSE "approved"]

\* An audition adds to the credits; the last one decides.
Heard(g, proper, rank) ==
    LET now == [g EXCEPT !.attempts = @ + 1, !.proper = @ + proper, !.rank = @ + rank]
        harmed == now.proper < 0 /\ (now.rank < 0 \/ ~fit.ranked)
    IN  [now EXCEPT !.phase = IF now.attempts < AuditionRounds THEN @
                              ELSE IF harmed THEN "rejected" ELSE "approved"]

Grown(h, selected) ==
    /\ hard' = [attempted |-> h, selected |-> selected]
    /\ loop' = "checkpoint"
    /\ UNCHANGED <<fit, scored, best, keeps, bad, tracker, granted, attempted, deployed>>

GrowOrdinary ==
    /\ loop = "grow"
    /\ \E p \in Pairs : LET h == HardPair(p)
                        IN  (h = NoPair \/ ~Gated) /\ Grown(h, h)
    /\ UNCHANGED <<gates, decisions>>

\* Both forms of the pair's trees are grown and compared; the expert form is kept.
GrowAudition(p, proper, rank) ==
    /\ loop = "grow" /\ Gated /\ HardPair(p) = p
    /\ Gate(p).phase = "audition"
    /\ gates' = [gates EXCEPT ![p] = Heard(Gate(p), proper, rank)]
    /\ decisions' = Append(decisions, [round |-> Len(scored) + 1, pair |-> p, phase |-> "audition",
                                       proper |-> proper, rank |-> rank])
    /\ Grown(p, p)

GrowRouted(p) ==
    /\ loop = "grow" /\ Gated /\ HardPair(p) = p
    /\ Gate(p).phase \in {"approved", "rejected"}
    /\ gates' = [gates EXCEPT ![p] = Gate(p)]
    /\ decisions' = Append(decisions, [round |-> Len(scored) + 1, pair |-> p,
                                       phase |-> Gate(p).phase, proper |-> 0, rank |-> 0])
    /\ Grown(p, IF Gate(p).phase = "approved" THEN p ELSE NoPair)

-----------------------------------------------------------------------------
(* Completing a round *)

\* Mutant: a gain over the round before counts as a gain
GainOnLast(m, score) ==
    score > (IF scored = <<>> THEN best[m] ELSE scored[Len(scored)][m]) + Tolerance

Gain(m, score) == score > best[m] + Tolerance

\* ResidualDynamicsTracker.observe: which pair, if any, the next round is opened for.
Activates(look) ==
    LET continuing == tracker.active # NoPair /\ look.pair = tracker.active
        initial    == scored = <<>> /\ look.stalled
        bottleneck == look.pair = tracker.previous /\ look.persistent
                         /\ (look.stalled \/ look.redundant)
    IN  look.moved /\ look.consensus /\ (continuing \/ initial \/ bottleneck)

Observed(look) ==
    LET activate == Activates(look)
        activated == tracker.activated \/ activate
    IN  IF tracker.monitoring
        THEN [previous   |-> IF look.consensus THEN look.pair ELSE NoPair,
              active     |-> IF activate THEN look.pair ELSE NoPair,
              monitoring |-> activated \/ Len(scored) + 1 < ProbeRounds,
              activated  |-> activated]
        ELSE [tracker EXCEPT !.active = NoPair]

\* checkpoint_round and complete_round
CompleteRound(scores, look) ==
    LET gain == [m \in fit.metrics |-> Gain(m, scores[m])]
    IN  /\ loop = "checkpoint"
        /\ best'  = [m \in fit.metrics |-> IF gain[m] THEN scores[m] ELSE best[m]]
        /\ keeps' = [m \in fit.metrics |-> IF gain[m] THEN Len(scored) + 1 ELSE keeps[m]]
        /\ bad'   = [m \in fit.metrics |-> IF gain[m] THEN 0 ELSE bad[m] + 1]
        /\ tracker' = IF Adaptive THEN Observed(look) ELSE tracker
        /\ granted' = Append(granted, hard.selected)
        /\ attempted' = Append(attempted, hard.attempted)
        /\ scored' = Append(scored, scores)
        /\ loop' = IF \/ \A m \in fit.metrics : bad'[m] >= fit.patience
                      \/ Len(scored') = fit.rounds
                    THEN "stopped" ELSE "grow"
        /\ UNCHANGED <<fit, gates, hard, decisions, deployed>>

-----------------------------------------------------------------------------
(* Deploying *)

\* The verified prefix, as it was grown.
KeepPrefix ==
    /\ loop = "stopped" /\ (~fit.refit \/ KeptRounds = 0)
    /\ deployed' = SubSeq(granted, 1, KeptRounds)
    /\ loop' = "done"
    /\ UNCHANGED <<fit, scored, best, keeps, bad, tracker, gates, hard, granted, attempted, decisions>>

\* Mutant: a refit reuses the rounds the tracker opened, admitted or not
SlotAttempted(i) == attempted[i] # NoPair

\* Does round i of a refit extend a pair?
Slot(i) == IF Adaptive THEN granted[i] # NoPair ELSE Extended /\ i > 1

\* A round on all rows: the slot is that of the search, the pair is proposed anew.
RefitRound(p) ==
    /\ loop = "stopped" /\ fit.refit /\ KeptRounds > 0
    /\ deployed' = Append(deployed, IF Slot(Len(deployed) + 1) THEN p ELSE NoPair)
    /\ loop' = IF Len(deployed') = KeptRounds THEN "done" ELSE loop
    /\ UNCHANGED <<fit, scored, best, keeps, bad, tracker, gates, hard, granted, attempted, decisions>>

RoundsNext ==
    \/ \E f \in Fits : Begin(f)
    \/ GrowOrdinary
    \/ \E p \in Pairs, proper \in {-1, 1}, rank \in IF fit.ranked THEN {-1, 1} ELSE {0} :
          GrowAudition(p, proper, rank)
    \/ \E p \in Pairs : GrowRouted(p)
    \/ \E scores \in [fit.metrics -> fit.scores], look \in Looks : CompleteRound(scores, look)
    \/ KeepPrefix
    \/ \E p \in Pairs : RefitRound(p)

RoundsSpec == RoundsInit /\ [][RoundsNext]_<<fitVars, roundVars>>

-----------------------------------------------------------------------------
(* Reports of the deployed fit (base.py) *)

ActiveRounds    == Cardinality({i \in DOMAIN deployed : deployed[i] # NoPair})
AttemptedRounds == Cardinality({i \in DOMAIN deployed : attempted[i] # NoPair})
RejectedRounds  == Max({0, AttemptedRounds - ActiveRounds})
Retained == {d \in Range(decisions) : d.round <= KeptRounds}
PairReason ==
    IF ActiveRounds > 0 THEN IF Gated THEN "verified_pair_expert" ELSE "verified_residual_pair"
    ELSE IF RejectedRounds > 0 /\ Gated THEN "pair_expert_rejected"
    ELSE "no_verified_residual_pair"

-----------------------------------------------------------------------------
(* Properties *)

TypeOK ==
    /\ fit \in Fits \cup {NoFit}
    /\ loop \in {"idle", "grow", "checkpoint", "stopped", "done"}
    /\ scored \in Seq([fit.metrics -> fit.scores])
    /\ best \in [fit.metrics -> fit.scores] /\ keeps \in [fit.metrics -> Nat] /\ bad \in [fit.metrics -> Nat]
    /\ gates \in [Pairs -> [phase : {"new", "audition", "approved", "rejected"}, attempts : Nat,
                            proper : Int, rank : Int]]
    /\ hard \in [attempted : Pairs \cup {NoPair}, selected : Pairs \cup {NoPair}]
    /\ granted \in Seq(Pairs \cup {NoPair}) /\ attempted \in Seq(Pairs \cup {NoPair})
    /\ deployed \in Seq(Pairs \cup {NoPair})

\* The kept prefix is the record: under each metric it beats the score of every shorter
\* prefix, no longer one beats it by more than the tolerance, and a fit ends early exactly
\* when each metric has gone its patience without a record (checkpoint_round).
PrefixIsTheRecord ==
    \A m \in fit.metrics :
        LET k == keeps[m] IN
        /\ k > 0 => /\ best[m] = scored[k][m]
                    /\ \A i \in 1 .. k - 1 : scored[i][m] < scored[k][m]
        /\ \A i \in k + 1 .. Len(scored) : scored[i][m] <= best[m] + Tolerance
        /\ loop \in {"stopped", "done"} /\ Len(scored) < fit.rounds => Len(scored) >= k + fit.patience
        /\ loop \in {"grow", "checkpoint"} => \E n \in fit.metrics : Len(scored) < keeps[n] + fit.patience

Auditions(p) == {i \in DOMAIN decisions : decisions[i].pair = p /\ decisions[i].phase = "audition"}
Routings(p)  == {i \in DOMAIN decisions : decisions[i].pair = p /\ decisions[i].phase # "audition"}
Losses(p)     == {i \in Auditions(p) : decisions[i].proper < 0}
RankLosses(p) == {i \in Auditions(p) : decisions[i].rank < 0}

\* Most auditions of the pair did harm; a credit is one, so this is the sign of their sum.
MostlyHarmed(p) ==
    /\ 2 * Cardinality(Losses(p)) > Cardinality(Auditions(p))
    /\ fit.ranked => 2 * Cardinality(RankLosses(p)) > Cardinality(Auditions(p))

\* Verdicts are earned and kept: a pair is heard AuditionRounds times before any verdict,
\* which follows from all of those auditions, none is heard for the first time once the
\* auditions are used up, and a rejected pair never gets capacity again
\* (pair_expert_states, _PAIR_EXPERT_*).
VerdictsAreEarned ==
    /\ \A p \in Pairs : Routings(p) # {} =>
          /\ Cardinality(Auditions(p)) \in {0, AuditionRounds}
          /\ \A i \in Auditions(p), j \in Routings(p) : decisions[i].round < decisions[j].round
          /\ \A j \in Routings(p) :
                decisions[j].phase = IF MostlyHarmed(p) THEN "rejected" ELSE "approved"
    /\ \A i \in DOMAIN decisions :
          (decisions[i].phase = "audition" /\ \A j \in 1 .. i - 1 : decisions[j].pair # decisions[i].pair)
              => Cardinality({j \in 1 .. i - 1 : decisions[j].phase = "audition"}) < MaxAuditions
    /\ \A d \in Range(decisions) : d.round \in DOMAIN granted =>
          granted[d.round] = IF d.phase = "rejected" THEN NoPair ELSE d.pair

\* Each slot of the deployed schedule was earned: a round is deployed with extra capacity
\* for a pair exactly if the search granted one there, by the decision of that round where
\* there is a gate, and the rounds counted as rejected are the retained decisions of
\* rejected pairs (pair_growth_schedule_, pair_growth).  Without a refit the pair of the
\* slot is the one that was granted; a refit keeps the slot and proposes the pair anew, so
\* that it may be one the gate rejected or never heard (trees.py:4482).
ReportIsDeployed ==
    loop = "done" /\ Adaptive =>
        /\ Len(deployed) = KeptRounds
        /\ \A i \in DOMAIN deployed :
              /\ (deployed[i] # NoPair) = (granted[i] # NoPair)
              /\ fit.refit \/ deployed[i] = granted[i]
              /\ Gated /\ deployed[i] # NoPair =>
                    \E d \in Retained : /\ d.round = i /\ d.phase # "rejected"
                                        /\ fit.refit \/ d.pair = deployed[i]
        /\ RejectedRounds = Cardinality({d \in Retained : d.phase = "rejected"})
        /\ PairReason = "pair_expert_rejected" =>
              Retained # {} /\ \A d \in Retained : d.phase = "rejected"
=============================================================================
