---------------------------- MODULE GateDecisions ----------------------------
(***************************************************************************)
(* The gates and routers that decide from measured evidence, called on     *)
(* tables of any size: a state is a call with its answer, and the answer   *)
(* is computed in one step.                                                *)
(***************************************************************************)
EXTENDS SymbolicLayers, DecisionEvidence, VerifierSplit, Calls

CONSTANTS DecisionCalls(_), \* the calls of an operation: records [op, ...]
          PointSplits,      \* the expanding splits of the operating points
          MaxRows           \* a bound on the rows of a table of operating points

DecisionOps == {"rare", "multiclass", "binary", "threshold", "point", "route", "quantile",
                "blocks", "verifier"}
Asks(op) == {c \in DecisionCalls(op) : c.op = op}

\* A fold of an interaction gate: families and scores.
IsFold(f) ==
    /\ f.families \subseteq {"plain", "recursive", "exception"}
    /\ {f.base, f.plain, f.recursive, f.exception} \subseteq Int
IsClaused(f) ==
    /\ IsFold(f)
    /\ f.threshold \subseteq {"plain", "recursive", "exception", "threshold"}
    /\ {f.clauses, f.recursiveClauses, f.exceptionClauses} \subseteq Int

ASSUME GatesScoreFolds ==
    /\ \A c \in Asks("binary") : \A i \in DOMAIN c.e.folds : IsFold(c.e.folds[i])
    /\ \A c \in Asks("threshold") : \A i \in DOMAIN c.e.folds : IsClaused(c.e.folds[i])

\* The folds of the router hold out disjoint sets of rows, and train on others.
ASSUME RouterFoldsAreHeldOut ==
    \A c \in Asks("route") :
        /\ DOMAIN c.e = {"cell", "gain"}
        /\ \A r \in DOMAIN c.e.gain : c.e.gain[r] \in Int
        /\ \A i \in DOMAIN c.splits :
              /\ c.splits[i].train \cup c.splits[i].valid \subseteq DOMAIN c.e.gain
              /\ c.splits[i].train \cap c.splits[i].valid = {}
              /\ \A j \in DOMAIN c.splits : i # j => c.splits[i].valid \cap c.splits[j].valid = {}

\* The levels, the labels and, if it is dated, the times of a table of operating points.
ASSUME PointsAreTables ==
    \A c \in Asks("point") :
        /\ DOMAIN c.e = {"p", "y", "g"}
        /\ c.e.p \in Seq(Nat) /\ Len(c.e.p) \in 1 .. MaxRows
        /\ c.e.y \in [DOMAIN c.e.p -> BOOLEAN] /\ c.e.g \in Seq(Nat)
        /\ c.e.g = <<>> \/ Len(c.e.g) = Len(c.e.p)

ASSUME PointSplitsHaveFloors ==
    /\ MaxRows \in Nat
    /\ {PointSplits.folds, PointSplits.warmDen, PointSplits.minTrain, PointSplits.minValid}
          \subseteq Nat \ {0}
    /\ PointSplits.warmNum \in Nat

\* A score is a whole number (of thousandths).
ASSUME ScoresAreNumbers ==
    \A tp, fp, P, N \in 0 .. MaxRows : \A prior \in (0 .. MaxRows) \X (0 .. MaxRows) :
        Conservative(tp, fp, P, N, prior) \in Int

\* A miscoverage between 0 and 1, and the scores of some calibration rows.
ASSUME QuantilesAreOfScores ==
    \A c \in Asks("quantile") :
        /\ c.scores \in Seq(Nat) /\ c.scores # <<>> /\ c.fresh \in Nat
        /\ c.num \in Nat /\ c.den \in Nat /\ 0 < c.num /\ c.num < c.den

\* The labels of some rows, and positive limits.
ASSUME BlocksAreOfLabels ==
    \A c \in Asks("blocks") :
        c.y \in Seq(Range(c.y)) /\ c.y # <<>> /\ {c.max, c.min} \subseteq Nat \ {0}

\* The rows of each class of a table, a holdout and the events a verifier asks for.
ASSUME VerifiersAreOfClasses ==
    \A c \in Asks("verifier") :
        /\ c.counts \in Seq(Nat \ {0}) /\ c.counts # <<>>
        /\ c.percent \in 0 .. 100 /\ c.events \in Nat /\ c.independent \in BOOLEAN

Splits(e) == IF e.g = <<>> THEN <<>> ELSE ExpandingSplits(e.g, e.y, PointSplits)

\* The two rare results, with the last third of each class as the last fold.
PointOf(e, splits) ==
    LET fold == [r \in DOMAIN e.p |->
                    Cardinality({s \in 1 .. r - 1 : e.y[s] = e.y[r]}) % 3]
    IN  [balanced |-> BalancedThreshold(e, splits),
         rare |-> IF e.g = <<>> THEN ExchangeableRare(e, fold) ELSE TemporalRare(e, splits)]

DecisionAnswer(c) ==
    CASE c.op = "rare"       -> RareProgram(c.e)
      [] c.op = "multiclass" -> MultiProgram(c.e)
      [] c.op = "binary"     -> BinaryProgram(c.e)
      [] c.op = "threshold"  -> ThresholdProgram(c.e)
      [] c.op = "point"      -> PointOf(c.e, Splits(c.e))
      [] c.op = "route"      -> CrossFit(c.e, c.splits, c.evidence)
      [] c.op = "quantile"   -> QHat(c.scores, c.num, c.den)
      [] c.op = "blocks"     -> VerificationBlocks(c.y, c.max, c.min)
      [] c.op = "verifier"   -> CheckpointCalibration(c.counts, c.percent, c.events, c.independent)

DecisionInit ==
    /\ \E op \in DecisionOps : call \in Asks(op)
    /\ answer = Pending

Decide ==
    /\ answer = Pending /\ call.op \in DecisionOps
    /\ answer' = [is |-> DecisionAnswer(call)]
    /\ UNCHANGED call

DecisionSpec == DecisionInit /\ [][Decide]_<<call, answer>>

-----------------------------------------------------------------------------
(* Properties of the interaction gates *)

\* Checkpoint and program are chosen together: the rare and the multiclass gate deploy a
\* booster at the checkpoint its choice was scored at, that choice passed the shared
\* workspace, and a rule program also beats the checkpoint or the head it replaces, even
\* when an evaluation in between failed.
DeployedAtMeasuredCheckpoint ==
    /\ Answered("rare") =>
          LET e == call.e  d == answer.is
          IN  /\ d.metric = RareMeasuredMetric(e, d.measured)
              /\ d.measured = "rank" => Accepts(e.rank, e.baseline)
              /\ d.measured = "rules" => /\ Accepts(e.rules, e.baseline)
                                         /\ e.capable /\ Accepts(e.rank, e.baseline) => Accepts(e.rules, e.rank)
              /\ d.measured = "baseline" => ~(e.capable /\ Accepts(e.rank, e.baseline))
    /\ Answered("multiclass") =>
          LET e == call.e  d == answer.is
          IN  /\ d.metric = MultiMeasuredMetric(d.measured)
              /\ d.head <=> d.measured = "head"
              /\ d.measured = "head" => Accepts(e.head, e.baseline) /\ ~Accepts(e.rank, e.baseline)
              /\ d.measured = "rank" => Accepts(e.rank, e.baseline)
              /\ d.measured = "rules" => /\ Accepts(e.rules, e.baseline)
                                         /\ Accepts(e.rank, e.baseline) => Accepts(e.rules, e.rank)
                                         /\ Accepts(e.head, e.baseline) /\ ~Accepts(e.rank, e.baseline)
                                               => Accepts(e.rules, e.head)
              /\ d.measured = "baseline" => ~Accepts(e.rank, e.baseline)

Above(a, b) == \A i \in DOMAIN a : a[i] > b[i]

\* The layers the gate kept on its folds, before the compile on all rows.
ChosenLayers == IF call.op = "binary" THEN Kept(call.e) ELSE BinaryKept(call.e)

\* The families a fold measured the deployed program d with, and those all rows gave it.
MeasuredProgram(fold, d) ==
    (IF "threshold" \in d.measured THEN fold.threshold ELSE fold.families)
        \ (CASE "exception" \in d.families -> {}
             [] "exception" \notin d.families /\ "recursive" \in d.families -> {"exception"}
             [] OTHER -> {"recursive", "exception"})
FullProgram(e, d) == IF "threshold" \in d.measured THEN e.fullThreshold ELSE e.full

\* A layered binary program is deployed layer by layer: each layer the gate chose beats the
\* next lower chosen one in every fold, only chosen layers are deployed, each of which was
\* in the program of every fold, and numeric clauses displace a verified binary program
\* only when they beat it.  The gate leaves out no family that a fold measured the deployed
\* program with, except a recursive one that stood beside numeric clauses only; what the
\* compile on all rows does not find is another matter (MeasuredAsDeployed).
DeployedLayersWereVerified ==
    (Answered("binary") \/ Answered("threshold")) /\ answer.is.families # {} =>
        LET e == call.e  d == answer.is  chosen == ChosenLayers
        IN  /\ d.measured # {} /\ d.measured \subseteq chosen \cup {"threshold"}
            /\ OptionalKept(d.families) = OptionalKept(d.measured)
            /\ \A k \in OptionalKept(d.families) : Complete(e, k)
            /\ "plain" \in chosen => Above(PlainScores(e), BaseScores(e))
            /\ "recursive" \in chosen =>
                  Above(RecursiveScores(e), IF "plain" \in chosen THEN PlainScores(e) ELSE BaseScores(e))
            /\ "exception" \in chosen =>
                  Above(ExceptionScores(e), IF "recursive" \in chosen THEN RecursiveScores(e)
                                            ELSE IF "plain" \in chosen THEN PlainScores(e)
                                            ELSE BaseScores(e))
            /\ \A i \in DOMAIN e.folds : \A family \in MeasuredProgram(e.folds[i], d) :
                  \/ family \in d.families
                  \/ family \notin FullProgram(e, d)
                  \/ family = "recursive" /\ "recursive" \notin chosen /\ "threshold" \in d.measured
            /\ "threshold" \in d.measured =>
                  /\ "threshold" \in d.families
                  /\ \A i \in DOMAIN e.folds : OptionalKept(d.measured) \subseteq e.folds[i].threshold
                  /\ Above(ClauseScores(e, OptionalKept(d.measured)), BaseScores(e))
                  /\ Above(ClauseScores(e, OptionalKept(d.measured)),
                           KeptScores(e, d.measured \ {"threshold"}))

\* "Materialize the highest incrementally verified symbolic layer" (base.py:7341): what is
\* deployed stands on every incremental layer that the folds measured it over.
MeasuredAsDeployed ==
    Answered("binary") /\ answer.is.families # {} =>
        \A i \in DOMAIN call.e.folds :
            OptionalKept(MeasuredProgram(call.e.folds[i], answer.is)) \subseteq answer.is.families

-----------------------------------------------------------------------------
(* Properties of the decisions *)

\* Tables that differ from e only in the labels of rows that are not in `past`.
SameTill(e, past) ==
    {[e EXCEPT !.y = z] : z \in {w \in [DOMAIN e.y -> BOOLEAN] : \A r \in past : w[r] = e.y[r]}}

\* What the thresholds of the rows before each block say of the block.
CalledAt(e, splits, i) == AtLeast(e, Range(splits[i].future), SelectBalanced(e, Range(splits[i].past)))
Flagged(e, splits, i) == AtLeast(e, Range(splits[i].future), SelectRareInTime(e, Range(splits[i].past)))
RelabellingChangesNothing(e, splits) ==
    \A i \in DOMAIN splits :
        \A f \in SameTill(e, {r \in RowsOf(e) : \A s \in Range(splits[i].future) : e.g[r] < e.g[s]}) :
            CalledAt(f, splits, i) = CalledAt(e, splits, i) /\ Flagged(f, splits, i) = Flagged(e, splits, i)
BalancedGains(e, splits, rows) ==
    BalancedScore(e, UNION {CalledAt(e, splits, i) : i \in DOMAIN splits}, rows)
        > BalancedScore(e, AtLeast(e, rows, Half), rows)
RareGains(e, splits, rows) ==
    RareScore(e, UNION {Flagged(e, splits, i) : i \in DOMAIN splits}, rows, Prior(e, rows, FALSE))
        > RareScore(e, AtLeast(e, rows, Half), rows, Prior(e, rows, FALSE))
ProspectiveOn(e, splits) ==
    /\ RelabellingChangesNothing(e, splits)
    /\ answer.is.balanced # NoThreshold => BalancedGains(e, splits, Evaluated(splits))
    /\ answer.is.rare # NoThreshold => RareGains(e, splits, Evaluated(splits))

\* Operating points of event data are prospective: relabelling the rows of a validation
\* block, or later ones, changes no prediction in it, and a threshold is deployed only if
\* such predictions beat the default (fit_binary_thresholds, expanding_splits).
ThresholdsAreProspective ==
    Answered("point") /\ call.e.g # <<>> => ProspectiveOn(call.e, Splits(call.e))

\* The evidence with the outcomes of some rows turned round.
Flipped(e, rows) == [e EXCEPT !.gain = [r \in DOMAIN @ |-> IF r \in rows THEN -@[r] ELSE @[r]]]

\* Cross-fitted routing is leak-safe: whether a row takes the expert does not depend on
\* its own outcome, nor on that of another row of its validation fold; and every evidence
\* row is routed by some fold, or the call raises (BayesianExpertRouter.cross_fit).
RoutingIsLeakSafe ==
    Answered("route") /\ ~answer.is.raised =>
        /\ call.evidence \subseteq UNION {call.splits[i].valid : i \in DOMAIN call.splits}
        /\ \A i \in DOMAIN call.splits : \A s \in SUBSET call.splits[i].valid :
              CrossFit(Flipped(call.e, s), call.splits, call.evidence).routed \cap call.splits[i].valid
                  = answer.is.routed \cap call.splits[i].valid

\* "guarantees >= 1 - alpha": of n + 1 exchangeable scores, each left out in turn, at
\* least the share 1 - alpha, or all but one if n is too small for it, is at most the
\* bound of the others (CertifiedConfidence._qhat).
QuantileCovers ==
    Answered("quantile") =>
        LET all == Append(call.scores, call.fresh)
            covered == {i \in DOMAIN all : all[i] <= QHat(RemoveAt(all, i), call.num, call.den)}
        IN  Cardinality(covered) >= Min({Ceiling(Len(all) * (call.den - call.num), call.den),
                                         Len(all) - 1})

\* Paired verification blocks partition the rows and each holds every class, so that a
\* rank metric is defined on all of them (verification_blocks).
BlocksKeepClasses ==
    Answered("blocks") =>
        LET blocks == answer.is
        IN  /\ UNION Range(blocks) = DOMAIN call.y
            /\ \A i, j \in DOMAIN blocks : i # j => blocks[i] \cap blocks[j] = {}
            /\ \A i \in DOMAIN blocks : {call.y[r] : r \in blocks[i]} = Range(call.y)

\* Verifier rows keep every class: the fit is left with a row of each class, the verifier
\* has one of each class that can spare it and as many rows as its share unless the floor
\* of a rare class asks for more; calibration rows, when there are any, leave the
\* checkpoint every class that the verifier held (_fit_checkpoint_calibration_split).
\* And the paired verification blocks keep every class (BlocksKeepClasses).
VerifierKeepsClasses ==
    /\ Answered("verifier") =>
        LET c == call.counts  part == answer.is
            held == [k \in DOMAIN c |-> part.checkpoint[k]
                        + (IF part.calibration = <<>> THEN 0 ELSE part.calibration[k])]
            asked == IF call.independent THEN 2 * call.events ELSE call.events
            least == RowsIn(Floors(c, asked))
        IN  /\ \A k \in DOMAIN c : held[k] < c[k] /\ (c[k] > 1 => held[k] > 0)
            /\ RowsIn(held) = Max({TargetRows(RowsIn(c), Len(c), call.percent), least})
            /\ part.calibration # <<>> => \A k \in DOMAIN c :
                  held[k] > 0 => part.checkpoint[k] > 0 /\ part.calibration[k] > 0
    /\ BlocksKeepClasses
=============================================================================
