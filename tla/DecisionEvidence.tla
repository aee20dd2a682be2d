-------------------------- MODULE DecisionEvidence --------------------------
(***************************************************************************)
(* Decisions drawn from out-of-fold probabilities: binary operating points *)
(* (src/tabpvn/operating_points.py), the cross-fitted expert router        *)
(* (src/tabpvn/proposers/routing.py), the conformal quantile               *)
(* (src/tabpvn/certified_confidence.py) and the paired verification blocks *)
(* (src/tabpvn/candidate_allocation.py).                                   *)
(*                                                                         *)
(* Evidence e is a record of one value per row: p, the level of the        *)
(* positive probability (even, so that a threshold may fall between two    *)
(* levels), y, whether the row is positive, and g, its timestamp (<<>> if  *)
(* the table has none).  Rows weigh the same.                              *)
(***************************************************************************)
EXTENDS FutureValidation

CONSTANTS Half,                     \* the default threshold 0.5
          Conservative(_, _, _, _, _), \* conservative F1 of tp, fp, P, N and the prior <<P, N>>
          MinPerFold,               \* rows per class for cross-fitted rare thresholds (6)
          MinSupport, MinNetWins    \* evidence that enables a routing context

NoThreshold == -1

RowsOf(e) == DOMAIN e.p
Positives(e, rows) == {r \in rows : e.y[r]}
Negatives(e, rows) == rows \ Positives(e, rows)

\* The rows of `rows` that a threshold predicts positive.
AtLeast(e, rows, t) == {r \in rows : e.p[r] >= t}

-----------------------------------------------------------------------------
(* The balanced threshold *)

\* 2 P N times the balanced accuracy; -1 when a class has no row.
BalancedScore(e, predicted, rows) ==
    LET P == Cardinality(Positives(e, rows))  N == Cardinality(Negatives(e, rows))
    IN  IF P = 0 \/ N = 0 THEN -1
        ELSE N * Cardinality(Positives(e, rows) \cap predicted)
             + P * Cardinality(Negatives(e, rows) \ predicted)

\* The quantiles of the levels: a level only if it is tied, and points just above each
\* level but the highest.
Grid(e, rows) ==
    LET levels == {e.p[r] : r \in rows}
    IN  {Half} \cup {l \in levels : Cardinality({r \in rows : e.p[r] = l}) > 1}
               \cup {l + 1 : l \in levels \ {Max(levels)}}

\* select_balanced: the lowest of the best thresholds.
SelectBalanced(e, rows) ==
    LET score(t) == BalancedScore(e, AtLeast(e, rows, t), rows)
    IN  Min({t \in Grid(e, rows) : \A u \in Grid(e, rows) : score(u) <= score(t)})

\* A gain of more than 0.005 in balanced accuracy.
BeatsHalf(e, predicted, rows) ==
    100 * (BalancedScore(e, predicted, rows) - BalancedScore(e, AtLeast(e, rows, Half), rows))
        > Cardinality(Positives(e, rows)) * Cardinality(Negatives(e, rows))

\* Every validation row is predicted by the threshold of the rows before its block.
Prospective(e, splits, Select(_, _)) ==
    UNION {AtLeast(e, Range(splits[i].future), Select(e, Range(splits[i].past))) :
              i \in DOMAIN splits}

Evaluated(splits) == UNION {Range(splits[i].future) : i \in DOMAIN splits}

\* balanced_threshold: the threshold of all rows, admitted by what the procedure that
\* chose it gains out of time (or, for an undated table, on the same rows).
BalancedThreshold(e, splits) ==
    LET rows   == IF e.g = <<>> THEN RowsOf(e) ELSE Evaluated(splits)
        chosen == SelectBalanced(e, RowsOf(e))
        predicted == IF e.g = <<>> THEN AtLeast(e, rows, chosen)
                                   ELSE Prospective(e, splits, SelectBalanced)
    IN  IF /\ Positives(e, rows) # {} /\ Negatives(e, rows) # {}
           /\ BeatsHalf(e, predicted, rows)
        THEN chosen ELSE NoThreshold

-----------------------------------------------------------------------------
(* The threshold of a rare class *)

\* Mutant: every row is kept at the prior of the whole table.
PriorAlways(e, rows, preserve) ==
    <<Cardinality(Positives(e, RowsOf(e))), Cardinality(Negatives(e, RowsOf(e)))>>

\* prior_weighted_rows: the class masses, those of the whole table if they are preserved.
Prior(e, rows, preserve) ==
    LET from == IF preserve THEN RowsOf(e) ELSE rows
    IN  <<Cardinality(Positives(e, from)), Cardinality(Negatives(e, from))>>

RareScore(e, predicted, rows, prior) ==
    Conservative(Cardinality(Positives(e, rows) \cap predicted),
                 Cardinality(Negatives(e, rows) \cap predicted),
                 Cardinality(Positives(e, rows)), Cardinality(Negatives(e, rows)), prior)

\* select_rare: the observed level of the best conservative F1, the highest one of those.
SelectRare(e, rows, preserve) ==
    LET prior == Prior(e, rows, preserve)
        levels == {e.p[r] : r \in rows}
        score(t) == RareScore(e, AtLeast(e, rows, t), rows, prior)
    IN  Max({t \in levels : \A u \in levels : score(u) <= score(t)})

SelectRareInTime(e, rows) == SelectRare(e, rows, FALSE)

\* A conservative F1 (in thousandths) more than 2 above that of the default.
RareBeatsHalf(e, predicted, rows) ==
    LET prior == Prior(e, rows, FALSE)
    IN  RareScore(e, predicted, rows, prior)
            > RareScore(e, AtLeast(e, rows, Half), rows, prior) + 2

\* temporal_rare_result
TemporalRare(e, splits) ==
    LET rows == Evaluated(splits)
    IN  IF /\ Cardinality(Positives(e, rows)) >= 2 /\ Cardinality(Negatives(e, rows)) >= 2
           /\ RareBeatsHalf(e, Prospective(e, splits, SelectRareInTime), rows)
        THEN SelectRareInTime(e, RowsOf(e)) ELSE NoThreshold

\* exchangeable_rare_result: three stratified folds when both classes are large enough.
\* fold gives every row its fold.
CrossFitted(e, fold) ==
    UNION {AtLeast(e, {r \in RowsOf(e) : fold[r] = f},
                   SelectRare(e, {r \in RowsOf(e) : fold[r] # f}, TRUE)) : f \in Range(fold)}

ExchangeableRare(e, fold) ==
    LET all == RowsOf(e)
        chosen == SelectRare(e, all, TRUE)
        enough == /\ Cardinality(Positives(e, all)) >= MinPerFold
                  /\ Cardinality(Negatives(e, all)) >= MinPerFold
        predicted == IF enough THEN CrossFitted(e, fold) ELSE AtLeast(e, all, chosen)
    IN  IF RareBeatsHalf(e, predicted, all) THEN chosen ELSE NoThreshold

-----------------------------------------------------------------------------
(* The expert router: e.cell is the context of each row, e.gain the sign of *)
(* the log-likelihood change the candidate makes on its true class.         *)

CellWins(e, rows, cell) == Cardinality({r \in rows : e.cell[r] = cell /\ e.gain[r] > 0})
CellLosses(e, rows, cell) == Cardinality({r \in rows : e.cell[r] = cell /\ e.gain[r] < 0})

\* The lower bound of the Beta posterior, mean - sd, is above one half.
PosteriorAboveHalf(wins, losses) ==
    /\ wins > losses
    /\ (wins - losses) * (wins - losses) * (wins + losses + 2)
           > (2 * wins + 1) * (2 * losses + 1)

\* BayesianExpertRouter.fit
Enabled(e, rows) ==
    {c \in Range(e.cell) :
        LET w == CellWins(e, rows, c)  l == CellLosses(e, rows, c)
        IN  w + l >= MinSupport /\ w - l >= MinNetWins /\ PosteriorAboveHalf(w, l)}

\* The rows of `rows` that take the candidate's probabilities.
Routed(e, rows, enabled) == {r \in rows : e.cell[r] \in enabled}

NoRouting == [routed |-> {}, raised |-> TRUE]

\* Mutant: the final router, of all evidence, also routes the folds.
CrossFitByFinal(e, splits, evidence) ==
    [routed |-> UNION {Routed(e, splits[i].valid, Enabled(e, evidence)) : i \in DOMAIN splits},
     raised |-> FALSE, final |-> Enabled(e, evidence)]

\* cross_fit: a row is routed by the contexts its fold's training rows enable.
CrossFit(e, splits, evidence) ==
    IF \/ \E i \in DOMAIN splits : splits[i].train \cap evidence = {} \/ splits[i].valid = {}
       \/ ~(evidence \subseteq UNION {splits[i].valid : i \in DOMAIN splits})
    THEN NoRouting
    ELSE [routed |-> UNION {Routed(e, splits[i].valid, Enabled(e, splits[i].train \cap evidence)) :
                               i \in DOMAIN splits},
          raised |-> FALSE, final |-> Enabled(e, evidence)]

-----------------------------------------------------------------------------
(* The conformal quantile; a miscoverage alpha of num / den *)

Ceiling(a, b) == (a + b - 1) \div b

\* Mutant: the empirical quantile of the n scores.
EmpiricalRank(n, num, den) == Ceiling(n * (den - num), den)

\* _qhat: the rank of the score that becomes the bound.
QuantileRank(n, num, den) == Min({Ceiling((n + 1) * (den - num), den), n})

\* np.sort(scores)[rank - 1]
QHat(scores, num, den) == scores[Order(scores)[QuantileRank(Len(scores), num, den)]]

-----------------------------------------------------------------------------
(* verification_blocks; y are the labels, maxBlocks and minRows its limits *)

BlockCount(y, maxBlocks, minRows) ==
    Min({maxBlocks, Max({1, Len(y) \div minRows})}
          \cup {Cardinality({r \in DOMAIN y : y[r] = c}) : c \in Range(y)})

\* The rows of a class go to the blocks in turn.
VerificationBlocks(y, maxBlocks, minRows) ==
    LET count == BlockCount(y, maxBlocks, minRows)
        place(r) == Cardinality({s \in 1 .. r - 1 : y[s] = y[r]}) % count
    IN  [b \in 1 .. count |-> {r \in DOMAIN y : place(r) = b - 1}]
=============================================================================
