---------------------------- MODULE VerifierSplit ----------------------------
(***************************************************************************)
(* How many rows of each class a stratified booster fit withholds for its   *)
(* verifier, and how many of those for calibration (_fit_verifier_split,    *)
(* _fit_checkpoint_calibration_split in trees.py).  counts[k] is the number *)
(* of rows of class k; which rows are taken is a shuffle within the class.  *)
(***************************************************************************)
EXTENDS FutureValidation

RowsIn(counts) ==
    LET upTo[i \in 0 .. Len(counts)] == IF i = 0 THEN 0 ELSE upTo[i - 1] + counts[i]
    IN  upTo[Len(counts)]

\* np.clip: the upper end wins when the ends cross.
ClipTo(v, lo, hi) == Min({Max({v, lo}), hi})

\* The verifier's rows of n at a holdout of `percent`, with room for every class on both sides.
TargetRows(n, classes, percent) ==
    ClipTo(n - (((100 - percent) * n) \div 100), classes, n - classes)

RareClass(counts) ==
    CHOOSE k \in DOMAIN counts : \A j \in DOMAIN counts :
        counts[k] < counts[j] \/ (counts[k] = counts[j] /\ k <= j)
HasFloor(counts, events, k) == events > 0 /\ Len(counts) = 2 /\ k = RareClass(counts)

\* Mutant: the floor may take every row of the rare class
RareFloorOfAll(c, events) ==
    Min({events, c})

\* The rows the verifier asks of a rare class of c rows.
RareFloor(c, events) == Min({events, Max({0, c - 1}), Max({1, c \div 3})})

\* One verifier row per class that can spare it, and the floor of a rare class.
Floors(counts, events) ==
    [k \in DOMAIN counts |->
        IF HasFloor(counts, events, k) THEN RareFloor(counts[k], events)
        ELSE Min({1, counts[k] - 1})]

\* Each class's share of the target, one row at least and never its last row.
StartQuotas(counts, target, events) ==
    LET share(k) == (counts[k] * target) \div RowsIn(counts)
    IN  [k \in DOMAIN counts |->
            Max({Min({counts[k] - 1, Max({share(k), 1})}),
                 IF HasFloor(counts, events, k) THEN RareFloor(counts[k], events) ELSE 0})]

\* Excess of each class over its proportional share, times the number of rows.
Excess(counts, target, quotas) ==
    [k \in DOMAIN counts |-> (quotas[k] * RowsIn(counts)) - (counts[k] * target)]
MostAbove(open, over) ==
    CHOOSE k \in open : \A j \in open : over[k] > over[j] \/ (over[k] = over[j] /\ k <= j)
MostBelow(open, over) ==
    CHOOSE k \in open : \A j \in open : over[k] < over[j] \/ (over[k] = over[j] /\ k <= j)

\* Takes a row from the class most above its share, or gives one to the class most below.
Trim(counts, target, floors, quotas) ==
    LET open == {k \in DOMAIN counts : quotas[k] > floors[k]}
    IN  IF RowsIn(quotas) <= target \/ open = {} THEN quotas
        ELSE [quotas EXCEPT ![MostAbove(open, Excess(counts, target, quotas))] = @ - 1]
Fill(counts, target, quotas) ==
    LET open == {k \in DOMAIN counts : quotas[k] < counts[k] - 1}
    IN  IF RowsIn(quotas) >= target \/ open = {} THEN quotas
        ELSE [quotas EXCEPT ![MostBelow(open, Excess(counts, target, quotas))] = @ + 1]

\* The quotas after as many rounds of either as there are rows.
TrimmedQuotas(counts, target, events) ==
    LET trimmed[i \in 0 .. RowsIn(counts)] ==
            IF i = 0 THEN StartQuotas(counts, target, events)
            ELSE Trim(counts, target, Floors(counts, events), trimmed[i - 1])
    IN  trimmed[RowsIn(counts)]
QuotasFor(counts, target, events) ==
    LET filled[i \in 0 .. RowsIn(counts)] ==
            IF i = 0 THEN TrimmedQuotas(counts, target, events)
            ELSE Fill(counts, target, filled[i - 1])
    IN  filled[RowsIn(counts)]
VerifierQuotas(counts, percent, events) ==
    QuotasFor(counts, TargetRows(RowsIn(counts), Len(counts), percent), events)

\* The calibration rows of each class: half of what the verifier holds of the class.
CalibrationRows(held, present, halves) ==
    [k \in DOMAIN held |->
        IF held[k] = 0 THEN 0 ELSE halves[CHOOSE i \in DOMAIN present : present[i] = k]]
SecondHalf(held, present, events) ==
    CalibrationRows(held, present,
                    VerifierQuotas([i \in DOMAIN present |-> held[present[i]]], 50, events))
Divided(held, calibration) ==
    [checkpoint |-> [k \in DOMAIN held |-> held[k] - calibration[k]], calibration |-> calibration]

\* [checkpoint, calibration] per class; calibration is <<>> when either side would lack
\* a class, and the caller cross-fits instead.
Halved(held, events, independent) ==
    LET present == {k \in DOMAIN held : held[k] > 0}
    IN  IF \/ ~independent \/ Cardinality(present) < 2
           \/ \E k \in present : held[k] < 2
        THEN [checkpoint |-> held, calibration |-> <<>>]
        ELSE Divided(held, SecondHalf(held, Ascending(present), events))
CheckpointCalibration(counts, percent, events, independent) ==
    Halved(VerifierQuotas(counts, percent, IF independent THEN 2 * events ELSE events),
           events, independent)
=============================================================================
