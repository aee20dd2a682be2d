-------------------------- MODULE CertificateQueries --------------------------
(***************************************************************************)
(* The queries of a fitted forest: robustness and its radius, the band of a *)
(* regression, sufficient reasons and recourse (certified_boost.py).        *)
(***************************************************************************)
EXTENDS ForestCertificates

CONSTANTS
    WideGroups         \* the group counts that get two more deletion orders: 16 <= n <= 128

Around(x, delta, sign) == [j \in DOMAIN x |-> x[j] + (sign * delta)]

-----------------------------------------------------------------------------
(* Robustness *)

Margin(m, x, delta) ==
    MarginLowerBound(m, Around(x, delta, -1), Around(x, delta, 1), Predicted(m, x))
CertifiedStable(m, x, delta) == Margin(m, x, delta) > 0

\* Bisects between a radius found certified and one found not.
RobustRadius(m, x, tiny, most, rounds) ==
    IF ~CertifiedStable(m, x, tiny) THEN 0
    ELSE IF CertifiedStable(m, x, most) THEN most
    ELSE FoldLeft(LAMBDA r, i : IF CertifiedStable(m, x, Mid(r.lo, r.hi))
                                THEN [r EXCEPT !.lo = Mid(r.lo, r.hi)]
                                ELSE [r EXCEPT !.hi = Mid(r.lo, r.hi)],
                  [lo |-> 0, hi |-> most], [i \in 1 .. rounds |-> i]).lo

\* A regression is a forest of one class.
PredictInterval(m, x, delta) == ScoreBounds(m, Around(x, delta, -1), Around(x, delta, 1))[1]

\* The leaf paths of a row, intersected: the box over which nothing changes.
StabilityBox(m, x) ==
    LET literals == FlattenSeq([i \in DOMAIN m.forest |-> RowPath(m.forest[i].tree, x)])
    IN  [j \in {p.cols[1] : p \in Range(literals)} |->
            LET s == Bound(literals, [kind |-> "num", cols |-> <<j>>]) IN <<s.lower, s.upper>>]
BandOf(m, box, width) ==
    LET lo == [j \in 1 .. width |-> IF j \in DOMAIN box THEN box[j][1] ELSE NegInf]
        hi == [j \in 1 .. width |-> IF j \in DOMAIN box THEN box[j][2] ELSE PosInf]
    IN  ScoreBounds(m, lo, hi)[1]

-----------------------------------------------------------------------------
(* Sufficient reasons: a box [feature -> <<lo, hi>>], the other features free *)

\* Mutant: a row on a threshold is put into the cell above it
SubCellAbove(m, x, j) ==
    LET below == {t \in Thresholds(m, j) : t <= x[j]}
        above == {t \in Thresholds(m, j) : t > x[j]}
    IN  <<IF below = {} THEN NegInf ELSE Max(below), IF above = {} THEN PosInf ELSE Min(above)>>

\* The widest interval around the row that crosses no threshold.
SubCell(m, x, j) ==
    LET below == {t \in Thresholds(m, j) : t < x[j]}
        above == {t \in Thresholds(m, j) : t >= x[j]}
    IN  <<IF below = {} THEN NegInf ELSE Max(below), IF above = {} THEN PosInf ELSE Min(above)>>

Slack(band, eps) == (2 * eps) - (band[2] - band[1])

\* How far the box is from failing: the margin of the class, or the slack of the band.
Quality(m, x, box, eps) ==
    LET lo == [j \in DOMAIN x |-> IF j \in DOMAIN box THEN box[j][1] ELSE NegInf]
        hi == [j \in DOMAIN x |-> IF j \in DOMAIN box THEN box[j][2] ELSE PosInf]
    IN  IF Len(m.base) = 1 THEN Slack(ScoreBounds(m, lo, hi)[1], eps)
        ELSE MarginLowerBound(m, lo, hi, Predicted(m, x))
Certified(m, q) == IF Len(m.base) = 1 THEN q >= 0 ELSE q > 0

\* Groups cut to the split features; every feature of no group is one of its own.
GroupUniverse(groups, universe) ==
    SelectSeq([i \in DOMAIN groups |-> groups[i] \cap universe], LAMBDA g : g # {})
        \o [i \in 1 .. Cardinality(universe \ UNION Range(groups)) |->
               {SetToSortSeq(universe \ UNION Range(groups), <)[i]}]

Uses(m, g) ==
    Total([i \in DOMAIN m.forest |-> Cardinality(TreeFeatures(m.forest[i].tree) \cap g)])
ByUse(m, gs) ==
    LET before(a, b) == \/ Uses(m, a) < Uses(m, b)
                        \/ Uses(m, a) = Uses(m, b) /\ Cardinality(a) < Cardinality(b)
                        \/ Uses(m, a) = Uses(m, b) /\ Cardinality(a) = Cardinality(b) /\ Min(a) <= Min(b)
    IN  SetToSortSeq(Range(gs), before)
DeletionOrders(m, gs) ==
    IF Len(gs) \in WideGroups THEN {gs, ByUse(m, gs), Reverse(ByUse(m, gs))} ELSE {gs}

\* Drops the groups of an order one by one while the rest stays certified.
Deleted(m, x, box, order, eps) ==
    FoldLeft(LAMBDA b, g :
                 LET cut == Restrict(b, DOMAIN b \ g)
                 IN  IF DOMAIN b \cap g # {} /\ Certified(m, Quality(m, x, cut, eps)) THEN cut ELSE b,
             box, order)

\* Two sets of as many features, each in order.
SortsNoLater(A, B) == A = B \/ Min((A \ B) \cup (B \ A)) \in A

\* The best box of those found: fewest groups, fewest features, quality, then the features.
BestBox(gs, quality) ==
    LET kept(b) == Cardinality({i \in DOMAIN gs : gs[i] \cap DOMAIN b # {}})
        size(b) == Cardinality(DOMAIN b)
        better(a, b) == \/ kept(a) < kept(b)
                        \/ kept(a) = kept(b) /\ size(a) < size(b)
                        \/ kept(a) = kept(b) /\ size(a) = size(b) /\ quality[a] > quality[b]
                        \/ kept(a) = kept(b) /\ size(a) = size(b) /\ quality[a] = quality[b]
                              /\ SortsNoLater(DOMAIN a, DOMAIN b)
    IN  CHOOSE a \in DOMAIN quality : \A b \in DOMAIN quality : better(a, b)
SmallestReasonBox(m, x, box, gs, eps) ==
    BestBox(gs, [b \in {Deleted(m, x, box, order, eps) : order \in DeletionOrders(m, gs)} |->
                    Quality(m, x, b, eps)])

\* The box without one end of one bound.
Freed(b, end) == [b EXCEPT ![end[1]][end[2]] = IF end[2] = 1 THEN NegInf ELSE PosInf]
Ends(box) ==
    FlattenSeq([i \in 1 .. Cardinality(DOMAIN box) |->
        <<<<SetToSortSeq(DOMAIN box, <)[i], 1>>, <<SetToSortSeq(DOMAIN box, <)[i], 2>>>>])

\* Relaxes each end of each surviving bound that the certificate does not need.
Widened(m, x, box, eps) ==
    FoldLeft(LAMBDA b, end : IF Certified(m, Quality(m, x, Freed(b, end), eps)) THEN Freed(b, end) ELSE b,
             box, Ends(box))

BoxLiterals(box) ==
    FlattenSeq([i \in 1 .. Cardinality(DOMAIN box) |->
        LET j == SetToSortSeq(DOMAIN box, <)[i] IN BoundLiterals(j, Span(box[j][1], box[j][2]))])

ReasonOf(m, x, box, eps) ==
    [box |-> box, certified |-> Certified(m, Quality(m, x, box, eps)),
     proof |-> box # <<>> /\ Fires(BoxLiterals(box), x)]
SufficientReason(m, x, groups, eps) ==
    LET start == [j \in SplitFeatures(m) |-> SubCell(m, x, j)]
        gs == GroupUniverse(groups, SplitFeatures(m))
    IN  ReasonOf(m, x, Widened(m, x, SmallestReasonBox(m, x, start, gs, eps), eps), eps)

-----------------------------------------------------------------------------
(* Recourse: the least change of one column, or one switch of a level *)

Apart(a, b) == IF a <= b THEN b - a ELSE a - b

\* Mutant: only moves to the lower side of a threshold are tried
SidesBelow(m, x, j) ==
    LET cuts == SetToSortSeq(Thresholds(m, j), <)
    IN  [i \in DOMAIN cuts |-> [x EXCEPT ![j] = cuts[i]]]

\* The row moved in column j to either side of every threshold.
Sides(m, x, j) ==
    LET cuts == SetToSortSeq(Thresholds(m, j), <)
    IN  FlattenSeq([i \in DOMAIN cuts |->
            <<[x EXCEPT ![j] = cuts[i]], [x EXCEPT ![j] = cuts[i] + NextAfter]>>])

Switched(x, cols, c) == [j \in DOMAIN x |-> IF j = c THEN One ELSE IF j \in Range(cols) THEN 0 ELSE x[j]]

NearestMove(moves, x, j) ==
    LET cost == [i \in DOMAIN moves |-> Apart(moves[i][j], x[j])]
        nearest == CHOOSE i \in DOMAIN moves :
            \A k \in DOMAIN moves : cost[i] < cost[k] \/ (cost[i] = cost[k] /\ i <= k)
    IN  IF moves = <<>> THEN <<>> ELSE <<[to |-> moves[nearest], cost |-> cost[nearest]]>>
NumericOption(m, x, j, reaches(_)) == NearestMove(SelectSeq(Sides(m, x, j), reaches), x, j)

\* Every other level in turn, the first that reaches the goal.
LevelOption(x, cols, reaches(_)) ==
    LET set == SelectSeq(cols, LAMBDA c : 2 * x[c] > One)
        current == IF set = <<>> THEN 0 ELSE set[1]
        switches == SelectSeq([i \in DOMAIN cols |-> Switched(x, cols, cols[i])], reaches)
        others == SelectSeq(switches, LAMBDA y : current = 0 \/ y[current] # One)
    IN  IF others = <<>> THEN <<>> ELSE <<[to |-> others[1], cost |-> One]>>

\* The cheapest options, the earlier group first.
Cheapest(found, most) ==
    LET cheap == SetToSortSeq(DOMAIN found, LAMBDA i, k : \/ found[i].cost < found[k].cost
                                                          \/ found[i].cost = found[k].cost /\ i <= k)
    IN  SubSeq([i \in DOMAIN cheap |-> found[cheap[i]]], 1, Lesser(most, Len(found)))

\* groups: a sequence of [kind, cols]; encoded and derived columns are not moved.
Options(m, x, groups, reaches(_), most) ==
    LET option(g) ==
            CASE g.kind = "onehot" -> LevelOption(x, g.cols, reaches)
              [] g.kind = "num"    -> NumericOption(m, x, g.cols[1], reaches)
              [] OTHER             -> <<>>
    IN  Cheapest(FlattenSeq([i \in DOMAIN groups |-> option(groups[i])]), most)

\* The goal: another class, or the target class; at most the target of a regression.
Reaches(m, x, target, y) ==
    IF Len(m.base) = 1 THEN Scores(m, y)[1] <= target
    ELSE IF target = 0 THEN Predicted(m, y) # Predicted(m, x)
    ELSE Predicted(m, y) = target

Recourse(m, x, groups, target, most) ==
    IF Reaches(m, x, target, x) THEN [satisfied |-> TRUE, options |-> <<>>]
    ELSE [satisfied |-> FALSE,
          options |-> Options(m, x, groups, LAMBDA y : Reaches(m, x, target, y), most)]
=============================================================================
