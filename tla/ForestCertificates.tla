-------------------------- MODULE ForestCertificates --------------------------
(***************************************************************************)
(* What a fitted forest of region trees says and certifies of a row         *)
(* (certified_boost.py, and the packed kernels of trees.py): scores, packed *)
(* serving with early exit, bounds over a box {lo < x <= hi}, robustness,   *)
(* sufficient reasons and recourse.                                         *)
(*                                                                         *)
(* A tree is its table of nodes, the root first; a forest is a sequence of  *)
(* [cls, tree].  Numbers are integers, the learning rate is in the leaves,  *)
(* and rounding is left out.  Coordinates are spaced so that every midpoint *)
(* the code takes is an integer.                                            *)
(***************************************************************************)
EXTENDS RegionAlgebra, FiniteSetsExt, Functions

CONSTANTS
    One,               \* a set dummy column (1.0), and the offset past a lone finite bound
    NextAfter,         \* the step to the next number above
    Stride,            \* _ADAPTIVE_DEPTH_ROUNDS_PER_CHECK
    MinReduction,      \* _ADAPTIVE_DEPTH_MIN_STAGE_REDUCTION, in percent, for a deep forest
    ShallowReduction,  \* and for one of fewer than DeepStages stages
    SharedReduction,   \* and for one of shared vector leaves
    DeepStages,
    TableCap           \* cap: grid cells, or entries of a contracted table

Fallback == -9999      \* the answer None of a verifier that gives up

ArgMax(scores) ==
    CHOOSE k \in DOMAIN scores : /\ \A c \in DOMAIN scores : scores[c] <= scores[k]
                                 /\ \A c \in 1 .. k - 1 : scores[c] < scores[k]

-----------------------------------------------------------------------------
(* Trees *)

LeafNodes(tree) == {n \in DOMAIN tree : tree[n].kind = "leaf"}
TreeFeatures(tree) ==
    UNION {IF tree[n].kind = "num" THEN {tree[n].feat} ELSE Range(tree[n].cols) :
               n \in DOMAIN tree \ LeafNodes(tree)}
Numeric(tree) == \A n \in DOMAIN tree : tree[n].kind # "cat"

\* The level of a one-hot block: its largest column if that one is set.
Level(x, cols) ==
    LET top == ArgMax([i \in DOMAIN cols |-> x[cols[i]]])
    IN  IF 2 * x[cols[top]] > One THEN top - 1 ELSE Unseen

GoesLeft(node, x) ==
    IF node.kind = "num" THEN x[node.feat] <= node.thr
    ELSE \E v \in node.levels : 2 * x[node.cols[v + 1]] > One

\* The nodes a row passes, root to leaf.
Route(tree, x) ==
    LET from[n \in DOMAIN tree] ==
            IF tree[n].kind = "leaf" THEN <<n>>
            ELSE <<n>> \o from[IF GoesLeft(tree[n], x) THEN tree[n].left ELSE tree[n].right]
    IN  from[1]

Clip(v, lo, hi) == Lesser(Larger(v, lo), hi)
Total(numbers) ==
    LET upTo[i \in 0 .. Len(numbers)] == IF i = 0 THEN 0 ELSE upTo[i - 1] + numbers[i]
    IN  upTo[Len(numbers)]

\* A leaf is a constant plus clipped linear terms [feat, coef, lo, hi].
TermAt(a, v) == a.coef * Clip(v, a.lo, a.hi)
LeafValue(leaf, x) ==
    leaf.val + Total([i \in DOMAIN leaf.linear |-> TermAt(leaf.linear[i], x[leaf.linear[i].feat])])
Value(tree, x) == LeafValue(tree[Last(Route(tree, x))], x)
Affine(forest) == \E i \in DOMAIN forest : \E n \in LeafNodes(forest[i].tree) :
                      forest[i].tree[n].linear # <<>>

\* What a stage adds to the score of a class.
Adds(stage, k, x) == IF stage.cls = k THEN Value(stage.tree, x) ELSE 0
ForestScore(forest, k, x) == Total([i \in DOMAIN forest |-> Adds(forest[i], k, x)])
Scores(m, x) == [k \in DOMAIN m.base |-> m.base[k] + ForestScore(m.forest, k, x)]
Predicted(m, x) == ArgMax(Scores(m, x))

-----------------------------------------------------------------------------
(* Regions: the leaf paths, as literals *)

Literal(node, left) ==
    IF node.kind = "num" THEN Num(node.feat, IF left THEN "<=" ELSE ">", node.thr)
    ELSE Cat(node.cols, IF left THEN "in" ELSE "not in", node.levels)

LeafRegions(tree) ==
    LET under[n \in DOMAIN tree] ==
            IF tree[n].kind = "leaf" THEN {[leaf |-> n, path |-> <<>>]}
            ELSE UNION {{[r EXCEPT !.path = <<Literal(tree[n], left)>> \o @] :
                             r \in under[IF left THEN tree[n].left ELSE tree[n].right]} :
                        left \in BOOLEAN}
    IN  under[1]

RowPath(tree, x) ==
    LET nodes == Front(Route(tree, x))
    IN  [i \in DOMAIN nodes |-> Literal(tree[nodes[i]], GoesLeft(tree[nodes[i]], x))]

\* Does the clause of a region fire on the base facts of a row?
Fires(path, x) ==
    \A p \in Range(Canonicalize(path)) :
        CASE p.kind = "never" -> FALSE
          [] p.kind = "cat"   -> Level(x, p.cols) \in LevelsOf(Len(p.cols), p.op, p.levels)
          [] p.kind = "num"   -> Inside(x[p.cols[1]], OfLiteral(p.op, p.thr))

\* The leaves of a stage whose clause fires on a row.
ProofLeaf(tree, x) == {r.leaf : r \in {r \in LeafRegions(tree) : Fires(r.path, x)}}

-----------------------------------------------------------------------------
(* Packed serving: stages of trees that route once, and the early exit *)

SameShape(t, u) ==
    /\ DOMAIN t = DOMAIN u
    /\ \A n \in DOMAIN t : [t[n] EXCEPT !.val = 0] = [u[n] EXCEPT !.val = 0]
Rounds(forest, k) ==
    [i \in 1 .. Len(forest) \div k |-> SubSeq(forest, (k * (i - 1)) + 1, k * i)]
InRounds(forest, k) ==
    /\ forest # <<>> /\ Len(forest) % k = 0
    /\ \A i \in DOMAIN forest : forest[i].cls = ((i - 1) % k) + 1
Shared(round) == \A i \in DOMAIN round : SameShape(round[1].tree, round[i].tree)
Mirrored(round) ==
    Shared(round) /\ \A n \in DOMAIN round[1].tree : round[2].tree[n].val = -round[1].tree[n].val

Pack(m) ==
    LET k == Len(m.base)
        numeric == \A i \in DOMAIN m.forest : Numeric(m.forest[i].tree)
        packed(kind, stages) == [kind |-> kind, stages |-> stages]
    IN  IF ~numeric \/ m.forest = <<>> THEN packed("none", <<>>)
        ELSE IF Affine(m.forest) THEN packed("affine", <<>>)
        ELSE IF InRounds(m.forest, 2) /\ \A r \in Range(Rounds(m.forest, 2)) : Mirrored(r)
             THEN packed("binary_mirrored", Rounds(m.forest, 2))
        ELSE IF k >= 3 /\ InRounds(m.forest, k) /\ \A r \in Range(Rounds(m.forest, k)) : Shared(r)
             THEN packed("multiclass_shared", Rounds(m.forest, k))
        ELSE packed("flat", [i \in DOMAIN m.forest |-> <<m.forest[i]>>])

CheckpointStride(m, kind) ==
    LET k == Len(m.base)
    IN  IF kind # "flat" THEN Stride
        ELSE IF k > 1 /\ InRounds(m.forest, k) THEN Stride * k
        ELSE Larger(Stride, Lesser(32, Stride * k))

LeafVals(tree) == {tree[n].val : n \in LeafNodes(tree)}
\* The least and the greatest sum of leaves a run of stages can still add to a class.
Least(stages, k) ==
    Total([i \in DOMAIN stages |->
        Total([j \in DOMAIN stages[i] |->
            IF stages[i][j].cls = k THEN Min(LeafVals(stages[i][j].tree)) ELSE 0])])
Greatest(stages, k) ==
    Total([i \in DOMAIN stages |->
        Total([j \in DOMAIN stages[i] |->
            IF stages[i][j].cls = k THEN Max(LeafVals(stages[i][j].tree)) ELSE 0])])

\* Mutant: a challenger that can still draw level is taken to be beaten
StaysAheadTied(lower, upper) ==
    LET winner == ArgMax(lower)
    IN  IF \E k \in DOMAIN lower \ {winner} : lower[winner] < upper[k] THEN 0 ELSE winner

\* The class whose lower end is above the upper ends of the others, or 0.
StaysAhead(lower, upper) ==
    LET winner == ArgMax(lower)
    IN  IF \E k \in DOMAIN lower \ {winner} : lower[winner] <= upper[k] THEN 0 ELSE winner

\* The class that stays ahead whatever the remaining stages add, or 0.
SuffixWinner(scores, rest) ==
    StaysAhead([k \in DOMAIN scores |-> scores[k] + Least(rest, k)],
               [k \in DOMAIN scores |-> scores[k] + Greatest(rest, k)])

\* What each checkpoint, a multiple of the stride before the last stage, certifies.
Checkpoints(m, stages, every, x) ==
    [n \in {n \in 1 .. Len(stages) - 1 : n % every = 0} |->
        SuffixWinner(Scores([m EXCEPT !.forest = FlattenSeq(SubSeq(stages, 1, n))], x),
                     SubSeq(stages, n + 1, Len(stages)))]

\* Leaves at the first checkpoint that certifies a class, else after the last stage.
FirstExit(winners, full) ==
    LET exits == {n \in DOMAIN winners : winners[n] # 0}
    IN  IF exits = {} THEN full ELSE [class |-> winners[Min(exits)], evaluated |-> Min(exits)]
PackedPredict(m, packed, x) ==
    FirstExit(Checkpoints(m, packed.stages, CheckpointStride(m, packed.kind), x),
              [class |-> Predicted(m, x), evaluated |-> Len(packed.stages)])
AdaptivePredict(m, x) == PackedPredict(m, Pack(m), x)

AdaptiveReady(m, packed) ==
    /\ packed.kind \in {"flat", "binary_mirrored", "multiclass_shared"}
    /\ Len(packed.stages) > CheckpointStride(m, packed.kind)

\* Adaptive depth is deployed after an audit of exactness and saved work.
SavesEnough(kind, stages, rows, work) ==
    100 * ((rows * stages) - work)
        >= rows * stages * Larger(IF stages < DeepStages THEN ShallowReduction ELSE MinReduction,
                                  IF kind = "multiclass_shared" THEN SharedReduction ELSE 0)
AuditPasses(m, packed, audit, exits) ==
    /\ audit # <<>> /\ AdaptiveReady(m, packed)
    /\ \A i \in DOMAIN audit : exits[i].class = Predicted(m, audit[i])
    /\ SavesEnough(packed.kind, Len(packed.stages), Len(audit),
                   Total([i \in DOMAIN audit |-> exits[i].evaluated]))
AdaptiveSelected(m, audit) ==
    AuditPasses(m, Pack(m), audit, [i \in DOMAIN audit |-> AdaptivePredict(m, audit[i])])

Predict(m, selected, x) == IF selected THEN AdaptivePredict(m, x).class ELSE Predicted(m, x)

-----------------------------------------------------------------------------
(* Bounds over a box, per class as <<least, greatest>> *)

\* The leaves that a row of the box may reach.
Reachable(tree, lo, hi) ==
    LET from[n \in DOMAIN tree] ==
            IF tree[n].kind = "leaf" THEN {n}
            ELSE UNION {from[s] :
                    s \in IF tree[n].kind = "cat" THEN {tree[n].left, tree[n].right}
                          ELSE IF hi[tree[n].feat] <= tree[n].thr THEN {tree[n].left}
                          ELSE IF lo[tree[n].feat] >= tree[n].thr THEN {tree[n].right}
                          ELSE {tree[n].left, tree[n].right}}
    IN  from[1]

\* A linear term is monotone and clipped, so its ends over the box are its extremes.
LeafRange(leaf, lo, hi) ==
    LET ends(a) == {TermAt(a, lo[a.feat]), TermAt(a, hi[a.feat])}
    IN  <<leaf.val + Total([i \in DOMAIN leaf.linear |-> Min(ends(leaf.linear[i]))]),
          leaf.val + Total([i \in DOMAIN leaf.linear |-> Max(ends(leaf.linear[i]))])>>

Hull(ranges) == <<Min({r[1] : r \in ranges}), Max({r[2] : r \in ranges})>>
TreeInterval(tree, lo, hi) ==
    Hull({LeafRange(tree[n], lo, hi) : n \in Reachable(tree, lo, hi)})

SumBounds(m, ranges) ==
    LET each(k, side) == Total([i \in DOMAIN m.forest |->
            IF m.forest[i].cls = k THEN ranges[i][side] ELSE 0])
    IN  [k \in DOMAIN m.base |-> <<m.base[k] + each(k, 1), m.base[k] + each(k, 2)>>]
IndependentBounds(m, lo, hi) ==
    SumBounds(m, [i \in DOMAIN m.forest |-> TreeInterval(m.forest[i].tree, lo, hi)])

Nodes(m) == UNION {Range(m.forest[i].tree) : i \in DOMAIN m.forest}
SplitFeatures(m) == {n.feat : n \in {n \in Nodes(m) : n.kind = "num"}}
Thresholds(m, j) == {n.thr : n \in {n \in Nodes(m) : n.kind = "num" /\ n.feat = j}}
AllNumeric(m) == \A i \in DOMAIN m.forest : Numeric(m.forest[i].tree)

Finite(v) == NegInf < v /\ v < PosInf
Mid(a, b) == (a + b) \div 2
\* A point of an interval.
BasePoint(lo, hi) ==
    IF Finite(lo) /\ Finite(hi) THEN Mid(lo, hi)
    ELSE IF Finite(hi) THEN hi - One
    ELSE IF Finite(lo) THEN lo + One
    ELSE 0

Within(m, j, lo, hi) == {t \in Thresholds(m, j) : lo[j] < t /\ t < hi[j]}

\* One representative per cell that the thresholds inside the box cut feature j into.
Midpoints(edges) == {Mid(edges[i], edges[i + 1]) : i \in 1 .. Len(edges) - 1}
CellsBetween(cuts, lo, hi) ==
    IF cuts = <<>> THEN {BasePoint(lo, hi)}
    ELSE Midpoints(<<IF Finite(lo) THEN lo ELSE cuts[1] - One>> \o cuts
                       \o <<IF Finite(hi) THEN hi ELSE Last(cuts) + One>>)
Cells(m, j, lo, hi) == CellsBetween(SetToSortSeq(Within(m, j, lo, hi), <), lo[j], hi[j])

TableSize(features, cells) ==
    FoldLeft(LAMBDA n, j : n * Cardinality(cells[j]), 1, SetToSeq(features))
Assignments(features, cells) ==
    {a \in [features -> UNION {cells[j] : j \in features}] : \A j \in features : a[j] \in cells[j]}

\* The scores at the representatives of the cells; the other features at a base point.
GridScores(m, lo, hi, cells) ==
    LET point(a) == [j \in DOMAIN lo |->
                        IF j \in DOMAIN cells THEN a[j] ELSE BasePoint(lo[j], hi[j])]
    IN  {Scores(m, point(a)) : a \in Assignments(DOMAIN cells, cells)}

\* Exact bounds on the grid of cells; independent ones for a forest that is not constant
\* on a cell, or a grid beyond the cap.
BoundsOn(m, lo, hi, cells) ==
    IF Affine(m.forest) \/ ~AllNumeric(m) \/ TableSize(DOMAIN cells, cells) > TableCap
    THEN IndependentBounds(m, lo, hi)
    ELSE LET found == GridScores(m, lo, hi, cells)
         IN  [k \in DOMAIN m.base |-> <<Min({s[k] : s \in found}), Max({s[k] : s \in found})>>]
ScoreBounds(m, lo, hi) ==
    BoundsOn(m, lo, hi, [j \in {j \in SplitFeatures(m) : Within(m, j, lo, hi) # {}} |->
                            Cells(m, j, lo, hi)])

-----------------------------------------------------------------------------
(* The region graph: trees as factors, contracted under a box *)

Adjacency(m) ==
    [j \in SplitFeatures(m) |->
        UNION {TreeFeatures(m.forest[i].tree) \ {j} :
                   i \in {i \in DOMAIN m.forest : j \in TreeFeatures(m.forest[i].tree)}}]

\* The feature whose elimination adds the fewest edges, ties by degree and index.
FillEdges(g, j) == Cardinality({e \in kSubset(2, g[j]) : \E a, b \in e : a # b /\ b \notin g[a]})
LeastFill(g, fill) ==
    LET before(i, j) == \/ fill[i] < fill[j]
                        \/ fill[i] = fill[j] /\ Cardinality(g[i]) < Cardinality(g[j])
                        \/ fill[i] = fill[j] /\ Cardinality(g[i]) = Cardinality(g[j]) /\ i <= j
    IN  CHOOSE i \in DOMAIN g : \A j \in DOMAIN g : before(i, j)
MinFill(g) == LeastFill(g, [j \in DOMAIN g |-> FillEdges(g, j)])
Eliminate(s, n) ==
    [left  |-> [j \in DOMAIN s.left \ {n} |->
                   IF j \in s.left[n] THEN (s.left[j] \cup s.left[n]) \ {j, n} ELSE s.left[j]],
     order |-> Append(s.order, n)]
EliminationOrder(m) ==
    FoldLeft(LAMBDA s, i : Eliminate(s, MinFill(s.left)), [left |-> Adjacency(m), order |-> <<>>],
             [i \in 1 .. Cardinality(SplitFeatures(m)) |-> i]).order

FactorMessage(m, stage, sign, lo, hi, cells) ==
    LET scope == TreeFeatures(stage.tree)
        point(a) == [j \in DOMAIN lo |-> IF j \in scope THEN a[j] ELSE 0]
    IN  [scope |-> scope,
         table |-> [a \in Assignments(scope, cells) |-> sign * Value(stage.tree, point(a))]]

\* Mutant: only the first table over a feature is minimised, the others are dropped
MinimisedFirst(touching, scope, j, cells) ==
    LET at(w, a, v) == w.table[[i \in w.scope |-> IF i = j THEN v ELSE a[i]]]
    IN  [scope |-> scope,
         table |-> [a \in Assignments(scope, cells) |-> Min({at(touching[1], a, v) : v \in cells[j]})]]

\* The sum of tables with feature j minimised out.
Minimised(touching, scope, j, cells) ==
    LET at(w, a, v) == w.table[[i \in w.scope |-> IF i = j THEN v ELSE a[i]]]
        sum(a, v) == Total([i \in DOMAIN touching |-> at(touching[i], a, v)])
    IN  [scope |-> scope,
         table |-> [a \in Assignments(scope, cells) |-> Min({sum(a, v) : v \in cells[j]})]]

\* Adds the tables that mention feature j and minimises it out.
Contract(work, j, cells) ==
    IF \A w \in Range(work) : j \notin w.scope THEN work
    ELSE Append(SelectSeq(work, LAMBDA w : j \notin w.scope),
                Minimised(SelectSeq(work, LAMBDA w : j \in w.scope),
                          UNION {w.scope : w \in {w \in Range(work) : j \in w.scope}} \ {j},
                          j, cells))

TooWide(work, j, cells) ==
    TableSize(UNION {w.scope : w \in {w \in Range(work) : j \in w.scope}}, cells) > TableCap

Contraction(messages, order, cells) ==
    FoldLeft(LAMBDA s, j : IF s.failed \/ TooWide(s.work, j, cells)
                           THEN [s EXCEPT !.failed = TRUE]
                           ELSE [s EXCEPT !.work = Contract(@, j, cells)],
             [work |-> messages, failed |-> FALSE], order)

\* The least of score[winner] - score[challenger] over the box, or Fallback.
ContractedMargin(base, done) ==
    IF done.failed THEN Fallback
    ELSE base + Total([i \in DOMAIN done.work |-> done.work[i].table[<<>>]])
MarginOf(m, stages, cells, lo, hi, winner, base) ==
    IF \/ ~AllNumeric(m) \/ Affine(m.forest)
       \/ \E s \in Range(stages) : TableSize(TreeFeatures(s.tree), cells) > TableCap
    THEN Fallback
    ELSE ContractedMargin(base, Contraction(
            [i \in DOMAIN stages |->
                FactorMessage(m, stages[i], IF stages[i].cls = winner THEN 1 ELSE -1, lo, hi, cells)],
            EliminationOrder(m), cells))
GraphMargin(m, lo, hi, winner, challenger) ==
    LET chosen   == SelectSeq(m.forest, LAMBDA s : s.cls \in {winner, challenger})
        features == UNION {TreeFeatures(s.tree) : s \in Range(chosen)}
    IN  MarginOf(m, chosen, [j \in features |-> Cells(m, j, lo, hi)], lo, hi, winner,
                 m.base[winner] - m.base[challenger])

\* The least graph margin, or that of the bounds if a contraction gave up.
LeastMargin(margins, bounds, winner) ==
    IF Fallback \notin margins THEN Min(margins)
    ELSE bounds[winner][1] - Max({bounds[c][2] : c \in DOMAIN bounds \ {winner}})
MarginLowerBound(m, lo, hi, winner) ==
    LeastMargin({GraphMargin(m, lo, hi, winner, c) : c \in DOMAIN m.base \ {winner}},
                ScoreBounds(m, lo, hi), winner)
=============================================================================
