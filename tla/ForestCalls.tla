----------------------------- MODULE ForestCalls -----------------------------
(***************************************************************************)
(* Calls of the region algebra and of forests of region trees, of any size:*)
(* rows served by a packed forest with and without the adaptive depth, the *)
(* clauses that fire on a row, and the canonical form of regions.  A state *)
(* is a call with its answer.                                              *)
(***************************************************************************)
EXTENDS ForestCertificates, Calls

CONSTANTS
    ExitCalls,     \* records [op, m, audit, rows]
    RegionCalls    \* records [op, m, rows], [op, path, rows] or [op, spans, s, t, points]

\* Children come after their parent.
IsTable(tree) ==
    /\ tree \in Seq(Range(tree)) /\ tree # <<>>
    /\ \A n \in DOMAIN tree :
          /\ tree[n].val \in Int
          /\ tree[n].kind # "leaf" => {tree[n].left, tree[n].right} \subseteq n + 1 .. Len(tree)

ASSUME ExitsAreOfForests ==
    \A c \in ExitCalls :
        /\ c.op = "exit"
        /\ DOMAIN c.m = {"base", "forest"}
        /\ c.m.base \in Seq(Int) /\ c.m.base # <<>>
        /\ c.m.forest \in Seq(Range(c.m.forest))
        /\ \A i \in DOMAIN c.m.forest : IsTable(c.m.forest[i].tree)

\* A literal bounds a column, or restricts the levels of a block.
IsLiteral(p) ==
    /\ p.cols \in Seq(Range(p.cols)) /\ p.cols # <<>>
    /\ \/ p.kind = "num" /\ p.op \in {"<=", ">"} /\ p.thr \in Int /\ Len(p.cols) = 1
       \/ p.kind = "cat" /\ p.op \in {"in", "not in"}

\* A row has a finite number in each column.
IsRow(x, columns) ==
    \A j \in columns : j \in DOMAIN x /\ x[j] \in Int /\ NegInf < x[j] /\ x[j] < PosInf

\* A node splits on a threshold, or on the levels of a one-hot block.
IsSplit(node) ==
    \/ node.kind = "num" /\ node.thr \in Int
    \/ /\ node.kind = "cat"
       /\ node.cols \in Seq(Range(node.cols)) /\ node.cols # <<>>
       /\ node.levels \subseteq 0 .. Len(node.cols) - 1
SplitColumns(node) == IF node.kind = "num" THEN {node.feat} ELSE Range(node.cols)
OneHot(x, cols) ==
    \A i, j \in DOMAIN cols : 2 * x[cols[i]] > One /\ 2 * x[cols[j]] > One => i = j

\* A table of splits, and a row it can route.
Routes(tree, x) ==
    /\ IsTable(tree)
    /\ \A n \in DOMAIN tree : tree[n].kind # "leaf" =>
          /\ IsSplit(tree[n]) /\ IsRow(x, SplitColumns(tree[n]))
          /\ tree[n].kind = "cat" => OneHot(x, tree[n].cols)

RegionOps == {"fires", "region", "spans"}
ASSUME RegionsAreOfRows ==
    /\ One \in Int
    /\ \A c \in RegionCalls :
          /\ c.op \in RegionOps
          /\ c.op = "fires" =>
                \A i \in DOMAIN c.m.forest : \A x \in c.rows : Routes(c.m.forest[i].tree, x)
          /\ c.op = "region" =>
                /\ c.path \in Seq(Range(c.path))
                /\ \A p \in Range(c.path) :
                      IsLiteral(p) /\ \A x \in c.rows : IsRow(x, Range(p.cols))
          /\ c.op = "spans" =>
                /\ IsFiniteSet(c.spans) /\ c.spans \subseteq Interval
                /\ c.s \in Interval /\ c.t \in Interval /\ c.points \subseteq Int

-----------------------------------------------------------------------------
(* Answers *)

ExitAnswer(c, selected) ==
    [x \in c.rows |-> {Predict(c.m, selected, x), AdaptivePredict(c.m, x).class}]

ExitInit == call \in ExitCalls /\ answer = Pending

Serve ==
    /\ answer = Pending /\ call.op = "exit"
    /\ answer' = [is |-> ExitAnswer(call, AdaptiveSelected(call.m, call.audit))]
    /\ UNCHANGED call

ExitSpec == ExitInit /\ [][Serve]_<<call, answer>>

RegionAnswer(c) ==
    CASE c.op = "fires"  -> [x \in c.rows |-> [i \in DOMAIN c.m.forest |-> ProofLeaf(c.m.forest[i].tree, x)]]
      [] c.op = "region" -> Canonicalize(c.path)
      [] c.op = "spans"  -> [union |-> CanonicalUnion(c.spans), rest |-> Difference(c.s, c.t)]

RegionInit == call \in RegionCalls /\ answer = Pending

Locate ==
    /\ answer = Pending /\ call.op \in RegionOps
    /\ answer' = [is |-> RegionAnswer(call)]
    /\ UNCHANGED call

RegionSpec == RegionInit /\ [][Locate]_<<call, answer>>

-----------------------------------------------------------------------------
(* Properties *)

\* Early exit is exact: whatever the packed layout, a row that leaves the forest at a
\* checkpoint gets the class the full forest gives it, ties included
\* (_certified_suffix_winner_nb, _forest_predict_adaptive_*).
EarlyExitIsExact ==
    Answered("exit") => \A x \in call.rows : answer.is[x] = {Predicted(call.m, x)}

\* A literal, and a conjunction, on a row.
Holds(p, x) ==
    CASE p.kind = "never" -> FALSE
      [] p.kind = "num"   -> IF p.op = ">" THEN x[p.cols[1]] > p.thr ELSE x[p.cols[1]] <= p.thr
      [] p.kind = "cat"   -> IF p.op = "in" THEN Level(x, p.cols) \in p.levels
                             ELSE Level(x, p.cols) \notin p.levels
Means(path, x) == \A i \in DOMAIN path : Holds(path[i], x)

\* Simplified regions keep their rows: the canonical conjunction holds of exactly the rows,
\* unseen levels included, that the path holds of, and bounds each side of each column
\* once; a union of intervals is sorted with gaps between its branches, and a difference
\* cuts out exactly the other interval (region_algebra.py).  Of the clauses of a stage,
\* only that of the leaf the row is routed to fires on it (proof).
RegionsKeepTheirRows ==
    /\ Answered("fires") => \A x \in call.rows : \A i \in DOMAIN call.m.forest :
          answer.is[x][i] = {Last(Route(call.m.forest[i].tree, x))}
    /\ Answered("region") =>
          /\ \A x \in call.rows : Means(answer.is, x) <=> Means(call.path, x)
          /\ \A i, j \in DOMAIN answer.is :
                i # j => Key(answer.is[i]) # Key(answer.is[j]) \/ answer.is[i].op # answer.is[j].op
    /\ Answered("spans") =>
          /\ ValidUnion(answer.is.union)
          /\ \A v \in call.points :
                /\ (\E b \in Range(answer.is.union) : Inside(v, b)) <=> (\E s \in call.spans : Inside(v, s))
                /\ (\E r \in answer.is.rest : Inside(v, r)) <=> Inside(v, call.s) /\ ~Inside(v, call.t)
=============================================================================
