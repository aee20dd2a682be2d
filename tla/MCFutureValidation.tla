-------------------------- MODULE MCFutureValidation --------------------------
(***************************************************************************)
(* Calls of FutureValidation's operators on small tables, for HeldOutRows.  *)
(***************************************************************************)
EXTENDS HeldOutRows

CONSTANTS Cap, Times, Rows   \* bounds: row caps, timestamps, rows of a table

Tables == UNION {[1 .. n -> Times] : n \in 2 .. Rows}
Ordered(n) == {g \in [1 .. n -> Times] : \A r \in 1 .. n - 1 : g[r] <= g[r + 1]}

SplitCalls ==
    {[op |-> "split", g |-> g, p |-> p] :
        g \in Tables,
        p \in [num : {1}, den : {4}, minTrain : {2}, minValid : {1}, coverage : BOOLEAN,
               floors : {<<>>}]
             \cup [num : {1}, den : {2}, minTrain : {1}, minValid : {2}, coverage : {FALSE},
                   floors : {<<>>, [a |-> 2]}]}
BoundedCalls ==
    {[op |-> "bounded", g |-> g, p |-> [cap |-> c, maxGroups |-> m]] :
        g \in Tables, c \in Cap, m \in {2, 3}}
ExpandingCalls ==
    {[op |-> "expanding", g |-> g, p |-> p] :
        g \in Ordered(Rows + 3),
        p \in [folds : {2, 3}, warmNum : {2}, warmDen : {5}, minTrain : {1, 2},
               minValid : {1, 2}, coverage : {FALSE}]}
    \cup {[op |-> "expanding", g |-> g, p |-> p] :
        g \in Ordered(Rows - 1),
        p \in [folds : {3}, warmNum : {2}, warmDen : {5}, minTrain : {1}, minValid : {1},
               coverage : {TRUE}]}
WindowCalls ==
    {[op |-> "windows", g |-> g, p |-> p] :
        g \in Ordered(Rows + 3),
        p \in [contextRows : {6, 8}, maxRows : {5, 6}, trainNum : {7}, trainDen : {10},
               minRows : {4}, minPast : {2}, minFuture : {2}, windows : {2, 3}, minWindow : {1}]}
GateCalls ==
    {[op |-> "gate", g |-> g, p |-> p] :
        g \in Tables, p \in [dated : BOOLEAN, limit : {3, 4}, minRows : {2}]}

MCValidationCalls(op) ==
    CASE op = "split"     -> SplitCalls
      [] op = "bounded"   -> BoundedCalls
      [] op = "expanding" -> ExpandingCalls
      [] op = "windows"   -> WindowCalls
      [] op = "gate"      -> GateCalls
=============================================================================
