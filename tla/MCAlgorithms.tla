---------------------------- MODULE MCAlgorithms ----------------------------
(***************************************************************************)
(* The pure algorithms behind the gates, called on small inputs: the calls *)
(* of GateDecisions, MCFutureValidation and MCCertificates.                *)
(***************************************************************************)
EXTENDS GateDecisions, MCFutureValidation, MCCertificates

vars == <<call, answer>>

Gains == {-2, 0, 2, 6}
Zero  == <<0, 0>>
Folds2 == {<<a, b>> : a, b \in Gains}

\* Interaction gates: two folds, scores relative to the baseline.
RareCalls ==
    {[op |-> "rare", e |-> [baseline |-> Zero, rank |-> k, rules |-> r, capable |-> c,
                            full |-> f, failed |-> x]] :
        k \in Folds2, r \in Folds2, c \in BOOLEAN, f \in BOOLEAN, x \in BOOLEAN}
MultiCalls ==
    {[op |-> "multiclass", e |-> [baseline |-> Zero, rank |-> k, head |-> h, rules |-> r,
                                  full |-> TRUE, failed |-> x]] :
        k \in Folds2, h \in Folds2, r \in Folds2, x \in {"none", "head", "rules"}}
    \cup {[op |-> "multiclass", e |-> [baseline |-> Zero, rank |-> k, head |-> Zero,
                                       rules |-> Zero, full |-> FALSE, failed |-> "none"]] :
        k \in Folds2}

Programs == {{}, {"plain"}, {"recursive"}, {"plain", "recursive"}, {"plain", "exception"},
             {"plain", "recursive", "exception"}}
Layered(f, plain, recursive, exception) ==
    [families |-> f, base |-> 0, plain |-> plain, recursive |-> recursive, exception |-> exception]
BinaryCalls ==
    {[op |-> "binary", e |-> [folds |-> <<Layered(f, a, b, c), Layered(h, a, b + d, c - d)>>,
                              full |-> full]] :
        f \in Programs, h \in Programs, full \in Programs \ {{}},
        a \in {0, 3}, b \in {0, 3, 6}, c \in {3, 6, 9}, d \in {0, 1}}

Clauses == {{}, {"plain", "threshold"}, {"plain", "recursive", "threshold"},
            {"threshold", "plain", "recursive", "exception"}}
Claused(f, t, plain, recursive, exception, clauses, over) ==
    [families |-> f, base |-> 0, plain |-> plain, recursive |-> recursive,
     exception |-> exception, threshold |-> t, clauses |-> clauses,
     recursiveClauses |-> clauses + over, exceptionClauses |-> clauses + over + over]
ThresholdCalls ==
    {[op |-> "threshold",
      e |-> [folds |-> <<Claused(f, t, a, b, c, k, over), Claused(f, u, a, b + 1, c + 1, k, over)>>,
             full |-> full, fullThreshold |-> last]] :
        f \in Programs \ {{}}, full \in Programs \ {{}}, t \in Clauses, u \in Clauses,
        last \in Clauses, a \in {0, 3}, b \in {3, 6}, c \in {6, 9}, k \in {3, 6}, over \in {0, 4}}

\* Operating points: every small table, dated by position or with a tie, or undated.
Evidence(n) ==
    {[p |-> p, y |-> y, g |-> g] : p \in [1 .. n -> {0, 4, 6}], y \in [1 .. n -> BOOLEAN],
                                   g \in {[r \in 1 .. n |-> r], [r \in 1 .. n |-> (r + 1) \div 2], <<>>}}
MCPointSplits == [folds |-> 2, warmNum |-> 2, warmDen |-> 5, minTrain |-> 2, minValid |-> 1,
                  coverage |-> TRUE]
DatedSix == {[p |-> p, y |-> y, g |-> [r \in 1 .. 6 |-> r]] :
                p \in [1 .. 6 -> {0, 4}], y \in [1 .. 6 -> BOOLEAN]}
PointCalls == {[op |-> "point", e |-> e] : e \in Evidence(5) \cup DatedSix}

\* The router: two contexts, two folds of three rows; gains up to the order of the rows.
RouterCalls ==
    {[op |-> "route", e |-> [cell |-> c, gain |-> w],
      splits |-> <<[train |-> {1, 2, 3}, valid |-> v], [train |-> {4, 5, 6}, valid |-> {1, 2, 3}]>>,
      evidence |-> s] :
        c \in [1 .. 6 -> {1, 2}], w \in [1 .. 6 -> {-1, 1}],
        v \in {{4, 5, 6}, {4, 5}}, s \in {1 .. 6, {1, 2, 4, 5}}}

QuantileCalls ==
    {[op |-> "quantile", scores |-> s, fresh |-> 2, num |-> a[1], den |-> a[2]] :
        s \in UNION {{t \in [1 .. n -> 1 .. 3] : TRUE} : n \in 1 .. 5},
        a \in {<<1, 10>>, <<1, 4>>, <<1, 2>>}}
BlockCalls ==
    {[op |-> "blocks", y |-> y, max |-> m, min |-> k] :
        y \in UNION {[1 .. n -> {"a", "b", "c"}] : n \in 2 .. 6}, m \in {2, 4}, k \in {1, 2}}

VerifierCalls ==
    {[op |-> "verifier", counts |-> c, percent |-> p, events |-> e, independent |-> i] :
        c \in [1 .. 2 -> 1 .. 12] \cup [1 .. 3 -> {1, 2, 3, 5, 8}], p \in {15, 30, 50}, e \in {0, 1, 2, 4},
        i \in BOOLEAN}

\* The F1 of a table with the prior's class masses and one more false positive.
MCConservative(tp, fp, P, N, prior) ==
    IF P = 0 \/ N = 0 \/ prior = <<0, 0>> THEN 0
    ELSE LET hit == tp * prior[1] * N  alarm == (fp + 1) * prior[2] * P
         IN  (1000 * 2 * hit) \div (hit + alarm + prior[1] * P * N)

MCDecisionCalls(op) ==
    CASE op = "rare"       -> RareCalls
      [] op = "multiclass" -> MultiCalls
      [] op = "binary"     -> BinaryCalls
      [] op = "threshold"  -> ThresholdCalls
      [] op = "point"      -> PointCalls
      [] op = "route"      -> RouterCalls
      [] op = "quantile"   -> QuantileCalls
      [] op = "blocks"     -> BlockCalls
      [] op = "verifier"   -> VerifierCalls

\* The calls of the binary gate alone.
MCBinaryCalls(op) == IF op = "binary" THEN BinaryCalls ELSE {}

Init ==
    \/ DecisionInit
    \/ HeldOutInit
    \/ ExitInit
    \/ RegionInit
    \/ CertificateInit /\ answer = Pending

Certify == Certifies(call) /\ CertificateNext

Next == Decide \/ Validate \/ Serve \/ Locate \/ Certify
Spec == Init /\ [][Next]_vars
=============================================================================
