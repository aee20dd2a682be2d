---------------------------- MODULE MCCertificates ----------------------------
(***************************************************************************)
(* Small forests, rows and boxes for CertificateQueries, and what the       *)
(* certificates must say of them.  MCAlgorithms makes a specification of    *)
(* the calls.  Thresholds are multiples of 8, rows and points of 4.         *)
(***************************************************************************)
EXTENDS CertificateQueries, ForestCalls

MCNegInf == -1000

Node == [kind |-> "leaf", feat |-> 0, thr |-> 0, left |-> 0, right |-> 0, val |-> 0,
         cols |-> <<>>, levels |-> {}, linear |-> <<>>]
Leaf(v) == [Node EXCEPT !.val = v]
Slope(v, j, c) == [Leaf(v) EXCEPT !.linear = <<[feat |-> j, coef |-> c, lo |-> -4, hi |-> 12]>>]
Branch(j, t, l, r) == [Node EXCEPT !.kind = "num", !.feat = j, !.thr = t, !.left = l, !.right = r]
Member(cols, s, l, r) ==
    [Node EXCEPT !.kind = "cat", !.cols = cols, !.levels = s, !.left = l, !.right = r]

Constant(v) == <<Leaf(v)>>
Stump(j, t, a, b) == <<Branch(j, t, 2, 3), Leaf(a), Leaf(b)>>
Stairs(i, t, a, j, u, b, c) == <<Branch(i, t, 2, 3), Leaf(a), Branch(j, u, 4, 5), Leaf(b), Leaf(c)>>
Quarters(i, j, a, b, c, d) ==
    <<Branch(i, 0, 2, 5), Branch(j, 0, 3, 4), Leaf(a), Leaf(b), Branch(j, 0, 6, 7), Leaf(c), Leaf(d)>>
Negated(tree) == [n \in DOMAIN tree |-> [tree[n] EXCEPT !.val = -@]]
Of(k, tree) == [cls |-> k, tree |-> tree]

Trees == {Constant(2), Stump(1, 0, -2, 2), Stump(1, 8, 3, -4), Stump(2, 0, 1, -1),
          Stairs(1, 0, -3, 2, 8, 1, 4), Stairs(2, 8, 2, 2, 0, -4, 0)}
PairTrees(i, j) == {Quarters(i, j, 3, -1, -2, 1), Quarters(i, j, -2, 0, 2, 0)}

Binary(forest)  == [base |-> <<0, 1>>, forest |-> forest]
Ternary(forest) == [base |-> <<0, 1, 0>>, forest |-> forest]
Alone(forest)   == [base |-> <<3>>, forest |-> forest]

\* Forests for the early exit: rounds of one tree per class, mirrored pairs, shared
\* structures, and stages in no order.
Rounds2 == {Binary(<<Of(1, t), Of(2, u), Of(1, v), Of(2, w)>>) : t, u \in Trees,
            v \in {Stump(1, 0, -2, 2), Stump(2, 0, 1, -1)}, w \in {Constant(2), Stump(1, 8, 3, -4)}}
Mirrored2 == {Binary(<<Of(1, t), Of(2, Negated(t)), Of(1, u), Of(2, Negated(u)),
                       Of(1, v), Of(2, Negated(v))>>) : t, u, v \in Trees}
Shared3 == {Ternary(<<Of(1, Stump(i, 0, a, -1)), Of(2, Stump(i, 0, -2, 2)), Of(3, Stump(i, 0, 0, b)),
                      Of(1, Stump(j, 8, b, 0)), Of(2, Stump(j, 8, 1, a)), Of(3, Stump(j, 8, -1, 1))>>) :
            i, j \in {1, 2}, a, b \in {-3, 1, 4}}
Irregular2 == {Binary(<<Of(1, t), Of(1, u), Of(2, v)>>) : t, u, v \in Trees}

\* Forests for the certificates: two and three features, linear leaves, a category.
Models2 == {Binary(<<Of(1, t), Of(2, u)>>) : t, u \in Trees}
Models3 == {Binary(<<Of(1, t), Of(2, u), Of(1, v)>>) : t \in PairTrees(1, 2), u \in PairTrees(2, 3),
                                                      v \in PairTrees(1, 3) \cup {Constant(0)}}
Sloped == {Binary(<<Of(1, <<Branch(1, 0, 2, 3), Slope(0, 1, c), Leaf(3)>>), Of(2, t)>>) :
              c \in {-1, 1}, t \in {Stump(1, 8, 3, -4), Stump(2, 0, 1, -1)}}
Mixed == {Binary(<<Of(1, <<Member(<<1, 2>>, s, 2, 3), Leaf(a), Leaf(2)>>), Of(2, t)>>) :
              s \in {{0}, {1}, {0, 1}}, a \in {-2, 3, 6}, t \in {Stump(3, 0, 4, -1), Constant(3)}}
Regressions == {Alone(<<Of(1, t), Of(1, u)>>) : t, u \in Trees}
SlopedAlone == {Alone([i \in {1, 2} |-> [m.forest[i] EXCEPT !.cls = 1]]) : m \in Sloped}

Even(lo, hi) == {v \in lo .. hi : v % 2 = 0}
\* A box between multiples of 4 has one of these in every cell that it meets.
Quads == {4 * i : i \in -5 .. 7}
Rows2 == [1 .. 2 -> {-4, 0, 4, 8, 12}]
Rows3 == [1 .. 3 -> {0, 4}]
MixedRows == {<<a[1], a[2], v>> : a \in {<<0, 0>>, <<One, 0>>, <<0, One>>}, v \in {-4, 0, 4}}
MixedGroups == <<[kind |-> "onehot", cols |-> <<1, 2>>], [kind |-> "num", cols |-> <<3>>]>>
NumGroups(n) == [j \in 1 .. n |-> [kind |-> "num", cols |-> <<j>>]]

Literals == {Num(1, op, t) : op \in {">", "<="}, t \in {0, 8}}
            \cup {Cat(<<2, 3>>, op, s) : op \in {"in", "not in"}, s \in {{0}, {1}, {0, 1}}}
Spans == {Span(a, b) : a \in {NegInf, 0, 4, 8}, b \in {0, 4, 8, PosInf}}

LiteralRows == {<<v, a[1], a[2]>> : v \in {-4, 0, 4, 8, 12}, a \in {<<0, 0>>, <<One, 0>>, <<0, One>>}}
MCRegionCalls ==
    {[op |-> "region", path |-> p, rows |-> LiteralRows] : p \in UNION {[1 .. n -> Literals] : n \in 1 .. 3}}
    \cup {[op |-> "spans", spans |-> {s, t, u}, s |-> s, t |-> t, points |-> {-8, -4, 0, 2, 4, 8, 12}] :
             s, t \in Spans, u \in {Span(-4, 0), Span(4, 8)}}
    \cup {[op |-> "fires", m |-> m, rows |-> Rows2] : m \in Models2 \cup Sloped}
    \cup {[op |-> "fires", m |-> m, rows |-> Rows3] : m \in Models3}
    \cup {[op |-> "fires", m |-> m, rows |-> MixedRows] : m \in Mixed}
Audit == <<<<-4, 4>>, <<4, 0>>, <<12, 12>>>>
MCExitCalls ==
    {[op |-> "exit", m |-> m, audit |-> Audit, rows |-> Rows2] : m \in Rounds2 \cup Mirrored2 \cup Shared3 \cup Irregular2}
StableCalls ==
    {[op |-> "stable", m |-> m, x |-> x, delta |-> d] : m \in Models2 \cup Sloped, x \in Rows2, d \in {4, 8}}
    \cup {[op |-> "stable", m |-> m, x |-> x, delta |-> d] : m \in Models3, x \in Rows3, d \in {4, 8}}
    \cup {[op |-> "stable", m |-> m, x |-> x, delta |-> 4] : m \in Mixed, x \in MixedRows}
BandCalls ==
    {[op |-> "band", m |-> m, x |-> x, delta |-> d] :
        m \in Regressions \cup SlopedAlone, x \in Rows2, d \in {4, 8}}
ReasonCalls ==
    {[op |-> "reason", m |-> m, x |-> x, groups |-> <<>>, eps |-> 0] : m \in Models2, x \in Rows2}
    \cup {[op |-> "reason", m |-> m, x |-> x, groups |-> g, eps |-> 0] :
             m \in {m \in Models3 : m.forest[1].tree[3].val = 3}, x \in {x \in Rows3 : x[2] = 0},
             g \in {<<>>, <<{1, 3}>>}}
    \cup {[op |-> "reason", m |-> m, x |-> x, groups |-> <<>>, eps |-> 2] :
             m \in Regressions, x \in Rows2}
RecourseCalls ==
    {[op |-> "recourse", m |-> m, x |-> x, groups |-> NumGroups(2), target |-> t] :
        m \in Models2, x \in Rows2, t \in {0, 1}}
    \cup {[op |-> "recourse", m |-> m, x |-> x, groups |-> NumGroups(2), target |-> 2] :
        m \in Regressions, x \in Rows2}
    \cup {[op |-> "recourse", m |-> m, x |-> x, groups |-> MixedGroups, target |-> 0] :
        m \in Mixed, x \in MixedRows}

CertificateCalls ==
    {"stable", "band", "reason", "recourse"}
Certifies(c) == c.op \in CertificateCalls
CertificateInit ==
    call \in StableCalls \/ call \in BandCalls \/ call \in ReasonCalls \/ call \in RecourseCalls

CertificateAnswer(c) ==
    CASE c.op = "stable"   -> [margin |-> Margin(c.m, c.x, c.delta),
                               radius |-> RobustRadius(c.m, c.x, 2, 16, 2)]
      [] c.op = "band"     -> [band |-> PredictInterval(c.m, c.x, c.delta),
                               box |-> StabilityBox(c.m, c.x)]
      [] c.op = "reason"   -> SufficientReason(c.m, c.x, c.groups, c.eps)
      [] c.op = "recourse" -> Recourse(c.m, c.x, c.groups, c.target, 3)

CertificateNext ==
    /\ answer = Pending
    /\ answer' = [is |-> CertificateAnswer(call)]
    /\ UNCHANGED call
CertificateSpec == CertificateInit /\ answer = Pending /\ [][CertificateNext]_<<call, answer>>

-----------------------------------------------------------------------------
(* Properties *)

\* The points of a box {lo < z <= hi}; of a category, the levels of the column.
Points(m, x, lo, hi) ==
    LET values(j) == IF \E n \in Nodes(m) : n.kind = "cat" /\ j \in Range(n.cols) THEN {0, One}
                     ELSE {v \in Quads : lo[j] < v /\ v <= hi[j]}
    IN  {z \in [DOMAIN x -> UNION {values(j) : j \in DOMAIN x}] : \A j \in DOMAIN x : z[j] \in values(j)}
Box(m, x, delta) == Points(m, x, Around(x, delta, -1), Around(x, delta, 1))
Gap(m, k, z) == LET s == Scores(m, z) IN s[k] - Max({s[c] : c \in DOMAIN s \ {k}})
ExactMargin(m, x, delta) ==
    \A c \in DOMAIN m.base \ {Predicted(m, x)} :
        GraphMargin(m, Around(x, delta, -1), Around(x, delta, 1), Predicted(m, x), c) # Fallback

\* Certificates hold at every point of the box they are about: no gap to another class is
\* below the certified margin, the smallest is exactly it when the contraction fits its
\* cap, and no point within the certified radius changes the class; a regression stays in
\* its band, reaches both ends when the grid fits, and is constant on its stability box
\* (_margin_lower_bound, _interval, stability_box).
CertificatesHold ==
    /\ Answered("stable") =>
          LET m == call.m  x == call.x  k == Predicted(m, x)
              gaps == {Gap(m, k, z) : z \in Box(m, x, call.delta)}
          IN  /\ Min(gaps) >= answer.is.margin
              /\ ExactMargin(m, x, call.delta) => Min(gaps) = answer.is.margin
              /\ answer.is.radius > 0 => \A z \in Box(m, x, answer.is.radius) : Predicted(m, z) = k
    /\ Answered("band") =>
          LET values == {Scores(call.m, z)[1] : z \in Box(call.m, call.x, call.delta)}
              band == answer.is.band
              stable == BandOf(call.m, answer.is.box, Len(call.x))
          IN  /\ band[1] <= Min(values) /\ Max(values) <= band[2]
              /\ ~Affine(call.m.forest) /\ band # IndependentBounds(call.m,
                        Around(call.x, call.delta, -1), Around(call.x, call.delta, 1))[1]
                    => band = <<Min(values), Max(values)>>
              /\ ~Affine(call.m.forest) => stable[1] = stable[2]

\* "ALWAYS CERTIFIED for a non-tied prediction": the reason holds of its row, forces its
\* class (or its band) whatever the free features are, and needs each group it keeps
\* (sufficient_reason).
ReasonsAreSufficient ==
    Answered("reason") =>
        LET m == call.m  x == call.x  box == answer.is.box  k == Predicted(m, x)
            lo == [j \in DOMAIN x |-> IF j \in DOMAIN box THEN box[j][1] ELSE NegInf]
            hi == [j \in DOMAIN x |-> IF j \in DOMAIN box THEN box[j][2] ELSE PosInf]
            inside == {z \in [DOMAIN x -> {-4, 0, 4, 8, 12}] : \A j \in DOMAIN x : lo[j] < z[j] /\ z[j] <= hi[j]}
            untied == Len(m.base) = 1 \/ Gap(m, k, x) > 0
            gs == GroupUniverse(call.groups, SplitFeatures(m))
        IN  /\ answer.is.certified = untied
            /\ x \in inside /\ (box # <<>> => answer.is.proof)
            /\ untied /\ Len(m.base) > 1 => \A z \in inside : Predicted(m, z) = k
            /\ Len(m.base) = 1 => \A y, z \in inside : Scores(m, y)[1] - Scores(m, z)[1] <= 2 * call.eps
            /\ untied => \A i \in DOMAIN gs :
                  gs[i] \cap DOMAIN box # {} =>
                      ~Certified(m, Quality(m, x, Restrict(box, DOMAIN box \ gs[i]), call.eps))

\* Recourse is the least change: every option reaches the goal, and for every move of one
\* column, or switch of one level, that reaches it there is an option on that column that
\* costs no more; no option means that no single change will do (_recourse_search).
RecourseIsLeast ==
    Answered("recourse") /\ ~answer.is.satisfied =>
        LET options == answer.is.options
            goal(z) == Reaches(call.m, call.x, call.target, z)
            changed(z) == {j \in DOMAIN z : z[j] # call.x[j]}
        IN  /\ \A i \in DOMAIN options : goal(options[i].to)
            /\ \A i, j \in DOMAIN options : i < j => options[i].cost <= options[j].cost
            /\ \A g \in Range(call.groups) :
                  LET ways == IF g.kind = "num"
                              THEN {[call.x EXCEPT ![g.cols[1]] = v] : v \in Even(-12, 20)}
                              ELSE {Switched(call.x, g.cols, c) : c \in Range(g.cols)}
                  IN  \A z \in {z \in ways : goal(z)} : \E i \in DOMAIN options :
                          /\ changed(options[i].to) \subseteq Range(g.cols)
                          /\ g.kind = "num" => options[i].cost <= Apart(z[g.cols[1]], call.x[g.cols[1]])
=============================================================================
