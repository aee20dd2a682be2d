----------------------------- MODULE RegionAlgebra -----------------------------
(***************************************************************************)
(* The algebra of proof regions (region_algebra.py): numeric intervals      *)
(* (lower, upper], canonical unions of them, finite category domains with   *)
(* the unseen level, and the canonical form of a conjunction of literals.   *)
(***************************************************************************)
EXTENDS Integers, FiniteSets, Sequences, SequencesExt

CONSTANTS NegInf, PosInf     \* the infinities: every threshold lies strictly between them

ASSUME InfinitiesAssumption == /\ NegInf \in Int /\ PosInf \in Int
                               /\ NegInf < PosInf

Unseen == -1
Larger(a, b) == IF a >= b THEN a ELSE b
Lesser(a, b) == IF a <= b THEN a ELSE b

-----------------------------------------------------------------------------
(* Intervals *)

Interval == [lower : Int, upper : Int]
Span(a, b) == [lower |-> a, upper |-> b]
Everything == Span(NegInf, PosInf)
OfLiteral(op, threshold) == IF op = ">" THEN Span(threshold, PosInf) ELSE Span(NegInf, threshold)

Empty(s) == s.lower >= s.upper
Inside(v, s) == s.lower < v /\ v <= s.upper

Intersect(s, t) == Span(Larger(s.lower, t.lower), Lesser(s.upper, t.upper))
Disjoint(s, t) == Empty(Intersect(s, t))
SubsetOf(s, t) ==
    \/ Empty(s)
    \/ ~Empty(t) /\ s.lower >= t.lower /\ s.upper <= t.upper

\* The pieces of s outside t.
Difference(s, t) ==
    IF Empty(s) THEN {}
    ELSE IF Disjoint(s, t) THEN {s}
    ELSE IF SubsetOf(s, t) THEN {}
    ELSE {p \in {Span(s.lower, Lesser(s.upper, t.lower)), Span(Larger(s.lower, t.upper), s.upper)} :
             ~Empty(p)}

-----------------------------------------------------------------------------
(* Unions: sorted, disjoint, not touching *)

SortsFirst(s, t) == s.lower < t.lower \/ (s.lower = t.lower /\ s.upper <= t.upper)

Merge(merged, s) ==
    IF merged = <<>> \/ s.lower > Last(merged).upper
    THEN Append(merged, s)
    ELSE Append(Front(merged), Span(Last(merged).lower, Larger(Last(merged).upper, s.upper)))

\* Intervals in the order of their ends.
SortedSpans(spans) ==
    [k \in 1 .. Cardinality(spans) |->
        CHOOSE s \in spans : Cardinality({t \in spans : SortsFirst(t, s)}) = k]

\* The branches of a set of intervals, absorbed and merged.
CanonicalUnion(intervals) ==
    LET ordered == SortedSpans({s \in intervals : ~Empty(s)})
        merged[i \in 0 .. Len(ordered)] ==
            IF i = 0 THEN <<>> ELSE Merge(merged[i - 1], ordered[i])
    IN  merged[Len(ordered)]

ValidUnion(branches) ==
    /\ \A i \in DOMAIN branches : ~Empty(branches[i])
    /\ \A i \in 1 .. Len(branches) - 1 : branches[i].upper < branches[i + 1].lower

-----------------------------------------------------------------------------
(* Categories: offsets in a one-hot block, or Unseen for a block of zeros *)

Universe(width) == {Unseen} \cup (0 .. width - 1)
LevelsOf(width, op, levels) ==
    IF op = "in" THEN levels \cap Universe(width) ELSE Universe(width) \ levels

-----------------------------------------------------------------------------
(* Conjunctions of literals [kind, cols, op, thr, levels] *)

Num(j, op, thr) == [kind |-> "num", cols |-> <<j>>, op |-> op, thr |-> thr, levels |-> {}]
Cat(cols, op, levels) == [kind |-> "cat", cols |-> cols, op |-> op, thr |-> 0, levels |-> levels]

\* Mutant: a block that admits the unseen level is written without it
LevelLiteralsSeen(cols, allowed) ==
    IF allowed = Universe(Len(cols)) THEN <<>>
    ELSE <<Cat(cols, "in", allowed \ {Unseen})>>

\* A level set as at most one literal; "not in" keeps the unseen level admitted.
LevelLiterals(cols, allowed) ==
    IF allowed = Universe(Len(cols)) THEN <<>>
    ELSE IF Unseen \in allowed THEN <<Cat(cols, "not in", Universe(Len(cols)) \ allowed)>>
    ELSE <<Cat(cols, "in", allowed)>>

BoundLiterals(j, s) ==
    (IF s.lower # NegInf THEN <<Num(j, ">", s.lower)>> ELSE <<>>)
        \o (IF s.upper # PosInf THEN <<Num(j, "<=", s.upper)>> ELSE <<>>)

\* The literal of a conjunction that no row satisfies.
Never == [kind |-> "never", cols |-> <<>>, op |-> "==", thr |-> 0, levels |-> {}]

Key(p) == [kind |-> p.kind, cols |-> p.cols]
\* Keys are taken up where they first occur.
IsFirst(predicates, i) == \A j \in 1 .. i - 1 : Key(predicates[j]) # Key(predicates[i])

\* The domain of a key: the intersection of the intervals, or of the level sets.
Bound(predicates, k) ==
    LET bound[i \in 0 .. Len(predicates)] ==
            IF i = 0 THEN Everything
            ELSE IF Key(predicates[i]) = k
                 THEN Intersect(bound[i - 1], OfLiteral(predicates[i].op, predicates[i].thr))
            ELSE bound[i - 1]
    IN  bound[Len(predicates)]
Allowed(predicates, k) ==
    {v \in Universe(Len(k.cols)) :
        \A i \in DOMAIN predicates :
            Key(predicates[i]) = k => v \in LevelsOf(Len(k.cols), predicates[i].op, predicates[i].levels)}

Impossible(predicates, k) ==
    IF k.kind = "cat" THEN Allowed(predicates, k) = {} ELSE Empty(Bound(predicates, k))
DomainLiterals(predicates, k) ==
    IF k.kind = "cat" THEN LevelLiterals(k.cols, Allowed(predicates, k))
    ELSE BoundLiterals(k.cols[1], Bound(predicates, k))

\* The conjunction with one domain per key, or Never if a domain is empty.
Canonicalize(predicates) ==
    IF \E i \in DOMAIN predicates : Impossible(predicates, Key(predicates[i])) THEN <<Never>>
    ELSE FlattenSeq([i \in DOMAIN predicates |->
                        IF IsFirst(predicates, i) THEN DomainLiterals(predicates, Key(predicates[i]))
                        ELSE <<>>])
=============================================================================
