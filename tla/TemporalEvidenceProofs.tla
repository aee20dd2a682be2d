----------------------- MODULE TemporalEvidenceProofs -----------------------
(***************************************************************************)
(* Theorems about the fit of an event table, for any tables, measurements, *)
(* settings and declared schemas: every candidate is judged against the    *)
(* raw table it would be compared with alone, the search over the proposed *)
(* schemas is accounted for in its reports, and what is deployed is the    *)
(* schema and the representation that the gate judged.                     *)
(***************************************************************************)
EXTENDS TemporalEvidence, FiniteSetTheorems, SequenceTheorems, TLAPS

-----------------------------------------------------------------------------
(* Orders of finite sets, and the extremes of small ones.                  *)

\* A strict total order numbers the members of a finite set: for every place there is one
\* member with that many before it.
LEMMA PlacesAreTaken ==
    ASSUME NEW S, IsFiniteSet(S), NEW R,
           \A a \in S : <<a, a>> \notin R,
           \A a, b, c \in S : <<a, b>> \in R /\ <<b, c>> \in R => <<a, c>> \in R,
           \A a, b \in S : a = b \/ <<a, b>> \in R \/ <<b, a>> \in R
    PROVE  /\ Cardinality(S) \in Nat
           /\ \A k \in 1 .. Cardinality(S) :
                 \E a \in S : Cardinality({b \in S : <<b, a>> \in R}) = k - 1
<1> DEFINE n == Cardinality(S)
           below(a) == {b \in S : <<b, a>> \in R}
           place == [a \in S |-> Cardinality(below(a)) + 1]
<1>1. n \in Nat
  BY FS_CardinalityType
<1>2. ASSUME NEW a \in S
      PROVE  IsFiniteSet(below(a)) /\ Cardinality(below(a)) \in Nat
  <2>1. below(a) \in SUBSET S
    OBVIOUS
  <2> QED
    BY <2>1, FS_Subset, FS_CardinalityType
<1>3. ASSUME NEW a \in S
      PROVE  Cardinality(below(a)) + 1 <= n
  <2>1. below(a) \in SUBSET (S \ {a})
    OBVIOUS
  <2>2. IsFiniteSet(S \ {a}) /\ Cardinality(S \ {a}) = n - 1
    BY FS_RemoveElement
  <2> HIDE DEF below
  <2>3. Cardinality(below(a)) <= n - 1
    BY <2>1, <2>2, FS_Subset
  <2>4. Cardinality(below(a)) \in Nat
    BY <1>2
  <2> QED
    BY <1>1, <2>3, <2>4
<1>4. ASSUME NEW a \in S, NEW b \in S, <<a, b>> \in R
      PROVE  Cardinality(below(a)) < Cardinality(below(b))
  <2>1. (below(a) \cup {a}) \in SUBSET below(b)
    BY <1>4
  <2>2. a \notin below(a)
    OBVIOUS
  <2> HIDE DEF below
  <2>3. Cardinality(below(a) \cup {a}) = Cardinality(below(a)) + 1
    BY <1>2, <2>2, FS_AddElement
  <2>4. Cardinality(below(a) \cup {a}) <= Cardinality(below(b))
    BY <1>2, <2>1, FS_Subset
  <2> QED
    BY <1>2, <2>3, <2>4
<1>5. place \in [S -> 1 .. n]
  <2> HIDE DEF below, n
  <2> QED
    BY <1>1, <1>2, <1>3
<1>6. \A a, b \in S : <<a, b>> \in R => place[a] < place[b]
  <2> HIDE DEF below
  <2> QED
    BY <1>2, <1>4
<1>7. \A a \in S : place[a] = Cardinality(below(a)) + 1
  <2> HIDE DEF below
  <2> QED
    OBVIOUS
<1> HIDE DEF place
<1>8. \A a, b \in S : place[a] = place[b] => a = b
  <2> SUFFICES ASSUME NEW a \in S, NEW b \in S, place[a] = place[b], a # b
               PROVE  FALSE
    OBVIOUS
  <2>1. place[a] < place[b] \/ place[b] < place[a]
    BY <1>6
  <2>2. place[a] \in Int /\ place[b] \in Int
    BY <1>1, <1>5
  <2> QED
    BY <2>1, <2>2
<1>9. place \in Surjection(S, 1 .. n)
  <2>1. place \in Injection(S, 1 .. n)
    BY <1>5, <1>8 DEF Injection, IsInjective
  <2>2. IsFiniteSet(1 .. n) /\ Cardinality(1 .. n) = n
    BY <1>1, FS_Interval
  <2> QED
    BY <2>1, <2>2, FS_Injection
<1>10. \A k \in 1 .. n : \E a \in S : place[a] = k
  BY <1>9 DEF Surjection
<1>11. ASSUME NEW k \in 1 .. n
       PROVE  \E a \in S : Cardinality(below(a)) = k - 1
  <2>1. PICK a \in S : place[a] = k
    BY <1>10
  <2> HIDE DEF below
  <2>2. Cardinality(below(a)) = k - 1
    BY <2>1, <1>1, <1>2, <1>7
  <2> QED
    BY <2>2
<1> QED
  BY <1>1, <1>11

\* Such a set, when not empty, has a first member.
LEMMA FirstOfFinite ==
    ASSUME NEW S, IsFiniteSet(S), S # {}, NEW R,
           \A a \in S : <<a, a>> \notin R,
           \A a, b, c \in S : <<a, b>> \in R /\ <<b, c>> \in R => <<a, c>> \in R,
           \A a, b \in S : a = b \/ <<a, b>> \in R \/ <<b, a>> \in R
    PROVE  \E a \in S : \A b \in S \ {a} : <<a, b>> \in R
<1> DEFINE n == Cardinality(S)
<1>1. n \in Nat /\ n # 0
  BY FS_CardinalityType, FS_EmptySet
<1>2. 1 \in 1 .. n
  <2> HIDE DEF n
  <2> QED
    BY <1>1
<1>3. \A k \in 1 .. n : \E a \in S : Cardinality({b \in S : <<b, a>> \in R}) = k - 1
  BY PlacesAreTaken
<1>4. PICK a \in S : Cardinality({b \in S : <<b, a>> \in R}) = 1 - 1
  BY <1>2, <1>3
<1>5. {b \in S : <<b, a>> \in R} = {}
  <2> DEFINE below == {b \in S : <<b, a>> \in R}
  <2>1. below \in SUBSET S
    OBVIOUS
  <2> HIDE DEF below
  <2>2. IsFiniteSet(below)
    BY <2>1, FS_Subset
  <2>3. Cardinality(below) = 0
    BY <1>4 DEF below
  <2>4. below = {}
    BY <2>2, <2>3, FS_EmptySet
  <2> QED
    BY <2>4 DEF below
<1> QED
  BY <1>5

\* The smaller of two numbers.
LEMMA MinOfTwo ==
    ASSUME NEW a \in Int, NEW b \in Int
    PROVE  Min({a, b}) = IF a <= b THEN a ELSE b
<1>1. \E x \in {a, b} : \A y \in {a, b} : x <= y
  OBVIOUS
<1>2. Min({a, b}) \in {a, b} /\ \A y \in {a, b} : Min({a, b}) <= y
  BY <1>1 DEF Min
<1> QED
  BY <1>2

\* The larger of two numbers is a number.
LEMMA MaxOfTwo ==
    ASSUME NEW a \in Int, NEW b \in Int
    PROVE  Max({a, b}) \in Int
<1>1. \E x \in {a, b} : \A y \in {a, b} : x >= y
  OBVIOUS
<1>2. Max({a, b}) \in {a, b}
  BY <1>1 DEF Max
<1> QED
  BY <1>2

\* A concatenation is its first part followed by its second.
LEMMA Joined ==
    ASSUME NEW S, NEW a \in Seq(S), NEW b \in Seq(S)
    PROVE  /\ a \o b \in Seq(S)
           /\ Len(a \o b) = Len(a) + Len(b) /\ DOMAIN (a \o b) = 1 .. Len(a) + Len(b)
           /\ \A i \in 1 .. Len(a) : (a \o b)[i] = a[i]
           /\ \A i \in 1 .. Len(b) : (a \o b)[Len(a) + i] = b[i]
           /\ \A k \in 1 .. Len(a) + Len(b) :
                 k \in 1 .. Len(a) \/ (k - Len(a) \in 1 .. Len(b) /\ Len(a) + (k - Len(a)) = k)
<1> DEFINE ab == a \o b  m == Len(a)  n == Len(b)
<1>1. /\ ab \in Seq(S) /\ Len(ab) = m + n
      /\ \A i \in 1 .. m + n : ab[i] = IF i <= m THEN a[i] ELSE b[i - m]
  BY ConcatProperties
<1>2. m \in Nat /\ n \in Nat
  OBVIOUS
<1> HIDE DEF ab, m, n
<1>3. DOMAIN ab = 1 .. m + n
  BY <1>1
<1>4. \A i \in 1 .. m : ab[i] = a[i]
  BY <1>1, <1>2
<1>5. ASSUME NEW i \in 1 .. n
      PROVE  ab[m + i] = b[i]
  <2>1. m + i \in 1 .. m + n /\ ~(m + i <= m) /\ (m + i) - m = i
    BY <1>2
  <2> QED
    BY <1>1, <2>1
<1>6. \A k \in 1 .. m + n : k \in 1 .. m \/ (k - m \in 1 .. n /\ m + (k - m) = k)
  BY <1>2
<1> QED
  BY <1>1, <1>3, <1>4, <1>5, <1>6 DEF ab, m, n

\* Two members put before a sequence.
LEMMA TwoThenRest ==
    ASSUME NEW S, NEW a \in S, NEW b \in S, NEW r \in Seq(S)
    PROVE  LET s == <<a, b>> \o r
           IN  /\ s \in Seq(S) /\ Len(s) = 2 + Len(r)
               /\ s[1] = a /\ s[2] = b
               /\ \A i \in 1 .. Len(r) : s[2 + i] = r[i]
<1> DEFINE t == <<a, b>>
<1>1. t \in Seq(S) /\ Len(t) = 2 /\ t[1] = a /\ t[2] = b
  OBVIOUS
<1> HIDE DEF t
<1> DEFINE s == t \o r
<1>2. /\ s \in Seq(S) /\ Len(s) = Len(t) + Len(r)
      /\ \A i \in 1 .. Len(t) : s[i] = t[i]
      /\ \A i \in 1 .. Len(r) : s[Len(t) + i] = r[i]
  BY <1>1, Joined
<1> HIDE DEF s
<1>3. 1 \in 1 .. Len(t) /\ 2 \in 1 .. Len(t)
  BY <1>1
<1>4. s \in Seq(S) /\ Len(s) = 2 + Len(r) /\ s[1] = a /\ s[2] = b
  BY <1>1, <1>2, <1>3
<1>5. \A i \in 1 .. Len(r) : s[2 + i] = r[i]
  BY <1>1, <1>2
<1>6. s = <<a, b>> \o r
  BY DEF s, t
<1> QED
  BY <1>4, <1>5, <1>6

-----------------------------------------------------------------------------
(* Discovery: what the proposals are, whatever the table.                  *)

\* The first members of a finite set, in a strict total order, are members of it.
LEMMA ForemostAreMembers ==
    ASSUME NEW S, IsFiniteSet(S), NEW n \in Nat, NEW R,
           \A a \in S : <<a, a>> \notin R,
           \A a, b, c \in S : <<a, b>> \in R /\ <<b, c>> \in R => <<a, c>> \in R,
           \A a, b \in S : a = b \/ <<a, b>> \in R \/ <<b, a>> \in R
    PROVE  Foremost(S, n, R) \in Seq(S) /\ Len(Foremost(S, n, R)) <= n
<1> DEFINE c == Cardinality(S)
           m == Min({n, c})
           F == Foremost(S, n, R)
<1>1. c \in Nat /\ \A k \in 1 .. c : \E a \in S : Cardinality({b \in S : <<b, a>> \in R}) = k - 1
  BY PlacesAreTaken
<1>2. m \in Nat /\ m <= n /\ m <= c
  <2> HIDE DEF c
  <2> QED
    BY <1>1, MinOfTwo
<1>3. F = [k \in 1 .. m |-> CHOOSE x \in S : Cardinality({y \in S : <<y, x>> \in R}) = k - 1]
  BY DEF Foremost
<1> HIDE DEF F, m, c
<1>4. \A k \in 1 .. m : k \in 1 .. c
  BY <1>1, <1>2
<1>5. \A k \in 1 .. m :
          (CHOOSE x \in S : Cardinality({y \in S : <<y, x>> \in R}) = k - 1) \in S
  BY <1>1, <1>4
<1>6. F \in [1 .. m -> S]
  BY <1>3, <1>5
<1>7. F \in Seq(S) /\ Len(F) = m
  BY <1>2, <1>6
<1> QED
  BY <1>2, <1>7 DEF F

\* The scores are numbers.
LEMMA ScoresAreNumbers ==
    ASSUME NEW cols \in Seq(Column)
    PROVE  /\ DOMAIN cols = 1 .. Len(cols) /\ IsFiniteSet(DOMAIN cols)
           /\ \A i \in DOMAIN cols : /\ TimestampScore(cols[i]) \in Int
                                     /\ 2 * cols[i].vname + cols[i].rank \in Int
           /\ \A i, j \in DOMAIN cols : PairScore(cols, i, j) \in Int
<1>1. IsFiniteSet(DOMAIN cols)
  <2> DEFINE n == Len(cols)
  <2>1. n \in Nat /\ DOMAIN cols = 1 .. n
    OBVIOUS
  <2> HIDE DEF n
  <2>2. IsFiniteSet(1 .. n)
    BY <2>1, FS_Interval
  <2> QED
    BY <2>1, <2>2
<1>2. ASSUME NEW c \in Column
      PROVE  /\ TimestampScore(c) \in Int /\ 2 * c.vname + c.rank \in Int
             /\ c.rank + 2 * c.ename \in Int
  <2>1. c.vname \in Int /\ c.rank \in Int /\ c.ename \in Int /\ c.tname \in Int
    BY DEF Column
  <2> QED
    BY <2>1 DEF TimestampScore
<1>3. \A i \in DOMAIN cols : cols[i] \in Column
  OBVIOUS
<1>4. \A i, j \in DOMAIN cols : PairScore(cols, i, j) \in Int
  <2> SUFFICES ASSUME NEW i \in DOMAIN cols, NEW j \in DOMAIN cols
               PROVE  PairScore(cols, i, j) \in Int
    OBVIOUS
  <2>1. cols[i].rank + 2 * cols[i].ename \in Int /\ TimestampScore(cols[j]) \in Int
    BY <1>2, <1>3
  <2> QED
    BY <2>1 DEF PairScore
<1> QED
  BY <1>1, <1>2, <1>3, <1>4

\* Timestamp candidates are columns of the table.
LEMMA CandidatesAreColumns ==
    ASSUME NEW cols \in Seq(Column)
    PROVE  TimestampCandidates(cols) \in Seq(DOMAIN cols)
<1> DEFINE S == Timestamps(cols)
           score(i) == TimestampScore(cols[i])
           R == {e \in S \X S :
                   score(e[1]) > score(e[2]) \/ (score(e[1]) = score(e[2]) /\ e[1] < e[2])}
<1>1. S \subseteq DOMAIN cols /\ IsFiniteSet(S)
  BY ScoresAreNumbers, FS_Subset DEF Timestamps
<1>2. \A i \in S : i \in Int /\ score(i) \in Int
  BY <1>1, ScoresAreNumbers
<1> HIDE DEF S, score
<1>3. \A a, b \in S : <<a, b>> \in R <=> score(a) > score(b) \/ (score(a) = score(b) /\ a < b)
  OBVIOUS
<1> HIDE DEF R
<1>4. \A a \in S : <<a, a>> \notin R
  BY <1>2, <1>3
<1>5. \A a, b, c \in S : <<a, b>> \in R /\ <<b, c>> \in R => <<a, c>> \in R
  BY <1>2, <1>3
<1>6. \A a, b \in S : a = b \/ <<a, b>> \in R \/ <<b, a>> \in R
  <2> SUFFICES ASSUME NEW a \in S, NEW b \in S, a # b
               PROVE  <<a, b>> \in R \/ <<b, a>> \in R
    OBVIOUS
  <2>1. a \in Int /\ b \in Int /\ score(a) \in Int /\ score(b) \in Int
    BY <1>2
  <2> QED
    BY <1>3, <2>1
<1>7. Foremost(S, MaxTimestamps, R) \in Seq(S)
  BY <1>1, <1>4, <1>5, <1>6, ForemostAreMembers, BoundsAssumption
<1>8. Foremost(S, MaxTimestamps, R) \in Seq(DOMAIN cols)
  BY <1>1, <1>7
<1> QED
  BY <1>8 DEF TimestampCandidates, S, R, score

\* Every pair is an entity column that groups rows and another column that may be its time.
LEMMA PairsArePairable ==
    ASSUME NEW cols \in Seq(Column)
    PROVE  /\ Pairs(cols) \in Seq(Pairable(cols)) /\ Len(Pairs(cols)) <= MaxPairs
           /\ Pairable(cols) \subseteq (DOMAIN cols) \X (DOMAIN cols)
<1> DEFINE S == Pairable(cols)
           D == DOMAIN cols
           score(p) == PairScore(cols, p[1], p[2])
           R == {e \in S \X S :
                   \/ score(e[1]) > score(e[2])
                   \/ score(e[1]) = score(e[2]) /\ e[1][2] < e[2][2]
                   \/ score(e[1]) = score(e[2]) /\ e[1][2] = e[2][2] /\ e[1][1] < e[2][1]}
<1>1. Range(TimestampCandidates(cols)) \subseteq D
  <2>1. TimestampCandidates(cols) \in Seq(DOMAIN cols)
    BY CandidatesAreColumns
  <2> QED
    BY <2>1 DEF Range
<1>2. S \subseteq D \X D
  BY <1>1 DEF Pairable
<1>3. IsFiniteSet(S)
  <2>1. IsFiniteSet(D)
    BY ScoresAreNumbers
  <2> HIDE DEF D, S
  <2>2. IsFiniteSet(D \X D)
    BY <2>1, FS_Product
  <2> QED
    BY <1>2, <2>2, FS_Subset
<1>4. D \subseteq Int
  OBVIOUS
<1>5. \A p \in S : p[1] \in Int /\ p[2] \in Int /\ score(p) \in Int /\ p = <<p[1], p[2]>>
  <2>1. \A p \in D \X D : p[1] \in D /\ p[2] \in D /\ p = <<p[1], p[2]>>
    OBVIOUS
  <2>2. \A i, j \in D : PairScore(cols, i, j) \in Int
    BY ScoresAreNumbers
  <2> HIDE DEF S, D
  <2> QED
    BY <1>2, <1>4, <2>1, <2>2
<1> HIDE DEF S, score, D
<1>6. \A a, b \in S : <<a, b>> \in R <=>
          \/ score(a) > score(b)
          \/ score(a) = score(b) /\ a[2] < b[2]
          \/ score(a) = score(b) /\ a[2] = b[2] /\ a[1] < b[1]
  OBVIOUS
<1> HIDE DEF R
<1>7. \A a \in S : <<a, a>> \notin R
  BY <1>5, <1>6
<1>8. \A a, b, c \in S : <<a, b>> \in R /\ <<b, c>> \in R => <<a, c>> \in R
  <2> SUFFICES ASSUME NEW a \in S, NEW b \in S, NEW c \in S, <<a, b>> \in R, <<b, c>> \in R
               PROVE  <<a, c>> \in R
    OBVIOUS
  <2>1. /\ a[1] \in Int /\ a[2] \in Int /\ score(a) \in Int
        /\ b[1] \in Int /\ b[2] \in Int /\ score(b) \in Int
        /\ c[1] \in Int /\ c[2] \in Int /\ score(c) \in Int
    BY <1>5
  <2> QED
    BY <1>6, <2>1
<1>9. \A a, b \in S : a = b \/ <<a, b>> \in R \/ <<b, a>> \in R
  <2> SUFFICES ASSUME NEW a \in S, NEW b \in S, <<a, b>> \notin R, <<b, a>> \notin R
               PROVE  a = b
    OBVIOUS
  <2>1. /\ a[1] \in Int /\ a[2] \in Int /\ score(a) \in Int
        /\ b[1] \in Int /\ b[2] \in Int /\ score(b) \in Int
    BY <1>5
  <2>2. a[1] = b[1] /\ a[2] = b[2]
    BY <1>6, <2>1
  <2> QED
    BY <1>5, <2>2
<1>10. Foremost(S, MaxPairs, R) \in Seq(S) /\ Len(Foremost(S, MaxPairs, R)) <= MaxPairs
  BY <1>3, <1>7, <1>8, <1>9, ForemostAreMembers, BoundsAssumption
<1>11. Pairs(cols) = Foremost(S, MaxPairs, R)
  BY DEF Pairs, S, R, score
<1> QED
  BY <1>2, <1>10, <1>11 DEF S, D

\* The marked values are columns of the table, two at most.
LEMMA MarksAreColumns ==
    ASSUME NEW cols \in Seq(Column), NEW i, NEW j
    PROVE  MarkedValues(cols, i, j) \in Seq(DOMAIN cols)
<1> DEFINE S == Markable(cols, i, j)
           score(k) == 2 * cols[k].vname + cols[k].rank
           R == {e \in S \X S :
                   \/ score(e[1]) > score(e[2])
                   \/ score(e[1]) = score(e[2]) /\ e[1] < e[2]}
           best == Foremost(S, 2, R)
<1>1. S \subseteq DOMAIN cols /\ IsFiniteSet(S)
  BY ScoresAreNumbers, FS_Subset DEF Markable
<1>2. \A k \in S : k \in Int /\ score(k) \in Int
  BY <1>1, ScoresAreNumbers
<1>3. MarkedValues(cols, i, j) =
          IF Len(best) = 2 /\ cols[best[2]].vname = 0 THEN <<best[1]>> ELSE best
  BY DEF MarkedValues
<1> HIDE DEF S, score
<1>4. \A a, b \in S : <<a, b>> \in R <=> score(a) > score(b) \/ (score(a) = score(b) /\ a < b)
  OBVIOUS
<1> HIDE DEF R
<1>5. \A a \in S : <<a, a>> \notin R
  BY <1>2, <1>4
<1>6. \A a, b, c \in S : <<a, b>> \in R /\ <<b, c>> \in R => <<a, c>> \in R
  BY <1>2, <1>4
<1>7. \A a, b \in S : a = b \/ <<a, b>> \in R \/ <<b, a>> \in R
  <2> SUFFICES ASSUME NEW a \in S, NEW b \in S, a # b
               PROVE  <<a, b>> \in R \/ <<b, a>> \in R
    OBVIOUS
  <2>1. a \in Int /\ b \in Int /\ score(a) \in Int /\ score(b) \in Int
    BY <1>2
  <2> QED
    BY <1>4, <2>1
<1>8. best \in Seq(S)
  BY <1>1, <1>5, <1>6, <1>7, ForemostAreMembers
<1>9. best \in Seq(DOMAIN cols)
  BY <1>1, <1>8
<1> HIDE DEF best
<1>10. Len(best) = 2 => <<best[1]>> \in Seq(DOMAIN cols)
  BY <1>9
<1> QED
  BY <1>3, <1>9, <1>10

-----------------------------------------------------------------------------
(* Proposals.                                                              *)

Proposal == [entity : Nat, timestamp : Nat, values : Seq(Nat), rank : Nat, score : Int]

\* In the order of their ranks, none twice.
RankOrdered(s) ==
    \A i, j \in DOMAIN s : i < j => s[i].rank <= s[j].rank /\ s[i] # s[j]

\* discover_event_schemas returns proposals in rank order, none twice, each of an entity
\* that may group rows and a timestamp that is another column.
THEOREM ProposalsAreRanked ==
    ASSUME NEW cols \in Seq(Column)
    PROVE  /\ Discover(cols) \in Seq(Proposal) /\ RankOrdered(Discover(cols))
           /\ Len(Discover(cols)) <= MaxPairs + 1
           /\ \A k \in DOMAIN Discover(cols) :
                 LET s == Discover(cols)[k]
                 IN  <<s.entity, s.timestamp>> \in Pairable(cols)
<1> DEFINE pairs == Pairs(cols)
           Schema(k, values) ==
              [entity |-> pairs[k][1], timestamp |-> pairs[k][2], values |-> values,
               rank |-> k - 1, score |-> PairScore(cols, pairs[k][1], pairs[k][2])]
           marked == MarkedValues(cols, pairs[1][1], pairs[1][2])
           n == Len(pairs)
           two == <<Schema(1, <<>>), Schema(1, marked)>>
           rest == [k \in 1 .. n - 1 |-> Schema(k + 1, <<>>)]
           all == [k \in 1 .. n |-> Schema(k, <<>>)]
<1>1. /\ pairs \in Seq(Pairable(cols)) /\ n <= MaxPairs
      /\ Pairable(cols) \subseteq (DOMAIN cols) \X (DOMAIN cols)
  BY PairsArePairable
<1>2. DOMAIN cols \subseteq Nat
  OBVIOUS
<1>3. marked \in Seq(Nat)
  <2> HIDE DEF pairs
  <2>1. marked \in Seq(DOMAIN cols)
    BY MarksAreColumns
  <2> QED
    BY <1>2, <2>1
<1>4. n \in Nat /\ DOMAIN pairs = 1 .. n /\ MaxPairs \in Nat
  BY <1>1, BoundsAssumption
<1>5. Discover(cols) = IF pairs # <<>> /\ marked # <<>> THEN two \o rest ELSE all
  BY DEF Discover
<1> HIDE DEF pairs, marked, n
<1>6. \A k \in 1 .. n : /\ pairs[k] \in Pairable(cols) /\ pairs[k] = <<pairs[k][1], pairs[k][2]>>
                        /\ pairs[k][1] \in DOMAIN cols /\ pairs[k][2] \in DOMAIN cols
  BY <1>1, <1>4
<1>7. ASSUME NEW k \in 1 .. n, NEW v \in Seq(Nat)
      PROVE  /\ Schema(k, v) \in Proposal
             /\ Schema(k, v).rank = k - 1 /\ Schema(k, v).values = v
             /\ <<Schema(k, v).entity, Schema(k, v).timestamp>> \in Pairable(cols)
  <2>1. pairs[k][1] \in Nat /\ pairs[k][2] \in Nat
    BY <1>2, <1>6
  <2>2. PairScore(cols, pairs[k][1], pairs[k][2]) \in Int
    BY <1>6, ScoresAreNumbers
  <2>3. k - 1 \in Nat
    BY <1>4
  <2>4. Schema(k, v) \in Proposal
    BY <2>1, <2>2, <2>3 DEF Proposal
  <2> QED
    BY <1>6, <2>4
<1> HIDE DEF Schema
<1>8. <<>> \in Seq(Nat)
  OBVIOUS
<1>11. \A k \in 1 .. n : \A v \in Seq(Nat) : Schema(k, v) \in Proposal
  BY <1>7
<1>12. \A k \in 1 .. n : \A v \in Seq(Nat) :
          /\ Schema(k, v).rank = k - 1 /\ Schema(k, v).values = v
          /\ <<Schema(k, v).entity, Schema(k, v).timestamp>> \in Pairable(cols)
  BY <1>7
<1>9. CASE pairs # <<>> /\ marked # <<>>
  <2> DEFINE s == two \o rest
  <2>1. n >= 1 /\ 1 \in 1 .. n
    <3>1. n # 0
      BY <1>1, <1>9 DEF n
    <3> QED
      BY <1>4, <3>1
  <2>2. Schema(1, <<>>) \in Proposal /\ Schema(1, marked) \in Proposal
    BY <1>3, <1>8, <1>11, <2>1
  <2>4. rest \in Seq(Proposal) /\ Len(rest) = n - 1
    <3>1. \A k \in 1 .. n - 1 : k + 1 \in 1 .. n
      BY <1>4
    <3>2. \A k \in 1 .. n - 1 : Schema(k + 1, <<>>) \in Proposal
      BY <1>8, <1>11, <3>1
    <3>3. n - 1 \in Nat
      BY <1>4, <2>1
    <3> QED
      BY <3>2, <3>3
  <2>6. \A k \in 1 .. n - 1 : rest[k] = Schema(k + 1, <<>>)
    OBVIOUS
  <2> HIDE DEF rest
  <2>7. /\ s \in Seq(Proposal) /\ Len(s) = 2 + Len(rest)
        /\ s[1] = Schema(1, <<>>) /\ s[2] = Schema(1, marked)
        /\ \A i \in 1 .. Len(rest) : s[2 + i] = rest[i]
    BY <2>2, <2>4, TwoThenRest
  <2> HIDE DEF s
  <2>8. Len(s) = n + 1 /\ DOMAIN s = 1 .. n + 1
    <3>1. 2 + (n - 1) = n + 1
      BY <1>4
    <3>2. Len(s) = n + 1
      BY <2>4, <2>7, <3>1
    <3> QED
      BY <2>7, <3>2
  <2>11. ASSUME NEW k \in 1 .. n + 1, k > 2
         PROVE  k - 1 \in 1 .. n /\ s[k] = Schema(k - 1, <<>>)
    <3>1. /\ k \in Nat /\ k - 2 \in 1 .. n - 1 /\ k - 1 \in 1 .. n
          /\ (k - 2) + 1 = k - 1 /\ 2 + (k - 2) = k
      BY <1>4, <2>11
    <3>2. s[2 + (k - 2)] = rest[k - 2]
      BY <2>4, <2>7, <3>1
    <3>3. rest[k - 2] = Schema((k - 2) + 1, <<>>)
      BY <2>6, <3>1
    <3> QED
      BY <3>1, <3>2, <3>3
  <2>12. s[1].rank = 0 /\ s[2].rank = 0 /\ s[1].values = <<>> /\ s[2].values = marked
    <3>1. /\ Schema(1, <<>>).rank = 1 - 1 /\ Schema(1, <<>>).values = <<>>
          /\ Schema(1, marked).rank = 1 - 1 /\ Schema(1, marked).values = marked
      BY <1>3, <1>8, <1>12, <2>1
    <3> QED
      BY <2>7, <3>1
  <2>13. \A k \in 1 .. n + 1 : k > 2 => s[k].rank = k - 2
    <3> SUFFICES ASSUME NEW k \in 1 .. n + 1, k > 2
                 PROVE  s[k].rank = k - 2
      OBVIOUS
    <3>1. k - 1 \in 1 .. n /\ s[k] = Schema(k - 1, <<>>)
      BY <2>11
    <3>2. Schema(k - 1, <<>>).rank = (k - 1) - 1
      BY <1>8, <1>12, <3>1
    <3>3. k \in Nat
      OBVIOUS
    <3> QED
      BY <3>1, <3>2, <3>3
  <2>14. \A k \in 1 .. n + 1 : <<s[k].entity, s[k].timestamp>> \in Pairable(cols)
    <3> SUFFICES ASSUME NEW k \in 1 .. n + 1
                 PROVE  <<s[k].entity, s[k].timestamp>> \in Pairable(cols)
      OBVIOUS
    <3>1. k = 1 \/ k = 2 \/ k > 2
      OBVIOUS
    <3>2. CASE k > 2
      BY <1>8, <1>12, <2>11, <3>2
    <3>3. CASE k = 1
      BY <1>8, <1>12, <2>1, <2>7, <3>3
    <3>4. CASE k = 2
      BY <1>3, <1>12, <2>1, <2>7, <3>4
    <3> QED
      BY <3>1, <3>2, <3>3, <3>4
  <2>15. ASSUME NEW i \in 1 .. n + 1, NEW j \in 1 .. n + 1, i < j
         PROVE  s[i].rank <= s[j].rank /\ s[i] # s[j]
    <3>1. i \in Nat /\ j \in Nat /\ i >= 1 /\ j >= 2
      BY <1>4, <2>15
    <3>2. CASE j = 2
      <4>1. i = 1
        BY <2>15, <3>1, <3>2
      <4>2. s[1] # s[2]
        BY <1>9, <2>12
      <4> QED
        BY <2>12, <3>2, <4>1, <4>2
    <3>3. CASE j > 2
      <4>1. s[j].rank = j - 2
        BY <2>13, <3>3
      <4>2. i <= 2 \/ i > 2
        BY <3>1
      <4>3. CASE i > 2
        <5>1. s[i].rank = i - 2
          BY <2>13, <4>3
        <5>2. i - 2 < j - 2 /\ i - 2 \in Int /\ j - 2 \in Int
          BY <2>15, <3>1
        <5>3. s[i].rank <= s[j].rank /\ s[i].rank # s[j].rank
          BY <4>1, <5>1, <5>2
        <5> QED
          BY <5>3
      <4>4. CASE i <= 2
        <5>1. i = 1 \/ i = 2
          BY <3>1, <4>4
        <5>2. s[i].rank = 0
          BY <2>12, <5>1
        <5>3. s[i].rank <= s[j].rank /\ s[i].rank # s[j].rank
          BY <3>1, <3>3, <4>1, <5>2
        <5> QED
          BY <5>3
      <4> QED
        BY <4>2, <4>3, <4>4
    <3> QED
      BY <3>1, <3>2, <3>3
  <2>16. RankOrdered(s)
    BY <2>8, <2>15 DEF RankOrdered
  <2>17. Discover(cols) = s
    BY <1>5, <1>9 DEF s
  <2>18. n + 1 <= MaxPairs + 1
    BY <1>1, <1>4 DEF n
  <2> QED
    BY <2>7, <2>8, <2>14, <2>16, <2>17, <2>18
<1>10. CASE ~(pairs # <<>> /\ marked # <<>>)
  <2>1. Discover(cols) = all
    BY <1>5, <1>10
  <2>2. \A k \in 1 .. n : Schema(k, <<>>) \in Proposal
    BY <1>8, <1>11
  <2>3. all \in [1 .. n -> Proposal]
    BY <2>2
  <2>4. all \in Seq(Proposal) /\ Len(all) = n /\ DOMAIN all = 1 .. n
    <3> HIDE DEF all
    <3> QED
      BY <1>4, <2>3
  <2>5. \A k \in 1 .. n : all[k] = Schema(k, <<>>)
    OBVIOUS
  <2> HIDE DEF all
  <2>6. \A k \in 1 .. n : /\ all[k].rank = k - 1
                          /\ <<all[k].entity, all[k].timestamp>> \in Pairable(cols)
    BY <1>8, <1>12, <2>5
  <2>7. RankOrdered(all)
    <3> SUFFICES ASSUME NEW i \in 1 .. n, NEW j \in 1 .. n, i < j
                 PROVE  all[i].rank <= all[j].rank /\ all[i] # all[j]
      BY <2>4 DEF RankOrdered
    <3>1. i \in Nat /\ j \in Nat
      BY <1>4
    <3>2. all[i].rank = i - 1 /\ all[j].rank = j - 1
      BY <2>6
    <3>3. i - 1 <= j - 1 /\ i - 1 # j - 1
      BY <3>1
    <3>4. all[i].rank # all[j].rank
      BY <3>2, <3>3
    <3> QED
      BY <3>2, <3>3, <3>4
  <2>8. n <= MaxPairs + 1
    BY <1>1, <1>4 DEF n
  <2> QED
    BY <2>1, <2>4, <2>6, <2>7, <2>8
<1> QED
  BY <1>9, <1>10

-----------------------------------------------------------------------------
(* The verdict of the gate on one candidate.                               *)

\* What evaluate reports of candidate c: the schema, the raw table it was compared with,
\* a reason unless it is selected, and flags from which deployment rebuilds the very
\* representation whose measurement passed the five checks.
ReportOf(c, drop, e) ==
    /\ e.schema = c
    /\ e.baseline = Baseline(c, drop)
    /\ e.selected \in BOOLEAN
    /\ e.selected \/ e.reason # ""
    /\ e.selected => \A i \in 1 .. 5 : Checks(e.decision.m)[i][2]
    /\ Representation(e) = IF e.selected THEN e.representation ELSE "raw"
    /\ Margin(e) \in Int

\* Every check has a name, which is the reason of the rejection it causes.
LEMMA ChecksAreNamed ==
    ASSUME NEW m
    PROVE  DOMAIN Checks(m) = 1 .. 5 /\ \A i \in 1 .. 5 : Checks(m)[i][1] # ""
<1>1. DOMAIN Checks(m) = 1 .. 5
  BY DEF Checks
<1>2. /\ Checks(m)[1][1] # "" /\ Checks(m)[2][1] # "" /\ Checks(m)[3][1] # ""
      /\ Checks(m)[4][1] # "" /\ Checks(m)[5][1] # ""
  BY DEF Checks
<1>3. \A i \in 1 .. 5 : i = 1 \/ i = 2 \/ i = 3 \/ i = 4 \/ i = 5
  OBVIOUS
<1> QED
  BY <1>1, <1>2, <1>3

\* A measurement that is not selected failed a check: the first of them is the reason.
LEMMA RejectionsHaveReasons ==
    ASSUME NEW m, ~Decision(m).selected
    PROVE  RejectionReason(m) # ""
<1> DEFINE failed == {i \in DOMAIN Checks(m) : ~Checks(m)[i][2]}
<1>1. failed \subseteq 1 .. 5 /\ failed # {}
  BY ChecksAreNamed DEF Decision
<1>2. RejectionReason(m) = Checks(m)[Min(failed)][1]
  BY DEF RejectionReason
<1> HIDE DEF failed
<1>3. \E x \in failed : \A y \in failed : x <= y
  <2>1. \A y \in failed : y = 1 \/ y = 2 \/ y = 3 \/ y = 4 \/ y = 5
    BY <1>1
  <2>2. CASE 1 \in failed
    BY <2>1, <2>2
  <2>3. CASE 1 \notin failed /\ 2 \in failed
    BY <2>1, <2>3
  <2>4. CASE 1 \notin failed /\ 2 \notin failed /\ 3 \in failed
    BY <2>1, <2>4
  <2>5. CASE 1 \notin failed /\ 2 \notin failed /\ 3 \notin failed /\ 4 \in failed
    BY <2>1, <2>5
  <2>6. CASE 1 \notin failed /\ 2 \notin failed /\ 3 \notin failed /\ 4 \notin failed
    <3>1. failed = {5}
      BY <1>1, <2>1, <2>6
    <3> QED
      BY <3>1
  <2> QED
    BY <2>2, <2>3, <2>4, <2>5, <2>6
<1>4. Min(failed) \in failed
  BY <1>3 DEF Min
<1> QED
  BY <1>1, <1>2, <1>4, ChecksAreNamed

\* Whichever representation evaluate settles on was measured, and its channels are on.
LEMMA ChosenWasMeasured ==
    ASSUME NEW values, NEW o \in Outcomes(values), o.gate = "measured"
    PROVE  /\ Chosen(o).name \in {"laplace", "laplace_context", "laplace_context_tree"}
           /\ Chosen(o).decision.m \in Measurements[task]
           /\ Chosen(o).decision = Decision(Chosen(o).decision.m)
           /\ Chosen(o).name # "laplace" => settings.context
           /\ Chosen(o).name = "laplace_context_tree" => settings.tree
<1> DEFINE K(ch) ==
               /\ ch.name \in {"laplace", "laplace_context", "laplace_context_tree"}
               /\ ch.decision.m \in Measurements[task]
               /\ ch.decision = Decision(ch.decision.m)
               /\ ch.name # "laplace" => settings.context
               /\ ch.name = "laplace_context_tree" => settings.tree
           first == [name |-> "laplace", decision |-> Decision(o.laplace)]
           second == Challenge(first, "laplace_context", o.context)
<1>1. /\ o.laplace \in Measurements[task]
      /\ o.context # Failed => ConsiderContext(values) /\ o.context \in Measurements[task]
      /\ o.tree # Failed => ConsiderTree(values) /\ o.tree \in Measurements[task]
  BY DEF Outcomes
<1>2. \A m : Decision(m).m = m
  BY DEF Decision
<1>3. ConsiderContext(values) => settings.context
  BY DEF ConsiderContext
<1>4. ConsiderTree(values) => settings.context /\ settings.tree
  BY DEF ConsiderTree, ConsiderContext
<1>5. K(first)
  BY <1>1, <1>2
<1>6. K(second)
  <2>1. CASE second = first
    BY <1>5, <2>1
  <2>2. CASE second # first
    <3> HIDE DEF first
    <3>1. o.context # Failed /\ second = [name |-> "laplace_context", decision |-> Decision(o.context)]
      BY <2>2 DEF Challenge
    <3> QED
      BY <1>1, <1>2, <1>3, <3>1
  <2> QED
    BY <2>1, <2>2
<1> HIDE DEF first, second
<1> DEFINE third == Challenge(second, "laplace_context_tree", o.tree)
<1>7. K(third)
  <2>1. CASE third = second
    BY <1>6, <2>1
  <2>2. CASE third # second
    <3>1. o.tree # Failed /\ third = [name |-> "laplace_context_tree", decision |-> Decision(o.tree)]
      BY <2>2 DEF Challenge
    <3> QED
      BY <1>1, <1>2, <1>4, <3>1
  <2> QED
    BY <2>1, <2>2
<1>8. Chosen(o) = third
  BY DEF Chosen, first, second
<1> HIDE DEF third
<1> QED
  BY <1>7, <1>8

\* The margin of a measurement, or of none, can be compared.
LEMMA MarginsAreNumbers ==
    ASSUME task \in Tasks, NEW e,
           e.decision = None \/ e.decision.m \in Measurements[task]
    PROVE  Margin(e) \in Int
<1>1. MinusInfinity \in Int
  BY DEF MinusInfinity
<1>2. CASE e.decision = None
  BY <1>1, <1>2 DEF Margin
<1>3. CASE e.decision # None
  <2> DEFINE m == e.decision.m
             confidence == CASE m.lower = "none" -> MinusInfinity
                             [] m.lower = "negative" -> -1
                             [] OTHER -> 1
  <2>1. m.gain \in Int /\ Legacy \in Int
    BY <1>3, GainsAssumption
  <2>2. confidence \in Int
    BY <1>1
  <2>3. Margin(e) = Max({confidence, m.gain - Legacy})
    BY <1>3 DEF Margin
  <2> HIDE DEF m, confidence
  <2>4. m.gain - Legacy \in Int
    BY <2>1
  <2> QED
    BY <2>2, <2>3, <2>4, MaxOfTwo
<1> QED
  BY <1>2, <1>3

\* The report of evaluate, from whatever it measured, alone or with a cached baseline.
LEMMA EvaluateReportsSo ==
    ASSUME task \in Tasks, NEW c, NEW drop \in BOOLEAN, NEW o \in Outcomes(c.values),
           NEW cached, cached = None \/ cached = Baseline(c, drop)
    PROVE  ReportOf(c, drop, Report(c, drop, o, cached))
<1> DEFINE e == Report(c, drop, o, cached)
<1>1. e.schema = c /\ e.baseline = Baseline(c, drop)
  BY DEF Report
<1>2. CASE o.gate = "measured"
  <2> DEFINE ch == Chosen(o)
             m == ch.decision.m
  <2>1. /\ ch.name \in {"laplace", "laplace_context", "laplace_context_tree"}
        /\ m \in Measurements[task]
        /\ ch.decision = Decision(m)
        /\ ch.name # "laplace" => settings.context
        /\ ch.name = "laplace_context_tree" => settings.tree
    BY <1>2, ChosenWasMeasured
  <2>2. /\ e.selected <=> ch.decision.selected
        /\ e.selected \in BOOLEAN
        /\ e.representation = ch.name /\ e.decision = ch.decision
        /\ e.context <=> ch.name \in {"laplace_context", "laplace_context_tree"}
        /\ e.tree <=> ch.name = "laplace_context_tree"
        /\ ~e.selected => e.reason = RejectionReason(m)
    BY <1>2 DEF Report
  <2> HIDE DEF e, ch, m
  <2>3. e.selected \/ e.reason # ""
    BY <2>1, <2>2, RejectionsHaveReasons
  <2>4. e.selected => \A i \in 1 .. 5 : Checks(e.decision.m)[i][2]
    <3>1. m = e.decision.m
      BY <2>2 DEF m
    <3>2. Decision(m).selected => \A i \in DOMAIN Checks(m) : Checks(m)[i][2]
      BY DEF Decision
    <3> QED
      BY <2>1, <2>2, <3>1, <3>2, ChecksAreNamed
  <2>5. Representation(e) = IF e.selected THEN e.representation ELSE "raw"
    BY <2>1, <2>2 DEF Representation
  <2>6. Margin(e) \in Int
    <3>1. e.decision.m \in Measurements[task]
      BY <2>1, <2>2 DEF m
    <3> QED
      BY <3>1, MarginsAreNumbers
  <2>7. e.schema = c /\ e.baseline = Baseline(c, drop)
    BY <1>1
  <2> QED
    BY <2>2, <2>3, <2>4, <2>5, <2>6, <2>7 DEF ReportOf, e
<1>3. CASE o.gate # "measured"
  <2>1. /\ ~e.selected /\ e.selected \in BOOLEAN
        /\ e.decision = None /\ e.reason = o.gate
    <3>1. ~e.selected
      BY <1>3 DEF Report
    <3>2. e.selected \in BOOLEAN
      <4> DEFINE ch == IF o.gate = "measured" THEN Chosen(o) ELSE [name |-> "raw", decision |-> None]
                 won == o.gate = "measured" /\ ch.decision.selected
      <4>1. e.selected = won
        BY DEF Report
      <4>2. won \in BOOLEAN
        BY <1>3
      <4> HIDE DEF won, e
      <4> QED
        BY <4>1, <4>2
    <3>3. e.decision = None
      BY <1>3 DEF Report
    <3>4. e.reason = o.gate
      BY <1>3 DEF Report
    <3> QED
      BY <3>1, <3>2, <3>3, <3>4
  <2>2. o.gate # ""
    <3> DEFINE A == {[gate |-> g] : g \in {"raises", "ineligible", "ineligible_after_baseline"}}
               C == IF ConsiderContext(c.values) THEN Measurements[task] \cup {Failed} ELSE {Failed}
               T == IF ConsiderTree(c.values) THEN Measurements[task] \cup {Failed} ELSE {Failed}
               B == [gate : {"measured"}, laplace : Measurements[task], context : C, tree : T]
    <3>1. Outcomes(c.values) = A \cup B
      BY DEF Outcomes
    <3>2. \A x \in A : x.gate \in {"raises", "ineligible", "ineligible_after_baseline"}
      OBVIOUS
    <3> HIDE DEF A, C, T
    <3>3. o \notin B
      BY <1>3
    <3> HIDE DEF B
    <3>4. o.gate \in {"raises", "ineligible", "ineligible_after_baseline"}
      BY <3>1, <3>2, <3>3
    <3> QED
      BY <3>4
  <2> HIDE DEF e
  <2>3. Margin(e) \in Int
    BY <2>1, MarginsAreNumbers
  <2>4. Representation(e) = "raw"
    BY <2>1 DEF Representation
  <2>5. e.schema = c /\ e.baseline = Baseline(c, drop)
    BY <1>1
  <2> QED
    BY <2>1, <2>2, <2>3, <2>4, <2>5 DEF ReportOf, e
<1> QED
  BY <1>2, <1>3

-----------------------------------------------------------------------------
(* The choice among the candidates of a rank.                              *)

\* A candidate could be promoted: its representation is selected with a margin.
Fits(x) == x.evidence.selected /\ Margin(x.evidence) >= 0

\* A candidate of the present rank, with its report.
TriedOK(x) ==
    /\ x.candidate \in Proposal
    /\ ReportOf(x.candidate, FALSE, x.evidence)
    /\ x.margin = Margin(x.evidence)
    /\ x.eligible <=> Fits(x)
    /\ x = [candidate |-> x.candidate, evidence |-> x.evidence, margin |-> x.margin,
            eligible |-> x.eligible]

\* A candidate of a closed rank.
ReportedOK(x) ==
    /\ x.candidate \in Proposal
    /\ ReportOf(x.candidate, FALSE, x.evidence)
    /\ x.selected \/ x.reason # ""

EntriesOK ==
    /\ evaluated \in Seq(Range(evaluated)) /\ reports \in Seq(Range(reports))
    /\ \A i \in DOMAIN evaluated : TriedOK(evaluated[i])
    /\ \A i \in DOMAIN reports : ReportedOK(reports[i])
    /\ \A k \in DOMAIN cache : cache[k] = [timestamp |-> k, dropped |-> 0]

\* max() over the eligible candidates returns one of them, and none has a larger margin.
LEMMA WinnerIsBest ==
    ASSUME EntriesOK, Promoted # {}
    PROVE  /\ Winner \in DOMAIN evaluated /\ evaluated[Winner].eligible
           /\ \A j \in Promoted : evaluated[j].margin <= evaluated[Winner].margin
<1> DEFINE n == Len(evaluated)
           P == Promoted
           m(i) == evaluated[i].margin
           s(i) == evaluated[i].candidate.score
           v(i) == Len(evaluated[i].candidate.values)
           R == {e \in P \X P : Better(evaluated[e[1]], evaluated[e[2]]) \/
                                (e[1] < e[2] /\ ~Better(evaluated[e[2]], evaluated[e[1]]))}
<1>1. n \in Nat /\ DOMAIN evaluated = 1 .. n
  BY DEF EntriesOK
<1>2. P \subseteq 1 .. n /\ IsFiniteSet(P)
  <2>1. P \subseteq 1 .. n
    BY <1>1 DEF Promoted
  <2> HIDE DEF n, P
  <2>2. IsFiniteSet(1 .. n)
    BY <1>1, FS_Interval
  <2> QED
    BY <2>1, <2>2, FS_Subset
<1>3. \A i \in P : i \in Int /\ m(i) \in Int /\ s(i) \in Int /\ v(i) \in Int
  <2> SUFFICES ASSUME NEW i \in P
               PROVE  i \in Int /\ m(i) \in Int /\ s(i) \in Int /\ v(i) \in Int
    OBVIOUS
  <2>1. i \in 1 .. n /\ TriedOK(evaluated[i])
    BY <1>1, <1>2 DEF EntriesOK
  <2>2. m(i) \in Int
    BY <2>1 DEF TriedOK, ReportOf
  <2>3. evaluated[i].candidate \in Proposal
    BY <2>1 DEF TriedOK
  <2>4. s(i) \in Int /\ evaluated[i].candidate.values \in Seq(Nat)
    BY <2>3 DEF Proposal
  <2>5. v(i) \in Int
    BY <2>4
  <2>6. i \in Int
    BY <1>1, <2>1
  <2> QED
    BY <2>2, <2>4, <2>5, <2>6
<1>4. \A i, j \in P : Better(evaluated[i], evaluated[j]) <=>
          \/ m(i) > m(j)
          \/ m(i) = m(j) /\ s(i) > s(j)
          \/ m(i) = m(j) /\ s(i) = s(j) /\ v(i) < v(j)
  BY DEF Better
<1>5. \A i, j \in P : <<i, j>> \in R <=> Better(evaluated[i], evaluated[j]) \/
                                         (i < j /\ ~Better(evaluated[j], evaluated[i]))
  OBVIOUS
<1> HIDE DEF P, R, m, s, v, n
<1>6. \A i \in P : <<i, i>> \notin R
  BY <1>3, <1>4, <1>5
<1>7. \A i, j, k \in P : <<i, j>> \in R /\ <<j, k>> \in R => <<i, k>> \in R
  <2> SUFFICES ASSUME NEW i \in P, NEW j \in P, NEW k \in P, <<i, j>> \in R, <<j, k>> \in R
               PROVE  <<i, k>> \in R
    OBVIOUS
  <2>1. /\ i \in Int /\ m(i) \in Int /\ s(i) \in Int /\ v(i) \in Int
        /\ j \in Int /\ m(j) \in Int /\ s(j) \in Int /\ v(j) \in Int
        /\ k \in Int /\ m(k) \in Int /\ s(k) \in Int /\ v(k) \in Int
    BY <1>3
  <2>2. CASE Better(evaluated[i], evaluated[j])
    BY <1>4, <1>5, <2>1, <2>2
  <2>3. CASE i < j /\ ~Better(evaluated[j], evaluated[i])
    BY <1>4, <1>5, <2>1, <2>3
  <2> QED
    BY <1>5, <2>2, <2>3
<1>8. \A i, j \in P : i = j \/ <<i, j>> \in R \/ <<j, i>> \in R
  <2> SUFFICES ASSUME NEW i \in P, NEW j \in P, i # j
               PROVE  <<i, j>> \in R \/ <<j, i>> \in R
    OBVIOUS
  <2>1. i \in Int /\ j \in Int
    BY <1>3
  <2> QED
    BY <1>5, <2>1
<1>9. \E i \in P : \A j \in P \ {i} : <<i, j>> \in R
  <2>1. P # {}
    BY DEF P
  <2> QED
    BY <1>2, <1>6, <1>7, <1>8, <2>1, FirstOfFinite
<1>10. \E i \in P : \A j \in P \ {i} : Better(evaluated[i], evaluated[j]) \/
                                       (i < j /\ ~Better(evaluated[j], evaluated[i]))
  BY <1>5, <1>9
<1>11. /\ Winner \in P
       /\ \A j \in P \ {Winner} : Better(evaluated[Winner], evaluated[j]) \/
                                  (Winner < j /\ ~Better(evaluated[j], evaluated[Winner]))
  <2> DEFINE Wins(i) == \A j \in P \ {i} : Better(evaluated[i], evaluated[j]) \/
                                           (i < j /\ ~Better(evaluated[j], evaluated[i]))
  <2>1. Winner = CHOOSE i \in P : Wins(i)
    BY DEF Winner, P
  <2>2. \E i \in P : Wins(i)
    BY <1>10
  <2> HIDE DEF Wins
  <2>3. Winner \in P /\ Wins(Winner)
    BY <2>1, <2>2
  <2> QED
    BY <2>3 DEF Wins
<1>12. \A j \in P : m(j) <= m(Winner)
  <2> SUFFICES ASSUME NEW j \in P
               PROVE  m(j) <= m(Winner)
    OBVIOUS
  <2>1. m(j) \in Int /\ m(Winner) \in Int
    BY <1>3, <1>11
  <2> QED
    BY <1>4, <1>11, <2>1
<1>13. Winner \in DOMAIN evaluated /\ evaluated[Winner].eligible
  BY <1>11 DEF P, Promoted
<1> QED
  BY <1>12, <1>13 DEF P, m

-----------------------------------------------------------------------------
(* The invariant of the search and of what it leaves behind.               *)

\* While the search runs: what is left to try is ranked, nothing of an earlier rank could
\* be promoted, and the candidates of the present rank are of one rank and all different.
SearchOK ==
    phase = "search" /\ source = "automatic" =>
        /\ proposals \in Seq(Proposal) /\ RankOrdered(proposals)
        /\ \A i, j \in DOMAIN evaluated :
              /\ evaluated[i].candidate.rank = evaluated[j].candidate.rank
              /\ i # j => evaluated[i].candidate # evaluated[j].candidate
        /\ \A i \in DOMAIN evaluated, j \in DOMAIN proposals :
              /\ evaluated[i].candidate.rank <= proposals[j].rank
              /\ evaluated[i].candidate # proposals[j]
        /\ \A i \in DOMAIN reports :
              /\ ~reports[i].selected /\ ~Fits(reports[i])
              /\ \A j \in DOMAIN evaluated :
                    reports[i].candidate.rank <= evaluated[j].candidate.rank
              /\ \A j \in DOMAIN proposals : reports[i].candidate.rank <= proposals[j].rank

\* The promoted candidate carries the report it was promoted on.
ChoiceOK ==
    /\ task \in Tasks
    /\ phase \in {"search", "ordinary"} => selected = None
    /\ phase = "deploy" => selected # None
    /\ phase # "fitted" => deployed = None
    /\ deployed # None => selected # None
    /\ selected # None => ReportOf(selected.candidate, source = "explicit", selected.evidence)

EventInv == EntriesOK /\ SearchOK /\ ChoiceOK /\ SearchIsAccounted /\ DeployedAsJudged

\* What a report says does not depend on what changes while the task and the settings stay.
LEMMA ReportsStay ==
    ASSUME task' = task, settings' = settings
    PROVE  /\ \A c, drop, e : ReportOf(c, drop, e) => ReportOf(c, drop, e)'
           /\ \A x : TriedOK(x) => TriedOK(x)'
           /\ \A x : ReportedOK(x) => ReportedOK(x)'
<1>1. \A m : Checks(m)' = Checks(m)
  BY DEF Checks, ForwardConsistent, NoSevereLoss, Passed, Evaluated
<1>2. \A e : Representation(e)' = Representation(e)
  BY DEF Representation
<1>3. \A c, drop, e : ReportOf(c, drop, e) => ReportOf(c, drop, e)'
  BY <1>1, <1>2 DEF ReportOf
<1> QED
  BY <1>3 DEF TriedOK, ReportedOK

\* The next proposal, and what is left after it.
LEMMA NextProposal ==
    ASSUME NEW s \in Seq(Proposal), RankOrdered(s), s # <<>>
    PROVE  /\ Head(s) \in Proposal /\ Head(s) = s[1] /\ 1 \in DOMAIN s
           /\ Tail(s) \in Seq(Proposal) /\ RankOrdered(Tail(s))
           /\ \A j \in DOMAIN Tail(s) :
                 /\ j + 1 \in DOMAIN s /\ Tail(s)[j] = s[j + 1]
                 /\ Head(s).rank <= Tail(s)[j].rank /\ Head(s) # Tail(s)[j]
<1> DEFINE n == Len(s)  r == Tail(s)  h == Head(s)
<1>1. n \in Nat /\ n >= 1 /\ DOMAIN s = 1 .. n
  OBVIOUS
<1>2. /\ h \in Proposal /\ r \in Seq(Proposal) /\ Len(r) = n - 1
      /\ \A i \in 1 .. Len(r) : r[i] = s[i + 1]
  BY HeadTailProperties
<1>3. h = s[1]
  OBVIOUS
<1>4. DOMAIN r = 1 .. Len(r)
  BY <1>2
<1> HIDE DEF r, h, n
<1>5. \A j \in DOMAIN r : j \in Nat /\ j + 1 \in DOMAIN s /\ 1 < j + 1 /\ r[j] = s[j + 1]
  BY <1>1, <1>2, <1>4
<1>6. 1 \in DOMAIN s
  BY <1>1
<1>7. \A j \in DOMAIN r : h.rank <= r[j].rank /\ h # r[j]
  BY <1>3, <1>5, <1>6 DEF RankOrdered
<1>8. RankOrdered(r)
  <2> SUFFICES ASSUME NEW i \in DOMAIN r, NEW j \in DOMAIN r, i < j
               PROVE  r[i].rank <= r[j].rank /\ r[i] # r[j]
    BY DEF RankOrdered
  <2>1. /\ i + 1 \in DOMAIN s /\ j + 1 \in DOMAIN s /\ i + 1 < j + 1
        /\ r[i] = s[i + 1] /\ r[j] = s[j + 1]
    BY <1>5
  <2> QED
    BY <2>1 DEF RankOrdered
<1> QED
  BY <1>2, <1>3, <1>5, <1>6, <1>7, <1>8 DEF r, h

\* A sequence with one more member at its end.
LEMMA Appended ==
    ASSUME NEW s, s \in Seq(Range(s)), NEW x
    PROVE  /\ Append(s, x) \in Seq(Range(Append(s, x)))
           /\ Len(s) \in Nat /\ DOMAIN s = 1 .. Len(s)
           /\ DOMAIN Append(s, x) = 1 .. Len(s) + 1
           /\ \A i \in 1 .. Len(s) : Append(s, x)[i] = s[i]
           /\ Append(s, x)[Len(s) + 1] = x
<1> DEFINE S == Range(s) \cup {x}  a == Append(s, x)  n == Len(s)
<1>1. s \in Seq(S) /\ x \in S
  <2>1. Range(s) \subseteq S
    OBVIOUS
  <2> HIDE DEF S
  <2>2. s \in Seq(S)
    BY <2>1, SeqMonotonic
  <2> QED
    BY <2>2 DEF S
<1>2. n \in Nat /\ DOMAIN s = 1 .. n
  OBVIOUS
<1> HIDE DEF S
<1>3. /\ a \in Seq(S) /\ Len(a) = n + 1
      /\ \A i \in 1 .. n : a[i] = s[i]
      /\ a[n + 1] = x
  BY <1>1, AppendProperties
<1> HIDE DEF a, n
<1>4. DOMAIN a = 1 .. n + 1
  BY <1>3
<1>5. a \in Seq(Range(a))
  BY <1>3 DEF Range
<1> QED
  BY <1>2, <1>3, <1>4, <1>5 DEF a, n

-----------------------------------------------------------------------------
(* One lemma for each step.                                                *)

\* Before the search nothing was tried, and what was discovered is ranked.
LEMMA InitHolds == Init => EventInv
<1> SUFFICES ASSUME Init
             PROVE  EventInv
  OBVIOUS
<1>1. /\ task \in Tasks /\ source \in {"automatic", "explicit"}
      /\ cache = <<>> /\ evaluated = <<>> /\ reports = <<>> /\ selected = None /\ deployed = None
      /\ phase \in {"ordinary", "search"}
  BY DEF Init, EventInit
<1>2. EntriesOK
  <2>1. \A S : <<>> \in Seq(S)
    OBVIOUS
  <2> QED
    BY <1>1, <2>1 DEF EntriesOK
<1>3. source = "automatic" => proposals \in Seq(Proposal) /\ RankOrdered(proposals)
  <2> SUFFICES ASSUME source = "automatic"
               PROVE  proposals \in Seq(Proposal) /\ RankOrdered(proposals)
    OBVIOUS
  <2>1. frame \in EventTables /\ proposals = Discover(frame)
    BY DEF Init, EventInit
  <2>2. frame \in Seq(Column)
    BY <2>1, TablesAssumption
  <2> QED
    BY <2>1, <2>2, ProposalsAreRanked
<1>4. SearchOK
  BY <1>1, <1>3 DEF SearchOK
<1>5. ChoiceOK
  BY <1>1 DEF ChoiceOK
<1>6. SearchIsAccounted
  <2>1. {i \in DOMAIN reports : reports[i].selected} = {} /\ DOMAIN reports = {}
    BY <1>1
  <2>2. Cardinality({}) = 0
    BY FS_EmptySet
  <2> QED
    BY <1>1, <2>1, <2>2 DEF SearchIsAccounted
<1>7. DeployedAsJudged
  BY <1>1 DEF DeployedAsJudged
<1> QED
  BY <1>2, <1>4, <1>5, <1>6, <1>7 DEF EventInv

\* One more candidate of the present rank, judged against its own baseline.
LEMMA EvaluateKeeps == EventInv /\ Evaluate => EventInv'
<1> SUFFICES ASSUME EventInv, Evaluate
             PROVE  EventInv'
  OBVIOUS
<1> DEFINE c == Head(proposals)
           key == c.timestamp
<1>1. /\ phase = "search" /\ source = "automatic" /\ RankOpen
      /\ proposals' = Tail(proposals)
      /\ phase' = phase /\ source' = source /\ task' = task /\ settings' = settings
      /\ reports' = reports /\ selected' = selected /\ deployed' = deployed
  BY DEF Evaluate
<1>2. PICK o \in Outcomes(c.values) :
         LET report == Report(c, FALSE, o, Cached(key))
         IN  /\ evaluated' = Append(evaluated,
                   [candidate |-> c, evidence |-> report, margin |-> Margin(report),
                    eligible |-> report.selected /\ Margin(report) >= 0])
             /\ cache' = IF o.gate \in {"measured", "ineligible_after_baseline"}
                         THEN [k \in DOMAIN cache \cup {key} |->
                                 IF k = key THEN report.baseline ELSE cache[k]]
                         ELSE cache
  BY DEF Evaluate
<1> DEFINE r == Report(c, FALSE, o, Cached(key))
           x == [candidate |-> c, evidence |-> r, margin |-> Margin(r),
                 eligible |-> r.selected /\ Margin(r) >= 0]
           n == Len(evaluated)
<1>3. evaluated' = Append(evaluated, x)
  BY <1>2
<1>4. /\ proposals \in Seq(Proposal) /\ RankOrdered(proposals) /\ proposals # <<>>
      /\ \A i \in DOMAIN evaluated : evaluated[i].candidate.rank = c.rank
  BY <1>1 DEF EventInv, SearchOK, RankOpen
<1>5. /\ c \in Proposal /\ c = proposals[1] /\ 1 \in DOMAIN proposals
      /\ proposals' \in Seq(Proposal) /\ RankOrdered(proposals')
      /\ \A j \in DOMAIN proposals' :
            /\ j + 1 \in DOMAIN proposals /\ proposals'[j] = proposals[j + 1]
            /\ c.rank <= proposals'[j].rank /\ c # proposals'[j]
  BY <1>1, <1>4, NextProposal
<1>6. ReportOf(c, FALSE, r)
  <2> HIDE DEF c
  <2>1. Baseline(c, FALSE) = [timestamp |-> key, dropped |-> 0]
    BY DEF Baseline
  <2>2. \A k \in DOMAIN cache : cache[k] = [timestamp |-> k, dropped |-> 0]
    BY DEF EventInv, EntriesOK
  <2>3. Cached(key) = None \/ Cached(key) = Baseline(c, FALSE)
    BY <2>1, <2>2 DEF Cached
  <2>4. task \in Tasks
    BY DEF EventInv, ChoiceOK
  <2> QED
    BY <2>3, <2>4, EvaluateReportsSo
<1> HIDE DEF c, r
<1>7. /\ x.candidate = c /\ x.evidence = r /\ x.margin = Margin(r)
      /\ x.eligible <=> r.selected /\ Margin(r) >= 0
      /\ x = [candidate |-> x.candidate, evidence |-> x.evidence, margin |-> x.margin,
              eligible |-> x.eligible]
  OBVIOUS
<1> HIDE DEF x
<1>8. TriedOK(x)
  BY <1>5, <1>6, <1>7 DEF TriedOK, Fits
<1>9. evaluated \in Seq(Range(evaluated)) /\ \A i \in DOMAIN evaluated : TriedOK(evaluated[i])
  BY DEF EventInv, EntriesOK
<1>10. /\ evaluated' \in Seq(Range(evaluated'))
       /\ n \in Nat /\ DOMAIN evaluated = 1 .. n /\ DOMAIN evaluated' = 1 .. n + 1
       /\ \A i \in 1 .. n : evaluated'[i] = evaluated[i]
       /\ evaluated'[n + 1] = x
  <2> DEFINE a == Append(evaluated, x)
  <2>1. evaluated \in Seq(Range(evaluated))
    BY <1>9
  <2>2. /\ a \in Seq(Range(a))
        /\ n \in Nat /\ DOMAIN evaluated = 1 .. n /\ DOMAIN a = 1 .. n + 1
        /\ \A i \in 1 .. n : a[i] = evaluated[i]
        /\ a[n + 1] = x
    BY <2>1, Appended
  <2>3. evaluated' = a
    BY <1>3
  <2> HIDE DEF a, n
  <2> QED
    BY <2>2, <2>3
<1> HIDE DEF n
<1>11. \A i \in DOMAIN evaluated' : \/ i \in DOMAIN evaluated /\ evaluated'[i] = evaluated[i]
                                    \/ i = n + 1 /\ evaluated'[i] = x
  <2> SUFFICES ASSUME NEW i \in 1 .. n + 1
               PROVE  \/ i \in 1 .. n /\ evaluated'[i] = evaluated[i]
                      \/ i = n + 1 /\ evaluated'[i] = x
    BY <1>10
  <2>1. i \in 1 .. n \/ i = n + 1
    BY <1>10
  <2> QED
    BY <1>10, <2>1
<1>12. EntriesOK'
  <2>1. \A y : /\ TriedOK(y) => TriedOK(y)'
               /\ ReportedOK(y) => ReportedOK(y)'
    BY <1>1, ReportsStay
  <2>2. \A i \in DOMAIN evaluated' : TriedOK(evaluated'[i])
    BY <1>8, <1>9, <1>11
  <2>3. reports' \in Seq(Range(reports')) /\ \A i \in DOMAIN reports' : ReportedOK(reports'[i])
    BY <1>1 DEF EventInv, EntriesOK
  <2>4. \A k \in DOMAIN cache' : cache'[k] = [timestamp |-> k, dropped |-> 0]
    <3>1. \A k \in DOMAIN cache : cache[k] = [timestamp |-> k, dropped |-> 0]
      BY DEF EventInv, EntriesOK
    <3>2. r.baseline = [timestamp |-> key, dropped |-> 0]
      BY <1>6 DEF ReportOf, Baseline
    <3>3. \/ cache' = cache
          \/ cache' = [k \in DOMAIN cache \cup {key} |-> IF k = key THEN r.baseline ELSE cache[k]]
      BY <1>2 DEF r
    <3> QED
      BY <3>1, <3>2, <3>3
  <2> QED
    BY <1>10, <2>1, <2>2, <2>3, <2>4 DEF EntriesOK
<1>13. SearchOK'
  <2>1. /\ \A i, j \in DOMAIN evaluated :
              i # j => evaluated[i].candidate # evaluated[j].candidate
        /\ \A i \in DOMAIN evaluated, j \in DOMAIN proposals :
              evaluated[i].candidate.rank <= proposals[j].rank /\ evaluated[i].candidate # proposals[j]
        /\ \A i \in DOMAIN reports :
              /\ ~reports[i].selected /\ ~Fits(reports[i])
              /\ \A j \in DOMAIN proposals : reports[i].candidate.rank <= proposals[j].rank
    BY <1>1 DEF EventInv, SearchOK
  <2>2. \A i \in DOMAIN evaluated' : evaluated'[i].candidate.rank = c.rank
    BY <1>4, <1>7, <1>11
  <2>3. \A i \in DOMAIN evaluated : evaluated[i].candidate # c
    BY <1>5, <2>1
  <2>4. \A i, j \in DOMAIN evaluated' : i # j => evaluated'[i].candidate # evaluated'[j].candidate
    BY <1>7, <1>11, <2>1, <2>3
  <2>5. \A i \in DOMAIN evaluated', j \in DOMAIN proposals' :
           evaluated'[i].candidate.rank <= proposals'[j].rank
    BY <1>5, <2>2
  <2>6. \A i \in DOMAIN evaluated', j \in DOMAIN proposals' : evaluated'[i].candidate # proposals'[j]
    BY <1>5, <1>7, <1>11, <2>1
  <2>7. \A i \in DOMAIN reports' :
           /\ ~reports'[i].selected /\ ~Fits(reports'[i])
           /\ \A j \in DOMAIN evaluated' : reports'[i].candidate.rank <= evaluated'[j].candidate.rank
           /\ \A j \in DOMAIN proposals' : reports'[i].candidate.rank <= proposals'[j].rank
    BY <1>1, <1>5, <2>1, <2>2
  <2> QED
    BY <1>5, <2>2, <2>4, <2>5, <2>6, <2>7 DEF SearchOK
<1>14. ChoiceOK'
  BY <1>1 DEF EventInv, ChoiceOK
<1>15. SearchIsAccounted'
  BY <1>1 DEF SearchIsAccounted
<1>16. DeployedAsJudged'
  BY <1>1 DEF EventInv, ChoiceOK, DeployedAsJudged
<1> QED
  BY <1>12, <1>13, <1>14, <1>15, <1>16 DEF EventInv

\* A rank that promotes nothing adds reports of candidates that did not fit; one that
\* promotes marks exactly the best of them.
LEMMA CloseRankKeeps == EventInv /\ CloseRank => EventInv'
<1> SUFFICES ASSUME EventInv, CloseRank
             PROVE  EventInv'
  OBVIOUS
<1> DEFINE m == Len(reports)
           n == Len(evaluated)
           marked(e) == selected' # None /\ e.candidate = selected'.candidate
           record(e) == [candidate |-> e.candidate, evidence |-> e.evidence, selected |-> marked(e),
                         reason |-> IF marked(e) THEN ""
                                    ELSE IF e.eligible THEN "lower_scoring_schema_candidate"
                                    ELSE IF e.evidence.selected THEN "automatic_schema_search_margin"
                                    ELSE e.evidence.reason]
           closed == [i \in DOMAIN evaluated |-> record(evaluated[i])]
<1>1. /\ phase = "search" /\ source = "automatic"
      /\ selected' = (IF Promoted = {} THEN None ELSE evaluated[Winner])
      /\ reports' = reports \o closed
      /\ evaluated' = <<>>
      /\ phase' = (IF Promoted # {} THEN "deploy"
                   ELSE IF proposals = <<>> THEN "ordinary" ELSE "search")
      /\ proposals' = proposals /\ cache' = cache /\ deployed' = deployed
      /\ source' = source /\ task' = task /\ settings' = settings
  BY DEF CloseRank
<1>2. /\ evaluated \in Seq(Range(evaluated)) /\ reports \in Seq(Range(reports))
      /\ \A i \in DOMAIN evaluated : TriedOK(evaluated[i])
      /\ \A i \in DOMAIN reports : ReportedOK(reports[i])
      /\ \A k \in DOMAIN cache : cache[k] = [timestamp |-> k, dropped |-> 0]
  BY DEF EventInv, EntriesOK
<1>3. /\ n \in Nat /\ DOMAIN evaluated = 1 .. n
      /\ m \in Nat /\ DOMAIN reports = 1 .. m
  BY <1>2
<1>4. \A i \in DOMAIN evaluated : closed[i] = record(evaluated[i])
  OBVIOUS
<1>5. \A e : /\ record(e).candidate = e.candidate /\ record(e).evidence = e.evidence
             /\ record(e).selected <=> marked(e)
             /\ record(e).reason = (IF marked(e) THEN ""
                                    ELSE IF e.eligible THEN "lower_scoring_schema_candidate"
                                    ELSE IF e.evidence.selected THEN "automatic_schema_search_margin"
                                    ELSE e.evidence.reason)
  OBVIOUS
<1>6. closed \in Seq(Range(closed)) /\ Len(closed) = n /\ DOMAIN closed = 1 .. n
  <2>1. DOMAIN closed = 1 .. n
    BY <1>3
  <2>2. closed \in [1 .. n -> Range(closed)]
    BY <2>1 DEF Range
  <2> HIDE DEF closed, n
  <2> QED
    BY <1>3, <2>1, <2>2
<1> HIDE DEF record, closed, n, m, marked
<1>7. /\ reports' \in Seq(Range(reports'))
      /\ DOMAIN reports' = 1 .. m + n
      /\ \A i \in 1 .. m : reports'[i] = reports[i]
      /\ \A i \in 1 .. n : reports'[m + i] = closed[i]
      /\ \A k \in 1 .. m + n : k \in 1 .. m \/ (k - m \in 1 .. n /\ m + (k - m) = k)
  <2> DEFINE S == Range(reports) \cup Range(closed)
             a == reports \o closed
  <2>1. Range(reports) \subseteq S /\ Range(closed) \subseteq S
    OBVIOUS
  <2> HIDE DEF S
  <2>2. reports \in Seq(S) /\ closed \in Seq(S)
    BY <1>2, <1>6, <2>1, SeqMonotonic
  <2>3. /\ a \in Seq(S) /\ DOMAIN a = 1 .. Len(reports) + Len(closed)
        /\ \A i \in 1 .. Len(reports) : a[i] = reports[i]
        /\ \A i \in 1 .. Len(closed) : a[Len(reports) + i] = closed[i]
        /\ \A k \in 1 .. Len(reports) + Len(closed) :
              \/ k \in 1 .. Len(reports)
              \/ k - Len(reports) \in 1 .. Len(closed) /\ Len(reports) + (k - Len(reports)) = k
    BY <2>2, Joined
  <2>4. a = reports'
    BY <1>1
  <2> HIDE DEF a
  <2>5. a \in Seq(Range(a))
    BY <2>3, SeqOfRange
  <2> QED
    BY <1>6, <2>3, <2>4, <2>5 DEF m
<1>8. \A k \in DOMAIN reports' :
         \/ k \in DOMAIN reports /\ reports'[k] = reports[k]
         \/ \E i \in DOMAIN evaluated : k = m + i /\ reports'[k] = record(evaluated[i])
  <2> SUFFICES ASSUME NEW k \in 1 .. m + n
               PROVE  \/ k \in DOMAIN reports /\ reports'[k] = reports[k]
                      \/ \E i \in DOMAIN evaluated : k = m + i /\ reports'[k] = record(evaluated[i])
    BY <1>7
  <2>1. CASE k \in 1 .. m
    BY <1>3, <1>7, <2>1
  <2>2. CASE k - m \in 1 .. n /\ m + (k - m) = k
    <3> DEFINE i == k - m
    <3>1. i \in DOMAIN evaluated /\ k = m + i
      BY <1>3, <2>2
    <3>2. reports'[m + i] = closed[i] /\ closed[i] = record(evaluated[i])
      BY <1>4, <1>7, <2>2, <3>1
    <3> HIDE DEF i
    <3> QED
      BY <3>1, <3>2
  <2> QED
    BY <1>7, <2>1, <2>2
<1>9. /\ \A y : TriedOK(y) => TriedOK(y)'
      /\ \A y : ReportedOK(y) => ReportedOK(y)'
      /\ \A c, drop, e : ReportOf(c, drop, e) => ReportOf(c, drop, e)'
  BY <1>1, ReportsStay
<1>10. ASSUME NEW i \in DOMAIN evaluated
       PROVE  ReportedOK(record(evaluated[i]))
  <2> DEFINE e == evaluated[i]
  <2>1. TriedOK(e)
    BY <1>2
  <2> HIDE DEF e
  <2>2. e.candidate \in Proposal /\ ReportOf(e.candidate, FALSE, e.evidence)
    BY <2>1 DEF TriedOK
  <2>3. e.evidence.selected \/ e.evidence.reason # ""
    BY <2>2 DEF ReportOf
  <2>4. record(e).selected \/ record(e).reason # ""
    BY <1>5, <2>3
  <2> QED
    BY <1>5, <2>2, <2>4 DEF ReportedOK, e
<1>11. EntriesOK'
  <2>1. \A k \in DOMAIN reports' : ReportedOK(reports'[k])
    BY <1>2, <1>8, <1>10
  <2>2. evaluated' \in Seq(Range(evaluated')) /\ DOMAIN evaluated' = {}
    <3>1. \A S : <<>> \in Seq(S)
      OBVIOUS
    <3> QED
      BY <1>1, <3>1
  <2> QED
    BY <1>1, <1>2, <1>7, <1>9, <2>1, <2>2 DEF EntriesOK
<1>12. /\ \A i, j \in DOMAIN evaluated :
             /\ evaluated[i].candidate.rank = evaluated[j].candidate.rank
             /\ i # j => evaluated[i].candidate # evaluated[j].candidate
       /\ \A i \in DOMAIN evaluated, j \in DOMAIN proposals :
             evaluated[i].candidate.rank <= proposals[j].rank
       /\ \A i \in DOMAIN reports :
             /\ ~reports[i].selected /\ ~Fits(reports[i])
             /\ \A j \in DOMAIN evaluated : reports[i].candidate.rank <= evaluated[j].candidate.rank
             /\ \A j \in DOMAIN proposals : reports[i].candidate.rank <= proposals[j].rank
       /\ proposals \in Seq(Proposal) /\ RankOrdered(proposals)
  BY <1>1 DEF EventInv, SearchOK
<1>13. \A i \in DOMAIN evaluated : Fits(record(evaluated[i])) <=> evaluated[i].eligible
  BY <1>2, <1>5 DEF TriedOK, Fits
<1>14. deployed' = None
  BY <1>1 DEF EventInv, ChoiceOK
<1>15. DeployedAsJudged'
  BY <1>14 DEF DeployedAsJudged
<1>16. CASE Promoted = {}
  <2>1. selected' = None /\ \A i \in DOMAIN evaluated : ~evaluated[i].eligible
    BY <1>1, <1>16 DEF Promoted
  <2>2. \A k \in DOMAIN reports' : ~reports'[k].selected /\ ~Fits(reports'[k])
    <3>1. \A e : ~record(e).selected
      BY <1>5, <2>1 DEF marked
    <3> QED
      BY <1>8, <1>12, <1>13, <2>1, <3>1
  <2>3. \A k \in DOMAIN reports', j \in DOMAIN proposals : reports'[k].candidate.rank <= proposals[j].rank
    <3> SUFFICES ASSUME NEW k \in DOMAIN reports', NEW j \in DOMAIN proposals
                 PROVE  reports'[k].candidate.rank <= proposals[j].rank
      OBVIOUS
    <3>1. CASE k \in DOMAIN reports /\ reports'[k] = reports[k]
      BY <1>12, <3>1
    <3>2. CASE \E i \in DOMAIN evaluated : k = m + i /\ reports'[k] = record(evaluated[i])
      <4>1. PICK i \in DOMAIN evaluated : reports'[k] = record(evaluated[i])
        BY <3>2
      <4>2. reports'[k].candidate = evaluated[i].candidate
        BY <1>5, <4>1
      <4>3. evaluated[i].candidate.rank <= proposals[j].rank
        BY <1>12
      <4> QED
        BY <4>2, <4>3
    <3> QED
      BY <1>8, <3>1, <3>2
  <2>4. SearchOK'
    <3>1. DOMAIN evaluated' = {}
      BY <1>1
    <3> QED
      BY <1>1, <1>12, <2>2, <2>3, <3>1 DEF SearchOK
  <2>5. ChoiceOK'
    BY <1>1, <1>14, <1>16, <2>1 DEF EventInv, ChoiceOK
  <2>6. SearchIsAccounted'
    <3> DEFINE won == {i \in DOMAIN reports' : reports'[i].selected}
    <3>1. won = {}
      BY <2>2
    <3>2. Cardinality(won) = 0
      BY <3>1, FS_EmptySet
    <3>3. \A i \in DOMAIN reports' : reports'[i].selected \/ reports'[i].reason # ""
      BY <1>11 DEF EntriesOK, ReportedOK
    <3> QED
      BY <1>14, <2>1, <3>1, <3>2, <3>3 DEF SearchIsAccounted
  <2> QED
    BY <1>11, <1>15, <2>4, <2>5, <2>6 DEF EventInv
<1>17. CASE Promoted # {}
  <2> DEFINE w == Winner
             e == evaluated[w]
  <2>1. /\ w \in DOMAIN evaluated /\ e.eligible
        /\ \A j \in Promoted : evaluated[j].margin <= e.margin
    BY <1>17, WinnerIsBest DEF EventInv
  <2>2. selected' = e /\ phase' = "deploy"
    BY <1>1, <1>17
  <2>3. TriedOK(e)
    BY <1>2, <2>1
  <2> HIDE DEF w
  <2>4. e # None
    <3>1. e = [candidate |-> e.candidate, evidence |-> e.evidence, margin |-> e.margin,
               eligible |-> e.eligible]
      BY <2>3 DEF TriedOK
    <3>2. DOMAIN e = {"candidate", "evidence", "margin", "eligible"}
      BY <3>1
    <3>3. DOMAIN None = {"none"}
      BY DEF None
    <3> QED
      BY <3>2, <3>3
  <2>5. \A i \in DOMAIN evaluated : record(evaluated[i]).selected <=> i = w
    <3>1. \A y : marked(y) <=> y.candidate = e.candidate
      BY <2>2, <2>4 DEF marked
    <3> QED
      BY <1>5, <1>12, <2>1, <3>1
  <2>6. ChoiceOK'
    <3>1. ReportOf(e.candidate, FALSE, e.evidence)
      BY <2>3 DEF TriedOK
    <3>2. (ReportOf(selected.candidate, FALSE, selected.evidence))'
      BY <1>9, <2>2, <3>1
    <3>3. (source = "explicit")' = FALSE
      BY <1>1
    <3> QED
      BY <1>1, <1>14, <2>2, <2>4, <3>2, <3>3 DEF EventInv, ChoiceOK
  <2>7. SearchOK'
    BY <2>2 DEF SearchOK
  <2>8. SearchIsAccounted'
    <3> DEFINE won == {i \in DOMAIN reports' : reports'[i].selected}
               k == m + w
    <3>1. k \in DOMAIN reports' /\ reports'[k] = record(e)
      BY <1>3, <1>4, <1>7, <2>1
    <3>2. ASSUME NEW i \in DOMAIN reports', reports'[i].selected
          PROVE  i = k
      <4>1. CASE i \in DOMAIN reports /\ reports'[i] = reports[i]
        BY <1>12, <3>2, <4>1
      <4>2. CASE \E j \in DOMAIN evaluated : i = m + j /\ reports'[i] = record(evaluated[j])
        BY <2>5, <3>2, <4>2
      <4> QED
        BY <1>8, <4>1, <4>2
    <3>3. won = {k}
      BY <2>1, <2>5, <3>1, <3>2
    <3>4. Cardinality(won) = 1
      BY <3>3, FS_Singleton
    <3>5. \A i \in DOMAIN reports' : reports'[i].selected \/ reports'[i].reason # ""
      BY <1>11 DEF EntriesOK, ReportedOK
    <3>6. record(e).candidate = e.candidate /\ record(e).evidence = e.evidence
      BY <1>5
    <3>7. ASSUME NEW i \in DOMAIN reports'
          PROVE  /\ reports'[i].candidate.rank <= e.candidate.rank
                 /\ Fits(reports'[i]) => /\ reports'[i].candidate.rank = e.candidate.rank
                                         /\ Margin(reports'[i].evidence) <= Margin(e.evidence)
      <4>1. CASE i \in DOMAIN reports /\ reports'[i] = reports[i]
        BY <1>12, <2>1, <4>1
      <4>2. CASE \E j \in DOMAIN evaluated : i = m + j /\ reports'[i] = record(evaluated[j])
        <5>1. PICK j \in DOMAIN evaluated : reports'[i] = record(evaluated[j])
          BY <4>2
        <5>2. /\ reports'[i].candidate = evaluated[j].candidate
              /\ reports'[i].evidence = evaluated[j].evidence
          BY <1>5, <5>1
        <5>3. evaluated[j].candidate.rank = e.candidate.rank /\ e.candidate.rank \in Nat
          BY <1>12, <2>1, <2>3 DEF TriedOK, Proposal
        <5>4. Fits(reports'[i]) => j \in Promoted
          BY <1>13, <5>1 DEF Promoted
        <5>5. TriedOK(evaluated[j])
          BY <1>2
        <5>6. j \in Promoted => Margin(evaluated[j].evidence) <= Margin(e.evidence)
          BY <2>1, <2>3, <5>5 DEF TriedOK
        <5> QED
          BY <5>2, <5>3, <5>4, <5>6
      <4> QED
        BY <1>8, <4>1, <4>2
    <3>8. selected' # None
      BY <2>2, <2>4
    <3> HIDE DEF k, e
    <3>9. \A v \in won, i \in DOMAIN reports' :
             LET fit == reports'[i].evidence.selected /\ Margin(reports'[i].evidence) >= 0
             IN  /\ reports'[i].candidate.rank <= reports'[v].candidate.rank
                 /\ fit => /\ reports'[i].candidate.rank = reports'[v].candidate.rank
                           /\ Margin(reports'[i].evidence) <= Margin(reports'[v].evidence)
      BY <3>1, <3>3, <3>6, <3>7 DEF Fits
    <3> QED
      BY <1>14, <3>4, <3>5, <3>8, <3>9 DEF SearchIsAccounted
  <2> QED
    BY <1>11, <1>15, <2>6, <2>7, <2>8 DEF EventInv
<1> QED
  BY <1>16, <1>17

\* A declared schema is judged without its entity column.
LEMMA EvaluateExplicitKeeps == EventInv /\ EvaluateExplicit => EventInv'
<1> SUFFICES ASSUME EventInv, EvaluateExplicit
             PROVE  EventInv'
  OBVIOUS
<1> DEFINE c == Head(proposals)
<1>1. /\ phase = "search" /\ source = "explicit"
      /\ evaluated' = evaluated /\ reports' = reports /\ cache' = cache /\ deployed' = deployed
      /\ source' = source /\ task' = task /\ settings' = settings
  BY DEF EvaluateExplicit
<1>2. PICK o \in Outcomes(c.values) :
         IF o.gate = "raises"
         THEN phase' = "raised" /\ selected' = selected
         ELSE /\ phase' = "deploy"
              /\ selected' = [candidate |-> c, evidence |-> Report(c, TRUE, o, None)]
  BY DEF EvaluateExplicit
<1>3. /\ \A y : TriedOK(y) => TriedOK(y)'
      /\ \A y : ReportedOK(y) => ReportedOK(y)'
      /\ \A y, drop, e : ReportOf(y, drop, e) => ReportOf(y, drop, e)'
  BY <1>1, ReportsStay
<1>4. EntriesOK'
  BY <1>1, <1>3 DEF EventInv, EntriesOK
<1>5. SearchOK'
  BY <1>1 DEF SearchOK
<1>6. deployed' = None
  BY <1>1 DEF EventInv, ChoiceOK
<1>7. DeployedAsJudged'
  BY <1>6 DEF DeployedAsJudged
<1>8. SearchIsAccounted'
  BY <1>1 DEF SearchIsAccounted
<1>9. ChoiceOK'
  <2>1. task' \in Tasks
    BY <1>1 DEF EventInv, ChoiceOK
  <2>2. CASE o.gate = "raises"
    <3>1. phase' = "raised" /\ selected' = None
      BY <1>1, <1>2, <2>2 DEF EventInv, ChoiceOK
    <3> QED
      BY <1>6, <2>1, <3>1 DEF ChoiceOK
  <2>3. CASE o.gate # "raises"
    <3> DEFINE r == Report(c, TRUE, o, None)
    <3>1. phase' = "deploy" /\ selected' = [candidate |-> c, evidence |-> r]
      BY <1>2, <2>3
    <3>2. task \in Tasks /\ TRUE \in BOOLEAN
      BY DEF EventInv, ChoiceOK
    <3> HIDE DEF c
    <3>3. ReportOf(c, TRUE, r)
      BY <3>2, EvaluateReportsSo
    <3> HIDE DEF r
    <3>4. selected' # None /\ selected'.candidate = c /\ selected'.evidence = r
      <4>1. DOMAIN [candidate |-> c, evidence |-> r] = {"candidate", "evidence"}
        OBVIOUS
      <4>2. DOMAIN None = {"none"}
        BY DEF None
      <4> QED
        BY <3>1, <4>1, <4>2
    <3>5. (ReportOf(selected.candidate, TRUE, selected.evidence))'
      BY <1>3, <3>3, <3>4
    <3>6. (source = "explicit")' = TRUE
      BY <1>1
    <3> QED
      BY <1>6, <2>1, <3>1, <3>4, <3>5, <3>6 DEF ChoiceOK
  <2> QED
    BY <2>2, <2>3
<1> QED
  BY <1>4, <1>5, <1>7, <1>8, <1>9 DEF EventInv

\* The representation is rebuilt from the flags of the report, and it is the judged one.
LEMMA DeployKeeps == EventInv /\ Deploy => EventInv'
<1> SUFFICES ASSUME EventInv, Deploy
             PROVE  EventInv'
  OBVIOUS
<1> DEFINE e == selected.evidence
<1>1. /\ phase = "deploy"
      /\ evaluated' = evaluated /\ reports' = reports /\ cache' = cache /\ selected' = selected
      /\ source' = source /\ task' = task /\ settings' = settings
      /\ \/ phase' = "raised" /\ deployed' = deployed
         \/ /\ phase' = "fitted"
            /\ deployed' = [schema |-> selected.candidate, representation |-> Representation(e),
                            dropped |-> IF source = "explicit" THEN selected.candidate.entity ELSE 0]
  BY DEF Deploy
<1>2. /\ \A y : TriedOK(y) => TriedOK(y)'
      /\ \A y : ReportedOK(y) => ReportedOK(y)'
      /\ \A y, drop, f : ReportOf(y, drop, f) => ReportOf(y, drop, f)'
  BY <1>1, ReportsStay
<1>3. selected # None /\ deployed = None /\ ReportOf(selected.candidate, source = "explicit", e)
  BY <1>1 DEF EventInv, ChoiceOK
<1>4. EntriesOK'
  BY <1>1, <1>2 DEF EventInv, EntriesOK
<1>5. SearchOK'
  BY <1>1 DEF SearchOK
<1>6. ChoiceOK'
  <2>1. (ReportOf(selected.candidate, source = "explicit", selected.evidence))'
    BY <1>1, <1>2, <1>3
  <2> QED
    BY <1>1, <1>3, <2>1 DEF EventInv, ChoiceOK
<1>7. SearchIsAccounted'
  BY <1>1, <1>3 DEF EventInv, SearchIsAccounted
<1>8. DeployedAsJudged'
  <2>1. CASE deployed' = deployed
    BY <1>3, <2>1 DEF DeployedAsJudged
  <2>2. CASE deployed' = [schema |-> selected.candidate, representation |-> Representation(e),
                          dropped |-> IF source = "explicit" THEN selected.candidate.entity ELSE 0]
    <3>1. /\ e.schema = selected.candidate
          /\ e.baseline = Baseline(selected.candidate, source = "explicit")
          /\ Representation(e) = IF e.selected THEN e.representation ELSE "raw"
      BY <1>3 DEF ReportOf
    <3>2. e.baseline.dropped = IF source = "explicit" THEN selected.candidate.entity ELSE 0
      BY <3>1 DEF Baseline
    <3>3. e.selected => \A i \in 1 .. 5 : (Checks(e.decision.m)[i][2])'
      <4>1. (ReportOf(selected.candidate, source = "explicit", selected.evidence))'
        BY <1>6, <1>1, <1>3 DEF ChoiceOK
      <4> QED
        BY <1>1, <4>1 DEF ReportOf
    <3>4. /\ deployed'.schema = selected.candidate
          /\ deployed'.representation = Representation(e)
          /\ deployed'.dropped = IF source = "explicit" THEN selected.candidate.entity ELSE 0
      BY <2>2
    <3> QED
      BY <1>1, <3>1, <3>2, <3>3, <3>4 DEF DeployedAsJudged
  <2> QED
    BY <1>1, <2>1, <2>2
<1> QED
  BY <1>4, <1>5, <1>6, <1>7, <1>8 DEF EventInv

\* No schema was promoted: nothing is deployed.
LEMMA OrdinaryFitKeeps == EventInv /\ OrdinaryFit => EventInv'
<1> SUFFICES ASSUME EventInv, OrdinaryFit
             PROVE  EventInv'
  OBVIOUS
<1>1. /\ phase = "ordinary" /\ phase' = "fitted"
      /\ evaluated' = evaluated /\ reports' = reports /\ cache' = cache /\ selected' = selected
      /\ deployed' = deployed /\ source' = source /\ task' = task /\ settings' = settings
  BY DEF OrdinaryFit
<1>2. /\ \A y : TriedOK(y) => TriedOK(y)'
      /\ \A y : ReportedOK(y) => ReportedOK(y)'
  BY <1>1, ReportsStay
<1>3. selected = None /\ deployed = None
  BY <1>1 DEF EventInv, ChoiceOK
<1>4. EntriesOK'
  BY <1>1, <1>2 DEF EventInv, EntriesOK
<1>5. SearchOK'
  BY <1>1 DEF SearchOK
<1>6. ChoiceOK'
  BY <1>1, <1>3 DEF EventInv, ChoiceOK
<1>7. SearchIsAccounted'
  BY <1>1 DEF EventInv, SearchIsAccounted
<1>8. DeployedAsJudged'
  BY <1>1, <1>3 DEF DeployedAsJudged
<1> QED
  BY <1>4, <1>5, <1>6, <1>7, <1>8 DEF EventInv

\* The choice is forgotten when the map is installed.
LEMMA InstallKeeps == EventInv /\ Install => EventInv'
<1> SUFFICES ASSUME EventInv, Install
             PROVE  EventInv'
  OBVIOUS
<1>1. /\ cache' = <<>> /\ evaluated' = <<>> /\ reports' = <<>>
      /\ selected' = None /\ deployed' = None
      /\ task' = "classification" /\ source' = "explicit" /\ phase' = "replay"
  BY DEF Install, ChoiceForgotten
<1>2. EntriesOK'
  <2>1. \A S : <<>> \in Seq(S)
    OBVIOUS
  <2>2. DOMAIN evaluated' = {} /\ DOMAIN reports' = {} /\ DOMAIN cache' = {}
    BY <1>1
  <2> QED
    BY <1>1, <2>1, <2>2 DEF EntriesOK
<1>3. SearchOK'
  BY <1>1 DEF SearchOK
<1>4. ChoiceOK'
  BY <1>1 DEF ChoiceOK, Tasks
<1>5. SearchIsAccounted'
  BY <1>1 DEF SearchIsAccounted
<1>6. DeployedAsJudged'
  BY <1>1 DEF DeployedAsJudged
<1> QED
  BY <1>2, <1>3, <1>4, <1>5, <1>6 DEF EventInv

\* The replay of the map leaves the variables of the choice alone.
LEMMA ReplayKeeps == EventInv /\ UNCHANGED eventVars => EventInv'
<1> SUFFICES ASSUME EventInv, UNCHANGED eventVars
             PROVE  EventInv'
  OBVIOUS
<1>1. /\ phase' = phase /\ proposals' = proposals
      /\ evaluated' = evaluated /\ reports' = reports /\ cache' = cache /\ selected' = selected
      /\ deployed' = deployed /\ source' = source /\ task' = task /\ settings' = settings
  BY DEF eventVars
<1>2. /\ \A y : TriedOK(y) => TriedOK(y)'
      /\ \A y : ReportedOK(y) => ReportedOK(y)'
      /\ \A y, drop, f : ReportOf(y, drop, f) => ReportOf(y, drop, f)'
  BY <1>1, ReportsStay
<1>3. EntriesOK'
  BY <1>1, <1>2 DEF EventInv, EntriesOK
<1>4. SearchOK'
  BY <1>1 DEF EventInv, SearchOK
<1>5. ChoiceOK'
  BY <1>1, <1>2 DEF EventInv, ChoiceOK
<1>6. SearchIsAccounted'
  BY <1>1 DEF EventInv, SearchIsAccounted
<1>7. DeployedAsJudged'
  <2>1. \A m : Checks(m)' = Checks(m)
    BY <1>1 DEF Checks, ForwardConsistent, NoSevereLoss, Passed, Evaluated
  <2> QED
    BY <1>1, <2>1 DEF EventInv, DeployedAsJudged
<1> QED
  BY <1>3, <1>4, <1>5, <1>6, <1>7 DEF EventInv

-----------------------------------------------------------------------------
(* The theorems.                                                           *)

\* Whatever the tables, measurements, settings and declared schemas: the search state, the
\* reports and the deployed schema stay consistent through the whole fit.
THEOREM EventInvariant == Spec => []EventInv
<1>1. Init => EventInv
  BY InitHolds
<1>2. EventInv /\ [Next]_<<eventVars, replayVars>> => EventInv'
  <2> SUFFICES ASSUME EventInv, [Next]_<<eventVars, replayVars>>
               PROVE  EventInv'
    OBVIOUS
  <2>1. CASE EventNext
    BY <2>1, EvaluateKeeps, CloseRankKeeps, EvaluateExplicitKeeps, DeployKeeps, OrdinaryFitKeeps
       DEF EventNext
  <2>2. CASE Install
    BY <2>2, InstallKeeps
  <2>3. CASE UNCHANGED eventVars
    BY <2>3, ReplayKeeps
  <2> QED
    BY <2>1, <2>2, <2>3 DEF Next
<1> QED
  BY <1>1, <1>2, PTL DEF Spec

\* What is deployed is the schema and the representation whose own measurement passed every
\* check, on a baseline with the same columns; otherwise the raw table is fitted.
THEOREM DeploysWhatWasJudged == Spec => []DeployedAsJudged
<1>1. EventInv => DeployedAsJudged
  BY DEF EventInv
<1> QED
  BY <1>1, EventInvariant, PTL

\* Though baselines are cached by the timestamp column, every candidate is judged against
\* the raw table it would be compared with alone.
THEOREM CacheKeepsBaselines == Spec => []JudgedAgainstOwnBaseline
<1>1. EventInv => JudgedAgainstOwnBaseline
  <2> SUFFICES ASSUME EventInv, NEW e \in Range(evaluated) \cup Range(reports)
               PROVE  e.evidence.baseline = Baseline(e.candidate, FALSE)
    BY DEF JudgedAgainstOwnBaseline
  <2>1. CASE e \in Range(evaluated)
    BY <2>1 DEF EventInv, EntriesOK, TriedOK, ReportOf, Range
  <2>2. CASE e \in Range(reports)
    BY <2>2 DEF EventInv, EntriesOK, ReportedOK, ReportOf, Range
  <2> QED
    BY <2>1, <2>2
<1> QED
  BY <1>1, EventInvariant, PTL

\* The search accounts for every proposal it tried: at most one is marked selected, exactly
\* when an event table is fitted, and none that was tried before or beside it was better.
THEOREM SearchAccountsForAll == Spec => []SearchIsAccounted
<1>1. EventInv => SearchIsAccounted
  BY DEF EventInv
<1> QED
  BY <1>1, EventInvariant, PTL
=============================================================================
